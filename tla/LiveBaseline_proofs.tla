------------------------- MODULE LiveBaseline_proofs -------------------------
(***************************************************************************)
(* Theorems about LiveBaseline, for any cohort, operational copy, faults   *)
(* and deaths.                                                             *)
(***************************************************************************)
EXTENDS LiveBaseline, FiniteSetTheorems, TLAPS

Snapshots == Etfs \X Dates
Requested == [etf : Etfs, date : Dates]
Phases == {"idle", "read", "fetch", "judge", "reconcile"}

\* What a history is: it never holds more snapshots than some number.
IsHistory(h) ==
    /\ DOMAIN h \subseteq Snapshots /\ IsFiniteSet(DOMAIN h)
    /\ h \in [DOMAIN h -> Contents]

\* A provider's own history: not there, or with what a history holds.
IsCache(own) == own \in {Missing, Unreadable} \/ (own = File(own.data) /\ IsHistory(own.data))

\* While a provider is asked, its own ETFs are asked about; while histories are compared,
\* there is an item for every provider before this one.
AskedInv ==
    /\ cmd.requests \subseteq Requested
    /\ cmd.pc = "reconcile" => /\ IsHistory(cmd.stored)
                               /\ \E S : cmd.found \in Seq(S)
                               /\ Len(cmd.found) = cmd.turn - 1
    /\ cmd.pc = "fetch" => /\ IsHistory(cmd.staged)
                           /\ \A r \in cmd.requests : r.etf \in Range(Tracked[Provider])

TypeInv ==
    /\ IsHistory(history)
    /\ readable \in BOOLEAN
    /\ DOMAIN cache = Range(Cohort)
    /\ \A p \in Range(Cohort) : IsCache(cache[p])
    /\ DOMAIN cmd = DOMAIN Idle
    /\ cmd.pc \in Phases /\ cmd.turn \in DOMAIN Cohort /\ cmd.attempts \in 0..BlockedRetries
    /\ cmd.bulk \in BOOLEAN /\ cmd.complete \in BOOLEAN
    /\ AskedInv
    /\ summary \in [bulk : BOOLEAN, completed : BOOLEAN]
    /\ DOMAIN report \in {{}, DOMAIN Cohort}
    /\ faults \in 0..MaxFaults /\ crashes \in 0..MaxCrashes
    /\ strayed \subseteq Etfs /\ refreshed \subseteq Snapshots
    /\ direct \subseteq Range(Cohort) \X Snapshots

-----------------------------------------------------------------------------
(* The plan *)

LEMMA CohortDomain ==
    /\ Len(Cohort) \in Nat \ {0} /\ DOMAIN Cohort = 1..Len(Cohort)
    /\ \A i \in DOMAIN Cohort : Cohort[i] \in Range(Cohort)
    /\ \A p \in Range(Cohort) : \E i \in DOMAIN Cohort : Cohort[i] = p
<1>1. Cohort \in Seq(Range(Cohort)) /\ Cohort # << >>
  BY CohortAssumption
<1>2. Len(Cohort) \in Nat \ {0} /\ DOMAIN Cohort = 1..Len(Cohort)
  BY <1>1
<1> QED
  BY <1>2 DEF Range

LEMMA TrackedEtfs ==
    ASSUME NEW p \in Range(Cohort)
    PROVE  /\ DOMAIN Tracked[p] \subseteq Nat
           /\ Range(Tracked[p]) \subseteq Etfs
           /\ Representative(p) \in Range(Tracked[p])
           /\ \A e \in Range(Tracked[p]) : Operational[e] \subseteq Dates /\ IsFiniteSet(Operational[e])
           /\ Anchors(p) \subseteq Dates
           /\ Operational[Representative(p)] # {}
<1>1. Tracked[p] \in Seq(Etfs) /\ Tracked[p] # << >> /\ Operational[Head(Tracked[p])] # {}
  BY CohortAssumption
<1>2. /\ DOMAIN Tracked[p] = 1..Len(Tracked[p]) /\ Len(Tracked[p]) \in Nat \ {0}
      /\ Head(Tracked[p]) = Tracked[p][1]
      /\ \A i \in DOMAIN Tracked[p] : Tracked[p][i] \in Etfs
  BY <1>1
<1>3. Range(Tracked[p]) \subseteq Etfs
  BY <1>2 DEF Range
<1>4. 1..MaxDate \subseteq Dates /\ IsFiniteSet(1..MaxDate)
  BY BoundsAssumption, FS_Interval DEF Dates
<1>5. \A e \in Etfs : Operational[e] \subseteq Dates /\ IsFiniteSet(Operational[e])
  <2> SUFFICES ASSUME NEW e \in Etfs
               PROVE  Operational[e] \subseteq Dates /\ IsFiniteSet(Operational[e])
    OBVIOUS
  <2>1. Operational[e] \subseteq 1..MaxDate
    BY CohortAssumption
  <2> QED
    BY <1>4, <2>1, FS_Subset
<1>6. Anchors(p) \subseteq Dates
  BY <1>3, <1>5 DEF Anchors
<1>7. Representative(p) \in Range(Tracked[p])
  BY <1>2 DEF Representative, Range
<1> QED
  BY <1>1, <1>2, <1>3, <1>5, <1>6, <1>7 DEF Representative

\* The naturals are well founded: any of them have a least one.
Below == {p \in Nat \X Nat : p[1] < p[2]}

LEMMA Least ==
    ASSUME NEW T, T \subseteq Nat, T # {}
    PROVE  \E x \in T : \A y \in T : x =< y
<1>1. IsWellFoundedOn(Below, Nat)
  BY NatLessThanWellFounded, Zenon DEF OpToRel, Below
<1>2. \E x \in T : \A y \in T : ~ (<<y, x>> \in Below)
  BY <1>1, WFMin, Zenon
<1>3. PICK x \in T : \A y \in T : ~ (<<y, x>> \in Below)
  BY <1>2
<1>4. ASSUME NEW y \in T, y < x PROVE FALSE
  <2>1. <<y, x>> \in Nat \X Nat
    OBVIOUS
  <2>2. <<y, x>> \in Below
    BY <1>4, <2>1 DEF Below
  <2> QED
    BY <1>3, <2>2
<1>5. \A y \in T : x =< y
  BY <1>4
<1> QED
  BY <1>5

LEMMA MinOfSome ==
    ASSUME NEW S, S \subseteq Nat, S # {}
    PROVE  Min(S) \in S
BY Least DEF Min

LEMMA MaxOfSome ==
    ASSUME NEW S, S \subseteq Dates, S # {}
    PROVE  Max(S) \in S
<1> DEFINE T == {n \in Nat : MaxDate - n \in S}
<1>1. MaxDate \in Nat /\ \A d \in S : d \in Int /\ MaxDate - d \in Nat
                                      /\ MaxDate - (MaxDate - d) = d
  BY BoundsAssumption DEF Dates
<1>2. T # {}
  BY <1>1
<1>3. PICK n \in T : \A m \in T : n =< m
  BY <1>2, Least
<1>4. \A d \in S : MaxDate - n >= d
  <2> SUFFICES ASSUME NEW d \in S PROVE MaxDate - n >= d
    OBVIOUS
  <2>1. MaxDate - d \in T
    BY <1>1
  <2> QED
    BY <1>1, <1>3, <2>1
<1>5. MaxDate - n \in S
  BY <1>3
<1> QED
  BY <1>4, <1>5 DEF Max

LEMMA TwoOfMany ==
    ASSUME NEW S, S \subseteq Dates, IsFiniteSet(S), Cardinality(S) >= 2
    PROVE  TwoLatest(S) \subseteq S /\ TwoLatest(S) # {}
<1>0. Cardinality(S) # 0 /\ Cardinality(S) # 1
  BY FS_CardinalityType
<1>1. S # {} /\ \A x : S # {x}
  BY <1>0, FS_EmptySet, FS_Singleton, Zenon
<1>2. Max(S) \in S
  BY <1>1, MaxOfSome
<1>3. S \ {Max(S)} # {} /\ S \ {Max(S)} \subseteq Dates
  BY <1>1, <1>2
<1>4. Max(S \ {Max(S)}) \in S
  BY <1>3, MaxOfSome
<1> QED
  BY <1>2, <1>4 DEF TwoLatest

LEMMA DatesOfHistory ==
    ASSUME NEW h, IsHistory(h), NEW e
    PROVE  /\ DatesIn(h, e) \subseteq Dates /\ IsFiniteSet(DatesIn(h, e))
           /\ \A d : d \in DatesIn(h, e) <=> <<e, d>> \in DOMAIN h
<1> DEFINE K == {l \in DOMAIN h : l[1] = e}
<1>1. \A l \in DOMAIN h : l = <<l[1], l[2]>> /\ l[2] \in Dates
  BY DEF IsHistory, Snapshots
<1>2. K \subseteq DOMAIN h /\ IsFiniteSet(K)
  BY FS_Subset DEF IsHistory
<1>3. IsFiniteSet({k[2] : k \in K})
  <2> DEFINE f == [k \in K |-> k[2]]
  <2>1. f \in Surjection(K, {k[2] : k \in K})
    BY DEF Surjection
  <2> QED
    BY <1>2, <2>1, FS_Surjection
<1>4. \A d : d \in DatesIn(h, e) <=> <<e, d>> \in DOMAIN h
  BY <1>1 DEF DatesIn
<1> QED
  BY <1>1, <1>3, <1>4 DEF DatesIn

\* The three ways a window comes about.
LEMMA Windows ==
    ASSUME NEW h, IsHistory(h), NEW p \in Range(Cohort), NEW e \in Range(Tracked[p])
    PROVE  LET have == DatesIn(h, e)
               latest == IF have # {} THEN have ELSE Anchors(p)
           IN  /\ Cardinality(Operational[e]) >= 2 => Window(h, p, e) = TwoLatest(Operational[e])
               /\ (~(Cardinality(Operational[e]) >= 2) /\ Cardinality(have) >= 2) =>
                     Window(h, p, e) = TwoLatest(have)
               /\ (~(Cardinality(Operational[e]) >= 2) /\ ~(Cardinality(have) >= 2)) =>
                     Window(h, p, e) =
                        IF latest = {} THEN {} ELSE {Max(latest), Previous(Max(latest))}
<1>1. Cardinality(Operational[e]) \in Nat /\ Cardinality(DatesIn(h, e)) \in Nat
  BY TrackedEtfs, DatesOfHistory, FS_CardinalityType
<1> QED
  BY <1>1 DEF Window

LEMMA WindowDates ==
    ASSUME NEW h, IsHistory(h), NEW p \in Range(Cohort), NEW e \in Range(Tracked[p])
    PROVE  Window(h, p, e) \subseteq Dates
<1> DEFINE have == DatesIn(h, e)
           latest == IF have # {} THEN have ELSE Anchors(p)
<1>1. Operational[e] \subseteq Dates /\ IsFiniteSet(Operational[e])
  BY TrackedEtfs
<1>2. have \subseteq Dates /\ IsFiniteSet(have)
  BY DatesOfHistory
<1>3. latest \subseteq Dates
  BY <1>2, TrackedEtfs
<1>4. latest # {} => Max(latest) \in Dates /\ Previous(Max(latest)) \in Dates
  <2> SUFFICES ASSUME latest # {}
               PROVE  Max(latest) \in Dates /\ Previous(Max(latest)) \in Dates
    OBVIOUS
  <2>1. Max(latest) \in Dates
    BY <1>3, MaxOfSome
  <2> HIDE DEF latest
  <2> QED
    BY <2>1, BoundsAssumption DEF Dates, Previous
<1>5. CASE Cardinality(Operational[e]) >= 2
  <2>1. Window(h, p, e) = TwoLatest(Operational[e])
    BY <1>5, Windows
  <2> QED
    BY <1>1, <1>5, <2>1, TwoOfMany
<1>6. CASE ~(Cardinality(Operational[e]) >= 2) /\ Cardinality(have) >= 2
  <2>1. Window(h, p, e) = TwoLatest(have)
    BY <1>6, Windows
  <2> QED
    BY <1>2, <1>6, <2>1, TwoOfMany
<1>7. CASE ~(Cardinality(Operational[e]) >= 2) /\ ~(Cardinality(have) >= 2)
  <2>1. Window(h, p, e) = IF latest = {} THEN {} ELSE {Max(latest), Previous(Max(latest))}
    BY <1>7, Windows
  <2> HIDE DEF latest
  <2> QED
    BY <1>4, <2>1
<1> QED
  BY <1>5, <1>6, <1>7

LEMMA RequestsOfPlan ==
    ASSUME NEW h, IsHistory(h), NEW p \in Range(Cohort)
    PROVE  /\ Requests(h, p) \subseteq Requested
           /\ \A r \in Requests(h, p) : r.etf \in Range(Tracked[p])
           /\ \A e \in Range(Tracked[p]) : \A d \in Window(h, p, e) :
                 <<e, d>> \in DOMAIN h \/ [etf |-> e, date |-> d] \in Requests(h, p)
<1>1. \A e \in Range(Tracked[p]) : e \in Etfs /\ MissingDates(h, p, e) \subseteq Dates
  BY TrackedEtfs, WindowDates DEF MissingDates
<1>2. \A r \in Requests(h, p) :
        \E e \in Range(Tracked[p]) : \E d \in MissingDates(h, p, e) : r = [etf |-> e, date |-> d]
  BY DEF Requests
<1>3. \A e \in Range(Tracked[p]) : \A d \in MissingDates(h, p, e) :
        [etf |-> e, date |-> d] \in Requests(h, p)
  BY DEF Requests
<1>4. \A e \in Range(Tracked[p]) : \A d \in Window(h, p, e) :
        <<e, d>> \in DOMAIN h \/ d \in MissingDates(h, p, e)
  BY DatesOfHistory DEF MissingDates
<1> QED
  BY <1>1, <1>2, <1>3, <1>4 DEF Requested

\* What is asked next is one of the requests.
LEMMA NextIsRequested ==
    ASSUME NEW p \in Range(Cohort), NEW Q, Q \subseteq Requested, Q # {},
           \A r \in Q : r.etf \in Range(Tracked[p])
    PROVE  NextRequest(p, Q) \in Q
<1> DEFINE J == {j \in DOMAIN Tracked[p] : \E r \in Q : r.etf = Tracked[p][j]}
           i == Min(J)
           e == Tracked[p][i]
           D == {r.date : r \in {s \in Q : s.etf = e}}
<1>1. J \subseteq Nat /\ J # {}
  BY TrackedEtfs DEF Range
<1>2. i \in J
  BY <1>1, MinOfSome
<1>3. \E r \in Q : r.etf = e
  BY <1>2
<1> HIDE DEF e
<1>4. D \subseteq Dates /\ D # {}
  BY <1>3 DEF Requested
<1>5. Max(D) \in D
  BY <1>4, MaxOfSome
<1>6. PICK r \in Q : r.etf = e /\ r.date = Max(D)
  BY <1>5
<1>7. NextRequest(p, Q) = [etf |-> e, date |-> Max(D)]
  BY DEF NextRequest, e
<1> QED
  BY <1>6, <1>7 DEF Requested

-----------------------------------------------------------------------------
(* Types *)

LEMMA IdleShape ==
    /\ DOMAIN Idle = {"pc", "bulk", "turn", "requests", "stored", "staged", "attempts",
                      "answer", "outcome", "agreed", "complete", "create", "found"}
    /\ Idle.pc = "idle" /\ Idle.bulk = FALSE /\ Idle.turn = 1 /\ Idle.agreed = TRUE
    /\ Idle.outcome = "none" /\ Idle.turn \in DOMAIN Cohort /\ Idle.complete = TRUE
    /\ Idle.requests = {} /\ Idle.attempts = 0
    /\ Idle.create = FALSE /\ Idle.found = << >>
BY CohortDomain DEF Idle

LEMMA IdleTypes ==
    /\ Idle.pc \in Phases /\ Idle.pc \notin {"fetch", "reconcile"} /\ Idle.turn \in DOMAIN Cohort
    /\ Idle.attempts \in 0..BlockedRetries /\ Idle.bulk \in BOOLEAN /\ Idle.complete \in BOOLEAN
    /\ Idle.requests = {}
<1>1. Idle.pc \in Phases /\ Idle.pc \notin {"fetch", "reconcile"} /\ Idle.attempts \in 0..BlockedRetries
  BY IdleShape DEF Phases, BlockedRetries
<1>2. Idle.bulk \in BOOLEAN /\ Idle.complete \in BOOLEAN
  BY IdleShape, Zenon
<1> QED
  BY <1>1, <1>2, IdleShape

LEMMA CacheShape ==
    /\ Missing.is # "file" /\ Unreadable.is # "file"
    /\ \A h : File(h).is = "file" /\ File(h).data = h
    /\ \A h : File(h) # Missing /\ File(h) # Unreadable
BY DEF Missing, Unreadable, File

LEMMA AskingIsRequested ==
    ASSUME TypeInv, cmd.pc = "fetch", cmd.requests # {}
    PROVE  /\ Asking \in cmd.requests /\ Asking \in Requested
           /\ Asking.etf \in Range(Tracked[Provider])
           /\ Provider \in Range(Cohort)
<1>1. Provider \in Range(Cohort)
  BY CohortDomain DEF TypeInv, Provider
<1>2. cmd.requests \subseteq Requested /\ \A r \in cmd.requests : r.etf \in Range(Tracked[Provider])
  BY DEF TypeInv, AskedInv
<1>3. Asking \in cmd.requests
  BY <1>1, <1>2, NextIsRequested DEF Asking
<1> QED
  BY <1>1, <1>2, <1>3

LEMMA TypeInit == Init => TypeInv
<1> SUFFICES ASSUME Init PROVE TypeInv
  OBVIOUS
<1>1. cmd = Idle /\ history = << >> /\ cache = [p \in Range(Cohort) |-> Missing]
  BY DEF Init
<1>2. DOMAIN history = {} /\ IsFiniteSet({}) /\ history \in [DOMAIN history -> Contents]
  BY <1>1, FS_EmptySet
<1>3. IsHistory(history)
  BY <1>2 DEF IsHistory
<1>4. AskedInv
  BY <1>1, IdleShape DEF AskedInv
<1>5. summary \in [bulk : BOOLEAN, completed : BOOLEAN] /\ DOMAIN report = {}
  BY DEF Init, NoSummary, NoReport
<1>6. \A p \in Range(Cohort) : IsCache(cache[p])
  BY <1>1 DEF IsCache
<1> QED
  BY <1>1, <1>3, <1>4, <1>5, <1>6, IdleTypes, BoundsAssumption DEF Init, TypeInv

\* A step of the command that leaves the files alone.
LEMMA TypeOfStep ==
    ASSUME TypeInv, UNCHANGED <<history, readable, cache, crashes, refreshed, direct>>,
           DOMAIN report' \in {{}, DOMAIN Cohort},
           DOMAIN cmd' = DOMAIN Idle, cmd'.pc \in Phases, cmd'.turn \in DOMAIN Cohort,
           cmd'.attempts \in 0..BlockedRetries, cmd'.bulk \in BOOLEAN, cmd'.complete \in BOOLEAN,
           AskedInv', summary' \in [bulk : BOOLEAN, completed : BOOLEAN],
           faults' \in 0..MaxFaults, strayed' \subseteq Etfs
    PROVE  TypeInv'
BY DEF TypeInv

LEMMA TypeOfFresh ==
    ASSUME NEW pc \in Phases, pc \notin {"fetch", "reconcile"}, NEW bulk \in BOOLEAN,
           \/ cmd' = [Idle EXCEPT !.pc = pc] /\ bulk = FALSE
           \/ cmd' = [Idle EXCEPT !.pc = pc, !.bulk = TRUE] /\ bulk = TRUE
    PROVE  /\ DOMAIN cmd' = DOMAIN Idle /\ cmd'.pc = pc /\ cmd'.turn \in DOMAIN Cohort
           /\ cmd'.attempts \in 0..BlockedRetries /\ cmd'.bulk = bulk /\ cmd'.complete = TRUE
           /\ cmd'.turn = 1 /\ AskedInv'
<1>1. /\ DOMAIN cmd' = DOMAIN Idle /\ cmd'.pc = pc /\ cmd'.turn = 1
      /\ cmd'.attempts = 0 /\ cmd'.bulk = bulk /\ cmd'.complete = TRUE /\ cmd'.requests = {}
  BY IdleShape
<1> QED
  BY <1>1, IdleShape DEF AskedInv, BlockedRetries

LEMMA TypeOfRead ==
    ASSUME TypeInv, Read
    PROVE  TypeInv'
<1> DEFINE r == Representative(Provider)
           requests == IF cmd.bulk THEN Requests(history, Provider)
                       ELSE {[etf |-> r, date |-> Max(Operational[r])]}
           complete == cmd.complete /\ (cmd.bulk => ~Gap(history, Provider))
           new == [cmd EXCEPT !.pc = "fetch", !.requests = requests, !.attempts = 0,
                              !.stored = history, !.staged = history, !.complete = complete]
<1>1. /\ UNCHANGED <<history, readable, cache, summary, report, bounds, observed>>
      /\ cmd' = new \/ cmd' = Idle
  BY DEF Read
<1>2. Provider \in Range(Cohort)
  BY CohortDomain DEF TypeInv, Provider
<1>3. requests \subseteq Requested /\ \A q \in requests : q.etf \in Range(Tracked[Provider])
  <2>1. CASE cmd.bulk
    BY <1>2, <2>1, RequestsOfPlan DEF TypeInv
  <2>2. CASE ~cmd.bulk
    <3>1. r \in Range(Tracked[Provider]) /\ r \in Etfs /\ Operational[r] \subseteq Dates
          /\ Operational[r] # {}
      BY <1>2, TrackedEtfs
    <3>2. Max(Operational[r]) \in Dates
      BY <3>1, MaxOfSome
    <3> QED
      BY <2>2, <3>1, <3>2 DEF Requested
  <2> QED
    BY <2>1, <2>2
<1>4. CASE cmd' = new
  <2>1. DOMAIN cmd = DOMAIN Idle /\ cmd.turn \in DOMAIN Cohort /\ cmd.bulk \in BOOLEAN
        /\ complete \in BOOLEAN
    BY DEF TypeInv
  <2> HIDE DEF requests, complete
  <2>2. /\ DOMAIN new = DOMAIN Idle /\ new.pc = "fetch" /\ new.requests = requests
        /\ new.staged = history /\ new.turn = cmd.turn
        /\ new.bulk = cmd.bulk /\ new.complete = complete /\ new.attempts = 0
    BY <2>1, IdleShape
  <2> HIDE DEF new
  <2>3. Provider' = Provider
    BY <1>4, <2>2 DEF Provider
  <2>4. AskedInv'
    BY <1>1, <1>3, <1>4, <2>2, <2>3 DEF AskedInv, TypeInv
  <2> QED
    BY <1>1, <1>4, <2>1, <2>2, <2>4, TypeOfStep DEF bounds, observed, TypeInv, Phases, BlockedRetries
<1>5. CASE cmd' = Idle
  <2>1. AskedInv'
    BY <1>5, IdleShape DEF AskedInv
  <2> QED
    BY <1>1, <1>5, <2>1, IdleTypes, TypeOfStep DEF bounds, observed, TypeInv
<1> QED
  BY <1>1, <1>4, <1>5

LEMMA PutIsHistory ==
    ASSUME NEW h, IsHistory(h), NEW key \in Snapshots, NEW content \in Contents
    PROVE  IsHistory(Put(h, key, content))
<1>1. DOMAIN Put(h, key, content) = DOMAIN h \union {key}
  BY DEF Put
<1>2. IsFiniteSet(DOMAIN h \union {key})
  BY FS_AddElement DEF IsHistory
<1>3. Put(h, key, content) \in [DOMAIN h \union {key} -> Contents]
  BY DEF Put, IsHistory
<1> QED
  BY <1>1, <1>2, <1>3 DEF IsHistory

\* What an answer to the next request may be.
LEMMA AnswerTypes ==
    ASSUME TypeInv, cmd.pc = "fetch", cmd.requests # {},
           NEW answer, answer = Asked(Asking) \/ answer \in Answers(Asking)
    PROVE  /\ answer.is = "rows" => answer.date \in Dates /\ answer.content \in Contents
           /\ answer.is \in {"rows", "failed", "malformed"} \union Refused
<1>1. Asking.date \in Dates
  BY AskingIsRequested DEF Requested
<1>2. \A d \in (1..Asking.date) \union {Asking.date} : d \in Dates
  BY <1>1, BoundsAssumption DEF Dates
<1>3. \/ \E d \in (1..Asking.date) \union {Asking.date}, c \in Contents : answer = Rows(d, c)
      \/ \E o \in {"failed", "malformed"} \union Refused : answer = Without(o)
  BY DEF Asked, Answers, Contents
<1> QED
  BY <1>2, <1>3 DEF Rows, Without, Refused

LEMMA TypeOfFetch ==
    ASSUME TypeInv, NEW answer, Fetch(answer), UNCHANGED <<cache>>, faults' \in 0..MaxFaults,
           answer = Asked(Asking) \/ answer \in Answers(Asking)
    PROVE  TypeInv'
<1> DEFINE q == Asking
           outcome == Outcome(cmd.stored, q.etf, answer)
           requests == IF outcome \in Refused THEN {} ELSE cmd.requests \ {q}
           staged == IF outcome = "fetched"
                     THEN Put(cmd.staged, <<q.etf, answer.date>>, answer.content)
                     ELSE cmd.staged
           complete == cmd.complete /\ (cmd.bulk => ~LeavesIncomplete(outcome))
           again == [cmd EXCEPT !.attempts = @ + 1]
           new == [cmd EXCEPT !.attempts = 0, !.answer = answer, !.outcome = outcome,
                              !.requests = requests, !.staged = staged,
                              !.complete = complete]
<1>1. /\ cmd.pc = "fetch" /\ cmd.requests # {}
      /\ UNCHANGED <<history, readable, summary, report, crashes, refreshed, direct>>
      /\ \/ cmd' = again /\ cmd.attempts < BlockedRetries
         \/ cmd' = Idle
         \/ cmd' = new
  BY DEF Fetch, Retries
<1>2. /\ q \in cmd.requests /\ q \in Requested /\ q.etf \in Range(Tracked[Provider])
  BY <1>1, AskingIsRequested
<1>3. strayed' \subseteq Etfs
  BY <1>2 DEF Fetch, TypeInv, Requested
<1>4. /\ DOMAIN cmd = DOMAIN Idle /\ cmd.turn \in DOMAIN Cohort /\ cmd.bulk \in BOOLEAN
      /\ cmd.complete \in BOOLEAN /\ cmd.attempts \in 0..BlockedRetries
      /\ cmd.requests \subseteq Requested /\ IsHistory(cmd.staged)
      /\ \A r \in cmd.requests : r.etf \in Range(Tracked[Provider])
  BY <1>1 DEF TypeInv, AskedInv
<1>5. CASE cmd' = again /\ cmd.attempts < BlockedRetries
  <2>1. /\ DOMAIN again = DOMAIN Idle /\ again.pc = "fetch" /\ again.requests = cmd.requests
        /\ again.staged = cmd.staged /\ again.turn = cmd.turn /\ again.bulk = cmd.bulk
        /\ again.complete = cmd.complete /\ again.attempts = cmd.attempts + 1
    BY <1>1, <1>4, IdleShape
  <2> HIDE DEF again
  <2>2. AskedInv'
    BY <1>4, <1>5, <2>1 DEF AskedInv, Provider
  <2>3. cmd.attempts + 1 \in 0..BlockedRetries
    BY <1>4, <1>5 DEF BlockedRetries
  <2> QED
    BY <1>1, <1>3, <1>4, <1>5, <2>1, <2>2, <2>3, TypeOfStep DEF bounds, observed, TypeInv, Phases
<1>6. CASE cmd' = Idle
  <2>1. AskedInv'
    BY <1>6, IdleShape DEF AskedInv
  <2> QED
    BY <1>1, <1>3, <1>6, <2>1, IdleTypes, TypeOfStep DEF bounds, observed, TypeInv
<1>7. CASE cmd' = new
  <2>1. IsHistory(staged)
    <3>1. CASE outcome = "fetched"
      <4>1. answer.is = "rows"
        BY <1>1, <3>1, AnswerTypes DEF Outcome, Refused
      <4>2. answer.date \in Dates /\ answer.content \in Contents
        BY <1>1, <4>1, AnswerTypes
      <4>3. <<q.etf, answer.date>> \in Snapshots
        BY <1>2, <4>2 DEF Snapshots, Requested
      <4> HIDE DEF q, outcome
      <4> QED
        BY <1>4, <3>1, <4>2, <4>3, PutIsHistory
    <3>2. CASE outcome # "fetched"
      BY <1>4, <3>2
    <3> QED
      BY <3>1, <3>2
  <2>2. complete \in BOOLEAN /\ requests \subseteq cmd.requests
    BY <1>4
  <2> HIDE DEF staged, complete, requests, outcome
  <2>3. /\ DOMAIN new = DOMAIN Idle /\ new.pc = "fetch" /\ new.requests = requests
        /\ new.staged = staged /\ new.turn = cmd.turn /\ new.bulk = cmd.bulk
        /\ new.complete = complete /\ new.attempts = 0
    BY <1>1, <1>4, IdleShape
  <2> HIDE DEF new
  <2>4. AskedInv'
    BY <1>4, <1>7, <2>1, <2>2, <2>3 DEF AskedInv, Provider
  <2> QED
    BY <1>1, <1>3, <1>4, <1>7, <2>2, <2>3, <2>4, TypeOfStep DEF bounds, observed, TypeInv, Phases, BlockedRetries
<1> QED
  BY <1>1, <1>5, <1>6, <1>7

LEMMA TypeOfAnswers ==
    ASSUME TypeInv, FetchAsked \/ FetchFault
    PROVE  TypeInv'
<1>1. CASE FetchAsked
  BY <1>1, TypeOfFetch DEF FetchAsked, Fetch, TypeInv
<1>2. CASE FetchFault
  <2>1. PICK answer \in Answers(Asking) : Fetch(answer)
    BY <1>2 DEF FetchFault
  <2>2. faults' \in 0..MaxFaults
    BY <1>2, BoundsAssumption DEF FetchFault, TypeInv
  <2> QED
    BY <2>1, <2>2, TypeOfFetch DEF Fetch
<1> QED
  BY <1>1, <1>2

LEMMA TypeOfWrite ==
    ASSUME TypeInv, Write
    PROVE  TypeInv'
<1>1. /\ cmd.pc = "fetch" /\ history' = cmd.staged /\ cmd' = [cmd EXCEPT !.pc = "judge"]
      /\ UNCHANGED <<readable, cache, summary, report, bounds, observed>>
  BY DEF Write
<1>2. DOMAIN cmd = DOMAIN Idle
  BY DEF TypeInv
<1>3. /\ DOMAIN cmd' = DOMAIN Idle /\ cmd'.pc = "judge" /\ cmd'.requests = cmd.requests
      /\ cmd'.turn = cmd.turn /\ cmd'.bulk = cmd.bulk /\ cmd'.complete = cmd.complete
      /\ cmd'.attempts = cmd.attempts
  BY <1>1, <1>2, IdleShape
<1>4. AskedInv'
  BY <1>3 DEF TypeInv, AskedInv
<1>5. IsHistory(history')
  BY <1>1 DEF TypeInv, AskedInv
<1> QED
  BY <1>1, <1>3, <1>4, <1>5 DEF bounds, observed, TypeInv, Phases

LEMMA TypeOfJudge ==
    ASSUME TypeInv, Judge
    PROVE  TypeInv'
<1> DEFINE agreed == cmd.agreed /\ (\/ cmd.bulk
                                    \/ Passed(history, Representative(Provider), cmd.outcome,
                                              cmd.answer))
           onward == [cmd EXCEPT !.pc = "read", !.turn = @ + 1, !.agreed = agreed,
                                 !.stored = << >>, !.staged = << >>,
                                 !.answer = Silent, !.outcome = "none"]
           told == [bulk |-> cmd.bulk, completed |-> cmd.bulk /\ cmd.complete]
<1>1. /\ UNCHANGED <<history, readable, cache, report, bounds, observed>>
      /\ \/ cmd.turn < Len(Cohort) /\ cmd' = onward /\ summary' = summary
         \/ cmd' = [Idle EXCEPT !.pc = "read", !.bulk = TRUE] /\ summary' = summary
         \/ cmd' = Idle /\ summary' = told
  BY DEF Judge
<1>2. /\ DOMAIN cmd = DOMAIN Idle /\ cmd.turn \in DOMAIN Cohort /\ cmd.bulk \in BOOLEAN
      /\ cmd.complete \in BOOLEAN /\ cmd.requests \subseteq Requested
  BY DEF TypeInv, AskedInv
<1>3. CASE cmd.turn < Len(Cohort) /\ cmd' = onward /\ summary' = summary
  <2>1. /\ DOMAIN onward = DOMAIN Idle /\ onward.pc = "read" /\ onward.turn = cmd.turn + 1
        /\ onward.requests = cmd.requests /\ onward.bulk = cmd.bulk
        /\ onward.complete = cmd.complete /\ onward.attempts = cmd.attempts
    BY <1>2, IdleShape
  <2> HIDE DEF onward
  <2>2. cmd'.turn \in DOMAIN Cohort
    BY <1>2, <1>3, <2>1, CohortDomain
  <2>3. AskedInv'
    BY <1>2, <1>3, <2>1 DEF AskedInv
  <2> QED
    BY <1>1, <1>2, <1>3, <2>1, <2>2, <2>3, TypeOfStep DEF bounds, observed, TypeInv, Phases
<1>4. CASE cmd' = [Idle EXCEPT !.pc = "read", !.bulk = TRUE] /\ summary' = summary
  BY <1>1, <1>4, TypeOfFresh, TypeOfStep DEF bounds, observed, TypeInv, Phases
<1>5. CASE cmd' = Idle /\ summary' = told
  <2>1. told \in [bulk : BOOLEAN, completed : BOOLEAN]
    BY <1>2
  <2> HIDE DEF told
  <2>2. AskedInv'
    BY <1>5, IdleShape DEF AskedInv
  <2> QED
    BY <1>1, <1>5, <2>1, <2>2, IdleTypes, TypeOfStep DEF bounds, observed, TypeInv
<1> QED
  BY <1>1, <1>3, <1>4, <1>5

LEMMA TypeOfReconcile ==
    ASSUME TypeInv, NEW create \in BOOLEAN, Reconcile(create)
    PROVE  TypeInv'
<1>1. /\ UNCHANGED <<history, readable, cache, summary, bounds, observed>> /\ report' = NoReport
      /\ cmd' = [Idle EXCEPT !.pc = "reconcile", !.stored = history, !.create = create]
  BY DEF Reconcile
<1>2. /\ DOMAIN cmd' = DOMAIN Idle /\ cmd'.pc = "reconcile" /\ cmd'.turn = 1
      /\ cmd'.attempts = 0 /\ cmd'.bulk = FALSE /\ cmd'.complete = TRUE /\ cmd'.requests = {}
      /\ cmd'.stored = history /\ cmd'.found = << >>
  BY <1>1, IdleShape
<1>3. AskedInv'
  <2>1. << >> \in Seq({}) /\ Len(<< >>) = 1 - 1
    OBVIOUS
  <2>2. IsHistory(history)
    BY DEF TypeInv
  <2> QED
    BY <1>2, <2>1, <2>2 DEF AskedInv
<1>4. cmd'.bulk \in BOOLEAN /\ cmd'.complete \in BOOLEAN
  BY <1>2, Zenon
<1>5. cmd'.turn \in DOMAIN Cohort /\ cmd'.attempts \in 0..BlockedRetries /\ cmd'.pc \in Phases
  BY <1>2, CohortDomain DEF BlockedRetries, Phases
<1>6. DOMAIN report' = {}
  BY <1>1 DEF NoReport
<1> QED
  BY <1>1, <1>2, <1>3, <1>4, <1>5, <1>6, TypeOfStep DEF bounds, observed, TypeInv

LEMMA SliceIsHistory ==
    ASSUME NEW h, IsHistory(h), NEW p
    PROVE  IsHistory(Slice(h, p))
<1> DEFINE own == {k \in DOMAIN h : k[1] \in Range(Tracked[p])}
<1>1. Slice(h, p) = [k \in own |-> h[k]]
  BY DEF Slice, Restrict
<1>2. IsFiniteSet(own)
  BY FS_Subset DEF IsHistory
<1> QED
  BY <1>1, <1>2 DEF IsHistory

\* One more item at the end of a sequence.
LEMMA Appended ==
    ASSUME NEW S, NEW found \in Seq(S), NEW item
    PROVE  /\ Append(found, item) \in Seq(S \union {item})
           /\ Len(found) \in Nat /\ Len(Append(found, item)) = Len(found) + 1
           /\ DOMAIN Append(found, item) = 1..(Len(found) + 1)
           /\ \A i \in 1..Len(found) : Append(found, item)[i] = found[i]
           /\ Append(found, item)[Len(found) + 1] = item
<1>1. found \in Seq(S \union {item})
  OBVIOUS
<1> QED
  BY <1>1

LEMMA TypeOfReconcileProvider ==
    ASSUME TypeInv, ReconcileProvider
    PROVE  TypeInv'
<1> DEFINE slice == Slice(cmd.stored, Provider)
           item == ItemOf(slice, cache[Provider], cmd.create)
           found == Append(cmd.found, item)
<1>1. /\ UNCHANGED <<history, readable, summary, bounds, observed>>
      /\ cmd.pc = "reconcile"
      /\ \/ cmd' = Idle
         \/ cmd.turn # Len(Cohort) /\ cmd' = [cmd EXCEPT !.turn = @ + 1, !.found = found]
      /\ report' = report \/ (cmd.turn = Len(Cohort) /\ report' = found)
      /\ cache' = cache \/ cache' = [cache EXCEPT ![Provider] = File(slice)]
  BY DEF ReconcileProvider
<1>2. /\ DOMAIN cmd = DOMAIN Idle /\ cmd.turn \in DOMAIN Cohort /\ IsHistory(cmd.stored)
      /\ Len(cmd.found) = cmd.turn - 1
  BY <1>1 DEF TypeInv, AskedInv
<1>3. PICK S : cmd.found \in Seq(S)
  BY <1>1 DEF TypeInv, AskedInv
<1>4. /\ found \in Seq(S \union {item}) /\ Len(found) = Len(cmd.found) + 1
      /\ DOMAIN found = 1..(Len(cmd.found) + 1)
  BY <1>3, Appended
<1>5. Len(found) = cmd.turn /\ DOMAIN found = 1..cmd.turn
  BY <1>2, <1>4, CohortDomain
<1>6. DOMAIN cache' = Range(Cohort) /\ \A p \in Range(Cohort) : IsCache(cache'[p])
  <2>1. IsHistory(slice)
    BY <1>2, SliceIsHistory
  <2> HIDE DEF slice
  <2>2. IsCache(File(slice))
    BY <2>1, CacheShape DEF IsCache
  <2> QED
    BY <1>1, <2>2 DEF TypeInv
<1> HIDE DEF found
<1>7. DOMAIN report' \in {{}, DOMAIN Cohort}
  BY <1>1, <1>5, CohortDomain DEF TypeInv
<1>8. CASE cmd' = Idle
  <2>1. AskedInv'
    BY <1>8, IdleShape DEF AskedInv
  <2> QED
    BY <1>1, <1>6, <1>7, <1>8, <2>1, IdleTypes DEF bounds, observed, TypeInv
<1>9. CASE cmd.turn # Len(Cohort) /\ cmd' = [cmd EXCEPT !.turn = @ + 1, !.found = found]
  <2>1. /\ DOMAIN cmd' = DOMAIN Idle /\ cmd'.pc = "reconcile" /\ cmd'.turn = cmd.turn + 1
        /\ cmd'.requests = cmd.requests /\ cmd'.bulk = cmd.bulk
        /\ cmd'.complete = cmd.complete /\ cmd'.attempts = cmd.attempts
        /\ cmd'.stored = cmd.stored /\ cmd'.found = found
    BY <1>1, <1>2, <1>9, IdleShape
  <2>2. cmd'.turn \in DOMAIN Cohort /\ Len(cmd'.found) = cmd'.turn - 1
    BY <1>2, <1>5, <1>9, <2>1, CohortDomain
  <2>3. AskedInv'
    BY <1>2, <1>4, <2>1, <2>2 DEF TypeInv, AskedInv
  <2> QED
    BY <1>1, <1>6, <1>7, <2>1, <2>2, <2>3 DEF bounds, observed, TypeInv, Phases
<1> QED
  BY <1>1, <1>8, <1>9

\* What an update makes of a history.
LEMMA UpdatedIsHistory ==
    ASSUME NEW h, IsHistory(h), NEW key \in Snapshots, NEW content \in Contents,
           NEW refresh \in BOOLEAN
    PROVE  IsHistory(Updated(h, key, content, refresh))
BY PutIsHistory DEF Updated

LEMMA TypeOfUpdate ==
    ASSUME TypeInv, Update
    PROVE  TypeInv'
<1>0. PICK p \in Range(Cohort), content \in Contents, refresh \in BOOLEAN :
        \E key \in Range(Tracked[p]) \X (1..MaxDate) :
            UpdateHistory(key, content, refresh) \/ UpdateCache(p, key, content, refresh)
  BY DEF Update
<1>1. PICK key \in Range(Tracked[p]) \X (1..MaxDate) :
        UpdateHistory(key, content, refresh) \/ UpdateCache(p, key, content, refresh)
  BY <1>0
<1>2. key \in Snapshots
  BY TrackedEtfs, BoundsAssumption DEF Snapshots, Dates
<1>3. /\ UNCHANGED <<readable, cmd, summary, crashes, strayed>>
      /\ faults < MaxFaults /\ faults' = faults + 1 /\ report' = NoReport
      /\ cmd.pc = "idle"
  BY <1>1 DEF UpdateHistory, UpdateCache
<1>4. faults' \in 0..MaxFaults /\ DOMAIN report' = {}
  BY <1>3, BoundsAssumption DEF TypeInv, NoReport
<1>5. AskedInv'
  BY <1>3 DEF TypeInv, AskedInv
<1>6. CASE UpdateHistory(key, content, refresh)
  <2>1. /\ history' = Updated(history, key, content, refresh) /\ UNCHANGED <<cache, direct>>
        /\ refreshed' = refreshed \union {k \in {key} \intersect DOMAIN history : refresh}
    BY <1>6 DEF UpdateHistory
  <2>2. IsHistory(history')
    BY <1>2, <2>1, UpdatedIsHistory DEF TypeInv
  <2>3. refreshed' \subseteq Snapshots
    BY <1>2, <2>1 DEF TypeInv
  <2> QED
    BY <1>3, <1>4, <1>5, <2>1, <2>2, <2>3 DEF TypeInv
<1>7. CASE UpdateCache(p, key, content, refresh)
  <2> DEFINE own == Contained(cache[p])
             new == Updated(own, key, content, refresh)
  <2>1. /\ cache' = [cache EXCEPT ![p] = File(new)] /\ UNCHANGED <<history, refreshed>>
        /\ direct' = direct \union {<<p, key>>}
    BY <1>7 DEF UpdateCache
  <2>2. IsHistory(own)
    <3>1. IsHistory(<< >>)
      BY FS_EmptySet DEF IsHistory
    <3>2. IsCache(cache[p])
      BY DEF TypeInv
    <3> QED
      BY <3>1, <3>2, CacheShape DEF IsCache, Contained
  <2>3. IsHistory(new)
    BY <1>2, <2>2, UpdatedIsHistory
  <2> HIDE DEF new
  <2>4. IsCache(File(new))
    BY <2>3, CacheShape DEF IsCache
  <2>5. DOMAIN cache' = Range(Cohort) /\ \A x \in Range(Cohort) : IsCache(cache'[x])
    BY <2>1, <2>4 DEF TypeInv
  <2>6. direct' \subseteq Range(Cohort) \X Snapshots
    BY <1>2, <2>1 DEF TypeInv
  <2> QED
    BY <1>3, <1>4, <1>5, <2>1, <2>5, <2>6 DEF TypeInv
<1> QED
  BY <1>1, <1>6, <1>7

LEMMA TypeOfCrash ==
    ASSUME TypeInv, Crash
    PROVE  TypeInv'
<1>1. /\ cmd' = Idle /\ UNCHANGED <<summary, report, faults, observed>>
      /\ crashes < MaxCrashes /\ crashes' = crashes + 1
      /\ readable' = readable \/ readable' = FALSE
      /\ history' = history \/ (cmd.pc = "fetch" /\ history' = cmd.staged)
      /\ cache' = cache \/ cache' = [cache EXCEPT ![Provider] = Unreadable]
  BY DEF Crash
<1>2. AskedInv'
  BY <1>1, IdleShape DEF AskedInv
<1>3. IsHistory(history')
  BY <1>1 DEF TypeInv, AskedInv
<1>4. /\ DOMAIN cache' = Range(Cohort)
      /\ \A p \in Range(Cohort) : IsCache(cache'[p])
  BY <1>1 DEF TypeInv, IsCache
<1>5. crashes' \in 0..MaxCrashes
  BY <1>1, BoundsAssumption DEF TypeInv
<1>6. readable' \in BOOLEAN
  BY <1>1 DEF TypeInv
<1> QED
  BY <1>1, <1>2, <1>3, <1>4, <1>5, <1>6, IdleTypes DEF observed, TypeInv

LEMMA TypeNext == TypeInv /\ [Next]_vars => TypeInv'
<1> SUFFICES ASSUME TypeInv, [Next]_vars PROVE TypeInv'
  OBVIOUS
<1>2. ASSUME NEW create \in BOOLEAN, Reconcile(create) PROVE TypeInv'
  BY <1>2, TypeOfReconcile
<1>1. CASE Start
  <2>1. NoSummary \in [bulk : BOOLEAN, completed : BOOLEAN] /\ DOMAIN NoReport = {}
    BY DEF NoSummary, NoReport
  <2> QED
    BY <1>1, <2>1, TypeOfFresh, TypeOfStep DEF bounds, observed, Start, TypeInv, Phases
<1>3. CASE Read
  BY <1>3, TypeOfRead
<1>4. CASE FetchAsked \/ FetchFault
  BY <1>4, TypeOfAnswers
<1>5. CASE Write
  BY <1>5, TypeOfWrite
<1>6. CASE Judge
  BY <1>6, TypeOfJudge
<1>7. CASE ReconcileProvider
  BY <1>7, TypeOfReconcileProvider
<1>8. CASE Crash
  BY <1>8, TypeOfCrash
<1>9. CASE Update
  BY <1>9, TypeOfUpdate
<1>10. CASE UNCHANGED vars
  BY <1>10 DEF vars, bounds, observed, TypeInv, AskedInv, Provider
<1> QED
  BY <1>1, <1>2, <1>3, <1>4, <1>5, <1>6, <1>7, <1>8, <1>9, <1>10 DEF Next, Step

LEMMA TypeHolds == Spec => []TypeInv
BY TypeInit, TypeNext, PTL DEF Spec

\* The files and what a command has of them keep their types, and a provider is only asked
\* for dates that exist (plan_live_baseline_snapshots, _fetch_planned_requests).
THEOREM TypeCorrect == Spec => []TypeOK
<1>1. TypeInv => TypeOK
  BY CacheShape
  DEF TypeInv, AskedInv, IsHistory, IsCache, Snapshots, Requested, Phases, TypeOK
<1> QED
  BY <1>1, TypeHolds, PTL

-----------------------------------------------------------------------------
(* The gate, and the providers' caches *)

\* Every snapshot of g is in h, unchanged.
Keeps(h, g) == \A k \in DOMAIN g : k \in DOMAIN h /\ h[k] = g[k]

Agrees(h, p) ==
    \E d \in Operational[Representative(p)] :
        /\ <<Representative(p), d>> \in DOMAIN h
        /\ h[<<Representative(p), d>>] \in Confirmed
AllAgree(h) == \A p \in Range(Cohort) : Agrees(h, p)

OfRepresentative(k) == \E p \in Range(Cohort) : k[1] = Representative(p)

Working == {"read", "fetch", "judge"}
Served == {"fetched", "skipped_existing"}

ShapeInv ==
    /\ DOMAIN cmd = DOMAIN Idle
    /\ cmd.turn \in DOMAIN Cohort
    /\ cmd.bulk \in BOOLEAN /\ cmd.agreed \in BOOLEAN
    /\ cmd.pc \in {"idle", "reconcile"} => ~cmd.bulk

\* What a command read is what there is, and what it will write keeps that.
MemoryInv ==
    /\ cmd.pc = "fetch" => cmd.stored = history /\ Keeps(cmd.staged, history)
    /\ cmd.pc = "reconcile" => cmd.stored = history

\* A snapshot of p's own history (own) came from the canonical one, where it may have been
\* replaced since, or an update wrote it.
FromHistory(own, p, k) ==
    /\ k[1] \in Range(Tracked[p]) /\ k \in DOMAIN history
    /\ history[k] = own[k] \/ k \in refreshed

CacheInv ==
    /\ DOMAIN cache = Range(Cohort)
    /\ \A p \in Range(Cohort) : cache[p].is = "file" =>
          \A k \in DOMAIN cache[p].data : <<p, k>> \in direct \/ FromHistory(cache[p].data, p, k)

\* The bulk phase rests on representatives that agree.
GateInv ==
    /\ cmd.bulk => AllAgree(history)
    /\ (~cmd.bulk /\ cmd.agreed /\ cmd.pc \in Working) =>
          \A i \in 1..(cmd.turn - 1) : Agrees(history, Cohort[i])

\* Before the bulk phase only the representative of the provider is fetched.
RepresentativeInv ==
    ~cmd.bulk =>
        LET r == Representative(Provider) IN
        /\ cmd.pc = "read" => cmd.outcome = "none"
        /\ cmd.pc = "fetch" =>
              /\ \A q \in cmd.requests : q.etf = r
              /\ \A k \in DOMAIN cmd.staged : k \in DOMAIN history \/ k[1] = r
              /\ cmd.outcome \in Served => <<r, cmd.answer.date>> \in DOMAIN cmd.staged
        /\ (cmd.pc = "judge" /\ cmd.outcome \in Served) =>
              <<r, cmd.answer.date>> \in DOMAIN history

Inv == ShapeInv /\ MemoryInv /\ CacheInv /\ GateInv /\ RepresentativeInv

LEMMA InitInv == Init => Inv
<1> SUFFICES ASSUME Init PROVE Inv
  OBVIOUS
<1>1. cmd = Idle /\ history = << >> /\ cache = [p \in Range(Cohort) |-> Missing]
  BY DEF Init
<1>2. DOMAIN history = {}
  BY <1>1
<1>3. ShapeInv /\ MemoryInv /\ RepresentativeInv
  BY <1>1, IdleShape DEF ShapeInv, MemoryInv, RepresentativeInv
<1>4. CacheInv
  BY <1>1, CacheShape DEF CacheInv
<1>5. GateInv
  BY <1>1, <1>2, IdleShape DEF GateInv, Working
<1> QED
  BY <1>3, <1>4, <1>5 DEF Inv

\* A history that keeps another agrees wherever that one does.
LEMMA AgreementIsKept ==
    ASSUME NEW h, NEW g, Keeps(h, g), NEW p, Agrees(g, p)
    PROVE  Agrees(h, p)
BY DEF Keeps, Agrees

\* Nothing of the history went, and only snapshots that updates were told to replace are
\* others than they were.
Grows ==
    /\ \A k \in DOMAIN history : k \in DOMAIN history' /\ (history'[k] = history[k] \/ k \in refreshed')
    /\ refreshed \subseteq refreshed'

LEMMA FromHistoryStill ==
    ASSUME NEW own, NEW p, NEW k, Grows, FromHistory(own, p, k)
    PROVE  FromHistory(own, p, k)'
BY DEF FromHistory, Grows

LEMMA CacheIsKept ==
    ASSUME CacheInv, Grows, UNCHANGED <<cache, direct>>
    PROVE  CacheInv'
BY FromHistoryStill DEF CacheInv

LEMMA KeptGrows ==
    ASSUME Keeps(history', history), UNCHANGED refreshed
    PROVE  Grows
BY DEF Keeps, Grows

\* What the invariant says of the files, when they stay and the command goes on: it is in
\* the bulk phase only if it was, or all agree.
LEMMA CommandStep ==
    ASSUME Inv, UNCHANGED <<history, cache, refreshed, direct>>, ShapeInv', MemoryInv', RepresentativeInv',
           cmd'.bulk => cmd.bulk \/ AllAgree(history),
           (~cmd'.bulk /\ cmd'.agreed /\ cmd'.pc \in Working) =>
              \A i \in 1..(cmd'.turn - 1) : Agrees(history, Cohort[i])
    PROVE  Inv'
<1>1. CacheInv'
  BY DEF Inv, CacheInv, FromHistory
<1>2. GateInv'
  BY DEF Inv, GateInv, AllAgree, Agrees
<1> QED
  BY <1>1, <1>2 DEF Inv

\* A command that ends, or one that starts.
LEMMA FreshCommand ==
    ASSUME Inv, UNCHANGED <<history, cache, refreshed, direct>>, NEW pc \in {"idle", "read"},
           cmd' = [Idle EXCEPT !.pc = pc]
    PROVE  Inv'
<1>1. /\ DOMAIN cmd' = DOMAIN Idle /\ cmd'.pc = pc /\ cmd'.bulk = FALSE /\ cmd'.turn = 1
      /\ cmd'.agreed = TRUE /\ cmd'.outcome = "none" /\ cmd'.turn \in DOMAIN Cohort
  BY IdleShape
<1>2. ShapeInv' /\ MemoryInv' /\ RepresentativeInv'
  BY <1>1 DEF ShapeInv, MemoryInv, RepresentativeInv
<1>3. \A i \in 1..(cmd'.turn - 1) : FALSE
  BY <1>1
<1> QED
  BY <1>1, <1>2, <1>3, CommandStep

LEMMA EndsInv ==
    ASSUME Inv, UNCHANGED <<history, cache, refreshed, direct>>, cmd' = Idle
    PROVE  Inv'
<1>1. cmd' = [Idle EXCEPT !.pc = "idle"]
  BY IdleShape DEF Idle
<1> QED
  BY <1>1, FreshCommand

LEMMA ReadInv ==
    ASSUME Inv, Read
    PROVE  Inv'
<1> DEFINE r == Representative(Provider)
           requests == IF cmd.bulk THEN Requests(history, Provider)
                       ELSE {[etf |-> r, date |-> Max(Operational[r])]}
           complete == cmd.complete /\ (cmd.bulk => ~Gap(history, Provider))
           new == [cmd EXCEPT !.pc = "fetch", !.requests = requests, !.attempts = 0,
                              !.stored = history, !.staged = history, !.complete = complete]
<1>1. cmd.pc = "read" /\ UNCHANGED <<history, cache, refreshed, direct>> /\ (cmd' = new \/ cmd' = Idle)
  BY DEF Read, observed
<1>2. CASE cmd' = new
  <2>1. DOMAIN cmd = DOMAIN Idle
    BY DEF Inv, ShapeInv
  <2>2. /\ DOMAIN new = DOMAIN Idle /\ new.pc = "fetch" /\ new.requests = requests
        /\ new.stored = history /\ new.staged = history /\ new.turn = cmd.turn
        /\ new.bulk = cmd.bulk /\ new.agreed = cmd.agreed /\ new.outcome = cmd.outcome
    BY <2>1, IdleShape
  <2>3. ~cmd.bulk => \A q \in requests : q.etf = r
    OBVIOUS
  <2> HIDE DEF new, requests
  <2>4. ShapeInv' /\ MemoryInv'
    BY <1>1, <1>2, <2>2 DEF Inv, ShapeInv, MemoryInv, Keeps
  <2>5. RepresentativeInv'
    <3>1. Provider' = Provider
      BY <1>2, <2>2 DEF Provider
    <3>2. ~cmd.bulk => cmd.outcome = "none"
      BY <1>1 DEF Inv, RepresentativeInv
    <3> QED
      BY <1>1, <1>2, <2>2, <2>3, <3>1, <3>2 DEF RepresentativeInv, Served
  <2>6. (~cmd'.bulk /\ cmd'.agreed) => \A i \in 1..(cmd'.turn - 1) : Agrees(history, Cohort[i])
    BY <1>1, <1>2, <2>2 DEF Inv, GateInv, Working
  <2> QED
    BY <1>1, <1>2, <2>2, <2>4, <2>5, <2>6, CommandStep
<1> QED
  BY <1>1, <1>2, EndsInv

LEMMA PutKeeps ==
    ASSUME NEW h, NEW g, Keeps(h, g), NEW key, key \notin DOMAIN g, NEW content
    PROVE  /\ Keeps(Put(h, key, content), g)
           /\ DOMAIN Put(h, key, content) = DOMAIN h \union {key}
BY DEF Keeps, Put

LEMMA OutcomeEffect ==
    ASSUME NEW stored, NEW e, NEW answer
    PROVE  LET outcome == Outcome(stored, e, answer) IN
           /\ (outcome = "fetched" /\ answer.is = "rows") => <<e, answer.date>> \notin DOMAIN stored
           /\ (outcome = "skipped_existing" /\ answer.is = "rows") =>
                 <<e, answer.date>> \in DOMAIN stored
BY DEF Outcome

\* An answer adds a snapshot that was not there to what will be written, or nothing; the
\* answers of the model have outcomes of their own only when they bring rows.
LEMMA FetchInv ==
    ASSUME TypeInv, Inv, NEW answer, Fetch(answer), UNCHANGED cache,
           answer.is \notin Served
    PROVE  Inv'
<1> DEFINE q == Asking
           outcome == Outcome(cmd.stored, q.etf, answer)
           requests == IF outcome \in Refused THEN {} ELSE cmd.requests \ {q}
           staged == IF outcome = "fetched"
                     THEN Put(cmd.staged, <<q.etf, answer.date>>, answer.content)
                     ELSE cmd.staged
           complete == cmd.complete /\ (cmd.bulk => ~LeavesIncomplete(outcome))
           again == [cmd EXCEPT !.attempts = @ + 1]
           new == [cmd EXCEPT !.attempts = 0, !.answer = answer, !.outcome = outcome,
                              !.requests = requests, !.staged = staged,
                              !.complete = complete]
           r == Representative(Provider)
<1>1. /\ cmd.pc = "fetch" /\ cmd.requests # {} /\ UNCHANGED <<history, cache, refreshed, direct>>
      /\ cmd' = again \/ cmd' = Idle \/ cmd' = new
  BY DEF Fetch
<1>2. /\ DOMAIN cmd = DOMAIN Idle /\ cmd.turn \in DOMAIN Cohort
      /\ cmd.stored = history /\ Keeps(cmd.staged, history)
  BY <1>1 DEF Inv, ShapeInv, MemoryInv
<1>3. (~cmd.bulk /\ cmd.agreed) => \A i \in 1..(cmd.turn - 1) : Agrees(history, Cohort[i])
  BY <1>1 DEF Inv, GateInv, Working
<1>4. CASE cmd' = again
  <2>1. /\ DOMAIN again = DOMAIN Idle /\ again.pc = "fetch" /\ again.requests = cmd.requests
        /\ again.stored = cmd.stored /\ again.staged = cmd.staged /\ again.turn = cmd.turn
        /\ again.bulk = cmd.bulk /\ again.agreed = cmd.agreed
        /\ again.outcome = cmd.outcome /\ again.answer = cmd.answer
    BY <1>1, <1>2, IdleShape
  <2> HIDE DEF again
  <2>2. ShapeInv' /\ MemoryInv'
    BY <1>1, <1>4, <2>1 DEF Inv, ShapeInv, MemoryInv
  <2>3. RepresentativeInv'
    <3>1. Provider' = Provider
      BY <1>4, <2>1 DEF Provider
    <3>2. /\ cmd'.pc = "fetch" /\ cmd'.bulk = cmd.bulk /\ cmd'.requests = cmd.requests
          /\ cmd'.staged = cmd.staged /\ cmd'.outcome = cmd.outcome
          /\ cmd'.answer = cmd.answer /\ history' = history
      BY <1>1, <1>4, <2>1
    <3> HIDE DEF new
    <3>3. ~cmd.bulk =>
            /\ \A x \in cmd.requests : x.etf = r
            /\ \A k \in DOMAIN cmd.staged : k \in DOMAIN history \/ k[1] = r
            /\ cmd.outcome \in Served => <<r, cmd.answer.date>> \in DOMAIN cmd.staged
      BY <1>1 DEF Inv, RepresentativeInv
    <3> QED
      BY <3>1, <3>2, <3>3 DEF RepresentativeInv
  <2> QED
    BY <1>1, <1>3, <1>4, <2>1, <2>2, <2>3, CommandStep
<1>5. CASE cmd' = new
  <2>1. /\ DOMAIN new = DOMAIN Idle /\ new.pc = "fetch" /\ new.requests = requests
        /\ new.stored = cmd.stored /\ new.staged = staged /\ new.turn = cmd.turn
        /\ new.bulk = cmd.bulk /\ new.agreed = cmd.agreed
        /\ new.outcome = outcome /\ new.answer = answer
    BY <1>1, <1>2, IdleShape
  <2>2. outcome \in Served => answer.is = "rows"
    BY DEF Outcome
  <2>3. /\ outcome = "fetched" => <<q.etf, answer.date>> \notin DOMAIN history
        /\ outcome = "skipped_existing" => <<q.etf, answer.date>> \in DOMAIN history
    BY <1>2, <2>2, OutcomeEffect DEF Served
  <2> HIDE DEF outcome
  <2>4. /\ Keeps(staged, history)
        /\ DOMAIN staged \subseteq DOMAIN cmd.staged \union {<<q.etf, answer.date>>}
        /\ DOMAIN cmd.staged \subseteq DOMAIN staged
        /\ outcome \in Served => <<q.etf, answer.date>> \in DOMAIN staged
    <3>1. CASE outcome = "fetched"
      <4> DEFINE key == <<q.etf, answer.date>>
      <4>1. staged = Put(cmd.staged, key, answer.content)
        BY <3>1
      <4>2. key \notin DOMAIN history
        BY <2>3, <3>1
      <4> HIDE DEF key, staged
      <4>3. Keeps(staged, history) /\ DOMAIN staged = DOMAIN cmd.staged \union {key}
        BY <1>2, <4>1, <4>2, PutKeeps
      <4> QED
        BY <4>3 DEF key
    <3>2. CASE outcome # "fetched"
      BY <1>2, <2>3, <3>2 DEF Served, Keeps
    <3> QED
      BY <3>1, <3>2
  <2> HIDE DEF new, staged
  <2>5. ShapeInv' /\ MemoryInv'
    BY <1>1, <1>2, <1>5, <2>1, <2>4 DEF Inv, ShapeInv, MemoryInv
  <2>6. RepresentativeInv'
    <3>1. Provider' = Provider
      BY <1>5, <2>1 DEF Provider
    <3>2. ~cmd.bulk => q.etf = r /\ \A x \in requests : x.etf = r
      <4>1. q \in cmd.requests
        BY <1>1, AskingIsRequested
      <4> QED
        BY <1>1, <4>1 DEF Inv, RepresentativeInv
    <3>3. ~cmd.bulk => \A k \in DOMAIN cmd.staged : k \in DOMAIN history \/ k[1] = r
      BY <1>1 DEF Inv, RepresentativeInv
    <3> HIDE DEF requests, q
    <3>4. ~cmd.bulk => /\ \A k \in DOMAIN staged : k \in DOMAIN history \/ k[1] = r
                       /\ outcome \in Served => <<r, answer.date>> \in DOMAIN staged
      BY <2>4, <3>2, <3>3
    <3> QED
      BY <1>1, <1>5, <2>1, <3>1, <3>2, <3>4 DEF RepresentativeInv
  <2> QED
    BY <1>1, <1>3, <1>5, <2>1, <2>5, <2>6, CommandStep
<1> QED
  BY <1>1, <1>4, <1>5, EndsInv

LEMMA FetchAnswersInv ==
    ASSUME TypeInv, Inv, FetchAsked \/ FetchFault
    PROVE  Inv'
<1>1. CASE FetchAsked
  <2>1. Asked(Asking).is = "rows"
    BY DEF Asked, Rows
  <2> QED
    BY <1>1, <2>1, FetchInv DEF FetchAsked, Fetch, Served
<1>2. CASE FetchFault
  <2>1. PICK answer \in Answers(Asking) : Fetch(answer)
    BY <1>2 DEF FetchFault
  <2>2. answer.is \notin Served
    BY DEF Answers, Rows, Without, Refused, Served
  <2> QED
    BY <2>1, <2>2, FetchInv DEF Fetch
<1> QED
  BY <1>1, <1>2

\* A history that what was staged replaces: it agrees still, and only when all agree are
\* snapshots new that are no representative's.
LEMMA StagedIsFounded ==
    ASSUME Inv, cmd.pc = "fetch", history' = cmd.staged
    PROVE  /\ Keeps(history', history)
           /\ AllAgree(history) => AllAgree(history')
           /\ (\E k \in DOMAIN history' \ DOMAIN history : ~OfRepresentative(k)) => AllAgree(history)
<1>1. Keeps(history', history)
  BY DEF Inv, MemoryInv
<1>2. AllAgree(history) => AllAgree(history')
  BY <1>1, AgreementIsKept DEF AllAgree
<1>3. ASSUME NEW k \in DOMAIN history' \ DOMAIN history, ~OfRepresentative(k)
      PROVE  AllAgree(history)
  <2>1. CASE cmd.bulk
    BY <2>1 DEF Inv, GateInv
  <2>2. CASE ~cmd.bulk
    <3>1. k[1] = Representative(Provider)
      BY <1>3, <2>2 DEF Inv, RepresentativeInv
    <3>2. Provider \in Range(Cohort)
      BY CohortDomain DEF Inv, ShapeInv, Provider
    <3> QED
      BY <1>3, <3>1, <3>2 DEF OfRepresentative
  <2> QED
    BY <2>1, <2>2
<1> QED
  BY <1>1, <1>2, <1>3

LEMMA WriteInv ==
    ASSUME Inv, Write
    PROVE  Inv'
<1> DEFINE new == [cmd EXCEPT !.pc = "judge"]
<1>1. /\ cmd.pc = "fetch" /\ history' = cmd.staged /\ cmd' = new
      /\ UNCHANGED <<cache, refreshed, direct>>
  BY DEF Write, observed
<1>2. DOMAIN cmd = DOMAIN Idle
  BY DEF Inv, ShapeInv
<1>3. /\ DOMAIN new = DOMAIN Idle /\ new.pc = "judge" /\ new.turn = cmd.turn
      /\ new.bulk = cmd.bulk /\ new.agreed = cmd.agreed
      /\ new.outcome = cmd.outcome /\ new.answer = cmd.answer
  BY <1>2, IdleShape
<1> HIDE DEF new
<1>4. ShapeInv' /\ MemoryInv'
  BY <1>1, <1>3 DEF Inv, ShapeInv, MemoryInv
<1>5. /\ Keeps(history', history)
      /\ AllAgree(history) => AllAgree(history')
  BY <1>1, StagedIsFounded
<1>6. CacheInv'
  BY <1>1, <1>5, KeptGrows, CacheIsKept DEF Inv
<1>7. GateInv'
  <2>1. (~cmd.bulk /\ cmd.agreed) => \A i \in 1..(cmd.turn - 1) : Agrees(history', Cohort[i])
    BY <1>1, <1>5, AgreementIsKept DEF Inv, GateInv, Working
  <2> QED
    BY <1>1, <1>3, <1>5, <2>1 DEF Inv, GateInv, AllAgree, Agrees
<1>8. RepresentativeInv'
  BY <1>1, <1>3 DEF Inv, RepresentativeInv, Provider
<1> QED
  BY <1>4, <1>6, <1>7, <1>8 DEF Inv

\* The bulk phase begins when the last representative has passed, and all before it had.
LEMMA JudgeInv ==
    ASSUME Inv, Judge
    PROVE  Inv'
<1> DEFINE r == Representative(Provider)
           passed == cmd.bulk \/ Passed(history, r, cmd.outcome, cmd.answer)
           agreed == cmd.agreed /\ passed
           onward == [cmd EXCEPT !.pc = "read", !.turn = @ + 1, !.agreed = agreed,
                                 !.stored = << >>, !.staged = << >>,
                                 !.answer = Silent, !.outcome = "none"]
           bulk == [Idle EXCEPT !.pc = "read", !.bulk = TRUE]
<1>1. /\ cmd.pc = "judge" /\ UNCHANGED <<history, cache, refreshed, direct>>
      /\ \/ cmd.turn < Len(Cohort) /\ cmd' = onward
         \/ ~(cmd.turn < Len(Cohort)) /\ ~cmd.bulk /\ agreed /\ cmd' = bulk
         \/ cmd' = Idle
  BY DEF Judge, observed
<1>2. /\ DOMAIN cmd = DOMAIN Idle /\ cmd.turn \in 1..Len(Cohort) /\ Len(Cohort) \in Nat
      /\ DOMAIN Cohort = 1..Len(Cohort)
      /\ cmd.bulk \in BOOLEAN /\ cmd.agreed \in BOOLEAN
  BY CohortDomain DEF Inv, ShapeInv
<1>3. (~cmd.bulk /\ agreed) => \A i \in 1..cmd.turn : Agrees(history, Cohort[i])
  <2> SUFFICES ASSUME ~cmd.bulk, agreed, NEW i \in 1..cmd.turn
               PROVE  Agrees(history, Cohort[i])
    OBVIOUS
  <2>1. CASE i = cmd.turn
    <3>1. Passed(history, r, cmd.outcome, cmd.answer)
      OBVIOUS
    <3>2. /\ cmd.outcome \in Served /\ cmd.answer.date \in Operational[r]
          /\ history[<<r, cmd.answer.date>>] \in Confirmed
      BY <3>1 DEF Passed, Served
    <3>3. <<r, cmd.answer.date>> \in DOMAIN history
      BY <1>1, <3>2 DEF Inv, RepresentativeInv
    <3>4. r = Representative(Cohort[i])
      BY <2>1 DEF Provider
    <3> QED
      BY <3>2, <3>3, <3>4 DEF Agrees
  <2>2. CASE i # cmd.turn
    <3>1. i \in 1..(cmd.turn - 1)
      BY <1>2, <2>2
    <3> QED
      BY <1>1, <3>1 DEF Inv, GateInv, Working
  <2> QED
    BY <2>1, <2>2
<1>4. agreed \in BOOLEAN
  BY <1>2
<1>5. CASE cmd.turn < Len(Cohort) /\ cmd' = onward
  <2> HIDE DEF agreed
  <2>1. /\ DOMAIN onward = DOMAIN Idle /\ onward.pc = "read" /\ onward.turn = cmd.turn + 1
        /\ onward.bulk = cmd.bulk /\ onward.agreed = agreed /\ onward.outcome = "none"
    BY <1>2, IdleShape
  <2> HIDE DEF onward
  <2>2. ShapeInv'
    BY <1>2, <1>4, <1>5, <2>1 DEF ShapeInv
  <2>3. MemoryInv' /\ RepresentativeInv'
    BY <1>5, <2>1 DEF MemoryInv, RepresentativeInv
  <2>4. (~cmd'.bulk /\ cmd'.agreed) =>
           \A i \in 1..(cmd'.turn - 1) : Agrees(history, Cohort[i])
    BY <1>2, <1>3, <1>5, <2>1
  <2>5. cmd'.bulk => cmd.bulk
    BY <1>5, <2>1
  <2> QED
    BY <1>1, <2>2, <2>3, <2>4, <2>5, CommandStep
<1>6. CASE ~(cmd.turn < Len(Cohort)) /\ ~cmd.bulk /\ agreed /\ cmd' = bulk
  <2>1. AllAgree(history)
    <3> SUFFICES ASSUME NEW p \in Range(Cohort) PROVE Agrees(history, p)
      BY DEF AllAgree
    <3>1. PICK i \in DOMAIN Cohort : Cohort[i] = p
      BY CohortDomain
    <3>2. i \in 1..cmd.turn
      BY <1>2, <1>6, <3>1
    <3> QED
      BY <1>3, <1>6, <3>1, <3>2
  <2>2. /\ DOMAIN bulk = DOMAIN Idle /\ bulk.pc = "read" /\ bulk.turn = 1
        /\ bulk.bulk = TRUE /\ bulk.agreed = TRUE /\ 1 \in DOMAIN Cohort
    BY IdleShape
  <2> HIDE DEF bulk, agreed
  <2>3. ShapeInv' /\ MemoryInv' /\ RepresentativeInv'
    BY <1>6, <2>2 DEF ShapeInv, MemoryInv, RepresentativeInv
  <2>4. cmd'.bulk = TRUE
    BY <1>6, <2>2
  <2> QED
    BY <1>1, <2>1, <2>3, <2>4, CommandStep
<1> QED
  BY <1>1, <1>5, <1>6, EndsInv

LEMMA ReconcileInv ==
    ASSUME Inv, NEW create, Reconcile(create)
    PROVE  Inv'
<1> DEFINE new == [Idle EXCEPT !.pc = "reconcile", !.stored = history, !.create = create]
<1>1. cmd' = new /\ UNCHANGED <<history, cache, refreshed, direct>>
  BY DEF Reconcile, observed
<1>2. /\ DOMAIN new = DOMAIN Idle /\ new.pc = "reconcile" /\ new.stored = history
      /\ new.bulk = FALSE /\ new.turn \in DOMAIN Cohort /\ new.agreed = TRUE
  BY IdleShape
<1> HIDE DEF new
<1>3. ShapeInv' /\ MemoryInv' /\ RepresentativeInv'
  BY <1>1, <1>2 DEF ShapeInv, MemoryInv, RepresentativeInv
<1> QED
  BY <1>1, <1>2, <1>3, CommandStep DEF Working

LEMMA SliceShape ==
    ASSUME NEW h, NEW p
    PROVE  /\ DOMAIN Slice(h, p) = {k \in DOMAIN h : k[1] \in Range(Tracked[p])}
           /\ \A k \in DOMAIN Slice(h, p) : Slice(h, p)[k] = h[k]
BY DEF Slice, Restrict

LEMMA ReconcileProviderInv ==
    ASSUME Inv, ReconcileProvider
    PROVE  Inv'
<1> DEFINE slice == Slice(cmd.stored, Provider)
           found == Append(cmd.found, ItemOf(slice, cache[Provider], cmd.create))
           new == [cmd EXCEPT !.turn = @ + 1, !.found = found]
<1>1. /\ cmd.pc = "reconcile" /\ UNCHANGED <<history, refreshed, direct>>
      /\ cmd' = Idle \/ (cmd.turn # Len(Cohort) /\ cmd' = new)
      /\ cache' = cache \/ cache' = [cache EXCEPT ![Provider] = File(slice)]
  BY DEF ReconcileProvider, observed
<1>2. /\ DOMAIN cmd = DOMAIN Idle /\ cmd.stored = history
      /\ cmd.turn \in 1..Len(Cohort) /\ Len(Cohort) \in Nat
      /\ DOMAIN Cohort = 1..Len(Cohort)
      /\ cmd.bulk \in BOOLEAN /\ cmd.agreed \in BOOLEAN /\ ~cmd.bulk
  BY <1>1, CohortDomain DEF Inv, ShapeInv, MemoryInv
<1>3. CacheInv'
  <2>1. CASE cache' = cache
    BY <1>1, <2>1 DEF Inv, CacheInv, FromHistory
  <2>2. CASE cache' = [cache EXCEPT ![Provider] = File(slice)]
    <3>1. \A k \in DOMAIN slice : FromHistory(slice, Provider, k)
      <4>1. slice = Slice(history, Provider)
        BY <1>2
      <4>2. /\ DOMAIN Slice(history, Provider) = {k \in DOMAIN history : k[1] \in Range(Tracked[Provider])}
            /\ \A k \in DOMAIN Slice(history, Provider) : Slice(history, Provider)[k] = history[k]
        BY SliceShape, Zenon
      <4> HIDE DEF slice
      <4> QED
        BY <4>1, <4>2 DEF FromHistory
    <3> HIDE DEF slice
    <3>2. DOMAIN cache' = Range(Cohort) /\ DOMAIN cache = Range(Cohort)
      BY <2>2 DEF Inv, CacheInv
    <3>3. ASSUME NEW p \in Range(Cohort), cache'[p].is = "file", NEW k \in DOMAIN cache'[p].data
          PROVE  <<p, k>> \in direct \/ FromHistory(cache'[p].data, p, k)
      <4>1. CASE p = Provider
        BY <2>2, <3>1, <3>2, <3>3, <4>1, CacheShape
      <4>2. CASE p # Provider
        BY <2>2, <3>2, <3>3, <4>2 DEF Inv, CacheInv
      <4> QED
        BY <4>1, <4>2
    <3> QED
      BY <1>1, <3>2, <3>3 DEF CacheInv, FromHistory
  <2> QED
    BY <1>1, <2>1, <2>2
<1>4. CASE cmd' = Idle
  <2>1. ShapeInv' /\ MemoryInv' /\ RepresentativeInv'
    BY <1>4, IdleShape DEF ShapeInv, MemoryInv, RepresentativeInv
  <2>2. GateInv'
    BY <1>1, <1>4, IdleShape DEF GateInv, Working
  <2> QED
    BY <1>3, <2>1, <2>2 DEF Inv
<1>5. CASE cmd.turn # Len(Cohort) /\ cmd' = new
  <2> HIDE DEF found
  <2>1. /\ DOMAIN new = DOMAIN Idle /\ new.pc = "reconcile" /\ new.stored = cmd.stored
        /\ new.bulk = cmd.bulk /\ new.turn = cmd.turn + 1 /\ new.agreed = cmd.agreed
    BY <1>1, <1>2, IdleShape
  <2> HIDE DEF new
  <2>2. ShapeInv' /\ MemoryInv' /\ RepresentativeInv'
    BY <1>1, <1>2, <1>5, <2>1 DEF ShapeInv, MemoryInv, RepresentativeInv
  <2>3. GateInv'
    BY <1>1, <1>2, <1>5, <2>1 DEF GateInv, Working
  <2> QED
    BY <1>3, <2>2, <2>3 DEF Inv
<1> QED
  BY <1>1, <1>4, <1>5

\* Updates run while no other command does, and replace only what they are told to.
LEMMA UpdateInv ==
    ASSUME Inv, Update
    PROVE  Inv'
<1>0. PICK p \in Range(Cohort), content \in Contents, refresh \in BOOLEAN :
        \E key \in Range(Tracked[p]) \X (1..MaxDate) :
            UpdateHistory(key, content, refresh) \/ UpdateCache(p, key, content, refresh)
  BY DEF Update
<1>1. PICK key \in Range(Tracked[p]) \X (1..MaxDate) :
        UpdateHistory(key, content, refresh) \/ UpdateCache(p, key, content, refresh)
  BY <1>0
<1>2. cmd.pc = "idle" /\ cmd' = cmd
  BY <1>1 DEF UpdateHistory, UpdateCache
<1>3. ShapeInv' /\ MemoryInv' /\ RepresentativeInv'
  BY <1>2 DEF Inv, ShapeInv, MemoryInv, RepresentativeInv
<1>4. GateInv'
  BY <1>2 DEF Inv, ShapeInv, GateInv, Working
<1>5. CASE UpdateHistory(key, content, refresh)
  <2>1. /\ history' = Updated(history, key, content, refresh)
        /\ refreshed' = refreshed \union {k \in {key} \intersect DOMAIN history : refresh}
        /\ UNCHANGED <<cache, direct>>
    BY <1>5 DEF UpdateHistory
  <2>2. Grows
    BY <2>1 DEF Grows, Updated, Put
  <2> QED
    BY <1>3, <1>4, <2>1, <2>2, CacheIsKept DEF Inv
<1>6. CASE UpdateCache(p, key, content, refresh)
  <2> DEFINE own == Contained(cache[p])
             new == Updated(own, key, content, refresh)
  <2>1. /\ cache' = [cache EXCEPT ![p] = File(new)] /\ UNCHANGED <<history, refreshed>>
        /\ direct' = direct \union {<<p, key>>}
    BY <1>6 DEF UpdateCache
  <2>2. \A k \in DOMAIN new : k # key => k \in DOMAIN own /\ new[k] = own[k]
    BY DEF Updated, Put
  <2>3. \A k \in DOMAIN own : <<p, k>> \in direct \/ FromHistory(own, p, k)
    BY DEF Inv, CacheInv, Contained
  <2> HIDE DEF new, own
  <2>4. \A k \in DOMAIN new : <<p, k>> \in direct' \/ FromHistory(new, p, k)
    BY <2>1, <2>2, <2>3 DEF FromHistory
  <2>5. CacheInv'
    BY <2>1, <2>4, CacheShape DEF Inv, CacheInv, FromHistory
  <2> QED
    BY <1>3, <1>4, <2>5 DEF Inv
<1> QED
  BY <1>1, <1>5, <1>6

\* A command that dies leaves the history as it was or as it should be, and at most one
\* provider's history that nobody can read.
LEMMA CrashInv ==
    ASSUME Inv, Crash
    PROVE  Inv'
<1>1. /\ cmd' = Idle /\ UNCHANGED <<refreshed, direct>>
      /\ \/ UNCHANGED <<history, cache>>
         \/ history' = history /\ cache' = [cache EXCEPT ![Provider] = Unreadable]
         \/ cache' = cache /\ cmd.pc = "fetch" /\ history' = cmd.staged
  BY DEF Crash, observed
<1>2. ShapeInv' /\ MemoryInv' /\ RepresentativeInv'
  BY <1>1, IdleShape DEF ShapeInv, MemoryInv, RepresentativeInv
<1>3. CASE UNCHANGED <<history, cache>>
  BY <1>1, <1>3, EndsInv
<1>4. CASE history' = history /\ cache' = [cache EXCEPT ![Provider] = Unreadable]
  <2>1. CacheInv'
    BY <1>1, <1>4, CacheShape DEF Inv, CacheInv, FromHistory
  <2>2. GateInv'
    BY <1>1, <1>4, IdleShape DEF GateInv, Working
  <2> QED
    BY <1>2, <2>1, <2>2 DEF Inv
<1>5. CASE cache' = cache /\ cmd.pc = "fetch" /\ history' = cmd.staged
  <2>1. Keeps(history', history)
    BY <1>5, StagedIsFounded
  <2>2. CacheInv'
    BY <1>1, <1>5, <2>1, KeptGrows, CacheIsKept DEF Inv
  <2>3. GateInv'
    BY <1>1, IdleShape DEF GateInv, Working
  <2> QED
    BY <1>2, <2>2, <2>3 DEF Inv
<1> QED
  BY <1>1, <1>3, <1>4, <1>5

LEMMA StutterInv ==
    ASSUME Inv, UNCHANGED <<history, cache, cmd, refreshed, direct>>
    PROVE  Inv'
<1>1. ShapeInv' /\ MemoryInv' /\ CacheInv'
  BY DEF Inv, ShapeInv, MemoryInv, CacheInv, FromHistory
<1>2. GateInv'
  BY DEF Inv, GateInv, AllAgree, Agrees
<1>3. RepresentativeInv'
  BY DEF Inv, RepresentativeInv, Provider
<1> QED
  BY <1>1, <1>2, <1>3 DEF Inv

LEMMA NextInv == TypeInv /\ Inv /\ [Next]_vars => Inv'
<1> SUFFICES ASSUME TypeInv, Inv, [Next]_vars PROVE Inv'
  OBVIOUS
<1>1. CASE Start
  BY <1>1, FreshCommand DEF Start, observed
<1>2. ASSUME NEW create \in BOOLEAN, Reconcile(create) PROVE Inv'
  BY <1>2, ReconcileInv
<1>3. CASE Update
  BY <1>3, UpdateInv
<1>4. CASE Read
  BY <1>4, ReadInv
<1>5. CASE FetchAsked \/ FetchFault
  BY <1>5, FetchAnswersInv
<1>6. CASE Write
  BY <1>6, WriteInv
<1>7. CASE Judge
  BY <1>7, JudgeInv
<1>8. CASE ReconcileProvider
  BY <1>8, ReconcileProviderInv
<1>9. CASE Crash
  BY <1>9, CrashInv
<1>10. CASE UNCHANGED vars
  BY <1>10, StutterInv DEF vars, observed
<1> QED
  BY <1>1, <1>2, <1>3, <1>4, <1>5, <1>6, <1>7, <1>8, <1>9, <1>10 DEF Next, Step

LEMMA InvHolds == Spec => []Inv
BY TypeHolds, InitInv, NextInv, PTL DEF Spec

\* A snapshot that is new, while the command fetches, and no representative's.
BulkStep ==
    /\ cmd.pc = "fetch"
    /\ \E k \in DOMAIN history' \ DOMAIN history : ~OfRepresentative(k)

LEMMA BulkStepsAgree ==
    ASSUME Inv, [Next]_vars, BulkStep
    PROVE  AllAgree(history)
<1>1. CASE history' = history
  BY <1>1 DEF BulkStep
<1>2. CASE history' = cmd.staged
  BY <1>2, StagedIsFounded DEF BulkStep
<1>3. history' = history \/ history' = cmd.staged
  BY DEF BulkStep, Next, Step, vars, Start, Reconcile, Update, UpdateHistory, UpdateCache, Read,
         FetchAsked, FetchFault, Fetch, Write, Judge, ReconcileProvider, Crash
<1> QED
  BY <1>1, <1>2, <1>3

\* A command writes the snapshot of an ETF that represents no provider only when the
\* history confirms every representative (run_live_baseline_backfill's gate), whatever was
\* answered, died and was replaced by updates before.
THEOREM BulkNeedsAgreement == Spec => BulkRestsOnAgreement
<1> DEFINE Body == (/\ cmd.pc = "fetch"
                    /\ \E k \in DOMAIN history' \ DOMAIN history :
                          \A p \in Range(Cohort) : k[1] # Representative(p)) =>
                   \A p \in Range(Cohort) : \E d \in Operational[Representative(p)] :
                       /\ <<Representative(p), d>> \in DOMAIN history
                       /\ history[<<Representative(p), d>>] \in Confirmed
<1>1. Inv /\ [Next]_vars => [Body]_vars
  <2> SUFFICES ASSUME Inv, [Next]_vars PROVE Body
    OBVIOUS
  <2>1. BulkStep => AllAgree(history)
    BY BulkStepsAgree
  <2> QED
    BY <2>1 DEF BulkStep, OfRepresentative, AllAgree, Agrees
<1> QED
  BY <1>1, InvHolds, PTL DEF Spec, BulkRestsOnAgreement

-----------------------------------------------------------------------------
(* What a reconciliation reports *)

\* The item of the provider at position i is so, and has a cause, when these are the
\* provider's histories, the canonical one and what updates wrote.
Caused(caches, h, wrote, replaced, i, item) ==
    LET p == Cohort[i] IN
    /\ item.status \in {"matched", "written"} => caches[p] = File(Slice(h, p))
    /\ item.extra \subseteq {k \in Etfs \X Dates : <<p, k>> \in wrote}
    /\ item.changed \subseteq {k \in Etfs \X Dates : <<p, k>> \in wrote \/ k \in replaced}

ReportInv ==
    /\ DOMAIN report # {} => cmd.pc = "idle"
    /\ \A i \in DOMAIN report : Caused(cache, history, direct, refreshed, i, report[i])
    /\ cmd.pc = "reconcile" =>
          \A i \in 1..(cmd.turn - 1) : Caused(cache, history, direct, refreshed, i, cmd.found[i])

LEMMA ItemShape ==
    ASSUME NEW status, NEW missing, NEW extra, NEW changed
    PROVE  LET item == Item(status, missing, extra, changed) IN
           item.status = status /\ item.extra = extra /\ item.changed = changed
BY DEF Item

\* Two functions on the same snapshots with the same contents are the same.
LEMMA SameHistory ==
    ASSUME NEW h, IsHistory(h), NEW g, IsHistory(g), DOMAIN h = DOMAIN g,
           \A k \in DOMAIN h : h[k] = g[k]
    PROVE  h = g
BY DEF IsHistory

\* What is said of a provider is so when it is said, and when its history has been written.
LEMMA ItemIsCaused ==
    ASSUME TypeInv, Inv, ReconcileProvider
    PROVE  LET slice == Slice(cmd.stored, Provider)
               item == ItemOf(slice, cache[Provider], cmd.create)
           IN  ~(slice # << >> /\ cache[Provider] = Unreadable) => Caused(cache', history', direct, refreshed, cmd.turn, item)
<1> DEFINE slice == Slice(cmd.stored, Provider)
           own == cache[Provider]
           item == ItemOf(slice, own, cmd.create)
<1> SUFFICES ASSUME ~(slice # << >> /\ own = Unreadable)
             PROVE  Caused(cache', history', direct, refreshed, cmd.turn, item)
  BY Zenon
<1>1. /\ UNCHANGED <<history, refreshed, direct>> /\ cmd.pc = "reconcile"
      /\ cache' = IF slice # << >> /\ own = Missing /\ cmd.create
                  THEN [cache EXCEPT ![Provider] = File(slice)] ELSE cache
  BY DEF ReconcileProvider, observed
<1>2. /\ cmd.stored = history /\ IsHistory(history) /\ Provider \in Range(Cohort)
      /\ DOMAIN cache = Range(Cohort) /\ Cohort[cmd.turn] = Provider /\ IsCache(own)
  BY <1>1, CohortDomain DEF TypeInv, Inv, MemoryInv, Provider
<1>3. slice = Slice(history, Provider) /\ IsHistory(slice)
  BY <1>2, SliceIsHistory
<1>4. CASE slice = << >>
  <2>1. item = Item("no_canonical_rows", {}, {}, {})
    BY <1>4 DEF ItemOf
  <2> HIDE DEF item
  <2> QED
    BY <2>1, ItemShape DEF Caused
<1>5. CASE slice # << >> /\ own.is # "file"
  <2>1. own = Missing
    BY <1>2, <1>5, CacheShape DEF IsCache
  <2>2. item = Item(IF cmd.create THEN "written" ELSE "missing", {}, {}, {})
    BY <1>5 DEF ItemOf
  <2> HIDE DEF item, slice
  <2>3. item.status \in {"matched", "written"} => cmd.create
    BY <2>2, ItemShape
  <2>4. cmd.create => cache'[Provider] = File(slice)
    BY <1>1, <1>2, <1>5, <2>1
  <2>5. item.extra = {} /\ item.changed = {}
    BY <2>2, ItemShape
  <2> QED
    BY <1>1, <1>2, <1>3, <2>3, <2>4, <2>5 DEF Caused
<1>6. CASE slice # << >> /\ own.is = "file"
  <2> DEFINE data == own.data
             missing == DOMAIN slice \ DOMAIN data
             extra == DOMAIN data \ DOMAIN slice
             changed == {k \in DOMAIN slice \intersect DOMAIN data : slice[k] # data[k]}
             status == IF missing \union extra \union changed = {} THEN "matched" ELSE "mismatched"
  <2>1. item = Item(status, missing, extra, changed)
    BY <1>6 DEF ItemOf, Compared
  <2>2. item.status = status /\ item.extra = extra /\ item.changed = changed
    BY <2>1, ItemShape
  <2>3. own = File(data) /\ IsHistory(data) /\ own # Missing
    BY <1>2, <1>6, CacheShape DEF IsCache
  <2>4. cache' = cache
    BY <1>1, <2>3
  <2>5. \A k \in DOMAIN data : <<Provider, k>> \in direct \/ FromHistory(data, Provider, k)
    BY <1>2, <1>6 DEF Inv, CacheInv
  <2>6. /\ DOMAIN slice = {k \in DOMAIN history : k[1] \in Range(Tracked[Provider])}
        /\ \A k \in DOMAIN slice : slice[k] = history[k]
    <3>1. /\ DOMAIN Slice(history, Provider) = {k \in DOMAIN history : k[1] \in Range(Tracked[Provider])}
          /\ \A k \in DOMAIN Slice(history, Provider) : Slice(history, Provider)[k] = history[k]
      BY SliceShape, Zenon
    <3> HIDE DEF slice
    <3> QED
      BY <1>3, <3>1
  <2>7. DOMAIN data \subseteq Etfs \X Dates
    BY <2>3 DEF IsHistory, Snapshots
  <2> HIDE DEF item, slice, own, data
  <2>8. extra \subseteq {k \in Etfs \X Dates : <<Provider, k>> \in direct}
    BY <2>5, <2>6, <2>7 DEF FromHistory
  <2>9. changed \subseteq {k \in Etfs \X Dates : <<Provider, k>> \in direct \/ k \in refreshed}
    BY <2>5, <2>6, <2>7 DEF FromHistory
  <2>10. status \in {"matched", "written"} => data = slice
    BY <1>3, <2>3, SameHistory
  <2> HIDE DEF status, extra, changed, missing
  <2> QED
    BY <1>1, <1>2, <1>3, <2>2, <2>3, <2>4, <2>8, <2>9, <2>10 DEF Caused, own
<1> QED
  BY <1>4, <1>5, <1>6

\* What was said of another provider stays so.
LEMMA OthersStayCaused ==
    ASSUME TypeInv, ReconcileProvider, NEW i \in DOMAIN Cohort, i # cmd.turn, NEW item,
           Caused(cache, history, direct, refreshed, i, item)
    PROVE  Caused(cache', history', direct, refreshed, i, item)
<1>1. /\ UNCHANGED <<history, refreshed, direct>>
      /\ \/ cache' = cache
         \/ cache' = [cache EXCEPT ![Provider] = File(Slice(cmd.stored, Provider))]
  BY DEF ReconcileProvider, observed
<1>2. Cohort[i] # Provider
  BY CohortAssumption DEF IsInjective, TypeInv, Provider
<1>3. Cohort[i] \in DOMAIN cache
  BY CohortDomain DEF TypeInv
<1>4. cache'[Cohort[i]] = cache[Cohort[i]]
  BY <1>1, <1>2, <1>3
<1> QED
  BY <1>1, <1>4 DEF Caused

LEMMA ReportOfReconcileProvider ==
    ASSUME TypeInv, Inv, ReportInv, ReconcileProvider
    PROVE  ReportInv'
<1> DEFINE slice == Slice(cmd.stored, Provider)
           item == ItemOf(slice, cache[Provider], cmd.create)
           found == Append(cmd.found, item)
           fails == slice # << >> /\ cache[Provider] = Unreadable
           last == cmd.turn = Len(Cohort)
<1>1. /\ cmd.pc = "reconcile"
      /\ cmd' = IF fails \/ last THEN Idle ELSE [cmd EXCEPT !.turn = @ + 1, !.found = found]
      /\ report' = IF last /\ ~fails THEN found ELSE report
  BY DEF ReconcileProvider
<1>2. /\ DOMAIN cmd = DOMAIN Idle /\ cmd.turn \in DOMAIN Cohort
      /\ Len(cmd.found) = cmd.turn - 1
  BY <1>1 DEF TypeInv, AskedInv
<1>3. PICK S : cmd.found \in Seq(S)
  BY <1>1 DEF TypeInv, AskedInv
<1>4. ~fails => Caused(cache', history', direct, refreshed, cmd.turn, item)
  BY ItemIsCaused
<1>5. DOMAIN report = {}
  BY <1>1 DEF ReportInv
<1>6. UNCHANGED <<history, direct, refreshed>>
  BY DEF ReconcileProvider, observed
<1>7. \A i \in 1..(cmd.turn - 1) : Caused(cache', history', direct, refreshed, i, cmd.found[i])
  <2> SUFFICES ASSUME NEW i \in 1..(cmd.turn - 1)
               PROVE  Caused(cache', history', direct, refreshed, i, cmd.found[i])
    OBVIOUS
  <2>1. i \in DOMAIN Cohort /\ i # cmd.turn
    BY <1>2, CohortDomain
  <2>2. Caused(cache, history, direct, refreshed, i, cmd.found[i])
    BY <1>1 DEF ReportInv
  <2> QED
    BY <2>1, <2>2, OthersStayCaused
<1>8. /\ DOMAIN found = 1..cmd.turn /\ found[cmd.turn] = item
      /\ \A i \in 1..(cmd.turn - 1) : found[i] = cmd.found[i]
  <2>1. /\ Len(cmd.found) \in Nat /\ DOMAIN found = 1..(Len(cmd.found) + 1)
        /\ \A i \in 1..Len(cmd.found) : found[i] = cmd.found[i]
        /\ found[Len(cmd.found) + 1] = item
    BY <1>3, Appended
  <2> HIDE DEF found, item
  <2> QED
    BY <1>2, <2>1, CohortDomain
<1> HIDE DEF found, item
<1>9. ~fails => \A i \in 1..cmd.turn : Caused(cache', history', direct, refreshed, i, found[i])
  <2> SUFFICES ASSUME ~fails, NEW i \in 1..cmd.turn
               PROVE  Caused(cache', history', direct, refreshed, i, found[i])
    OBVIOUS
  <2>1. CASE i = cmd.turn
    BY <1>4, <1>8, <2>1
  <2>2. CASE i # cmd.turn
    <3>1. i \in 1..(cmd.turn - 1)
      BY <1>2, <2>2, CohortDomain
    <3> QED
      BY <1>7, <1>8, <3>1
  <2> QED
    BY <2>1, <2>2
<1> HIDE DEF fails
<1>10. CASE fails \/ last
  <2>1. cmd'.pc = "idle"
    BY <1>1, <1>10, IdleShape
  <2>2. \A i \in DOMAIN report' : Caused(cache', history', direct, refreshed, i, report'[i])
    BY <1>1, <1>5, <1>8, <1>9
  <2> QED
    BY <1>6, <2>1, <2>2 DEF ReportInv
<1>11. CASE ~fails /\ ~last
  <2>1. /\ cmd'.pc = "reconcile" /\ cmd'.turn = cmd.turn + 1 /\ cmd'.found = found
        /\ report' = report
    BY <1>1, <1>2, <1>11, IdleShape
  <2>2. \A i \in 1..(cmd'.turn - 1) : Caused(cache', history', direct, refreshed, i, found[i])
    BY <1>2, <1>9, <1>11, <2>1, CohortDomain
  <2> QED
    BY <1>5, <1>6, <2>1, <2>2 DEF ReportInv
<1> QED
  BY <1>10, <1>11

\* Nothing has been reported since the files changed, and nothing is being compared.
LEMMA NothingReported ==
    ASSUME DOMAIN report' = {}, cmd'.pc # "reconcile"
    PROVE  ReportInv'
BY DEF ReportInv

LEMMA ReportNext == TypeInv /\ Inv /\ ReportInv /\ [Next]_vars => ReportInv'
<1> SUFFICES ASSUME TypeInv, Inv, ReportInv, [Next]_vars PROVE ReportInv'
  OBVIOUS
<1>1. CASE Start
  BY <1>1, IdleShape, NothingReported DEF Start, NoReport
<1>2. ASSUME NEW create \in BOOLEAN, Reconcile(create) PROVE ReportInv'
  <2>1. DOMAIN report' = {} /\ cmd'.turn = 1
    BY <1>2, IdleShape DEF Reconcile, NoReport
  <2>2. \A i \in 1..(cmd'.turn - 1) : FALSE
    BY <2>1
  <2> QED
    BY <2>1, <2>2 DEF ReportInv
<1>3. CASE Update
  BY <1>3, NothingReported DEF Update, UpdateHistory, UpdateCache, NoReport
<1>4. CASE Read \/ FetchAsked \/ FetchFault \/ Write \/ Judge
  <2>1. cmd.pc \in Working /\ report' = report
    BY <1>4 DEF Read, FetchAsked, FetchFault, Fetch, Write, Judge, Working
  <2>2. cmd'.pc # "reconcile"
    <3>1. DOMAIN cmd = DOMAIN Idle
      BY DEF TypeInv
    <3>2. CASE Read
      BY <3>1, <3>2, IdleShape DEF Read
    <3>3. ASSUME NEW answer, Fetch(answer) PROVE cmd'.pc # "reconcile"
      BY <3>1, <3>3, IdleShape DEF Fetch
    <3>4. CASE Write
      BY <3>1, <3>4, IdleShape DEF Write
    <3>5. CASE Judge
      BY <3>1, <3>5, IdleShape DEF Judge
    <3> QED
      BY <1>4, <3>2, <3>3, <3>4, <3>5 DEF FetchAsked, FetchFault
  <2> QED
    BY <2>1, <2>2, NothingReported DEF ReportInv, Working
<1>5. CASE ReconcileProvider
  BY <1>5, ReportOfReconcileProvider
<1>6. CASE Crash
  BY <1>6, IdleShape, NothingReported DEF Crash, ReportInv
<1>7. CASE UNCHANGED vars
  BY <1>7 DEF vars, observed, ReportInv
<1> QED
  BY <1>1, <1>2, <1>3, <1>4, <1>5, <1>6, <1>7 DEF Next, Step

LEMMA ReportInit == Init => ReportInv
<1> SUFFICES ASSUME Init PROVE ReportInv
  OBVIOUS
<1> QED
  BY IdleShape DEF Init, NoReport, ReportInv

\* What reconcile_provider_holdings_histories reports of a provider's history is so: it is
\* the canonical history's part if it matches or was written, and a snapshot that is one
\* too many or changed was written by an update, or replaced by one that was told to.
THEOREM ReportedMismatchesHaveACause == Spec => []MismatchesHaveACause
<1>1. ReportInv => MismatchesHaveACause
  BY DEF ReportInv, Caused, MismatchesHaveACause
<1> QED
  BY <1>1, ReportInit, ReportNext, TypeHolds, InvHolds, PTL DEF Spec

-----------------------------------------------------------------------------
(* Completed backfills *)

\* An ETF whose window is there and whole; a provider all of whose ETFs are ready but those
\* it answered otherwise (s).
Ready(h, p, e) == Window(h, p, e) # {} /\ MissingDates(h, p, e) = {}
Complete(h, s, p) == \A e \in Range(Tracked[p]) : e \in s \/ Ready(h, p, e)

\* Every date of the window that h asks for is in g, or a request for it is in Q.
Covered(h, g, Q, p, e) ==
    /\ Window(h, p, e) # {}
    /\ \A d \in Window(h, p, e) : <<e, d>> \in DOMAIN g \/ [etf |-> e, date |-> d] \in Q
AllCovered(h, g, Q, s, p) == \A e \in Range(Tracked[p]) : e \in s \/ Covered(h, g, Q, p, e)

\* What has been done of a bulk phase in which nothing went wrong.
BulkInv ==
    (cmd.bulk /\ cmd.complete /\ cmd.pc \in Working) =>
        /\ \A i \in 1..(cmd.turn - 1) : Complete(history, strayed, Cohort[i])
        /\ cmd.pc = "fetch" =>
              AllCovered(history, cmd.staged, cmd.requests, strayed, Provider)
        /\ cmd.pc = "judge" => Complete(history, strayed, Provider)

PlanInv ==
    /\ summary.completed =>
          /\ cmd.pc \in {"idle", "reconcile"}
          /\ \A p \in Range(Cohort) : Complete(history, strayed, p)
    /\ BulkInv

\* Once a window is in the history the plan asks for no other, although it is then made
\* from more dates: those of the operational copy stay, and of two dates or more that the
\* history has, the latest two are the window.
LEMMA CoveredIsReady ==
    ASSUME NEW h, IsHistory(h), NEW g, IsHistory(g), DOMAIN h \subseteq DOMAIN g,
           NEW p \in Range(Cohort), NEW e \in Range(Tracked[p]), Covered(h, g, {}, p, e)
    PROVE  Ready(g, p, e)
<1> DEFINE old == DatesIn(h, e)
           have == DatesIn(g, e)
           latest == IF old # {} THEN old ELSE Anchors(p)
<1>1. old \subseteq have /\ Window(h, p, e) \subseteq have /\ Window(h, p, e) # {}
  BY DatesOfHistory DEF Covered
<1>2. have \subseteq Dates /\ IsFiniteSet(have) /\ Cardinality(have) \in Nat
  BY DatesOfHistory, FS_CardinalityType
<1>3. CASE Cardinality(Operational[e]) >= 2
  <2>1. Window(g, p, e) = Window(h, p, e)
    BY <1>3, Windows
  <2> QED
    BY <1>1, <2>1 DEF Ready, MissingDates
<1>4. CASE ~(Cardinality(Operational[e]) >= 2)
  <2>1. Cardinality(have) >= 2
    <3>1. CASE Cardinality(old) >= 2
      <4>1. Cardinality(old) =< Cardinality(have) /\ Cardinality(old) \in Nat
        BY <1>1, <1>2, FS_Subset, FS_CardinalityType
      <4> QED
        BY <1>2, <3>1, <4>1
    <3>2. CASE ~(Cardinality(old) >= 2)
      <4>1. Window(h, p, e) = IF latest = {} THEN {} ELSE {Max(latest), Previous(Max(latest))}
        BY <1>4, <3>2, Windows
      <4>2. Max(latest) \in have /\ Previous(Max(latest)) \in have
        BY <1>1, <4>1
      <4> HIDE DEF latest, have
      <4>3. Max(latest) # Previous(Max(latest))
        <5>1. Max(latest) \in Int
          BY <1>2, <4>2 DEF Dates
        <5> QED
          BY <5>1 DEF Previous
      <4>4. have # {} /\ \A x : have # {x}
        BY <4>2, <4>3
      <4>5. Cardinality(have) # 0 /\ Cardinality(have) # 1
        BY <1>2, <4>4, FS_EmptySet, FS_Singleton, Zenon
      <4> QED
        BY <1>2, <4>5
    <3> QED
      BY <3>1, <3>2
  <2>2. Window(g, p, e) = TwoLatest(have)
    BY <1>4, <2>1, Windows
  <2> HIDE DEF have
  <2>3. Window(g, p, e) \subseteq have /\ Window(g, p, e) # {}
    BY <1>2, <2>1, <2>2, TwoOfMany
  <2> QED
    BY <2>3 DEF Ready, MissingDates, have
<1> QED
  BY <1>3, <1>4

LEMMA CompleteAfterwards ==
    ASSUME NEW h, IsHistory(h), NEW g, IsHistory(g), DOMAIN h \subseteq DOMAIN g,
           NEW s, NEW t, s \subseteq t, NEW p \in Range(Cohort)
    PROVE  /\ AllCovered(h, g, {}, s, p) => Complete(g, t, p)
           /\ Complete(h, s, p) => Complete(g, t, p)
<1>1. \A e \in Range(Tracked[p]) : Ready(h, p, e) => Covered(h, g, {}, p, e)
  BY DatesOfHistory DEF Ready, Covered, MissingDates
<1>2. \A e \in Range(Tracked[p]) : Covered(h, g, {}, p, e) => Ready(g, p, e)
  BY CoveredIsReady
<1> QED
  BY <1>1, <1>2 DEF AllCovered, Complete

\* A plan without gaps covers what it was made from.
LEMMA PlanCovers ==
    ASSUME NEW h, IsHistory(h), NEW p \in Range(Cohort), ~Gap(h, p), NEW s
    PROVE  AllCovered(h, h, Requests(h, p), s, p)
BY RequestsOfPlan DEF Gap, AllCovered, Covered

LEMMA PlanInit == Init => PlanInv
<1> SUFFICES ASSUME Init PROVE PlanInv
  OBVIOUS
<1>1. ~summary.completed
  BY DEF Init, NoSummary
<1>2. ~cmd.bulk
  BY IdleShape DEF Init
<1> QED
  BY <1>1, <1>2 DEF PlanInv, BulkInv

\* A command that ends unfinished, or one that has yet to begin the bulk phase.
LEMMA PlanOfOther ==
    ASSUME ~summary'.completed, ~cmd'.bulk \/ cmd'.pc \notin Working
    PROVE  PlanInv'
BY DEF PlanInv, BulkInv

LEMMA NotYetCompleted ==
    ASSUME PlanInv, cmd.pc \in Working
    PROVE  ~summary.completed
BY DEF PlanInv, Working

LEMMA PlanOfRead ==
    ASSUME TypeInv, PlanInv, Read
    PROVE  PlanInv'
<1> DEFINE r == Representative(Provider)
           requests == IF cmd.bulk THEN Requests(history, Provider)
                       ELSE {[etf |-> r, date |-> Max(Operational[r])]}
           complete == cmd.complete /\ (cmd.bulk => ~Gap(history, Provider))
           new == [cmd EXCEPT !.pc = "fetch", !.requests = requests, !.attempts = 0,
                              !.stored = history, !.staged = history, !.complete = complete]
<1>1. /\ cmd.pc = "read" /\ UNCHANGED <<history, summary, strayed>>
      /\ cmd' = new \/ cmd' = Idle
  BY DEF Read, observed
<1>2. ~summary'.completed
  BY <1>1, NotYetCompleted DEF Working
<1>3. CASE cmd' = Idle
  BY <1>2, <1>3, IdleShape, PlanOfOther
<1>4. CASE cmd' = new
  <2>1. DOMAIN cmd = DOMAIN Idle /\ IsHistory(history) /\ Provider \in Range(Cohort)
    BY CohortDomain DEF TypeInv, Provider
  <2>2. cmd.bulk /\ complete =>
          AllCovered(history, history, requests, strayed, Provider)
    BY <2>1, PlanCovers
  <2>3. complete => cmd.complete
    OBVIOUS
  <2> HIDE DEF requests, complete
  <2>4. /\ new.pc = "fetch" /\ new.requests = requests /\ new.staged = history
        /\ new.turn = cmd.turn /\ new.bulk = cmd.bulk /\ new.complete = complete
    BY <2>1, IdleShape
  <2> HIDE DEF new
  <2>5. Provider' = Provider
    BY <1>4, <2>4 DEF Provider
  <2>6. cmd.bulk /\ complete =>
          \A i \in 1..(cmd.turn - 1) : Complete(history, strayed, Cohort[i])
    BY <1>1, <2>3 DEF PlanInv, BulkInv, Working
  <2>7. BulkInv'
    BY <1>1, <1>4, <2>2, <2>4, <2>5, <2>6 DEF BulkInv
  <2> QED
    BY <1>2, <2>7 DEF PlanInv
<1> QED
  BY <1>1, <1>3, <1>4

\* A target that was served is in what will be written, if its date was the one asked for.
LEMMA PlanOfFetch ==
    ASSUME TypeInv, Inv, PlanInv, NEW answer, Fetch(answer),
           answer = Asked(Asking) \/ answer \in Answers(Asking)
    PROVE  PlanInv'
<1> DEFINE q == Asking
           outcome == Outcome(cmd.stored, q.etf, answer)
           requests == IF outcome \in Refused THEN {} ELSE cmd.requests \ {q}
           staged == IF outcome = "fetched"
                     THEN Put(cmd.staged, <<q.etf, answer.date>>, answer.content)
                     ELSE cmd.staged
           complete == cmd.complete /\ (cmd.bulk => ~LeavesIncomplete(outcome))
           again == [cmd EXCEPT !.attempts = @ + 1]
           new == [cmd EXCEPT !.attempts = 0, !.answer = answer, !.outcome = outcome,
                              !.requests = requests, !.staged = staged,
                              !.complete = complete]
<1>1. /\ cmd.pc = "fetch" /\ cmd.requests # {} /\ UNCHANGED <<history, summary>>
      /\ cmd' = again \/ cmd' = Idle \/ (cmd' = new /\ answer.is # "malformed")
      /\ strayed \subseteq strayed'
      /\ answer.is = "rows" /\ answer.date # q.date => q.etf \in strayed'
  BY DEF Fetch
<1>2. ~summary'.completed
  BY <1>1, NotYetCompleted DEF Working
<1>3. CASE cmd' = Idle
  BY <1>2, <1>3, IdleShape, PlanOfOther
<1>4. /\ DOMAIN cmd = DOMAIN Idle /\ cmd.turn \in 1..Len(Cohort) /\ Provider \in Range(Cohort)
      /\ IsHistory(history)
      /\ \A i \in 1..(cmd.turn - 1) : Cohort[i] \in Range(Cohort)
  BY CohortDomain DEF TypeInv, Provider
<1>5. (cmd.bulk /\ cmd.complete) =>
        /\ \A i \in 1..(cmd.turn - 1) : Complete(history, strayed', Cohort[i])
        /\ AllCovered(history, cmd.staged, cmd.requests, strayed', Provider)
  <2>1. (cmd.bulk /\ cmd.complete) =>
          /\ \A i \in 1..(cmd.turn - 1) : Complete(history, strayed, Cohort[i])
          /\ AllCovered(history, cmd.staged, cmd.requests, strayed, Provider)
    BY <1>1 DEF PlanInv, BulkInv, Working
  <2> QED
    BY <1>1, <2>1 DEF Complete, AllCovered
<1>6. CASE cmd' = again
  <2>1. /\ again.pc = "fetch" /\ again.requests = cmd.requests
        /\ again.staged = cmd.staged /\ again.turn = cmd.turn /\ again.bulk = cmd.bulk
        /\ again.complete = cmd.complete
    BY <1>1, <1>4, IdleShape
  <2> HIDE DEF again
  <2>2. Provider' = Provider
    BY <1>6, <2>1 DEF Provider
  <2>3. BulkInv'
    BY <1>1, <1>5, <1>6, <2>1, <2>2 DEF BulkInv
  <2> QED
    BY <1>2, <2>3 DEF PlanInv
<1>7. CASE cmd' = new /\ answer.is # "malformed"
  <2>1. complete => cmd.complete
    OBVIOUS
  <2>2. ASSUME cmd.bulk, complete
        PROVE  AllCovered(history, staged, requests, strayed', Provider)
    <3>1. outcome \notin NotServed
      BY <2>2 DEF LeavesIncomplete
    <3>2. answer.is \in {"rows", "failed", "malformed"} \union Refused
      BY <1>1, AnswerTypes
    <3>3. answer.is = "rows" /\ outcome \in Served
      BY <1>7, <3>1, <3>2 DEF Outcome, NotServed, Served
    <3>4. /\ DOMAIN cmd.staged \subseteq DOMAIN staged
          /\ <<q.etf, answer.date>> \in DOMAIN staged
      <4>1. CASE outcome = "fetched"
        BY <4>1 DEF Put
      <4>2. CASE outcome = "skipped_existing"
        <5>1. <<q.etf, answer.date>> \in DOMAIN cmd.stored
          BY <3>3, <4>2, OutcomeEffect
        <5>2. DOMAIN cmd.stored \subseteq DOMAIN cmd.staged
          BY <1>1 DEF Inv, MemoryInv, Keeps
        <5> QED
          BY <4>2, <5>1, <5>2
      <4> QED
        BY <3>3, <4>1, <4>2 DEF Served
    <3>5. requests = cmd.requests \ {q}
      BY <3>1 DEF NotServed
    <3>6. q \in Requested
      BY <1>1, AskingIsRequested
    <3> HIDE DEF q, outcome, staged, requests, complete
    <3> SUFFICES ASSUME NEW e \in Range(Tracked[Provider]), e \notin strayed'
                 PROVE  Covered(history, staged, requests, Provider, e)
      BY DEF AllCovered
    <3>7. Covered(history, cmd.staged, cmd.requests, Provider, e)
      BY <1>5, <2>1, <2>2 DEF AllCovered
    <3>8. \A d : [etf |-> e, date |-> d] = q => <<e, d>> \in DOMAIN staged
      BY <1>1, <3>3, <3>4, <3>6 DEF q
    <3> QED
      BY <3>4, <3>5, <3>7, <3>8 DEF Covered
  <2> HIDE DEF requests, complete, staged, outcome
  <2>3. /\ new.pc = "fetch" /\ new.requests = requests /\ new.staged = staged
        /\ new.turn = cmd.turn /\ new.bulk = cmd.bulk /\ new.complete = complete
    BY <1>1, <1>4, IdleShape
  <2> HIDE DEF new
  <2>4. Provider' = Provider
    BY <1>7, <2>3 DEF Provider
  <2>5. BulkInv'
    BY <1>1, <1>5, <1>7, <2>1, <2>2, <2>3, <2>4 DEF BulkInv
  <2> QED
    BY <1>2, <2>5 DEF PlanInv
<1> QED
  BY <1>1, <1>3, <1>6, <1>7

LEMMA PlanOfAnswers ==
    ASSUME TypeInv, Inv, PlanInv, FetchAsked \/ FetchFault
    PROVE  PlanInv'
<1>1. CASE FetchAsked
  BY <1>1, PlanOfFetch DEF FetchAsked
<1>2. CASE FetchFault
  <2>1. PICK answer \in Answers(Asking) : Fetch(answer)
    BY <1>2 DEF FetchFault
  <2> QED
    BY <2>1, PlanOfFetch
<1> QED
  BY <1>1, <1>2

LEMMA PlanOfWrite ==
    ASSUME TypeInv, Inv, PlanInv, Write
    PROVE  PlanInv'
<1>1. /\ cmd.pc = "fetch" /\ cmd.requests = {} /\ history' = cmd.staged
      /\ cmd' = [cmd EXCEPT !.pc = "judge"] /\ UNCHANGED <<summary, strayed>>
  BY DEF Write, observed
<1>2. /\ DOMAIN cmd = DOMAIN Idle /\ cmd.turn \in 1..Len(Cohort) /\ Provider \in Range(Cohort)
      /\ IsHistory(history) /\ IsHistory(cmd.staged)
      /\ \A i \in 1..(cmd.turn - 1) : Cohort[i] \in Range(Cohort)
  BY <1>1, CohortDomain DEF TypeInv, AskedInv, Provider
<1>3. /\ cmd'.pc = "judge" /\ cmd'.turn = cmd.turn /\ cmd'.bulk = cmd.bulk
      /\ cmd'.complete = cmd.complete
  BY <1>1, <1>2, IdleShape
<1>4. Provider' = Provider
  BY <1>3 DEF Provider
<1>5. DOMAIN history \subseteq DOMAIN cmd.staged
  BY <1>1 DEF Inv, MemoryInv, Keeps
<1>6. \A p \in Range(Cohort) :
        /\ AllCovered(history, cmd.staged, {}, strayed, p) => Complete(cmd.staged, strayed, p)
        /\ Complete(history, strayed, p) => Complete(cmd.staged, strayed, p)
  BY <1>2, <1>5, CompleteAfterwards
<1>7. (cmd.bulk /\ cmd.complete) =>
        /\ \A i \in 1..(cmd.turn - 1) : Complete(history, strayed, Cohort[i])
        /\ AllCovered(history, cmd.staged, {}, strayed, Provider)
  BY <1>1 DEF PlanInv, BulkInv, Working
<1>8. BulkInv'
  BY <1>1, <1>2, <1>3, <1>4, <1>6, <1>7 DEF BulkInv
<1>9. ~summary'.completed
  BY <1>1, NotYetCompleted DEF Working
<1> QED
  BY <1>8, <1>9 DEF PlanInv

\* The bulk phase is over when the last provider was: then every provider is complete.
LEMMA PlanOfJudge ==
    ASSUME TypeInv, PlanInv, Judge
    PROVE  PlanInv'
<1> DEFINE agreed == cmd.agreed /\ (\/ cmd.bulk
                                    \/ Passed(history, Representative(Provider), cmd.outcome,
                                              cmd.answer))
           onward == [cmd EXCEPT !.pc = "read", !.turn = @ + 1, !.agreed = agreed,
                                 !.stored = << >>, !.staged = << >>,
                                 !.answer = Silent, !.outcome = "none"]
           bulk == [Idle EXCEPT !.pc = "read", !.bulk = TRUE]
           told == [bulk |-> cmd.bulk, completed |-> cmd.bulk /\ cmd.complete]
<1>1. /\ cmd.pc = "judge" /\ UNCHANGED <<history, strayed>>
      /\ \/ cmd.turn < Len(Cohort) /\ cmd' = onward /\ summary' = summary
         \/ cmd' = bulk /\ summary' = summary
         \/ ~(cmd.turn < Len(Cohort)) /\ cmd' = Idle /\ summary' = told
  BY DEF Judge, observed
<1>2. /\ DOMAIN cmd = DOMAIN Idle /\ cmd.turn \in 1..Len(Cohort) /\ Len(Cohort) \in Nat
      /\ DOMAIN Cohort = 1..Len(Cohort)
  BY CohortDomain DEF TypeInv
<1>3. ~summary.completed
  BY <1>1, NotYetCompleted DEF Working
<1>4. (cmd.bulk /\ cmd.complete) =>
        \A i \in 1..cmd.turn : Complete(history, strayed, Cohort[i])
  <2> SUFFICES ASSUME cmd.bulk /\ cmd.complete, NEW i \in 1..cmd.turn
               PROVE  Complete(history, strayed, Cohort[i])
    OBVIOUS
  <2>1. CASE i = cmd.turn
    BY <1>1, <2>1 DEF PlanInv, BulkInv, Working, Provider
  <2>2. CASE i # cmd.turn
    <3>1. i \in 1..(cmd.turn - 1)
      BY <1>2, <2>2
    <3> QED
      BY <1>1, <3>1 DEF PlanInv, BulkInv, Working
  <2> QED
    BY <2>1, <2>2
<1>5. CASE cmd.turn < Len(Cohort) /\ cmd' = onward /\ summary' = summary
  <2> HIDE DEF agreed
  <2>1. /\ onward.pc = "read" /\ onward.turn = cmd.turn + 1
        /\ onward.bulk = cmd.bulk /\ onward.complete = cmd.complete
    BY <1>2, IdleShape
  <2> HIDE DEF onward
  <2>2. cmd'.turn - 1 = cmd.turn
    BY <1>2, <1>5, <2>1
  <2>3. BulkInv'
    BY <1>1, <1>4, <1>5, <2>1, <2>2 DEF BulkInv
  <2> QED
    BY <1>3, <1>5, <2>3 DEF PlanInv
<1>6. CASE cmd' = bulk /\ summary' = summary
  <2>1. bulk.pc = "read" /\ bulk.turn = 1
    BY IdleShape
  <2> HIDE DEF bulk
  <2>2. BulkInv'
    BY <1>6, <2>1 DEF BulkInv
  <2> QED
    BY <1>3, <1>6, <2>2 DEF PlanInv
<1>7. CASE ~(cmd.turn < Len(Cohort)) /\ cmd' = Idle /\ summary' = told
  <2>1. told.completed => cmd.bulk /\ cmd.complete
    OBVIOUS
  <2> HIDE DEF told
  <2>2. ASSUME summary'.completed
        PROVE  \A p \in Range(Cohort) : Complete(history, strayed, p)
    <3> SUFFICES ASSUME NEW p \in Range(Cohort) PROVE Complete(history, strayed, p)
      OBVIOUS
    <3>1. PICK i \in DOMAIN Cohort : Cohort[i] = p
      BY CohortDomain
    <3>2. i \in 1..cmd.turn
      BY <1>2, <1>7, <3>1
    <3> QED
      BY <1>4, <1>7, <2>1, <2>2, <3>1, <3>2
  <2>3. BulkInv'
    BY <1>7, IdleShape DEF BulkInv
  <2> QED
    BY <1>1, <1>7, <2>2, <2>3, IdleShape DEF PlanInv
<1> QED
  BY <1>1, <1>5, <1>6, <1>7

LEMMA PlanOfReconcile ==
    ASSUME TypeInv, PlanInv, (\E create \in BOOLEAN : Reconcile(create)) \/ ReconcileProvider
    PROVE  PlanInv'
<1>1. UNCHANGED <<history, summary, strayed>>
  BY DEF Reconcile, ReconcileProvider, observed
<1>2. cmd'.pc \in {"idle", "reconcile"}
  <2>1. CASE \E create \in BOOLEAN : Reconcile(create)
    BY <2>1, IdleShape DEF Reconcile
  <2>2. CASE ReconcileProvider
    <3>1. DOMAIN cmd = DOMAIN Idle
      BY DEF TypeInv
    <3> QED
      BY <2>2, <3>1, IdleShape DEF ReconcileProvider
  <2> QED
    BY <2>1, <2>2
<1> QED
  BY <1>1, <1>2 DEF PlanInv, BulkInv, Working

\* A backfill that dies has told nothing; a reconciliation that dies leaves the history.
LEMMA PlanOfCrash ==
    ASSUME PlanInv, Crash
    PROVE  PlanInv'
<1>1. /\ cmd' = Idle /\ UNCHANGED <<summary, strayed>>
      /\ history' = history \/ cmd.pc = "fetch"
  BY DEF Crash, observed
<1>2. summary.completed => history' = history
  BY <1>1, NotYetCompleted DEF Working
<1> QED
  BY <1>1, <1>2, IdleShape DEF PlanInv, BulkInv, Working

\* An update leaves what is in the history there, so what was complete still is.
LEMMA PlanOfUpdate ==
    ASSUME TypeInv, TypeInv', Inv, PlanInv, Update
    PROVE  PlanInv'
<1>1. /\ cmd.pc = "idle" /\ UNCHANGED <<cmd, summary, strayed>>
      /\ \/ history' = history
         \/ \E key, content, refresh : history' = Updated(history, key, content, refresh)
  BY DEF Update, UpdateHistory, UpdateCache
<1>2. DOMAIN history \subseteq DOMAIN history'
  BY <1>1 DEF Updated, Put
<1>3. IsHistory(history) /\ IsHistory(history')
  BY DEF TypeInv
<1>4. \A p \in Range(Cohort) : Complete(history, strayed, p) => Complete(history', strayed, p)
  BY <1>2, <1>3, CompleteAfterwards
<1> QED
  BY <1>1, <1>4 DEF PlanInv, BulkInv, Working

LEMMA PlanNext == TypeInv /\ Inv /\ PlanInv /\ [Next]_vars => PlanInv'
<1> SUFFICES ASSUME TypeInv, Inv, PlanInv, [Next]_vars PROVE PlanInv'
  OBVIOUS
<1>1. CASE Start
  <2>1. ~summary'.completed
    BY <1>1 DEF Start, NoSummary
  <2>2. ~cmd'.bulk
    BY <1>1, IdleShape DEF Start
  <2> QED
    BY <2>1, <2>2, PlanOfOther
<1>2. CASE (\E create \in BOOLEAN : Reconcile(create)) \/ ReconcileProvider
  BY <1>2, PlanOfReconcile
<1>3. CASE Read
  BY <1>3, PlanOfRead
<1>4. CASE FetchAsked \/ FetchFault
  BY <1>4, PlanOfAnswers
<1>5. CASE Write
  BY <1>5, PlanOfWrite
<1>6. CASE Judge
  BY <1>6, PlanOfJudge
<1>7. CASE Crash
  BY <1>7, PlanOfCrash
<1>8. CASE Update
  BY <1>8, TypeNext, PlanOfUpdate
<1>9. CASE UNCHANGED vars
  BY <1>9 DEF vars, observed, PlanInv, BulkInv, Provider
<1> QED
  BY <1>1, <1>2, <1>3, <1>4, <1>5, <1>6, <1>7, <1>8, <1>9 DEF Next, Step

\* A bulk phase that is reported as completed left every ETF its comparison window, but for
\* those whose provider answered with the rows of another date: they count as fetched
\* (run_live_baseline_backfill, _provider_result_has_incomplete_targets).
THEOREM CompletedBackfillsAreReady == Spec => []CompletedMeansReady
<1>1. PlanInv => CompletedMeansReady
  BY DEF PlanInv, Complete, Ready, CompletedMeansReady
<1> QED
  BY <1>1, PlanInit, PlanNext, TypeHolds, InvHolds, PTL DEF Spec

=============================================================================
