---------------------- MODULE EvidenceCollection_proofs ----------------------
(***************************************************************************)
(* Theorems about EvidenceCollection, for any boards, providers, answers,  *)
(* and deaths.                                                             *)
(***************************************************************************)
EXTENDS EvidenceCollection, FiniteSetTheorems, SequenceTheorems, TLAPS

\* Cooldowns that keep provider p quiet as long as its recorded refusal asks for, and
\* never longer than one more refusal would.
Quiets(table, now, asked) ==
    /\ DOMAIN table \subseteq ProviderSet
    /\ \A p \in DOMAIN table : table[p] \in Nat /\ table[p] <= now + DurationOf[p]
    /\ \A p \in ProviderSet : asked[p] > now => p \in DOMAIN table /\ table[p] >= asked[p]

ShapeInv ==
    /\ DOMAIN cmd = DOMAIN Idle
    /\ cmd.keep \in BOOLEAN /\ cmd.ignore \in BOOLEAN /\ cmd.live \in BOOLEAN
    /\ cmd.todo \in Seq(ProviderSet)
    /\ cmd.found \in Seq(Candidates) /\ cmd.candidates \in Seq(Candidates)
    /\ clock \in Nat /\ quiet \in [ProviderSet -> Nat]

\* A command that knows the cooldowns keeps them, and one that is at a provider heeds them.
QuietInv ==
    /\ \A p \in ProviderSet : quiet[p] <= clock + DurationOf[p]
    /\ cooldowns = Missing => \A p \in ProviderSet : quiet[p] = 0
    /\ \/ cooldowns \in {Missing, Torn}
       \/ cooldowns.is = "file" /\ Quiets(cooldowns.data, clock, quiet)
    /\ (cmd.keep /\ cmd.pc # "idle") => Quiets(cmd.table, clock, quiet)
    /\ cmd.pc = "request" => cmd.todo # << >>
    /\ (cmd.pc = "request" /\ cmd.keep /\ ~cmd.ignore) => quiet[Head(cmd.todo)] <= clock

\* Every provider is still to be asked or has ended; one that refused has a cooldown.
TurnInv ==
    cmd.pc # "idle" =>
        /\ \A p \in ProviderSet :
              p \in DOMAIN cmd.outcome \/ \E i \in 1..Len(cmd.todo) : cmd.todo[i] = p
        /\ \A p \in DOMAIN cmd.outcome :
              (cmd.keep /\ cmd.outcome[p].status \in Refusals) => p \in DOMAIN cmd.table
        /\ cmd.pc \in {"summary", "cooldowns"} => cmd.todo = << >>
        /\ cmd.pc = "cooldowns" => cmd.keep

EvidenceInv == cmd.pc = "summary" => evidence = File(Deduped(cmd.candidates))

Inv == ShapeInv /\ QuietInv /\ TurnInv /\ EvidenceInv

LEMMA IdleShape ==
    /\ DOMAIN Idle = {"pc", "live", "keep", "ignore", "board", "targets", "todo", "requests",
                      "attempt", "found", "candidates", "outcome", "table"}
    /\ Idle.pc = "idle" /\ Idle.keep = FALSE /\ Idle.ignore = FALSE /\ Idle.live = FALSE
    /\ Idle.todo = << >> /\ Idle.found = << >> /\ Idle.candidates = << >>
    /\ Idle.outcome = << >> /\ Idle.table = << >>
BY DEF Idle

LEMMA EmptySequences == << >> \in Seq(ProviderSet) /\ << >> \in Seq(Candidates)
OBVIOUS

LEMMA FileShape ==
    /\ \A data : File(data).is = "file" /\ File(data).data = data
    /\ \A data : File(data) # Missing /\ File(data) # Torn
    /\ Missing.is # "file" /\ Torn.is # "file" /\ Missing # Torn
BY DEF File, Missing, Torn

LEMMA Durations == \A p \in ProviderSet : DurationOf[p] \in Nat /\ DurationOf[p] > 0
BY ProvidersAssumption

LEMMA NoCooldowns ==
    ASSUME NEW now \in Nat, NEW asked, \A p \in ProviderSet : asked[p] <= now,
           asked \in [ProviderSet -> Nat]
    PROVE  Quiets(<< >>, now, asked)
<1>1. DOMAIN << >> = {}
  OBVIOUS
<1> QED
  BY <1>1 DEF Quiets

LEMMA InitInv == Init => Inv
<1> SUFFICES ASSUME Init PROVE Inv
  OBVIOUS
<1>1. cmd = Idle /\ cooldowns = Missing /\ clock = 0 /\ quiet = [p \in ProviderSet |-> 0]
  BY DEF Init
<1>2. ShapeInv
  <2>1. clock \in Nat /\ quiet \in [ProviderSet -> Nat]
    BY <1>1
  <2> QED
    BY <1>1, <2>1, IdleShape, EmptySequences DEF ShapeInv
<1>3. QuietInv
  BY <1>1, IdleShape, Durations DEF QuietInv
<1>4. TurnInv /\ EvidenceInv
  BY <1>1, IdleShape DEF TurnInv, EvidenceInv
<1> QED
  BY <1>2, <1>3, <1>4 DEF Inv

\* Time passes: cooldowns that kept providers quiet still do.
LEMMA TickInv ==
    ASSUME Inv, Tick
    PROVE  Inv'
<1>1. clock' = clock + 1 /\ UNCHANGED <<evidence, cooldowns, cmd, quiet>> /\ clock \in Nat
      /\ quiet \in [ProviderSet -> Nat]
  BY DEF Tick, Inv, ShapeInv
<1>2. ASSUME NEW table, Quiets(table, clock, quiet)
      PROVE  Quiets(table, clock', quiet)
  BY <1>1, <1>2, Durations DEF Quiets
<1>3. ShapeInv'
  BY <1>1 DEF Inv, ShapeInv
<1>4. QuietInv'
  <2>1. cmd.todo # << >> => Head(cmd.todo) \in ProviderSet
    BY DEF Inv, ShapeInv
  <2>2. Quiets(cooldowns.data, clock, quiet) => Quiets(cooldowns.data, clock', quiet)
    BY <1>2
  <2>3. Quiets(cmd.table, clock, quiet) => Quiets(cmd.table, clock', quiet)
    BY <1>2
  <2> QED
    BY <1>1, <2>1, <2>2, <2>3, Durations DEF Inv, QuietInv
<1>5. TurnInv' /\ EvidenceInv'
  BY <1>1 DEF Inv, TurnInv, EvidenceInv
<1> QED
  BY <1>3, <1>4, <1>5 DEF Inv

\* The command ends or dies, and the cooldown file stays or is torn.
LEMMA EndsInv ==
    ASSUME Inv, cmd' = Idle, UNCHANGED <<clock, quiet>>,
           cooldowns' = cooldowns \/ cooldowns' = Torn
    PROVE  Inv'
<1>1. ShapeInv'
  BY IdleShape, EmptySequences DEF Inv, ShapeInv
<1>2. QuietInv'
  BY IdleShape, FileShape DEF Inv, QuietInv
<1>3. TurnInv' /\ EvidenceInv'
  BY IdleShape DEF TurnInv, EvidenceInv
<1> QED
  BY <1>1, <1>2, <1>3 DEF Inv

LEMMA StartInv ==
    ASSUME Inv, NEW board, NEW live \in BOOLEAN, NEW keep \in BOOLEAN, NEW ignore \in BOOLEAN,
           Start(board, live, keep, ignore)
    PROVE  Inv'
<1> DEFINE table == IF keep /\ cooldowns # Missing THEN cooldowns.data ELSE << >>
           targets == Selected(board)
           new == [Idle EXCEPT !.pc = "provider", !.live = live, !.keep = keep,
                      !.ignore = ignore, !.board = board, !.targets = targets,
                      !.todo = Providers, !.table = table]
<1>1. /\ cmd' = new /\ (keep => cooldowns # Torn)
      /\ UNCHANGED <<cooldowns, clock, quiet>>
  BY DEF Start
<1>2. /\ DOMAIN new = DOMAIN Idle /\ new.pc = "provider" /\ new.live = live
      /\ new.keep = keep /\ new.ignore = ignore /\ new.todo = Providers
      /\ new.table = table /\ new.found = << >> /\ new.candidates = << >>
      /\ new.outcome = << >>
  BY IdleShape
<1>3. keep => Quiets(table, clock, quiet)
  <2> SUFFICES ASSUME keep PROVE Quiets(table, clock, quiet)
    OBVIOUS
  <2>1. CASE cooldowns = Missing
    <3>1. table = << >> /\ clock \in Nat /\ quiet \in [ProviderSet -> Nat]
          /\ \A p \in ProviderSet : quiet[p] <= clock
      BY <2>1 DEF Inv, ShapeInv, QuietInv
    <3> QED
      BY <3>1, NoCooldowns
  <2>2. CASE cooldowns # Missing
    BY <1>1, <2>2 DEF Inv, QuietInv
  <2> QED
    BY <2>1, <2>2
<1> HIDE DEF new, table, targets
<1>4. Providers \in Seq(ProviderSet)
  BY ProvidersAssumption
<1>5. ShapeInv'
  BY <1>1, <1>2, <1>4 DEF Inv, ShapeInv
<1>6. QuietInv'
  BY <1>1, <1>2, <1>3 DEF Inv, QuietInv
<1>7. TurnInv'
  <2>1. DOMAIN << >> = {}
    OBVIOUS
  <2>2. \A p \in ProviderSet : \E i \in 1..Len(Providers) : Providers[i] = p
    BY <1>4 DEF ProviderSet, Range
  <2> QED
    BY <1>1, <1>2, <2>1, <2>2 DEF TurnInv
<1>8. EvidenceInv'
  BY <1>1, <1>2 DEF EvidenceInv
<1> QED
  BY <1>5, <1>6, <1>7, <1>8 DEF Inv

\* A provider's turn ends: it has an outcome, and a cooldown if it refused.
LEMMA EndedInv ==
    ASSUME Inv, NEW status, cmd.pc \in {"provider", "request"}, cmd.todo # << >>,
           cmd' = Ended(Head(cmd.todo), status),
           UNCHANGED <<evidence, cooldowns, clock, quiet>>
    PROVE  Inv'
<1> DEFINE p == Head(cmd.todo)
           candidates == IF status = "success" THEN cmd.candidates \o cmd.found
                         ELSE cmd.candidates
           tickers == IF cmd.pc = "provider" THEN Range(cmd.targets) ELSE TickersOf(p, cmd.targets)
           outcome == Put(cmd.outcome, p, [status |-> status, tickers |-> tickers])
           table == IF status \in Refusals /\ cmd.keep
                    THEN Put(cmd.table, p, clock + DurationOf[p]) ELSE cmd.table
           new == [cmd EXCEPT !.pc = "provider", !.todo = Tail(cmd.todo), !.requests = << >>,
                              !.attempt = 1, !.candidates = candidates, !.found = << >>,
                              !.outcome = outcome, !.table = table]
<1>1. cmd' = new
  BY DEF Ended
<1>2. /\ DOMAIN cmd = DOMAIN Idle
      /\ cmd.keep \in BOOLEAN /\ cmd.ignore \in BOOLEAN /\ cmd.live \in BOOLEAN
      /\ cmd.todo \in Seq(ProviderSet)
      /\ cmd.found \in Seq(Candidates) /\ cmd.candidates \in Seq(Candidates)
      /\ clock \in Nat /\ quiet \in [ProviderSet -> Nat]
  BY DEF Inv, ShapeInv
<1>3. /\ DOMAIN new = DOMAIN Idle /\ new.pc = "provider" /\ new.todo = Tail(cmd.todo)
      /\ new.candidates = candidates /\ new.found = << >> /\ new.outcome = outcome
      /\ new.table = table /\ new.keep = cmd.keep /\ new.ignore = cmd.ignore
      /\ new.live = cmd.live
  BY <1>2, IdleShape
<1>4. p \in ProviderSet /\ Tail(cmd.todo) \in Seq(ProviderSet)
  BY <1>2
<1>5. candidates \in Seq(Candidates)
  BY <1>2
<1>6. /\ DOMAIN outcome = DOMAIN cmd.outcome \union {p}
      /\ outcome[p].status = status
      /\ \A q \in DOMAIN cmd.outcome : q # p => outcome[q] = cmd.outcome[q]
  BY DEF Put
<1>7. /\ status \in Refusals /\ cmd.keep => p \in DOMAIN table
      /\ DOMAIN cmd.table \subseteq DOMAIN table
  BY DEF Put
<1>8. cmd.keep => Quiets(table, clock, quiet)
  <2> SUFFICES ASSUME cmd.keep PROVE Quiets(table, clock, quiet)
    OBVIOUS
  <2>1. Quiets(cmd.table, clock, quiet)
    BY DEF Inv, QuietInv
  <2>2. CASE status \in Refusals
    <3>1. table = Put(cmd.table, p, clock + DurationOf[p])
      BY <2>2
    <3>2. quiet[p] <= clock + DurationOf[p]
      BY <1>4 DEF Inv, QuietInv
    <3> HIDE DEF table, p
    <3> QED
      BY <1>2, <1>4, <2>1, <3>1, <3>2, Durations DEF Quiets, Put
  <2>3. CASE status \notin Refusals
    BY <2>1, <2>3
  <2> QED
    BY <2>2, <2>3
<1> HIDE DEF new, candidates, outcome, table, tickers
<1>9. ShapeInv'
  BY <1>1, <1>2, <1>3, <1>4, <1>5, EmptySequences DEF ShapeInv
<1>10. QuietInv'
  BY <1>1, <1>3, <1>8 DEF Inv, QuietInv
<1>11. TurnInv'
  <2>1. \A q \in ProviderSet :
           q \in DOMAIN outcome \/ \E i \in 1..Len(Tail(cmd.todo)) : Tail(cmd.todo)[i] = q
    <3> SUFFICES ASSUME NEW q \in ProviderSet, q \notin DOMAIN outcome
                 PROVE  \E i \in 1..Len(Tail(cmd.todo)) : Tail(cmd.todo)[i] = q
      OBVIOUS
    <3>1. q # p /\ q \notin DOMAIN cmd.outcome
      BY <1>6
    <3>2. PICK i \in 1..Len(cmd.todo) : cmd.todo[i] = q
      BY <3>1 DEF Inv, TurnInv
    <3>3. i # 1
      BY <3>1, <3>2
    <3>4. i - 1 \in 1..Len(Tail(cmd.todo)) /\ Tail(cmd.todo)[i - 1] = q
      BY <1>2, <3>2, <3>3
    <3> QED
      BY <3>4
  <2>2. \A q \in DOMAIN outcome :
           (cmd.keep /\ outcome[q].status \in Refusals) => q \in DOMAIN table
    BY <1>6, <1>7 DEF Inv, TurnInv
  <2>3. /\ cmd'.pc = "provider" /\ cmd'.todo = Tail(cmd.todo) /\ cmd'.outcome = outcome
        /\ cmd'.table = table /\ (cmd'.keep <=> cmd.keep)
    BY <1>1, <1>2, <1>3
  <2> QED
    BY <2>1, <2>2, <2>3 DEF TurnInv
<1>12. EvidenceInv'
  BY <1>1, <1>3 DEF EvidenceInv
<1> QED
  BY <1>9, <1>10, <1>11, <1>12 DEF Inv

\* The command stays with its provider, which it may ask.
LEMMA AsksInv ==
    ASSUME Inv, cmd.pc \in {"provider", "request"}, cmd.todo # << >>,
           (cmd.keep /\ ~cmd.ignore) => quiet[Head(cmd.todo)] <= clock,
           NEW attempt, NEW requests, NEW found \in Seq(Candidates),
           cmd' = [cmd EXCEPT !.pc = "request", !.attempt = attempt, !.requests = requests,
                              !.found = found],
           UNCHANGED <<evidence, cooldowns, clock, quiet>>
    PROVE  Inv'
<1>1. /\ DOMAIN cmd = DOMAIN Idle
      /\ cmd.keep \in BOOLEAN /\ cmd.ignore \in BOOLEAN /\ cmd.live \in BOOLEAN
  BY DEF Inv, ShapeInv
<1>2. /\ DOMAIN cmd' = DOMAIN Idle /\ cmd'.pc = "request" /\ cmd'.todo = cmd.todo
      /\ cmd'.found = found /\ cmd'.candidates = cmd.candidates
      /\ cmd'.outcome = cmd.outcome /\ cmd'.table = cmd.table
      /\ cmd'.keep = cmd.keep /\ cmd'.ignore = cmd.ignore /\ cmd'.live = cmd.live
  BY <1>1, IdleShape
<1>3. ShapeInv'
  BY <1>1, <1>2 DEF Inv, ShapeInv
<1>4. QuietInv'
  BY <1>2 DEF Inv, QuietInv
<1>5. TurnInv'
  <2>1. cmd.pc # "idle"
    OBVIOUS
  <2> QED
    BY <1>1, <1>2, <2>1 DEF Inv, TurnInv
<1>6. EvidenceInv'
  BY <1>2 DEF EvidenceInv
<1> QED
  BY <1>3, <1>4, <1>5, <1>6 DEF Inv

LEMMA NextProviderInv ==
    ASSUME Inv, NextProvider
    PROVE  Inv'
<1> DEFINE p == Head(cmd.todo)
           requests == RequestsFor(p, cmd.targets)
<1>1. /\ cmd.pc = "provider" /\ cmd.todo # << >>
      /\ UNCHANGED <<evidence, cooldowns, clock, quiet>>
      /\ \/ \E status : cmd' = Ended(p, status)
         \/ /\ ~(~cmd.ignore /\ CoolingDown(p, cmd.table))
            /\ cmd' = [cmd EXCEPT !.pc = "request", !.requests = requests]
  BY DEF NextProvider
<1>2. CASE \E status : cmd' = Ended(p, status)
  BY <1>1, <1>2, EndedInv
<1>3. CASE /\ ~(~cmd.ignore /\ CoolingDown(p, cmd.table))
           /\ cmd' = [cmd EXCEPT !.pc = "request", !.requests = requests]
  <2>1. p \in ProviderSet /\ cmd.found \in Seq(Candidates) /\ DOMAIN cmd = DOMAIN Idle
        /\ clock \in Nat /\ quiet \in [ProviderSet -> Nat]
    BY <1>1 DEF Inv, ShapeInv
  <2>2. (cmd.keep /\ ~cmd.ignore) => quiet[p] <= clock
    <3> SUFFICES ASSUME cmd.keep, ~cmd.ignore, quiet[p] > clock PROVE FALSE
      BY <2>1
    <3>1. Quiets(cmd.table, clock, quiet)
      BY <1>1 DEF Inv, QuietInv
    <3>2. p \in DOMAIN cmd.table /\ cmd.table[p] >= quiet[p] /\ cmd.table[p] \in Nat
      BY <2>1, <3>1 DEF Quiets
    <3> QED
      BY <1>3, <2>1, <3>2 DEF CoolingDown
  <2>3. cmd' = [cmd EXCEPT !.pc = "request", !.attempt = cmd.attempt, !.requests = requests,
                           !.found = cmd.found]
    <3> HIDE DEF requests
    <3> QED
      BY <1>3, <2>1, IdleShape
  <2> HIDE DEF requests
  <2> QED
    BY <1>1, <2>1, <2>2, <2>3, AsksInv
<1> QED
  BY <1>1, <1>2, <1>3

LEMMA RequestShape ==
    ASSUME Inv, cmd.pc = "request"
    PROVE  /\ cmd.todo # << >> /\ DOMAIN cmd = DOMAIN Idle
           /\ (cmd.keep /\ ~cmd.ignore) => quiet[Head(cmd.todo)] <= clock
           /\ cmd.found \in Seq(Candidates)
BY DEF Inv, ShapeInv, QuietInv

LEMMA ReplyMapInv ==
    ASSUME Inv, NEW known, ReplyMap(known)
    PROVE  Inv'
<1> DEFINE requests == RequestsAfterMap(known, cmd.targets)
<1>1. /\ cmd.pc = "request" /\ cmd' = [cmd EXCEPT !.attempt = 1, !.requests = requests]
      /\ UNCHANGED <<evidence, cooldowns, clock, quiet>>
  BY DEF ReplyMap, Requesting, OnlyTheCommand
<1> HIDE DEF requests
<1>2. cmd' = [cmd EXCEPT !.pc = "request", !.attempt = 1, !.requests = requests,
                         !.found = cmd.found]
  BY <1>1, RequestShape, IdleShape
<1> QED
  BY <1>1, <1>2, RequestShape, AsksInv

LEMMA ReplyInv ==
    ASSUME Inv, NEW p, NEW asked, NEW found \in Answers(p, asked), Reply(found)
    PROVE  Inv'
<1> DEFINE more == cmd.found \o found
           requests == Tail(cmd.requests)
<1>1. /\ cmd.pc = "request"
      /\ cmd' = [cmd EXCEPT !.attempt = 1, !.requests = requests, !.found = more]
      /\ UNCHANGED <<evidence, cooldowns, clock, quiet>>
  BY DEF Reply, Requesting, OnlyTheCommand
<1>2. found \in Seq(Candidates)
  <2>1. found = << >> \/ \E c \in Candidates : found = <<c>>
    BY DEF Answers
  <2>2. ASSUME NEW c \in Candidates PROVE <<c>> \in Seq(Candidates)
    OBVIOUS
  <2> QED
    BY <2>1, <2>2, EmptySequences
<1>3. more \in Seq(Candidates)
  BY <1>1, <1>2, RequestShape
<1> HIDE DEF more, requests
<1>4. cmd' = [cmd EXCEPT !.pc = "request", !.attempt = 1, !.requests = requests, !.found = more]
  BY <1>1, RequestShape, IdleShape
<1> QED
  BY <1>1, <1>3, <1>4, RequestShape, AsksInv

LEMMA FailInv ==
    ASSUME Inv, NEW code, Fail(code)
    PROVE  Inv'
<1>1. /\ cmd.pc = "request" /\ UNCHANGED <<evidence, cooldowns, clock, quiet>>
      /\ \/ cmd' = [cmd EXCEPT !.attempt = @ + 1]
         \/ cmd' = [cmd EXCEPT !.attempt = 1, !.requests = <<SpareMap>>]
         \/ cmd' = Ended(Head(cmd.todo), code)
  BY DEF Fail, Requesting, OnlyTheCommand
<1>2. CASE cmd' = [cmd EXCEPT !.attempt = @ + 1]
  <2> DEFINE attempt == cmd.attempt + 1
  <2>1. cmd' = [cmd EXCEPT !.pc = "request", !.attempt = attempt, !.requests = cmd.requests,
                           !.found = cmd.found]
    BY <1>1, <1>2, RequestShape, IdleShape
  <2> HIDE DEF attempt
  <2> QED
    BY <1>1, <2>1, RequestShape, AsksInv
<1>3. CASE cmd' = [cmd EXCEPT !.attempt = 1, !.requests = <<SpareMap>>]
  <2> DEFINE requests == <<SpareMap>>
  <2>1. cmd' = [cmd EXCEPT !.pc = "request", !.attempt = 1, !.requests = requests,
                           !.found = cmd.found]
    BY <1>1, <1>3, RequestShape, IdleShape
  <2> HIDE DEF requests
  <2> QED
    BY <1>1, <2>1, RequestShape, AsksInv
<1>4. CASE cmd' = Ended(Head(cmd.todo), code)
  BY <1>1, <1>4, RequestShape, EndedInv
<1> QED
  BY <1>1, <1>2, <1>3, <1>4

LEMMA EndProviderInv ==
    ASSUME Inv, EndProvider
    PROVE  Inv'
<1> DEFINE status == IF cmd.found = << >> THEN "no_data" ELSE "success"
<1>1. /\ cmd.pc = "request" /\ cmd' = Ended(Head(cmd.todo), status)
      /\ UNCHANGED <<evidence, cooldowns, clock, quiet>>
  BY DEF EndProvider, OnlyTheCommand
<1> HIDE DEF status
<1> QED
  BY <1>1, RequestShape, EndedInv

\* The command goes on to its next file.
LEMMA GoesOn ==
    ASSUME Inv, cmd.pc # "idle", cmd.todo = << >>, NEW pc \in {"summary", "cooldowns"},
           pc = "cooldowns" => cmd.keep,
           pc = "summary" => evidence' = File(Deduped(cmd.candidates)),
           cmd' = [cmd EXCEPT !.pc = pc], UNCHANGED <<cooldowns, clock, quiet>>
    PROVE  Inv'
<1>1. /\ DOMAIN cmd = DOMAIN Idle
      /\ cmd.keep \in BOOLEAN /\ cmd.ignore \in BOOLEAN /\ cmd.live \in BOOLEAN
  BY DEF Inv, ShapeInv
<1>2. /\ DOMAIN cmd' = DOMAIN Idle /\ cmd'.pc = pc /\ cmd'.todo = cmd.todo
      /\ cmd'.found = cmd.found /\ cmd'.candidates = cmd.candidates
      /\ cmd'.outcome = cmd.outcome /\ cmd'.table = cmd.table
      /\ cmd'.keep = cmd.keep /\ cmd'.ignore = cmd.ignore /\ cmd'.live = cmd.live
  BY <1>1, IdleShape
<1>3. ShapeInv'
  BY <1>2 DEF Inv, ShapeInv
<1>4. QuietInv'
  BY <1>2 DEF Inv, QuietInv
<1>5. TurnInv'
  BY <1>1, <1>2 DEF Inv, TurnInv
<1>6. EvidenceInv'
  BY <1>2 DEF EvidenceInv
<1> QED
  BY <1>3, <1>4, <1>5, <1>6 DEF Inv

\* A refusal that is recorded is one that the table knows.
LEMMA WriteCooldownsInv ==
    ASSUME Inv, WriteCooldowns
    PROVE  Inv'
<1>1. /\ cmd.pc = "cooldowns" /\ cmd' = Idle /\ clock' = clock
      /\ cooldowns' = File(cmd.table)
      /\ quiet' = [p \in ProviderSet |->
                     IF cmd.outcome[p].status \in Refusals THEN cmd.table[p] ELSE quiet[p]]
  BY DEF WriteCooldowns, KeptCooldowns
<1>2. /\ cmd.keep /\ Quiets(cmd.table, clock, quiet)
      /\ clock \in Nat /\ quiet \in [ProviderSet -> Nat]
      /\ \A p \in ProviderSet : quiet[p] <= clock + DurationOf[p]
  BY <1>1 DEF Inv, ShapeInv, QuietInv, TurnInv
<1>3. \A p \in ProviderSet : p \in DOMAIN cmd.outcome
  <2>1. cmd.todo = << >>
    BY <1>1 DEF Inv, TurnInv
  <2> QED
    BY <1>1, <2>1 DEF Inv, TurnInv
<1>4. \A p \in ProviderSet : cmd.outcome[p].status \in Refusals => p \in DOMAIN cmd.table
  BY <1>1, <1>2, <1>3 DEF Inv, TurnInv
<1>5. \A p \in ProviderSet :
         /\ quiet'[p] \in Nat /\ quiet'[p] <= clock + DurationOf[p]
         /\ quiet'[p] > clock => p \in DOMAIN cmd.table /\ cmd.table[p] >= quiet'[p]
  BY <1>1, <1>2, <1>4 DEF Quiets
<1>6. Quiets(cmd.table, clock, quiet')
  BY <1>2, <1>5 DEF Quiets
<1>7. ShapeInv'
  <2>1. quiet' \in [ProviderSet -> Nat]
    BY <1>1, <1>5
  <2> QED
    BY <1>1, <1>2, <2>1, IdleShape, EmptySequences DEF ShapeInv
<1>8. QuietInv'
  BY <1>1, <1>5, <1>6, IdleShape, FileShape DEF QuietInv
<1>9. TurnInv' /\ EvidenceInv'
  BY <1>1, IdleShape DEF TurnInv, EvidenceInv
<1> QED
  BY <1>7, <1>8, <1>9 DEF Inv

LEMMA WritesInv ==
    ASSUME Inv, WriteEvidence \/ WriteSummary
    PROVE  Inv'
<1>1. CASE WriteEvidence
  BY <1>1, GoesOn DEF WriteEvidence
<1>2. CASE WriteSummary
  <2>1. cmd.pc = "summary" /\ UNCHANGED <<cooldowns, clock, quiet>> /\ cmd.todo = << >>
    BY <1>2 DEF WriteSummary, Inv, TurnInv
  <2>2. (cmd.keep /\ cmd' = [cmd EXCEPT !.pc = "cooldowns"]) \/ cmd' = Idle
    BY <1>2 DEF WriteSummary
  <2> QED
    BY <2>1, <2>2, GoesOn, EndsInv
<1> QED
  BY <1>1, <1>2

LEMMA StutterInv ==
    ASSUME Inv, UNCHANGED vars
    PROVE  Inv'
BY DEF Inv, ShapeInv, QuietInv, TurnInv, EvidenceInv, vars

LEMMA NextInv == Inv /\ [Next]_vars => Inv'
<1> SUFFICES ASSUME Inv, [Next]_vars PROVE Inv'
  OBVIOUS
<1>1. CASE \E board \in Boards, live, keep, ignore \in BOOLEAN :
             (ignore => keep) /\ Start(board, live, keep, ignore)
  BY <1>1, StartInv
<1>2. CASE Step
  <2>1. CASE NextProvider
    BY <2>1, NextProviderInv
  <2>2. CASE \E known \in SUBSET Range(cmd.targets) : ReplyMap(known)
    BY <2>2, ReplyMapInv
  <2>3. CASE \E found \in Answers(Head(cmd.todo), IF Head(cmd.requests) \in {Map, SpareMap}
                                                  THEN {} ELSE Head(cmd.requests)) : Reply(found)
    BY <2>3, ReplyInv
  <2>4. CASE \E code \in Failures : Fail(code)
    BY <2>4, FailInv
  <2>5. CASE EndProvider
    BY <2>5, EndProviderInv
  <2>6. CASE WriteEvidence \/ WriteSummary
    BY <2>6, WritesInv
  <2>7. CASE WriteCooldowns
    BY <2>7, WriteCooldownsInv
  <2> QED
    BY <1>2, <2>1, <2>2, <2>3, <2>4, <2>5, <2>6, <2>7 DEF Step
<1>3. CASE Crash
  <2>1. cmd' = Idle /\ UNCHANGED <<clock, quiet>> /\ (cooldowns' = cooldowns \/ cooldowns' = Torn)
    BY <1>3 DEF Crash
  <2> QED
    BY <2>1, EndsInv
<1>4. CASE Tick
  BY <1>4, TickInv
<1>5. CASE UNCHANGED vars
  BY <1>5, StutterInv
<1> QED
  BY <1>1, <1>2, <1>3, <1>4, <1>5 DEF Next

LEMMA InvHolds == Spec => []Inv
BY InitInv, NextInv, PTL DEF Spec

\* A provider whose refusal was recorded gets no request before its time is up
\* (_read_cooldowns, _active_cooldown, _write_cooldowns), for any durations and deaths.
THEOREM RefusalsAreHeeded == Spec => []RefusedAreLeftAlone
<1>1. Inv => RefusedAreLeftAlone
  <2> SUFFICES ASSUME Inv, Requesting, cmd.keep, ~cmd.ignore
               PROVE  clock >= quiet[Head(cmd.todo)]
    BY DEF RefusedAreLeftAlone
  <2>1. cmd.pc = "request"
    BY DEF Requesting
  <2>2. quiet[Head(cmd.todo)] <= clock
    BY <2>1, RequestShape
  <2>3. clock \in Nat /\ quiet[Head(cmd.todo)] \in Nat
    BY <2>1, RequestShape DEF Inv, ShapeInv
  <2> QED
    BY <2>2, <2>3
<1> QED
  BY <1>1, InvHolds, PTL

LEMMA CandidateFields ==
    ASSUME NEW c \in Candidates
    PROVE  /\ c = [provider |-> c.provider, ticker |-> c.ticker, fact |-> c.fact, rich |-> c.rich]
           /\ c.rich \in BOOLEAN
<1>1. PICK p \in ProviderSet : \E t \in Tickers : \E f \in FindsOf[p] :
         c = [provider |-> p, ticker |-> t, fact |-> f.fact, rich |-> f.rich]
  BY DEF Candidates
<1>2. PICK t \in Tickers, f \in FindsOf[p] :
         c = [provider |-> p, ticker |-> t, fact |-> f.fact, rich |-> f.rich]
  BY <1>1
<1>3. f.rich \in BOOLEAN
  BY ProvidersAssumption
<1> QED
  BY <1>2, <1>3

\* Of each key the richest candidate is kept, and only that.
LEMMA DedupedKeepsTheRichest ==
    ASSUME NEW candidates \in Seq(Candidates)
    PROVE  /\ \A c \in Range(candidates) :
                \E i \in Deduped(candidates) : Key(i) = Key(c) /\ (c.rich => i.rich)
           /\ \A i, j \in Deduped(candidates) : Key(i) = Key(j) => i = j
<1>1. Range(candidates) \subseteq Candidates
  BY DEF Range
<1>2. ASSUME NEW c \in Range(candidates)
      PROVE  \E i \in Deduped(candidates) : Key(i) = Key(c) /\ (c.rich => i.rich)
  <2>1. CASE c \in Deduped(candidates)
    BY <2>1
  <2>2. CASE c \notin Deduped(candidates)
    <3>1. PICK d \in Range(candidates) : Key(d) = Key(c) /\ d.rich
      BY <2>2 DEF Deduped
    <3>2. d \in Deduped(candidates)
      BY <3>1 DEF Deduped
    <3> QED
      BY <3>1, <3>2
  <2> QED
    BY <2>1, <2>2
<1>3. ASSUME NEW i \in Deduped(candidates), NEW j \in Deduped(candidates), Key(i) = Key(j)
      PROVE  i = j
  <2>1. i \in Candidates /\ j \in Candidates
    BY <1>1 DEF Deduped
  <2>2. i.rich <=> j.rich
    BY <1>3 DEF Deduped
  <2>3. i.rich = j.rich
    BY <2>1, <2>2, CandidateFields
  <2>4. i.provider = j.provider /\ i.ticker = j.ticker /\ i.fact = j.fact
    BY <1>3 DEF Key
  <2> QED
    BY <2>1, <2>3, <2>4, CandidateFields
<1> QED
  BY <1>2, <1>3

\* Dropping duplicates loses nothing that a provider which succeeded has found
\* (_dedupe_candidates).
THEOREM DuplicatesHideNothing == Spec => []NothingIsLost
<1>1. Inv => NothingIsLost
  <2> SUFFICES ASSUME Inv, cmd.pc = "summary"
               PROVE  /\ \A c \in Range(cmd.candidates) :
                           \E i \in evidence.data : Key(i) = Key(c) /\ (c.rich => i.rich)
                      /\ \A i, j \in evidence.data : Key(i) = Key(j) => i = j
    BY DEF NothingIsLost
  <2>1. evidence.data = Deduped(cmd.candidates)
    BY FileShape DEF Inv, EvidenceInv
  <2>2. cmd.candidates \in Seq(Candidates)
    BY DEF Inv, ShapeInv
  <2> QED
    BY <2>1, <2>2, DedupedKeepsTheRichest
<1> QED
  BY <1>1, InvHolds, PTL

-----------------------------------------------------------------------------
(* What is asked, and about whom *)

\* The place of position i among those of S.
Rank(S, i) == Cardinality({j \in S : j <= i})

LEMMA Ranks ==
    ASSUME NEW S, S \subseteq Nat, IsFiniteSet(S)
    PROVE  /\ Cardinality(S) \in Nat
           /\ \A n \in 1..Cardinality(S) : \E i \in S : Rank(S, i) = n
<1> DEFINE upto(i) == {j \in S : j <= i}
           rank == [i \in S |-> Cardinality(upto(i))]
<1>1. Cardinality(S) \in Nat
  BY FS_CardinalityType
<1>2. \A i \in S : /\ IsFiniteSet(upto(i)) /\ Cardinality(upto(i)) \in Nat
                   /\ Cardinality(upto(i)) <= Cardinality(S) /\ Cardinality(upto(i)) # 0
  <2> TAKE i \in S
  <2>1. i \in upto(i)
    OBVIOUS
  <2>2. IsFiniteSet(upto(i)) /\ Cardinality(upto(i)) \in Nat
        /\ Cardinality(upto(i)) <= Cardinality(S)
    BY FS_Subset, FS_CardinalityType
  <2>3. Cardinality(upto(i)) # 0
    BY <2>1, <2>2, FS_EmptySet
  <2> QED
    BY <2>2, <2>3
<1>3. ASSUME NEW i \in S, NEW j \in S, i < j
      PROVE  Cardinality(upto(i)) < Cardinality(upto(j))
  <2>1. \A x \in S : x \in Nat /\ (x <= i => x <= j)
    BY <1>3
  <2>2. j \in upto(j) /\ j \notin upto(i)
    BY <1>3, <2>1
  <2>3. upto(i) \subseteq upto(j)
    BY <2>1, Zenon
  <2> QED
    BY <1>2, <2>2, <2>3, FS_Subset
<1>4. rank \in Injection(S, 1..Cardinality(S))
  <2>1. \A i \in S : rank[i] \in 1..Cardinality(S)
    BY <1>1, <1>2
  <2>2. ASSUME NEW i \in S, NEW j \in S, rank[i] = rank[j]
        PROVE  i = j
    <3>1. i \in Nat /\ j \in Nat /\ rank[i] \in Nat
      BY <2>1
    <3>2. (i < j => rank[i] < rank[j]) /\ (j < i => rank[j] < rank[i])
      BY <1>3
    <3> HIDE DEF rank
    <3> QED
      BY <2>2, <3>1, <3>2
  <2> HIDE DEF rank
  <2>3. rank \in [S -> 1..Cardinality(S)]
    BY <2>1 DEF rank
  <2> QED
    BY <2>2, <2>3 DEF Injection, IsInjective
<1>5. IsFiniteSet(1..Cardinality(S)) /\ Cardinality(1..Cardinality(S)) = Cardinality(S)
  BY <1>1, FS_Interval
<1>6. rank \in Surjection(S, 1..Cardinality(S))
  BY <1>4, <1>5, FS_Injection
<1>7. \A n \in 1..Cardinality(S) : \E i \in S : rank[i] = n
  BY <1>6 DEF Surjection
<1> QED
  BY <1>1, <1>7 DEF Rank

\* The elements at some positions are only those.
LEMMA AmongAreThose ==
    ASSUME NEW T, NEW s \in Seq(T), NEW S, S \subseteq DOMAIN s
    PROVE  Among(s, S) \in Seq({s[i] : i \in S})
<1> DEFINE at(n) == CHOOSE i \in S : Cardinality({j \in S : j <= i}) = n
<1>1. Len(s) \in Nat /\ DOMAIN s = 1..Len(s)
  OBVIOUS
<1>2. S \subseteq Nat /\ IsFiniteSet(S)
  <2>1. IsFiniteSet(1..Len(s))
    BY <1>1, FS_Interval
  <2> QED
    BY <1>1, <2>1, FS_Subset
<1>3. Cardinality(S) \in Nat /\ \A n \in 1..Cardinality(S) : at(n) \in S
  BY <1>2, Ranks DEF Rank
<1>4. Among(s, S) = [n \in 1..Cardinality(S) |-> s[at(n)]]
  BY DEF Among
<1> HIDE DEF at
<1>5. \A n \in 1..Cardinality(S) : s[at(n)] \in {s[i] : i \in S}
  BY <1>3
<1> QED
  BY <1>3, <1>4, <1>5

LEMMA FirstAreSome ==
    ASSUME NEW T, NEW s \in Seq(T), NEW n \in Nat
    PROVE  /\ First(n, s) \in Seq(T) /\ Len(First(n, s)) <= n
           /\ Range(First(n, s)) \subseteq Range(s)
<1> DEFINE m == IF Len(s) < n THEN Len(s) ELSE n
<1>1. m \in Nat /\ m <= n /\ m <= Len(s) /\ First(n, s) = SubSeq(s, 1, m)
  BY DEF First
<1> HIDE DEF m
<1>2. \A i \in 1..m : s[i] \in T /\ s[i] \in Range(s)
  BY <1>1 DEF Range
<1>3. /\ SubSeq(s, 1, m) \in Seq(T) /\ Len(SubSeq(s, 1, m)) = IF 1 <= m THEN m - 1 + 1 ELSE 0
  BY <1>1, <1>2, SubSeqProperties
<1>4. SubSeq(s, 1, m) \in Seq(Range(s))
  BY <1>1, <1>2, SubSeqProperties
<1>5. Range(SubSeq(s, 1, m)) \subseteq Range(s)
  BY <1>4 DEF Range
<1> QED
  BY <1>1, <1>3, <1>5

\* The targets of a board are tickers of its rows, and not too many.
LEMMA SelectedAreTickers ==
    ASSUME NEW board \in Boards
    PROVE  Selected(board) \in Seq(Tickers) /\ Len(Selected(board)) <= MaxTargets
<1> DEFINE usable == {i \in DOMAIN board :
                         board[i].ticker # NoTicker /\ ~IsAmbiguous(board, board[i])}
           tickers == [i \in DOMAIN board |-> board[i].ticker]
<1>1. board \in Seq(Range(board)) /\ \A i \in DOMAIN board : board[i] \in Range(board)
  BY BoardsAssumption DEF Range
<1>2. \A i \in DOMAIN board : board[i].ticker \in Tickers \union {NoTicker}
  BY <1>1, BoardsAssumption
<1>3. tickers \in Seq(Tickers \union {NoTicker}) /\ DOMAIN tickers = DOMAIN board
  BY <1>1, <1>2
<1>4. \A i \in usable : tickers[i] \in Tickers
  BY <1>2
<1>5. usable \subseteq DOMAIN tickers
  BY <1>3
<1>6. Selected(board) = First(MaxTargets, Among(tickers, usable))
  BY DEF Selected
<1> HIDE DEF usable, tickers
<1>7. Among(tickers, usable) \in Seq({tickers[i] : i \in usable})
  BY <1>3, <1>5, AmongAreThose
<1>8. {tickers[i] : i \in usable} \subseteq Tickers
  BY <1>4
<1>9. Among(tickers, usable) \in Seq(Tickers)
  BY <1>7, <1>8
<1> QED
  BY <1>6, <1>9, FirstAreSome, BoundsAssumption

\* A request is about some of the targets, or for the map.
Requestable(targets) == (SUBSET Range(targets)) \union {Map, SpareMap}

LEMMA OneByOneIsRequestable ==
    ASSUME NEW targets, NEW T, T \subseteq Range(targets), NEW some \in Seq(T)
    PROVE  OneByOne(some) \in Seq(Requestable(targets))
<1>1. \A i \in 1..Len(some) : {some[i]} \in SUBSET Range(targets)
  OBVIOUS
<1>2. \A i \in 1..Len(some) : {some[i]} \in Requestable(targets)
  BY <1>1 DEF Requestable
<1> QED
  BY <1>2 DEF OneByOne

LEMMA RequestsAreRequestable ==
    ASSUME NEW targets \in Seq(Tickers), NEW p \in ProviderSet
    PROVE  /\ RequestsFor(p, targets) \in Seq(Requestable(targets))
           /\ \A known : RequestsAfterMap(known, targets) \in Seq(Requestable(targets))
           /\ BatchOf(targets) \subseteq Range(targets)
           /\ Range(targets) \subseteq Tickers
<1>1. targets \in Seq(Range(targets)) /\ Range(targets) \subseteq Tickers
  BY DEF Range
<1>2. BatchOf(targets) \subseteq Range(targets)
  BY FirstAreSome, BoundsAssumption DEF BatchOf
<1>3. OneByOne(targets) \in Seq(Requestable(targets))
  BY <1>1, OneByOneIsRequestable
<1>4. << >> \in Seq(Requestable(targets)) /\ <<Map>> \in Seq(Requestable(targets))
      /\ <<BatchOf(targets)>> \in Seq(Requestable(targets))
  BY <1>2 DEF Requestable
<1>5. RequestsFor(p, targets) \in Seq(Requestable(targets))
  BY <1>3, <1>4 DEF RequestsFor
<1>6. ASSUME NEW known
      PROVE  RequestsAfterMap(known, targets) \in Seq(Requestable(targets))
  <2> DEFINE S == {i \in DOMAIN targets : targets[i] \in known}
  <2>1. S \subseteq DOMAIN targets
    OBVIOUS
  <2>2. Among(targets, S) \in Seq({targets[i] : i \in S})
    BY <2>1, AmongAreThose
  <2>3. {targets[i] : i \in S} \subseteq Range(targets)
    BY <2>1 DEF Range
  <2> QED
    BY <2>2, <2>3, OneByOneIsRequestable DEF RequestsAfterMap
<1> QED
  BY <1>1, <1>2, <1>5, <1>6

-----------------------------------------------------------------------------
(* What the command knows, and what it writes *)

FilesTyped ==
    /\ \/ evidence \in {Missing, Torn}
       \/ evidence.is = "file" /\ evidence.data \subseteq Candidates
    /\ \/ summary \in {Missing, Torn}
       \/ /\ summary.is = "file" /\ summary.data.status \in [ProviderSet -> Statuses]
          /\ \A c \in Categories : Partial(summary.data.coverage[c], Tickers, States)
    /\ cooldowns \in {Missing, Torn} \/ (cooldowns.is = "file" /\ IsTable(cooldowns.data))
    /\ clock \in 0..MaxClock /\ crashes \in 0..MaxCrashes
    /\ DOMAIN quiet = ProviderSet /\ IsTable(quiet)

\* The providers still to be asked are those without an outcome, each of them once.
CommandTyped ==
    /\ cmd.pc \in {"idle", "provider", "request", "summary", "cooldowns"}
    /\ cmd.attempt \in 1..MaxAttempts
    /\ cmd.targets \in Seq(Tickers) /\ Len(cmd.targets) <= MaxTargets
    /\ cmd.requests \in Seq(Requestable(cmd.targets))
    /\ Partial(cmd.outcome, ProviderSet, Outcomes) /\ IsTable(cmd.table)
    /\ cmd.pc # "idle" =>
         /\ cmd.board \in Boards
         /\ IsInjective(cmd.todo) /\ Range(cmd.todo) = ProviderSet \ DOMAIN cmd.outcome

\* What was found is about the targets, and by the provider whose turn it is or by one
\* that succeeded; and every one that succeeded found something.
SourcesKnown ==
    cmd.pc # "idle" =>
        /\ \A c \in Range(cmd.found) :
              cmd.pc = "request" /\ c.provider = Head(cmd.todo) /\ c.ticker \in Range(cmd.targets)
        /\ \A c \in Range(cmd.candidates) :
              /\ c.ticker \in Range(cmd.targets) /\ c.provider \in DOMAIN cmd.outcome
              /\ cmd.outcome[c.provider].status = "success"
        /\ \A p \in DOMAIN cmd.outcome :
              cmd.outcome[p].status = "success" =>
                  \E c \in Range(cmd.candidates) : c.provider = p

\* There is no summary before there is evidence to sum up.
SummaryInv ==
    /\ cmd.pc \in {"provider", "request", "summary"} => summary.is # "file"
    /\ SummaryTellsTheEvidence

Known == FilesTyped /\ CommandTyped /\ SourcesKnown /\ SummaryInv

LEMMA NothingTyped ==
    /\ DOMAIN << >> = {} /\ Range(<< >>) = {}
    /\ Partial(<< >>, ProviderSet, Outcomes) /\ IsTable(<< >>)
<1>1. DOMAIN << >> = {}
  OBVIOUS
<1>2. \A T : << >> \in [{} -> T]
  OBVIOUS
<1>3. \A T : Partial(<< >>, ProviderSet, T)
  BY <1>1, <1>2 DEF Partial
<1> QED
  BY <1>1, <1>3 DEF IsTable, Range

LEMMA Bounds ==
    /\ MaxClock \in Nat /\ MaxCrashes \in Nat /\ MaxAttempts \in Nat /\ MaxAttempts > 0
    /\ MaxTargets \in Nat /\ 1 \in 1..MaxAttempts
BY BoundsAssumption

\* Between commands nothing is known.
LEMMA IdleKnown ==
    ASSUME cmd' = Idle
    PROVE  CommandTyped' /\ SourcesKnown'
<1>1. Idle.targets = << >> /\ Idle.requests = << >> /\ Idle.attempt = 1
  BY DEF Idle
<1>2. << >> \in Seq(Tickers) /\ Len(<< >>) = 0 /\ << >> \in Seq(Requestable(<< >>))
  OBVIOUS
<1>3. CommandTyped'
  BY <1>1, <1>2, IdleShape, NothingTyped, Bounds DEF CommandTyped
<1>4. SourcesKnown'
  BY IdleShape DEF SourcesKnown
<1> QED
  BY <1>3, <1>4

LEMMA FilesStay ==
    ASSUME FilesTyped, OnlyTheCommand
    PROVE  FilesTyped'
BY DEF FilesTyped, OnlyTheCommand

LEMMA SummaryStays ==
    ASSUME SummaryInv, UNCHANGED <<evidence, summary>>,
           cmd'.pc \in {"provider", "request", "summary"}
              => cmd.pc \in {"provider", "request", "summary"}
    PROVE  SummaryInv'
BY DEF SummaryInv, SummaryTellsTheEvidence

LEMMA InitKnown == Init => Known
<1> SUFFICES ASSUME Init PROVE Known
  OBVIOUS
<1>1. /\ cmd = Idle /\ evidence = Missing /\ summary = Missing /\ cooldowns = Missing
      /\ clock = 0 /\ crashes = 0 /\ quiet = [p \in ProviderSet |-> 0]
  BY DEF Init
<1>2. CommandTyped
  <2>1. Idle.targets = << >> /\ Idle.requests = << >> /\ Idle.attempt = 1
    BY DEF Idle
  <2>2. << >> \in Seq(Tickers) /\ Len(<< >>) = 0 /\ << >> \in Seq(Requestable(<< >>))
    OBVIOUS
  <2> QED
    BY <1>1, <2>1, <2>2, IdleShape, NothingTyped, Bounds DEF CommandTyped
<1>3. SourcesKnown
  BY <1>1, IdleShape DEF SourcesKnown
<1>4. SummaryInv
  BY <1>1, FileShape DEF SummaryInv, SummaryTellsTheEvidence
<1>5. FilesTyped
  <2>1. IsTable(quiet)
    BY <1>1, Durations, Bounds DEF IsTable, Partial
  <2> QED
    BY <1>1, <2>1, Bounds DEF FilesTyped
<1> QED
  BY <1>2, <1>3, <1>4, <1>5 DEF Known

LEMMA TickKnown ==
    ASSUME Known, Tick
    PROVE  Known'
<1>1. clock' = clock + 1 /\ clock < MaxClock
      /\ UNCHANGED <<evidence, summary, cooldowns, cmd, crashes, quiet>>
  BY DEF Tick
<1>2. FilesTyped'
  BY <1>1, Bounds DEF Known, FilesTyped
<1>3. CommandTyped' /\ SourcesKnown'
  BY <1>1 DEF Known, CommandTyped, SourcesKnown
<1>4. SummaryInv'
  BY <1>1, SummaryStays DEF Known
<1> QED
  BY <1>2, <1>3, <1>4 DEF Known

LEMMA CrashKnown ==
    ASSUME Known, Crash
    PROVE  Known'
<1>1. /\ cmd' = Idle /\ crashes < MaxCrashes /\ crashes' = crashes + 1
      /\ evidence' = evidence \/ evidence' = Torn
      /\ summary' = summary \/ summary' = Torn
      /\ cooldowns' = cooldowns \/ cooldowns' = Torn
      /\ UNCHANGED <<clock, quiet>>
  BY Zenon DEF Crash
<1>2. FilesTyped'
  BY <1>1, Bounds DEF Known, FilesTyped
<1>3. SummaryInv'
  BY <1>1, IdleShape, FileShape DEF Known, SummaryInv, SummaryTellsTheEvidence
<1> QED
  BY <1>1, <1>2, <1>3, IdleKnown DEF Known

LEMMA StartKnown ==
    ASSUME Inv, Known, NEW board \in Boards, NEW live \in BOOLEAN, NEW keep \in BOOLEAN,
           NEW ignore \in BOOLEAN, Start(board, live, keep, ignore)
    PROVE  Known'
<1> DEFINE table == IF keep /\ cooldowns # Missing THEN cooldowns.data ELSE << >>
           targets == Selected(board)
           new == [Idle EXCEPT !.pc = "provider", !.live = live, !.keep = keep,
                      !.ignore = ignore, !.board = board, !.targets = targets,
                      !.todo = Providers, !.table = table]
<1>1. /\ cmd' = new /\ (keep => cooldowns # Torn) /\ evidence' = Missing /\ summary' = Missing
      /\ UNCHANGED <<cooldowns, clock, crashes, quiet>>
  BY DEF Start
<1>2. /\ new.pc = "provider" /\ new.board = board /\ new.targets = targets
      /\ new.todo = Providers /\ new.table = table /\ new.found = << >>
      /\ new.candidates = << >> /\ new.outcome = << >> /\ new.requests = << >>
      /\ new.attempt = 1
  BY DEF Idle
<1>3. IsTable(table)
  BY <1>1, NothingTyped DEF Known, FilesTyped
<1>4. targets \in Seq(Tickers) /\ Len(targets) <= MaxTargets
  BY SelectedAreTickers
<1> HIDE DEF new, table, targets
<1>5. FilesTyped'
  BY <1>1 DEF Known, FilesTyped
<1>6. CommandTyped'
  <2>1. << >> \in Seq(Requestable(targets))
    OBVIOUS
  <2>2. IsInjective(Providers) /\ Range(Providers) = ProviderSet
    BY ProvidersAssumption DEF ProviderSet
  <2> QED
    BY <1>1, <1>2, <1>3, <1>4, <2>1, <2>2, NothingTyped, Bounds DEF CommandTyped
<1>7. SourcesKnown'
  BY <1>1, <1>2, NothingTyped DEF SourcesKnown
<1>8. SummaryInv'
  BY <1>1, FileShape DEF SummaryInv, SummaryTellsTheEvidence
<1> QED
  BY <1>5, <1>6, <1>7, <1>8 DEF Known

\* Found by the provider whose turn it is, and about the targets.
FromThisTurn(found) ==
    \A c \in Range(found) : c.provider = Head(cmd.todo) /\ c.ticker \in Range(cmd.targets)

LEMMA FoundThisTurn ==
    ASSUME Known, cmd.pc # "idle"
    PROVE  FromThisTurn(cmd.found)
BY DEF Known, SourcesKnown, FromThisTurn

\* The command stays with its provider, which has found something about the targets.
LEMMA AsksKnown ==
    ASSUME Inv, Known, cmd.pc \in {"provider", "request"}, cmd.todo # << >>,
           NEW attempt \in 1..MaxAttempts, NEW requests \in Seq(Requestable(cmd.targets)),
           NEW found \in Seq(Candidates), FromThisTurn(found),
           cmd' = [cmd EXCEPT !.pc = "request", !.attempt = attempt, !.requests = requests,
                              !.found = found],
           OnlyTheCommand
    PROVE  Known'
<1>1. DOMAIN cmd = DOMAIN Idle
  BY DEF Inv, ShapeInv
<1>2. /\ cmd'.pc = "request" /\ cmd'.attempt = attempt /\ cmd'.requests = requests
      /\ cmd'.found = found /\ cmd'.todo = cmd.todo /\ cmd'.candidates = cmd.candidates
      /\ cmd'.outcome = cmd.outcome /\ cmd'.table = cmd.table /\ cmd'.board = cmd.board
      /\ cmd'.targets = cmd.targets
  BY <1>1, IdleShape
<1>3. CommandTyped'
  BY <1>2 DEF Known, CommandTyped
<1>4. SourcesKnown'
  <2>1. cmd.pc # "idle" /\ SourcesKnown
    BY DEF Known
  <2>2. \A c \in Range(found) : c.provider = Head(cmd.todo) /\ c.ticker \in Range(cmd.targets)
    BY DEF FromThisTurn
  <2> QED
    BY <1>2, <2>1, <2>2 DEF SourcesKnown
<1>5. SummaryInv'
  BY <1>2, SummaryStays DEF Known, OnlyTheCommand
<1> QED
  BY <1>3, <1>4, <1>5, FilesStay DEF Known

\* Whoever ends its turn had no outcome before, and no second turn comes.
LEMMA TurnsOnce ==
    ASSUME Inv, CommandTyped, cmd.pc # "idle", cmd.todo # << >>
    PROVE  /\ Head(cmd.todo) \in ProviderSet \ DOMAIN cmd.outcome
           /\ IsInjective(Tail(cmd.todo))
           /\ Range(Tail(cmd.todo)) = Range(cmd.todo) \ {Head(cmd.todo)}
<1> DEFINE todo == cmd.todo
           rest == Tail(todo)
<1>1. todo \in Seq(ProviderSet) /\ todo # << >> /\ IsInjective(todo)
      /\ Range(todo) = ProviderSet \ DOMAIN cmd.outcome
  BY DEF Inv, ShapeInv, CommandTyped
<1> HIDE DEF todo
<1>2. Len(todo) \in Nat /\ Len(todo) > 0 /\ DOMAIN todo = 1..Len(todo) /\ Head(todo) = todo[1]
  BY <1>1
<1>3. /\ rest \in Seq(ProviderSet) /\ DOMAIN rest = 1..Len(todo) - 1
      /\ \A i \in 1..Len(todo) - 1 : rest[i] = todo[i + 1]
  BY <1>1, <1>2
<1> HIDE DEF rest
<1>4. \A i, j \in 1..Len(todo) : todo[i] = todo[j] => i = j
  BY <1>1, <1>2 DEF IsInjective
<1>5. IsInjective(rest)
  <2>1. ASSUME NEW i \in 1..Len(todo) - 1, NEW j \in 1..Len(todo) - 1, rest[i] = rest[j]
        PROVE  i = j
    <3>1. i + 1 \in 1..Len(todo) /\ j + 1 \in 1..Len(todo) /\ todo[i + 1] = todo[j + 1]
      BY <1>2, <1>3, <2>1
    <3>2. i + 1 = j + 1
      BY <1>4, <3>1
    <3> QED
      BY <3>2
  <2> QED
    BY <1>3, <2>1 DEF IsInjective
<1>6. Range(rest) = Range(todo) \ {todo[1]}
  <2>1. ASSUME NEW i \in 1..Len(todo) - 1
        PROVE  rest[i] \in Range(todo) /\ rest[i] # todo[1]
    <3>1. i + 1 \in 1..Len(todo) /\ 1 \in 1..Len(todo) /\ i + 1 # 1 /\ rest[i] = todo[i + 1]
      BY <1>2, <1>3
    <3> QED
      BY <1>2, <1>4, <3>1 DEF Range
  <2>2. ASSUME NEW i \in 1..Len(todo), todo[i] # todo[1]
        PROVE  todo[i] \in Range(rest)
    <3>1. i - 1 \in 1..Len(todo) - 1 /\ rest[i - 1] = todo[i]
      BY <1>2, <1>3, <2>2
    <3> QED
      BY <1>3, <3>1 DEF Range
  <2> QED
    BY <1>2, <1>3, <2>1, <2>2 DEF Range
<1>7. todo[1] \in Range(todo)
  BY <1>2 DEF Range
<1> QED
  BY <1>1, <1>2, <1>5, <1>6, <1>7 DEF todo, rest

\* A provider's turn ends, with success only if it found something.
LEMMA EndedKnown ==
    ASSUME Inv, Known, NEW status \in Statuses, cmd.pc \in {"provider", "request"},
           cmd.todo # << >>, status = "success" => cmd.found # << >>,
           cmd' = Ended(Head(cmd.todo), status), OnlyTheCommand
    PROVE  Known'
<1> DEFINE p == Head(cmd.todo)
           candidates == IF status = "success" THEN cmd.candidates \o cmd.found
                         ELSE cmd.candidates
           tickers == IF cmd.pc = "provider" THEN Range(cmd.targets) ELSE TickersOf(p, cmd.targets)
           outcome == Put(cmd.outcome, p, [status |-> status, tickers |-> tickers])
           table == IF status \in Refusals /\ cmd.keep
                    THEN Put(cmd.table, p, clock + DurationOf[p]) ELSE cmd.table
           new == [cmd EXCEPT !.pc = "provider", !.todo = Tail(cmd.todo), !.requests = << >>,
                              !.attempt = 1, !.candidates = candidates, !.found = << >>,
                              !.outcome = outcome, !.table = table]
<1>1. cmd' = new
  BY DEF Ended
<1>2. DOMAIN cmd = DOMAIN Idle /\ cmd.found \in Seq(Candidates)
      /\ cmd.candidates \in Seq(Candidates) /\ cmd.pc # "idle"
  BY DEF Inv, ShapeInv
<1>3. /\ new.pc = "provider" /\ new.todo = Tail(cmd.todo) /\ new.requests = << >>
      /\ new.attempt = 1 /\ new.candidates = candidates /\ new.found = << >>
      /\ new.outcome = outcome /\ new.table = table /\ new.board = cmd.board
      /\ new.targets = cmd.targets
  BY <1>2, IdleShape
<1>4. CommandTyped /\ SourcesKnown /\ FilesTyped
  BY DEF Known
<1>5. /\ p \in ProviderSet \ DOMAIN cmd.outcome
      /\ IsInjective(Tail(cmd.todo)) /\ Range(Tail(cmd.todo)) = Range(cmd.todo) \ {p}
  BY <1>2, <1>4, TurnsOnce
<1>6. /\ DOMAIN outcome = DOMAIN cmd.outcome \union {p}
      /\ outcome[p] = [status |-> status, tickers |-> tickers]
      /\ \A q \in DOMAIN cmd.outcome : outcome[q] = cmd.outcome[q]
  BY <1>5 DEF Put
<1>7. tickers \subseteq Tickers
  BY <1>4, <1>5, RequestsAreRequestable DEF CommandTyped, TickersOf
<1> HIDE DEF tickers
<1>8. Partial(outcome, ProviderSet, Outcomes)
  <2>1. [status |-> status, tickers |-> tickers] \in Outcomes
    BY <1>7 DEF Outcomes
  <2> HIDE DEF p
  <2> QED
    BY <1>4, <1>5, <2>1 DEF CommandTyped, Partial, Put
<1>9. IsTable(table)
  <2>1. clock \in Nat /\ clock <= MaxClock /\ IsTable(cmd.table)
    BY <1>4, Bounds DEF FilesTyped, CommandTyped
  <2> HIDE DEF p
  <2> QED
    BY <1>5, <2>1, Bounds, Durations DEF IsTable, Partial, Put
<1>10. Range(candidates) = IF status = "success" THEN Range(cmd.candidates) \union Range(cmd.found)
                           ELSE Range(cmd.candidates)
  <2>1. Range(cmd.candidates \o cmd.found) = Range(cmd.candidates) \union Range(cmd.found)
    BY <1>2, RangeConcatenation
  <2> QED
    BY <2>1
<1> HIDE DEF new, candidates, outcome, table
<1>11. CommandTyped'
  <2>1. << >> \in Seq(Requestable(cmd.targets))
    OBVIOUS
  <2>2. Range(Tail(cmd.todo)) = ProviderSet \ DOMAIN outcome
    BY <1>2, <1>4, <1>5, <1>6 DEF CommandTyped
  <2> HIDE DEF p
  <2> QED
    BY <1>1, <1>2, <1>3, <1>4, <1>5, <1>8, <1>9, <2>1, <2>2, Bounds DEF CommandTyped
<1>12. SourcesKnown'
  <2>1. \A c \in Range(cmd.found) : c.provider = p /\ c.ticker \in Range(cmd.targets)
    BY <1>2, <1>4 DEF SourcesKnown
  <2>2. /\ \A c \in Range(cmd.candidates) :
              /\ c.ticker \in Range(cmd.targets) /\ c.provider \in DOMAIN cmd.outcome
              /\ cmd.outcome[c.provider].status = "success"
        /\ \A q \in DOMAIN cmd.outcome :
              cmd.outcome[q].status = "success" =>
                  \E c \in Range(cmd.candidates) : c.provider = q
    BY <1>2, <1>4 DEF SourcesKnown
  <2>3. ASSUME status = "success"
        PROVE  \E c \in Range(candidates) : c.provider = p
    <3>1. cmd.found[1] \in Range(cmd.found)
      BY <1>2, <2>3 DEF Range
    <3> QED
      BY <1>10, <2>1, <2>3, <3>1
  <2>4. outcome[p].status = status
    BY <1>6
  <2> HIDE DEF p
  <2>5. \A c \in Range(candidates) :
           /\ c.ticker \in Range(cmd.targets) /\ c.provider \in DOMAIN outcome
           /\ outcome[c.provider].status = "success"
    BY <1>6, <1>10, <2>1, <2>2, <2>4
  <2>6. \A q \in DOMAIN outcome :
           outcome[q].status = "success" => \E c \in Range(candidates) : c.provider = q
    BY <1>6, <1>10, <2>2, <2>3, <2>4
  <2> QED
    BY <1>1, <1>3, <2>5, <2>6, NothingTyped DEF SourcesKnown
<1>13. SummaryInv'
  BY <1>1, <1>3, SummaryStays DEF Known, OnlyTheCommand
<1> QED
  BY <1>4, <1>11, <1>12, <1>13, FilesStay DEF Known

\* What the summary says of a ticker in a category.
LEMMA TickerStateTells ==
    ASSUME NEW t, NEW c, NEW items, NEW outcome, DOMAIN outcome = ProviderSet,
           DOMAIN CategoryOf = ProviderSet,
           \A p \in ProviderSet : outcome[p].status \in Statuses
    PROVE  /\ TickerState(t, c, items, outcome) \in States \ {"excluded_ambiguous_bare_ticker"}
           /\ TickerState(t, c, items, outcome) = "covered" <=>
                 \E i \in items : CategoryOf[i.provider] = c /\ i.ticker = t
           /\ TickerState(t, c, items, outcome) = "no_data" =>
                 \A p \in ProviderSet :
                    CategoryOf[p] = c => outcome[p].status \in {"success", "no_data"}
<1> DEFINE covered == \E i \in items : CategoryOf[i.provider] = c /\ i.ticker = t
           some(S) == \E p \in {q \in DOMAIN outcome : CategoryOf[q] = c} : outcome[p].status \in S
           asked == \E p \in {q \in DOMAIN outcome : CategoryOf[q] = c} : t \in outcome[p].tickers
           failed == some(PolicyFailures)
           skipped == some({"skipped", "cooldown_active"})
           none == some({"no_data"})
<1>1. TickerState(t, c, items, outcome) =
         IF covered THEN "covered"
         ELSE IF failed THEN "failed"
         ELSE IF skipped THEN "skipped"
         ELSE IF none \/ asked THEN "no_data" ELSE "not_run"
  BY DEF TickerState
<1>2. ASSUME ~failed, ~skipped, NEW p \in ProviderSet, CategoryOf[p] = c
      PROVE  outcome[p].status \in {"success", "no_data"}
  <2>1. outcome[p].status \notin PolicyFailures
        /\ outcome[p].status \notin {"skipped", "cooldown_active"}
    BY <1>2
  <2>2. outcome[p].status \in Statuses
    OBVIOUS
  <2> QED
    BY <2>1, <2>2 DEF Statuses
<1> HIDE DEF covered, failed, skipped, none, asked
<1>3. /\ TickerState(t, c, items, outcome) \in States \ {"excluded_ambiguous_bare_ticker"}
      /\ TickerState(t, c, items, outcome) = "covered" <=> covered
  BY <1>1 DEF States
<1>4. TickerState(t, c, items, outcome) = "no_data" => ~failed /\ ~skipped
  BY <1>1
<1> QED
  BY <1>2, <1>3, <1>4 DEF covered

LEMMA WriteEvidenceKnown ==
    ASSUME Inv, Known, WriteEvidence
    PROVE  Known'
<1>1. /\ cmd.pc = "provider" /\ evidence' = File(Deduped(cmd.candidates))
      /\ cmd' = [cmd EXCEPT !.pc = "summary"]
      /\ UNCHANGED <<summary, cooldowns, clock, crashes, quiet>>
  BY DEF WriteEvidence
<1>2. DOMAIN cmd = DOMAIN Idle /\ cmd.candidates \in Seq(Candidates)
  BY DEF Inv, ShapeInv
<1>3. /\ cmd'.pc = "summary" /\ cmd'.todo = cmd.todo /\ cmd'.requests = cmd.requests
      /\ cmd'.attempt = cmd.attempt /\ cmd'.candidates = cmd.candidates
      /\ cmd'.found = cmd.found /\ cmd'.outcome = cmd.outcome /\ cmd'.table = cmd.table
      /\ cmd'.board = cmd.board /\ cmd'.targets = cmd.targets
  BY <1>1, <1>2, IdleShape
<1>4. Deduped(cmd.candidates) \subseteq Candidates
  BY <1>2 DEF Deduped, Range
<1>5. FilesTyped'
  BY <1>1, <1>4, FileShape DEF Known, FilesTyped
<1>6. CommandTyped'
  BY <1>1, <1>3 DEF Known, CommandTyped
<1>7. SourcesKnown'
  <2>1. cmd.pc # "idle" /\ cmd.pc # "request" /\ SourcesKnown
    BY <1>1 DEF Known
  <2> QED
    BY <1>3, <2>1 DEF SourcesKnown
<1>8. SummaryInv'
  BY <1>1 DEF Known, SummaryInv, SummaryTellsTheEvidence
<1> QED
  BY <1>5, <1>6, <1>7, <1>8 DEF Known

\* The summary is made of the evidence that was just written.
LEMMA WriteSummaryKnown ==
    ASSUME Inv, Known, WriteSummary
    PROVE  Known'
<1> DEFINE items == Deduped(cmd.candidates)
           status == [p \in DOMAIN cmd.outcome |-> cmd.outcome[p].status]
           coverage == Coverage(cmd.board, cmd.targets, items, cmd.outcome)
           data == [status |-> status, coverage |-> coverage]
<1>1. /\ cmd.pc = "summary" /\ summary' = File(data)
      /\ (cmd.keep /\ cmd' = [cmd EXCEPT !.pc = "cooldowns"]) \/ cmd' = Idle
      /\ UNCHANGED <<evidence, cooldowns, clock, crashes, quiet>>
  BY DEF WriteSummary
<1>2. /\ DOMAIN cmd = DOMAIN Idle /\ cmd.candidates \in Seq(Candidates)
      /\ evidence = File(items) /\ cmd.todo = << >>
  BY <1>1 DEF Inv, ShapeInv, EvidenceInv, TurnInv
<1>3. CommandTyped /\ SourcesKnown /\ FilesTyped
  BY DEF Known
<1>4. DOMAIN cmd.outcome = ProviderSet /\ cmd.board \in Boards /\ cmd.targets \in Seq(Tickers)
  BY <1>1, <1>2, <1>3, NothingTyped DEF CommandTyped, Partial
<1>5. \A p \in ProviderSet : cmd.outcome[p].status \in Statuses
  <2>1. cmd.outcome \in [DOMAIN cmd.outcome -> Outcomes]
    BY <1>3 DEF CommandTyped, Partial
  <2>2. \A p \in DOMAIN cmd.outcome : cmd.outcome[p] \in Outcomes
    BY <2>1
  <2> QED
    BY <1>4, <2>2 DEF Outcomes
<1> DEFINE chosen == Range(cmd.targets)
           excluded == ExcludedAsAmbiguous(cmd.board)
<1>6. chosen \subseteq Tickers /\ excluded \subseteq Tickers
  <2>1. chosen \subseteq Tickers
    BY <1>4 DEF Range
  <2>2. excluded \subseteq Tickers
    BY <1>4, BoardsAssumption DEF ExcludedAsAmbiguous
  <2> QED
    BY <2>1, <2>2
<1>7. \A c \in Categories : /\ DOMAIN coverage[c] = chosen \union excluded
                            /\ \A t \in chosen \union excluded : coverage[c][t] =
                                  IF t \in chosen THEN TickerState(t, c, items, cmd.outcome)
                                  ELSE "excluded_ambiguous_bare_ticker"
                            /\ coverage[c] = [t \in chosen \union excluded |->
                                  IF t \in chosen THEN TickerState(t, c, items, cmd.outcome)
                                  ELSE "excluded_ambiguous_bare_ticker"]
  BY DEF Coverage
<1>8. data.status = status /\ data.coverage = coverage
  OBVIOUS
<1> HIDE DEF coverage, data, chosen, excluded
<1>9. status \in [ProviderSet -> Statuses] /\ \A p \in ProviderSet : status[p] = cmd.outcome[p].status
  BY <1>4, <1>5
<1> HIDE DEF status
<1>10. \A i \in items : /\ i.provider \in ProviderSet /\ cmd.outcome[i.provider].status = "success"
                        /\ i.ticker \in chosen
  <2>1. items \subseteq Range(cmd.candidates)
    BY DEF Deduped
  <2>2. \A c \in Range(cmd.candidates) :
              /\ c.ticker \in Range(cmd.targets) /\ c.provider \in DOMAIN cmd.outcome
              /\ cmd.outcome[c.provider].status = "success"
    BY <1>1, <1>3 DEF SourcesKnown
  <2> QED
    BY <1>4, <2>1, <2>2 DEF chosen
<1>11. \A p \in ProviderSet : cmd.outcome[p].status = "success" => \E i \in items : i.provider = p
  <2> SUFFICES ASSUME NEW p \in ProviderSet, cmd.outcome[p].status = "success"
               PROVE  \E i \in items : i.provider = p
    OBVIOUS
  <2>1. PICK c \in Range(cmd.candidates) : c.provider = p
    BY <1>1, <1>3, <1>4 DEF SourcesKnown
  <2>2. PICK i \in items : Key(i) = Key(c)
    BY <1>2, DedupedKeepsTheRichest
  <2> QED
    BY <2>1, <2>2 DEF Key
<1>12. /\ DOMAIN CategoryOf = ProviderSet
       /\ \A c : \A t : /\ TickerState(t, c, items, cmd.outcome)
                             \in States \ {"excluded_ambiguous_bare_ticker"}
                        /\ TickerState(t, c, items, cmd.outcome) = "covered" <=>
                              \E i \in items : CategoryOf[i.provider] = c /\ i.ticker = t
                        /\ TickerState(t, c, items, cmd.outcome) = "no_data" =>
                              \A p \in ProviderSet :
                                CategoryOf[p] = c => status[p] \in {"success", "no_data"}
  <2>1. DOMAIN CategoryOf = ProviderSet
    BY ProvidersAssumption
  <2> HIDE DEF items
  <2> QED
    BY <1>4, <1>5, <1>9, <2>1, TickerStateTells
<1> HIDE DEF items
<1>13. FilesTyped'
  <2>1. \A c \in Categories : Partial(coverage[c], Tickers, States)
    <3> TAKE c \in Categories
    <3>1. \A t \in chosen \union excluded :
             (IF t \in chosen THEN TickerState(t, c, items, cmd.outcome)
              ELSE "excluded_ambiguous_bare_ticker") \in States
      BY <1>12 DEF States
    <3>2. coverage[c] \in [chosen \union excluded -> States]
      BY <1>7, <3>1
    <3> QED
      BY <1>6, <1>7, <3>2 DEF Partial
  <2>2. summary'.is = "file" /\ summary'.data.status = status
        /\ summary'.data.coverage = coverage
    BY <1>1, <1>8, FileShape
  <2> QED
    BY <1>1, <1>3, <1>9, <2>1, <2>2 DEF FilesTyped
<1>14. CommandTyped' /\ SourcesKnown'
  <2>1. CASE cmd' = Idle
    BY <2>1, IdleKnown
  <2>2. CASE cmd' = [cmd EXCEPT !.pc = "cooldowns"]
    <3>1. /\ cmd'.pc = "cooldowns" /\ cmd'.todo = cmd.todo /\ cmd'.requests = cmd.requests
          /\ cmd'.attempt = cmd.attempt /\ cmd'.candidates = cmd.candidates
          /\ cmd'.found = cmd.found /\ cmd'.outcome = cmd.outcome /\ cmd'.table = cmd.table
          /\ cmd'.board = cmd.board /\ cmd'.targets = cmd.targets
      BY <1>2, <2>2, IdleShape
    <3>2. CommandTyped'
      BY <1>1, <1>3, <3>1 DEF CommandTyped
    <3>3. SourcesKnown'
      <4>1. cmd.pc # "idle" /\ cmd.pc # "request"
        BY <1>1
      <4> QED
        BY <1>3, <3>1, <4>1 DEF SourcesKnown
    <3> QED
      BY <3>2, <3>3
  <2> QED
    BY <1>1, <2>1, <2>2
<1>15. SummaryInv'
  <2>1. cmd'.pc \notin {"provider", "request", "summary"}
    BY <1>1, <1>2, IdleShape
  <2>2. evidence'.data = items /\ summary'.data.status = status
        /\ summary'.data.coverage = coverage
    BY <1>1, <1>2, <1>8, FileShape
  <2>3. {i.provider : i \in items} = {p \in ProviderSet : status[p] = "success"}
    BY <1>9, <1>10, <1>11
  <2>4. ASSUME NEW c \in Categories, NEW t \in DOMAIN coverage[c]
        PROVE  /\ coverage[c][t] = "covered" <=>
                     \E i \in items : CategoryOf[i.provider] = c /\ i.ticker = t
               /\ coverage[c][t] = "no_data" => \A p \in ProviderSet :
                     CategoryOf[p] = c => status[p] \in {"success", "no_data"}
    <3>1. t \in chosen \union excluded
      BY <1>7, <2>4
    <3>2. CASE t \in chosen
      <4>1. coverage[c][t] = TickerState(t, c, items, cmd.outcome)
        BY <1>7, <3>1, <3>2
      <4> QED
        BY <1>12, <4>1
    <3>3. CASE t \notin chosen
      <4>1. coverage[c][t] = "excluded_ambiguous_bare_ticker"
        BY <1>7, <3>1, <3>3
      <4> QED
        BY <1>10, <3>3, <4>1
    <3> QED
      BY <3>2, <3>3
  <2>5. SummaryTellsTheEvidence'
    BY <2>2, <2>3, <2>4 DEF SummaryTellsTheEvidence
  <2> QED
    BY <2>1, <2>5 DEF SummaryInv
<1> QED
  BY <1>13, <1>14, <1>15 DEF Known

LEMMA WriteCooldownsKnown ==
    ASSUME Inv, Known, WriteCooldowns
    PROVE  Known'
<1>1. /\ cmd.pc = "cooldowns" /\ cmd' = Idle /\ cooldowns' = File(cmd.table)
      /\ quiet' = [p \in ProviderSet |->
                     IF cmd.outcome[p].status \in Refusals THEN cmd.table[p] ELSE quiet[p]]
      /\ UNCHANGED <<evidence, summary, clock, crashes>>
  BY DEF WriteCooldowns, KeptCooldowns
<1>2. IsTable(cmd.table) /\ IsTable(quiet) /\ DOMAIN quiet = ProviderSet
  BY DEF Known, FilesTyped, CommandTyped
<1>3. \A p \in ProviderSet : cmd.outcome[p].status \in Refusals => p \in DOMAIN cmd.table
  <2>1. cmd.keep /\ \A p \in ProviderSet : p \in DOMAIN cmd.outcome
    <3>1. cmd.keep /\ cmd.todo = << >> /\ Len(<< >>) = 0
      BY <1>1 DEF Inv, TurnInv
    <3> QED
      BY <1>1, <3>1 DEF Inv, TurnInv
  <2> QED
    BY <1>1, <2>1 DEF Inv, TurnInv
<1>4. IsTable(quiet')
  <2>1. \A p \in ProviderSet : quiet'[p] \in Nat /\ quiet'[p] <= MaxClock + DurationOf[p]
    BY <1>1, <1>2, <1>3 DEF IsTable, Partial
  <2>2. DOMAIN quiet' = ProviderSet /\ quiet' \in [ProviderSet -> Nat]
    BY <1>1, <2>1
  <2> QED
    BY <2>1, <2>2 DEF IsTable, Partial
<1>5. FilesTyped'
  BY <1>1, <1>2, <1>4, FileShape DEF Known, FilesTyped
<1>6. SummaryInv'
  BY <1>1, SummaryStays, IdleShape DEF Known
<1> QED
  BY <1>1, <1>5, <1>6, IdleKnown DEF Known

LEMMA HeadAndTail ==
    ASSUME NEW T, NEW s \in Seq(T), s # << >>
    PROVE  Head(s) \in T /\ Tail(s) \in Seq(T)
OBVIOUS

LEMMA OneMore ==
    ASSUME NEW T, NEW s \in Seq(T), NEW x \in T
    PROVE  s \o <<x>> \in Seq(T) /\ Range(s \o <<x>>) = Range(s) \union {x}
<1>1. <<x>> \in Seq(T) /\ Range(<<x>>) = {x}
  BY DEF Range
<1>2. s \o <<x>> \in Seq(T)
  BY <1>1
<1>3. Range(s \o <<x>>) = Range(s) \union Range(<<x>>)
  BY <1>1, RangeConcatenation
<1> QED
  BY <1>1, <1>2, <1>3

LEMMA StepKnown ==
    ASSUME Inv, Known, Step
    PROVE  Known'
<1> DEFINE p == Head(cmd.todo)
<1>1. CASE NextProvider
  <2> DEFINE requests == RequestsFor(p, cmd.targets)
  <2>1. cmd.pc = "provider" /\ cmd.todo # << >> /\ OnlyTheCommand
    BY <1>1 DEF NextProvider, OnlyTheCommand
  <2>2. \/ \E status \in Statuses \ {"success"} : cmd' = Ended(p, status)
        \/ cmd' = [cmd EXCEPT !.pc = "request", !.requests = requests]
    BY <1>1 DEF NextProvider, Statuses, PolicyFailures, Transient
  <2>3. CASE \E status \in Statuses \ {"success"} : cmd' = Ended(p, status)
    BY <2>1, <2>3, EndedKnown
  <2>4. CASE cmd' = [cmd EXCEPT !.pc = "request", !.requests = requests]
    <3>1. /\ DOMAIN cmd = DOMAIN Idle /\ cmd.found \in Seq(Candidates)
          /\ cmd.attempt \in 1..MaxAttempts /\ cmd.targets \in Seq(Tickers)
          /\ p \in ProviderSet
      BY <2>1 DEF Inv, ShapeInv, Known, CommandTyped
    <3>2. requests \in Seq(Requestable(cmd.targets))
      BY <3>1, RequestsAreRequestable
    <3> HIDE DEF requests
    <3>3. cmd' = [cmd EXCEPT !.pc = "request", !.attempt = cmd.attempt, !.requests = requests,
                             !.found = cmd.found]
      BY <2>4, <3>1, IdleShape
    <3> QED
      BY <2>1, <3>1, <3>2, <3>3, FoundThisTurn, AsksKnown
  <2> QED
    BY <2>2, <2>3, <2>4
<1> DEFINE Same == /\ cmd.pc = "request" /\ cmd.todo # << >> /\ DOMAIN cmd = DOMAIN Idle
                   /\ cmd.found \in Seq(Candidates) /\ p \in ProviderSet
                   /\ cmd.attempt \in 1..MaxAttempts /\ cmd.targets \in Seq(Tickers)
                   /\ cmd.requests \in Seq(Requestable(cmd.targets))
<1>2. cmd.pc = "request" => Same
  BY RequestShape DEF Inv, ShapeInv, Known, CommandTyped
<1>3. ASSUME NEW known, ReplyMap(known) PROVE Known'
  <2> DEFINE requests == RequestsAfterMap(known, cmd.targets)
  <2>1. /\ cmd.pc = "request" /\ cmd' = [cmd EXCEPT !.attempt = 1, !.requests = requests]
        /\ OnlyTheCommand
    BY <1>3 DEF ReplyMap, Requesting
  <2>2. requests \in Seq(Requestable(cmd.targets))
    BY <1>2, <2>1, RequestsAreRequestable
  <2> HIDE DEF requests
  <2>3. cmd' = [cmd EXCEPT !.pc = "request", !.attempt = 1, !.requests = requests,
                           !.found = cmd.found]
    BY <1>2, <2>1, IdleShape
  <2> QED
    BY <1>2, <2>1, <2>2, <2>3, Bounds, FoundThisTurn, AsksKnown
<1>4. ASSUME NEW found \in Answers(p, IF Head(cmd.requests) \in {Map, SpareMap}
                                      THEN {} ELSE Head(cmd.requests)), Reply(found)
      PROVE  Known'
  <2> DEFINE more == cmd.found \o found
             requests == Tail(cmd.requests)
             asked == Head(cmd.requests)
  <2>1. /\ cmd.pc = "request" /\ cmd.requests # << >> /\ asked \notin {Map, SpareMap}
        /\ cmd' = [cmd EXCEPT !.attempt = 1, !.requests = requests, !.found = more]
        /\ OnlyTheCommand
    BY <1>4 DEF Reply, Requesting
  <2>2. Same
    BY <1>2, <2>1
  <2>3. asked \in SUBSET Range(cmd.targets) /\ requests \in Seq(Requestable(cmd.targets))
    <3>1. asked \in Requestable(cmd.targets) /\ requests \in Seq(Requestable(cmd.targets))
      BY <2>1, <2>2, HeadAndTail
    <3> QED
      BY <2>1, <3>1 DEF Requestable
  <2>4. found = << >> \/ \E c \in Candidates : /\ found = <<c>> /\ c.provider = p
                                               /\ c.ticker \in Range(cmd.targets)
    BY <1>4, <2>1, <2>3 DEF Answers
  <2>5. more \in Seq(Candidates) /\ FromThisTurn(more)
    <3> FromThisTurn(cmd.found)
      BY <2>1, FoundThisTurn
    <3>1. CASE found = << >>
      <4>1. more = cmd.found
        BY <2>2, <3>1
      <4> QED
        BY <2>2, <4>1
    <3>2. ASSUME NEW c \in Candidates, found = <<c>>, c.provider = p,
                 c.ticker \in Range(cmd.targets)
          PROVE  more \in Seq(Candidates) /\ FromThisTurn(more)
      <4>1. more \in Seq(Candidates) /\ Range(more) = Range(cmd.found) \union {c}
        BY <2>2, <3>2, OneMore
      <4>2. FromThisTurn(more)
        <5> HIDE DEF more
        <5> QED
          BY <3>2, <4>1 DEF FromThisTurn
      <4> QED
        BY <4>1, <4>2
    <3> HIDE DEF more
    <3> QED
      BY <2>4, <3>1, <3>2
  <2> HIDE DEF more, requests, Same
  <2>6. cmd' = [cmd EXCEPT !.pc = "request", !.attempt = 1, !.requests = requests,
                           !.found = more]
    BY <2>1, <2>2, IdleShape DEF Same
  <2>7. 1 \in 1..MaxAttempts /\ cmd.pc \in {"provider", "request"} /\ cmd.todo # << >>
    BY <2>1, <2>2, Bounds DEF Same
  <2> HIDE DEF asked
  <2> QED
    BY <2>1, <2>3, <2>5, <2>6, <2>7, AsksKnown
<1>5. ASSUME NEW code \in Failures, Fail(code) PROVE Known'
  <2>1. /\ cmd.pc = "request" /\ OnlyTheCommand
        /\ \/ cmd.attempt < MaxAttempts /\ cmd' = [cmd EXCEPT !.attempt = @ + 1]
           \/ cmd' = [cmd EXCEPT !.attempt = 1, !.requests = <<SpareMap>>]
           \/ cmd' = Ended(p, code)
    BY <1>5 DEF Fail, Requesting
  <2>2. code \in Statuses /\ code # "success"
    BY BoundsAssumption DEF Statuses, PolicyFailures, Transient
  <2>3. Same
    BY <1>2, <2>1
  <2>4. CASE cmd.attempt < MaxAttempts /\ cmd' = [cmd EXCEPT !.attempt = @ + 1]
    <3> DEFINE attempt == cmd.attempt + 1
    <3>1. attempt \in 1..MaxAttempts
      BY <2>3, <2>4, Bounds
    <3> HIDE DEF Same
    <3>2. cmd' = [cmd EXCEPT !.pc = "request", !.attempt = attempt, !.requests = cmd.requests,
                             !.found = cmd.found]
      BY <2>1, <2>3, <2>4, IdleShape DEF Same
    <3> HIDE DEF attempt
    <3> QED
      BY <2>1, <2>3, <3>1, <3>2, FoundThisTurn, AsksKnown DEF Same
  <2>5. CASE cmd' = [cmd EXCEPT !.attempt = 1, !.requests = <<SpareMap>>]
    <3> DEFINE requests == <<SpareMap>>
    <3>1. requests \in Seq(Requestable(cmd.targets))
      BY DEF Requestable
    <3>2. cmd' = [cmd EXCEPT !.pc = "request", !.attempt = 1, !.requests = requests,
                             !.found = cmd.found]
      BY <2>1, <2>3, <2>5, IdleShape
    <3> HIDE DEF requests
    <3> QED
      BY <2>1, <2>3, <3>1, <3>2, Bounds, FoundThisTurn, AsksKnown
  <2>6. CASE cmd' = Ended(p, code)
    BY <2>1, <2>2, <2>3, <2>6, EndedKnown
  <2> QED
    BY <2>1, <2>4, <2>5, <2>6
<1>6. CASE EndProvider
  <2> DEFINE status == IF cmd.found = << >> THEN "no_data" ELSE "success"
  <2>1. cmd.pc = "request" /\ cmd' = Ended(p, status) /\ OnlyTheCommand
    BY <1>6 DEF EndProvider
  <2>2. status \in Statuses /\ (status = "success" => cmd.found # << >>)
    BY DEF Statuses
  <2> HIDE DEF status
  <2> QED
    BY <1>2, <2>1, <2>2, EndedKnown
<1>7. CASE WriteEvidence
  BY <1>7, WriteEvidenceKnown
<1>8. CASE WriteSummary
  BY <1>8, WriteSummaryKnown
<1>9. CASE WriteCooldowns
  BY <1>9, WriteCooldownsKnown
<1> HIDE DEF Same
<1> QED
  BY <1>1, <1>3, <1>4, <1>5, <1>6, <1>7, <1>8, <1>9, Zenon DEF Step

LEMMA NextKnown == Inv /\ Known /\ [Next]_vars => Known'
<1> SUFFICES ASSUME Inv, Known, [Next]_vars PROVE Known'
  OBVIOUS
<1>1. CASE \E board \in Boards, live, keep, ignore \in BOOLEAN :
             (ignore => keep) /\ Start(board, live, keep, ignore)
  BY <1>1, StartKnown
<1>2. CASE Step
  BY <1>2, StepKnown
<1>3. CASE Crash
  BY <1>3, CrashKnown
<1>4. CASE Tick
  BY <1>4, TickKnown
<1>5. CASE UNCHANGED vars
  <2>1. CommandTyped' /\ SourcesKnown' /\ OnlyTheCommand
    BY <1>5 DEF vars, Known, CommandTyped, SourcesKnown, OnlyTheCommand
  <2>2. SummaryInv'
    BY <1>5, SummaryStays DEF vars, Known
  <2> QED
    BY <2>1, <2>2, FilesStay DEF Known
<1> QED
  BY <1>1, <1>2, <1>3, <1>4, <1>5 DEF Next

LEMMA KnownHolds == Spec => []Known
BY InitInv, NextInv, InitKnown, NextKnown, PTL DEF Spec

\* The files, the cooldowns and the command's memory are what they should be, and no
\* request is tried more often than allowed (_request_json), for any boards and providers.
THEOREM TypeCorrect == Spec => []TypeOK
<1>1. Inv /\ Known => TypeOK
  <2> SUFFICES ASSUME Inv, Known PROVE TypeOK
    OBVIOUS
  <2>1. Range(cmd.targets) \subseteq Tickers
    BY DEF Known, CommandTyped, Range
  <2>2. Range(cmd.found) \union Range(cmd.candidates) \subseteq Candidates
    BY DEF Inv, ShapeInv, Range
  <2> QED
    BY <2>1, <2>2 DEF Known, FilesTyped, CommandTyped, TypeOK
<1> QED
  BY <1>1, InvHolds, KnownHolds, PTL

\* The evidence and the summary that lie side by side tell the same: who found something,
\* what is covered, and that no failure passes for the absence of news (_category_coverage,
\* _ticker_state), whatever command dies between the two writes.
THEOREM SummariesAreTrue == Spec => []SummaryTellsTheEvidence
<1>1. Known => SummaryTellsTheEvidence
  BY DEF Known, SummaryInv
<1> QED
  BY <1>1, KnownHolds, PTL

==============================================================================
