---------------------------- MODULE LiveBaseline ----------------------------
(***************************************************************************)
(* `run-live-source-baseline` (adapters/live_source_replacement.py): the   *)
(* live holdings history is filled until every tracked ETF has the two     *)
(* snapshots a comparison needs.  First the representative ETF of each     *)
(* provider is fetched and compared with the operational copy; only if all *)
(* agree is each provider asked for what its ETFs still miss.              *)
(*                                                                         *)
(* Both phases fetch in the same way: the history is read once for a       *)
(* provider, and written once when its requests are over.  Dates are       *)
(* business days.  Rows are known by their fingerprint; whether they agree *)
(* with the operational copy is another question, since that comparison    *)
(* allows for small differences (Contents, Confirmed).                     *)
(*                                                                         *)
(* The history is also what `reconcile-provider-holdings-history` splits   *)
(* into one history per provider (provider_history_reconciliation.py), and *)
(* compares with those that are already there.  Besides these two,         *)
(* `update-holdings-history-source` adds or, if told so, replaces snapshots *)
(* of the live history or of a provider's own.  One command runs at a      *)
(* time; a backfill and a reconciliation can die at any step.              *)
(***************************************************************************)
EXTENDS Integers, Sequences, FiniteSets, Functions, FiniteSetsExt

CONSTANTS
    Cohort,        \* the providers of the baseline config, in its order
    Tracked,       \* the active ETFs of each, in catalog order; the first is representative
    Operational,   \* the dates of each ETF in the operational copy
    MaxDate,       \* bound: no observed date is later
    MaxFaults,     \* bound: requests not answered with the rows asked for, and updates
    MaxCrashes     \* bound: backfills and reconciliations that die

\* Business days, as numbers in calendar order.
Dates == {d \in Int : d =< MaxDate}
Etfs == UNION {Range(Tracked[p]) : p \in Range(Cohort)}

\* _previous_business_day
Previous(d) == d - 1

ASSUME CohortAssumption ==
    /\ Cohort \in Seq(Range(Cohort)) /\ Cohort # << >> /\ IsInjective(Cohort)
    /\ DOMAIN Tracked = Range(Cohort)
    /\ \A p \in Range(Cohort) : Tracked[p] \in Seq(Etfs) /\ Tracked[p] # << >>
    /\ Operational \in [Etfs -> SUBSET (1..MaxDate)]
    /\ \A p \in Range(Cohort) : Operational[Head(Tracked[p])] # {}
ASSUME BoundsAssumption == MaxDate \in Nat \ {0} /\ MaxFaults \in Nat /\ MaxCrashes \in Nat

VARIABLES
    history,    \* the snapshots of the live holdings history
    readable,   \* whether its manifest and its partitions still belong together
    cache,      \* the holdings history in each provider's operational cache
    cmd,        \* the running command
    summary,    \* what the last backfill printed
    report,     \* what a reconciliation printed, until the next command starts
    faults,     \* how many requests were not answered as asked, and updates that wrote
    crashes,    \* how many commands died
    strayed,    \* observation: ETFs whose rows came with another date than asked
    refreshed,  \* observation: snapshots of the history that an update replaced
    direct      \* observation: what updates wrote to which provider's own history

bounds == <<faults, crashes>>
observed == <<strayed, refreshed, direct>>
vars == <<history, readable, cache, cmd, summary, report, bounds, observed>>

\* current is what the provider serves when it serves what it is asked; near are rows with
\* another fingerprint that the operational copy confirms all the same, within its
\* tolerances; other are rows that it does not.
Contents == {"current", "near", "other"}
Confirmed == {"current", "near"}
Silent == [is |-> "none"]
Missing == [is |-> "missing"]
Unreadable == [is |-> "unreadable"]
File(h) == [is |-> "file", data |-> h]
NoSummary == [bulk |-> FALSE, completed |-> FALSE]
NoReport == << >>
BlockedRetries == 2                   \* BLOCKED_RETRY_DELAYS_SECONDS

\* turn is the provider's position; stored what was read for it, staged what is to be
\* written; agreed whether all representatives passed; complete whether all bulk
\* targets were served.  create and found are a reconciliation's: whether it creates
\* histories, and its items so far.
Idle == [pc |-> "idle", bulk |-> FALSE, turn |-> 1, requests |-> {},
         stored |-> << >>, staged |-> << >>, attempts |-> 0,
         answer |-> Silent, outcome |-> "none",
         agreed |-> TRUE, complete |-> TRUE,
         create |-> FALSE, found |-> << >>]

Init ==
    /\ history = << >> /\ readable = TRUE
    /\ cache = [p \in Range(Cohort) |-> Missing]
    /\ cmd = Idle
    /\ summary = NoSummary /\ report = NoReport
    /\ faults = 0 /\ crashes = 0
    /\ strayed = {} /\ refreshed = {} /\ direct = {}

-----------------------------------------------------------------------------
(* The plan *)

DatesIn(h, e) == {k[2] : k \in {l \in DOMAIN h : l[1] = e}}
TwoLatest(dates) == {Max(dates), Max(dates \ {Max(dates)})}
Anchors(p) == UNION {Operational[e] : e \in Range(Tracked[p])}

\* Mutant: an ETF that is neither in the operational copy nor in the history is a gap.
WindowWithoutDiscovery(h, p, e) ==
    LET have == DatesIn(h, e) IN
    CASE Cardinality(Operational[e]) >= 2 -> TwoLatest(Operational[e])
      [] Cardinality(Operational[e]) < 2 /\ Cardinality(have) >= 2 -> TwoLatest(have)
      [] OTHER -> UNION {{d, Previous(d)} : d \in have}

\* plan_live_baseline_snapshots: the two dates ETF e needs; none is a window gap.
Window(h, p, e) ==
    LET have == DatesIn(h, e)
        latest == IF have # {} THEN have ELSE Anchors(p)
    IN  CASE Cardinality(Operational[e]) >= 2 -> TwoLatest(Operational[e])
          [] Cardinality(Operational[e]) < 2 /\ Cardinality(have) >= 2 -> TwoLatest(have)
          [] OTHER -> IF latest = {} THEN {} ELSE {Max(latest), Previous(Max(latest))}

MissingDates(h, p, e) == Window(h, p, e) \ DatesIn(h, e)
Gap(h, p) == \E e \in Range(Tracked[p]) : Window(h, p, e) = {}

\* Only what is missing is requested.
Requests(h, p) ==
    UNION {{[etf |-> e, date |-> d] : d \in MissingDates(h, p, e)} : e \in Range(Tracked[p])}

\* What is asked next: ETF after ETF in catalog order, the latest date first.
NextRequest(p, requests) ==
    LET i == Min({j \in DOMAIN Tracked[p] : \E r \in requests : r.etf = Tracked[p][j]})
        e == Tracked[p][i]
    IN  [etf |-> e, date |-> Max({r.date : r \in {s \in requests : s.etf = e}})]

ReadyForExport(h) ==
    \A p \in Range(Cohort) : Requests(h, p) = {} /\ ~Gap(h, p)

-----------------------------------------------------------------------------
(* The answers of a provider *)

Refused == {"rate_limited", "blocked"}    \* stands for every stop class
NotServed == {"failed", "refresh_required"} \union Refused

Rows(date, content) == [is |-> "rows", date |-> date, content |-> content]
Without(outcome) == [is |-> outcome]
Asked(r) == Rows(r.date, "current")

\* A provider may also answer with the rows of an earlier date, with rows that differ,
\* with none at all (failed), or with rows that break the contract (malformed).
Answers(r) ==
    {Rows(d, c) : d \in (1..r.date) \union {r.date}, c \in Contents}
      \union {Without(o) : o \in {"failed", "malformed"} \union Refused}

\* Mutant: rows that differ replace the stored ones.
OutcomeAlwaysRefreshes(stored, e, answer) ==
    IF answer.is = "rows" THEN "fetched" ELSE answer.is

\* _apply_source_fetch_result, with no snapshot to refresh: rows are the stored ones only
\* if their fingerprint is, however little they differ.
Outcome(stored, e, answer) ==
    IF answer.is # "rows" THEN answer.is
    ELSE LET key == <<e, answer.date>> IN
         CASE key \notin DOMAIN stored -> "fetched"
           [] key \in DOMAIN stored /\ stored[key] = answer.content -> "skipped_existing"
           [] OTHER -> "refresh_required"

Put(h, key, content) == [k \in DOMAIN h \union {key} |-> IF k = key THEN content ELSE h[k]]

\* Mutant: a representative passes as soon as its rows are there.
PassedWhenFetched(h, e, outcome, answer) == outcome \in {"fetched", "skipped_existing"}

\* _representative_equivalence_summary: the rows of the observed date, as the history
\* has them, agree with the operational copy, which must have that date.
Passed(h, e, outcome, answer) ==
    /\ outcome \in {"fetched", "skipped_existing"}
    /\ answer.date \in Operational[e]
    /\ h[<<e, answer.date>>] \in Confirmed

-----------------------------------------------------------------------------
(* The steps of a backfill *)

Provider == Cohort[cmd.turn]
Representative(p) == Head(Tracked[p])
Asking == NextRequest(Provider, cmd.requests)

Start ==
    /\ cmd.pc = "idle"
    /\ cmd' = [Idle EXCEPT !.pc = "read"]
    /\ summary' = NoSummary /\ report' = NoReport
    /\ UNCHANGED <<history, readable, cache, bounds, observed>>

\* The history is read and the requests of the next provider are made: the
\* representative's, or the plan's.  An unreadable history is an error.
Read ==
    LET r == Representative(Provider)
        requests == IF cmd.bulk THEN Requests(history, Provider)
                    ELSE {[etf |-> r, date |-> Max(Operational[r])]}
    IN
    /\ cmd.pc = "read"
    /\ cmd' = IF readable
              THEN [cmd EXCEPT !.pc = "fetch", !.requests = requests, !.attempts = 0,
                               !.stored = history, !.staged = history,
                               !.complete = @ /\ (cmd.bulk => ~Gap(history, Provider))]
              ELSE Idle
    /\ UNCHANGED <<history, readable, cache, summary, report, bounds, observed>>

\* Mutant: one retry of a blocked target too many.
RetriesOnceMore(answer) == answer.is = "blocked" /\ cmd.attempts <= BlockedRetries

Retries(answer) == answer.is = "blocked" /\ cmd.attempts < BlockedRetries

\* Mutant: only a provider that stopped leaves the baseline incomplete.
LeavesIncompleteWhenStopped(outcome) == outcome \in Refused

\* _provider_result_has_incomplete_targets, and a provider that stopped.
LeavesIncomplete(outcome) == outcome \in NotServed

\* One pass of the fetch loop: a blocked target is tried twice more, a refusal ends the
\* provider's requests, rows that break the contract end the whole command.
Fetch(answer) ==
    LET r == Asking
        outcome == Outcome(cmd.stored, r.etf, answer)
    IN
    /\ cmd.pc = "fetch" /\ cmd.requests # {}
    /\ cmd' = CASE Retries(answer) -> [cmd EXCEPT !.attempts = @ + 1]
                [] answer.is = "malformed" -> Idle
                [] OTHER ->
                     [cmd EXCEPT !.attempts = 0,
                         !.answer = answer, !.outcome = outcome,
                         !.requests = IF outcome \in Refused THEN {} ELSE @ \ {r},
                         !.staged = IF outcome = "fetched"
                                    THEN Put(@, <<r.etf, answer.date>>, answer.content)
                                    ELSE @,
                         !.complete = @ /\ (cmd.bulk => ~LeavesIncomplete(outcome))]
    /\ strayed' = IF answer.is = "rows" /\ answer.date # r.date
                  THEN strayed \union {r.etf} ELSE strayed
    /\ UNCHANGED <<history, readable, cache, summary, report, crashes, refreshed, direct>>

FetchAsked ==
    /\ cmd.pc = "fetch" /\ cmd.requests # {}
    /\ Fetch(Asked(Asking))
    /\ UNCHANGED faults

\* The retries of a blocked request do not count again.
FetchFault ==
    /\ cmd.pc = "fetch" /\ cmd.requests # {}
    /\ cmd.attempts = 0 => faults < MaxFaults                 \* bound
    /\ faults' = IF cmd.attempts = 0 THEN faults + 1 ELSE faults
    /\ \E answer \in Answers(Asking) \ {Asked(Asking)} : Fetch(answer)

\* The history is written if anything was fetched.
Write ==
    /\ cmd.pc = "fetch" /\ cmd.requests = {}
    /\ history' = cmd.staged
    /\ cmd' = [cmd EXCEPT !.pc = "judge"]
    /\ UNCHANGED <<readable, cache, summary, report, bounds, observed>>

\* What follows a provider: the comparison of its representative, then the next
\* provider, the bulk phase when all representatives passed, or the summary.
Judge ==
    LET passed == cmd.bulk
                  \/ Passed(history, Representative(Provider), cmd.outcome, cmd.answer)
        agreed == cmd.agreed /\ passed
        more == cmd.turn < Len(Cohort)
    IN
    /\ cmd.pc = "judge"
    /\ CASE more ->
              /\ cmd' = [cmd EXCEPT !.pc = "read", !.turn = @ + 1, !.agreed = agreed,
                                    !.stored = << >>, !.staged = << >>,
                                    !.answer = Silent, !.outcome = "none"]
              /\ UNCHANGED summary
         [] ~more /\ ~cmd.bulk /\ agreed ->
              /\ cmd' = [Idle EXCEPT !.pc = "read", !.bulk = TRUE]
              /\ UNCHANGED summary
         [] OTHER ->
              /\ cmd' = Idle
              /\ summary' = [bulk |-> cmd.bulk, completed |-> cmd.bulk /\ cmd.complete]
    /\ UNCHANGED <<history, readable, cache, report, bounds, observed>>

-----------------------------------------------------------------------------
(* Reconciliation *)

\* _provider_snapshot_rows: the snapshots of p's own ETFs.
Slice(h, p) == Restrict(h, {k \in DOMAIN h : k[1] \in Range(Tracked[p])})

\* The canonical history must be readable and not empty; create says whether missing
\* histories are written (--write-missing-provider-histories).
Reconcile(create) ==
    /\ cmd.pc = "idle"
    /\ readable /\ history # << >>
    /\ cmd' = [Idle EXCEPT !.pc = "reconcile", !.stored = history, !.create = create]
    /\ report' = NoReport
    /\ UNCHANGED <<history, readable, cache, summary, bounds, observed>>

Item(status, missing, extra, changed) ==
    [status |-> status, missing |-> missing, extra |-> extra, changed |-> changed]

\* _history_mismatches
Compared(slice, own) ==
    LET missing == DOMAIN slice \ DOMAIN own
        extra == DOMAIN own \ DOMAIN slice
        changed == {k \in DOMAIN slice \intersect DOMAIN own : slice[k] # own[k]}
    IN  Item(IF missing \union extra \union changed = {} THEN "matched" ELSE "mismatched",
             missing, extra, changed)

\* _provider_summary_item
ItemOf(slice, own, create) ==
    CASE slice = << >> -> Item("no_canonical_rows", {}, {}, {})
      [] slice # << >> /\ own.is = "file" -> Compared(slice, own.data)
      [] OTHER -> Item(IF create THEN "written" ELSE "missing", {}, {}, {})

\* A missing history is created when there are rows for it, one that is there is only
\* compared, and one that cannot be read ends the command; what was found is told at
\* the end.
ReconcileProvider ==
    LET slice == Slice(cmd.stored, Provider)
        own == cache[Provider]
        found == Append(cmd.found, ItemOf(slice, own, cmd.create))
        fails == slice # << >> /\ own = Unreadable
        last == cmd.turn = Len(Cohort)
    IN
    /\ cmd.pc = "reconcile"
    /\ cache' = IF slice # << >> /\ own = Missing /\ cmd.create
                THEN [cache EXCEPT ![Provider] = File(slice)] ELSE cache
    /\ cmd' = IF fails \/ last THEN Idle ELSE [cmd EXCEPT !.turn = @ + 1, !.found = found]
    /\ report' = IF last /\ ~fails THEN found ELSE report
    /\ UNCHANGED <<history, readable, summary, bounds, observed>>

-----------------------------------------------------------------------------
(* Updates *)

\* What update_holdings_history_source makes of h when the provider serves the snapshot
\* key: one that is there already is replaced only if it is named (--refresh-snapshot).
Updated(h, key, content, refresh) ==
    IF key \in DOMAIN h /\ ~refresh THEN h ELSE Put(h, key, content)

\* An update of the canonical history that writes; its other outcomes write nothing.
UpdateHistory(key, content, refresh) ==
    /\ cmd.pc = "idle" /\ readable
    /\ faults < MaxFaults                                     \* bound
    /\ faults' = faults + 1
    /\ history' = Updated(history, key, content, refresh)
    /\ history' # history
    /\ refreshed' = refreshed \union {k \in {key} \intersect DOMAIN history : refresh}
    /\ report' = NoReport
    /\ UNCHANGED <<readable, cache, cmd, summary, crashes, strayed, direct>>

Contained(own) == IF own.is = "file" THEN own.data ELSE << >>

\* An update of p's own history (--history-dir), which is created if it is missing.
UpdateCache(p, key, content, refresh) ==
    LET own == Contained(cache[p]) IN
    /\ cmd.pc = "idle" /\ cache[p] # Unreadable
    /\ faults < MaxFaults                                     \* bound
    /\ faults' = faults + 1
    /\ Updated(own, key, content, refresh) # own
    /\ cache' = [cache EXCEPT ![p] = File(Updated(own, key, content, refresh))]
    /\ direct' = direct \union {<<p, key>>}
    /\ report' = NoReport
    /\ UNCHANGED <<history, readable, cmd, summary, crashes, strayed, refreshed>>

Update ==
    \E p \in Range(Cohort), content \in Contents, refresh \in BOOLEAN :
        \E key \in Range(Tracked[p]) \X (1..MaxDate) :
            \/ UpdateHistory(key, content, refresh)
            \/ UpdateCache(p, key, content, refresh)

-----------------------------------------------------------------------------

\* The process dies; in the middle of the write the history may be left as it was, as
\* it should be, or unreadable (ReadersSeeTheLastUpdate of HoldingsHistory: a backfill
\* replaces nothing).
Crash ==
    /\ cmd.pc # "idle" /\ crashes < MaxCrashes                \* bound
    /\ crashes' = crashes + 1
    /\ cmd' = Idle
    /\ \/ UNCHANGED <<history, readable, cache>>
       \/ /\ cmd.pc = "reconcile" /\ cmd.create
          /\ Slice(cmd.stored, Provider) # << >> /\ cache[Provider] = Missing
          /\ cache' = [cache EXCEPT ![Provider] = Unreadable]
          /\ UNCHANGED <<history, readable>>
       \/ /\ UNCHANGED cache
          /\ cmd.pc = "fetch" /\ cmd.requests = {} /\ cmd.staged # history
          /\ \/ history' = cmd.staged /\ UNCHANGED readable
             \/ readable' = FALSE /\ UNCHANGED history
    /\ UNCHANGED <<summary, report, faults, observed>>

Step == Read \/ FetchAsked \/ FetchFault \/ Write \/ Judge \/ ReconcileProvider
Next ==
    \/ Start
    \/ \E create \in BOOLEAN : Reconcile(create)
    \/ Update
    \/ Step
    \/ Crash

Spec == Init /\ [][Next]_vars

\* A command that runs goes on, and the operator runs the backfill again and again.
FairSpec == Spec /\ SF_vars(Start) /\ WF_vars(Step)

-----------------------------------------------------------------------------
(* Properties *)

\* What the backfill has in memory and on disk; a target is tried three times at most.
TypeOK ==
    /\ DOMAIN history \subseteq Etfs \X Dates
    /\ history \in [DOMAIN history -> Contents]
    /\ readable \in BOOLEAN
    /\ \A p \in Range(Cohort) : cache[p] \in {Missing, Unreadable} \/ cache[p].is = "file"
    /\ DOMAIN report \in {{}, DOMAIN Cohort}
    /\ cmd.pc \in {"idle", "read", "fetch", "judge", "reconcile"}
    /\ cmd.turn \in DOMAIN Cohort
    /\ cmd.requests \subseteq [etf : Etfs, date : Dates]
    /\ cmd.attempts \in 0..BlockedRetries
    /\ summary \in [bulk : BOOLEAN, completed : BOOLEAN]
    /\ faults \in 0..MaxFaults /\ crashes \in 0..MaxCrashes
    /\ strayed \subseteq Etfs /\ refreshed \subseteq Etfs \X Dates
    /\ direct \subseteq Range(Cohort) \X (Etfs \X Dates)

\* A command writes the first snapshot of an ETF that represents no provider only when
\* the representative of every provider is in the history with rows that the operational
\* copy confirms, whatever went wrong in the runs before and whatever updates replaced
\* (run_live_baseline_backfill's gate; an update has none).
BulkRestsOnAgreement ==
    [][ (/\ cmd.pc = "fetch"
         /\ \E k \in DOMAIN history' \ DOMAIN history :
               \A p \in Range(Cohort) : k[1] # Representative(p)) =>
        \A p \in Range(Cohort) : \E d \in Operational[Representative(p)] :
            /\ <<Representative(p), d>> \in DOMAIN history
            /\ history[<<Representative(p), d>>] \in Confirmed ]_vars

\* A backfill that reports the bulk run completed leaves every ETF with its comparison
\* window in the history, save those that the provider answered with another date than
\* the one asked for (bulk_completed, and what was written).
CompletedMeansReady ==
    summary.completed /\ cmd.pc = "idle" =>
        \A p \in Range(Cohort) : \A e \in Range(Tracked[p]) :
            e \in strayed \/ (Window(history, p, e) # {} /\ MissingDates(history, p, e) = {})

\* What a reconciliation reports is so, and has a cause: a history it matched or wrote is
\* exactly the canonical history's part, a snapshot too many was written to it by an
\* update, and one that changed was written by an update or replaced in the canonical
\* history by one that was told to (provider_history_reconciliation.py; backfills add and
\* reconciliations create, neither ever replaces a snapshot).
MismatchesHaveACause ==
    \A i \in DOMAIN report :
        LET p == Cohort[i] IN
        /\ report[i].status \in {"matched", "written"} => cache[p] = File(Slice(history, p))
        /\ report[i].extra \subseteq {k \in Etfs \X Dates : <<p, k>> \in direct}
        /\ report[i].changed \subseteq
             {k \in Etfs \X Dates : <<p, k>> \in direct \/ k \in refreshed}

\* The stored rows of a representative that no run can get past: they are not those that
\* its provider serves now, so every run asks for a refresh, which the backfill cannot do,
\* even where the operational copy confirms both.
Rejected ==
    \E p \in Range(Cohort) :
        LET k == <<Representative(p), Max(Operational[Representative(p)])>>
        IN k \in DOMAIN history /\ history[k] # "current"

\* Once every provider serves the dates that it is asked for, with rows that the
\* operational copy confirms, repeated backfills make every window complete, unless the
\* history became unreadable or holds a rejected representative.
BackfillConverges == <>[](~readable \/ Rejected \/ ReadyForExport(history))

=============================================================================
