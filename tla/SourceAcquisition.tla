-------------------------- MODULE SourceAcquisition --------------------------
(***************************************************************************)
(* `update-holdings-history-source` (adapters/source_acquisition.py): one  *)
(* run asks a SourceProvider for the holdings of some ETFs at one date,    *)
(* skipping ETFs in cooldown and snapshots it already has, and then writes *)
(* the history, the retry state (source_retry_state.json) and the summary  *)
(* (source_acquisition_summary.json), one after the other.  Runs do not    *)
(* overlap; a run may die at any step.  Reading and writing the history is *)
(* one step each here: HoldingsHistory takes them apart.                   *)
(***************************************************************************)
EXTENDS Integers

CONSTANTS
    Providers,
    Etfs,           \* the active ETFs of the source catalogs
    ProviderOf,     \* whose they are
    MaxDate,        \* bound: observed dates are 1..MaxDate
    Contents,       \* what the rows of a snapshot may be
    Cooldown,       \* DEFAULT_RETRY_COOLDOWN_SECONDS, in ticks of the clock
    MaxClock,       \* bound: the clock
    Failures        \* how a provider may fail

AllFailures == {"blocked", "rate_limited", "timeout", "unavailable", "invalid"}

ASSUME ProviderOfAssumption == ProviderOf \in [Etfs -> Providers]
ASSUME BoundsAssumption == MaxDate \in Nat \ {0} /\ MaxClock \in Nat /\ Cooldown \in Nat \ {0}
ASSUME FailuresAssumption == Failures \subseteq AllFailures

Dates == 1..MaxDate
Snapshots == Etfs \X Dates
Partial(f, S, T) == DOMAIN f \subseteq S /\ f \in [DOMAIN f -> T]
Nothing == << >>
Garbled == [is |-> "garbled"]     \* truncated and not yet written
File(data) == [is |-> "file", data |-> data]
Put(f, x, v) == [y \in DOMAIN f \union {x} |-> IF y = x THEN v ELSE f[y]]
Drop(f, x) == [y \in DOMAIN f \ {x} |-> f[y]]

VARIABLES
    clock,
    history,     \* the holdings history: a partial function from Snapshots
    retry,       \* the retry state: the cooldowns of some ETFs
    summary,     \* the summary: the target outcomes of each provider's last run
    run,         \* the run in progress
    refusedAt,   \* observation: when the run started that last saw an ETF refused
    lost         \* observation: how the run ended that last saw it refused

vars == <<clock, history, retry, summary, run, refusedAt, lost>>
files == <<history, retry, summary>>

Never == -1
Phases == {"idle", "targets", "history", "open_retry", "write_retry", "open_summary",
           "write_summary"}

\* todo, date and refresh come from the arguments; next, cooldowns and outcomes are
\* what will be written; doc is the summary about to be; answers and asked are
\* observations: what the provider answered with, and for which ETFs it was asked.
Idle == [pc |-> "idle", provider |-> CHOOSE p \in Providers : TRUE, todo |-> {}, date |-> 0,
         refresh |-> {}, started |-> 0, next |-> Nothing, cooldowns |-> Nothing,
         outcomes |-> Nothing, selected |-> {}, latch |-> "none", doc |-> Nothing,
         answers |-> {}, asked |-> {}]

Init ==
    /\ clock = 0
    /\ history = Nothing
    /\ retry = File(Nothing)      \* no file: no cooldowns
    /\ summary = File(Nothing)    \* no file: no provider's outcomes
    /\ run = Idle
    /\ refusedAt = [e \in Etfs |-> Never]
    /\ lost = [e \in Etfs |-> "no"]

-----------------------------------------------------------------------------
(* What a run decides *)

\* Mutant: a cooldown ends one tick early.
CoolingUntilBefore(e) ==
    e \in DOMAIN retry.data /\ retry.data[e].until > run.started + 1

\* _target_retry_plan: the cooldown is compared with the time the run started.
Cooling(e) == e \in DOMAIN retry.data /\ retry.data[e].until > run.started

\* _existing_exact_snapshot_rows: only the date asked for is looked up.
Existing(e) == <<e, run.date>> \in DOMAIN history \ run.refresh

\* The provider is to be asked about e.
Wanted(e) == run.pc = "targets" /\ e \in run.todo /\ ~Cooling(e) /\ ~Existing(e)

\* Mutant: other rows than the stored ones are taken for a new snapshot.
OutcomeOfRowsOverwrites(s, rows) ==
    IF s \in DOMAIN history /\ history[s] = rows THEN "skipped_existing" ELSE "fetched"

\* _apply_source_fetch_result, for an answer with rows.
OutcomeOfRows(s, rows) ==
    CASE s \notin DOMAIN history -> "fetched"
      [] s \in DOMAIN history /\ history[s] = rows -> "skipped_existing"
      [] s \in DOMAIN history /\ history[s] # rows /\ s \in run.refresh -> "refreshed"
      [] OTHER -> "refresh_required"

\* The failure class of an answer without rows; a timeout is called rate-limited.
Reason(failure) == IF failure = "timeout" THEN "rate_limited" ELSE failure
Refusals == {"blocked", "rate_limited"}

\* Every failure starts a cooldown, except that the provider cannot be reached.
StartsCooldown(reason) == reason # "unavailable"

\* Mutant: the cooldown is over when the run starts.
CooldownItemWithoutDelay(reason) == [until |-> run.started, reason |-> reason]

\* _cooldown_retry_state_item: from the start of the run.
CooldownItem(reason) == [until |-> run.started + Cooldown, reason |-> reason]

\* The ETFs that have just been refused.
Refused(r) == {e \in DOMAIN r.outcomes : r.outcomes[e].is \in Refusals}

\* The run is over before it has written what it knows of its refusals.
Lose(how) == lost' = [e \in Etfs |-> IF e \in Refused(run) THEN how ELSE lost[e]]

-----------------------------------------------------------------------------
(* The steps of a run *)

\* A retry state that is not JSON stops every run at its start.
Start(provider, targets, date, refresh) ==
    /\ run.pc = "idle"
    /\ retry # Garbled
    /\ run' = [Idle EXCEPT !.pc = "targets", !.provider = provider, !.todo = targets,
                           !.date = date, !.refresh = refresh, !.started = clock,
                           !.next = history, !.cooldowns = retry.data]
    /\ UNCHANGED <<clock, files, refusedAt, lost>>

SkipCooling(e) ==
    /\ run.pc = "targets" /\ e \in run.todo
    /\ Cooling(e)
    /\ run' = [run EXCEPT !.todo = @ \ {e},
                          !.outcomes = Put(@, e, [is |-> "retry_cooldown", date |-> 0])]
    /\ UNCHANGED <<clock, files, refusedAt, lost>>

SkipExisting(e) ==
    /\ run.pc = "targets" /\ e \in run.todo
    /\ ~Cooling(e) /\ Existing(e)
    /\ run' = [run EXCEPT !.todo = @ \ {e},
                          !.outcomes = Put(@, e, [is |-> "skipped_existing", date |-> run.date]),
                          !.selected = @ \union {<<e, run.date>>},
                          !.cooldowns = Drop(@, e)]
    /\ UNCHANGED <<clock, files, refusedAt, lost>>

\* The provider answers with the holdings at some date, often not the one asked for.
AnswerWithRows(e, date, rows) ==
    LET s == <<e, date>>
        outcome == OutcomeOfRows(s, rows)
    IN
    /\ Wanted(e) /\ run.latch = "none"
    /\ run' = [run EXCEPT
           !.todo = @ \ {e},
           !.outcomes = Put(@, e, [is |-> IF outcome = "refreshed" THEN "fetched" ELSE outcome,
                                   date |-> date]),
           !.selected = @ \union {s},
           !.next = IF outcome \in {"fetched", "refreshed"} THEN Put(@, s, rows) ELSE @,
           !.cooldowns = CASE outcome \in {"fetched", "skipped_existing"} -> Drop(@, e)
                           [] outcome = "refresh_required" -> Put(@, e, CooldownItem(outcome))
                           [] outcome = "refreshed" -> @,
           !.answers = @ \union {<<s, rows, s \in run.refresh>>},
           !.asked = @ \union {e}]
    /\ UNCHANGED <<clock, files, refusedAt, lost>>

\* A failed request; or none at all, once the host has blocked or rate-limited this
\* process (_http_get_json's blocked_hosts, which a timeout does not enter).
FailedAnswer(e, failure) ==
    LET reason == Reason(failure) IN
    /\ Wanted(e)
    /\ run.latch # "none" => failure = run.latch
    /\ run' = [run EXCEPT
           !.todo = @ \ {e},
           !.outcomes = Put(@, e, [is |-> reason, date |-> 0]),
           !.latch = IF failure \in Refusals THEN failure ELSE @,
           !.cooldowns = IF StartsCooldown(reason) THEN Put(@, e, CooldownItem(reason)) ELSE @,
           !.asked = IF run.latch = "none" THEN @ \union {e} ELSE @]
    /\ refusedAt' = IF reason \in Refusals THEN [refusedAt EXCEPT ![e] = run.started]
                    ELSE refusedAt
    /\ lost' = IF reason \in Refusals THEN [lost EXCEPT ![e] = "no"] ELSE lost
    /\ UNCHANGED <<clock, files>>

\* A row without a field, or of another identity, is an error that ends the run.
MalformedAnswer(e) ==
    /\ Wanted(e) /\ run.latch = "none"
    /\ run' = Idle
    /\ Lose("failed")
    /\ UNCHANGED <<clock, files, refusedAt>>

\* A refresh that no target came to is an error, and nothing is written.
FinishTargets ==
    /\ run.pc = "targets" /\ run.todo = {}
    /\ IF run.refresh \subseteq run.selected
       THEN run' = [run EXCEPT !.pc = "history"] /\ UNCHANGED lost
       ELSE run' = Idle /\ Lose("failed")
    /\ UNCHANGED <<clock, files, refusedAt>>

\* Mutant: only the partition of the date asked for is written.
WriteHistoryOfDateAskedFor ==
    /\ run.pc = "history"
    /\ history' = [s \in DOMAIN history \union {q \in DOMAIN run.next : q[2] = run.date} |->
                      run.next[s]]
    /\ run' = [run EXCEPT !.pc = "open_summary"]
    /\ UNCHANGED <<clock, retry, summary, refusedAt, lost>>

\* The history is written if a snapshot is new or refreshed, the retry state if a
\* cooldown has changed, the summary always.  (What the run needs no more is cleared.)
WriteHistory ==
    /\ run.pc = "history"
    /\ history' = run.next
    /\ run' = [run EXCEPT
           !.pc = IF run.cooldowns = retry.data THEN "open_summary" ELSE "open_retry",
           !.next = Nothing, !.answers = {}, !.asked = {}, !.selected = {}]
    /\ UNCHANGED <<clock, retry, summary, refusedAt, lost>>

OpenRetry ==
    /\ run.pc = "open_retry"
    /\ retry' = Garbled
    /\ run' = [run EXCEPT !.pc = "write_retry"]
    /\ UNCHANGED <<clock, history, summary, refusedAt, lost>>

WriteRetry ==
    /\ run.pc = "write_retry"
    /\ retry' = File(run.cooldowns)
    /\ run' = [run EXCEPT !.pc = "open_summary"]
    /\ UNCHANGED <<clock, history, summary, refusedAt, lost>>

\* The outcomes of the other providers are kept, unless the summary is unreadable.
OpenSummary ==
    LET existing == IF summary = Garbled THEN Nothing ELSE summary.data IN
    /\ run.pc = "open_summary"
    /\ summary' = Garbled
    /\ run' = [run EXCEPT !.pc = "write_summary",
                          !.doc = Put(existing, run.provider, run.outcomes)]
    /\ UNCHANGED <<clock, history, retry, refusedAt, lost>>

WriteSummary ==
    /\ run.pc = "write_summary"
    /\ summary' = File(run.doc)
    /\ run' = Idle
    /\ UNCHANGED <<clock, history, retry, refusedAt, lost>>

\* The process dies; what it wrote stays.
Crash ==
    /\ run.pc # "idle"
    /\ run' = Idle
    /\ IF run.pc \in {"open_summary", "write_summary"} THEN UNCHANGED lost ELSE Lose("crashed")
    /\ UNCHANGED <<clock, files, refusedAt>>

Tick ==
    /\ clock < MaxClock
    /\ clock' = clock + 1
    /\ UNCHANGED <<files, run, refusedAt, lost>>

\* --refresh names at most one snapshot here (bound), of any ETF and any date.
Refreshes == {{}} \union {{s} : s \in Snapshots}

Next ==
    \/ \E p \in Providers, date \in Dates, refresh \in Refreshes :
         \E targets \in (SUBSET {e \in Etfs : ProviderOf[e] = p}) \ {{}} :
            Start(p, targets, date, refresh)
    \/ \E e \in Etfs :
         \/ SkipCooling(e) \/ SkipExisting(e) \/ MalformedAnswer(e)
         \/ \E date \in Dates, rows \in Contents : AnswerWithRows(e, date, rows)
         \/ \E failure \in Failures : FailedAnswer(e, failure)
    \/ FinishTargets \/ WriteHistory \/ OpenRetry \/ WriteRetry
    \/ OpenSummary \/ WriteSummary \/ Crash \/ Tick

Spec == Init /\ [][Next]_vars

-----------------------------------------------------------------------------
(* Properties *)

OutcomesOK(o) == \A e \in DOMAIN o : e \in Etfs /\ o[e].date \in 0..MaxDate
CooldownsOK(c) ==
    \A e \in DOMAIN c : e \in Etfs /\ c[e].until \in Cooldown..(MaxClock + Cooldown)

\* The files and the run, with what relates them: what a run is about to write
\* contains the history that it read, and an outcome is of an ETF of the provider.
TypeOK ==
    /\ clock \in 0..MaxClock
    /\ Partial(history, Snapshots, Contents)
    /\ retry # Garbled => CooldownsOK(retry.data)
    /\ summary # Garbled => \A p \in DOMAIN summary.data : OutcomesOK(summary.data[p])
    /\ run.pc \in Phases
    /\ Partial(run.next, Snapshots, Contents)
    /\ run.pc \in {"targets", "history"} => DOMAIN history \subseteq DOMAIN run.next
    /\ run.pc # "idle" =>
         /\ run.started \in 0..clock
         /\ CooldownsOK(run.cooldowns)
         /\ OutcomesOK(run.outcomes)
         /\ \A e \in run.todo \union DOMAIN run.outcomes : ProviderOf[e] = run.provider
    /\ refusedAt \in [Etfs -> Never..MaxClock]
    /\ lost \in [Etfs -> {"no", "failed", "crashed"}]

\* No run loses a snapshot, stores one no provider answered with, or replaces one
\* that was not an explicit refresh (SnapshotStore; _apply_source_fetch_result).
Store == INSTANCE SnapshotStore WITH known <- history, offered <- run.answers
StoreIsKept == Store!Spec

\* A target the summary reports as fetched or skipped as existing has its snapshot in
\* the history, whatever run wrote that part of the summary and whatever died since
\* (_write_source_acquisition_summary, which keeps other providers' results).
SummaryIsTrue ==
    summary # Garbled =>
        \A p \in DOMAIN summary.data : \A e \in DOMAIN summary.data[p] :
            LET o == summary.data[p][e]
            IN o.is \in {"fetched", "skipped_existing"} => <<e, o.date>> \in DOMAIN history

\* A provider is not asked about an ETF again until the cooldown is over that its last
\* refusal started.
MaySuppress(e, excuses) ==
    lost[e] \in excuses \/ refusedAt[e] = Never \/ run.started >= refusedAt[e] + Cooldown

\* LiveRetryCooldown: no ETF is asked about again within the cooldown of a refusal,
\* unless the run that saw the refusal did not come to its end (_target_retry_plan).
CooldownSuppresses ==
    [][\A e \in run'.asked \ run.asked : MaySuppress(e, {"failed", "crashed"})]_vars

=============================================================================
