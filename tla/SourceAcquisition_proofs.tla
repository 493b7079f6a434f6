----------------------- MODULE SourceAcquisition_proofs -----------------------
(***************************************************************************)
(* Theorems about SourceAcquisition, for any providers, ETFs, dates,       *)
(* contents, failures, cooldown and bounds.                                *)
(***************************************************************************)
EXTENDS SourceAcquisition, TLAPS

-----------------------------------------------------------------------------
(* Partial functions and files *)

\* What a value put into a partial function f, or one dropped from it, changes.
IsPut(new, f, x, v) ==
    /\ DOMAIN new = DOMAIN f \union {x} /\ new[x] = v
    /\ \A y \in DOMAIN f : y # x => new[y] = f[y]
IsDrop(new, f, x) ==
    /\ DOMAIN new = DOMAIN f \ {x}
    /\ \A y \in DOMAIN f : y # x => new[y] = f[y]

LEMMA PutValues == \A new, f, x, v : new = Put(f, x, v) => IsPut(new, f, x, v)
BY DEF Put, IsPut

LEMMA DropValues == \A new, f, x : new = Drop(f, x) => IsDrop(new, f, x)
BY DEF Drop, IsDrop

LEMMA PutPartial ==
    ASSUME NEW S, NEW T, NEW f, Partial(f, S, T), NEW x \in S, NEW v \in T
    PROVE  Partial(Put(f, x, v), S, T)
BY DEF Put, Partial

LEMMA NothingPartial ==
    DOMAIN Nothing = {} /\ Partial(Nothing, Snapshots, Contents)
    /\ OutcomesOK(Nothing) /\ CooldownsOK(Nothing)
BY DEF Nothing, Partial, OutcomesOK, CooldownsOK

LEMMA FileData == \A data : File(data).data = data /\ File(data) # Garbled
BY DEF File, Garbled

LEMMA IdleRun ==
    /\ DOMAIN Idle = {"pc", "provider", "todo", "date", "refresh", "started", "next",
                      "cooldowns", "outcomes", "selected", "latch", "doc", "answers", "asked"}
    /\ Idle.pc = "idle" /\ Idle.next = Nothing /\ Idle.outcomes = Nothing
    /\ Idle.cooldowns = Nothing /\ Idle.todo = {} /\ Idle.doc = Nothing
    /\ Idle.answers = {} /\ Idle.asked = {} /\ Idle.refresh = {} /\ Idle.started = 0
    /\ Idle.date = 0
BY DEF Idle

-----------------------------------------------------------------------------
(* Type correctness *)

\* What is about to be a summary has outcomes of ETFs; the rest is about arguments.
RunInv ==
    /\ TypeOK
    /\ DOMAIN run = DOMAIN Idle
    /\ run.todo \subseteq Etfs
    /\ run.date \in 0..MaxDate
    /\ \A p \in DOMAIN run.doc : OutcomesOK(run.doc[p])
    /\ run.answers \subseteq Snapshots \X Contents \X BOOLEAN
    /\ run.todo \intersect DOMAIN run.outcomes = {}
    /\ run.pc \in {"targets", "history", "open_retry"} => retry # Garbled


LEMMA CooldownItemOK ==
    ASSUME RunInv, run.pc # "idle", NEW reason, NEW e \in Etfs, NEW c, CooldownsOK(c),
           NEW new, new = Put(c, e, CooldownItem(reason))
    PROVE  CooldownsOK(new)
<1>1. CooldownItem(reason).until \in Cooldown..(MaxClock + Cooldown)
  BY BoundsAssumption DEF CooldownItem, RunInv, TypeOK
<1>2. IsPut(new, c, e, CooldownItem(reason))
  BY PutValues
<1> QED
  BY <1>1, <1>2 DEF CooldownsOK, IsPut

LEMMA DropOK ==
    ASSUME NEW c, NEW e, CooldownsOK(c), NEW new, new = Drop(c, e)
    PROVE  CooldownsOK(new)
<1>1. IsDrop(new, c, e)
  BY DropValues
<1> QED
  BY <1>1 DEF CooldownsOK, IsDrop

LEMMA OutcomeOK ==
    ASSUME NEW o, OutcomesOK(o), NEW e \in Etfs, NEW out, out.date \in 0..MaxDate,
           NEW new, new = Put(o, e, out)
    PROVE  OutcomesOK(new) /\ DOMAIN new = DOMAIN o \union {e}
<1>1. IsPut(new, o, e, out)
  BY PutValues
<1> QED
  BY <1>1 DEF OutcomesOK, IsPut

LEMMA RunInvInit == Init => RunInv
<1> SUFFICES ASSUME Init PROVE RunInv
  OBVIOUS
<1>1. retry.data = Nothing /\ summary.data = Nothing /\ retry # Garbled
  BY FileData DEF Init
<1>2. DOMAIN Nothing = {} 
  BY NothingPartial
<1>3. CooldownsOK(retry.data) /\ OutcomesOK(run.outcomes) /\ run = Idle
  BY <1>1, NothingPartial, IdleRun DEF Init
<1>4. /\ clock \in 0..MaxClock
      /\ refusedAt \in [Etfs -> Never..MaxClock]
      /\ lost \in [Etfs -> {"no", "failed", "crashed"}]
  BY BoundsAssumption DEF Init, Never
<1>5. Partial(history, Snapshots, Contents) /\ Partial(run.next, Snapshots, Contents)
  BY <1>3, NothingPartial, IdleRun DEF Init
<1>6. \A p \in DOMAIN summary.data : OutcomesOK(summary.data[p])
  BY <1>1, <1>2
<1>7. TypeOK
  BY <1>1, <1>3, <1>4, <1>5, <1>6, IdleRun DEF TypeOK, Phases
<1>8. \A p \in DOMAIN run.doc : OutcomesOK(run.doc[p])
  BY <1>2, <1>3, IdleRun
<1> QED
  BY <1>1, <1>3, <1>7, <1>8, IdleRun, BoundsAssumption DEF RunInv

\* Where a run ends, by itself or not, nothing of it remains.
LEMMA EndedRun ==
    ASSUME RunInv, run' = Idle, UNCHANGED clock,
           Partial(history', Snapshots, Contents),
           retry' # Garbled => CooldownsOK(retry'.data),
           summary' # Garbled => \A p \in DOMAIN summary'.data : OutcomesOK(summary'.data[p]),
           refusedAt' \in [Etfs -> Never..MaxClock],
           lost' \in [Etfs -> {"no", "failed", "crashed"}]
    PROVE  RunInv'
<1>1. /\ run'.pc = "idle" /\ run'.todo = {} /\ DOMAIN run'.outcomes = {}
      /\ Partial(run'.next, Snapshots, Contents) /\ DOMAIN run'.doc = {}
      /\ run'.answers = {} /\ run'.date = 0 /\ DOMAIN run' = DOMAIN Idle
  BY IdleRun, NothingPartial
<1>2. TypeOK'
  BY <1>1 DEF RunInv, TypeOK, Phases
<1> QED
  BY <1>1, <1>2, BoundsAssumption DEF RunInv

LEMMA LoseType ==
    ASSUME TypeOK, NEW how \in {"failed", "crashed"}, Lose(how)
    PROVE  lost' \in [Etfs -> {"no", "failed", "crashed"}]
BY DEF Lose, TypeOK

-----------------------------------------------------------------------------
(* What each action changes of the run *)

KeptFiles == UNCHANGED <<history, retry, summary>>
Observations == <<refusedAt, lost>>
Arguments == <<run.provider, run.date, run.refresh, run.started>>

LEMMA StartEffect ==
    ASSUME NEW p, NEW targets, NEW date, NEW refresh, Start(p, targets, date, refresh)
    PROVE  /\ run.pc = "idle" /\ retry # Garbled
           /\ DOMAIN run' = DOMAIN Idle /\ run'.pc = "targets" /\ run'.provider = p
           /\ run'.todo = targets /\ run'.date = date /\ run'.started = clock
           /\ run'.next = history /\ run'.cooldowns = retry.data /\ run'.outcomes = Nothing
           /\ run'.doc = Nothing /\ run'.answers = {} /\ run'.asked = {}
           /\ KeptFiles /\ UNCHANGED clock /\ UNCHANGED Observations
BY IdleRun DEF Start, KeptFiles, Observations, files

LEMMA SkipCoolingEffect ==
    ASSUME RunInv, NEW e, SkipCooling(e)
    PROVE  /\ run.pc = "targets" /\ e \in run.todo
           /\ DOMAIN run' = DOMAIN run /\ run'.pc = "targets" /\ run'.todo = run.todo \ {e}
           /\ run'.outcomes = Put(run.outcomes, e, [is |-> "retry_cooldown", date |-> 0])
           /\ UNCHANGED <<run.next, run.cooldowns, run.doc, run.answers, run.asked>>
           /\ UNCHANGED Arguments
           /\ KeptFiles /\ UNCHANGED clock /\ UNCHANGED Observations
BY IdleRun DEF SkipCooling, RunInv, Arguments, KeptFiles, Observations, files

LEMMA SkipExistingEffect ==
    ASSUME RunInv, NEW e, SkipExisting(e)
    PROVE  /\ run.pc = "targets" /\ e \in run.todo /\ ~Cooling(e)
           /\ <<e, run.date>> \in DOMAIN history
           /\ DOMAIN run' = DOMAIN run /\ run'.pc = "targets" /\ run'.todo = run.todo \ {e}
           /\ run'.outcomes = Put(run.outcomes, e, [is |-> "skipped_existing", date |-> run.date])
           /\ run'.cooldowns = Drop(run.cooldowns, e)
           /\ UNCHANGED <<run.next, run.doc, run.answers, run.asked>>
           /\ UNCHANGED Arguments
           /\ KeptFiles /\ UNCHANGED clock /\ UNCHANGED Observations
BY IdleRun DEF SkipExisting, Existing, RunInv, Arguments, KeptFiles, Observations, files

Rows == {"fetched", "skipped_existing", "refreshed", "refresh_required"}

\* What an answer s with rows comes to, and what the run then holds.
LEMMA AnswerEffect ==
    ASSUME RunInv, NEW e, NEW date, NEW rows, AnswerWithRows(e, date, rows),
           NEW s, s = <<e, date>>, NEW outcome, outcome = OutcomeOfRows(s, rows)
    PROVE  /\ run.pc = "targets" /\ e \in run.todo /\ ~Cooling(e)
           /\ outcome \in Rows
           /\ outcome = "fetched" => s \notin DOMAIN history
           /\ outcome # "fetched" => s \in DOMAIN history
           /\ outcome = "refreshed" => s \in run.refresh
           /\ DOMAIN run' = DOMAIN run /\ run'.pc = "targets" /\ run'.todo = run.todo \ {e}
           /\ run'.outcomes =
                Put(run.outcomes, e, [is |-> IF outcome = "refreshed" THEN "fetched" ELSE outcome,
                                      date |-> date])
           /\ run'.next = IF outcome \in {"fetched", "refreshed"} THEN Put(run.next, s, rows)
                          ELSE run.next
           /\ outcome \in {"fetched", "skipped_existing"} =>
                run'.cooldowns = Drop(run.cooldowns, e)
           /\ outcome = "refresh_required" =>
                run'.cooldowns = Put(run.cooldowns, e, CooldownItem(outcome))
           /\ outcome = "refreshed" => run'.cooldowns = run.cooldowns
           /\ run'.answers = run.answers \union {<<s, rows, s \in run.refresh>>}
           /\ run'.asked = run.asked \union {e}
           /\ UNCHANGED <<run.doc>> /\ UNCHANGED Arguments
           /\ KeptFiles /\ UNCHANGED clock /\ UNCHANGED Observations
<1>1. /\ outcome \in Rows
      /\ outcome = "fetched" => s \notin DOMAIN history
      /\ outcome # "fetched" => s \in DOMAIN history
      /\ outcome = "refreshed" => s \in run.refresh
  BY DEF OutcomeOfRows, Rows
<1>2. /\ Wanted(e)
      /\ run' = [run EXCEPT
           !.todo = @ \ {e},
           !.outcomes = Put(@, e, [is |-> IF outcome = "refreshed" THEN "fetched" ELSE outcome,
                                   date |-> date]),
           !.selected = @ \union {s},
           !.next = IF outcome \in {"fetched", "refreshed"} THEN Put(@, s, rows) ELSE @,
           !.cooldowns = CASE outcome \in {"fetched", "skipped_existing"} -> Drop(@, e)
                           [] outcome = "refresh_required" -> Put(@, e, CooldownItem(outcome))
                           [] outcome = "refreshed" -> @,
           !.answers = @ \union {<<s, rows, s \in run.refresh>>},
           !.asked = @ \union {e}]
      /\ UNCHANGED <<clock, files, refusedAt, lost>>
  BY DEF AnswerWithRows
<1> QED
  BY <1>1, <1>2, IdleRun DEF Wanted, RunInv, Arguments, KeptFiles, Observations, files

LEMMA FailedEffect ==
    ASSUME RunInv, NEW e \in Etfs, NEW failure, FailedAnswer(e, failure),
           NEW reason, reason = Reason(failure)
    PROVE  /\ run.pc = "targets" /\ e \in run.todo /\ ~Cooling(e)
           /\ DOMAIN run' = DOMAIN run /\ run'.pc = "targets" /\ run'.todo = run.todo \ {e}
           /\ run'.outcomes = Put(run.outcomes, e, [is |-> reason, date |-> 0])
           /\ run'.cooldowns = IF StartsCooldown(reason)
                               THEN Put(run.cooldowns, e, CooldownItem(reason)) ELSE run.cooldowns
           /\ run'.asked \subseteq run.asked \union {e}
           /\ UNCHANGED <<run.next, run.doc, run.answers>> /\ UNCHANGED Arguments
           /\ KeptFiles /\ UNCHANGED clock
           /\ refusedAt' = IF reason \in Refusals THEN [refusedAt EXCEPT ![e] = run.started]
                           ELSE refusedAt
           /\ lost' = IF reason \in Refusals THEN [lost EXCEPT ![e] = "no"] ELSE lost
BY IdleRun DEF FailedAnswer, Wanted, RunInv, Arguments, KeptFiles, files

LEMMA MalformedEffect ==
    ASSUME NEW e, MalformedAnswer(e)
    PROVE  /\ run.pc = "targets" /\ run' = Idle /\ Lose("failed")
           /\ KeptFiles /\ UNCHANGED clock /\ UNCHANGED refusedAt
BY DEF MalformedAnswer, Wanted, KeptFiles, files

LEMMA FinishEffect ==
    ASSUME RunInv, FinishTargets
    PROVE  /\ run.pc = "targets" /\ KeptFiles /\ UNCHANGED clock /\ UNCHANGED refusedAt
           /\ \/ /\ DOMAIN run' = DOMAIN run /\ run'.pc = "history" /\ UNCHANGED lost
                 /\ UNCHANGED <<run.todo, run.next, run.cooldowns, run.outcomes, run.doc,
                                run.answers, run.asked>>
                 /\ UNCHANGED Arguments
              \/ run' = Idle /\ Lose("failed")
<1>1. CASE run.refresh \subseteq run.selected
  <2>1. run' = [run EXCEPT !.pc = "history"] /\ UNCHANGED lost /\ run.pc = "targets"
        /\ UNCHANGED <<clock, files, refusedAt>>
    BY <1>1 DEF FinishTargets
  <2> QED
    BY <2>1, IdleRun DEF RunInv, Arguments, KeptFiles, files
<1>2. CASE ~(run.refresh \subseteq run.selected)
  BY <1>2 DEF FinishTargets, KeptFiles, files
<1> QED
  BY <1>1, <1>2

LEMMA WriteHistoryEffect ==
    ASSUME RunInv, WriteHistory
    PROVE  /\ run.pc = "history" /\ DOMAIN run' = DOMAIN run
           /\ \/ run'.pc = "open_retry"
              \/ run'.pc = "open_summary" /\ run.cooldowns = retry.data
           /\ history' = run.next /\ run'.next = Nothing
           /\ run'.answers = {} /\ run'.asked = {}
           /\ UNCHANGED <<run.todo, run.cooldowns, run.outcomes, run.doc>>
           /\ UNCHANGED Arguments
           /\ UNCHANGED <<retry, summary>> /\ UNCHANGED clock /\ UNCHANGED Observations
BY IdleRun DEF WriteHistory, RunInv, Arguments, Observations

LEMMA OpenRetryEffect ==
    ASSUME RunInv, OpenRetry
    PROVE  /\ run.pc = "open_retry" /\ DOMAIN run' = DOMAIN run /\ run'.pc = "write_retry"
           /\ retry' = Garbled
           /\ UNCHANGED <<run.todo, run.next, run.cooldowns, run.outcomes, run.doc, run.answers,
                          run.asked>>
           /\ UNCHANGED Arguments
           /\ UNCHANGED <<history, summary>> /\ UNCHANGED clock /\ UNCHANGED Observations
BY IdleRun DEF OpenRetry, RunInv, Arguments, Observations

LEMMA WriteRetryEffect ==
    ASSUME RunInv, WriteRetry
    PROVE  /\ run.pc = "write_retry" /\ DOMAIN run' = DOMAIN run /\ run'.pc = "open_summary"
           /\ retry'.data = run.cooldowns
           /\ UNCHANGED <<run.todo, run.next, run.cooldowns, run.outcomes, run.doc, run.answers,
                          run.asked>>
           /\ UNCHANGED Arguments
           /\ UNCHANGED <<history, summary>> /\ UNCHANGED clock /\ UNCHANGED Observations
BY IdleRun, FileData DEF WriteRetry, RunInv, Arguments, Observations

LEMMA OpenSummaryEffect ==
    ASSUME RunInv, OpenSummary,
           NEW existing, existing = IF summary = Garbled THEN Nothing ELSE summary.data
    PROVE  /\ run.pc = "open_summary" /\ DOMAIN run' = DOMAIN run /\ run'.pc = "write_summary"
           /\ summary' = Garbled
           /\ run'.doc = Put(existing, run.provider, run.outcomes)
           /\ UNCHANGED <<run.todo, run.next, run.cooldowns, run.outcomes, run.answers, run.asked>>
           /\ UNCHANGED Arguments
           /\ UNCHANGED <<history, retry>> /\ UNCHANGED clock /\ UNCHANGED Observations
BY IdleRun DEF OpenSummary, RunInv, Arguments, Observations

LEMMA WriteSummaryEffect ==
    ASSUME WriteSummary
    PROVE  /\ run.pc = "write_summary" /\ run' = Idle /\ summary'.data = run.doc
           /\ UNCHANGED <<history, retry>> /\ UNCHANGED clock /\ UNCHANGED Observations
BY FileData DEF WriteSummary, Observations

LEMMA CrashEffect ==
    ASSUME Crash
    PROVE  /\ run.pc # "idle" /\ run' = Idle
           /\ \/ run.pc \in {"open_summary", "write_summary"} /\ UNCHANGED lost
              \/ Lose("crashed")
           /\ KeptFiles /\ UNCHANGED clock /\ UNCHANGED refusedAt
BY DEF Crash, KeptFiles, files

LEMMA TickEffect ==
    ASSUME Tick \/ UNCHANGED vars
    PROVE  /\ clock' = clock \/ (clock < MaxClock /\ clock' = clock + 1)
           /\ KeptFiles /\ UNCHANGED run /\ UNCHANGED Observations
BY DEF Tick, vars, KeptFiles, Observations, files

-----------------------------------------------------------------------------
(* Type correctness, step by step *)

\* A target has been dealt with: the run has one less to do and one more outcome.
LEMMA TargetDone ==
    ASSUME RunInv, run.pc = "targets", NEW e \in run.todo,
           DOMAIN run' = DOMAIN run, run'.pc = "targets", run'.todo = run.todo \ {e},
           KeptFiles, UNCHANGED clock, UNCHANGED Arguments, UNCHANGED run.doc,
           NEW out, out.date \in 0..MaxDate, run'.outcomes = Put(run.outcomes, e, out),
           CooldownsOK(run'.cooldowns),
           Partial(run'.next, Snapshots, Contents), DOMAIN run.next \subseteq DOMAIN run'.next,
           run'.answers \subseteq Snapshots \X Contents \X BOOLEAN,
           refusedAt' \in [Etfs -> Never..MaxClock],
           lost' \in [Etfs -> {"no", "failed", "crashed"}]
    PROVE  RunInv'
<1>1. e \in Etfs /\ OutcomesOK(run.outcomes)
  BY DEF RunInv, TypeOK
<1>2. OutcomesOK(run'.outcomes) /\ DOMAIN run'.outcomes = DOMAIN run.outcomes \union {e}
  <2> DEFINE old == run.outcomes
             new == run'.outcomes
  <2>1. OutcomesOK(old) /\ out.date \in 0..MaxDate /\ new = Put(old, e, out)
    BY <1>1
  <2> HIDE DEF old, new
  <2>2. OutcomesOK(new) /\ DOMAIN new = DOMAIN old \union {e}
    BY ONLY <1>1, <2>1, OutcomeOK
  <2> QED
    BY <2>2 DEF old, new
<1>3. TypeOK'
  BY <1>2 DEF RunInv, TypeOK, Phases, KeptFiles, Arguments
<1> QED
  BY <1>2, <1>3 DEF RunInv, KeptFiles, Arguments

\* A later phase of a run.
LEMMA LaterPhase ==
    ASSUME RunInv, run.pc # "idle", DOMAIN run' = DOMAIN run,
           run'.pc \in Phases \ {"idle", "targets"},
           run'.pc = "history" => DOMAIN history' \subseteq DOMAIN run'.next,
           UNCHANGED clock, UNCHANGED Arguments,
           UNCHANGED <<run.todo, run.cooldowns, run.outcomes>>,
           Partial(history', Snapshots, Contents), Partial(run'.next, Snapshots, Contents),
           retry' # Garbled => CooldownsOK(retry'.data),
           run'.pc \in {"history", "open_retry"} => retry' # Garbled,
           summary' # Garbled => \A p \in DOMAIN summary'.data : OutcomesOK(summary'.data[p]),
           \A p \in DOMAIN run'.doc : OutcomesOK(run'.doc[p]),
           run'.answers \subseteq run.answers,
           UNCHANGED Observations
    PROVE  RunInv'
<1>1. TypeOK'
  BY DEF RunInv, TypeOK, Arguments, Observations
<1> QED
  BY <1>1 DEF RunInv, Arguments

LEMMA RunInvStep == RunInv /\ [Next]_vars => RunInv'
<1> SUFFICES ASSUME RunInv, [Next]_vars PROVE RunInv'
  OBVIOUS
<1>0. /\ refusedAt \in [Etfs -> Never..MaxClock]
      /\ lost \in [Etfs -> {"no", "failed", "crashed"}]
      /\ run.pc # "idle" => CooldownsOK(run.cooldowns)
      /\ Partial(run.next, Snapshots, Contents)
      /\ run.answers \subseteq Snapshots \X Contents \X BOOLEAN
      /\ 0 \in 0..MaxDate
  BY BoundsAssumption DEF RunInv, TypeOK
<1>1. ASSUME NEW p \in Providers, NEW date \in Dates, NEW refresh \in Refreshes,
             NEW targets \in (SUBSET {e \in Etfs : ProviderOf[e] = p}) \ {{}},
             Start(p, targets, date, refresh)
      PROVE  RunInv'
  <2>1. /\ retry # Garbled
        /\ DOMAIN run' = DOMAIN Idle /\ run'.pc = "targets" /\ run'.provider = p
        /\ run'.todo = targets /\ run'.date = date /\ run'.started = clock
        /\ run'.next = history /\ run'.cooldowns = retry.data /\ run'.outcomes = Nothing
        /\ run'.doc = Nothing /\ run'.answers = {}
        /\ KeptFiles /\ UNCHANGED clock /\ UNCHANGED Observations
    BY <1>1, StartEffect
  <2>2. date \in 0..MaxDate /\ clock \in 0..clock
    BY BoundsAssumption DEF Dates, RunInv, TypeOK
  <2>3. targets \subseteq Etfs /\ \A e \in targets : ProviderOf[e] = p
    OBVIOUS
  <2>4. DOMAIN run'.outcomes = {} /\ DOMAIN run'.doc = {} /\ OutcomesOK(run'.outcomes)
    BY <2>1, NothingPartial
  <2>5. TypeOK'
    BY <2>1, <2>2, <2>3, <2>4 DEF RunInv, TypeOK, Phases, KeptFiles, Observations
  <2> QED
    BY <2>1, <2>2, <2>3, <2>4, <2>5 DEF RunInv, KeptFiles
<1>2. ASSUME NEW e \in Etfs, SkipCooling(e) PROVE RunInv'
  <2> DEFINE out == [is |-> "retry_cooldown", date |-> 0]
  <2>1. /\ run.pc = "targets" /\ e \in run.todo
        /\ DOMAIN run' = DOMAIN run /\ run'.pc = "targets" /\ run'.todo = run.todo \ {e}
        /\ run'.outcomes = Put(run.outcomes, e, out)
        /\ UNCHANGED <<run.next, run.cooldowns, run.doc, run.answers>> /\ UNCHANGED Arguments
        /\ KeptFiles /\ UNCHANGED clock /\ UNCHANGED Observations
    BY <1>2, SkipCoolingEffect
  <2>2. out.date \in 0..MaxDate
    BY <1>0
  <2> HIDE DEF out
  <2> QED
    BY <1>0, <2>1, <2>2, TargetDone DEF Observations
<1>3. ASSUME NEW e \in Etfs, SkipExisting(e) PROVE RunInv'
  <2> DEFINE out == [is |-> "skipped_existing", date |-> run.date]
  <2>1. /\ run.pc = "targets" /\ e \in run.todo
        /\ DOMAIN run' = DOMAIN run /\ run'.pc = "targets" /\ run'.todo = run.todo \ {e}
        /\ run'.outcomes = Put(run.outcomes, e, out)
        /\ run'.cooldowns = Drop(run.cooldowns, e)
        /\ UNCHANGED <<run.next, run.doc, run.answers>> /\ UNCHANGED Arguments
        /\ KeptFiles /\ UNCHANGED clock /\ UNCHANGED Observations
    BY <1>3, SkipExistingEffect
  <2>2. out.date \in 0..MaxDate
    BY DEF RunInv
  <2>3. CooldownsOK(run'.cooldowns)
    BY <1>0, <2>1, DropOK
  <2> HIDE DEF out
  <2> QED
    BY <1>0, <2>1, <2>2, <2>3, TargetDone DEF Observations
<1>4. ASSUME NEW e \in Etfs, MalformedAnswer(e) PROVE RunInv'
  BY <1>4, MalformedEffect, EndedRun, LoseType DEF RunInv, TypeOK, KeptFiles
<1>5. ASSUME NEW e \in Etfs, NEW date \in Dates, NEW rows \in Contents,
             AnswerWithRows(e, date, rows)
      PROVE  RunInv'
  <2> DEFINE s == <<e, date>>
             outcome == OutcomeOfRows(s, rows)
             out == [is |-> IF outcome = "refreshed" THEN "fetched" ELSE outcome, date |-> date]
  <2>1. /\ run.pc = "targets" /\ e \in run.todo
        /\ outcome \in Rows
        /\ DOMAIN run' = DOMAIN run /\ run'.pc = "targets" /\ run'.todo = run.todo \ {e}
        /\ run'.outcomes = Put(run.outcomes, e, out)
        /\ run'.next = IF outcome \in {"fetched", "refreshed"} THEN Put(run.next, s, rows)
                       ELSE run.next
        /\ outcome \in {"fetched", "skipped_existing"} =>
             run'.cooldowns = Drop(run.cooldowns, e)
        /\ outcome = "refresh_required" =>
             run'.cooldowns = Put(run.cooldowns, e, CooldownItem(outcome))
        /\ outcome = "refreshed" => run'.cooldowns = run.cooldowns
        /\ run'.answers = run.answers \union {<<s, rows, s \in run.refresh>>}
        /\ UNCHANGED <<run.doc>> /\ UNCHANGED Arguments
        /\ KeptFiles /\ UNCHANGED clock /\ UNCHANGED Observations
    BY <1>5, AnswerEffect
  <2>2. date \in 0..MaxDate /\ s \in Snapshots /\ out.date = date
    BY BoundsAssumption DEF Dates, Snapshots
  <2> HIDE DEF outcome, s, out
  <2>3. CooldownsOK(run'.cooldowns)
    <3>1. CASE outcome \in {"fetched", "skipped_existing"}
      BY <1>0, <2>1, <3>1, DropOK
    <3>2. CASE outcome = "refresh_required"
      BY <1>0, <2>1, <3>2, CooldownItemOK
    <3>3. CASE outcome = "refreshed"
      BY <1>0, <2>1, <3>3
    <3> QED
      BY <2>1, <3>1, <3>2, <3>3 DEF Rows
  <2>4. Partial(run'.next, Snapshots, Contents) /\ DOMAIN run.next \subseteq DOMAIN run'.next
    <3>1. ASSUME run'.next = Put(run.next, s, rows)
          PROVE  Partial(run'.next, Snapshots, Contents) /\ DOMAIN run.next \subseteq DOMAIN run'.next
      <4>1. Partial(Put(run.next, s, rows), Snapshots, Contents)
        BY <1>0, <2>2, PutPartial
      <4>2. IsPut(run'.next, run.next, s, rows)
        BY <3>1, PutValues
      <4> QED
        BY <3>1, <4>1, <4>2 DEF IsPut
    <3> QED
      BY <1>0, <2>1, <3>1
  <2>5. run'.answers \subseteq Snapshots \X Contents \X BOOLEAN
    <3>1. \A b \in BOOLEAN : <<s, rows, b>> \in Snapshots \X Contents \X BOOLEAN
      BY <2>2
    <3>2. (s \in run.refresh) \in BOOLEAN
      OBVIOUS
    <3> QED
      BY <1>0, <2>1, <3>1, <3>2, Zenon
  <2> QED
    BY <1>0, <2>1, <2>2, <2>3, <2>4, <2>5, TargetDone DEF Observations
<1>6. ASSUME NEW e \in Etfs, NEW failure \in Failures, FailedAnswer(e, failure)
      PROVE  RunInv'
  <2> DEFINE reason == Reason(failure)
             out == [is |-> reason, date |-> 0]
  <2>1. /\ run.pc = "targets" /\ e \in run.todo
        /\ DOMAIN run' = DOMAIN run /\ run'.pc = "targets" /\ run'.todo = run.todo \ {e}
        /\ run'.outcomes = Put(run.outcomes, e, out)
        /\ run'.cooldowns = IF StartsCooldown(reason)
                            THEN Put(run.cooldowns, e, CooldownItem(reason)) ELSE run.cooldowns
        /\ UNCHANGED <<run.next, run.doc, run.answers>> /\ UNCHANGED Arguments
        /\ KeptFiles /\ UNCHANGED clock
        /\ refusedAt' = IF reason \in Refusals THEN [refusedAt EXCEPT ![e] = run.started]
                        ELSE refusedAt
        /\ lost' = IF reason \in Refusals THEN [lost EXCEPT ![e] = "no"] ELSE lost
    BY <1>6, FailedEffect
  <2>2. out.date \in 0..MaxDate
    BY <1>0
  <2> HIDE DEF reason, out
  <2>3. /\ refusedAt' \in [Etfs -> Never..MaxClock]
        /\ lost' \in [Etfs -> {"no", "failed", "crashed"}]
    <3>1. run.started \in Never..MaxClock
      BY <2>1, BoundsAssumption DEF RunInv, TypeOK, Never
    <3> QED
      BY <1>0, <2>1, <3>1
  <2>4. CooldownsOK(run'.cooldowns)
    <3>1. ASSUME run'.cooldowns = Put(run.cooldowns, e, CooldownItem(reason))
          PROVE  CooldownsOK(run'.cooldowns)
      BY <1>0, <2>1, <3>1, CooldownItemOK
    <3> QED
      BY <1>0, <2>1, <3>1
  <2> QED
    BY <1>0, <2>1, <2>2, <2>3, <2>4, TargetDone
<1>7. ASSUME FinishTargets PROVE RunInv'
  <2>1. CASE run' = Idle
    BY <1>7, <2>1, IdleRun, FinishEffect, EndedRun, LoseType DEF RunInv, TypeOK, KeptFiles
  <2>2. CASE run' # Idle
    <3>1. /\ run.pc = "targets" /\ KeptFiles /\ UNCHANGED clock /\ UNCHANGED Observations
          /\ DOMAIN run' = DOMAIN run /\ run'.pc = "history"
          /\ UNCHANGED <<run.todo, run.next, run.cooldowns, run.outcomes, run.doc, run.answers>>
          /\ UNCHANGED Arguments
      BY <1>7, <2>2, FinishEffect DEF Observations
    <3> QED
      BY <1>0, <3>1, LaterPhase DEF RunInv, TypeOK, Phases, KeptFiles
  <2> QED
    BY <2>1, <2>2
<1>8. ASSUME WriteHistory PROVE RunInv'
  <2>1. Partial(Nothing, Snapshots, Contents)
    BY NothingPartial
  <2> QED
    BY <1>0, <1>8, <2>1, WriteHistoryEffect, LaterPhase DEF RunInv, TypeOK, Phases
<1>9. ASSUME OpenRetry PROVE RunInv'
  BY <1>0, <1>9, OpenRetryEffect, LaterPhase DEF RunInv, TypeOK, Phases
<1>10. ASSUME WriteRetry PROVE RunInv'
  BY <1>0, <1>10, WriteRetryEffect, LaterPhase DEF RunInv, TypeOK, Phases
<1>11. ASSUME OpenSummary PROVE RunInv'
  <2> DEFINE existing == IF summary = Garbled THEN Nothing ELSE summary.data
  <2>1. /\ run.pc = "open_summary" /\ DOMAIN run' = DOMAIN run /\ run'.pc = "write_summary"
        /\ summary' = Garbled
        /\ run'.doc = Put(existing, run.provider, run.outcomes)
        /\ UNCHANGED <<run.todo, run.next, run.cooldowns, run.outcomes, run.answers>>
        /\ UNCHANGED Arguments
        /\ UNCHANGED <<history, retry>> /\ UNCHANGED clock /\ UNCHANGED Observations
    BY <1>11, OpenSummaryEffect
  <2>2. OutcomesOK(run.outcomes) /\ \A p \in DOMAIN existing : OutcomesOK(existing[p])
    BY <2>1, NothingPartial DEF RunInv, TypeOK
  <2> HIDE DEF existing
  <2>3. IsPut(run'.doc, existing, run.provider, run.outcomes)
    BY <2>1, PutValues
  <2>4. \A p \in DOMAIN run'.doc : OutcomesOK(run'.doc[p])
    BY <2>2, <2>3 DEF IsPut
  <2> QED
    BY <2>1, <2>4, LaterPhase DEF RunInv, TypeOK, Phases
<1>12. ASSUME WriteSummary PROVE RunInv'
  BY <1>0, <1>12, WriteSummaryEffect, EndedRun DEF RunInv, TypeOK, Observations
<1>13. ASSUME Crash PROVE RunInv'
  <2>1. lost' \in [Etfs -> {"no", "failed", "crashed"}]
    BY <1>13, CrashEffect, LoseType DEF RunInv, TypeOK
  <2> QED
    BY <1>0, <1>13, <2>1, CrashEffect, EndedRun DEF RunInv, TypeOK, KeptFiles
<1>14. ASSUME Tick \/ UNCHANGED vars PROVE RunInv'
  <2>1. KeptFiles /\ UNCHANGED run /\ UNCHANGED Observations
    BY <1>14, TickEffect
  <2>2. clock' \in 0..MaxClock /\ (run.pc # "idle" => run.started \in 0..clock')
    BY <1>14, TickEffect, BoundsAssumption DEF RunInv, TypeOK
  <2> QED
    BY <2>1, <2>2 DEF RunInv, TypeOK, KeptFiles, Observations
<1> QED
  BY <1>1, <1>2, <1>3, <1>4, <1>5, <1>6, <1>7, <1>8, <1>9, <1>10, <1>11, <1>12, <1>13,
     <1>14 DEF Next

LEMMA RunInvariant == Spec => []RunInv
<1>1. RunInv /\ [Next]_vars => RunInv'
  BY RunInvStep
<1> QED
  BY <1>1, RunInvInit, PTL DEF Spec

\* TypeOK for any constants: in particular, while a run collects, what it is about to
\* write as history contains the history, and all its outcomes are of one provider.
THEOREM TypeCorrect == Spec => []TypeOK
<1>1. RunInv => TypeOK
  BY DEF RunInv
<1> QED
  BY <1>1, RunInvariant, PTL

-----------------------------------------------------------------------------
(* The history *)

\* What holds of a stored snapshot that the run is about to write.
Stands(s, rows, h, answers) ==
    \/ s \in DOMAIN h /\ rows = h[s]
    \/ s \in DOMAIN h /\ <<s, rows, TRUE>> \in answers
    \/ s \notin DOMAIN h /\ \E r \in BOOLEAN : <<s, rows, r>> \in answers

\* Each snapshot to be written is the history's, or explained by an answer of the run.
NextExplained ==
    run.pc \in {"targets", "history"} =>
        \A s \in DOMAIN run.next : Stands(s, run.next[s], history, run.answers)

LEMMA NextExplainedStep == RunInv /\ NextExplained /\ [Next]_vars => NextExplained'
<1> SUFFICES ASSUME RunInv, NextExplained, [Next]_vars PROVE NextExplained'
  OBVIOUS
<1>1. ASSUME NEW p \in Providers, NEW date \in Dates, NEW refresh \in Refreshes,
             NEW targets \in (SUBSET {e \in Etfs : ProviderOf[e] = p}) \ {{}},
             Start(p, targets, date, refresh)
      PROVE  NextExplained'
  BY <1>1, StartEffect DEF NextExplained, Stands, KeptFiles
<1>2. ASSUME UNCHANGED <<run.next, run.answers, history>>,
             run'.pc \in {"targets", "history"} => run.pc \in {"targets", "history"}
      PROVE  NextExplained'
  BY <1>2 DEF NextExplained, Stands
<1>3. ASSUME NEW e \in Etfs, NEW date \in Dates, NEW rows \in Contents,
             AnswerWithRows(e, date, rows)
      PROVE  NextExplained'
  <2> DEFINE s == <<e, date>>
             outcome == OutcomeOfRows(s, rows)
  <2>0. /\ run.pc = "targets" /\ UNCHANGED history
        /\ run'.next = IF outcome \in {"fetched", "refreshed"} THEN Put(run.next, s, rows)
                       ELSE run.next
        /\ run'.answers = run.answers \union {<<s, rows, s \in run.refresh>>}
    BY <1>3 DEF AnswerWithRows, Wanted, RunInv, TypeOK, files
  <2>1. /\ outcome \in Rows
        /\ outcome = "fetched" <=> s \notin DOMAIN history
        /\ outcome = "refreshed" => s \in run.refresh
    BY DEF OutcomeOfRows, Rows
  <2> HIDE DEF s, outcome
  <2>2. \A q \in DOMAIN run.next : Stands(q, run.next[q], history, run'.answers)
    BY <2>0, <2>1 DEF NextExplained, Stands
  <2>3. CASE outcome \in {"fetched", "refreshed"}
    <3>1. IsPut(run'.next, run.next, s, rows)
      BY <2>0, <2>1, <2>3, PutValues
    <3>2. Stands(s, rows, history, run'.answers)
      <4>1. <<s, rows, s \in run.refresh>> \in run'.answers /\ (s \in run.refresh) \in BOOLEAN
        BY <2>0, <2>1
      <4>2. CASE outcome = "fetched"
        BY <2>0, <2>1, <4>1, <4>2 DEF Stands
      <4>3. CASE outcome = "refreshed"
        <5>1. s \in run.refresh /\ (s \in run.refresh) = TRUE
          BY <2>0, <2>1, <4>3
        <5>2. <<s, rows, TRUE>> \in run'.answers
          BY <4>1, <5>1, Zenon
        <5> QED
          BY <2>0, <2>1, <4>3, <5>2 DEF Stands
      <4> QED
        BY <2>3, <4>2, <4>3
    <3>3. \A q \in DOMAIN run'.next : Stands(q, run'.next[q], history, run'.answers)
      BY <2>2, <3>1, <3>2 DEF IsPut
    <3> QED
      BY <2>0, <2>1, <3>3 DEF NextExplained
  <2>4. CASE outcome \notin {"fetched", "refreshed"}
    BY <2>0, <2>1, <2>2, <2>4 DEF NextExplained
  <2> QED
    BY <2>3, <2>4
<1>4. ASSUME run'.pc \notin {"targets", "history"} PROVE NextExplained'
  BY <1>4 DEF NextExplained
<1>5. ASSUME NEW e \in Etfs, SkipCooling(e) \/ SkipExisting(e) PROVE NextExplained'
  BY <1>2, <1>5, SkipCoolingEffect, SkipExistingEffect DEF KeptFiles
<1>6. ASSUME NEW e \in Etfs, NEW failure \in Failures, FailedAnswer(e, failure)
      PROVE  NextExplained'
  BY <1>2, <1>6, FailedEffect DEF KeptFiles
<1>7. ASSUME NEW e \in Etfs, MalformedAnswer(e) PROVE NextExplained'
  BY <1>4, <1>7, IdleRun, MalformedEffect
<1>8. ASSUME FinishTargets PROVE NextExplained'
  BY <1>2, <1>4, <1>8, IdleRun, FinishEffect DEF KeptFiles
<1>9. ASSUME WriteHistory \/ OpenRetry \/ WriteRetry \/ OpenSummary \/ WriteSummary \/ Crash
      PROVE  NextExplained'
  BY <1>4, <1>9, IdleRun, WriteHistoryEffect, OpenRetryEffect, WriteRetryEffect,
     OpenSummaryEffect, WriteSummaryEffect, CrashEffect
<1>10. ASSUME Tick \/ UNCHANGED vars PROVE NextExplained'
  BY <1>2, <1>10, TickEffect DEF KeptFiles
<1> QED
  BY <1>1, <1>3, <1>5, <1>6, <1>7, <1>8, <1>9, <1>10 DEF Next

\* Only one step writes the history.
LEMMA HistorySteps ==
    ASSUME RunInv, [Next]_vars
    PROVE  UNCHANGED history \/ (run.pc = "history" /\ history' = run.next)
BY StartEffect, SkipCoolingEffect, SkipExistingEffect, AnswerEffect, FailedEffect,
   MalformedEffect, FinishEffect, WriteHistoryEffect, OpenRetryEffect, WriteRetryEffect,
   OpenSummaryEffect, WriteSummaryEffect, CrashEffect, TickEffect DEF Next, KeptFiles

LEMMA StoreStep ==
    ASSUME RunInv, RunInv', NextExplained, [Next]_vars
    PROVE  [Store!Next]_<<history, run.answers>>
<1>1. run'.answers \subseteq Snapshots \X Contents \X BOOLEAN
  BY DEF RunInv
<1>2. DOMAIN history \subseteq DOMAIN history' /\ DOMAIN history' \subseteq Snapshots
  BY HistorySteps DEF RunInv, TypeOK, Partial
<1>3. \A s \in DOMAIN history' : Stands(s, history'[s], history, run.answers)
  <2>1. CASE UNCHANGED history
    BY <2>1 DEF Stands
  <2>2. CASE run.pc = "history" /\ history' = run.next
    BY <2>2 DEF NextExplained
  <2> QED
    BY <2>1, <2>2, HistorySteps
<1> QED
  BY <1>1, <1>2, <1>3 DEF Store!Next, Store!Explained, Stands

\* An acquisition run implements SnapshotStore: it loses no snapshot, stores none that no
\* provider answered with, and replaces none that was not an explicit refresh
\* (_apply_source_fetch_result).
THEOREM StoreImplemented == Spec => StoreIsKept
<1>1. Init => NextExplained /\ Store!Init
  <2> SUFFICES ASSUME Init PROVE NextExplained /\ Store!Init
    OBVIOUS
  <2>1. run = Idle /\ history = << >>
    BY DEF Init, Nothing
  <2> QED
    BY <2>1, IdleRun DEF NextExplained, Store!Init
<1>2. RunInv /\ RunInv' /\ NextExplained /\ [Next]_vars => NextExplained'
  BY NextExplainedStep
<1>3. RunInv /\ RunInv' /\ NextExplained /\ [Next]_vars => [Store!Next]_<<history, run.answers>>
  BY StoreStep
<1> QED
  BY <1>1, <1>2, <1>3, RunInvariant, PTL DEF Spec, StoreIsKept, Store!Spec

-----------------------------------------------------------------------------
(* The summary *)

\* An outcome that claims a snapshot, and outcomes o that claim only those with a key
\* in the history h.
Claims(out) == out.is \in {"fetched", "skipped_existing"}
AreTrue(o, h) == \A e \in DOMAIN o : Claims(o[e]) => <<e, o[e].date>> \in DOMAIN h

\* What the run will report is true of what it will have written by then.
OutcomesAreTrue ==
    /\ SummaryIsTrue
    /\ run.pc \in {"targets", "history"} => AreTrue(run.outcomes, run.next)
    /\ run.pc \in {"open_retry", "write_retry", "open_summary"} =>
         AreTrue(run.outcomes, history)
    /\ run.pc = "write_summary" => \A p \in DOMAIN run.doc : AreTrue(run.doc[p], history)

LEMMA SummaryClaims ==
    SummaryIsTrue <=>
        (summary # Garbled => \A p \in DOMAIN summary.data : AreTrue(summary.data[p], history))
BY DEF SummaryIsTrue, AreTrue, Claims

\* A target has been dealt with.
LEMMA TargetIsTrue ==
    ASSUME OutcomesAreTrue, run.pc = "targets", run'.pc = "targets", KeptFiles,
           NEW e, NEW out, run'.outcomes = Put(run.outcomes, e, out),
           DOMAIN run.next \subseteq DOMAIN run'.next,
           Claims(out) => <<e, out.date>> \in DOMAIN run'.next
    PROVE  OutcomesAreTrue'
<1> DEFINE next == run'.next
           new == run'.outcomes
           old == run.outcomes
<1>1. /\ AreTrue(old, run.next) /\ new = Put(old, e, out)
      /\ DOMAIN run.next \subseteq DOMAIN next
      /\ Claims(out) => <<e, out.date>> \in DOMAIN next
  BY DEF OutcomesAreTrue
<1> HIDE DEF next, new, old
<1>2. AreTrue(old, next)
  BY <1>1 DEF AreTrue
<1>3. AreTrue(new, next)
  <2>1. IsPut(new, old, e, out)
    BY <1>1, PutValues
  <2> QED
    BY <1>1, <1>2, <2>1 DEF AreTrue, IsPut
<1>4. SummaryIsTrue'
  BY DEF OutcomesAreTrue, SummaryIsTrue, KeptFiles
<1> QED
  BY <1>3, <1>4 DEF OutcomesAreTrue, new, next

LEMMA OutcomesAreTrueStep == RunInv /\ OutcomesAreTrue /\ [Next]_vars => OutcomesAreTrue'
<1> SUFFICES ASSUME RunInv, OutcomesAreTrue, [Next]_vars PROVE OutcomesAreTrue'
  OBVIOUS
<1>0. run.pc = "targets" => DOMAIN history \subseteq DOMAIN run.next
  BY DEF RunInv, TypeOK
<1>1. ASSUME NEW p \in Providers, NEW date \in Dates, NEW refresh \in Refreshes,
             NEW targets \in (SUBSET {e \in Etfs : ProviderOf[e] = p}) \ {{}},
             Start(p, targets, date, refresh)
      PROVE  OutcomesAreTrue'
  <2>1. run'.pc = "targets" /\ run'.outcomes = Nothing /\ KeptFiles
    BY <1>1, StartEffect
  <2>2. AreTrue(run'.outcomes, run'.next)
    BY <2>1, NothingPartial DEF AreTrue
  <2> QED
    BY <2>1, <2>2 DEF OutcomesAreTrue, SummaryIsTrue, KeptFiles
<1>2. ASSUME NEW e \in Etfs, SkipCooling(e) PROVE OutcomesAreTrue'
  <2> DEFINE out == [is |-> "retry_cooldown", date |-> 0]
  <2>1. /\ run.pc = "targets" /\ run'.pc = "targets" /\ KeptFiles
        /\ run'.outcomes = Put(run.outcomes, e, out) /\ run'.next = run.next
    BY <1>2, SkipCoolingEffect
  <2>2. ~Claims(out)
    BY DEF Claims
  <2> HIDE DEF out
  <2> QED
    BY <2>1, <2>2, TargetIsTrue
<1>3. ASSUME NEW e \in Etfs, SkipExisting(e) PROVE OutcomesAreTrue'
  <2> DEFINE out == [is |-> "skipped_existing", date |-> run.date]
  <2>1. /\ run.pc = "targets" /\ run'.pc = "targets" /\ KeptFiles
        /\ run'.outcomes = Put(run.outcomes, e, out) /\ run'.next = run.next
        /\ <<e, out.date>> \in DOMAIN history
    BY <1>3, SkipExistingEffect
  <2> HIDE DEF out
  <2> QED
    BY <1>0, <2>1, TargetIsTrue
<1>4. ASSUME NEW e \in Etfs, NEW date \in Dates, NEW rows \in Contents,
             AnswerWithRows(e, date, rows)
      PROVE  OutcomesAreTrue'
  <2> DEFINE s == <<e, date>>
             outcome == OutcomeOfRows(s, rows)
             out == [is |-> IF outcome = "refreshed" THEN "fetched" ELSE outcome, date |-> date]
  <2>1. /\ run.pc = "targets" /\ run'.pc = "targets" /\ KeptFiles
        /\ outcome \in Rows
        /\ outcome # "fetched" => s \in DOMAIN history
        /\ run'.outcomes = Put(run.outcomes, e, out)
        /\ run'.next = IF outcome \in {"fetched", "refreshed"} THEN Put(run.next, s, rows)
                       ELSE run.next
    BY <1>4, AnswerEffect
  <2>2. out.date = date
    OBVIOUS
  <2> HIDE DEF outcome, out
  <2>3. DOMAIN run.next \subseteq DOMAIN run'.next /\ s \in DOMAIN run'.next
    <3>1. CASE run'.next = Put(run.next, s, rows)
      <4>1. IsPut(run'.next, run.next, s, rows)
        BY <3>1, PutValues
      <4> QED
        BY <4>1 DEF IsPut
    <3>2. CASE run'.next = run.next /\ outcome # "fetched"
      BY <1>0, <2>1, <3>2
    <3> QED
      BY <2>1, <3>1, <3>2
  <2> QED
    BY <2>1, <2>2, <2>3, TargetIsTrue
<1>5. ASSUME NEW e \in Etfs, NEW failure \in Failures, FailedAnswer(e, failure)
      PROVE  OutcomesAreTrue'
  <2> DEFINE reason == Reason(failure)
             out == [is |-> reason, date |-> 0]
  <2>1. /\ run.pc = "targets" /\ run'.pc = "targets" /\ KeptFiles
        /\ run'.outcomes = Put(run.outcomes, e, out) /\ run'.next = run.next
    BY <1>5, FailedEffect
  <2>2. ~Claims(out)
    BY FailuresAssumption DEF Claims, Reason, AllFailures
  <2> HIDE DEF out
  <2> QED
    BY <2>1, <2>2, TargetIsTrue
<1>6. ASSUME run' = Idle, KeptFiles PROVE OutcomesAreTrue'
  BY <1>6, IdleRun DEF OutcomesAreTrue, SummaryIsTrue, KeptFiles
<1>7. ASSUME NEW e \in Etfs, MalformedAnswer(e) PROVE OutcomesAreTrue'
  BY <1>6, <1>7, MalformedEffect
<1>8. ASSUME FinishTargets PROVE OutcomesAreTrue'
  <2>1. CASE run' = Idle
    BY <1>6, <1>8, <2>1, FinishEffect
  <2>2. CASE run' # Idle
    <3>1. /\ run.pc = "targets" /\ run'.pc = "history" /\ KeptFiles
          /\ UNCHANGED <<run.next, run.outcomes>>
      BY <1>8, <2>2, FinishEffect
    <3> QED
      BY <3>1 DEF OutcomesAreTrue, SummaryIsTrue, KeptFiles
  <2> QED
    BY <2>1, <2>2
<1>9. ASSUME WriteHistory PROVE OutcomesAreTrue'
  <2>1. /\ run.pc = "history" /\ run'.pc \in {"open_retry", "open_summary"}
        /\ history' = run.next /\ UNCHANGED <<run.outcomes, summary>>
    BY <1>9, WriteHistoryEffect
  <2>2. AreTrue(run'.outcomes, history')
    BY <2>1 DEF OutcomesAreTrue
  <2>3. SummaryIsTrue'
    <3>1. DOMAIN history \subseteq DOMAIN history'
      BY <2>1 DEF RunInv, TypeOK
    <3> QED
      BY <2>1, <3>1 DEF OutcomesAreTrue, SummaryIsTrue
  <2> QED
    BY <2>1, <2>2, <2>3 DEF OutcomesAreTrue
<1>10. ASSUME OpenRetry \/ WriteRetry PROVE OutcomesAreTrue'
  <2>1. /\ run.pc \in {"open_retry", "write_retry"}
        /\ run'.pc \in {"write_retry", "open_summary"}
        /\ UNCHANGED <<run.outcomes, history, summary>>
    BY <1>10, OpenRetryEffect, WriteRetryEffect
  <2> QED
    BY <2>1 DEF OutcomesAreTrue, SummaryIsTrue
<1>11. ASSUME OpenSummary PROVE OutcomesAreTrue'
  <2> DEFINE existing == IF summary = Garbled THEN Nothing ELSE summary.data
  <2>1. /\ run.pc = "open_summary" /\ run'.pc = "write_summary" /\ summary' = Garbled
        /\ run'.doc = Put(existing, run.provider, run.outcomes) /\ history' = history
    BY <1>11, OpenSummaryEffect
  <2>2. AreTrue(run.outcomes, history) /\ \A p \in DOMAIN existing : AreTrue(existing[p], history)
    BY <2>1, SummaryClaims, NothingPartial DEF OutcomesAreTrue
  <2> HIDE DEF existing
  <2>3. IsPut(run'.doc, existing, run.provider, run.outcomes)
    BY <2>1, PutValues
  <2>4. \A p \in DOMAIN run'.doc : AreTrue(run'.doc[p], history)
    BY <2>2, <2>3 DEF IsPut
  <2> QED
    BY <2>1, <2>4 DEF OutcomesAreTrue, SummaryIsTrue
<1>12. ASSUME WriteSummary PROVE OutcomesAreTrue'
  <2>1. /\ run.pc = "write_summary" /\ run' = Idle /\ summary'.data = run.doc
        /\ history' = history
    BY <1>12, WriteSummaryEffect
  <2>2. SummaryIsTrue'
    BY <2>1 DEF OutcomesAreTrue, SummaryIsTrue, AreTrue, Claims
  <2> QED
    BY <2>1, <2>2, IdleRun DEF OutcomesAreTrue
<1>13. ASSUME Crash PROVE OutcomesAreTrue'
  BY <1>6, <1>13, CrashEffect
<1>14. ASSUME Tick \/ UNCHANGED vars PROVE OutcomesAreTrue'
  BY <1>14, TickEffect DEF OutcomesAreTrue, SummaryIsTrue, KeptFiles
<1> QED
  BY <1>1, <1>2, <1>3, <1>4, <1>5, <1>7, <1>8, <1>9, <1>10, <1>11, <1>12, <1>13, <1>14
  DEF Next

\* What the summary claims is in the history, whatever run wrote that part of it and
\* whatever died since (_write_source_acquisition_summary).
THEOREM SummariesAreTrue == Spec => []SummaryIsTrue
<1>1. Init => OutcomesAreTrue
  <2> SUFFICES ASSUME Init PROVE OutcomesAreTrue
    OBVIOUS
  <2>1. run = Idle /\ summary.data = Nothing
    BY FileData DEF Init
  <2> QED
    BY <2>1, IdleRun, NothingPartial DEF OutcomesAreTrue, SummaryIsTrue
<1>2. RunInv /\ OutcomesAreTrue /\ [Next]_vars => OutcomesAreTrue'
  BY OutcomesAreTrueStep
<1>3. OutcomesAreTrue => SummaryIsTrue
  BY DEF OutcomesAreTrue
<1> QED
  BY <1>1, <1>2, <1>3, RunInvariant, PTL DEF Spec

-----------------------------------------------------------------------------
(* Cooldowns *)

\* The time that cooldowns are compared with, and the time that they are from.
Now == IF run.pc = "idle" THEN clock ELSE run.started

\* The last run that saw e refused came to its end, or is still in progress.
Known(e) == lost[e] = "no" /\ refusedAt[e] # Never

\* At time now, cooldowns c keep e from being asked about too early.
HeldBy(c, e, refused, now) ==
    \/ now >= refused + Cooldown
    \/ e \in DOMAIN c /\ c[e].until >= refused + Cooldown

CollectedHold ==
    run.pc \in {"targets", "history", "open_retry", "write_retry"} =>
        \A e \in Etfs : Known(e) => HeldBy(run.cooldowns, e, refusedAt[e], Now)
StoredHold ==
    retry # Garbled =>
        \A e \in Etfs :
            Known(e) => \/ run.pc \in {"targets", "history", "open_retry"} /\ e \in Refused(run)
                        \/ HeldBy(retry.data, e, refusedAt[e], Now)

\* A refusal that is known is in the cooldowns the run will write, and in those that are
\* stored unless the run has still to write it.
CooldownInv ==
    /\ \A e \in Etfs : refusedAt[e] <= Now
    /\ CollectedHold
    /\ StoredHold

LEMMA Times ==
    ASSUME RunInv
    PROVE  /\ clock \in Nat /\ Now \in Nat /\ Now <= clock /\ Cooldown \in Nat \ {0}
           /\ \A e \in Etfs : refusedAt[e] \in Int
           /\ run.pc # "idle" => Now = run.started
           /\ run.pc = "idle" => Now = clock
BY BoundsAssumption DEF RunInv, TypeOK, Now, Never

LEMMA HeldLater ==
    ASSUME NEW c, NEW e, NEW refused \in Int, NEW now \in Nat, NEW later \in Nat, now <= later,
           Cooldown \in Nat, HeldBy(c, e, refused, now)
    PROVE  HeldBy(c, e, refused, later)
BY DEF HeldBy

\* An ETF that is not cooling is not known to have been refused of late.
LEMMA NotCooling ==
    ASSUME RunInv, CooldownInv, run.pc = "targets", NEW e \in run.todo, ~Cooling(e), Known(e)
    PROVE  run.started >= refusedAt[e] + Cooldown
<1>1. e \in Etfs /\ retry # Garbled /\ e \notin Refused(run) /\ CooldownsOK(retry.data)
  BY DEF RunInv, TypeOK, Refused
<1>2. /\ run.started \in Nat /\ Now = run.started /\ refusedAt[e] \in Int
      /\ Cooldown \in Nat \ {0}
  BY <1>1, Times
<1>3. HeldBy(retry.data, e, refusedAt[e], run.started)
  BY <1>1, <1>2 DEF CooldownInv, StoredHold
<1>4. CASE e \in DOMAIN retry.data
  <2>1. retry.data[e].until \in Int /\ retry.data[e].until <= run.started
    BY <1>1, <1>2, <1>4, BoundsAssumption DEF CooldownsOK, Cooling
  <2> QED
    BY <1>2, <1>3, <1>4, <2>1 DEF HeldBy
<1> QED
  BY <1>2, <1>3, <1>4 DEF HeldBy

\* A target has been dealt with, and what concerns it is as it should be.
LEMMA TargetCooldowns ==
    ASSUME RunInv, CooldownInv, run.pc = "targets", run'.pc = "targets", KeptFiles,
           UNCHANGED Arguments, NEW e \in run.todo,
           NEW out, run'.outcomes = Put(run.outcomes, e, out),
           \A d \in Etfs : d # e =>
               /\ refusedAt'[d] = refusedAt[d] /\ lost'[d] = lost[d]
               /\ d \in DOMAIN run.cooldowns =>
                    d \in DOMAIN run'.cooldowns /\ run'.cooldowns[d] = run.cooldowns[d],
           refusedAt'[e] <= run.started,
           Known(e)' => HeldBy(run'.cooldowns, e, refusedAt'[e], run.started),
           Known(e)' => \/ out.is \in Refusals
                        \/ HeldBy(retry.data, e, refusedAt'[e], run.started)
    PROVE  CooldownInv'
<1> DEFINE new == run'.outcomes
<1>1. /\ Now = run.started /\ Now' = run.started
      /\ \A d \in Etfs : d # e => (Known(d)' <=> Known(d)) /\ refusedAt'[d] = refusedAt[d]
  BY DEF Now, Known, Arguments
<1>2. IsPut(new, run.outcomes, e, out)
  BY PutValues
<1>3. \A d \in Etfs : d # e /\ d \in Refused(run) => d \in Refused(run)'
  BY <1>2 DEF Refused, IsPut
<1>4. out.is \in Refusals => e \in Refused(run)'
  BY <1>2 DEF Refused, IsPut
<1>5. \A d \in Etfs : refusedAt'[d] <= Now'
  BY <1>1 DEF CooldownInv
<1>6. CollectedHold'
  <2> SUFFICES ASSUME NEW d \in Etfs, Known(d)'
               PROVE  HeldBy(run'.cooldowns, d, refusedAt'[d], run.started)
    BY <1>1 DEF CollectedHold
  <2>1. CASE d = e
    BY <2>1
  <2>2. CASE d # e
    <3>1. HeldBy(run.cooldowns, d, refusedAt[d], run.started)
      BY <1>1, <2>2 DEF CooldownInv, CollectedHold
    <3> QED
      BY <1>1, <2>2, <3>1 DEF HeldBy
  <2> QED
    BY <2>1, <2>2
<1>7. StoredHold'
  <2> SUFFICES ASSUME retry # Garbled, NEW d \in Etfs, Known(d)'
               PROVE  d \in Refused(run)' \/ HeldBy(retry.data, d, refusedAt'[d], run.started)
    BY <1>1 DEF StoredHold, KeptFiles
  <2>1. CASE d = e
    BY <1>4, <2>1
  <2>2. CASE d # e
    <3>1. d \in Refused(run) \/ HeldBy(retry.data, d, refusedAt[d], run.started)
      BY <1>1, <2>2 DEF CooldownInv, StoredHold
    <3> QED
      BY <1>1, <1>3, <2>2, <3>1
  <2> QED
    BY <2>1, <2>2
<1> QED
  BY <1>5, <1>6, <1>7 DEF CooldownInv

\* A target that the provider has not refused, of which no cooldown is known but what
\* the run keeps.
LEMMA UnrefusedTarget ==
    ASSUME RunInv, CooldownInv, run.pc = "targets", run'.pc = "targets", KeptFiles,
           UNCHANGED Arguments, UNCHANGED Observations, NEW e \in run.todo, ~Cooling(e),
           NEW out, run'.outcomes = Put(run.outcomes, e, out),
           \A d \in Etfs : d # e /\ d \in DOMAIN run.cooldowns =>
               d \in DOMAIN run'.cooldowns /\ run'.cooldowns[d] = run.cooldowns[d]
    PROVE  CooldownInv'
<1>1. Known(e)' => run.started >= refusedAt'[e] + Cooldown
  BY NotCooling DEF Known, Observations
<1>2. \A c : Known(e)' => HeldBy(c, e, refusedAt'[e], run.started)
  BY <1>1 DEF HeldBy
<1>3. e \in Etfs /\ Now = run.started /\ refusedAt'[e] <= run.started
  BY DEF RunInv, CooldownInv, Now, Observations
<1> QED
  BY <1>2, <1>3, TargetCooldowns DEF Observations

\* Nothing that cooldowns depend on has changed, but time may have passed.
LEMMA SameCooldowns ==
    ASSUME RunInv, CooldownInv, Now' \in Nat, Now <= Now',
           UNCHANGED retry, UNCHANGED Observations,
           run'.pc \in {"targets", "history", "open_retry", "write_retry"} =>
             /\ run'.cooldowns = run.cooldowns
             /\ run.pc \in {"targets", "history", "open_retry", "write_retry"},
           run.pc \in {"targets", "history", "open_retry"} =>
             /\ run'.pc \in {"targets", "history", "open_retry"}
             /\ Refused(run) \subseteq Refused(run')
    PROVE  CooldownInv'
<1>1. /\ Now \in Nat /\ Cooldown \in Nat /\ \A e \in Etfs : refusedAt[e] \in Int
      /\ refusedAt' = refusedAt /\ \A e \in Etfs : Known(e)' <=> Known(e)
  BY Times DEF Known, Observations
<1>2. \A e \in Etfs : refusedAt'[e] <= Now'
  BY <1>1 DEF CooldownInv
<1>3. CollectedHold'
  <2> SUFFICES ASSUME run'.pc \in {"targets", "history", "open_retry", "write_retry"},
                      NEW e \in Etfs, Known(e)'
               PROVE  HeldBy(run.cooldowns, e, refusedAt[e], Now')
    BY <1>1 DEF CollectedHold
  <2>1. HeldBy(run.cooldowns, e, refusedAt[e], Now)
    BY <1>1 DEF CooldownInv, CollectedHold
  <2> QED
    BY <1>1, <2>1 DEF HeldBy
<1>4. StoredHold'
  <2> SUFFICES ASSUME retry # Garbled, NEW e \in Etfs, Known(e)'
               PROVE  \/ run'.pc \in {"targets", "history", "open_retry"} /\ e \in Refused(run')
                      \/ HeldBy(retry.data, e, refusedAt[e], Now')
    BY <1>1 DEF StoredHold
  <2>1. \/ run.pc \in {"targets", "history", "open_retry"} /\ e \in Refused(run)
        \/ HeldBy(retry.data, e, refusedAt[e], Now)
    BY <1>1 DEF CooldownInv, StoredHold
  <2>2. CASE HeldBy(retry.data, e, refusedAt[e], Now)
    BY <1>1, <2>2 DEF HeldBy
  <2> QED
    BY <2>1, <2>2
<1> QED
  BY <1>2, <1>3, <1>4 DEF CooldownInv

\* A run that ends before its cooldowns are stored forgets its refusals.
LEMMA EndedCooldowns ==
    ASSUME RunInv, CooldownInv, run.pc # "idle", run' = Idle, KeptFiles, UNCHANGED clock,
           UNCHANGED refusedAt, NEW how \in {"failed", "crashed"}, Lose(how)
    PROVE  CooldownInv'
<1>1. /\ Now \in Nat /\ Now' = clock /\ Now <= Now' /\ clock \in Nat /\ Cooldown \in Nat
      /\ \A e \in Etfs : refusedAt[e] \in Int
  BY Times, IdleRun DEF Now
<1>2. \A e \in Etfs : refusedAt'[e] <= Now'
  BY <1>1 DEF CooldownInv
<1>3. CollectedHold'
  BY IdleRun DEF CollectedHold
<1>4. StoredHold'
  <2> SUFFICES ASSUME retry # Garbled, NEW e \in Etfs, Known(e)'
               PROVE  HeldBy(retry.data, e, refusedAt[e], Now')
    BY DEF StoredHold, KeptFiles
  <2>1. e \notin Refused(run) /\ Known(e)
    BY DEF Lose, Known
  <2>2. HeldBy(retry.data, e, refusedAt[e], Now)
    BY <2>1 DEF CooldownInv, StoredHold
  <2> QED
    BY <1>1, <2>2 DEF HeldBy
<1> QED
  BY <1>2, <1>3, <1>4 DEF CooldownInv

LEMMA CooldownInvStep == RunInv /\ RunInv' /\ CooldownInv /\ [Next]_vars => CooldownInv'
<1> SUFFICES ASSUME RunInv, RunInv', CooldownInv, [Next]_vars PROVE CooldownInv'
  OBVIOUS
<1>0. /\ clock \in Nat /\ Now \in Nat /\ Now <= clock /\ Cooldown \in Nat \ {0}
      /\ \A e \in Etfs : refusedAt[e] \in Int
  BY Times
<1>1. ASSUME NEW p \in Providers, NEW date \in Dates, NEW refresh \in Refreshes,
             NEW targets \in (SUBSET {e \in Etfs : ProviderOf[e] = p}) \ {{}},
             Start(p, targets, date, refresh)
      PROVE  CooldownInv'
  <2>1. /\ run.pc = "idle" /\ retry # Garbled /\ run'.pc = "targets" /\ run'.started = clock
        /\ run'.cooldowns = retry.data /\ retry' = retry /\ UNCHANGED Observations
    BY <1>1, StartEffect DEF KeptFiles
  <2>2. /\ Now = clock /\ Now' = clock /\ refusedAt' = refusedAt
        /\ \A e \in Etfs : Known(e)' <=> Known(e)
    BY <2>1 DEF Now, Known, Observations
  <2>3. \A e \in Etfs : Known(e) => HeldBy(retry.data, e, refusedAt[e], clock)
    BY <2>1, <2>2 DEF CooldownInv, StoredHold
  <2> QED
    BY <2>1, <2>2, <2>3 DEF CooldownInv, CollectedHold, StoredHold
<1>2. ASSUME NEW e \in Etfs, SkipCooling(e) PROVE CooldownInv'
  <2> DEFINE out == [is |-> "retry_cooldown", date |-> 0]
             new == run'.outcomes
  <2>1. /\ run.pc = "targets" /\ run'.pc = "targets" /\ e \in run.todo
        /\ new = Put(run.outcomes, e, out) /\ run'.cooldowns = run.cooldowns
        /\ UNCHANGED Arguments /\ KeptFiles /\ UNCHANGED Observations
    BY <1>2, SkipCoolingEffect
  <2> HIDE DEF out
  <2>2. IsPut(new, run.outcomes, e, out)
    BY <2>1, PutValues
  <2>3. Refused(run) \subseteq Refused(run')
    BY <2>1, <2>2 DEF Refused, IsPut, RunInv
  <2>4. Now' \in Nat /\ Now <= Now'
    BY <1>0, <2>1 DEF Now, Arguments
  <2> QED
    BY <2>1, <2>3, <2>4, SameCooldowns DEF KeptFiles
<1>3. ASSUME NEW e \in Etfs, SkipExisting(e) PROVE CooldownInv'
  <2> DEFINE out == [is |-> "skipped_existing", date |-> run.date]
  <2>1. /\ run.pc = "targets" /\ run'.pc = "targets" /\ e \in run.todo /\ ~Cooling(e)
        /\ run'.outcomes = Put(run.outcomes, e, out)
        /\ run'.cooldowns = Drop(run.cooldowns, e)
        /\ UNCHANGED Arguments /\ KeptFiles /\ UNCHANGED Observations
    BY <1>3, SkipExistingEffect
  <2> HIDE DEF out
  <2>2. IsDrop(run'.cooldowns, run.cooldowns, e)
    BY <2>1, DropValues
  <2>3. \A d \in Etfs : d # e /\ d \in DOMAIN run.cooldowns =>
            d \in DOMAIN run'.cooldowns /\ run'.cooldowns[d] = run.cooldowns[d]
    BY <2>2 DEF IsDrop
  <2> QED
    BY <2>1, <2>3, UnrefusedTarget
<1>4. ASSUME NEW e \in Etfs, NEW date \in Dates, NEW rows \in Contents,
             AnswerWithRows(e, date, rows)
      PROVE  CooldownInv'
  <2> DEFINE s == <<e, date>>
             outcome == OutcomeOfRows(s, rows)
             out == [is |-> IF outcome = "refreshed" THEN "fetched" ELSE outcome, date |-> date]
  <2>1. /\ run.pc = "targets" /\ run'.pc = "targets" /\ e \in run.todo /\ ~Cooling(e)
        /\ run'.outcomes = Put(run.outcomes, e, out)
        /\ outcome \in Rows
        /\ outcome \in {"fetched", "skipped_existing"} =>
             run'.cooldowns = Drop(run.cooldowns, e)
        /\ outcome = "refresh_required" =>
             run'.cooldowns = Put(run.cooldowns, e, CooldownItem(outcome))
        /\ outcome = "refreshed" => run'.cooldowns = run.cooldowns
        /\ UNCHANGED Arguments /\ KeptFiles /\ UNCHANGED Observations
    BY <1>4, AnswerEffect
  <2> HIDE DEF outcome, out
  <2>2. \A d \in Etfs : d # e /\ d \in DOMAIN run.cooldowns =>
            d \in DOMAIN run'.cooldowns /\ run'.cooldowns[d] = run.cooldowns[d]
    <3>1. CASE run'.cooldowns = Drop(run.cooldowns, e)
      <4>1. IsDrop(run'.cooldowns, run.cooldowns, e)
        BY <3>1, DropValues
      <4> QED
        BY <4>1 DEF IsDrop
    <3>2. CASE run'.cooldowns = Put(run.cooldowns, e, CooldownItem(outcome))
      <4>1. IsPut(run'.cooldowns, run.cooldowns, e, CooldownItem(outcome))
        BY <3>2, PutValues
      <4> QED
        BY <4>1 DEF IsPut
    <3>3. CASE run'.cooldowns = run.cooldowns
      BY <3>3
    <3> QED
      BY <2>1, <3>1, <3>2, <3>3 DEF Rows
  <2> QED
    BY <2>1, <2>2, UnrefusedTarget
<1>5. ASSUME NEW e \in Etfs, NEW failure \in Failures, FailedAnswer(e, failure)
      PROVE  CooldownInv'
  <2> DEFINE reason == Reason(failure)
             out == [is |-> reason, date |-> 0]
             item == CooldownItem(reason)
  <2>1. /\ run.pc = "targets" /\ run'.pc = "targets" /\ e \in run.todo /\ ~Cooling(e)
        /\ run'.outcomes = Put(run.outcomes, e, out)
        /\ run'.cooldowns = IF StartsCooldown(reason) THEN Put(run.cooldowns, e, item)
                            ELSE run.cooldowns
        /\ UNCHANGED Arguments /\ KeptFiles
        /\ refusedAt' = IF reason \in Refusals THEN [refusedAt EXCEPT ![e] = run.started]
                        ELSE refusedAt
        /\ lost' = IF reason \in Refusals THEN [lost EXCEPT ![e] = "no"] ELSE lost
    BY <1>5, FailedEffect
  <2>2. out.is = reason /\ item.until = run.started + Cooldown
    BY DEF CooldownItem
  <2>3. reason \in Refusals => StartsCooldown(reason)
    BY DEF Refusals, StartsCooldown
  <2> HIDE DEF reason, out, item
  <2>4. \A d \in Etfs : d # e /\ d \in DOMAIN run.cooldowns =>
            d \in DOMAIN run'.cooldowns /\ run'.cooldowns[d] = run.cooldowns[d]
    <3>1. CASE run'.cooldowns = Put(run.cooldowns, e, item)
      <4>1. IsPut(run'.cooldowns, run.cooldowns, e, item)
        BY <3>1, PutValues
      <4> QED
        BY <4>1 DEF IsPut
    <3> QED
      BY <2>1, <3>1
  <2>5. CASE reason \notin Refusals
    <3>1. UNCHANGED Observations
      BY <2>1, <2>5 DEF Observations
    <3> QED
      BY <2>1, <2>4, <3>1, UnrefusedTarget
  <2>6. CASE reason \in Refusals
    <3>1. /\ refusedAt'[e] = run.started
          /\ \A d \in Etfs : d # e => refusedAt'[d] = refusedAt[d] /\ lost'[d] = lost[d]
      BY <2>1, <2>6 DEF RunInv, TypeOK
    <3>2. IsPut(run'.cooldowns, run.cooldowns, e, item)
      BY <2>1, <2>3, <2>6, PutValues
    <3>3. run.started \in Nat
      BY <1>0, <2>1 DEF Now
    <3>4. HeldBy(run'.cooldowns, e, refusedAt'[e], run.started)
      BY <1>0, <2>2, <3>1, <3>2, <3>3 DEF HeldBy, IsPut
    <3>5. refusedAt'[e] <= run.started
      BY <3>1, <3>3
    <3> QED
      BY <2>1, <2>2, <2>4, <2>6, <3>1, <3>4, <3>5, TargetCooldowns
  <2> QED
    BY <2>5, <2>6
<1>6. ASSUME NEW e \in Etfs, MalformedAnswer(e) PROVE CooldownInv'
  BY <1>6, MalformedEffect, EndedCooldowns
<1>7. ASSUME FinishTargets PROVE CooldownInv'
  <2>1. CASE run' = Idle
    BY <1>7, <2>1, IdleRun, FinishEffect, EndedCooldowns
  <2>2. CASE run' # Idle
    <3>1. /\ run.pc = "targets" /\ run'.pc = "history" /\ KeptFiles
          /\ run'.cooldowns = run.cooldowns /\ run'.outcomes = run.outcomes
          /\ UNCHANGED Arguments /\ UNCHANGED Observations
      BY <1>7, <2>2, FinishEffect DEF Observations
    <3>2. Now' \in Nat /\ Now <= Now' /\ Refused(run) \subseteq Refused(run')
      BY <1>0, <3>1 DEF Now, Refused, Arguments
    <3> QED
      BY <3>1, <3>2, SameCooldowns DEF KeptFiles
  <2> QED
    BY <2>1, <2>2
<1>8. ASSUME WriteHistory PROVE CooldownInv'
  <2>1. /\ run.pc = "history" /\ run'.cooldowns = run.cooldowns
        /\ run'.outcomes = run.outcomes
        /\ UNCHANGED retry /\ UNCHANGED Arguments /\ UNCHANGED Observations
        /\ \/ run'.pc = "open_retry"
           \/ run'.pc = "open_summary" /\ run.cooldowns = retry.data
    BY <1>8, WriteHistoryEffect
  <2>2. /\ Now' \in Nat /\ Now <= Now' /\ Now' = Now /\ Refused(run) \subseteq Refused(run')
    BY <1>0, <2>1 DEF Now, Refused, Arguments
  <2>3. CASE run'.pc = "open_retry"
    BY <2>1, <2>2, <2>3, SameCooldowns
  <2>4. CASE run'.pc = "open_summary" /\ run.cooldowns = retry.data
    BY <2>1, <2>2, <2>4 DEF CooldownInv, CollectedHold, StoredHold, Known, Observations
  <2> QED
    BY <2>1, <2>3, <2>4
<1>9. ASSUME OpenRetry PROVE CooldownInv'
  <2>1. /\ run.pc = "open_retry" /\ run'.pc = "write_retry" /\ run'.cooldowns = run.cooldowns
        /\ retry' = Garbled /\ UNCHANGED Arguments /\ UNCHANGED Observations
    BY <1>9, OpenRetryEffect
  <2>2. Now' = Now
    BY <2>1 DEF Now, Arguments
  <2> QED
    BY <2>1, <2>2 DEF CooldownInv, CollectedHold, StoredHold, Known, Observations
<1>10. ASSUME WriteRetry PROVE CooldownInv'
  <2>1. /\ run.pc = "write_retry" /\ run'.pc = "open_summary" /\ retry'.data = run.cooldowns
        /\ UNCHANGED Arguments /\ UNCHANGED Observations
    BY <1>10, WriteRetryEffect
  <2>2. Now' = Now
    BY <2>1 DEF Now, Arguments
  <2> QED
    BY <2>1, <2>2 DEF CooldownInv, CollectedHold, StoredHold, Known, Observations
<1>11. ASSUME OpenSummary PROVE CooldownInv'
  <2>1. /\ run.pc = "open_summary" /\ run'.pc = "write_summary"
        /\ UNCHANGED retry /\ UNCHANGED Arguments /\ UNCHANGED Observations
    BY <1>11, OpenSummaryEffect
  <2>2. Now' \in Nat /\ Now <= Now'
    BY <1>0, <2>1 DEF Now, Arguments
  <2> QED
    BY <2>1, <2>2, SameCooldowns
<1>12. ASSUME run.pc \in {"open_summary", "write_summary"}, run' = Idle,
              UNCHANGED retry, UNCHANGED clock, UNCHANGED Observations
       PROVE  CooldownInv'
  <2>1. run'.pc = "idle" /\ Now' = clock
    BY <1>12, IdleRun DEF Now
  <2>2. Now' \in Nat /\ Now <= Now'
    BY <1>0, <2>1
  <2> QED
    BY <1>12, <2>1, <2>2, SameCooldowns
<1>13. ASSUME WriteSummary PROVE CooldownInv'
  BY <1>12, <1>13, WriteSummaryEffect
<1>14. ASSUME Crash PROVE CooldownInv'
  <2>1. CASE Lose("crashed")
    BY <1>14, <2>1, CrashEffect, EndedCooldowns
  <2>2. CASE run.pc \in {"open_summary", "write_summary"} /\ UNCHANGED lost
    BY <1>12, <1>14, <2>2, CrashEffect DEF KeptFiles, Observations
  <2> QED
    BY <1>14, <2>1, <2>2, CrashEffect
<1>15. ASSUME Tick \/ UNCHANGED vars PROVE CooldownInv'
  <2>1. /\ KeptFiles /\ run' = run /\ UNCHANGED Observations
        /\ clock' = clock \/ clock' = clock + 1
    BY <1>15, TickEffect
  <2>2. Now' \in Nat /\ Now <= Now'
    BY <1>0, <2>1 DEF Now
  <2>3. UNCHANGED retry /\ Refused(run) \subseteq Refused(run')
    BY <2>1 DEF KeptFiles
  <2> QED
    BY <2>1, <2>2, <2>3, SameCooldowns
<1> QED
  BY <1>1, <1>2, <1>3, <1>4, <1>5, <1>6, <1>7, <1>8, <1>9, <1>10, <1>11, <1>13, <1>14, <1>15
  DEF Next

\* Only an ETF that is not cooling is asked about.
LEMMA AskedSteps ==
    ASSUME RunInv, [Next]_vars, NEW e \in run'.asked \ run.asked
    PROVE  e \in run.todo /\ run.pc = "targets" /\ ~Cooling(e)
<1>1. ASSUME NEW d \in Etfs, NEW date \in Dates, NEW rows \in Contents,
             AnswerWithRows(d, date, rows)
      PROVE  e \in run.todo /\ run.pc = "targets" /\ ~Cooling(e)
  <2> DEFINE s == <<d, date>>
             outcome == OutcomeOfRows(s, rows)
  <2>1. d \in run.todo /\ run.pc = "targets" /\ ~Cooling(d) /\ run'.asked = run.asked \union {d}
    <3>1. s = <<d, date>> /\ outcome = OutcomeOfRows(s, rows)
      OBVIOUS
    <3> HIDE DEF s, outcome
    <3> QED
      BY <1>1, <3>1, AnswerEffect
  <2> QED
    BY <2>1
<1>2. ASSUME NEW d \in Etfs, NEW failure \in Failures, FailedAnswer(d, failure)
      PROVE  e \in run.todo /\ run.pc = "targets" /\ ~Cooling(e)
  BY <1>2, FailedEffect
<1>3. ASSUME UNCHANGED run.asked \/ run'.asked = {} PROVE FALSE
  BY <1>3
<1>4. ASSUME NEW d \in Etfs, SkipCooling(d) \/ SkipExisting(d) \/ MalformedAnswer(d)
      PROVE  FALSE
  BY <1>3, <1>4, IdleRun, SkipCoolingEffect, SkipExistingEffect, MalformedEffect
<1>5. ASSUME NEW p \in Providers, NEW date \in Dates, NEW refresh \in Refreshes,
             NEW targets \in (SUBSET {d \in Etfs : ProviderOf[d] = p}) \ {{}},
             Start(p, targets, date, refresh)
      PROVE  FALSE
  BY <1>3, <1>5, StartEffect
<1>6. ASSUME FinishTargets \/ WriteHistory \/ OpenRetry \/ WriteRetry
      PROVE  FALSE
  BY <1>3, <1>6, IdleRun, FinishEffect, WriteHistoryEffect, OpenRetryEffect, WriteRetryEffect
<1>7. ASSUME OpenSummary \/ WriteSummary \/ Crash \/ Tick \/ UNCHANGED vars PROVE FALSE
  BY <1>3, <1>7, IdleRun, OpenSummaryEffect, WriteSummaryEffect, CrashEffect, TickEffect
<1> QED
  BY <1>1, <1>2, <1>4, <1>5, <1>6, <1>7 DEF Next

\* LiveRetryCooldown: no ETF is asked about again within the cooldown of a refusal, unless
\* the run that saw the refusal did not come to its end (_target_retry_plan).
THEOREM CooldownsSuppress == Spec => CooldownSuppresses
<1>1. Init => CooldownInv
  <2> SUFFICES ASSUME Init PROVE CooldownInv
    OBVIOUS
  <2>1. run = Idle /\ clock = 0 /\ \A e \in Etfs : refusedAt[e] = Never
    BY DEF Init
  <2> QED
    BY <2>1, IdleRun DEF CooldownInv, CollectedHold, StoredHold, Known, Now, Never
<1>2. RunInv /\ RunInv' /\ CooldownInv /\ [Next]_vars => CooldownInv'
  BY CooldownInvStep
<1>3. RunInv /\ CooldownInv /\ [Next]_vars =>
        [\A e \in run'.asked \ run.asked : MaySuppress(e, {"failed", "crashed"})]_vars
  <2> SUFFICES ASSUME RunInv, CooldownInv, [Next]_vars, NEW e \in run'.asked \ run.asked
               PROVE  MaySuppress(e, {"failed", "crashed"})
    OBVIOUS
  <2>1. e \in run.todo /\ run.pc = "targets" /\ ~Cooling(e)
    BY AskedSteps
  <2>2. lost[e] \in {"no", "failed", "crashed"}
    BY <2>1 DEF RunInv, TypeOK
  <2>3. Known(e) => run.started >= refusedAt[e] + Cooldown
    BY <2>1, NotCooling
  <2> QED
    BY <2>2, <2>3 DEF Known, MaySuppress
<1> QED
  BY <1>1, <1>2, <1>3, RunInvariant, PTL DEF Spec, CooldownSuppresses

===============================================================================
