------------------------- MODULE PrePublishPreview -------------------------
(***************************************************************************)
(* `run-pre-publish-preview` (cli.py): export and readiness, approval,     *)
(* external evidence collected or reused, the native report run, and the   *)
(* handoff that `deliver-telegram-alert` reads.  One preview runs at a     *)
(* time; it can die between any two steps and leave the file it was        *)
(* writing torn, and the next one starts from the files that are there.    *)
(*                                                                         *)
(* The smoke boundary of a preview is its run id, its request (requested   *)
(* providers, report targets, target limit), whether the evidence is the   *)
(* operator's own, and the approval profile.  A provider answers all or    *)
(* nothing: one evidence item stands for what its success brings.          *)
(***************************************************************************)
EXTENDS Naturals, Bags, Functions

CONSTANTS
    Runs,         \* run ids
    Requests,     \* what a preview may ask for
    TargetsOf,    \* the report targets (claim scopes) of each request
    Providers,    \* the providers asked, in this order
    CategoryOf,   \* the evidence category of each provider
    Categories,   \* the categories a user-ready preview must have tried
    Covers,       \* the requests that each approval profile allows
    MaxCrashes    \* bound: previews that die

ASSUME ProvidersAssumption == Providers # << >> /\ IsInjective(Providers)
ASSUME RequestsAssumption ==
    /\ Runs # {} /\ Requests # {}
    /\ DOMAIN TargetsOf = Requests
    /\ CategoryOf \in [Range(Providers) -> Categories]
    /\ DOMAIN Covers # {} /\ Covers \in [DOMAIN Covers -> SUBSET Requests]
ASSUME MaxCrashesAssumption == MaxCrashes \in Nat

VARIABLES
    approval,    \* the approval file: a profile, or none that is valid
    evidence,    \* external_evidence.json
    summary,     \* external_evidence_summary.json
    handoff,     \* pre_publish_handoff.json
    cmd,         \* the running preview
    crashes,     \* how many previews died
    answered,    \* observation: the providers whose last answer for a boundary was usable
    halfway      \* observation: a preview died between the two evidence files

files == <<approval, evidence, summary, handoff>>
vars == <<files, cmd, crashes, answered, halfway>>

ProviderSet == Range(Providers)
Profiles == DOMAIN Covers
NoProfile == "none"
Boundaries == [run : Runs, request : Requests, own : BOOLEAN, profile : Profiles]

\* "failed" is any of the six failure statuses.  Nobody is skipped: the collection is live
\* and knows no cooldowns.
Answers == {"success", "no_data", "failed"}
Usable == {"success", "no_data"}
Items == [provider : ProviderSet, boundary : Boundaries]

Missing == [is |-> "missing"]
Torn == [is |-> "torn"]          \* truncated, or half written: not JSON
File(data) == [is |-> "file", data |-> data]

\* A summary has the status of each provider that was asked, and the boundary once
\* the preview has annotated it; the one of a preview that asked nobody has neither.
NoBoundary == [run |-> "none"]
NotRun == [boundary |-> NoBoundary, outcome |-> << >>]

\* What the preview has computed for the handoff: `shown` once the message and the
\* closure are in it (native run-report writes a first one without), `met` is the
\* full user-ready closure.
Statuses == {"user_ready", "operator_review_only", "failed"}
Failed == [status |-> "failed", shown |-> TRUE, met |-> FALSE,
           evidence |-> EmptyBag, outcome |-> << >>]

\* What telegram_delivery.py sends: _delivery_eligibility_error.
Deliverable(file) ==
    /\ file.is = "file"
    /\ file.data.status = "user_ready"
    /\ file.data.shown
    /\ file.data.met

\* A handoff names the boundary and the evidence of its preview; what is not fit to be
\* sent is read by people only, and of it only the status is kept.
Written(boundary, result) ==
    IF result.met
    THEN File([status |-> result.status, shown |-> result.shown, met |-> TRUE,
               boundary |-> boundary, evidence |-> result.evidence])
    ELSE File([status |-> result.status, shown |-> result.shown, met |-> FALSE])

SomeBoundary == CHOOSE b \in Boundaries : TRUE

\* The preview that runs: todo the providers still to be asked, reused those that are
\* not asked again, kept and keptOutcome what was read of their evidence and summary,
\* outcome the answers, result the handoff it is about to write.
Idle == [pc |-> "idle", boundary |-> SomeBoundary, todo |-> {}, reused |-> {},
         kept |-> EmptyBag, keptOutcome |-> << >>, outcome |-> << >>, result |-> Failed]

Init ==
    /\ approval = NoProfile
    /\ evidence = Missing /\ summary = Missing /\ handoff = Missing
    /\ cmd = Idle
    /\ crashes = 0
    /\ answered = {}
    /\ halfway = FALSE

-----------------------------------------------------------------------------
(* Evidence, its reuse, and what makes a handoff ready *)

Succeeded(outcome) == {p \in DOMAIN outcome : outcome[p] = "success"}
ItemsOf(outcome, b) ==
    SetToBag({[provider |-> p, boundary |-> b] : p \in Succeeded(outcome)})

\* Mutant: a successful outcome is reused whatever boundary it was collected for.
ReusableOfAnyBoundary(s, b) ==
    {p \in ProviderSet \intersect DOMAIN s.outcome : s.outcome[p] \in Usable}

\* Mutant: only a summary without failures is worth reusing.
ReusableAllOrNone(s, b) ==
    IF s.boundary = b /\ \A p \in ProviderSet \intersect DOMAIN s.outcome : s.outcome[p] \in Usable
    THEN ProviderSet \intersect DOMAIN s.outcome ELSE {}

\* _pre_publish_evidence_reuse_plan: the providers that need not be asked again.
Reusable(s, b) ==
    {p \in ProviderSet \intersect DOMAIN s.outcome :
        s.boundary = b /\ s.outcome[p] \in Usable}

\* Mutant: the evidence of the providers asked now replaces what was there.
MergedEvidenceOfNewOnly(kept, new) == new

MergedEvidence(kept, new) == kept (+) new

\* Reused providers keep their old outcome, the others get the new one.
MergedOutcome(kept, new, reused) ==
    [p \in (DOMAIN kept \intersect reused) \union DOMAIN new |->
        IF p \in reused THEN kept[p] ELSE new[p]]

RequiredFailures(outcome) == {p \in DOMAIN outcome : outcome[p] = "failed"}

\* _pre_publish_external_evidence_review_reason: not run, a failed provider, or a
\* category nobody was asked about.
EvidenceNeedsReview(outcome) ==
    \/ RequiredFailures(outcome) # {}
    \/ \E c \in Categories :
         \A p \in DOMAIN outcome : CategoryOf[p] # c

\* _verified_operational_flow_acceptance: holdings, identities and artifacts may be as it
\* asks or not; evidence that was not run never is.
Acceptances(result) == IF result.outcome = << >> THEN {FALSE} ELSE BOOLEAN

\* _pre_publish_closure_summary: nothing is left that blocks it.
ClosureMet(status, outcome, accepted) ==
    status = "user_ready" /\ outcome # << >> /\ RequiredFailures(outcome) = {} /\ accepted

\* _with_pre_publish_preview_metadata: a user-ready result is demoted when the
\* evidence needs review.
WithPreview(result, accepted) ==
    LET status == IF result.status = "user_ready" /\ EvidenceNeedsReview(result.outcome)
                  THEN "operator_review_only" ELSE result.status
    IN [result EXCEPT !.status = status, !.shown = TRUE,
                      !.met = ClosureMet(status, result.outcome, accepted)]

-----------------------------------------------------------------------------
(* The steps of a preview *)

Exit == cmd' = Idle
Goto(pc) == cmd' = [cmd EXCEPT !.pc = pc]

\* The profile is part of the boundary once the approval has been checked.
Start(run, request, own) ==
    /\ cmd.pc = "idle"
    /\ cmd' = [Idle EXCEPT !.pc = "readiness", !.boundary.run = run,
                  !.boundary.request = request, !.boundary.own = own]
    /\ UNCHANGED <<files, crashes, answered, halfway>>

\* The export is written and checked.  An export that fails ends the preview and a
\* verdict of failed blocks it; ready and hold go on (the report run tells them apart).
CheckReadiness ==
    /\ cmd.pc = "readiness"
    /\ \/ Exit
       \/ Goto("block")
       \/ Goto("approval")
    /\ UNCHANGED <<files, crashes, answered, halfway>>

\* evaluate_approval_profile; the operator's own evidence needs no provider's leave.
CheckApproval ==
    /\ cmd.pc = "approval"
    /\ IF approval \in Profiles /\ (cmd.boundary.own \/ cmd.boundary.request \in Covers[approval])
       THEN cmd' = [cmd EXCEPT !.pc = IF cmd.boundary.own THEN "own" ELSE "plan",
                               !.boundary.profile = approval]
       ELSE Goto("block")
    /\ UNCHANGED <<files, crashes, answered, halfway>>

\* A blocked preview reports the evidence summary that is there, or that none was run.
Block ==
    /\ cmd.pc = "block"
    /\ IF summary = Torn THEN Exit /\ UNCHANGED summary
       ELSE /\ summary' = IF summary = Missing THEN File(NotRun) ELSE summary
            /\ cmd' = [cmd EXCEPT !.pc = "output", !.result = Failed]
    /\ UNCHANGED <<approval, evidence, handoff, crashes, answered, halfway>>

\* Evidence the operator hands in is used if it is about the targets of this report.
CheckOwnEvidence ==
    LET same(b) == TargetsOf[b.request] = TargetsOf[cmd.boundary.request] IN
    /\ cmd.pc = "own"
    /\ IF /\ evidence.is = "file" /\ summary.is = "file"
          /\ \A i \in BagToSet(evidence.data) : same(i.boundary)
          /\ summary.data.boundary # NoBoundary => same(summary.data.boundary)
       THEN Goto("annotate")
       ELSE Exit
    /\ UNCHANGED <<files, crashes, answered, halfway>>

AskAll == cmd' = [cmd EXCEPT !.pc = "ask", !.todo = ProviderSet]

\* Mutant: the reused providers are asked as well.
PlanAsksReusedToo ==
    LET reused == Reusable(summary.data, cmd.boundary) IN
    /\ cmd.pc = "plan"
    /\ IF evidence = Missing \/ summary = Missing THEN AskAll
       ELSE IF summary = Torn THEN Exit
       ELSE IF reused = {} THEN AskAll
       ELSE IF reused = ProviderSet THEN Goto("annotate")
       ELSE IF evidence = Torn THEN Exit
       ELSE cmd' = [cmd EXCEPT !.pc = "ask", !.reused = reused, !.todo = ProviderSet,
                       !.kept = evidence.data, !.keptOutcome = summary.data.outcome]
    /\ UNCHANGED <<files, crashes, answered, halfway>>

\* _collect_or_reuse_pre_publish_external_evidence: ask everybody, or only those
\* whose outcome is not reused, or nobody.
PlanEvidence ==
    LET reused == Reusable(summary.data, cmd.boundary) IN
    /\ cmd.pc = "plan"
    /\ IF evidence = Missing \/ summary = Missing THEN AskAll
       ELSE IF summary = Torn THEN Exit
       ELSE IF reused = {} THEN AskAll
       ELSE IF reused = ProviderSet THEN Goto("annotate")
       ELSE IF evidence = Torn THEN Exit
       ELSE cmd' = [cmd EXCEPT !.pc = "ask", !.reused = reused,
                       !.todo = ProviderSet \ reused,
                       !.kept = evidence.data, !.keptOutcome = summary.data.outcome]
    /\ UNCHANGED <<files, crashes, answered, halfway>>

\* The provider p whose turn it is answers.
Ask(p, answer) ==
    LET asked == <<cmd.boundary, p>> IN
    /\ cmd.pc = "ask" /\ p \in cmd.todo
    /\ \E i \in DOMAIN Providers :
          Providers[i] = p /\ \A j \in 1..(i - 1) : Providers[j] \notin cmd.todo
    /\ cmd' = [cmd EXCEPT
           !.todo = @ \ {p},
           !.outcome = [q \in DOMAIN @ \union {p} |-> IF q = p THEN answer ELSE @[q]]]
    /\ answered' = IF answer \in Usable THEN answered \union {asked} ELSE answered \ {asked}
    /\ UNCHANGED <<files, crashes, halfway>>

\* The collector's evidence file, or, when outcomes are reused, the merged one (the
\* incremental files are read by nobody else).
WriteEvidence ==
    LET new == ItemsOf(cmd.outcome, cmd.boundary) IN
    /\ cmd.pc = "ask" /\ cmd.todo = {}
    /\ evidence' = File(IF cmd.reused = {} THEN new ELSE MergedEvidence(cmd.kept, new))
    /\ Goto("summary")
    /\ UNCHANGED <<approval, summary, handoff, crashes, answered, halfway>>

\* The collector's summary has no boundary yet; the merged one has.
WriteSummary ==
    /\ cmd.pc = "summary"
    /\ IF cmd.reused = {}
       THEN /\ summary' = File([boundary |-> NoBoundary, outcome |-> cmd.outcome])
            /\ Goto("annotate")
            /\ halfway' = FALSE
       ELSE /\ summary' = File([boundary |-> cmd.boundary, outcome |->
                   MergedOutcome(cmd.keptOutcome, cmd.outcome, cmd.reused)])
            /\ Goto("native")
            /\ UNCHANGED halfway
    /\ UNCHANGED <<approval, evidence, handoff, crashes, answered>>

Annotate ==
    /\ cmd.pc = "annotate"
    /\ summary' = File([summary.data EXCEPT !.boundary = cmd.boundary])
    /\ Goto("native")
    /\ UNCHANGED <<approval, evidence, handoff, crashes, answered, halfway>>

\* The report run of run-native-operational-handoff: it refuses torn evidence, checks
\* readiness and the model's approval again, and succeeds or not.  With a verdict of
\* ready a success is user-ready, with one of hold it is for operator review only.
ReportStatuses ==
    {"failed"} \union (IF approval \in Profiles THEN {"operator_review_only", "user_ready"}
                       ELSE {})

RunReport ==
    /\ cmd.pc = "native"
    /\ IF evidence.is # "file" THEN Exit
       ELSE \E s \in ReportStatuses :
              cmd' = [cmd EXCEPT !.pc = "native_output",
                         !.result = IF s = "failed" THEN Failed
                                    ELSE [status |-> s, shown |-> FALSE, met |-> FALSE,
                                          evidence |-> evidence.data,
                                          outcome |-> summary.data.outcome]]
    /\ UNCHANGED <<files, crashes, answered, halfway>>

\* asyncio.wait_for gives the report run up: the handoff says preview_timeout.
TimeOut ==
    /\ cmd.pc = "native" /\ evidence.is = "file"
    /\ cmd' = [cmd EXCEPT !.pc = "output", !.result = Failed]
    /\ UNCHANGED <<files, crashes, answered, halfway>>

\* The native command writes its handoff to the same file, then the preview adds its
\* own part; the flow is accepted or not.
WriteNativeHandoff(accepted) ==
    /\ cmd.pc = "native_output" /\ accepted \in Acceptances(cmd.result)
    /\ handoff' = Written(cmd.boundary, cmd.result)
    /\ cmd' = [cmd EXCEPT !.pc = "output", !.result = WithPreview(@, accepted)]
    /\ UNCHANGED <<approval, evidence, summary, crashes, answered, halfway>>

\* The package of copies and summaries that is written next to it is read by people only.
WriteHandoff ==
    /\ cmd.pc = "output"
    /\ handoff' = Written(cmd.boundary, cmd.result)
    /\ Exit
    /\ UNCHANGED <<approval, evidence, summary, crashes, answered, halfway>>

\* The process dies; the file it was writing may be torn.
Crash ==
    /\ cmd.pc # "idle" /\ crashes < MaxCrashes
    /\ crashes' = crashes + 1
    /\ halfway' = (halfway \/ cmd.pc = "summary")
    /\ evidence' \in {evidence} \union
           (IF cmd.pc = "ask" /\ cmd.todo = {} THEN {Torn} ELSE {})
    /\ summary' \in {summary} \union
           (IF \/ cmd.pc \in {"summary", "annotate"}
               \/ cmd.pc = "block" /\ summary = Missing THEN {Torn} ELSE {})
    /\ handoff' \in {handoff} \union
           (IF cmd.pc \in {"native_output", "output"} THEN {Torn} ELSE {})
    /\ Exit
    /\ UNCHANGED <<approval, answered>>

\* The operator approves a profile or withdraws it: between previews, or before the
\* report run of one reads it again (no step in between does) ...
EditApproval ==
    /\ cmd.pc \in {"idle", "native"}
    /\ approval' \in Profiles \union {NoProfile}
    /\ UNCHANGED <<evidence, summary, handoff, cmd, crashes, answered, halfway>>

\* ... and removes an evidence file that previews stumble over.
Discard ==
    /\ cmd.pc = "idle"
    /\ \/ evidence = Torn /\ evidence' = Missing /\ UNCHANGED summary
       \/ summary = Torn /\ summary' = Missing /\ UNCHANGED evidence
    /\ UNCHANGED <<approval, handoff, cmd, crashes, answered, halfway>>

Step ==
    \/ CheckReadiness \/ CheckApproval \/ Block \/ CheckOwnEvidence \/ PlanEvidence
    \/ \E p \in ProviderSet, a \in Answers : Ask(p, a)
    \/ WriteEvidence \/ WriteSummary \/ Annotate
    \/ RunReport \/ TimeOut \/ \E accepted \in BOOLEAN : WriteNativeHandoff(accepted)
    \/ WriteHandoff

Next ==
    \/ \E run \in Runs, request \in Requests, own \in BOOLEAN : Start(run, request, own)
    \/ Step
    \/ Crash \/ EditApproval \/ Discard

Spec == Init /\ [][Next]_vars

\* The process runs on, and a provider that is asked again and again answers at last:
\* what makes retries worth while, and the weakest thing that does.
Fairness ==
    /\ WF_vars(Step)
    /\ \A p \in ProviderSet : SF_vars(Ask(p, "success"))

FairSpec == Spec /\ Fairness

-----------------------------------------------------------------------------
(* Properties *)

Partial(f, S, T) == DOMAIN f \subseteq S /\ f \in [DOMAIN f -> T]
Phases == {"idle", "readiness", "approval", "block", "own", "plan", "ask", "summary",
           "annotate", "native", "native_output", "output"}
EvidenceBag(e) == Partial(e, Items, Nat \ {0})
Result(h) == h.status \in Statuses /\ h.shown \in BOOLEAN /\ h.met \in BOOLEAN

\* Files and memory of the preview; whoever is reused is not asked, and a preview that
\* is past its approval has a profile's leave.
TypeOK ==
    /\ approval \in Profiles \union {NoProfile}
    /\ \/ evidence \in {Missing, Torn}
       \/ evidence.is = "file" /\ EvidenceBag(evidence.data)
    /\ \/ summary \in {Missing, Torn}
       \/ /\ summary.is = "file"
          /\ summary.data.boundary \in Boundaries \union {NoBoundary}
          /\ Partial(summary.data.outcome, ProviderSet, Answers)
    /\ \/ handoff \in {Missing, Torn}
       \/ /\ handoff.is = "file" /\ Result(handoff.data)
          /\ handoff.data.met => /\ handoff.data.boundary \in Boundaries
                                 /\ EvidenceBag(handoff.data.evidence)
    /\ cmd.pc \in Phases
    /\ cmd.boundary \in Boundaries
    /\ cmd.reused \subseteq ProviderSet
    /\ cmd.todo \subseteq ProviderSet \ cmd.reused
    /\ EvidenceBag(cmd.kept)
    /\ Partial(cmd.keptOutcome, ProviderSet, Answers)
    /\ Partial(cmd.outcome, ProviderSet, Answers)
    /\ DOMAIN cmd.outcome \intersect (cmd.reused \union cmd.todo) = {}
    /\ Result(cmd.result) /\ EvidenceBag(cmd.result.evidence)
    /\ Partial(cmd.result.outcome, ProviderSet, Answers)
    /\ answered \subseteq Boundaries \X ProviderSet
    /\ crashes \in 0..MaxCrashes /\ halfway \in BOOLEAN

NewlyDeliverable == Deliverable(handoff') /\ handoff' # handoff
OfProviders(h) == ~h.boundary.own

\* A preview writes a handoff that may be sent only if every provider's last answer
\* within its smoke boundary was a success or no data: through retries, reuse of
\* earlier outcomes, other boundaries' previews in between, torn files and crashes
\* (_collect_or_reuse_..., _with_pre_publish_preview_metadata).  A preview that died
\* between the evidence file and its summary voids it, until one asks everybody again.
DeliverableIsAnswered ==
    [][(NewlyDeliverable /\ OfProviders(handoff'.data) /\ ~halfway) =>
          \A p \in ProviderSet :
              <<handoff'.data.boundary, p>> \in answered]_vars

\* The evidence behind a handoff that may be sent is what its providers brought within
\* its own smoke boundary: nothing lost in a merge, nothing twice, nothing of another
\* boundary.  The same death in between voids it.
DeliverableEvidenceIsExact ==
    [][(NewlyDeliverable /\ OfProviders(handoff'.data) /\ ~halfway) =>
          handoff'.data.evidence = ItemsOf(cmd.result.outcome, handoff'.data.boundary)]_vars

\* Retries converge: if previews with one boundary keep coming to the evidence plan,
\* and no torn file stops them, one day all its providers' outcomes are usable, even
\* if no single preview ever gets them all (the reuse of successful outcomes).
AllUsable(b) ==
    /\ summary.is = "file" /\ summary.data.boundary = b
    /\ \A p \in ProviderSet : p \in DOMAIN summary.data.outcome
                              /\ summary.data.outcome[p] \in Usable

RetriesConverge ==
    \A b \in {x \in Boundaries : ~x.own} :
        (/\ []<>(cmd.pc = "plan" /\ cmd.boundary = b)
         /\ <>[](cmd.pc \in {"plan", "own"} => cmd.boundary = b)
         /\ <>[](evidence # Torn /\ summary # Torn))
            => <>AllUsable(b)

=============================================================================
