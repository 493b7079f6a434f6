----------------------- MODULE PrePublishPreview_proofs -----------------------
(***************************************************************************)
(* Theorems about PrePublishPreview, for any requests, providers, profiles *)
(* and any number of previews that die.                                    *)
(***************************************************************************)
EXTENDS PrePublishPreview, TLAPS

\* Outcomes of every provider, and behind each usable one a last answer that was usable.
Good(outcome, b) ==
    \A p \in ProviderSet :
        /\ p \in DOMAIN outcome /\ outcome[p] \in Answers
        /\ outcome[p] \in Usable => <<b, p>> \in answered

ShapeInv ==
    /\ DOMAIN cmd = DOMAIN Idle /\ DOMAIN cmd.result = DOMAIN Failed
    /\ cmd.boundary \in Boundaries
    /\ cmd.pc \in {"plan", "ask", "summary"} => ~cmd.boundary.own
    /\ cmd.pc = "own" => cmd.boundary.own
    /\ cmd.pc \in {"readiness", "approval", "plan"} => cmd.reused = {} /\ cmd.outcome = << >>
    /\ evidence \in {Missing, Torn} \/ evidence.is = "file"
    /\ \/ summary \in {Missing, Torn}
       \/ summary.is = "file" /\ DOMAIN summary.data = {"boundary", "outcome"}
    /\ halfway \in BOOLEAN

\* The summary may be about other evidence than there is.
Suspended ==
    \/ halfway
    \/ evidence.is # "file"
    \/ cmd.pc = "summary" /\ cmd.reused = {}

\* A summary is worth reusing: behind its usable outcomes are last answers that were usable.
SummaryInv ==
    (summary.is = "file" /\ ~Suspended) =>
        \A b \in Boundaries : ~b.own =>
            \A p \in Reusable(summary.data, b) : <<b, p>> \in answered

\* While providers are asked: each is to be asked, reused, or has answered; what the
\* summary on disk could be reused for is not asked again.
AskInv ==
    cmd.pc \in {"ask", "summary"} =>
        /\ cmd.todo \subseteq ProviderSet /\ cmd.reused \subseteq ProviderSet
        /\ cmd.todo \intersect cmd.reused = {}
        /\ \A p \in ProviderSet : p \in cmd.todo \/ p \in cmd.reused \/ p \in DOMAIN cmd.outcome
        /\ \A p \in DOMAIN cmd.outcome :
              /\ p \notin cmd.reused /\ cmd.outcome[p] \in Answers
              /\ cmd.outcome[p] \in Usable => <<cmd.boundary, p>> \in answered
        /\ (cmd.pc = "ask" /\ evidence.is = "file" /\ summary.is = "file") =>
              Reusable(summary.data, cmd.boundary) \subseteq cmd.reused
        /\ cmd.pc = "summary" => cmd.todo = {} /\ evidence.is = "file"
        /\ cmd.reused # {} =>
              /\ evidence.is = "file"
              /\ \A p \in cmd.reused :
                    /\ p \in DOMAIN cmd.keptOutcome /\ cmd.keptOutcome[p] \in Usable
                    /\ ~halfway => <<cmd.boundary, p>> \in answered

\* Nobody is asked any more: the outcomes this preview goes on with are good.
Founded == ~cmd.boundary.own /\ ~halfway
LateInv ==
    /\ cmd.pc = "annotate" => summary.is = "file"
    /\ (cmd.pc \in {"annotate", "native"} /\ Founded /\ evidence.is = "file") =>
          summary.is = "file" /\ Good(summary.data.outcome, cmd.boundary)
    /\ (cmd.pc = "native_output" /\ Founded /\ cmd.result.status # "failed") =>
          Good(cmd.result.outcome, cmd.boundary)
    /\ cmd.pc = "native_output" => ~cmd.result.met
    /\ (cmd.pc = "output" /\ Founded /\ cmd.result.met) =>
          \A p \in ProviderSet : <<cmd.boundary, p>> \in answered

Inv == ShapeInv /\ SummaryInv /\ AskInv /\ LateInv

LEMMA SomeBoundaryType == SomeBoundary \in Boundaries
<1>1. PICK run \in Runs, request \in Requests, profile \in Profiles : TRUE
  BY RequestsAssumption DEF Profiles
<1>2. [run |-> run, request |-> request, own |-> TRUE, profile |-> profile] \in Boundaries
  BY DEF Boundaries
<1> QED
  BY <1>2 DEF SomeBoundary

LEMMA IdleShape ==
    /\ DOMAIN Idle = {"pc", "boundary", "todo", "reused", "kept", "keptOutcome", "outcome",
                      "result"}
    /\ Idle.pc = "idle" /\ Idle.boundary = SomeBoundary /\ Idle.result = Failed
    /\ DOMAIN Failed = {"status", "shown", "met", "evidence", "outcome"}
    /\ Idle.reused = {} /\ Idle.outcome = << >>
    /\ Failed.status = "failed" /\ ~Failed.met
BY DEF Idle, Failed

LEMMA FileShape ==
    /\ \A data : File(data).is = "file" /\ File(data).data = data
    /\ Missing.is # "file" /\ Torn.is # "file" /\ Missing # Torn
BY DEF File, Missing, Torn

LEMMA InitInv == Init => Inv
<1> SUFFICES ASSUME Init PROVE Inv
  OBVIOUS
<1>1. /\ cmd = Idle /\ evidence = Missing /\ summary = Missing /\ halfway = FALSE
  BY DEF Init
<1>2. ShapeInv
  BY <1>1, IdleShape, SomeBoundaryType DEF ShapeInv
<1>3. SummaryInv /\ AskInv /\ LateInv
  BY <1>1, IdleShape, FileShape DEF SummaryInv, AskInv, LateInv
<1> QED
  BY <1>2, <1>3 DEF Inv

\* The files stay, nobody answers, and the preview is not just between its evidence
\* files: what can be reused can still be.
LEMMA SummaryStays ==
    ASSUME Inv, UNCHANGED <<evidence, summary, answered, halfway>>, cmd.pc # "summary"
    PROVE  SummaryInv'
BY DEF Inv, SummaryInv, Suspended, Reusable

\* A step that ends the preview, or leads to a phase that the invariant says nothing of.
Early == {"idle", "readiness", "approval", "block", "own"}

LEMMA EarlyStep ==
    ASSUME Inv, UNCHANGED <<evidence, summary, answered, halfway>>, cmd.pc # "summary",
           DOMAIN cmd' = DOMAIN Idle, DOMAIN cmd'.result = DOMAIN Failed,
           cmd'.boundary \in Boundaries, cmd'.pc \in Early \union {"plan"},
           cmd'.pc = "plan" => ~cmd'.boundary.own, cmd'.pc = "own" => cmd'.boundary.own,
           cmd'.pc \in {"readiness", "approval", "plan"} =>
              cmd'.reused = {} /\ cmd'.outcome = << >>
    PROVE  Inv'
<1>1. SummaryInv'
  BY SummaryStays
<1>2. ShapeInv'
  BY DEF Inv, ShapeInv, Early
<1>3. AskInv' /\ LateInv'
  BY DEF AskInv, LateInv, Early
<1> QED
  BY <1>1, <1>2, <1>3 DEF Inv

LEMMA ExitInv ==
    ASSUME Inv, UNCHANGED <<evidence, summary, answered, halfway>>, cmd.pc # "summary", Exit
    PROVE  Inv'
<1>1. cmd' = Idle
  BY DEF Exit
<1> QED
  BY <1>1, IdleShape, SomeBoundaryType, EarlyStep DEF Early

LEMMA GotoShape ==
    ASSUME Inv, NEW pc, Goto(pc)
    PROVE  /\ DOMAIN cmd' = DOMAIN Idle /\ cmd'.pc = pc
           /\ cmd'.boundary = cmd.boundary /\ cmd'.todo = cmd.todo /\ cmd'.reused = cmd.reused
           /\ cmd'.keptOutcome = cmd.keptOutcome /\ cmd'.outcome = cmd.outcome
           /\ cmd'.result = cmd.result
BY IdleShape DEF Inv, ShapeInv, Goto

LEMMA EarlyInv ==
    ASSUME Inv,
           \/ \E run \in Runs, request \in Requests, own \in BOOLEAN : Start(run, request, own)
           \/ CheckReadiness \/ CheckApproval
    PROVE  Inv'
<1>1. ASSUME NEW run \in Runs, NEW request \in Requests, NEW own \in BOOLEAN,
             Start(run, request, own)
      PROVE  Inv'
  <2> DEFINE b == [SomeBoundary EXCEPT !.run = run, !.request = request, !.own = own]
             new == [Idle EXCEPT !.pc = "readiness", !.boundary = b]
  <2>1. cmd' = new /\ cmd.pc = "idle" /\ UNCHANGED <<evidence, summary, answered, halfway>>
    BY <1>1, IdleShape DEF Start, files
  <2>2. b \in Boundaries
    BY SomeBoundaryType DEF Boundaries
  <2> HIDE DEF b
  <2>3. DOMAIN new = DOMAIN Idle /\ new.pc = "readiness" /\ new.boundary = b
        /\ new.result = Failed /\ new.reused = {} /\ new.outcome = << >>
    BY IdleShape
  <2> QED
    BY <2>1, <2>2, <2>3, IdleShape, EarlyStep DEF Early
<1>2. CASE CheckReadiness
  <2>1. /\ cmd.pc = "readiness" /\ UNCHANGED <<evidence, summary, answered, halfway>>
        /\ Exit \/ Goto("block") \/ Goto("approval")
    BY <1>2 DEF CheckReadiness, files
  <2>2. /\ cmd.boundary \in Boundaries /\ DOMAIN cmd.result = DOMAIN Failed
        /\ cmd.reused = {} /\ cmd.outcome = << >>
    BY <2>1 DEF Inv, ShapeInv
  <2> QED
    BY <2>1, <2>2, ExitInv, GotoShape, EarlyStep DEF Early
<1>3. CASE CheckApproval
  <2> DEFINE b == [cmd.boundary EXCEPT !.profile = approval]
             pc == IF cmd.boundary.own THEN "own" ELSE "plan"
             new == [cmd EXCEPT !.pc = pc, !.boundary = b]
  <2>1. /\ cmd.pc = "approval" /\ UNCHANGED <<evidence, summary, answered, halfway>>
    BY <1>3 DEF CheckApproval, files
  <2>2. /\ cmd.boundary \in Boundaries /\ DOMAIN cmd.result = DOMAIN Failed
        /\ DOMAIN cmd = DOMAIN Idle /\ cmd.reused = {} /\ cmd.outcome = << >>
    BY <2>1 DEF Inv, ShapeInv
  <2>3. \/ approval \in Profiles /\ cmd' = new
        \/ Goto("block")
    BY <1>3, <2>2, IdleShape DEF CheckApproval
  <2>4. CASE approval \in Profiles /\ cmd' = new
    <3>1. b \in Boundaries /\ b.own = cmd.boundary.own
      BY <2>2, <2>4 DEF Boundaries
    <3>2. pc \in {"own", "plan"} /\ (pc = "own" <=> cmd.boundary.own)
      OBVIOUS
    <3> HIDE DEF b, pc
    <3>3. /\ DOMAIN new = DOMAIN Idle /\ new.pc = pc /\ new.boundary = b
          /\ new.result = cmd.result /\ new.reused = {} /\ new.outcome = << >>
      BY <2>2, IdleShape
    <3> QED
      BY <2>1, <2>2, <2>4, <3>1, <3>2, <3>3, EarlyStep DEF Early
  <2>5. CASE Goto("block")
    BY <2>1, <2>2, <2>5, GotoShape, EarlyStep DEF Early
  <2> QED
    BY <2>3, <2>4, <2>5
<1> QED
  BY <1>1, <1>2, <1>3

\* Without a boundary nothing is reused.
LEMMA NotABoundary == NoBoundary \notin Boundaries
<1>1. DOMAIN NoBoundary = {"run"}
  BY DEF NoBoundary
<1>2. \A b \in Boundaries : "own" \in DOMAIN b
  BY DEF Boundaries
<1> QED
  BY <1>1, <1>2

LEMMA BlockInv ==
    ASSUME Inv, Block
    PROVE  Inv'
<1>1. cmd.pc = "block" /\ UNCHANGED <<evidence, answered, halfway>>
  BY DEF Block
<1>2. CASE summary = Torn
  BY <1>1, <1>2, ExitInv DEF Block
<1>3. CASE summary # Torn
  <2> DEFINE new == [cmd EXCEPT !.pc = "output", !.result = Failed]
  <2>1. cmd' = new /\ summary' = IF summary = Missing THEN File(NotRun) ELSE summary
    BY <1>3 DEF Block
  <2>2. DOMAIN cmd = DOMAIN Idle /\ cmd.boundary \in Boundaries
    BY DEF Inv, ShapeInv
  <2>3. /\ DOMAIN new = DOMAIN Idle /\ new.pc = "output" /\ new.result = Failed
        /\ new.boundary = cmd.boundary
    BY <2>2, IdleShape
  <2> HIDE DEF new
  <2>4. /\ File(NotRun).is = "file" /\ File(NotRun).data = NotRun
        /\ DOMAIN NotRun = {"boundary", "outcome"} /\ NotRun.boundary = NoBoundary
    BY FileShape DEF NotRun
  <2>5. ShapeInv'
    BY <1>1, <2>1, <2>2, <2>3, <2>4 DEF Inv, ShapeInv
  <2>6. SummaryInv'
    <3>1. CASE summary = Missing
      BY <2>1, <2>4, <3>1, NotABoundary DEF SummaryInv, Reusable
    <3>2. CASE summary # Missing
      BY <1>1, <2>1, <3>2, SummaryStays
    <3> QED
      BY <3>1, <3>2
  <2>7. AskInv' /\ LateInv'
    BY <2>1, <2>3, IdleShape DEF AskInv, LateInv
  <2> QED
    BY <2>5, <2>6, <2>7 DEF Inv
<1> QED
  BY <1>2, <1>3

\* The operator's own evidence needs no answers.
LEMMA CheckOwnEvidenceInv ==
    ASSUME Inv, CheckOwnEvidence
    PROVE  Inv'
<1>1. /\ cmd.pc = "own" /\ UNCHANGED <<evidence, summary, answered, halfway>>
      /\ Exit \/ (summary.is = "file" /\ Goto("annotate"))
      /\ cmd.boundary.own
  BY DEF CheckOwnEvidence, files, Inv, ShapeInv
<1>2. CASE Exit
  BY <1>1, <1>2, ExitInv
<1>3. CASE summary.is = "file" /\ Goto("annotate")
  <2>1. cmd'.pc = "annotate" /\ cmd'.boundary = cmd.boundary /\ DOMAIN cmd' = DOMAIN Idle
        /\ cmd'.result = cmd.result
    BY <1>3, GotoShape
  <2>2. ShapeInv'
    BY <1>1, <2>1 DEF Inv, ShapeInv
  <2>3. SummaryInv'
    BY <1>1, SummaryStays
  <2>4. AskInv' /\ LateInv'
    BY <1>1, <1>3, <2>1 DEF AskInv, LateInv, Founded
  <2> QED
    BY <2>2, <2>3, <2>4 DEF Inv
<1> QED
  BY <1>1, <1>2, <1>3

\* Everybody is asked.
LEMMA AskAllInv ==
    ASSUME Inv, cmd.pc = "plan", AskAll,
           UNCHANGED <<evidence, summary, answered, halfway>>,
           (evidence.is = "file" /\ summary.is = "file")
              => Reusable(summary.data, cmd.boundary) = {}
    PROVE  Inv'
<1> DEFINE new == [cmd EXCEPT !.pc = "ask", !.todo = ProviderSet]
<1>1. cmd' = new
  BY DEF AskAll
<1>2. DOMAIN cmd = DOMAIN Idle /\ cmd.boundary \in Boundaries /\ ~cmd.boundary.own
      /\ DOMAIN cmd.result = DOMAIN Failed /\ cmd.reused = {} /\ cmd.outcome = << >>
  BY DEF Inv, ShapeInv
<1>3. /\ DOMAIN new = DOMAIN Idle /\ new.pc = "ask" /\ new.todo = ProviderSet
      /\ new.boundary = cmd.boundary /\ new.reused = {} /\ new.outcome = << >>
      /\ new.result = cmd.result
  BY <1>2, IdleShape
<1> HIDE DEF new
<1>4. ShapeInv'
  BY <1>1, <1>2, <1>3 DEF Inv, ShapeInv
<1>5. SummaryInv'
  BY SummaryStays
<1>6. AskInv'
  <2>1. DOMAIN << >> = {}
    OBVIOUS
  <2>2. (evidence.is = "file" /\ summary.is = "file")'
            => Reusable(summary.data, cmd.boundary)' = {}
    BY <1>1, <1>3 DEF Reusable
  <2> QED
    BY <1>1, <1>3, <2>1, <2>2 DEF AskInv
<1>7. LateInv'
  BY <1>1, <1>3 DEF LateInv
<1> QED
  BY <1>4, <1>5, <1>6, <1>7 DEF Inv

LEMMA PlanEvidenceInv ==
    ASSUME Inv, PlanEvidence
    PROVE  Inv'
<1> DEFINE reused == Reusable(summary.data, cmd.boundary)
           new == [cmd EXCEPT !.pc = "ask", !.reused = reused, !.todo = ProviderSet \ reused,
                      !.kept = evidence.data, !.keptOutcome = summary.data.outcome]
<1>1. cmd.pc = "plan" /\ UNCHANGED <<evidence, summary, answered, halfway>>
  BY DEF PlanEvidence, files
<1>2. /\ DOMAIN cmd = DOMAIN Idle /\ cmd.boundary \in Boundaries /\ ~cmd.boundary.own
      /\ DOMAIN cmd.result = DOMAIN Failed
      /\ summary = Missing \/ summary = Torn \/ summary.is = "file"
      /\ evidence = Missing \/ evidence = Torn \/ evidence.is = "file"
      /\ cmd.reused = {} /\ cmd.outcome = << >>
  BY <1>1 DEF Inv, ShapeInv
<1>3. CASE evidence = Missing \/ summary = Missing
  <2>1. AskAll /\ ~(evidence.is = "file" /\ summary.is = "file")
    BY <1>3, FileShape DEF PlanEvidence
  <2> QED
    BY <1>1, <2>1, AskAllInv
<1>4. CASE Exit
  BY <1>1, <1>4, ExitInv
<1>5. CASE reused = {} /\ AskAll
  BY <1>1, <1>5, AskAllInv
<1>6. CASE summary.is = "file" /\ reused = ProviderSet /\ Goto("annotate")
  <2>1. cmd'.pc = "annotate" /\ cmd'.boundary = cmd.boundary /\ DOMAIN cmd' = DOMAIN Idle
        /\ cmd'.result = cmd.result
    BY <1>6, GotoShape
  <2>2. ShapeInv'
    BY <1>1, <2>1 DEF Inv, ShapeInv
  <2>3. SummaryInv'
    BY <1>1, SummaryStays
  <2>4. (~halfway /\ evidence.is = "file") => Good(summary.data.outcome, cmd.boundary)
    <3> SUFFICES ASSUME ~halfway, evidence.is = "file", NEW p \in ProviderSet
                 PROVE  /\ p \in DOMAIN summary.data.outcome
                        /\ summary.data.outcome[p] \in Answers
                        /\ <<cmd.boundary, p>> \in answered
      BY DEF Good
    <3>1. p \in reused
      BY <1>6
    <3>2. p \in DOMAIN summary.data.outcome /\ summary.data.outcome[p] \in Answers
      BY <3>1 DEF Reusable, Usable, Answers
    <3>3. ~Suspended
      BY <1>1 DEF Suspended
    <3> HIDE DEF reused
    <3>4. <<cmd.boundary, p>> \in answered
      BY <1>2, <1>6, <3>1, <3>3 DEF Inv, SummaryInv, reused
    <3> QED
      BY <3>2, <3>4
  <2>5. AskInv'
    BY <2>1 DEF AskInv
  <2>6. LateInv'
    BY <1>1, <1>6, <2>1, <2>4 DEF LateInv, Founded, Good
  <2> QED
    BY <2>2, <2>3, <2>5, <2>6 DEF Inv
<1>7. CASE summary.is = "file" /\ evidence.is = "file" /\ cmd' = new
  <2>1. /\ DOMAIN new = DOMAIN Idle /\ new.pc = "ask" /\ new.todo = ProviderSet \ reused
        /\ new.reused = reused /\ new.boundary = cmd.boundary /\ new.outcome = << >>
        /\ new.keptOutcome = summary.data.outcome /\ new.result = cmd.result
    BY <1>2, IdleShape
  <2>2. /\ reused \subseteq ProviderSet
        /\ \A p \in reused : /\ p \in DOMAIN summary.data.outcome
                             /\ summary.data.outcome[p] \in Usable
    BY DEF Reusable
  <2>3. ~halfway => \A p \in reused : <<cmd.boundary, p>> \in answered
    BY <1>1, <1>2, <1>7 DEF Inv, SummaryInv, Suspended
  <2>4. Reusable(summary.data, cmd.boundary)' = reused
    BY <1>1, <1>7, <2>1 DEF Reusable
  <2> HIDE DEF new, reused
  <2>5. ShapeInv'
    BY <1>1, <1>2, <1>7, <2>1 DEF Inv, ShapeInv
  <2>6. SummaryInv'
    BY <1>1, SummaryStays
  <2>7. DOMAIN << >> = {}
    OBVIOUS
  <2>8. AskInv'
    BY <1>1, <1>7, <2>1, <2>2, <2>3, <2>4, <2>7 DEF AskInv
  <2>9. LateInv'
    BY <1>7, <2>1 DEF LateInv
  <2> QED
    BY <2>5, <2>6, <2>8, <2>9 DEF Inv
<1> QED
  BY <1>2, <1>3, <1>4, <1>5, <1>6, <1>7 DEF PlanEvidence

\* The provider that answers is not reused, so that what the summary on disk can be
\* reused for stays answered.
LEMMA AskStepInv ==
    ASSUME Inv, NEW p \in ProviderSet, NEW answer \in Answers, Ask(p, answer)
    PROVE  Inv'
<1> DEFINE outcome == [q \in DOMAIN cmd.outcome \union {p} |->
                          IF q = p THEN answer ELSE cmd.outcome[q]]
           new == [cmd EXCEPT !.todo = @ \ {p}, !.outcome = outcome]
<1>1. cmd' = new /\ cmd.pc = "ask" /\ p \in cmd.todo
  BY DEF Ask
<1>2. /\ UNCHANGED <<evidence, summary, halfway>>
      /\ answered' = IF answer \in Usable THEN answered \union {<<cmd.boundary, p>>}
                     ELSE answered \ {<<cmd.boundary, p>>}
  BY DEF Ask, files
<1>3. DOMAIN cmd = DOMAIN Idle /\ cmd.boundary \in Boundaries /\ ~cmd.boundary.own
      /\ DOMAIN cmd.result = DOMAIN Failed
  BY <1>1 DEF Inv, ShapeInv
<1>4. /\ DOMAIN new = DOMAIN Idle /\ new.pc = "ask" /\ new.todo = cmd.todo \ {p}
      /\ new.reused = cmd.reused /\ new.boundary = cmd.boundary /\ new.outcome = outcome
      /\ new.keptOutcome = cmd.keptOutcome /\ new.result = cmd.result
  BY <1>1, <1>3, IdleShape
<1>5. /\ DOMAIN outcome = DOMAIN cmd.outcome \union {p}
      /\ outcome[p] = answer
      /\ \A q \in DOMAIN cmd.outcome : q # p => outcome[q] = cmd.outcome[q]
  OBVIOUS
<1> HIDE DEF new, outcome
<1>6. /\ \A b, q : q # p => (<<b, q>> \in answered' <=> <<b, q>> \in answered)
      /\ \A b, q : b # cmd.boundary => (<<b, q>> \in answered' <=> <<b, q>> \in answered)
      /\ answer \in Usable => <<cmd.boundary, p>> \in answered'
  BY <1>2
<1>7. ShapeInv'
  BY <1>1, <1>2, <1>3, <1>4 DEF Inv, ShapeInv
<1>8. p \notin cmd.reused
  BY <1>1 DEF Inv, AskInv
<1>9. SummaryInv'
  <2> SUFFICES ASSUME summary.is = "file", ~Suspended', NEW b \in Boundaries, ~b.own,
                      NEW q \in Reusable(summary.data, b)
               PROVE  <<b, q>> \in answered'
    BY <1>2 DEF SummaryInv, Reusable
  <2>1. ~Suspended /\ evidence.is = "file"
    BY <1>1, <1>2 DEF Suspended
  <2>2. <<b, q>> \in answered
    BY <2>1 DEF Inv, SummaryInv
  <2>3. CASE b = cmd.boundary
    <3>1. q \in cmd.reused
      BY <1>1, <2>1, <2>3 DEF Inv, AskInv
    <3> QED
      BY <1>6, <1>8, <2>2, <3>1
  <2> QED
    BY <1>6, <2>2, <2>3
<1>10. AskInv'
  <2>1. (evidence.is = "file" /\ summary.is = "file")'
            => Reusable(summary.data, cmd.boundary)' \subseteq cmd.reused
    BY <1>1, <1>2, <1>4 DEF Inv, AskInv, Reusable
  <2>2. \A q \in DOMAIN outcome :
           /\ q \notin cmd.reused /\ outcome[q] \in Answers
           /\ outcome[q] \in Usable => <<cmd.boundary, q>> \in answered'
    BY <1>1, <1>5, <1>6, <1>8 DEF Inv, AskInv
  <2>3. cmd.reused # {} =>
           /\ evidence.is = "file"
           /\ \A q \in cmd.reused :
                 /\ q \in DOMAIN cmd.keptOutcome /\ cmd.keptOutcome[q] \in Usable
                 /\ ~halfway => <<cmd.boundary, q>> \in answered'
    BY <1>1, <1>6, <1>8 DEF Inv, AskInv
  <2>4. /\ cmd.todo \subseteq ProviderSet /\ cmd.reused \subseteq ProviderSet
        /\ cmd.todo \intersect cmd.reused = {}
        /\ \A q \in ProviderSet : q \in cmd.todo \/ q \in cmd.reused \/ q \in DOMAIN cmd.outcome
    BY <1>1 DEF Inv, AskInv
  <2> QED
    BY <1>1, <1>2, <1>4, <1>5, <2>1, <2>2, <2>3, <2>4 DEF AskInv
<1>11. LateInv'
  BY <1>1, <1>4 DEF LateInv
<1> QED
  BY <1>7, <1>9, <1>10, <1>11 DEF Inv

LEMMA WriteEvidenceInv ==
    ASSUME Inv, WriteEvidence
    PROVE  Inv'
<1>1. /\ cmd.pc = "ask" /\ cmd.todo = {} /\ Goto("summary")
      /\ UNCHANGED <<summary, answered, halfway>>
      /\ evidence'.is = "file"
  BY FileShape DEF WriteEvidence
<1>2. /\ DOMAIN cmd' = DOMAIN Idle /\ cmd'.pc = "summary"
      /\ cmd'.boundary = cmd.boundary /\ cmd'.todo = cmd.todo /\ cmd'.reused = cmd.reused
      /\ cmd'.keptOutcome = cmd.keptOutcome /\ cmd'.outcome = cmd.outcome
      /\ cmd'.result = cmd.result
  BY <1>1, GotoShape
<1>3. ShapeInv'
  BY <1>1, <1>2 DEF Inv, ShapeInv
<1>4. SummaryInv'
  <2>1. CASE cmd.reused = {}
    BY <1>2, <2>1 DEF SummaryInv, Suspended
  <2>2. CASE cmd.reused # {}
    <3>1. evidence.is = "file"
      BY <1>1, <2>2 DEF Inv, AskInv
    <3>2. Suspended' <=> Suspended
      BY <1>1, <1>2, <2>2, <3>1 DEF Suspended
    <3> QED
      BY <1>1, <3>2 DEF Inv, SummaryInv, Reusable
  <2> QED
    BY <2>1, <2>2
<1>5. AskInv'
  BY <1>1, <1>2 DEF Inv, AskInv
<1>6. LateInv'
  BY <1>2 DEF LateInv
<1> QED
  BY <1>3, <1>4, <1>5, <1>6 DEF Inv

\* The new summary, whole or merged, has a good outcome of every provider.
LEMMA WriteSummaryInv ==
    ASSUME Inv, WriteSummary
    PROVE  Inv'
<1>1. /\ cmd.pc = "summary" /\ cmd.todo = {} /\ evidence.is = "file"
      /\ UNCHANGED <<evidence, answered>>
      /\ cmd.boundary \in Boundaries /\ ~cmd.boundary.own
  BY DEF WriteSummary, Inv, AskInv, ShapeInv
<1>2. \A p \in DOMAIN cmd.outcome :
         /\ p \notin cmd.reused /\ cmd.outcome[p] \in Answers
         /\ cmd.outcome[p] \in Usable => <<cmd.boundary, p>> \in answered
  BY <1>1 DEF Inv, AskInv
<1>3. \A p \in ProviderSet : p \in cmd.reused \/ p \in DOMAIN cmd.outcome
  BY <1>1 DEF Inv, AskInv
<1>4. CASE cmd.reused = {}
  <2> DEFINE data == [boundary |-> NoBoundary, outcome |-> cmd.outcome]
  <2>1. summary' = File(data) /\ Goto("annotate") /\ halfway' = FALSE
    BY <1>4 DEF WriteSummary
  <2>2. /\ summary'.is = "file" /\ summary'.data = data
        /\ DOMAIN data = {"boundary", "outcome"}
        /\ data.boundary = NoBoundary /\ data.outcome = cmd.outcome
    BY <2>1, FileShape
  <2> HIDE DEF data
  <2>3. cmd'.pc = "annotate" /\ cmd'.boundary = cmd.boundary /\ DOMAIN cmd' = DOMAIN Idle
        /\ cmd'.result = cmd.result
    BY <2>1, GotoShape
  <2>4. ShapeInv'
    BY <1>1, <2>1, <2>2, <2>3 DEF Inv, ShapeInv
  <2>5. SummaryInv'
    BY <2>2, NotABoundary DEF SummaryInv, Reusable
  <2>6. AskInv'
    BY <2>3 DEF AskInv
  <2>7. LateInv'
    BY <1>1, <1>2, <1>3, <1>4, <2>2, <2>3 DEF LateInv, Good
  <2> QED
    BY <2>4, <2>5, <2>6, <2>7 DEF Inv
<1>5. CASE cmd.reused # {}
  <2> DEFINE merged == MergedOutcome(cmd.keptOutcome, cmd.outcome, cmd.reused)
             data == [boundary |-> cmd.boundary, outcome |-> merged]
  <2>1. summary' = File(data) /\ Goto("native") /\ halfway' = halfway
    BY <1>5 DEF WriteSummary
  <2>2. /\ summary'.is = "file" /\ summary'.data = data
        /\ DOMAIN data = {"boundary", "outcome"}
        /\ data.boundary = cmd.boundary /\ data.outcome = merged
    BY <2>1, FileShape
  <2>3. cmd'.pc = "native" /\ cmd'.boundary = cmd.boundary /\ DOMAIN cmd' = DOMAIN Idle
        /\ cmd'.result = cmd.result
    BY <2>1, GotoShape
  <2>4. \A p \in cmd.reused :
           /\ p \in DOMAIN cmd.keptOutcome /\ cmd.keptOutcome[p] \in Usable
           /\ ~halfway => <<cmd.boundary, p>> \in answered
    BY <1>1, <1>5 DEF Inv, AskInv
  <2>5. /\ DOMAIN merged = (DOMAIN cmd.keptOutcome \intersect cmd.reused) \union DOMAIN cmd.outcome
        /\ \A p \in DOMAIN merged :
              merged[p] = IF p \in cmd.reused THEN cmd.keptOutcome[p] ELSE cmd.outcome[p]
    BY DEF MergedOutcome
  <2> HIDE DEF merged, data
  <2>6. ~halfway => Good(merged, cmd.boundary)
    <3> SUFFICES ASSUME ~halfway, NEW p \in ProviderSet
                 PROVE  /\ p \in DOMAIN merged /\ merged[p] \in Answers
                        /\ merged[p] \in Usable => <<cmd.boundary, p>> \in answered
      BY DEF Good
    <3>1. CASE p \in cmd.reused
      BY <2>4, <2>5, <3>1 DEF Usable, Answers
    <3>2. CASE p \notin cmd.reused
      BY <1>2, <1>3, <2>5, <3>2
    <3> QED
      BY <3>1, <3>2
  <2>7. ShapeInv'
    BY <1>1, <2>1, <2>2, <2>3 DEF Inv, ShapeInv
  <2>8. SummaryInv'
    <3> SUFFICES ASSUME ~halfway, NEW b \in Boundaries, NEW p \in Reusable(data, b)
                 PROVE  <<b, p>> \in answered
      BY <1>1, <2>1, <2>2 DEF SummaryInv, Suspended, Reusable
    <3> QED
      BY <2>2, <2>6 DEF Reusable, Good
  <2>9. AskInv'
    BY <2>3 DEF AskInv
  <2>10. LateInv'
    BY <1>1, <2>1, <2>2, <2>3, <2>6 DEF LateInv, Good, Founded
  <2> QED
    BY <2>7, <2>8, <2>9, <2>10 DEF Inv
<1> QED
  BY <1>4, <1>5

LEMMA AnnotateInv ==
    ASSUME Inv, Annotate
    PROVE  Inv'
<1> DEFINE data == [summary.data EXCEPT !.boundary = cmd.boundary]
<1>1. /\ cmd.pc = "annotate" /\ Goto("native") /\ summary' = File(data)
      /\ UNCHANGED <<evidence, answered, halfway>>
  BY DEF Annotate
<1>2. summary.is = "file" /\ DOMAIN summary.data = {"boundary", "outcome"}
      /\ cmd.boundary \in Boundaries
  BY <1>1, FileShape DEF Inv, LateInv, ShapeInv
<1>3. /\ summary'.is = "file" /\ summary'.data = data
      /\ DOMAIN data = {"boundary", "outcome"}
      /\ data.boundary = cmd.boundary /\ data.outcome = summary.data.outcome
  BY <1>1, <1>2, FileShape
<1> HIDE DEF data
<1>4. cmd'.pc = "native" /\ cmd'.boundary = cmd.boundary /\ DOMAIN cmd' = DOMAIN Idle
      /\ cmd'.result = cmd.result
  BY <1>1, GotoShape
<1>5. (Founded /\ evidence.is = "file") => Good(summary.data.outcome, cmd.boundary)
  BY <1>1 DEF Inv, LateInv
<1>6. ShapeInv'
  BY <1>1, <1>3, <1>4 DEF Inv, ShapeInv
<1>7. SummaryInv'
  <2> SUFFICES ASSUME ~halfway, evidence.is = "file", NEW b \in Boundaries, ~b.own,
                      NEW p \in Reusable(data, b)
               PROVE  <<b, p>> \in answered
    BY <1>1, <1>3 DEF SummaryInv, Suspended, Reusable
  <2> QED
    BY <1>3, <1>5 DEF Reusable, Good, Founded
<1>8. AskInv'
  BY <1>4 DEF AskInv
<1>9. LateInv'
  BY <1>1, <1>3, <1>4, <1>5 DEF LateInv, Good, Founded
<1> QED
  BY <1>6, <1>7, <1>8, <1>9 DEF Inv

\* The preview goes on to a phase that writes the handoff.
LEMMA ToHandoff ==
    ASSUME Inv, UNCHANGED <<evidence, summary, answered, halfway>>, cmd.pc # "summary",
           NEW pc \in {"native_output", "output"}, NEW result,
           cmd' = [cmd EXCEPT !.pc = pc, !.result = result],
           DOMAIN result = DOMAIN Failed,
           pc = "native_output" =>
              /\ ~result.met
              /\ (Founded /\ result.status # "failed") => Good(result.outcome, cmd.boundary),
           (pc = "output" /\ Founded /\ result.met) =>
              \A p \in ProviderSet : <<cmd.boundary, p>> \in answered
    PROVE  Inv'
<1>1. DOMAIN cmd = DOMAIN Idle /\ cmd.boundary \in Boundaries
  BY DEF Inv, ShapeInv
<1>2. cmd'.pc = pc /\ cmd'.result = result /\ cmd'.boundary = cmd.boundary
      /\ DOMAIN cmd' = DOMAIN Idle
  BY <1>1, IdleShape
<1>3. ShapeInv'
  BY <1>1, <1>2 DEF Inv, ShapeInv
<1>4. SummaryInv'
  BY SummaryStays
<1>5. AskInv'
  BY <1>2 DEF AskInv
<1>6. LateInv'
  BY <1>2 DEF LateInv, Founded, Good
<1> QED
  BY <1>3, <1>4, <1>5, <1>6 DEF Inv

LEMMA RunReportInv ==
    ASSUME Inv, RunReport \/ TimeOut
    PROVE  Inv'
<1>1. cmd.pc = "native" /\ UNCHANGED <<evidence, summary, answered, halfway>>
  BY DEF RunReport, TimeOut, files
<1>2. CASE Exit
  BY <1>1, <1>2, ExitInv
<1>3. CASE TimeOut
  <2>1. cmd' = [cmd EXCEPT !.pc = "output", !.result = Failed]
    BY <1>3 DEF TimeOut
  <2> QED
    BY <1>1, <2>1, IdleShape, ToHandoff
<1>4. ASSUME NEW s \in ReportStatuses, evidence.is = "file",
             cmd' = [cmd EXCEPT !.pc = "native_output",
                        !.result = IF s = "failed" THEN Failed
                                   ELSE [status |-> s, shown |-> FALSE, met |-> FALSE,
                                         evidence |-> evidence.data,
                                         outcome |-> summary.data.outcome]]
      PROVE  Inv'
  <2> DEFINE whole == [status |-> s, shown |-> FALSE, met |-> FALSE,
                       evidence |-> evidence.data, outcome |-> summary.data.outcome]
             result == IF s = "failed" THEN Failed ELSE whole
  <2>1. Founded => Good(summary.data.outcome, cmd.boundary)
    BY <1>1, <1>4 DEF Inv, LateInv
  <2>2. /\ DOMAIN whole = {"status", "shown", "met", "evidence", "outcome"}
        /\ ~whole.met /\ whole.status = s /\ whole.outcome = summary.data.outcome
    OBVIOUS
  <2>3. cmd' = [cmd EXCEPT !.pc = "native_output", !.result = result]
    BY <1>4
  <2> HIDE DEF whole
  <2>4. /\ DOMAIN result = DOMAIN Failed /\ ~result.met
        /\ (Founded /\ result.status # "failed") => Good(result.outcome, cmd.boundary)
    BY <2>1, <2>2, IdleShape
  <2> HIDE DEF result
  <2> QED
    BY <1>1, <2>3, <2>4, ToHandoff
<1> QED
  BY <1>2, <1>3, <1>4 DEF RunReport

\* A closure that is met has no failed provider, so that every good outcome is usable.
LEMMA MetIsUsable ==
    ASSUME NEW result, DOMAIN result = DOMAIN Failed, NEW accepted \in BOOLEAN,
           NEW b, result.status # "failed" => Good(result.outcome, b)
    PROVE  /\ DOMAIN WithPreview(result, accepted) = DOMAIN Failed
           /\ WithPreview(result, accepted).met =>
                 \A p \in ProviderSet : <<b, p>> \in answered
<1> DEFINE status == IF result.status = "user_ready" /\ EvidenceNeedsReview(result.outcome)
                     THEN "operator_review_only" ELSE result.status
           met == ClosureMet(status, result.outcome, accepted)
<1>1. WithPreview(result, accepted) = [result EXCEPT !.status = status, !.shown = TRUE, !.met = met]
  BY DEF WithPreview
<1>2. met => /\ result.status = "user_ready"
             /\ \A p \in DOMAIN result.outcome : result.outcome[p] # "failed"
  BY DEF ClosureMet, RequiredFailures
<1> HIDE DEF met, status
<1>3. /\ DOMAIN WithPreview(result, accepted) = DOMAIN Failed
      /\ WithPreview(result, accepted).met = met
  BY <1>1, IdleShape
<1>4. met => \A p \in ProviderSet : <<b, p>> \in answered
  BY <1>2 DEF Good, Answers, Usable
<1> QED
  BY <1>3, <1>4

LEMMA WriteNativeHandoffInv ==
    ASSUME Inv, NEW accepted \in BOOLEAN, WriteNativeHandoff(accepted)
    PROVE  Inv'
<1> DEFINE result == WithPreview(cmd.result, accepted)
<1>1. /\ cmd.pc = "native_output" /\ UNCHANGED <<evidence, summary, answered, halfway>>
      /\ cmd' = [cmd EXCEPT !.pc = "output", !.result = WithPreview(cmd.result, accepted)]
  BY DEF WriteNativeHandoff
<1>2. DOMAIN cmd.result = DOMAIN Failed
  BY DEF Inv, ShapeInv
<1>3. DOMAIN result = DOMAIN Failed
  <2>1. DOMAIN [cmd.result EXCEPT !.status = 0, !.shown = 0, !.met = 0] = DOMAIN Failed
    BY <1>2
  <2> QED
    BY <1>2 DEF WithPreview
<1>4. (Founded /\ result.met) => \A p \in ProviderSet : <<cmd.boundary, p>> \in answered
  <2> SUFFICES ASSUME Founded
               PROVE  result.met => \A p \in ProviderSet : <<cmd.boundary, p>> \in answered
    OBVIOUS
  <2>1. cmd.result.status # "failed" => Good(cmd.result.outcome, cmd.boundary)
    BY <1>1 DEF Inv, LateInv
  <2> QED
    BY <1>2, <2>1, MetIsUsable
<1> HIDE DEF result
<1>5. cmd' = [cmd EXCEPT !.pc = "output", !.result = result]
  BY <1>1 DEF result
<1> QED
  BY <1>1, <1>3, <1>4, <1>5, ToHandoff

LEMMA WriteHandoffInv ==
    ASSUME Inv, WriteHandoff
    PROVE  Inv'
<1>1. cmd.pc = "output" /\ UNCHANGED <<evidence, summary, answered, halfway>> /\ Exit
  BY DEF WriteHandoff
<1> QED
  BY <1>1, ExitInv

\* A preview that dies leaves the evidence files usable, torn, or halfway.
LEMMA CrashInv ==
    ASSUME Inv, Crash
    PROVE  Inv'
<1>1. /\ cmd' = Idle /\ UNCHANGED answered
      /\ halfway' = (halfway \/ cmd.pc = "summary")
      /\ evidence' = evidence \/ evidence' = Torn
      /\ summary' = summary \/ summary' = Torn
  BY DEF Crash, Exit
<1>2. ShapeInv'
  BY <1>1, IdleShape, SomeBoundaryType DEF Inv, ShapeInv
<1>3. SummaryInv'
  <2> SUFFICES ASSUME summary'.is = "file", evidence'.is = "file", ~halfway',
                      NEW b \in Boundaries, ~b.own, NEW p \in Reusable(summary.data, b)'
               PROVE  <<b, p>> \in answered
    BY <1>1 DEF SummaryInv, Suspended
  <2>1. summary' = summary /\ evidence' = evidence /\ ~halfway /\ cmd.pc # "summary"
    BY <1>1, FileShape
  <2>2. ~Suspended
    BY <2>1 DEF Suspended
  <2>3. p \in Reusable(summary.data, b)
    BY <2>1 DEF Reusable
  <2> QED
    BY <2>1, <2>2, <2>3 DEF Inv, SummaryInv
<1>4. AskInv' /\ LateInv'
  BY <1>1, IdleShape DEF AskInv, LateInv
<1> QED
  BY <1>2, <1>3, <1>4 DEF Inv

LEMMA DiscardInv ==
    ASSUME Inv, Discard
    PROVE  Inv'
<1>1. /\ cmd.pc = "idle" /\ UNCHANGED <<cmd, answered, halfway>>
      /\ \/ evidence = Torn /\ evidence' = Missing /\ summary' = summary
         \/ summary = Torn /\ summary' = Missing /\ evidence' = evidence
  BY DEF Discard
<1>2. ShapeInv'
  BY <1>1 DEF Inv, ShapeInv
<1>3. SummaryInv'
  BY <1>1, FileShape DEF SummaryInv, Suspended
<1>4. AskInv' /\ LateInv'
  BY <1>1 DEF AskInv, LateInv
<1> QED
  BY <1>2, <1>3, <1>4 DEF Inv

LEMMA StutterInv ==
    ASSUME Inv, UNCHANGED <<evidence, summary, cmd, answered, halfway>>
    PROVE  Inv'
<1>1. ShapeInv'
  BY DEF Inv, ShapeInv
<1>2. SummaryInv'
  BY DEF Inv, SummaryInv, Suspended, Reusable
<1>3. AskInv'
  BY DEF Inv, AskInv, Reusable
<1>4. LateInv'
  BY DEF Inv, LateInv, Founded, Good
<1> QED
  BY <1>1, <1>2, <1>3, <1>4 DEF Inv

LEMMA NextInv == Inv /\ [Next]_vars => Inv'
<1> SUFFICES ASSUME Inv, [Next]_vars PROVE Inv'
  OBVIOUS
<1>1. CASE Step
  <2>1. CASE CheckReadiness \/ CheckApproval
    BY <2>1, EarlyInv
  <2>2. CASE Block
    BY <2>2, BlockInv
  <2>3. CASE CheckOwnEvidence
    BY <2>3, CheckOwnEvidenceInv
  <2>4. CASE PlanEvidence
    BY <2>4, PlanEvidenceInv
  <2>5. CASE \E p \in ProviderSet, a \in Answers : Ask(p, a)
    BY <2>5, AskStepInv
  <2>6. CASE WriteEvidence
    BY <2>6, WriteEvidenceInv
  <2>7. CASE WriteSummary
    BY <2>7, WriteSummaryInv
  <2>8. CASE Annotate
    BY <2>8, AnnotateInv
  <2>9. CASE RunReport \/ TimeOut
    BY <2>9, RunReportInv
  <2>10. CASE \E accepted \in BOOLEAN : WriteNativeHandoff(accepted)
    BY <2>10, WriteNativeHandoffInv
  <2>11. CASE WriteHandoff
    BY <2>11, WriteHandoffInv
  <2> QED
    BY <1>1, <2>1, <2>2, <2>3, <2>4, <2>5, <2>6, <2>7, <2>8, <2>9, <2>10, <2>11 DEF Step
<1>2. CASE \E run \in Runs, request \in Requests, own \in BOOLEAN : Start(run, request, own)
  BY <1>2, EarlyInv
<1>3. CASE Crash
  BY <1>3, CrashInv
<1>4. CASE EditApproval
  BY <1>4, StutterInv DEF EditApproval
<1>5. CASE Discard
  BY <1>5, DiscardInv
<1>6. CASE UNCHANGED vars
  BY <1>6, StutterInv DEF vars, files
<1> QED
  BY <1>1, <1>2, <1>3, <1>4, <1>5, <1>6 DEF Next

LEMMA InvHolds == Spec => []Inv
BY InitInv, NextInv, PTL DEF Spec

\* What is written: the closure that was met, and its boundary.
LEMMA WrittenShape ==
    ASSUME NEW b, NEW result, Deliverable(Written(b, result))
    PROVE  result.met /\ Written(b, result).data.boundary = b
<1>1. CASE result.met
  <2> DEFINE data == [status |-> result.status, shown |-> result.shown, met |-> TRUE,
                      boundary |-> b, evidence |-> result.evidence]
  <2>1. Written(b, result) = File(data) /\ data.boundary = b
    BY <1>1 DEF Written
  <2> QED
    BY <1>1, <2>1, FileShape
<1>2. CASE ~result.met
  <2> DEFINE data == [status |-> result.status, shown |-> result.shown, met |-> FALSE]
  <2>1. Written(b, result) = File(data) /\ ~data.met
    BY <1>2 DEF Written
  <2> QED
    BY <2>1, FileShape DEF Deliverable
<1> QED
  BY <1>1, <1>2

\* Only the two steps that write a handoff make one deliverable, and the first never does.
LEMMA DeliverableStep ==
    ASSUME Inv, [Next]_vars, NewlyDeliverable, OfProviders(handoff'.data), ~halfway
    PROVE  \A p \in ProviderSet : <<handoff'.data.boundary, p>> \in answered
<1>1. handoff' # handoff /\ Deliverable(handoff')
  BY DEF NewlyDeliverable
<1>2. CASE \E accepted \in BOOLEAN : WriteNativeHandoff(accepted)
  <2>1. cmd.pc = "native_output" /\ handoff' = Written(cmd.boundary, cmd.result)
    BY <1>2 DEF WriteNativeHandoff
  <2>2. ~cmd.result.met
    BY <2>1 DEF Inv, LateInv
  <2> QED
    BY <1>1, <2>1, <2>2, WrittenShape
<1>3. CASE WriteHandoff
  <2>1. cmd.pc = "output" /\ handoff' = Written(cmd.boundary, cmd.result)
    BY <1>3 DEF WriteHandoff
  <2>2. cmd.result.met /\ handoff'.data.boundary = cmd.boundary
    BY <1>1, <2>1, WrittenShape
  <2>3. Founded
    BY <2>2 DEF OfProviders, Founded
  <2> QED
    BY <2>1, <2>2, <2>3 DEF Inv, LateInv
<1>4. CASE Crash
  <2>1. handoff' = handoff \/ handoff' = Torn
    BY <1>4 DEF Crash
  <2> QED
    BY <1>1, <2>1, FileShape DEF Deliverable
<1>5. CASE UNCHANGED handoff
  BY <1>1, <1>5
<1>6. \/ \E accepted \in BOOLEAN : WriteNativeHandoff(accepted)
      \/ WriteHandoff \/ Crash \/ UNCHANGED handoff
  BY DEF Next, Step, Start, CheckReadiness, CheckApproval, Block, CheckOwnEvidence,
         PlanEvidence, Ask, WriteEvidence, WriteSummary, Annotate, RunReport, TimeOut,
         EditApproval, Discard, vars, files
<1> QED
  BY <1>2, <1>3, <1>4, <1>5, <1>6

\* A preview writes a handoff that may be sent only if every provider's last answer within
\* its smoke boundary was usable (_collect_or_reuse_..., _with_pre_publish_preview_metadata).
THEOREM DeliverableHandoffsAreAnswered == Spec => DeliverableIsAnswered
<1>1. Inv /\ [Next]_vars =>
        [(NewlyDeliverable /\ OfProviders(handoff'.data) /\ ~halfway) =>
           \A p \in ProviderSet : <<handoff'.data.boundary, p>> \in answered]_vars
  BY DeliverableStep
<1> QED
  BY <1>1, InvHolds, PTL DEF Spec, DeliverableIsAnswered

-----------------------------------------------------------------------------
(* What the files and the preview's memory are *)

IsOutcome(o) == Partial(o, ProviderSet, Answers)
IsEvidence(f) == f \in {Missing, Torn} \/ (f.is = "file" /\ EvidenceBag(f.data))
IsSummary(f) ==
    \/ f \in {Missing, Torn}
    \/ /\ f.is = "file" /\ f.data.boundary \in Boundaries \union {NoBoundary}
       /\ IsOutcome(f.data.outcome)
IsHandoff(f) ==
    \/ f \in {Missing, Torn}
    \/ /\ f.is = "file" /\ Result(f.data)
       /\ f.data.met => f.data.boundary \in Boundaries /\ EvidenceBag(f.data.evidence)
IsResult(r) == Result(r) /\ EvidenceBag(r.evidence) /\ IsOutcome(r.outcome)
IsPreview(c) ==
    /\ c.pc \in Phases /\ c.boundary \in Boundaries
    /\ c.reused \subseteq ProviderSet /\ c.todo \subseteq ProviderSet \ c.reused
    /\ EvidenceBag(c.kept) /\ IsOutcome(c.keptOutcome) /\ IsOutcome(c.outcome)
    /\ DOMAIN c.outcome \intersect (c.reused \union c.todo) = {}
    /\ IsResult(c.result)

\* A preview that is past its evidence has a summary.
Typed ==
    /\ approval \in Profiles \union {NoProfile}
    /\ IsEvidence(evidence) /\ IsSummary(summary) /\ IsHandoff(handoff)
    /\ IsPreview(cmd)
    /\ answered \subseteq Boundaries \X ProviderSet
    /\ crashes \in 0..MaxCrashes /\ halfway \in BOOLEAN
    /\ cmd.pc \in {"annotate", "native"} => summary.is = "file"

LEMMA NothingTyped ==
    /\ DOMAIN << >> = {} /\ IsOutcome(<< >>) /\ DOMAIN EmptyBag = {} /\ EvidenceBag(EmptyBag)
<1>1. DOMAIN << >> = {} /\ \A T : << >> \in [{} -> T]
  OBVIOUS
<1>2. DOMAIN EmptyBag = {} /\ \A T : EmptyBag \in [{} -> T]
  BY DEF EmptyBag, SetToBag
<1> QED
  BY <1>1, <1>2 DEF IsOutcome, EvidenceBag, Partial

LEMMA FailedTyped == IsResult(Failed)
<1>1. Failed.status \in Statuses
  BY DEF Failed, Statuses
<1>2. Failed.shown = TRUE /\ Failed.met = FALSE
  BY DEF Failed
<1>3. Failed.shown \in BOOLEAN /\ Failed.met \in BOOLEAN
  BY <1>2
<1>4. Failed.evidence = EmptyBag /\ Failed.outcome = << >>
  BY DEF Failed
<1> QED
  BY <1>1, <1>3, <1>4, NothingTyped DEF IsResult, Result

LEMMA IdleTyped == IsPreview(Idle)
<1>1. /\ Idle.pc = "idle" /\ Idle.boundary = SomeBoundary /\ Idle.todo = {}
      /\ Idle.reused = {} /\ Idle.kept = EmptyBag /\ Idle.keptOutcome = << >>
      /\ Idle.outcome = << >> /\ Idle.result = Failed
  BY DEF Idle
<1> QED
  BY <1>1, SomeBoundaryType, NothingTyped, FailedTyped DEF IsPreview, Phases

\* What a success brings is one item of its provider.
LEMMA ItemsTyped ==
    ASSUME NEW o, IsOutcome(o), NEW b \in Boundaries
    PROVE  EvidenceBag(ItemsOf(o, b))
<1> DEFINE items == {[provider |-> p, boundary |-> b] : p \in Succeeded(o)}
<1>1. Succeeded(o) \subseteq ProviderSet
  BY DEF Succeeded, IsOutcome, Partial
<1>2. items \subseteq Items
  BY <1>1 DEF Items
<1>3. ItemsOf(o, b) = [i \in items |-> 1]
  BY DEF ItemsOf, SetToBag
<1> HIDE DEF items
<1> QED
  BY <1>2, <1>3 DEF EvidenceBag, Partial

LEMMA MergedEvidenceTyped ==
    ASSUME NEW kept, NEW new, EvidenceBag(kept), EvidenceBag(new)
    PROVE  EvidenceBag(MergedEvidence(kept, new))
<1>1. MergedEvidence(kept, new) =
         [i \in DOMAIN kept \union DOMAIN new |->
            (IF i \in DOMAIN kept THEN kept[i] ELSE 0) + (IF i \in DOMAIN new THEN new[i] ELSE 0)]
  BY DEF MergedEvidence, (+)
<1> QED
  BY <1>1 DEF EvidenceBag, Partial

LEMMA MergedOutcomeTyped ==
    ASSUME NEW kept, NEW new, NEW reused, IsOutcome(kept), IsOutcome(new),
           DOMAIN new \intersect reused = {}
    PROVE  IsOutcome(MergedOutcome(kept, new, reused))
BY DEF MergedOutcome, IsOutcome, Partial

LEMMA WrittenTyped ==
    ASSUME NEW b \in Boundaries, NEW r, IsResult(r)
    PROVE  IsHandoff(Written(b, r))
<1>1. r.status \in Statuses /\ r.shown \in BOOLEAN /\ EvidenceBag(r.evidence)
  BY DEF IsResult, Result
<1>2. CASE r.met
  <2> DEFINE data == [status |-> r.status, shown |-> r.shown, met |-> TRUE,
                      boundary |-> b, evidence |-> r.evidence]
  <2>1. /\ Written(b, r) = File(data) /\ data.status = r.status /\ data.shown = r.shown
        /\ data.met = TRUE /\ data.boundary = b /\ data.evidence = r.evidence
    BY <1>2 DEF Written
  <2> HIDE DEF data
  <2>2. data.met \in BOOLEAN
    BY <2>1
  <2> QED
    BY <1>1, <2>1, <2>2, FileShape DEF IsHandoff, Result
<1>3. CASE ~r.met
  <2> DEFINE data == [status |-> r.status, shown |-> r.shown, met |-> FALSE]
  <2>1. /\ Written(b, r) = File(data) /\ data.status = r.status /\ data.shown = r.shown
        /\ data.met = FALSE
    BY <1>3 DEF Written
  <2> HIDE DEF data
  <2>2. data.met \in BOOLEAN /\ ~data.met
    BY <2>1
  <2> QED
    BY <1>1, <2>1, <2>2, FileShape DEF IsHandoff, Result
<1> QED
  BY <1>2, <1>3

LEMMA WithPreviewTyped ==
    ASSUME NEW r, DOMAIN r = DOMAIN Failed, IsResult(r), NEW accepted \in BOOLEAN
    PROVE  IsResult(WithPreview(r, accepted))
<1> DEFINE status == IF r.status = "user_ready" /\ EvidenceNeedsReview(r.outcome)
                     THEN "operator_review_only" ELSE r.status
           met == ClosureMet(status, r.outcome, accepted)
           new == [r EXCEPT !.status = status, !.shown = TRUE, !.met = met]
<1>1. WithPreview(r, accepted) = new
  BY DEF WithPreview
<1>2. status \in Statuses
  BY DEF IsResult, Result, Statuses
<1>3. met \in BOOLEAN
  BY Zenon DEF ClosureMet
<1> HIDE DEF status, met
<1>4. new.status = status /\ new.shown = TRUE /\ new.met = met
      /\ new.evidence = r.evidence /\ new.outcome = r.outcome
  BY IdleShape
<1> HIDE DEF new
<1>5. new.shown \in BOOLEAN /\ new.met \in BOOLEAN
  BY <1>3, <1>4
<1>6. Result(new)
  BY <1>2, <1>4, <1>5 DEF Result
<1> QED
  BY <1>1, <1>4, <1>6 DEF IsResult

LEMMA GotoTyped ==
    ASSUME Inv, IsPreview(cmd), NEW pc \in Phases, Goto(pc)
    PROVE  IsPreview(cmd') /\ cmd'.pc = pc /\ cmd'.kept = cmd.kept
<1>1. cmd'.kept = cmd.kept
  BY IdleShape DEF Inv, ShapeInv, Goto
<1> QED
  BY <1>1, GotoShape DEF IsPreview

LEMMA ExitTyped ==
    ASSUME Exit
    PROVE  IsPreview(cmd') /\ cmd'.pc = "idle"
BY IdleTyped, IdleShape DEF Exit

\* The files stay, and the preview's memory is typed.
LEMMA FilesStayTyped ==
    ASSUME Typed, UNCHANGED <<files, crashes, answered, halfway>>, IsPreview(cmd'),
           cmd'.pc \in {"annotate", "native"} => summary.is = "file"
    PROVE  Typed'
BY DEF Typed, files

LEMMA InitTyped == Init => Typed
<1> SUFFICES ASSUME Init PROVE Typed
  OBVIOUS
<1>1. /\ approval = NoProfile /\ evidence = Missing /\ summary = Missing /\ handoff = Missing
      /\ cmd = Idle /\ crashes = 0 /\ answered = {} /\ halfway = FALSE
  BY DEF Init
<1>2. halfway \in BOOLEAN
  BY <1>1
<1>3. crashes \in 0..MaxCrashes
  BY <1>1, MaxCrashesAssumption
<1> QED
  BY <1>1, <1>2, <1>3, IdleTyped, IdleShape DEF Typed, IsEvidence, IsSummary, IsHandoff

LEMMA EarlyTyped ==
    ASSUME Inv, Typed,
           \/ \E run \in Runs, request \in Requests, own \in BOOLEAN : Start(run, request, own)
           \/ CheckReadiness \/ CheckApproval \/ CheckOwnEvidence
    PROVE  Typed'
<1>1. ASSUME NEW run \in Runs, NEW request \in Requests, NEW own \in BOOLEAN,
             Start(run, request, own)
      PROVE  Typed'
  <2> DEFINE b == [SomeBoundary EXCEPT !.run = run, !.request = request, !.own = own]
             new == [Idle EXCEPT !.pc = "readiness", !.boundary = b]
  <2>1. cmd' = new /\ UNCHANGED <<files, crashes, answered, halfway>>
    BY <1>1, IdleShape DEF Start
  <2>2. b \in Boundaries
    BY SomeBoundaryType DEF Boundaries
  <2> HIDE DEF b
  <2>3. /\ new.pc = "readiness" /\ new.boundary = b /\ new.todo = Idle.todo
        /\ new.reused = Idle.reused /\ new.kept = Idle.kept
        /\ new.keptOutcome = Idle.keptOutcome /\ new.outcome = Idle.outcome
        /\ new.result = Idle.result
    BY IdleShape
  <2> HIDE DEF new
  <2>4. IsPreview(new)
    BY <2>2, <2>3, IdleTyped DEF IsPreview, Phases
  <2> QED
    BY <2>1, <2>3, <2>4, FilesStayTyped
<1>2. CASE CheckReadiness
  <2>1. /\ UNCHANGED <<files, crashes, answered, halfway>>
        /\ Exit \/ Goto("block") \/ Goto("approval")
    BY <1>2 DEF CheckReadiness
  <2>2. "block" \in Phases /\ "approval" \in Phases
    BY DEF Phases
  <2>3. IsPreview(cmd)
    BY DEF Typed
  <2> QED
    BY <2>1, <2>2, <2>3, ExitTyped, GotoTyped, FilesStayTyped
<1>3. CASE CheckApproval
  <2> DEFINE b == [cmd.boundary EXCEPT !.profile = approval]
             pc == IF cmd.boundary.own THEN "own" ELSE "plan"
             new == [cmd EXCEPT !.pc = pc, !.boundary = b]
  <2>1. UNCHANGED <<files, crashes, answered, halfway>> /\ IsPreview(cmd)
        /\ DOMAIN cmd = DOMAIN Idle
    BY <1>3 DEF CheckApproval, Typed, Inv, ShapeInv
  <2>2. \/ approval \in Profiles /\ cmd' = new
        \/ Goto("block")
    BY <1>3, <2>1, IdleShape DEF CheckApproval
  <2>3. CASE approval \in Profiles /\ cmd' = new
    <3>1. b \in Boundaries
      BY <2>1, <2>3 DEF Boundaries, IsPreview
    <3>2. pc \in Phases /\ pc \notin {"annotate", "native"}
      BY DEF Phases
    <3> HIDE DEF b, pc
    <3>3. /\ new.pc = pc /\ new.boundary = b /\ new.todo = cmd.todo
          /\ new.reused = cmd.reused /\ new.kept = cmd.kept
          /\ new.keptOutcome = cmd.keptOutcome /\ new.outcome = cmd.outcome
          /\ new.result = cmd.result
      BY <2>1, IdleShape
    <3> HIDE DEF new
    <3>4. IsPreview(new)
      BY <2>1, <3>1, <3>2, <3>3 DEF IsPreview
    <3> QED
      BY <2>1, <2>3, <3>2, <3>3, <3>4, FilesStayTyped
  <2>4. CASE Goto("block")
    <3>1. "block" \in Phases
      BY DEF Phases
    <3> QED
      BY <2>1, <2>4, <3>1, GotoTyped, FilesStayTyped
  <2> QED
    BY <2>2, <2>3, <2>4
<1>4. CASE CheckOwnEvidence
  <2>1. /\ UNCHANGED <<files, crashes, answered, halfway>> /\ IsPreview(cmd)
        /\ Exit \/ (summary.is = "file" /\ Goto("annotate"))
    BY <1>4 DEF CheckOwnEvidence, Typed
  <2>2. "annotate" \in Phases
    BY DEF Phases
  <2> QED
    BY <2>1, <2>2, ExitTyped, GotoTyped, FilesStayTyped
<1> QED
  BY <1>1, <1>2, <1>3, <1>4

LEMMA BlockTyped ==
    ASSUME Inv, Typed, Block
    PROVE  Typed'
<1> DEFINE new == [cmd EXCEPT !.pc = "output", !.result = Failed]
<1>1. /\ UNCHANGED <<approval, evidence, handoff, crashes, answered, halfway>>
      /\ \/ Exit /\ UNCHANGED summary
         \/ /\ summary' = IF summary = Missing THEN File(NotRun) ELSE summary
            /\ cmd' = new
  BY DEF Block
<1>2. IsPreview(cmd) /\ DOMAIN cmd = DOMAIN Idle
  BY DEF Typed, Inv, ShapeInv
<1>3. CASE Exit /\ UNCHANGED summary
  BY <1>1, <1>3, ExitTyped, FilesStayTyped DEF files
<1>4. CASE summary' = (IF summary = Missing THEN File(NotRun) ELSE summary) /\ cmd' = new
  <2>1. /\ new.pc = "output" /\ new.boundary = cmd.boundary /\ new.todo = cmd.todo
        /\ new.reused = cmd.reused /\ new.kept = cmd.kept
        /\ new.keptOutcome = cmd.keptOutcome /\ new.outcome = cmd.outcome
        /\ new.result = Failed
    BY <1>2, IdleShape
  <2> HIDE DEF new
  <2>2. IsPreview(new)
    BY <1>2, <2>1, FailedTyped DEF IsPreview, Phases
  <2>3. IsSummary(File(NotRun))
    <3>1. NotRun.boundary = NoBoundary /\ NotRun.outcome = << >>
      BY DEF NotRun
    <3> QED
      BY <3>1, NothingTyped, FileShape DEF IsSummary
  <2>4. IsSummary(summary')
    BY <1>4, <2>3 DEF Typed
  <2> QED
    BY <1>1, <1>4, <2>1, <2>2, <2>4 DEF Typed
<1> QED
  BY <1>1, <1>3, <1>4

LEMMA PlanEvidenceTyped ==
    ASSUME Inv, Typed, PlanEvidence
    PROVE  Typed'
<1> DEFINE reused == Reusable(summary.data, cmd.boundary)
           all == [cmd EXCEPT !.pc = "ask", !.todo = ProviderSet]
           some == [cmd EXCEPT !.pc = "ask", !.reused = reused, !.todo = ProviderSet \ reused,
                       !.kept = evidence.data, !.keptOutcome = summary.data.outcome]
<1>1. /\ cmd.pc = "plan" /\ UNCHANGED <<files, crashes, answered, halfway>>
      /\ IsPreview(cmd) /\ DOMAIN cmd = DOMAIN Idle
      /\ cmd.reused = {} /\ cmd.outcome = << >>
  BY DEF PlanEvidence, Typed, Inv, ShapeInv
<1>2. \/ cmd' = all
      \/ Exit
      \/ summary.is = "file" /\ Goto("annotate")
      \/ summary.is = "file" /\ evidence.is = "file" /\ cmd' = some
  <2>1. summary = Missing \/ summary = Torn \/ summary.is = "file"
    BY DEF Typed, IsSummary
  <2>2. evidence = Missing \/ evidence = Torn \/ evidence.is = "file"
    BY DEF Typed, IsEvidence
  <2> QED
    BY <2>1, <2>2 DEF PlanEvidence, AskAll
<1>3. CASE cmd' = all
  <2>1. /\ all.pc = "ask" /\ all.boundary = cmd.boundary /\ all.todo = ProviderSet
        /\ all.reused = {} /\ all.kept = cmd.kept
        /\ all.keptOutcome = cmd.keptOutcome /\ all.outcome = << >>
        /\ all.result = cmd.result
    BY <1>1, IdleShape
  <2> HIDE DEF all
  <2>2. IsPreview(all)
    BY <1>1, <2>1, NothingTyped DEF IsPreview, Phases
  <2> QED
    BY <1>1, <1>3, <2>1, <2>2, FilesStayTyped
<1>4. CASE Exit
  BY <1>1, <1>4, ExitTyped, FilesStayTyped
<1>5. CASE summary.is = "file" /\ Goto("annotate")
  <2>1. "annotate" \in Phases
    BY DEF Phases
  <2> QED
    BY <1>1, <1>5, <2>1, GotoTyped, FilesStayTyped
<1>6. CASE summary.is = "file" /\ evidence.is = "file" /\ cmd' = some
  <2>1. /\ some.pc = "ask" /\ some.boundary = cmd.boundary /\ some.todo = ProviderSet \ reused
        /\ some.reused = reused /\ some.kept = evidence.data
        /\ some.keptOutcome = summary.data.outcome /\ some.outcome = << >>
        /\ some.result = cmd.result
    BY <1>1, IdleShape
  <2>2. reused \subseteq ProviderSet
    BY DEF Reusable
  <2>3. IsOutcome(summary.data.outcome) /\ EvidenceBag(evidence.data)
    BY <1>6, FileShape DEF Typed, IsSummary, IsEvidence
  <2> HIDE DEF some, reused
  <2>4. IsPreview(some)
    BY <1>1, <2>1, <2>2, <2>3, NothingTyped DEF IsPreview, Phases
  <2> QED
    BY <1>1, <1>6, <2>1, <2>4, FilesStayTyped
<1> QED
  BY <1>2, <1>3, <1>4, <1>5, <1>6

LEMMA AskTyped ==
    ASSUME Inv, Typed, NEW p \in ProviderSet, NEW answer \in Answers, Ask(p, answer)
    PROVE  Typed'
<1> DEFINE outcome == [q \in DOMAIN cmd.outcome \union {p} |->
                          IF q = p THEN answer ELSE cmd.outcome[q]]
           new == [cmd EXCEPT !.todo = @ \ {p}, !.outcome = outcome]
<1>1. /\ cmd' = new /\ cmd.pc = "ask" /\ p \in cmd.todo
      /\ UNCHANGED <<files, crashes, halfway>>
      /\ answered' \subseteq answered \union {<<cmd.boundary, p>>}
  BY DEF Ask
<1>2. IsPreview(cmd) /\ DOMAIN cmd = DOMAIN Idle
  BY DEF Typed, Inv, ShapeInv
<1>3. IsOutcome(outcome) /\ DOMAIN outcome = DOMAIN cmd.outcome \union {p}
  BY <1>2 DEF IsPreview, IsOutcome, Partial
<1> HIDE DEF outcome
<1>4. /\ new.pc = "ask" /\ new.boundary = cmd.boundary /\ new.todo = cmd.todo \ {p}
      /\ new.reused = cmd.reused /\ new.kept = cmd.kept
      /\ new.keptOutcome = cmd.keptOutcome /\ new.outcome = outcome
      /\ new.result = cmd.result
  BY <1>1, <1>2, IdleShape
<1> HIDE DEF new
<1>5. IsPreview(new)
  BY <1>1, <1>2, <1>3, <1>4 DEF IsPreview
<1>6. answered' \subseteq Boundaries \X ProviderSet
  BY <1>1, <1>2 DEF Typed, IsPreview
<1> QED
  BY <1>1, <1>4, <1>5, <1>6 DEF Typed, files

LEMMA WritesTyped ==
    ASSUME Inv, Typed, WriteEvidence \/ WriteSummary \/ Annotate
    PROVE  Typed'
<1>1. IsPreview(cmd)
  BY DEF Typed
<1>2. CASE WriteEvidence
  <2> DEFINE new == ItemsOf(cmd.outcome, cmd.boundary)
             data == IF cmd.reused = {} THEN new ELSE MergedEvidence(cmd.kept, new)
  <2>1. /\ evidence' = File(data) /\ Goto("summary")
        /\ UNCHANGED <<approval, summary, handoff, crashes, answered, halfway>>
    BY <1>2 DEF WriteEvidence
  <2>2. EvidenceBag(new)
    BY <1>1, ItemsTyped DEF IsPreview
  <2> HIDE DEF new
  <2>3. EvidenceBag(data)
    BY <1>1, <2>2, MergedEvidenceTyped DEF IsPreview
  <2> HIDE DEF data
  <2>4. IsEvidence(evidence')
    BY <2>1, <2>3, FileShape DEF IsEvidence
  <2>5. "summary" \in Phases
    BY DEF Phases
  <2>6. IsPreview(cmd') /\ cmd'.pc = "summary"
    BY <1>1, <2>1, <2>5, GotoTyped
  <2> QED
    BY <2>1, <2>4, <2>6 DEF Typed
<1>3. CASE WriteSummary
  <2> DEFINE plain == [boundary |-> NoBoundary, outcome |-> cmd.outcome]
             merged == MergedOutcome(cmd.keptOutcome, cmd.outcome, cmd.reused)
             full == [boundary |-> cmd.boundary, outcome |-> merged]
  <2>1. UNCHANGED <<approval, evidence, handoff, crashes, answered>>
    BY <1>3 DEF WriteSummary
  <2>2. \/ summary' = File(plain) /\ Goto("annotate") /\ halfway' = FALSE
        \/ summary' = File(full) /\ Goto("native") /\ halfway' = halfway
    BY <1>3 DEF WriteSummary
  <2>3. halfway' \in BOOLEAN
    BY <2>2 DEF Typed
  <2>4. plain.boundary = NoBoundary /\ plain.outcome = cmd.outcome
        /\ full.boundary = cmd.boundary /\ full.outcome = merged
    OBVIOUS
  <2>5. IsOutcome(cmd.outcome) /\ cmd.boundary \in Boundaries /\ IsOutcome(merged)
    BY <1>1, MergedOutcomeTyped DEF IsPreview
  <2> HIDE DEF plain, full, merged
  <2>6. IsSummary(summary') /\ summary'.is = "file"
    BY <2>2, <2>4, <2>5, FileShape DEF IsSummary
  <2>7. "annotate" \in Phases /\ "native" \in Phases
    BY DEF Phases
  <2>8. IsPreview(cmd')
    BY <1>1, <2>2, <2>7, GotoTyped
  <2> QED
    BY <2>1, <2>3, <2>6, <2>8 DEF Typed
<1>4. CASE Annotate
  <2> DEFINE data == [summary.data EXCEPT !.boundary = cmd.boundary]
  <2>1. /\ cmd.pc = "annotate" /\ summary' = File(data) /\ Goto("native")
        /\ UNCHANGED <<approval, evidence, handoff, crashes, answered, halfway>>
    BY <1>4 DEF Annotate
  <2>2. summary.is = "file" /\ DOMAIN summary.data = {"boundary", "outcome"}
        /\ IsOutcome(summary.data.outcome)
    BY <2>1, FileShape DEF Typed, IsSummary, Inv, ShapeInv
  <2>3. data.boundary = cmd.boundary /\ data.outcome = summary.data.outcome
    BY <2>2
  <2> HIDE DEF data
  <2>4. IsSummary(summary') /\ summary'.is = "file"
    BY <1>1, <2>1, <2>2, <2>3, FileShape DEF IsSummary, IsPreview
  <2>5. "native" \in Phases
    BY DEF Phases
  <2>6. IsPreview(cmd')
    BY <1>1, <2>1, <2>5, GotoTyped
  <2> QED
    BY <2>1, <2>4, <2>6 DEF Typed
<1> QED
  BY <1>2, <1>3, <1>4

\* The preview goes on with another result.
LEMMA ResultTyped ==
    ASSUME Inv, IsPreview(cmd), NEW pc \in Phases, NEW result, IsResult(result),
           cmd' = [cmd EXCEPT !.pc = pc, !.result = result]
    PROVE  IsPreview(cmd') /\ cmd'.pc = pc
<1>1. /\ cmd'.pc = pc /\ cmd'.boundary = cmd.boundary /\ cmd'.todo = cmd.todo
      /\ cmd'.reused = cmd.reused /\ cmd'.kept = cmd.kept
      /\ cmd'.keptOutcome = cmd.keptOutcome /\ cmd'.outcome = cmd.outcome
      /\ cmd'.result = result
  BY IdleShape DEF Inv, ShapeInv
<1> QED
  BY <1>1 DEF IsPreview

LEMMA ReportTyped ==
    ASSUME Inv, Typed, RunReport \/ TimeOut
    PROVE  Typed'
<1>1. /\ cmd.pc = "native" /\ UNCHANGED <<files, crashes, answered, halfway>>
      /\ IsPreview(cmd)
  BY DEF RunReport, TimeOut, Typed
<1>2. "output" \in Phases /\ "native_output" \in Phases
  BY DEF Phases
<1>3. CASE TimeOut
  <2>1. cmd' = [cmd EXCEPT !.pc = "output", !.result = Failed]
    BY <1>3 DEF TimeOut
  <2> QED
    BY <1>1, <1>2, <2>1, FailedTyped, ResultTyped, FilesStayTyped
<1>4. CASE Exit
  BY <1>1, <1>4, ExitTyped, FilesStayTyped
<1>5. ASSUME NEW s \in ReportStatuses, evidence.is = "file",
             cmd' = [cmd EXCEPT !.pc = "native_output",
                        !.result = IF s = "failed" THEN Failed
                                   ELSE [status |-> s, shown |-> FALSE, met |-> FALSE,
                                         evidence |-> evidence.data,
                                         outcome |-> summary.data.outcome]]
      PROVE  Typed'
  <2> DEFINE whole == [status |-> s, shown |-> FALSE, met |-> FALSE,
                       evidence |-> evidence.data, outcome |-> summary.data.outcome]
             result == IF s = "failed" THEN Failed ELSE whole
  <2>1. s \in Statuses
    BY DEF ReportStatuses, Statuses
  <2>2. EvidenceBag(evidence.data) /\ IsOutcome(summary.data.outcome)
    BY <1>1, <1>5, FileShape DEF Typed, IsEvidence, IsSummary
  <2>3. whole.status = s /\ whole.shown = FALSE /\ whole.met = FALSE
        /\ whole.evidence = evidence.data /\ whole.outcome = summary.data.outcome
    OBVIOUS
  <2>4. cmd' = [cmd EXCEPT !.pc = "native_output", !.result = result]
    BY <1>5
  <2> HIDE DEF whole
  <2>5. whole.shown \in BOOLEAN /\ whole.met \in BOOLEAN
    BY <2>3
  <2>6. IsResult(whole)
    BY <2>1, <2>2, <2>3, <2>5 DEF IsResult, Result
  <2>7. IsResult(result)
    BY <2>6, FailedTyped
  <2> HIDE DEF result
  <2>8. IsPreview(cmd') /\ cmd'.pc = "native_output"
    BY <1>1, <1>2, <2>4, <2>7, ResultTyped
  <2> QED
    BY <1>1, <2>8, FilesStayTyped
<1> QED
  BY <1>3, <1>4, <1>5 DEF RunReport

LEMMA HandoffTyped ==
    ASSUME Inv, Typed, WriteHandoff \/ \E accepted \in BOOLEAN : WriteNativeHandoff(accepted)
    PROVE  Typed'
<1>1. /\ handoff' = Written(cmd.boundary, cmd.result)
      /\ UNCHANGED <<approval, evidence, summary, crashes, answered, halfway>>
  BY DEF WriteHandoff, WriteNativeHandoff
<1>2. IsPreview(cmd) /\ IsResult(cmd.result) /\ cmd.boundary \in Boundaries
      /\ DOMAIN cmd.result = DOMAIN Failed
  BY DEF Typed, IsPreview, Inv, ShapeInv
<1>3. IsHandoff(handoff')
  BY <1>1, <1>2, WrittenTyped
<1>4. IsPreview(cmd') /\ cmd'.pc \in {"idle", "output"}
  <2>1. CASE WriteHandoff
    BY <2>1, ExitTyped DEF WriteHandoff
  <2>2. ASSUME NEW accepted \in BOOLEAN, WriteNativeHandoff(accepted)
        PROVE  IsPreview(cmd') /\ cmd'.pc = "output"
    <3> DEFINE result == WithPreview(cmd.result, accepted)
    <3>1. cmd' = [cmd EXCEPT !.pc = "output", !.result = result]
      BY <2>2 DEF WriteNativeHandoff
    <3>2. IsResult(result) /\ "output" \in Phases
      BY <1>2, WithPreviewTyped DEF Phases
    <3> HIDE DEF result
    <3> QED
      BY <1>2, <3>1, <3>2, ResultTyped
  <2> QED
    BY <2>1, <2>2
<1> QED
  BY <1>1, <1>3, <1>4 DEF Typed

LEMMA CrashTyped ==
    ASSUME Typed, Crash
    PROVE  Typed'
<1>1. /\ Exit /\ UNCHANGED <<approval, answered>>
      /\ crashes < MaxCrashes /\ crashes' = crashes + 1
      /\ evidence' = evidence \/ evidence' = Torn
      /\ summary' = summary \/ summary' = Torn
      /\ handoff' = handoff \/ handoff' = Torn
  BY DEF Crash
<1>2. halfway' \in BOOLEAN
  <2>1. halfway' = (halfway \/ cmd.pc = "summary")
    BY DEF Crash
  <2>2. (halfway \/ cmd.pc = "summary") \in BOOLEAN
    BY Zenon
  <2> QED
    BY <2>1, <2>2
<1>3. IsEvidence(evidence') /\ IsSummary(summary') /\ IsHandoff(handoff')
  BY <1>1 DEF Typed, IsEvidence, IsSummary, IsHandoff
<1>4. crashes' \in 0..MaxCrashes
  BY <1>1, MaxCrashesAssumption DEF Typed
<1> QED
  BY <1>1, <1>2, <1>3, <1>4, ExitTyped DEF Typed

LEMMA NextTyped == Inv /\ Typed /\ [Next]_vars => Typed'
<1> SUFFICES ASSUME Inv, Typed, [Next]_vars PROVE Typed'
  OBVIOUS
<1>1. CASE Step
  <2>1. CASE CheckReadiness \/ CheckApproval \/ CheckOwnEvidence
    BY <2>1, EarlyTyped
  <2>2. CASE Block
    BY <2>2, BlockTyped
  <2>3. CASE PlanEvidence
    BY <2>3, PlanEvidenceTyped
  <2>4. CASE \E p \in ProviderSet, a \in Answers : Ask(p, a)
    BY <2>4, AskTyped
  <2>5. CASE WriteEvidence \/ WriteSummary \/ Annotate
    BY <2>5, WritesTyped
  <2>6. CASE RunReport \/ TimeOut
    BY <2>6, ReportTyped
  <2>7. CASE WriteHandoff \/ \E accepted \in BOOLEAN : WriteNativeHandoff(accepted)
    BY <2>7, HandoffTyped
  <2> QED
    BY <1>1, <2>1, <2>2, <2>3, <2>4, <2>5, <2>6, <2>7 DEF Step
<1>2. CASE \E run \in Runs, request \in Requests, own \in BOOLEAN : Start(run, request, own)
  BY <1>2, EarlyTyped
<1>3. CASE Crash
  BY <1>3, CrashTyped
<1>4. CASE EditApproval
  BY <1>4 DEF EditApproval, Typed
<1>5. CASE Discard
  BY <1>5 DEF Discard, Typed, IsEvidence, IsSummary
<1>6. CASE UNCHANGED vars
  BY <1>6 DEF vars, files, Typed
<1> QED
  BY <1>1, <1>2, <1>3, <1>4, <1>5, <1>6 DEF Next

LEMMA TypedHolds == Spec => []Typed
BY InitInv, NextInv, InitTyped, NextTyped, PTL DEF Spec

\* The files and the preview's memory are what they should be; whoever is reused is not
\* asked (_collect_or_reuse_pre_publish_external_evidence).
THEOREM TypeCorrect == Spec => []TypeOK
<1>1. Typed => TypeOK
  BY DEF Typed, TypeOK, IsEvidence, IsSummary, IsHandoff, IsPreview, IsResult, IsOutcome
<1> QED
  BY <1>1, TypedHolds, PTL

-----------------------------------------------------------------------------
(* The evidence on disk is what the outcomes next to it brought *)

\* Whenever no preview is just between the two files, and none died there.
FilesExact ==
    (summary.is = "file" /\ evidence.is = "file" /\ ~halfway /\ cmd.pc # "summary") =>
        \A b \in Boundaries : (summary.data.boundary = b /\ ~b.own) =>
            evidence.data = ItemsOf(summary.data.outcome, b)

\* While providers are asked, what is kept is what the reused ones brought; between the
\* files the evidence is already that of the outcome to be written; afterwards it is that
\* of the summary, and then of the result.
MemoryExact ==
    /\ (cmd.pc = "ask" /\ cmd.reused # {} /\ ~halfway) =>
          /\ cmd.kept = ItemsOf(cmd.keptOutcome, cmd.boundary)
          /\ Succeeded(cmd.keptOutcome) \subseteq cmd.reused
    /\ (cmd.pc = "summary" /\ cmd.reused = {}) =>
          evidence.data = ItemsOf(cmd.outcome, cmd.boundary)
    /\ (cmd.pc = "summary" /\ cmd.reused # {} /\ ~halfway) =>
          evidence.data = ItemsOf(MergedOutcome(cmd.keptOutcome, cmd.outcome, cmd.reused),
                                  cmd.boundary)
    /\ (cmd.pc \in {"annotate", "native"} /\ Founded /\ evidence.is = "file") =>
          evidence.data = ItemsOf(summary.data.outcome, cmd.boundary)
    /\ (cmd.pc \in {"native_output", "output"} /\ Founded /\ cmd.result.status # "failed") =>
          cmd.result.evidence = ItemsOf(cmd.result.outcome, cmd.boundary)

Exact == FilesExact /\ MemoryExact

\* Merging loses nothing and counts nothing twice: the two sides are of different providers.
LEMMA MergedIsExact ==
    ASSUME NEW kept, NEW new, NEW reused, NEW b, IsOutcome(kept), IsOutcome(new),
           Succeeded(kept) \subseteq reused, DOMAIN new \intersect reused = {}
    PROVE  MergedEvidence(ItemsOf(kept, b), ItemsOf(new, b)) =
              ItemsOf(MergedOutcome(kept, new, reused), b)
<1> DEFINE merged == MergedOutcome(kept, new, reused)
           item(p) == [provider |-> p, boundary |-> b]
           A == {item(p) : p \in Succeeded(kept)}
           B == {item(p) : p \in Succeeded(new)}
           M == {item(p) : p \in Succeeded(merged)}
<1>1. Succeeded(merged) = Succeeded(kept) \union Succeeded(new)
  BY DEF MergedOutcome, Succeeded
<1>2. \A p : item(p).provider = p
  OBVIOUS
<1>3. Succeeded(kept) \intersect Succeeded(new) = {}
  BY DEF Succeeded
<1> HIDE DEF merged, item
<1>4. M = A \union B
  BY <1>1
<1>5. A \intersect B = {}
  <2> SUFFICES ASSUME NEW p \in Succeeded(kept), NEW q \in Succeeded(new), item(p) = item(q)
               PROVE  FALSE
    OBVIOUS
  <2>1. item(p).provider = p /\ item(q).provider = q
    BY <1>2
  <2> QED
    BY <1>3, <2>1
<1>6. /\ ItemsOf(kept, b) = [i \in A |-> 1] /\ ItemsOf(new, b) = [i \in B |-> 1]
      /\ ItemsOf(merged, b) = [i \in M |-> 1]
  BY DEF ItemsOf, SetToBag, item
<1> HIDE DEF A, B, M
<1>7. MergedEvidence(ItemsOf(kept, b), ItemsOf(new, b)) =
         [i \in A \union B |-> (IF i \in A THEN 1 ELSE 0) + (IF i \in B THEN 1 ELSE 0)]
  BY <1>6 DEF MergedEvidence, (+)
<1>8. \A i \in A \union B : (IF i \in A THEN 1 ELSE 0) + (IF i \in B THEN 1 ELSE 0) = 1
  BY <1>5
<1> QED
  BY <1>4, <1>6, <1>7, <1>8 DEF merged

\* The files stay, and the preview is not about to be between them.
LEMMA FilesStayExact ==
    ASSUME Exact, UNCHANGED <<evidence, summary, halfway>>, cmd.pc # "summary"
    PROVE  FilesExact'
BY DEF Exact, FilesExact

LEMMA InitExact == Init => Exact
BY IdleShape, FileShape DEF Init, Exact, FilesExact, MemoryExact

\* A step that leaves the files and leads to a phase that nothing is said of.
LEMMA EarlyExact ==
    ASSUME Exact, UNCHANGED <<evidence, summary, halfway>>, cmd.pc # "summary",
           cmd'.pc \in Early \union {"plan"}
    PROVE  Exact'
<1>1. MemoryExact'
  BY DEF MemoryExact, Early
<1> QED
  BY <1>1, FilesStayExact DEF Exact

LEMMA ExitExact ==
    ASSUME Exact, UNCHANGED <<evidence, summary, halfway>>, cmd.pc # "summary", Exit
    PROVE  Exact'
BY EarlyExact, ExitTyped DEF Early

LEMMA EarliestExact ==
    ASSUME Inv, Exact,
           \/ \E run \in Runs, request \in Requests, own \in BOOLEAN : Start(run, request, own)
           \/ CheckReadiness \/ CheckApproval
    PROVE  Exact'
<1>1. ASSUME NEW run \in Runs, NEW request \in Requests, NEW own \in BOOLEAN,
             Start(run, request, own)
      PROVE  Exact'
  <2>1. /\ cmd.pc = "idle" /\ cmd'.pc = "readiness"
        /\ UNCHANGED <<evidence, summary, halfway>>
    BY <1>1, IdleShape DEF Start, files
  <2> QED
    BY <2>1, EarlyExact DEF Early
<1>2. CASE CheckReadiness
  <2>1. /\ cmd.pc = "readiness" /\ UNCHANGED <<evidence, summary, halfway>>
        /\ Exit \/ Goto("block") \/ Goto("approval")
    BY <1>2 DEF CheckReadiness, files
  <2>2. CASE Exit
    BY <2>1, <2>2, ExitExact
  <2>3. CASE Goto("block") \/ Goto("approval")
    <3>1. cmd'.pc \in {"block", "approval"}
      BY <2>3, GotoShape
    <3> QED
      BY <2>1, <3>1, EarlyExact DEF Early
  <2> QED
    BY <2>1, <2>2, <2>3
<1>3. CASE CheckApproval
  <2>1. cmd.pc = "approval" /\ UNCHANGED <<evidence, summary, halfway>>
        /\ DOMAIN cmd = DOMAIN Idle
    BY <1>3 DEF CheckApproval, files, Inv, ShapeInv
  <2>2. cmd'.pc \in {"own", "plan", "block"}
    <3>1. CASE Goto("block")
      BY <3>1, GotoShape
    <3>2. CASE cmd' = [cmd EXCEPT !.pc = IF cmd.boundary.own THEN "own" ELSE "plan",
                                  !.boundary.profile = approval]
      <4>1. "pc" \in DOMAIN cmd
        BY <2>1, IdleShape
      <4> QED
        BY <3>2, <4>1
    <3> QED
      BY <1>3, <3>1, <3>2 DEF CheckApproval
  <2> QED
    BY <2>1, <2>2, EarlyExact DEF Early
<1> QED
  BY <1>1, <1>2, <1>3

LEMMA BlockExact ==
    ASSUME Inv, Exact, Block
    PROVE  Exact'
<1>1. cmd.pc = "block" /\ UNCHANGED <<evidence, halfway>>
  BY DEF Block
<1>2. CASE Exit /\ UNCHANGED summary
  BY <1>1, <1>2, ExitExact
<1>3. CASE /\ summary' = IF summary = Missing THEN File(NotRun) ELSE summary
           /\ cmd' = [cmd EXCEPT !.pc = "output", !.result = Failed]
  <2>1. cmd'.pc = "output" /\ cmd'.result.status = "failed"
    BY <1>3, IdleShape DEF Inv, ShapeInv
  <2>2. MemoryExact'
    BY <2>1 DEF MemoryExact
  <2>3. FilesExact'
    <3>1. CASE summary = Missing
      <4>1. summary'.data.boundary = NoBoundary
        BY <1>3, <3>1, FileShape DEF NotRun
      <4> QED
        BY <4>1, NotABoundary DEF FilesExact
    <3>2. CASE summary # Missing
      BY <1>1, <1>3, <3>2, FilesStayExact
    <3> QED
      BY <3>1, <3>2
  <2> QED
    BY <2>2, <2>3 DEF Exact
<1> QED
  BY <1>2, <1>3 DEF Block

LEMMA CheckOwnEvidenceExact ==
    ASSUME Inv, Exact, CheckOwnEvidence
    PROVE  Exact'
<1>1. /\ cmd.pc = "own" /\ UNCHANGED <<evidence, summary, halfway>>
      /\ Exit \/ Goto("annotate")
      /\ cmd.boundary.own
  BY DEF CheckOwnEvidence, files, Inv, ShapeInv
<1>2. CASE Exit
  BY <1>1, <1>2, ExitExact
<1>3. CASE Goto("annotate")
  <2>1. cmd'.pc = "annotate" /\ cmd'.boundary.own
    BY <1>1, <1>3, GotoShape
  <2>2. MemoryExact'
    BY <2>1 DEF MemoryExact, Founded
  <2> QED
    BY <1>1, <2>2, FilesStayExact DEF Exact
<1> QED
  BY <1>1, <1>2, <1>3

\* What is reused is what the summary's boundary brought.
LEMMA PlanEvidenceExact ==
    ASSUME Inv, Typed, Exact, PlanEvidence
    PROVE  Exact'
<1> DEFINE reused == Reusable(summary.data, cmd.boundary)
           some == [cmd EXCEPT !.pc = "ask", !.reused = reused, !.todo = ProviderSet \ reused,
                       !.kept = evidence.data, !.keptOutcome = summary.data.outcome]
<1>1. /\ cmd.pc = "plan" /\ UNCHANGED <<evidence, summary, halfway>>
      /\ DOMAIN cmd = DOMAIN Idle /\ cmd.reused = {}
      /\ cmd.boundary \in Boundaries /\ ~cmd.boundary.own
  BY DEF PlanEvidence, files, Inv, ShapeInv
<1>2. FilesExact'
  BY <1>1, FilesStayExact
<1>3. \/ AskAll
      \/ Exit
      \/ summary.is = "file" /\ reused # {} /\ Goto("annotate")
      \/ summary.is = "file" /\ reused # {} /\ evidence.is = "file" /\ cmd' = some
  <2>1. summary = Missing \/ summary = Torn \/ summary.is = "file"
    BY DEF Typed, IsSummary
  <2>2. evidence = Missing \/ evidence = Torn \/ evidence.is = "file"
    BY DEF Typed, IsEvidence
  <2> QED
    BY <2>1, <2>2 DEF PlanEvidence
<1>4. (summary.is = "file" /\ reused # {} /\ evidence.is = "file" /\ ~halfway) =>
         evidence.data = ItemsOf(summary.data.outcome, cmd.boundary)
  <2>1. reused # {} => summary.data.boundary = cmd.boundary
    BY DEF Reusable
  <2> HIDE DEF reused
  <2> QED
    BY <1>1, <2>1 DEF Exact, FilesExact
<1>5. CASE AskAll
  <2>1. cmd'.pc = "ask" /\ cmd'.reused = {}
    BY <1>1, <1>5, IdleShape DEF AskAll
  <2> QED
    BY <1>2, <2>1 DEF Exact, MemoryExact
<1>6. CASE Exit
  BY <1>1, <1>6, ExitExact
<1>7. CASE summary.is = "file" /\ reused # {} /\ Goto("annotate")
  <2>1. cmd'.pc = "annotate" /\ cmd'.boundary = cmd.boundary
    BY <1>7, GotoShape
  <2> HIDE DEF reused
  <2>2. MemoryExact'
    BY <1>1, <1>4, <1>7, <2>1 DEF MemoryExact, Founded
  <2> QED
    BY <1>2, <2>2 DEF Exact
<1>8. CASE summary.is = "file" /\ reused # {} /\ evidence.is = "file" /\ cmd' = some
  <2>1. /\ some.pc = "ask" /\ some.reused = reused /\ some.boundary = cmd.boundary
        /\ some.kept = evidence.data /\ some.keptOutcome = summary.data.outcome
    BY <1>1, IdleShape
  <2>2. Succeeded(summary.data.outcome) \subseteq reused
    <3>1. summary.data.boundary = cmd.boundary
      BY <1>8 DEF Reusable
    <3>2. DOMAIN summary.data.outcome \subseteq ProviderSet
      BY <1>8, FileShape DEF Typed, IsSummary, IsOutcome, Partial
    <3> QED
      BY <3>1, <3>2 DEF Succeeded, Reusable, Usable
  <2> HIDE DEF some, reused
  <2>3. MemoryExact'
    BY <1>1, <1>4, <1>8, <2>1, <2>2 DEF MemoryExact
  <2> QED
    BY <1>2, <2>3 DEF Exact
<1> QED
  BY <1>3, <1>5, <1>6, <1>7, <1>8

LEMMA AskExact ==
    ASSUME Inv, Exact, NEW p \in ProviderSet, NEW answer \in Answers, Ask(p, answer)
    PROVE  Exact'
<1> DEFINE outcome == [q \in DOMAIN cmd.outcome \union {p} |->
                          IF q = p THEN answer ELSE cmd.outcome[q]]
<1>1. /\ cmd' = [cmd EXCEPT !.todo = @ \ {p}, !.outcome = outcome] /\ cmd.pc = "ask"
      /\ UNCHANGED <<evidence, summary, halfway>> /\ DOMAIN cmd = DOMAIN Idle
  BY DEF Ask, files, Inv, ShapeInv
<1> HIDE DEF outcome
<1>2. /\ cmd'.pc = "ask" /\ cmd'.reused = cmd.reused /\ cmd'.boundary = cmd.boundary
      /\ cmd'.kept = cmd.kept /\ cmd'.keptOutcome = cmd.keptOutcome
  BY <1>1, IdleShape
<1>3. MemoryExact'
  BY <1>1, <1>2 DEF Exact, MemoryExact
<1> QED
  BY <1>1, <1>3, FilesStayExact DEF Exact

LEMMA WriteEvidenceExact ==
    ASSUME Inv, Typed, Exact, WriteEvidence
    PROVE  Exact'
<1> DEFINE new == ItemsOf(cmd.outcome, cmd.boundary)
           merged == MergedOutcome(cmd.keptOutcome, cmd.outcome, cmd.reused)
<1>1. /\ cmd.pc = "ask" /\ Goto("summary") /\ UNCHANGED <<summary, halfway>>
      /\ evidence' = File(IF cmd.reused = {} THEN new ELSE MergedEvidence(cmd.kept, new))
  BY DEF WriteEvidence
<1>2. /\ cmd'.pc = "summary" /\ cmd'.boundary = cmd.boundary /\ cmd'.reused = cmd.reused
      /\ cmd'.keptOutcome = cmd.keptOutcome /\ cmd'.outcome = cmd.outcome
  BY <1>1, GotoShape
<1>3. evidence'.data = IF cmd.reused = {} THEN new ELSE MergedEvidence(cmd.kept, new)
  BY <1>1, FileShape
<1>4. (cmd.reused # {} /\ ~halfway) =>
         MergedEvidence(cmd.kept, new) = ItemsOf(merged, cmd.boundary)
  <2> SUFFICES ASSUME cmd.reused # {}, ~halfway
               PROVE  MergedEvidence(cmd.kept, new) = ItemsOf(merged, cmd.boundary)
    OBVIOUS
  <2>1. /\ cmd.kept = ItemsOf(cmd.keptOutcome, cmd.boundary)
        /\ Succeeded(cmd.keptOutcome) \subseteq cmd.reused
    BY <1>1 DEF Exact, MemoryExact
  <2>2. IsOutcome(cmd.keptOutcome) /\ IsOutcome(cmd.outcome)
        /\ DOMAIN cmd.outcome \intersect cmd.reused = {}
    BY DEF Typed, IsPreview
  <2> QED
    BY <2>1, <2>2, MergedIsExact
<1> HIDE DEF new, merged
<1>5. MemoryExact'
  BY <1>1, <1>2, <1>3, <1>4 DEF MemoryExact, new, merged
<1>6. FilesExact'
  BY <1>2 DEF FilesExact
<1> QED
  BY <1>5, <1>6 DEF Exact

LEMMA WriteSummaryExact ==
    ASSUME Inv, Exact, WriteSummary
    PROVE  Exact'
<1> DEFINE plain == [boundary |-> NoBoundary, outcome |-> cmd.outcome]
           merged == MergedOutcome(cmd.keptOutcome, cmd.outcome, cmd.reused)
           full == [boundary |-> cmd.boundary, outcome |-> merged]
<1>1. cmd.pc = "summary" /\ evidence' = evidence
  BY DEF WriteSummary
<1>2. CASE cmd.reused = {}
  <2>1. summary' = File(plain) /\ Goto("annotate")
    BY <1>2 DEF WriteSummary
  <2>2. summary'.data.boundary = NoBoundary /\ summary'.data.outcome = cmd.outcome
        /\ cmd'.pc = "annotate" /\ cmd'.boundary = cmd.boundary
    BY <2>1, FileShape, GotoShape
  <2>3. evidence.data = ItemsOf(cmd.outcome, cmd.boundary)
    BY <1>1, <1>2 DEF Exact, MemoryExact
  <2>4. MemoryExact'
    BY <1>1, <2>2, <2>3 DEF MemoryExact
  <2>5. FilesExact'
    BY <2>2, NotABoundary DEF FilesExact
  <2> QED
    BY <2>4, <2>5 DEF Exact
<1>3. CASE cmd.reused # {}
  <2>1. summary' = File(full) /\ Goto("native") /\ halfway' = halfway
    BY <1>3 DEF WriteSummary
  <2>2. summary'.data.boundary = cmd.boundary /\ summary'.data.outcome = merged
        /\ cmd'.pc = "native" /\ cmd'.boundary = cmd.boundary
    BY <2>1, FileShape, GotoShape
  <2>3. ~halfway => evidence.data = ItemsOf(merged, cmd.boundary)
    BY <1>1, <1>3 DEF Exact, MemoryExact
  <2> HIDE DEF merged, full
  <2>4. MemoryExact'
    BY <1>1, <2>1, <2>2, <2>3 DEF MemoryExact, Founded
  <2>5. FilesExact'
    BY <1>1, <2>1, <2>2, <2>3 DEF FilesExact
  <2> QED
    BY <2>4, <2>5 DEF Exact
<1> QED
  BY <1>2, <1>3

LEMMA AnnotateExact ==
    ASSUME Inv, Exact, Annotate
    PROVE  Exact'
<1> DEFINE data == [summary.data EXCEPT !.boundary = cmd.boundary]
<1>1. /\ cmd.pc = "annotate" /\ Goto("native") /\ summary' = File(data)
      /\ UNCHANGED <<evidence, halfway>>
  BY DEF Annotate
<1>2. DOMAIN summary.data = {"boundary", "outcome"}
  BY <1>1, FileShape DEF Inv, LateInv, ShapeInv
<1>3. summary'.data.boundary = cmd.boundary /\ summary'.data.outcome = summary.data.outcome
  BY <1>1, <1>2, FileShape
<1> HIDE DEF data
<1>4. cmd'.pc = "native" /\ cmd'.boundary = cmd.boundary
  BY <1>1, GotoShape
<1>5. (Founded /\ evidence.is = "file") => evidence.data = ItemsOf(summary.data.outcome, cmd.boundary)
  BY <1>1 DEF Exact, MemoryExact
<1>6. MemoryExact'
  BY <1>1, <1>3, <1>4, <1>5 DEF MemoryExact, Founded
<1>7. FilesExact'
  BY <1>1, <1>3, <1>5 DEF FilesExact, Founded
<1> QED
  BY <1>6, <1>7 DEF Exact

\* The preview goes on with a result that has the evidence of its outcomes.
LEMMA ResultExact ==
    ASSUME Inv, Exact, UNCHANGED <<evidence, summary, halfway>>, cmd.pc # "summary",
           NEW pc \in {"native_output", "output"}, NEW result,
           cmd' = [cmd EXCEPT !.pc = pc, !.result = result],
           (Founded /\ result.status # "failed") =>
              result.evidence = ItemsOf(result.outcome, cmd.boundary)
    PROVE  Exact'
<1>1. cmd'.pc = pc /\ cmd'.result = result /\ cmd'.boundary = cmd.boundary
  BY IdleShape DEF Inv, ShapeInv
<1>2. MemoryExact'
  BY <1>1 DEF MemoryExact, Founded
<1> QED
  BY <1>2, FilesStayExact DEF Exact

LEMMA ReportExact ==
    ASSUME Inv, Exact, RunReport \/ TimeOut
    PROVE  Exact'
<1>1. cmd.pc = "native" /\ UNCHANGED <<evidence, summary, halfway>>
  BY DEF RunReport, TimeOut, files
<1>2. CASE Exit
  BY <1>1, <1>2, ExitExact
<1>3. CASE TimeOut
  <2>1. cmd' = [cmd EXCEPT !.pc = "output", !.result = Failed]
    BY <1>3 DEF TimeOut
  <2> QED
    BY <1>1, <2>1, IdleShape, ResultExact
<1>4. ASSUME NEW s \in ReportStatuses, evidence.is = "file",
             cmd' = [cmd EXCEPT !.pc = "native_output",
                        !.result = IF s = "failed" THEN Failed
                                   ELSE [status |-> s, shown |-> FALSE, met |-> FALSE,
                                         evidence |-> evidence.data,
                                         outcome |-> summary.data.outcome]]
      PROVE  Exact'
  <2> DEFINE whole == [status |-> s, shown |-> FALSE, met |-> FALSE,
                       evidence |-> evidence.data, outcome |-> summary.data.outcome]
             result == IF s = "failed" THEN Failed ELSE whole
  <2>1. Founded => evidence.data = ItemsOf(summary.data.outcome, cmd.boundary)
    BY <1>1, <1>4 DEF Exact, MemoryExact
  <2>2. whole.evidence = evidence.data /\ whole.outcome = summary.data.outcome
    OBVIOUS
  <2>3. cmd' = [cmd EXCEPT !.pc = "native_output", !.result = result]
    BY <1>4
  <2> HIDE DEF whole
  <2>4. (Founded /\ result.status # "failed") =>
           result.evidence = ItemsOf(result.outcome, cmd.boundary)
    BY <2>1, <2>2, IdleShape
  <2> HIDE DEF result
  <2> QED
    BY <1>1, <2>3, <2>4, ResultExact
<1> QED
  BY <1>2, <1>3, <1>4 DEF RunReport

LEMMA WriteNativeHandoffExact ==
    ASSUME Inv, Exact, NEW accepted \in BOOLEAN, WriteNativeHandoff(accepted)
    PROVE  Exact'
<1> DEFINE r == cmd.result
           result == WithPreview(r, accepted)
<1>1. /\ cmd.pc = "native_output" /\ UNCHANGED <<evidence, summary, halfway>>
      /\ cmd' = [cmd EXCEPT !.pc = "output", !.result = result]
      /\ DOMAIN r = DOMAIN Failed
  BY DEF WriteNativeHandoff, Inv, ShapeInv
<1>2. /\ result.evidence = r.evidence /\ result.outcome = r.outcome
      /\ result.status # "failed" => r.status # "failed"
  <2> DEFINE status == IF r.status = "user_ready" /\ EvidenceNeedsReview(r.outcome)
                       THEN "operator_review_only" ELSE r.status
             met == ClosureMet(status, r.outcome, accepted)
  <2>1. result = [r EXCEPT !.status = status, !.shown = TRUE, !.met = met]
    BY DEF WithPreview
  <2>2. status # "failed" => r.status # "failed"
    OBVIOUS
  <2> HIDE DEF status, met, result
  <2> QED
    BY <1>1, <2>1, <2>2, IdleShape
<1>3. (Founded /\ r.status # "failed") => r.evidence = ItemsOf(r.outcome, cmd.boundary)
  BY <1>1 DEF Exact, MemoryExact
<1> HIDE DEF result
<1> QED
  BY <1>1, <1>2, <1>3, ResultExact

LEMMA CrashExact ==
    ASSUME Exact, Crash
    PROVE  Exact'
<1>1. /\ cmd'.pc = "idle" /\ halfway' = (halfway \/ cmd.pc = "summary")
      /\ evidence' = evidence \/ evidence' = Torn
      /\ summary' = summary \/ summary' = Torn
  BY IdleShape DEF Crash, Exit
<1>2. MemoryExact'
  BY <1>1 DEF MemoryExact
<1>3. FilesExact'
  BY <1>1, FileShape DEF Exact, FilesExact
<1> QED
  BY <1>2, <1>3 DEF Exact

LEMMA NextExact == Inv /\ Typed /\ Exact /\ [Next]_vars => Exact'
<1> SUFFICES ASSUME Inv, Typed, Exact, [Next]_vars PROVE Exact'
  OBVIOUS
<1>1. CASE Step
  <2>1. CASE CheckReadiness \/ CheckApproval
    BY <2>1, EarliestExact
  <2>2. CASE Block
    BY <2>2, BlockExact
  <2>3. CASE CheckOwnEvidence
    BY <2>3, CheckOwnEvidenceExact
  <2>4. CASE PlanEvidence
    BY <2>4, PlanEvidenceExact
  <2>5. CASE \E p \in ProviderSet, a \in Answers : Ask(p, a)
    BY <2>5, AskExact
  <2>6. CASE WriteEvidence
    BY <2>6, WriteEvidenceExact
  <2>7. CASE WriteSummary
    BY <2>7, WriteSummaryExact
  <2>8. CASE Annotate
    BY <2>8, AnnotateExact
  <2>9. CASE RunReport \/ TimeOut
    BY <2>9, ReportExact
  <2>10. CASE \E accepted \in BOOLEAN : WriteNativeHandoff(accepted)
    BY <2>10, WriteNativeHandoffExact
  <2>11. CASE WriteHandoff
    BY <2>11, ExitExact DEF WriteHandoff
  <2> QED
    BY <1>1, <2>1, <2>2, <2>3, <2>4, <2>5, <2>6, <2>7, <2>8, <2>9, <2>10, <2>11 DEF Step
<1>2. CASE \E run \in Runs, request \in Requests, own \in BOOLEAN : Start(run, request, own)
  BY <1>2, EarliestExact
<1>3. CASE Crash
  BY <1>3, CrashExact
<1>4. CASE EditApproval
  BY <1>4 DEF EditApproval, Exact, FilesExact, MemoryExact, Founded
<1>5. CASE Discard
  <2>1. /\ cmd.pc = "idle" /\ cmd' = cmd
        /\ evidence' = Missing \/ summary' = Missing
    BY <1>5 DEF Discard
  <2> QED
    BY <2>1, FileShape DEF Exact, FilesExact, MemoryExact
<1>6. CASE UNCHANGED vars
  BY <1>6 DEF vars, files, Exact, FilesExact, MemoryExact, Founded
<1> QED
  BY <1>1, <1>2, <1>3, <1>4, <1>5, <1>6 DEF Next

LEMMA ExactHolds == Spec => []Exact
BY InitInv, NextInv, InitTyped, NextTyped, InitExact, NextExact, PTL DEF Spec

\* The evidence that is written with the result is the result's own.
LEMMA WrittenEvidence ==
    ASSUME NEW b, NEW result, Deliverable(Written(b, result))
    PROVE  Written(b, result).data.evidence = result.evidence /\ result.status = "user_ready"
<1> DEFINE data == [status |-> result.status, shown |-> result.shown, met |-> TRUE,
                    boundary |-> b, evidence |-> result.evidence]
<1>1. Written(b, result) = File(data) /\ data.evidence = result.evidence
      /\ data.status = result.status
  BY WrittenShape DEF Written
<1> HIDE DEF data
<1> QED
  BY <1>1, FileShape DEF Deliverable

LEMMA ExactStep ==
    ASSUME Inv, Exact, [Next]_vars, NewlyDeliverable, OfProviders(handoff'.data), ~halfway
    PROVE  handoff'.data.evidence = ItemsOf(cmd.result.outcome, handoff'.data.boundary)
<1>1. handoff' # handoff /\ Deliverable(handoff')
  BY DEF NewlyDeliverable
<1>2. CASE \E accepted \in BOOLEAN : WriteNativeHandoff(accepted)
  <2>1. cmd.pc = "native_output" /\ handoff' = Written(cmd.boundary, cmd.result)
    BY <1>2 DEF WriteNativeHandoff
  <2>2. ~cmd.result.met
    BY <2>1 DEF Inv, LateInv
  <2> QED
    BY <1>1, <2>1, <2>2, WrittenShape
<1>3. CASE WriteHandoff
  <2>1. cmd.pc = "output" /\ handoff' = Written(cmd.boundary, cmd.result)
    BY <1>3 DEF WriteHandoff
  <2>2. handoff'.data.boundary = cmd.boundary /\ handoff'.data.evidence = cmd.result.evidence
        /\ cmd.result.status # "failed"
    BY <1>1, <2>1, WrittenShape, WrittenEvidence
  <2>3. Founded
    BY <2>2 DEF OfProviders, Founded
  <2> QED
    BY <2>1, <2>2, <2>3 DEF Exact, MemoryExact
<1>4. handoff' = Torn \/ handoff' = handoff \/ WriteHandoff
      \/ \E accepted \in BOOLEAN : WriteNativeHandoff(accepted)
  BY DEF Next, Step, Start, CheckReadiness, CheckApproval, Block, CheckOwnEvidence,
         PlanEvidence, Ask, WriteEvidence, WriteSummary, Annotate, RunReport, TimeOut,
         EditApproval, Discard, Crash, vars, files
<1>5. handoff' # Torn
  BY <1>1, FileShape DEF Deliverable
<1> QED
  BY <1>1, <1>2, <1>3, <1>4, <1>5

\* The evidence behind a handoff that may be sent is what its providers brought within its
\* own smoke boundary: nothing lost in a merge, nothing twice, nothing of another boundary
\* (_collect_or_reuse_pre_publish_external_evidence).
THEOREM DeliverableEvidenceIsItsOwn == Spec => DeliverableEvidenceIsExact
<1>1. Inv /\ Exact /\ [Next]_vars =>
        [(NewlyDeliverable /\ OfProviders(handoff'.data) /\ ~halfway) =>
           handoff'.data.evidence = ItemsOf(cmd.result.outcome, handoff'.data.boundary)]_vars
  BY ExactStep
<1> QED
  BY <1>1, InvHolds, ExactHolds, PTL DEF Spec, DeliverableEvidenceIsExact

==============================================================================
