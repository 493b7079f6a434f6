--------------------- MODULE DailyPublishClosure_proofs ---------------------
(***************************************************************************)
(* Theorems about TelegramDelivery and DailyPublishClosure, for any number *)
(* of commands, messages and aliases, and crashes at any step.  In three   *)
(* parts: what holds whatever overlaps, what holds when no two commands    *)
(* overlap, and what the met closures of the verifier beside them mean.    *)
(***************************************************************************)
EXTENDS DailyPublishClosure, FiniteSetTheorems, SequenceTheorems, TLAPS

-----------------------------------------------------------------------------
(***************************************************************************)
(* Part 1: commands that may overlap, unless a theorem says otherwise      *)
(***************************************************************************)
File == Receipt \union {Torn}

\* The files that can be read are some of those that are there.
LEMMA ReadableFinite ==
    ASSUME NEW files \in Seq(File)
    PROVE  /\ IsFiniteSet(Readable(files))
           /\ Cardinality(Readable(files)) \in Nat
           /\ Cardinality(Readable(files)) <= Len(files)
<1>1. DOMAIN files = 1..Len(files) /\ Len(files) \in Nat
  OBVIOUS
<1>2. IsFiniteSet(1..Len(files)) /\ Cardinality(1..Len(files)) = Len(files)
  BY <1>1, FS_Interval
<1>3. Readable(files) \subseteq 1..Len(files)
  BY <1>1 DEF Readable
<1> QED
  BY <1>1, <1>2, <1>3, FS_Subset, FS_CardinalityType

\* The attempt number a command computes names the next file or an existing one.
LEMMA NextAttemptInRange ==
    ASSUME NEW files \in Seq(File)
    PROVE  NextAttempt(files) \in Nat \ {0} /\ NextAttempt(files) <= Len(files) + 1
BY ReadableFinite, LenProperties DEF NextAttempt

Failure == [status |-> "failed", adapter |-> "none"]

LEMMA RealReceipt == Failure \in Receipt /\ Failure # Torn
BY DEF Failure, Receipt, ReceiptStatuses, Adapters, Torn

LEMMA SomeKeyIsKey == SomeKey \in Keys
<1>1. PICK m \in Messages, a \in Aliases : TRUE
  BY KeysAssumption
<1>2. <<m, a>> \in Keys
  BY <1>1 DEF Keys
<1> QED
  BY <1>2, Zenon DEF SomeKey

LEMMA InactiveType ==
    ASSUME NEW pc \in Phases
    PROVE  Inactive(pc) \in Command /\ Inactive(pc).pc = pc /\ Inactive(pc).attempt = 1
           /\ Inactive(pc).key = SomeKey
BY SomeKeyIsKey, ApprovalPathsAssumption, MaxClockAssumption DEF Inactive, Command

\* A step that changes one command, while receipt files are only added.
LEMMA CommandUpdate ==
    ASSUME TypeOK, receipts' \in [Keys -> Seq(File)],
           \A k \in Keys : Len(receipts[k]) <= Len(receipts'[k]),
           NEW c \in Commands, NEW new \in Command,
           cmd' = [cmd EXCEPT ![c] = new], Fits(new, receipts')
    PROVE  /\ cmd' \in [Commands -> Command]
           /\ \A d \in Commands : Fits(cmd'[d], receipts')
<1>1. cmd' \in [Commands -> Command]
  BY DEF TypeOK
<1>2. \A k \in Keys : Len(receipts[k]) \in Nat /\ Len(receipts'[k]) \in Nat
  BY LenProperties DEF TypeOK, File
<1>3. SUFFICES ASSUME NEW d \in Commands, d # c PROVE Fits(cmd'[d], receipts')
  BY <1>1 DEF TypeOK
<1>4. cmd'[d] = cmd[d] /\ cmd[d] \in Command /\ Fits(cmd[d], receipts)
  BY <1>3 DEF TypeOK
<1> QED
  BY <1>2, <1>4 DEF Fits, Command

\* The same when no receipt file changes.
LEMMA CommandStepOnly ==
    ASSUME TypeOK, UNCHANGED receipts, NEW c \in Commands, NEW new \in Command,
           cmd' = [cmd EXCEPT ![c] = new], Fits(new, receipts)
    PROVE  /\ cmd' \in [Commands -> Command]
           /\ \A d \in Commands : Fits(cmd'[d], receipts')
<1>1. receipts' \in [Keys -> Seq(File)] /\ receipts' = receipts
  BY DEF TypeOK, File
<1>2. \A k \in Keys : Len(receipts[k]) \in Nat
  BY LenProperties DEF TypeOK
<1>3. \A k \in Keys : Len(receipts[k]) <= Len(receipts'[k])
  BY <1>1, <1>2
<1> QED
  BY <1>1, <1>3, CommandUpdate

LEMMA InactiveFits ==
    ASSUME TypeOK, NEW pc \in {"idle", "template", "done", "crashed"}
    PROVE  Inactive(pc) \in Command /\ Fits(Inactive(pc), receipts)
<1>1. Len(receipts[SomeKey]) \in Nat
  BY SomeKeyIsKey, LenProperties DEF TypeOK
<1> QED
  BY <1>1, InactiveType DEF Fits, Phases

-----------------------------------------------------------------------------

LEMMA TypeOKInit == Init => TypeOK
<1> SUFFICES ASSUME Init PROVE TypeOK
  OBVIOUS
<1>1. /\ handoff \in [message : Messages, state : HandoffStates \union {"deliverable"}]
      /\ clock \in 0..MaxClock
      /\ summary \in {NoSummary, TornSummary} \union Summary
      /\ delivered \in [Keys -> Nat]
      /\ authorised \subseteq Keys
      /\ lost \subseteq Keys
  BY MaxClockAssumption DEF Init
<1>2. approvals \in [ApprovalPaths -> Profile]
  BY SomeKeyIsKey, MaxClockAssumption DEF Init, Profile, ProfileStatuses, Never
<1>3. cmd \in [Commands -> Command] /\ \A c \in Commands : cmd[c] = Inactive("idle")
  BY InactiveType DEF Init, Phases
<1>4. receipts \in [Keys -> Seq(File)] /\ \A k \in Keys : receipts[k] = << >>
  BY EmptySeq DEF Init
<1>5. \A c \in Commands : Fits(cmd[c], receipts)
  BY <1>3, <1>4, InactiveType, SomeKeyIsKey, EmptySeq DEF Fits, Phases
<1> QED
  BY <1>1, <1>2, <1>3, <1>4, <1>5 DEF TypeOK, File

LEMMA TypeOKStep == TypeOK /\ [Next]_vars => TypeOK'
<1> SUFFICES ASSUME TypeOK, [Next]_vars PROVE TypeOK'
  OBVIOUS
<1> USE DEF File
<1> DEFINE Others == /\ handoff' \in [message : Messages, state : HandoffStates \union {"deliverable"}]
                     /\ approvals' \in [ApprovalPaths -> Profile]
                     /\ clock' \in 0..MaxClock
                     /\ receipts' \in [Keys -> Seq(File)]
                     /\ summary' \in {NoSummary, TornSummary} \union Summary
                     /\ delivered' \in [Keys -> Nat]
                     /\ authorised' \subseteq Keys
                     /\ lost' \subseteq Keys
           Cmd == cmd' \in [Commands -> Command]
                  /\ \A d \in Commands : Fits(cmd'[d], receipts')
<1>0. SUFFICES Others /\ Cmd
  BY DEF TypeOK
<1>c. \A c \in Commands : cmd[c] \in Command /\ Fits(cmd[c], receipts)
  BY DEF TypeOK
<1>1. ASSUME NEW c \in Commands, NEW a \in Aliases, NEW live \in LiveFlags,
             NEW retry \in BOOLEAN, NEW p \in ApprovalPaths, Start(c, a, live, retry, p)
      PROVE  Others /\ Cmd
  <2> DEFINE started == [Inactive("template") EXCEPT !.key = <<handoff.message, a>>,
                             !.live = live, !.retry = retry, !.path = p, !.now = clock]
             new == IF handoff.state = "deliverable" THEN started ELSE Inactive("done")
  <2>1. <<handoff.message, a>> \in Keys
    BY DEF TypeOK, Keys
  <2>2. Len(receipts[<<handoff.message, a>>]) \in Nat
    BY <2>1, LenProperties DEF TypeOK
  <2>3. started \in Command /\ started.attempt = 1 /\ started.pc = "template"
        /\ started.key = <<handoff.message, a>>
    BY <2>1, InactiveFits, LiveFlagsAssumption DEF TypeOK, Command, Inactive
  <2>4. Fits(started, receipts)
    BY <2>2, <2>3 DEF Fits
  <2> HIDE DEF started
  <2>5. new \in Command /\ Fits(new, receipts)
    BY <2>3, <2>4, InactiveFits
  <2>6. cmd' = [cmd EXCEPT ![c] = new] /\ UNCHANGED receipts
    BY <1>1 DEF Start, Eligible, started
  <2>7. Cmd
    BY <2>5, <2>6, CommandStepOnly
  <2> QED
    BY <1>1, <2>7 DEF Start, Eligible, TypeOK
<1>2. ASSUME NEW c \in Commands, WriteTemplate(c)
      PROVE  Others /\ Cmd
  <2> DEFINE pending == [status |-> "pending", boundary |-> cmd[c].key, expires |-> Never]
             new == [cmd[c] EXCEPT !.pc = "approval"]
  <2>1. pending \in Profile
    BY MaxClockAssumption DEF TypeOK, Profile, ProfileStatuses, Never, Command
  <2>2. approvals' \in [ApprovalPaths -> Profile]
    BY <1>2, <2>1, ApprovalPathsAssumption DEF WriteTemplate, TypeOK
  <2>3. cmd' = [cmd EXCEPT ![c] = new] /\ UNCHANGED receipts
    BY <1>2 DEF WriteTemplate, Goto
  <2>4. new \in Command /\ Fits(new, receipts)
    BY <1>c DEF Command, Phases, Fits
  <2>5. Cmd
    BY <2>3, <2>4, CommandStepOnly
  <2> QED
    BY <1>2, <2>2, <2>5 DEF WriteTemplate, TypeOK
<1>3. ASSUME NEW c \in Commands, CheckApproval(c)
      PROVE  Others /\ Cmd
  <2>1. ASSUME cmd' = [cmd EXCEPT ![c].pc = "receipts"] PROVE Cmd
    <3> DEFINE new == [cmd[c] EXCEPT !.pc = "receipts"]
    <3>1. new \in Command /\ Fits(new, receipts)
      BY <1>c DEF Command, Phases, Fits
    <3>2. cmd' = [cmd EXCEPT ![c] = new] /\ UNCHANGED receipts
      BY <1>3, <2>1 DEF CheckApproval
    <3> QED
      BY <3>1, <3>2, CommandStepOnly
  <2>2. ASSUME cmd' = [cmd EXCEPT ![c].pc = "open_summary", ![c].receipt = Failure]
        PROVE  Cmd
    <3> DEFINE new == [cmd[c] EXCEPT !.pc = "open_summary", !.receipt = Failure]
    <3>1. new \in Command /\ Fits(new, receipts)
      BY <1>c, RealReceipt DEF Command, Phases, Fits
    <3>2. cmd' = [cmd EXCEPT ![c] = new] /\ UNCHANGED receipts
      BY <1>3, <2>2 DEF CheckApproval
    <3> QED
      BY <3>1, <3>2, CommandStepOnly
  <2>3. Cmd
    BY <1>3, <2>1, <2>2 DEF CheckApproval, Goto, Failure
  <2> QED
    BY <1>3, <2>3 DEF CheckApproval, TypeOK
<1>4. ASSUME NEW c \in Commands, ReadReceipts(c)
      PROVE  Others /\ Cmd
  <2> DEFINE files == receipts[cmd[c].key]
  <2>1. NextAttempt(files) \in Nat \ {0} /\ NextAttempt(files) <= Len(files) + 1
    BY NextAttemptInRange DEF TypeOK, Command
  <2>2. PICK pc \in {"open_receipt", "open_summary", "send"}, r \in Receipt :
           cmd' = [cmd EXCEPT ![c].pc = pc, ![c].attempt = NextAttempt(files), ![c].receipt = r]
    BY <1>4 DEF ReadReceipts, Receipt, ReceiptStatuses, Adapters
  <2> DEFINE new == [cmd[c] EXCEPT !.pc = pc, !.attempt = NextAttempt(files), !.receipt = r]
  <2>3. cmd' = [cmd EXCEPT ![c] = new] /\ UNCHANGED receipts
    <3>1. UNCHANGED receipts
      BY <1>4 DEF ReadReceipts
    <3> QED
      BY ONLY <2>2, <3>1
  <2>4. r # Torn
    BY DEF Receipt, ReceiptStatuses, Torn
  <2>5. new \in Command /\ Fits(new, receipts)
    BY <1>c, <2>1, <2>4 DEF Command, Phases, Fits
  <2> HIDE DEF new
  <2>6. Cmd
    BY <2>3, <2>5, CommandStepOnly
  <2> QED
    BY <1>4, <2>6 DEF ReadReceipts, TypeOK
<1>5. ASSUME NEW c \in Commands, SendFake(c)
      PROVE  Others /\ Cmd
  <2>0. PICK r \in Receipt : r # Torn /\
           cmd' = [cmd EXCEPT ![c].pc = "open_receipt", ![c].receipt = r]
    BY <1>5 DEF SendFake, Receipt, ReceiptStatuses, Adapters, Torn
  <2> DEFINE new == [cmd[c] EXCEPT !.pc = "open_receipt", !.receipt = r]
  <2>1. cmd' = [cmd EXCEPT ![c] = new] /\ UNCHANGED receipts
    BY <1>5, <2>0 DEF SendFake
  <2>2. new \in Command /\ Fits(new, receipts)
    BY <1>c, <2>0 DEF Command, Phases, Fits
  <2>3. Cmd
    BY <2>1, <2>2, CommandStepOnly
  <2> QED
    BY <1>5, <2>3 DEF SendFake, TypeOK
<1>6. ASSUME NEW c \in Commands, SendLive(c)
      PROVE  Others /\ Cmd
  <2>1. PICK r \in LiveResponses : cmd' = [cmd EXCEPT ![c].pc = "open_receipt",
           ![c].called = TRUE, ![c].receipt = [status |-> r.status, adapter |-> "bot_api"]]
    BY <1>6 DEF SendLive
  <2>2. r.status \in {"sent", "failed"}
    BY DEF LiveResponses
  <2>3. [status |-> r.status, adapter |-> "bot_api"] \in Receipt \ {Torn}
    BY <2>2 DEF Receipt, ReceiptStatuses, Adapters, Torn
  <2> DEFINE new == [cmd[c] EXCEPT !.pc = "open_receipt", !.called = TRUE,
                                   !.receipt = [status |-> r.status, adapter |-> "bot_api"]]
  <2>4. cmd' = [cmd EXCEPT ![c] = new] /\ UNCHANGED receipts
    <3>1. UNCHANGED receipts
      BY <1>6 DEF SendLive
    <3> QED
      BY ONLY <2>1, <3>1
  <2>5. new \in Command /\ Fits(new, receipts)
    BY <1>c, <2>3 DEF Command, Phases, Fits
  <2> HIDE DEF new
  <2>6. Cmd
    BY <2>4, <2>5, CommandStepOnly
  <2>7. delivered' \in [Keys -> Nat]
    BY <1>6 DEF SendLive, TypeOK, Command
  <2> QED
    BY <1>6, <2>6, <2>7 DEF SendLive, TypeOK
<1>7. ASSUME NEW c \in Commands, OpenReceipt(c)
      PROVE  Others /\ Cmd
  <2> DEFINE k == cmd[c].key
             i == cmd[c].attempt
             s == receipts[k]
             t == IF i = Len(s) + 1 THEN Append(s, Torn) ELSE [s EXCEPT ![i] = Torn]
             new == [cmd[c] EXCEPT !.pc = "write_receipt"]
  <2>1. /\ k \in Keys /\ s \in Seq(File) /\ Len(s) \in Nat
        /\ i \in Nat \ {0} /\ i <= Len(s) + 1 /\ cmd[c].receipt # Torn
    BY <1>7, LenProperties DEF OpenReceipt, TypeOK, Command, Fits
  <2>2. /\ t \in Seq(File) /\ Len(s) <= Len(t) /\ i <= Len(t)
    <3>1. CASE i = Len(s) + 1
      BY <2>1, <3>1
    <3>2. CASE i \in 1..Len(s)
      BY <2>1, <3>2, ExceptSeq
    <3> QED
      BY <2>1, <3>1, <3>2
  <2>3. receipts' = [receipts EXCEPT ![k] = t]
    BY <1>7 DEF OpenReceipt
  <2> HIDE DEF t
  <2>4. receipts' \in [Keys -> Seq(File)] /\ receipts'[k] = t
        /\ \A q \in Keys : q # k => receipts'[q] = receipts[q]
    BY <2>1, <2>2, <2>3 DEF TypeOK
  <2>5. ASSUME NEW q \in Keys PROVE Len(receipts[q]) <= Len(receipts'[q])
    <3>1. Len(receipts[q]) \in Nat
      BY LenProperties DEF TypeOK
    <3> QED
      BY <2>2, <2>4, <3>1
  <2>6. cmd' = [cmd EXCEPT ![c] = new]
    BY <1>7 DEF OpenReceipt, Goto
  <2>7. /\ new \in Command /\ new.key = k /\ new.attempt = i
        /\ new.pc = "write_receipt" /\ new.receipt # Torn
    BY <1>c, <2>1 DEF Command, Phases
  <2>8. Fits(new, receipts')
    BY <2>1, <2>2, <2>4, <2>7, LenProperties DEF Fits
  <2> HIDE DEF new
  <2>9. Cmd
    BY <2>4, <2>5, <2>6, <2>7, <2>8, CommandUpdate
  <2> QED
    BY <1>7, <2>4, <2>9 DEF OpenReceipt, TypeOK
<1>8. ASSUME NEW c \in Commands, WriteReceipt(c)
      PROVE  Others /\ Cmd
  <2> DEFINE k == cmd[c].key
             i == cmd[c].attempt
             new == [cmd[c] EXCEPT !.pc = "open_summary"]
  <2>1. /\ k \in Keys /\ receipts[k] \in Seq(File) /\ i \in 1..Len(receipts[k])
        /\ Len(receipts[k]) \in Nat
    BY <1>8, LenProperties DEF WriteReceipt, TypeOK, Command, Fits
  <2>2. PICK f \in File : receipts' = [receipts EXCEPT ![k][i] = f]
    BY <1>8 DEF WriteReceipt, WriteResults, TypeOK, Command
  <2> DEFINE t == [receipts[k] EXCEPT ![i] = f]
  <2>3. t \in Seq(File) /\ Len(t) = Len(receipts[k])
    BY <2>1, ExceptSeq
  <2>4. receipts' = [receipts EXCEPT ![k] = t]
    BY <2>2
  <2> HIDE DEF t
  <2>5. receipts' \in [Keys -> Seq(File)]
        /\ \A q \in Keys : Len(receipts'[q]) = Len(receipts[q])
    BY <2>1, <2>3, <2>4 DEF TypeOK
  <2>6. \A q \in Keys : Len(receipts[q]) <= Len(receipts'[q])
    BY <2>5, LenProperties DEF TypeOK
  <2>7. cmd' = [cmd EXCEPT ![c] = new]
    BY <1>8 DEF WriteReceipt, Goto
  <2>8. new \in Command /\ Fits(new, receipts')
    <3>1. cmd[c].pc = "write_receipt"
      BY <1>8 DEF WriteReceipt
    <3>2. cmd[c].receipt # Torn
      BY <1>c, <3>1 DEF Fits
    <3>3. /\ new \in Command /\ new.key = k /\ new.attempt = i
          /\ new.pc = "open_summary" /\ new.receipt = cmd[c].receipt
      BY <1>c DEF Command, Phases
    <3> HIDE DEF new
    <3> QED
      BY <2>1, <2>5, <3>2, <3>3 DEF Fits
  <2> HIDE DEF new
  <2>9. Cmd
    BY <2>5, <2>6, <2>7, <2>8, CommandUpdate
  <2> QED
    BY <1>8, <2>5, <2>9 DEF WriteReceipt, TypeOK
<1>9. ASSUME NEW c \in Commands, OpenSummary(c)
      PROVE  Others /\ Cmd
  <2> DEFINE new == [cmd[c] EXCEPT !.pc = "write_summary"]
  <2>1. cmd' = [cmd EXCEPT ![c] = new] /\ UNCHANGED receipts
    BY <1>9 DEF OpenSummary, Goto
  <2>2. new \in Command /\ Fits(new, receipts)
    BY <1>c, <1>9 DEF OpenSummary, Command, Phases, Fits
  <2>3. Cmd
    BY <2>1, <2>2, CommandStepOnly
  <2> QED
    BY <1>9, <2>3 DEF OpenSummary, TypeOK
<1>10. ASSUME NEW c \in Commands, WriteSummary(c)
      PROVE  Others /\ Cmd
  <2>1. Cmd
    BY <1>10, InactiveFits, CommandStepOnly DEF WriteSummary, End
  <2>2. summary' \in {NoSummary, TornSummary} \union Summary
    <3> DEFINE new == [status |-> cmd[c].receipt.status, live |-> cmd[c].live, key |-> cmd[c].key]
    <3>1. cmd[c] \in Command /\ cmd[c].receipt # Torn
      BY <1>10 DEF WriteSummary, TypeOK, Fits
    <3>2. new \in Summary
      BY <3>1 DEF Command, Summary, Receipt
    <3> HIDE DEF new
    <3>3. summary' \in {new, TornSummary}
      BY <1>10 DEF WriteSummary, WriteResults, new
    <3> QED
      BY <3>2, <3>3
  <2> QED
    BY <1>10, <2>1, <2>2 DEF WriteSummary, TypeOK
<1>11. ASSUME NEW c \in Commands, Crash(c)
      PROVE  Others /\ Cmd
  <2>1. Cmd
    BY <1>11, InactiveFits, CommandStepOnly DEF Crash, End
  <2> QED
    BY <1>11, <2>1 DEF Crash, TypeOK, Command
<1>12. ASSUME NEW p \in ApprovalPaths, EditApproval(p)
      PROVE  Others /\ Cmd
  <2>1. PICK s \in {"approved", "revoked"}, e \in 0..Never :
           /\ approvals' = [approvals EXCEPT ![p].status = s, ![p].expires = e]
           /\ authorised' \in {authorised, authorised \union {approvals[p].boundary}}
    BY <1>12 DEF EditApproval
  <2>2. approvals' \in [ApprovalPaths -> Profile]
    <3>1. approvals \in [ApprovalPaths -> Profile]
      BY DEF TypeOK
    <3>2. [approvals[p] EXCEPT !.status = s, !.expires = e] \in Profile
      BY <3>1 DEF Profile, ProfileStatuses
    <3> QED
      BY <2>1, <3>1, <3>2
  <2>3. authorised' \subseteq Keys
    BY <2>1 DEF TypeOK, Profile
  <2>4. Cmd
    BY <1>12 DEF EditApproval, TypeOK
  <2> QED
    BY <1>12, <2>2, <2>3, <2>4 DEF EditApproval, TypeOK
<1>13. ASSUME CopyTemplate
      PROVE  Others /\ Cmd
  <2>1. approvals' \in [ApprovalPaths -> Profile]
    BY <1>13, ApprovalPathsAssumption DEF CopyTemplate, TypeOK
  <2> QED
    BY <1>13, <2>1 DEF CopyTemplate, TypeOK
<1>14. ASSUME NEW m \in Messages, NEW state \in HandoffStates \union {"deliverable"},
              NewHandoff(m, state)
      PROVE  Others /\ Cmd
  BY <1>14 DEF NewHandoff, TypeOK
<1>15. ASSUME Tick
      PROVE  Others /\ Cmd
  BY <1>15, MaxClockAssumption DEF Tick, TypeOK
<1>16. ASSUME UNCHANGED vars
      PROVE  Others /\ Cmd
  BY <1>16 DEF vars, TypeOK
<1> QED
  BY <1>1, <1>2, <1>3, <1>4, <1>5, <1>6, <1>7, <1>8, <1>9, <1>10, <1>11, <1>12,
     <1>13, <1>14, <1>15, <1>16 DEF Next, CommandStep, Environment

\* Every state of every behaviour is well typed, and receipt files are numbered
\* without gaps.
THEOREM TypeCorrect == Spec => []TypeOK
BY TypeOKInit, TypeOKStep, PTL DEF Spec

-----------------------------------------------------------------------------
(* Only approved messages are delivered.  The invariant that carries it: the *)
(* files say "approved" only for identities an operator approved, and so a   *)
(* command that has passed the check holds one of those.                     *)

ApprovedFiles ==
    \A p \in ApprovalPaths :
        approvals[p].status = "approved" => approvals[p].boundary \in authorised
CheckedCommands ==
    \A c \in Commands : cmd[c].pc \in {"receipts", "send"} => cmd[c].key \in authorised
ApprovalInv == ApprovedFiles /\ CheckedCommands /\ OnlyApprovedIsDelivered

LEMMA ApprovalInvStep == TypeOK /\ ApprovalInv /\ [Next]_vars => ApprovalInv'
<1> SUFFICES ASSUME TypeOK, ApprovalInv, [Next]_vars PROVE ApprovalInv'
  OBVIOUS
<1> USE DEF ApprovalInv
<1>1. ASSUME NEW c \in Commands, NEW a \in Aliases, NEW live \in LiveFlags,
             NEW retry \in BOOLEAN, NEW p \in ApprovalPaths, Start(c, a, live, retry, p)
      PROVE  ApprovalInv'
  <2>1. CheckedCommands'
    BY <1>1 DEF Start, Eligible, TypeOK, CheckedCommands, Inactive
  <2> QED
    BY <1>1, <2>1 DEF Start, Eligible, ApprovedFiles, OnlyApprovedIsDelivered
<1>2. ASSUME NEW c \in Commands, WriteTemplate(c)
      PROVE  ApprovalInv'
  <2>1. CheckedCommands'
    BY <1>2 DEF WriteTemplate, Goto, TypeOK, CheckedCommands
  <2>2. approvals' \in [ApprovalPaths -> Profile] /\ authorised' = authorised
    BY <1>2, TypeOKStep DEF WriteTemplate, TypeOK
  <2>3. \A p \in ApprovalPaths : \/ approvals'[p] = approvals[p]
                                 \/ approvals'[p].status = "pending"
    BY <1>2 DEF WriteTemplate, TypeOK
  <2>4. ApprovedFiles'
    BY <2>2, <2>3 DEF ApprovedFiles
  <2> QED
    BY <1>2, <2>1, <2>4 DEF WriteTemplate, OnlyApprovedIsDelivered
<1>3. ASSUME NEW c \in Commands, CheckApproval(c)
      PROVE  ApprovalInv'
  <2>1. CheckedCommands'
    <3>1. CASE ApprovalValid(approvals[cmd[c].path], cmd[c].key, cmd[c].now)
      <4>1. cmd[c].key \in authorised
        BY <3>1 DEF ApprovalValid, TypeOK, Command, ApprovedFiles
      <4>2. cmd' = [cmd EXCEPT ![c].pc = "receipts"] /\ authorised' = authorised
        BY <1>3, <3>1 DEF CheckApproval, Goto
      <4> QED
        BY <4>1, <4>2 DEF TypeOK, CheckedCommands
    <3>2. CASE ~ApprovalValid(approvals[cmd[c].path], cmd[c].key, cmd[c].now)
      <4>1. cmd' = [cmd EXCEPT ![c].pc = "open_summary", ![c].receipt = Failure]
            /\ authorised' = authorised
        BY <1>3, <3>2 DEF CheckApproval, Failure
      <4> QED
        BY <4>1 DEF TypeOK, CheckedCommands
    <3> QED
      BY <3>1, <3>2
  <2> QED
    BY <1>3, <2>1 DEF CheckApproval, ApprovedFiles, OnlyApprovedIsDelivered
<1>4. ASSUME NEW c \in Commands, ReadReceipts(c)
      PROVE  ApprovalInv'
  <2>1. cmd[c].pc = "receipts"
        /\ \A d \in Commands : cmd'[d].key = cmd[d].key /\ (d # c => cmd'[d] = cmd[d])
    BY <1>4 DEF ReadReceipts, TypeOK, Command
  <2>2. CheckedCommands'
    BY <1>4, <2>1 DEF ReadReceipts, CheckedCommands
  <2> QED
    BY <1>4, <2>2 DEF ReadReceipts, ApprovedFiles, OnlyApprovedIsDelivered
<1>5. ASSUME NEW c \in Commands, SendFake(c)
      PROVE  ApprovalInv'
  <2>1. CheckedCommands'
    BY <1>5 DEF SendFake, TypeOK, CheckedCommands
  <2> QED
    BY <1>5, <2>1 DEF SendFake, ApprovedFiles, OnlyApprovedIsDelivered
<1>6. ASSUME NEW c \in Commands, SendLive(c)
      PROVE  ApprovalInv'
  <2>1. CheckedCommands'
    BY <1>6 DEF SendLive, TypeOK, CheckedCommands
  <2>2. cmd[c].key \in authorised
    BY <1>6 DEF SendLive, CheckedCommands
  <2>3. \A k \in Keys : k # cmd[c].key => delivered'[k] = delivered[k]
    BY <1>6 DEF SendLive, TypeOK
  <2>4. OnlyApprovedIsDelivered'
    BY <1>6, <2>2, <2>3 DEF SendLive, OnlyApprovedIsDelivered
  <2> QED
    BY <1>6, <2>1, <2>4 DEF SendLive, ApprovedFiles
<1>7. ASSUME NEW c \in Commands, OpenReceipt(c) \/ WriteReceipt(c) \/ OpenSummary(c)
      PROVE  ApprovalInv'
  <2>1. \E pc \in Phases \ {"receipts", "send"} : Goto(c, pc)
    BY <1>7 DEF OpenReceipt, WriteReceipt, OpenSummary, Phases
  <2>2. CheckedCommands'
    BY <1>7, <2>1 DEF OpenReceipt, WriteReceipt, OpenSummary, Goto, TypeOK, CheckedCommands
  <2> QED
    BY <1>7, <2>2 DEF OpenReceipt, WriteReceipt, OpenSummary, ApprovedFiles,
                      OnlyApprovedIsDelivered
<1>8. ASSUME NEW c \in Commands, WriteSummary(c) \/ Crash(c)
      PROVE  ApprovalInv'
  <2>0. \E pc \in {"done", "crashed"} : cmd' = [cmd EXCEPT ![c] = Inactive(pc)]
    BY <1>8 DEF WriteSummary, Crash, End
  <2>1. CheckedCommands'
    BY <1>8, <2>0, InactiveType DEF WriteSummary, Crash, TypeOK, CheckedCommands, Phases
  <2> QED
    BY <1>8, <2>1 DEF WriteSummary, Crash, ApprovedFiles, OnlyApprovedIsDelivered
<1>9. ASSUME NEW p \in ApprovalPaths, EditApproval(p)
      PROVE  ApprovalInv'
  <2>1. PICK s \in {"approved", "revoked"}, e \in 0..Never :
           /\ approvals' = [approvals EXCEPT ![p].status = s, ![p].expires = e]
           /\ authorised' = IF s = "approved"
                            THEN authorised \union {approvals[p].boundary} ELSE authorised
    BY <1>9 DEF EditApproval
  <2>2. ApprovedFiles'
    BY <2>1 DEF TypeOK, Profile, ApprovedFiles
  <2>3. authorised \subseteq authorised'
    BY <2>1
  <2> QED
    BY <1>9, <2>2, <2>3 DEF EditApproval, CheckedCommands, OnlyApprovedIsDelivered
<1>10. ASSUME CopyTemplate
      PROVE  ApprovalInv'
  <2>1. ApprovedFiles'
    BY <1>10, ApprovalPathsAssumption DEF CopyTemplate, TypeOK, ApprovedFiles
  <2> QED
    BY <1>10, <2>1 DEF CopyTemplate, CheckedCommands, OnlyApprovedIsDelivered
<1>11. ASSUME NEW m \in Messages, NEW state \in HandoffStates \union {"deliverable"},
              NewHandoff(m, state)
      PROVE  ApprovalInv'
  BY <1>11 DEF NewHandoff, ApprovedFiles, CheckedCommands, OnlyApprovedIsDelivered
<1>12. ASSUME Tick \/ UNCHANGED vars
      PROVE  ApprovalInv'
  BY <1>12 DEF Tick, vars, ApprovedFiles, CheckedCommands, OnlyApprovedIsDelivered
<1> QED
  BY <1>1, <1>2, <1>3, <1>4, <1>5, <1>6, <1>7, <1>8, <1>9, <1>10, <1>11, <1>12
     DEF Next, CommandStep, Environment

\* Whatever overlaps, crashes or is replaced, a chat only gets a message that an
\* operator approved for exactly that message and alias.
THEOREM ApprovedOnly == Spec => []OnlyApprovedIsDelivered
<1>1. Init => ApprovalInv
  <2> SUFFICES ASSUME Init PROVE ApprovalInv
    OBVIOUS
  <2>1. ApprovedFiles
    BY DEF Init, ApprovedFiles
  <2>2. CheckedCommands
    BY DEF Init, Inactive, CheckedCommands
  <2> QED
    BY <2>1, <2>2 DEF Init, ApprovalInv, OnlyApprovedIsDelivered
<1>2. ApprovalInv => OnlyApprovedIsDelivered
  BY DEF ApprovalInv
<1> QED
  BY <1>1, <1>2, ApprovalInvStep, TypeCorrect, PTL DEF Spec

-----------------------------------------------------------------------------
(* A receipt that says the API sent the message is true: its command got the *)
(* answer before it wrote the file, and nobody undoes a delivery.            *)

ApiSent == [status |-> "sent", adapter |-> "bot_api"]
SentInFlight ==
    \A c \in Commands :
        cmd[c].pc \in {"open_receipt", "write_receipt"} /\ cmd[c].receipt = ApiSent
            => delivered[cmd[c].key] > 0
SentFiles ==
    \A k \in Keys : \A i \in 1..Len(receipts[k]) :
        receipts[k][i] = ApiSent => delivered[k] > 0

LEMMA SentFilesIsTruth == TypeOK => (SentFiles <=> SentReceiptIsTrue)
<1> SUFFICES ASSUME TypeOK PROVE SentFiles <=> SentReceiptIsTrue
  OBVIOUS
<1>1. \A k \in Keys : DOMAIN receipts[k] = 1..Len(receipts[k])
  BY LenProperties DEF TypeOK
<1>2. ApiSent # Torn
  BY DEF ApiSent, Torn
<1> QED
  BY <1>1, <1>2 DEF SentFiles, SentReceiptIsTrue, Readable, ApiSent

\* A step that changes no receipt and undoes no delivery, and whose command does
\* not come to hold a false "sent", keeps both.
LEMMA SentKept ==
    ASSUME TypeOK, SentInFlight, SentFiles, UNCHANGED receipts,
           \A k \in Keys : delivered[k] > 0 => delivered'[k] > 0,
           NEW c \in Commands, \A d \in Commands : d # c => cmd'[d] = cmd[d],
           \/ cmd'[c].pc \notin {"open_receipt", "write_receipt"}
           \/ cmd'[c].receipt # ApiSent
           \/ cmd'[c].key \in Keys /\ delivered'[cmd'[c].key] > 0
    PROVE  SentInFlight' /\ SentFiles'
<1>1. SentInFlight'
  BY DEF SentInFlight, TypeOK, Command
<1>2. SentFiles'
  BY DEF SentFiles
<1> QED
  BY <1>1, <1>2

\* Opening or writing a receipt file sets one file, the next one or one that is there.
LEMMA ReceiptFileStep ==
    ASSUME TypeOK, NEW c \in Commands, OpenReceipt(c) \/ WriteReceipt(c)
    PROVE  LET k == cmd[c].key
               i == cmd[c].attempt
           IN  \E f \in File :
                 /\ f = Torn \/ (cmd[c].pc = "write_receipt" /\ f = cmd[c].receipt)
                 /\ \A q \in Keys : q # k => receipts'[q] = receipts[q]
                 /\ Len(receipts'[k]) \in Nat
                 /\ \A j \in 1..Len(receipts'[k]) :
                       receipts'[k][j] = IF j = i THEN f ELSE receipts[k][j]
                 /\ Len(receipts'[k]) \in {Len(receipts[k]), i}
<1> DEFINE k == cmd[c].key
           i == cmd[c].attempt
<1>1. k \in Keys /\ receipts[k] \in Seq(File) /\ i \in 1..Len(receipts[k]) + 1
      /\ Len(receipts[k]) \in Nat
  BY LenProperties DEF TypeOK, Command, Fits, File
<1>2. CASE OpenReceipt(c) /\ i = Len(receipts[k]) + 1
  BY <1>1, <1>2 DEF OpenReceipt, TypeOK, File
<1>3. CASE OpenReceipt(c) /\ i \in 1..Len(receipts[k])
  <2> DEFINE t == [receipts[k] EXCEPT ![i] = Torn]
  <2>1. i # Len(receipts[k]) + 1
    BY <1>1, <1>3
  <2>2. receipts' = [receipts EXCEPT ![k] = t]
    BY <1>3, <2>1 DEF OpenReceipt
  <2>3. receipts'[k] = t /\ \A q \in Keys : q # k => receipts'[q] = receipts[q]
    BY <1>1, <2>2 DEF TypeOK
  <2>4. Torn \in File
    BY DEF File
  <2>5. /\ Len(t) = Len(receipts[k])
        /\ \A j \in 1..Len(t) : t[j] = IF j = i THEN Torn ELSE receipts[k][j]
    BY <1>1, <1>3, <2>4, ExceptSeq
  <2> HIDE DEF t
  <2> QED
    BY <1>1, <2>3, <2>4, <2>5
<1>4. CASE WriteReceipt(c)
  <2>1. PICK f \in {Torn, cmd[c].receipt} : receipts' = [receipts EXCEPT ![k][i] = f]
    BY <1>4 DEF WriteReceipt, WriteResults
  <2>2. f \in File /\ i \in 1..Len(receipts[k]) /\ cmd[c].pc = "write_receipt"
    BY <1>1, <1>4, <2>1 DEF WriteReceipt, TypeOK, Command, Fits, File
  <2>3. receipts'[k] = [receipts[k] EXCEPT ![i] = f]
        /\ \A q \in Keys : q # k => receipts'[q] = receipts[q]
    BY <1>1, <2>1 DEF TypeOK
  <2> QED
    BY <1>1, <2>1, <2>2, <2>3, ExceptSeq
<1> QED
  BY <1>1, <1>2, <1>3, <1>4

LEMMA SentStep == TypeOK /\ SentInFlight /\ SentFiles /\ [Next]_vars
                     => SentInFlight' /\ SentFiles'
<1> SUFFICES ASSUME TypeOK, SentInFlight, SentFiles, [Next]_vars
             PROVE  SentInFlight' /\ SentFiles'
  OBVIOUS
<1>1. ASSUME NEW c \in Commands, NEW a \in Aliases, NEW live \in LiveFlags,
             NEW retry \in BOOLEAN, NEW p \in ApprovalPaths, Start(c, a, live, retry, p)
      PROVE  SentInFlight' /\ SentFiles'
  <2>1. cmd'[c].pc \in {"template", "done"} /\ \A d \in Commands : d # c => cmd'[d] = cmd[d]
    BY <1>1 DEF Start, Eligible, TypeOK, Inactive
  <2> QED
    BY <1>1, <2>1, SentKept DEF Start, Eligible
<1>2. ASSUME NEW c \in Commands,
             WriteTemplate(c) \/ CheckApproval(c) \/ OpenSummary(c) \/ WriteSummary(c) \/ Crash(c)
      PROVE  SentInFlight' /\ SentFiles'
  <2>1. /\ cmd'[c].pc \notin {"open_receipt", "write_receipt"}
        /\ \A d \in Commands : d # c => cmd'[d] = cmd[d]
    BY <1>2 DEF WriteTemplate, CheckApproval, OpenSummary, WriteSummary, Crash, Goto, End,
                Inactive, TypeOK, Command
  <2> QED
    BY <1>2, <2>1, SentKept DEF WriteTemplate, CheckApproval, OpenSummary, WriteSummary, Crash
<1>3. ASSUME NEW c \in Commands, ReadReceipts(c) \/ SendFake(c)
      PROVE  SentInFlight' /\ SentFiles'
  <2>1. /\ cmd'[c].receipt # ApiSent
        /\ \A d \in Commands : d # c => cmd'[d] = cmd[d]
    BY <1>3 DEF ReadReceipts, SendFake, TypeOK, Command, ApiSent
  <2> QED
    BY <1>3, <2>1, SentKept DEF ReadReceipts, SendFake
<1>4. ASSUME NEW c \in Commands, SendLive(c)
      PROVE  SentInFlight' /\ SentFiles'
  <2>1. PICK r \in LiveResponses :
           /\ cmd' = [cmd EXCEPT ![c].pc = "open_receipt", ![c].called = TRUE,
                          ![c].receipt = [status |-> r.status, adapter |-> "bot_api"]]
           /\ delivered' = IF r.delivered
                           THEN [delivered EXCEPT ![cmd[c].key] = @ + 1] ELSE delivered
    BY <1>4 DEF SendLive
  <2>2. /\ \A k \in Keys : delivered[k] \in Nat
        /\ cmd[c].key \in Keys
    BY DEF TypeOK, Command
  <2>3. \A k \in Keys : delivered[k] > 0 => delivered'[k] > 0
    BY <2>1, <2>2 DEF TypeOK
  <2>4. r.delivered => delivered'[cmd[c].key] > 0
    BY <2>1, <2>2 DEF TypeOK
  <2>5. ~r.delivered => r.status = "failed"
    BY DEF LiveResponses
  <2>6. /\ cmd'[c].key = cmd[c].key
        /\ cmd'[c].receipt = [status |-> r.status, adapter |-> "bot_api"]
        /\ \A d \in Commands : d # c => cmd'[d] = cmd[d]
    BY <2>1 DEF TypeOK, Command
  <2>7. cmd'[c].receipt # ApiSent \/ delivered'[cmd'[c].key] > 0
    BY <2>4, <2>5, <2>6 DEF ApiSent
  <2> QED
    BY <1>4, <2>2, <2>3, <2>6, <2>7, SentKept DEF SendLive
<1>5. ASSUME NEW c \in Commands, OpenReceipt(c) \/ WriteReceipt(c)
      PROVE  SentInFlight' /\ SentFiles'
  <2> DEFINE k == cmd[c].key
             i == cmd[c].attempt
  <2>1. k \in Keys /\ receipts[k] \in Seq(File) /\ i \in 1..Len(receipts[k]) + 1
        /\ Len(receipts[k]) \in Nat
    BY LenProperties DEF TypeOK, Command, Fits, File
  <2>2. PICK f \in File :
           /\ f = Torn \/ (cmd[c].pc = "write_receipt" /\ f = cmd[c].receipt)
           /\ \A q \in Keys : q # k => receipts'[q] = receipts[q]
           /\ Len(receipts'[k]) \in Nat
           /\ \A j \in 1..Len(receipts'[k]) :
                 receipts'[k][j] = IF j = i THEN f ELSE receipts[k][j]
           /\ Len(receipts'[k]) \in {Len(receipts[k]), i}
    BY <1>5, ReceiptFileStep
  <2>3. UNCHANGED delivered
    BY <1>5 DEF OpenReceipt, WriteReceipt
  <2>4. f = ApiSent => delivered[k] > 0
    BY <2>2 DEF SentInFlight, ApiSent, Torn
  <2>5. SentFiles'
    <3> SUFFICES ASSUME NEW q \in Keys, NEW j \in 1..Len(receipts'[q]),
                        receipts'[q][j] = ApiSent
                 PROVE  delivered[q] > 0
      BY <2>3 DEF SentFiles
    <3>1. CASE q # k
      BY <2>2, <3>1 DEF SentFiles
    <3>2. CASE q = k /\ j = i
      BY <2>2, <2>4, <3>2
    <3>3. CASE q = k /\ j # i
      BY <2>1, <2>2, <3>3 DEF SentFiles
    <3> QED
      BY <3>1, <3>2, <3>3
  <2>6. \A d \in Commands : /\ cmd'[d].key = cmd[d].key /\ cmd'[d].receipt = cmd[d].receipt
                            /\ d # c => cmd'[d] = cmd[d]
        /\ cmd[c].pc \in {"open_receipt", "write_receipt"}
    BY <1>5 DEF OpenReceipt, WriteReceipt, Goto, TypeOK, Command
  <2>7. SentInFlight'
    BY <2>3, <2>6 DEF SentInFlight
  <2> QED
    BY <2>5, <2>7
<1>6. ASSUME Environment \/ UNCHANGED vars
      PROVE  SentInFlight' /\ SentFiles'
  BY <1>6 DEF Environment, EditApproval, CopyTemplate, NewHandoff, Tick, vars,
              SentInFlight, SentFiles
<1> QED
  BY <1>1, <1>2, <1>3, <1>4, <1>5, <1>6 DEF Next, CommandStep

LEMMA SentInit == Init => SentInFlight /\ SentFiles
BY EmptySeq DEF Init, Inactive, SentInFlight, SentFiles

\* A receipt that says the Telegram API sent the message is never false, even
\* when overlapping commands write the same attempt's file.
THEOREM SentReceiptsAreTrue == Spec => []SentReceiptIsTrue
<1> QED
  BY SentInit, SentStep, SentFilesIsTruth, TypeCorrect, PTL DEF Spec

-----------------------------------------------------------------------------
(***************************************************************************)
(* Part 2: commands that do not overlap                                    *)
(***************************************************************************)
(* The receipt files of one identity *)

\* No command leaves a torn file behind but in the place of the newest.
OnlyLastTorn(files) == \A i \in 1..Len(files) : files[i] = Torn => i = Len(files)

LEMMA SettledFiles ==
    ASSUME NEW files \in Seq(File), OnlyLastTorn(files)
    PROVE  /\ SettledLen(files) \in Nat
           /\ SettledLen(files) \in {Len(files), Len(files) - 1}
           /\ Readable(files) = 1..SettledLen(files)
           /\ NextAttempt(files) = SettledLen(files) + 1
           /\ \A i \in 1..SettledLen(files) : files[i] \in Receipt
<1>1. DOMAIN files = 1..Len(files) /\ Len(files) \in Nat /\ (files # << >> <=> Len(files) > 0)
      /\ \A i \in 1..Len(files) : files[i] \in File
  BY EmptySeq
<1>2. SettledLen(files) \in Nat /\ SettledLen(files) \in {Len(files), Len(files) - 1}
  BY <1>1 DEF SettledLen
<1>3. Readable(files) = 1..SettledLen(files)
  <2>1. CASE files # << >> /\ files[Len(files)] = Torn
    <3>1. SettledLen(files) = Len(files) - 1
      BY <2>1 DEF SettledLen
    <3>2. \A i \in 1..Len(files) : files[i] # Torn <=> i # Len(files)
      BY <2>1 DEF OnlyLastTorn
    <3>3. Readable(files) = {i \in 1..Len(files) : i # Len(files)}
      BY <1>1, <3>2 DEF Readable
    <3> HIDE DEF File
    <3> QED
      BY <1>1, <3>1, <3>3
  <2>2. CASE ~(files # << >> /\ files[Len(files)] = Torn)
    <3>1. SettledLen(files) = Len(files)
      BY <2>2 DEF SettledLen
    <3>2. \A i \in 1..Len(files) : files[i] # Torn
      <4>1. SUFFICES ASSUME NEW i \in 1..Len(files), files[i] = Torn PROVE FALSE
        OBVIOUS
      <4>2. i = Len(files)
        BY <4>1 DEF OnlyLastTorn
      <4>3. Len(files) > 0
        BY <1>1, <4>1
      <4>4. files # << >>
        BY <1>1, <4>3
      <4> QED
        BY <2>2, <4>1, <4>2, <4>4
    <3> QED
      BY <1>1, <3>1, <3>2 DEF Readable
  <2> QED
    BY <2>1, <2>2
<1>4. Cardinality(1..SettledLen(files)) = SettledLen(files)
  BY <1>2, FS_Interval
<1>5. NextAttempt(files) = SettledLen(files) + 1
  BY <1>3, <1>4 DEF NextAttempt
<1>6. \A i \in 1..SettledLen(files) : files[i] \in Receipt
  BY <1>1, <1>2, <1>3 DEF Readable, File
<1> QED
  BY <1>2, <1>3, <1>5, <1>6

\* The files when attempt i's is opened (OpenReceipt), and when the last is written
\* that is torn (WriteReceipt).
Opened(files, i) ==
    IF i = Len(files) + 1 THEN Append(files, Torn) ELSE [files EXCEPT ![i] = Torn]
Written(files, r) == [files EXCEPT ![Len(files)] = r]

\* Opening the next attempt's file changes nothing that can be read.
LEMMA OpenedFile ==
    ASSUME NEW files \in Seq(File), OnlyLastTorn(files), NEW i, i = SettledLen(files) + 1
    PROVE  /\ Opened(files, i) \in Seq(File) /\ OnlyLastTorn(Opened(files, i))
           /\ Len(Opened(files, i)) = i /\ Opened(files, i)[i] = Torn
           /\ Readable(Opened(files, i)) = Readable(files)
           /\ \A j \in Readable(files) : Opened(files, i)[j] = files[j]
           /\ Settled(Opened(files, i)) = Settled(files)
<1> DEFINE opened == Opened(files, i)
<1>0. opened = IF i = Len(files) + 1 THEN Append(files, Torn) ELSE [files EXCEPT ![i] = Torn]
  BY DEF Opened
<1> HIDE DEF opened
<1>1. /\ SettledLen(files) \in Nat /\ SettledLen(files) \in {Len(files), Len(files) - 1}
      /\ Readable(files) = 1..SettledLen(files) /\ Len(files) \in Nat
      /\ \A j \in 1..SettledLen(files) : files[j] \in Receipt
  BY SettledFiles, LenProperties
<1>2. /\ opened \in Seq(File) /\ Len(opened) = i /\ opened[i] = Torn
      /\ \A j \in 1..SettledLen(files) : opened[j] = files[j]
  <2>1. CASE SettledLen(files) = Len(files)
    BY <1>0, <1>1, <2>1 DEF File
  <2>2. CASE SettledLen(files) = Len(files) - 1
    <3>1. opened = [files EXCEPT ![Len(files)] = Torn] /\ i = Len(files) /\ i \in 1..Len(files)
      BY <1>0, <1>1, <2>2
    <3>2. Torn \in File
      BY DEF File
    <3>3. opened \in Seq(File) /\ Len(opened) = Len(files)
          /\ \A j \in 1..Len(files) : opened[j] = IF j = i THEN Torn ELSE files[j]
      BY <3>1, <3>2, ExceptSeq
    <3> QED
      BY <1>1, <2>2, <3>1, <3>3
  <2> QED
    BY <1>1, <2>1, <2>2
<1>3. OnlyLastTorn(opened)
  BY <1>1, <1>2 DEF OnlyLastTorn, Receipt, Torn, ReceiptStatuses
<1>4. SettledLen(opened) = SettledLen(files)
  <2>1. opened # << >>
    BY <1>1, <1>2, EmptySeq
  <2>2. SettledLen(opened) = Len(opened) - 1
    BY <1>2, <2>1 DEF SettledLen
  <2> QED
    BY <1>1, <1>2, <2>2
<1>5. Readable(opened) = Readable(files)
  BY <1>1, <1>2, <1>3, <1>4, SettledFiles
<1>6. Settled(opened) = Settled(files)
  <2>1. Settled(opened) = [j \in 1..SettledLen(files) |-> opened[j].status]
    BY <1>4 DEF Settled
  <2>2. Settled(files) = [j \in 1..SettledLen(files) |-> files[j].status]
    BY DEF Settled
  <2> QED
    BY <1>2, <2>1, <2>2
<1> QED
  BY <1>1, <1>2, <1>3, <1>5, <1>6 DEF opened

\* Writing the file that was opened settles it.
LEMMA WrittenFile ==
    ASSUME NEW files \in Seq(File), OnlyLastTorn(files), files # << >>,
           files[Len(files)] = Torn, NEW r \in Receipt
    PROVE  /\ OnlyLastTorn(Written(files, r))
           /\ Readable(Written(files, r)) = Readable(files) \union {Len(files)}
           /\ \A j \in Readable(files) : Written(files, r)[j] = files[j]
           /\ Written(files, r)[Len(files)] = r
           /\ Settled(Written(files, r)) = Append(Settled(files), r.status)
<1> DEFINE written == Written(files, r)
<1>0. written = [files EXCEPT ![Len(files)] = r]
  BY DEF Written
<1> HIDE DEF written
<1>1. /\ SettledLen(files) = Len(files) - 1 /\ Len(files) \in Nat \ {0}
      /\ Readable(files) = 1..(Len(files) - 1)
      /\ \A j \in 1..(Len(files) - 1) : files[j] \in Receipt
  BY SettledFiles, LenProperties DEF SettledLen
<1>2. /\ written \in Seq(File) /\ Len(written) = Len(files) /\ written[Len(files)] = r
      /\ \A j \in 1..(Len(files) - 1) : written[j] = files[j]
  BY <1>0, <1>1, ExceptSeq DEF File
<1>3. r # Torn /\ \A j \in 1..(Len(files) - 1) : files[j] # Torn
  BY <1>1 DEF Receipt, Torn, ReceiptStatuses
<1>4. OnlyLastTorn(written)
  <2>1. \A j \in 1..Len(files) : written[j] # Torn
    <3>1. \A j \in 1..Len(files) : j \in 1..(Len(files) - 1) \/ j = Len(files)
      BY <1>1
    <3> QED
      BY <1>2, <1>3, <3>1
  <2> QED
    BY <1>2, <2>1 DEF OnlyLastTorn
<1>5. SettledLen(written) = Len(files)
  BY <1>2, <1>3 DEF SettledLen
<1>6. Readable(written) = 1..Len(files)
  BY <1>2, <1>4, <1>5, SettledFiles
<1>7. Settled(files) \in Seq(ReceiptStatuses) /\ Len(Settled(files)) = Len(files) - 1
  <2>1. \A j \in 1..(Len(files) - 1) : files[j].status \in ReceiptStatuses
    BY <1>1 DEF Receipt
  <2> QED
    BY <1>1, <2>1 DEF Settled
<1>8. Settled(written) = Append(Settled(files), r.status)
  <2> DEFINE n == Len(files)
             old == Settled(files)
             new == Settled(written)
  <2>1. new = [j \in 1..n |-> written[j].status] /\ old = [j \in 1..(n - 1) |-> files[j].status]
    BY <1>1, <1>5 DEF Settled
  <2>2. r.status \in ReceiptStatuses
    BY DEF Receipt
  <2>3. \A j \in 1..n : written[j].status = IF j = n THEN r.status ELSE old[j]
    <3>1. \A j \in 1..n : j = n \/ j \in 1..(n - 1)
      BY <1>1
    <3> QED
      BY <1>2, <2>1, <3>1
  <2>4. Append(old, r.status) = [j \in 1..n |-> IF j = n THEN r.status ELSE old[j]]
    <3>1. old \in Seq(ReceiptStatuses) /\ Len(old) + 1 = n
      BY <1>1, <1>7
    <3> HIDE DEF old, n
    <3> QED
      BY <2>2, <3>1
  <2> QED
    BY <2>1, <2>3, <2>4
<1>9. Readable(written) = Readable(files) \union {Len(files)}
  BY <1>1, <1>6
<1> QED
  BY <1>1, <1>2, <1>4, <1>8, <1>9 DEF written

-----------------------------------------------------------------------------
(* The invariant *)

OneAtATime == \A c, d \in Commands : Active(c) /\ Active(d) => c = d

\* An answer of the API is never recorded as a block.
Answer(r) == r.adapter = "bot_api" => r.status # "duplicate_blocked"

FilesInOrder ==
    \A k \in Keys : /\ OnlyLastTorn(receipts[k])
                    /\ \A i \in Readable(receipts[k]) : Answer(receipts[k][i])

\* What a command has read of its identity's receipts is still so.
InStep(m, files) ==
    /\ m.pc \in {"send", "open_receipt"} => m.attempt = SettledLen(files) + 1
    /\ m.pc = "write_receipt" =>
         files # << >> /\ m.attempt = Len(files) /\ files[Len(files)] = Torn
    /\ m.pc = "send" => ~HasSent(files) /\ (HasFailed(files) => m.retry)
    /\ m.pc \in {"open_receipt", "write_receipt"} =>
         /\ m.receipt.status = "duplicate_blocked" <=> HasSent(files)
         /\ Answer(m.receipt)
         /\ m.called => m.receipt.adapter = "bot_api"
    /\ m.called => m.pc \in {"open_receipt", "write_receipt", "open_summary", "write_summary"}

CommandsInStep == \A c \in Commands : InStep(cmd[c], receipts[cmd[c].key])

SeqInv ==
    /\ ~Overlap
    /\ TypeOK
    /\ OneAtATime
    /\ FilesInOrder
    /\ CommandsInStep
    /\ DeliveryIsRecorded

\* A command that is not running, or no longer or not yet at the receipts, is in
\* step with whatever files there are.
LEMMA RestingInStep ==
    ASSUME NEW m, NEW files,
           m.pc \notin {"send", "open_receipt", "write_receipt"},
           m.called => m.pc \in {"open_summary", "write_summary"}
    PROVE  InStep(m, files)
BY DEF InStep

\* A step of the only command that runs.
LEMMA OneCommandSteps ==
    ASSUME TypeOK, CommandsInStep, NEW c \in Commands,
           \A d \in Commands : d # c => ~Active(d),
           NEW new, cmd' = [cmd EXCEPT ![c] = new],
           InStep(new, receipts'[new.key])
    PROVE  OneAtATime' /\ CommandsInStep'
<1>1. cmd'[c] = new /\ \A d \in Commands : d # c => cmd'[d] = cmd[d]
  BY DEF TypeOK
<1>2. ASSUME NEW d \in Commands, d # c
      PROVE  ~Active(d)' /\ InStep(cmd'[d], receipts'[cmd'[d].key])
  <2>1. cmd[d].pc \in {"idle", "done", "crashed"} /\ InStep(cmd[d], receipts[cmd[d].key])
    BY <1>2 DEF Active, CommandsInStep
  <2>2. ~cmd[d].called
    BY <2>1 DEF InStep
  <2> QED
    BY <1>1, <1>2, <2>1, <2>2, RestingInStep DEF Active
<1> QED
  BY <1>1, <1>2 DEF OneAtATime, CommandsInStep

\* A delivery of identity k that no running command still has to record.
OnFile(k) == k \in lost \/ \E i \in Readable(receipts[k]) : receipts[k][i].adapter = "bot_api"

LEMMA RecordedOnFile ==
    ASSUME DeliveryIsRecorded, NEW c \in Commands,
           \A d \in Commands : d # c => ~Active(d),
           cmd[c].pc \notin {"open_receipt", "write_receipt"}
    PROVE  \A k \in Keys : delivered[k] > 0 => OnFile(k)
BY DEF DeliveryIsRecorded, OnFile, Active

\* A step of the only command that runs, between its reads and its receipt or after it.
LEMMA QuietStep ==
    ASSUME SeqInv, NEW c \in Commands,
           \A d \in Commands : d # c => ~Active(d),
           cmd[c].pc \notin {"open_receipt", "write_receipt"},
           NEW new, cmd' = [cmd EXCEPT ![c] = new], InStep(new, receipts[new.key]),
           UNCHANGED <<receipts, delivered, lost>>
    PROVE  OneAtATime' /\ FilesInOrder' /\ CommandsInStep' /\ DeliveryIsRecorded'
<1>1. OneAtATime' /\ CommandsInStep'
  BY OneCommandSteps DEF SeqInv
<1>2. FilesInOrder'
  BY DEF SeqInv, FilesInOrder
<1>3. DeliveryIsRecorded'
  BY RecordedOnFile DEF SeqInv, DeliveryIsRecorded, OnFile
<1> QED
  BY <1>1, <1>2, <1>3

LEMMA SeqInvInit == ~Overlap /\ Init => SeqInv
<1> SUFFICES ASSUME ~Overlap, Init PROVE SeqInv
  OBVIOUS
<1>1. TypeOK
  BY TypeOKInit
<1>2. \A c \in Commands : cmd[c].pc = "idle" /\ cmd[c].called = FALSE
  BY DEF Init, Inactive
<1>3. OneAtATime /\ CommandsInStep
  BY <1>2, RestingInStep DEF OneAtATime, CommandsInStep, Active
<1>4. \A k \in Keys : receipts[k] = << >> /\ Len(receipts[k]) = 0 /\ delivered[k] = 0
  BY EmptySeq DEF Init
<1>5. FilesInOrder
  BY <1>4 DEF FilesInOrder, OnlyLastTorn, Readable
<1>6. DeliveryIsRecorded
  BY <1>4 DEF DeliveryIsRecorded
<1> QED
  BY <1>1, <1>3, <1>5, <1>6 DEF SeqInv

LEMMA SeqInvStep == SeqInv /\ [Next]_vars => SeqInv'
<1> SUFFICES ASSUME SeqInv, [Next]_vars PROVE SeqInv'
  OBVIOUS
<1> DEFINE Inv == OneAtATime' /\ FilesInOrder' /\ CommandsInStep' /\ DeliveryIsRecorded'
<1>0. TypeOK' /\ ~Overlap
  BY TypeOKStep DEF SeqInv
<1>a. SUFFICES Inv
  BY <1>0 DEF SeqInv
<1>b. \A c \in Commands : Active(c) => \A d \in Commands : d # c => ~Active(d)
  BY DEF SeqInv, OneAtATime
<1>c. \A c \in Commands : cmd[c] \in Command /\ InStep(cmd[c], receipts[cmd[c].key])
  BY DEF SeqInv, CommandsInStep, TypeOK
<1>1. ASSUME NEW c \in Commands, NEW a \in Aliases, NEW live \in LiveFlags,
             NEW retry \in BOOLEAN, NEW p \in ApprovalPaths, Start(c, a, live, retry, p)
      PROVE  Inv
  <2> DEFINE started == [Inactive("template") EXCEPT !.key = <<handoff.message, a>>,
                             !.live = live, !.retry = retry, !.path = p, !.now = clock]
             new == IF Eligible THEN started ELSE Inactive("done")
  <2>1. \A d \in Commands : ~Active(d)
    BY <1>0, <1>1 DEF Start
  <2>2. new.pc \in {"template", "done"} /\ new.called = FALSE
    BY DEF Inactive
  <2>3. cmd' = [cmd EXCEPT ![c] = new]
    BY <1>1 DEF Start
  <2> HIDE DEF new
  <2> QED
    BY <1>1, <2>1, <2>2, <2>3, RestingInStep, QuietStep DEF Start
<1>2. ASSUME NEW c \in Commands, cmd[c].pc \in {"template", "approval"}
      PROVE  ~cmd[c].called /\ \A d \in Commands : d # c => ~Active(d)
  BY <1>b, <1>c, <1>2 DEF InStep, Active
<1>3. ASSUME NEW c \in Commands, WriteTemplate(c) PROVE Inv
  <2> DEFINE new == [cmd[c] EXCEPT !.pc = "approval"]
  <2>1. new.called = cmd[c].called /\ new.pc = "approval"
    BY <1>c DEF Command
  <2>2. cmd[c].pc = "template" /\ cmd' = [cmd EXCEPT ![c] = new]
    BY <1>3 DEF WriteTemplate, Goto
  <2> HIDE DEF new
  <2>3. InStep(new, receipts[new.key])
    BY <1>2, <2>1, <2>2, RestingInStep
  <2> QED
    BY <1>2, <1>3, <2>2, <2>3, QuietStep DEF WriteTemplate
<1>4. ASSUME NEW c \in Commands, CheckApproval(c) PROVE Inv
  <2> DEFINE passed == [cmd[c] EXCEPT !.pc = "receipts"]
             refused == [cmd[c] EXCEPT !.pc = "open_summary", !.receipt = Failure]
  <2>1. /\ passed.called = cmd[c].called /\ passed.pc = "receipts"
        /\ refused.called = cmd[c].called /\ refused.pc = "open_summary"
    BY <1>c DEF Command
  <2>2. cmd[c].pc = "approval" /\
        (cmd' = [cmd EXCEPT ![c] = passed] \/ cmd' = [cmd EXCEPT ![c] = refused])
    BY <1>4 DEF CheckApproval, Goto, Failure
  <2> HIDE DEF passed, refused
  <2>3. InStep(passed, receipts[passed.key]) /\ InStep(refused, receipts[refused.key])
    BY <1>2, <2>1, <2>2, RestingInStep
  <2> QED
    BY <1>2, <1>4, <2>2, <2>3, QuietStep DEF CheckApproval
<1>5. ASSUME NEW c \in Commands, ReadReceipts(c) PROVE Inv
  <2> DEFINE files == receipts[cmd[c].key]
             new(pc, r) == [cmd[c] EXCEPT !.pc = pc, !.attempt = NextAttempt(files),
                                          !.receipt = r]
  <2>1. files \in Seq(File) /\ OnlyLastTorn(files)
    BY <1>c DEF SeqInv, TypeOK, FilesInOrder, File, Command
  <2>2. NextAttempt(files) = SettledLen(files) + 1 /\ ~cmd[c].called /\ Active(c)
    BY <1>c, <1>5, <2>1, SettledFiles DEF InStep, ReadReceipts, Active
  <2>3. PICK pc, r :
           /\ cmd' = [cmd EXCEPT ![c] = new(pc, r)]
           /\ \/ pc = "open_receipt" /\ HasSent(files)
                 /\ r = [status |-> "duplicate_blocked", adapter |-> "none"]
              \/ pc = "open_summary"
              \/ pc = "send" /\ ~HasSent(files) /\ (HasFailed(files) => cmd[c].retry)
              \/ pc = "open_receipt" /\ ~HasSent(files)
                 /\ r = [status |-> "failed", adapter |-> "bot_api"]
    <3> DEFINE failed(a) == [status |-> "failed", adapter |-> a]
               blocked == [status |-> "duplicate_blocked", adapter |-> "none"]
    <3>1. CASE HasSent(files)
      <4>1. cmd' = [cmd EXCEPT ![c] = new("open_receipt", blocked)]
        BY <1>5, <3>1 DEF ReadReceipts
      <4> QED
        BY <3>1, <4>1
    <3>2. CASE ~HasSent(files) /\ HasFailed(files) /\ ~cmd[c].retry
      <4>1. cmd' = [cmd EXCEPT ![c] = new("open_summary", failed("none"))]
        BY <1>5, <3>2 DEF ReadReceipts
      <4> QED
        BY <4>1
    <3>3. CASE ~HasSent(files) /\ (HasFailed(files) => cmd[c].retry)
      <4>1. \/ cmd' = [cmd EXCEPT ![c] = new("send", failed("none"))]
            \/ cmd' = [cmd EXCEPT ![c] = new("open_receipt", failed("bot_api"))]
        BY <1>5, <3>3 DEF ReadReceipts
      <4> QED
        BY <3>3, <4>1
    <3> QED
      BY <3>1, <3>2, <3>3
  <2>4. InStep(new(pc, r), receipts[new(pc, r).key])
    <3>1. /\ new(pc, r).pc = pc /\ new(pc, r).receipt = r /\ new(pc, r).key = cmd[c].key
          /\ new(pc, r).attempt = SettledLen(files) + 1 /\ ~new(pc, r).called
          /\ new(pc, r).retry = cmd[c].retry
      BY <1>c, <2>2 DEF Command
    <3> HIDE DEF new
    <3> QED
      BY <2>3, <3>1 DEF InStep, Answer
  <2> HIDE DEF new
  <2> QED
    BY <1>b, <1>5, <2>2, <2>3, <2>4, QuietStep DEF ReadReceipts
<1>6. ASSUME NEW c \in Commands, SendFake(c) PROVE Inv
  <2> DEFINE sent == [status |-> "sent", adapter |-> "fake"]
             new == [cmd[c] EXCEPT !.pc = "open_receipt", !.receipt = sent]
  <2>1. InStep(cmd[c], receipts[cmd[c].key]) /\ cmd[c].pc = "send" /\ Active(c)
    BY <1>c, <1>6 DEF SendFake, Active
  <2>2. /\ new.pc = "open_receipt" /\ new.key = cmd[c].key /\ new.attempt = cmd[c].attempt
        /\ new.receipt.status = "sent" /\ new.receipt.adapter = "fake"
        /\ new.called = cmd[c].called
    BY <1>c DEF Command
  <2>3. cmd' = [cmd EXCEPT ![c] = new]
    BY <1>6 DEF SendFake
  <2> HIDE DEF new
  <2>4. InStep(new, receipts[new.key])
    BY <2>1, <2>2 DEF InStep, Answer
  <2> QED
    BY <1>b, <1>6, <2>1, <2>3, <2>4, QuietStep DEF SendFake
<1>7. ASSUME NEW c \in Commands, SendLive(c) PROVE Inv
  <2>0. PICK answer \in LiveResponses :
           /\ cmd' = [cmd EXCEPT ![c].pc = "open_receipt", ![c].called = TRUE,
                  ![c].receipt = [status |-> answer.status, adapter |-> "bot_api"]]
           /\ delivered' = IF answer.delivered
                           THEN [delivered EXCEPT ![cmd[c].key] = @ + 1] ELSE delivered
    BY <1>7 DEF SendLive
  <2> DEFINE r == [status |-> answer.status, adapter |-> "bot_api"]
             new == [cmd[c] EXCEPT !.pc = "open_receipt", !.called = TRUE, !.receipt = r]
  <2>1. /\ InStep(cmd[c], receipts[cmd[c].key]) /\ cmd[c].pc = "send"
        /\ UNCHANGED <<receipts, lost>> /\ \A d \in Commands : d # c => ~Active(d)
    BY <1>b, <1>c, <1>7 DEF SendLive, Active
  <2>2. /\ new.pc = "open_receipt" /\ new.key = cmd[c].key /\ new.attempt = cmd[c].attempt
        /\ new.receipt.status = answer.status /\ new.receipt.adapter = "bot_api"
        /\ new.called = TRUE
    BY <1>c DEF Command
  <2>3. answer.status \in {"sent", "failed"}
    BY DEF LiveResponses
  <2>4. cmd' = [cmd EXCEPT ![c] = new]
    BY <2>0
  <2> HIDE DEF new
  <2>5. InStep(new, receipts'[new.key])
    BY <2>1, <2>2, <2>3 DEF InStep, Answer
  <2>6. OneAtATime' /\ CommandsInStep'
    BY <2>1, <2>4, <2>5, OneCommandSteps DEF SeqInv
  <2>7. FilesInOrder'
    BY <2>1 DEF SeqInv, FilesInOrder
  <2>8. DeliveryIsRecorded'
    <3>1. \A k \in Keys : delivered[k] > 0 => OnFile(k)
      BY <2>1, RecordedOnFile DEF SeqInv
    <3>2. \A k \in Keys : k # cmd[c].key => delivered'[k] = delivered[k]
      BY <2>0 DEF SeqInv, TypeOK
    <3>3. cmd'[c] = new
      BY <2>4 DEF SeqInv, TypeOK
    <3> QED
      BY <2>1, <2>2, <3>1, <3>2, <3>3 DEF DeliveryIsRecorded, OnFile
  <2> QED
    BY <2>6, <2>7, <2>8
<1>8. ASSUME NEW c \in Commands, OpenReceipt(c) PROVE Inv
  <2> DEFINE k == cmd[c].key
             i == cmd[c].attempt
             files == receipts[k]
             opened == Opened(files, i)
             new == [cmd[c] EXCEPT !.pc = "write_receipt"]
  <2>1. /\ k \in Keys /\ files \in Seq(File) /\ OnlyLastTorn(files)
        /\ \A j \in Readable(files) : Answer(files[j])
    BY <1>c DEF SeqInv, TypeOK, FilesInOrder, File, Command
  <2>2. /\ InStep(cmd[c], files) /\ i = SettledLen(files) + 1 /\ cmd[c].pc = "open_receipt"
        /\ UNCHANGED <<delivered, lost>> /\ \A d \in Commands : d # c => ~Active(d)
    BY <1>b, <1>c, <1>8 DEF OpenReceipt, InStep, Active
  <2>3. receipts' = [receipts EXCEPT ![k] = opened]
    BY <1>8 DEF OpenReceipt, Opened
  <2>4. /\ opened \in Seq(File) /\ OnlyLastTorn(opened) /\ Len(opened) = i
        /\ opened[i] = Torn /\ Readable(opened) = Readable(files)
        /\ \A j \in Readable(files) : opened[j] = files[j]
    <3> HIDE DEF files, i, k
    <3> QED
      BY <2>1, <2>2, OpenedFile
  <2> HIDE DEF opened
  <2>5. receipts'[k] = opened /\ \A q \in Keys : q # k => receipts'[q] = receipts[q]
    BY <2>1, <2>3 DEF SeqInv, TypeOK
  <2>6. FilesInOrder'
    BY <2>1, <2>4, <2>5 DEF SeqInv, FilesInOrder
  <2>7. /\ new.pc = "write_receipt" /\ new.key = k /\ new.attempt = i
        /\ new.receipt = cmd[c].receipt /\ new.called = cmd[c].called
    BY <1>c DEF Command
  <2>8. cmd' = [cmd EXCEPT ![c] = new]
    BY <1>8 DEF OpenReceipt, Goto
  <2> HIDE DEF new
  <2>9. InStep(new, opened)
    <3>1. HasSent(opened) <=> HasSent(files)
      BY <2>4 DEF HasSent, HasStatus
    <3>2. opened # << >>
      BY <1>c, <2>4, EmptySeq DEF Command
    <3> QED
      BY <2>2, <2>4, <2>7, <3>1, <3>2 DEF InStep
  <2>10. OneAtATime' /\ CommandsInStep'
    BY <2>2, <2>5, <2>7, <2>8, <2>9, OneCommandSteps DEF SeqInv
  <2>11. DeliveryIsRecorded'
    <3>1. cmd'[c] = new /\ \A d \in Commands : d # c => cmd'[d] = cmd[d]
      BY <2>8 DEF SeqInv, TypeOK
    <3>2. ASSUME NEW q \in Keys, NEW j \in Readable(receipts[q])
          PROVE  j \in Readable(receipts'[q]) /\ receipts'[q][j] = receipts[q][j]
      BY <2>4, <2>5, <3>2
    <3>3. \A d \in Commands : d # c => cmd[d].pc \notin {"open_receipt", "write_receipt"}
      BY <2>2 DEF Active
    <3> QED
      BY <2>2, <2>7, <3>1, <3>2, <3>3 DEF SeqInv, DeliveryIsRecorded
  <2> QED
    BY <2>6, <2>10, <2>11
<1>9. ASSUME NEW c \in Commands, WriteReceipt(c) PROVE Inv
  <2> DEFINE k == cmd[c].key
             r == cmd[c].receipt
             files == receipts[k]
             written == Written(files, r)
             new == [cmd[c] EXCEPT !.pc = "open_summary"]
  <2>1. /\ k \in Keys /\ files \in Seq(File) /\ OnlyLastTorn(files)
        /\ \A j \in Readable(files) : Answer(files[j])
    BY <1>c DEF SeqInv, TypeOK, FilesInOrder, File, Command
  <2>2. /\ InStep(cmd[c], files) /\ cmd[c].pc = "write_receipt"
        /\ UNCHANGED <<delivered, lost>> /\ \A d \in Commands : d # c => ~Active(d)
    BY <1>b, <1>c, <1>9 DEF WriteReceipt, Active
  <2>3. /\ files # << >> /\ cmd[c].attempt = Len(files) /\ files[Len(files)] = Torn
        /\ Answer(r) /\ (cmd[c].called => r.adapter = "bot_api")
    BY <2>2 DEF InStep
  <2>4. r \in Receipt
    BY <1>c, <2>2 DEF SeqInv, TypeOK, Fits, Command
  <2>5. receipts' = [receipts EXCEPT ![k] = written]
    BY <1>9, <2>3 DEF WriteReceipt, WriteResults, Written
  <2>6. /\ OnlyLastTorn(written) /\ Readable(written) = Readable(files) \union {Len(files)}
        /\ \A j \in Readable(files) : written[j] = files[j]
        /\ written[Len(files)] = r
    <3> HIDE DEF files, r, k
    <3> QED
      BY <2>1, <2>3, <2>4, WrittenFile
  <2> HIDE DEF written
  <2>7. receipts'[k] = written /\ \A q \in Keys : q # k => receipts'[q] = receipts[q]
    BY <2>1, <2>5 DEF SeqInv, TypeOK
  <2>8. FilesInOrder'
    BY <2>1, <2>3, <2>6, <2>7 DEF SeqInv, FilesInOrder
  <2>9. new.pc = "open_summary" /\ cmd' = [cmd EXCEPT ![c] = new]
    BY <1>c, <1>9 DEF WriteReceipt, Goto, Command
  <2>10. InStep(new, receipts'[new.key])
    BY <2>9, RestingInStep
  <2>11. cmd'[c].pc = "open_summary" /\ \A d \in Commands : d # c => cmd'[d] = cmd[d]
    BY <2>9 DEF SeqInv, TypeOK
  <2> HIDE DEF new
  <2>12. OneAtATime' /\ CommandsInStep'
    BY <2>2, <2>9, <2>10, OneCommandSteps DEF SeqInv
  <2>13. DeliveryIsRecorded'
    <3>1. ASSUME NEW q \in Keys, NEW j \in Readable(receipts[q])
          PROVE  j \in Readable(receipts'[q]) /\ receipts'[q][j] = receipts[q][j]
      BY <2>6, <2>7, <3>1
    <3>2. cmd[c].called =>
              Len(files) \in Readable(receipts'[k])
              /\ receipts'[k][Len(files)].adapter = "bot_api"
      BY <2>3, <2>6, <2>7
    <3>3. \A d \in Commands : d # c => cmd[d].pc \notin {"open_receipt", "write_receipt"}
      BY <2>2 DEF Active
    <3>4. SUFFICES ASSUME NEW q \in Keys, delivered[q] > 0 PROVE OnFile(q)'
      BY <2>2 DEF DeliveryIsRecorded, OnFile
    <3>5. OnFile(q) \/ (cmd[c].key = q /\ cmd[c].called)
      BY <3>3, <3>4 DEF SeqInv, DeliveryIsRecorded, OnFile
    <3> QED
      BY <2>2, <3>1, <3>2, <3>5 DEF OnFile
  <2> QED
    BY <2>8, <2>12, <2>13
<1>10. ASSUME NEW c \in Commands, OpenSummary(c) PROVE Inv
  <2> DEFINE new == [cmd[c] EXCEPT !.pc = "write_summary"]
  <2>1. new.pc = "write_summary" /\ cmd' = [cmd EXCEPT ![c] = new]
    BY <1>c, <1>10 DEF OpenSummary, Goto, Command
  <2> HIDE DEF new
  <2>2. InStep(new, receipts[new.key])
    BY <2>1, RestingInStep
  <2>3. cmd[c].pc = "open_summary" /\ Active(c)
    BY <1>10 DEF OpenSummary, Active
  <2> QED
    BY <1>b, <1>10, <2>1, <2>2, <2>3, QuietStep DEF OpenSummary
<1>11. ASSUME NEW c \in Commands, WriteSummary(c) PROVE Inv
  <2>1. Inactive("done").pc = "done" /\ Inactive("done").called = FALSE
    BY DEF Inactive
  <2>2. InStep(Inactive("done"), receipts[Inactive("done").key])
    BY <2>1, RestingInStep
  <2>3. cmd[c].pc = "write_summary" /\ Active(c)
    BY <1>11 DEF WriteSummary, Active
  <2> QED
    BY <1>b, <1>11, <2>2, <2>3, QuietStep DEF WriteSummary, End
<1>12. ASSUME NEW c \in Commands, Crash(c) PROVE Inv
  <2>1. Inactive("crashed").pc = "crashed" /\ Inactive("crashed").called = FALSE
    BY DEF Inactive
  <2>2. InStep(Inactive("crashed"), receipts'[Inactive("crashed").key])
    BY <2>1, RestingInStep
  <2>3. UNCHANGED <<receipts, delivered>> /\ \A d \in Commands : d # c => ~Active(d)
    BY <1>b, <1>12 DEF Crash
  <2>4. cmd' = [cmd EXCEPT ![c] = Inactive("crashed")]
    BY <1>12 DEF Crash, End
  <2>5. OneAtATime' /\ CommandsInStep'
    BY <2>2, <2>3, <2>4, OneCommandSteps DEF SeqInv
  <2>6. FilesInOrder'
    BY <2>3 DEF SeqInv, FilesInOrder
  <2>7. DeliveryIsRecorded'
    <3>1. \A d \in Commands : d # c => cmd[d].pc \notin {"open_receipt", "write_receipt"}
      BY <2>3 DEF Active
    <3>2. SUFFICES ASSUME NEW q \in Keys, delivered[q] > 0 PROVE OnFile(q)'
      BY <2>3 DEF DeliveryIsRecorded, OnFile
    <3>3. OnFile(q) \/ (cmd[c].key = q /\ cmd[c].called
                        /\ cmd[c].pc \in {"open_receipt", "write_receipt"})
      BY <3>1, <3>2 DEF SeqInv, DeliveryIsRecorded, OnFile
    <3>4. lost \subseteq lost'
          /\ (cmd[c].called /\ cmd[c].pc \in {"open_receipt", "write_receipt"}
                => cmd[c].key \in lost')
      BY <1>12 DEF Crash
    <3> QED
      BY <2>3, <3>3, <3>4 DEF OnFile
  <2> QED
    BY <2>5, <2>6, <2>7
<1>13. ASSUME UNCHANGED <<cmd, receipts, delivered, lost>> PROVE Inv
  BY <1>13 DEF SeqInv, OneAtATime, Active, FilesInOrder, CommandsInStep, DeliveryIsRecorded
<1>14. CASE Environment \/ UNCHANGED vars
  BY <1>13, <1>14 DEF Environment, EditApproval, CopyTemplate, NewHandoff, Tick, vars
<1> QED
  BY <1>1, <1>3, <1>4, <1>5, <1>6, <1>7, <1>8, <1>9, <1>10, <1>11, <1>12, <1>14
  DEF Next, CommandStep

LEMMA SeqInvariant == ~Overlap /\ Spec => []SeqInv
BY SeqInvInit, SeqInvStep, PTL DEF Spec

\* A message that reached the chat has a receipt of the API call, unless its command
\* is about to write it or died before (SendLive, _write_receipt).
THEOREM DeliveriesAreRecorded == ~Overlap /\ Spec => []DeliveryIsRecorded
<1>1. SeqInv => DeliveryIsRecorded
  BY DEF SeqInv
<1> QED
  BY <1>1, SeqInvariant, PTL

-----------------------------------------------------------------------------
(* What a live call has been preceded by *)

\* An existing sent receipt blocks every other call of the API (the duplicate check
\* of run_telegram_delivery).
THEOREM SentReceiptsBlock == ~Overlap /\ Spec => SentReceiptBlocksCall
<1> DEFINE Blocks == \A c \in Commands : SendLive(c) =>
                         \A i \in DOMAIN receipts[cmd[c].key] :
                             receipts[cmd[c].key][i].status # "sent"
<1>1. SeqInv => Blocks
  <2> SUFFICES ASSUME SeqInv, NEW c \in Commands, SendLive(c),
                      NEW i \in DOMAIN receipts[cmd[c].key]
               PROVE  receipts[cmd[c].key][i].status # "sent"
    OBVIOUS
  <2>1. ~HasSent(receipts[cmd[c].key])
    BY DEF SendLive, SeqInv, CommandsInStep, InStep
  <2> QED
    BY <2>1 DEF HasSent, HasStatus, Readable, Torn
<1> HIDE DEF Blocks
<1>2. SeqInv => [Blocks]_vars
  BY <1>1
<1>3. ~Overlap /\ Spec => [][Blocks]_vars
  BY <1>2, SeqInvariant, PTL
<1> QED
  BY <1>3 DEF SentReceiptBlocksCall, Blocks

\* A second delivery needs a retry flag, or a command that died before its receipt
\* (the retry gate of run_telegram_delivery).
THEOREM DuplicatesAreNotSilent == ~Overlap /\ Spec => NoSilentDuplicate
<1> DEFINE Silent == \A c \in Commands : SendLive(c) /\ delivered[cmd[c].key] > 0 =>
                         cmd[c].retry \/ cmd[c].key \in lost
<1>1. SeqInv => Silent
  <2> SUFFICES ASSUME SeqInv, NEW c \in Commands, SendLive(c),
                      delivered[cmd[c].key] > 0, cmd[c].key \notin lost
               PROVE  cmd[c].retry
    OBVIOUS
  <2> DEFINE k == cmd[c].key
  <2>1. k \in Keys /\ cmd[c].pc = "send" /\ InStep(cmd[c], receipts[k])
        /\ \A d \in Commands : d # c => ~Active(d)
    BY DEF SendLive, SeqInv, TypeOK, Command, CommandsInStep, OneAtATime, Active
  <2>2. PICK i \in Readable(receipts[k]) : receipts[k][i].adapter = "bot_api"
    BY <2>1, RecordedOnFile, Zenon DEF SeqInv, OnFile
  <2>3. receipts[k][i] \in Receipt /\ receipts[k][i].status # "duplicate_blocked"
    BY <2>1, <2>2 DEF SeqInv, FilesInOrder, Answer, TypeOK, Readable
  <2>4. HasSent(receipts[k]) \/ HasFailed(receipts[k])
    <3>1. receipts[k][i].status \in {"sent", "failed"}
      BY <2>3 DEF Receipt, ReceiptStatuses
    <3> QED
      BY <2>2, <3>1 DEF HasSent, HasFailed, HasStatus
  <2> QED
    BY <2>1, <2>4 DEF InStep
<1> HIDE DEF Silent
<1>2. SeqInv => [Silent]_vars
  BY <1>1
<1>3. ~Overlap /\ Spec => [][Silent]_vars
  BY <1>2, SeqInvariant, PTL
<1> QED
  BY <1>3 DEF NoSilentDuplicate, Silent

-----------------------------------------------------------------------------
(* The receipts are DeliveryLedger's ledger *)

\* Only a command that runs and only its two steps on the receipt file change it.
LEMMA ReceiptSteps ==
    ASSUME [Next]_vars
    PROVE  UNCHANGED receipts \/ \E c \in Commands : OpenReceipt(c) \/ WriteReceipt(c)
BY DEF Next, CommandStep, Environment, Start, WriteTemplate, CheckApproval, ReadReceipts,
       SendFake, SendLive, OpenSummary, WriteSummary, Crash, EditApproval, CopyTemplate,
       NewHandoff, Tick, vars

\* The refinement mapping: the receipts that were completed.
Completed == [k \in Keys |-> Settled(receipts[k])]

LEMMA LedgerInit == Init => Ledger!Init
<1> SUFFICES ASSUME Init PROVE Completed = [k \in Keys |-> << >>]
  BY DEF Ledger!Init, Completed
<1>1. ASSUME NEW k \in Keys PROVE Settled(receipts[k]) = << >>
  <2>1. receipts[k] = << >> /\ SettledLen(receipts[k]) = 0
    BY EmptySeq DEF Init, SettledLen
  <2>2. Settled(receipts[k]) = [i \in 1..0 |-> receipts[k][i].status]
    BY <2>1 DEF Settled
  <2> QED
    BY <2>2
<1> QED
  BY <1>1 DEF Completed

LEMMA LedgerStep == SeqInv /\ [Next]_vars => [Ledger!Next]_Completed
<1> SUFFICES ASSUME SeqInv, [Next]_vars PROVE Ledger!Next \/ UNCHANGED Completed
  OBVIOUS
<1>1. CASE UNCHANGED receipts
  BY <1>1 DEF Completed
<1>2. ASSUME NEW c \in Commands, OpenReceipt(c) PROVE UNCHANGED Completed
  <2> DEFINE k == cmd[c].key
             i == cmd[c].attempt
             files == receipts[k]
  <2>1. /\ k \in Keys /\ files \in Seq(File) /\ OnlyLastTorn(files)
        /\ i = SettledLen(files) + 1
    BY <1>2 DEF OpenReceipt, SeqInv, TypeOK, FilesInOrder, CommandsInStep, InStep, File,
                Command
  <2>2. receipts' = [receipts EXCEPT ![k] = Opened(files, i)]
    BY <1>2 DEF OpenReceipt, Opened
  <2>3. \A q \in Keys : receipts'[q] = IF q = k THEN Opened(files, i) ELSE receipts[q]
    BY <2>1, <2>2 DEF SeqInv, TypeOK
  <2>4. Settled(Opened(files, i)) = Settled(files)
    <3> HIDE DEF files, i, k
    <3> QED
      BY <2>1, OpenedFile
  <2> QED
    BY <2>3, <2>4 DEF Completed
<1>3. ASSUME NEW c \in Commands, WriteReceipt(c) PROVE Ledger!Next
  <2> DEFINE k == cmd[c].key
             r == cmd[c].receipt
             files == receipts[k]
  <2>1. /\ k \in Keys /\ files \in Seq(File) /\ OnlyLastTorn(files)
        /\ files # << >> /\ cmd[c].attempt = Len(files) /\ files[Len(files)] = Torn
        /\ r.status = "duplicate_blocked" <=> HasSent(files)
    BY <1>3 DEF WriteReceipt, SeqInv, TypeOK, FilesInOrder, CommandsInStep, InStep, File,
                Command
  <2>2. r \in Receipt
    BY <1>3 DEF WriteReceipt, SeqInv, TypeOK, Fits, Command
  <2>3. receipts' = [receipts EXCEPT ![k] = Written(files, r)]
    BY <1>3, <2>1 DEF WriteReceipt, WriteResults, Written
  <2>4. Settled(Written(files, r)) = Append(Settled(files), r.status)
    <3> HIDE DEF files, r, k
    <3> QED
      BY <2>1, <2>2, WrittenFile
  <2>5. \A q \in Keys : receipts'[q] = IF q = k THEN Written(files, r) ELSE receipts[q]
    BY <2>1, <2>3 DEF SeqInv, TypeOK
  <2>6. Completed' = [Completed EXCEPT ![k] = Append(@, r.status)]
    BY <2>1, <2>4, <2>5 DEF Completed
  <2>7. HasSent(files) <=> \E j \in DOMAIN Completed[k] : Completed[k][j] = "sent"
    <3>1. Completed[k] = [j \in 1..SettledLen(files) |-> files[j].status]
      BY <2>1 DEF Completed, Settled
    <3>2. Readable(files) = 1..SettledLen(files)
      BY <2>1, SettledFiles
    <3> QED
      BY <3>1, <3>2 DEF HasSent, HasStatus
  <2>8. r.status \in Ledger!Statuses
    BY <2>2 DEF Ledger!Statuses, Receipt, ReceiptStatuses
  <2>9. Ledger!Record(k, r.status)
    BY <2>1, <2>6, <2>7 DEF Ledger!Record, Ledger!Sent, Completed
  <2> QED
    BY <2>1, <2>8, <2>9 DEF Ledger!Next
<1> QED
  BY <1>1, <1>2, <1>3, ReceiptSteps

\* The completed receipts are an append-only ledger in which a block has an earlier
\* send (_existing_receipts, _write_receipt), crashes and torn files notwithstanding.
THEOREM ReceiptsImplementLedger == ~Overlap /\ Spec => ReceiptsAreALedger
<1>1. Spec => Ledger!Init
  BY LedgerInit DEF Spec
<1>2. ~Overlap /\ Spec => [][Ledger!Next]_Completed
  BY LedgerStep, SeqInvariant, PTL DEF Spec
<1> QED
  BY <1>1, <1>2, PTL DEF ReceiptsAreALedger, Ledger!Spec, Completed

-----------------------------------------------------------------------------
(***************************************************************************)
(* Part 3: the verifier beside the commands                                *)
(***************************************************************************)
closureState == <<vars, closureVars>>

LEMMA CommandsUnderVerifier == [ClosureNext]_closureState => [Next]_vars
BY DEF ClosureNext, ReadPackage, WriteClosure, Validate, closureState

\* What the verifier has read are receipt files of some moment.
VerifierType ==
    /\ verifier.files \in [Keys -> Seq(File)]
    /\ verifier.message \in Messages
    /\ verifier.pc \in {"idle", "summary"}

LEMMA NoFilesType ==
    ASSUME NEW files, files = [k \in Keys |-> << >>]
    PROVE  files \in [Keys -> Seq(File)] /\ \A k \in Keys : DOMAIN files[k] = {}
<1>1. << >> \in Seq(File) /\ DOMAIN << >> = {}
  BY EmptySeq
<1> QED
  BY <1>1

LEMMA IdleVerifierType ==
    /\ IdleVerifier.files \in [Keys -> Seq(File)]
    /\ \A k \in Keys : DOMAIN IdleVerifier.files[k] = {}
    /\ IdleVerifier.message \in Messages /\ IdleVerifier.pc = "idle"
<1>1. SomeKey[1] \in Messages
  BY SomeKeyIsKey DEF Keys
<1> QED
  BY <1>1, NoFilesType DEF IdleVerifier

LEMMA VerifierTypeStep ==
    ASSUME TypeOK, VerifierType, [ClosureNext]_closureState
    PROVE  VerifierType'
<1>1. CASE ReadPackage
  BY <1>1 DEF ReadPackage, VerifierType, TypeOK, File
<1>2. CASE WriteClosure
  BY <1>2, IdleVerifierType DEF WriteClosure, VerifierType
<1>3. CASE UNCHANGED verifier
  BY <1>3 DEF VerifierType
<1> QED
  BY <1>1, <1>2, <1>3 DEF ClosureNext, Validate, closureVars, closureState

\* A verdict that is met has read a sent receipt, and a block, of its key.
LEMMA MetMeansRead ==
    ASSUME VerifierType, WriteClosure, closure'.status = "closure_met"
    PROVE  /\ closure'.key \in Keys
           /\ \E i \in Readable(verifier.files[closure'.key]) :
                  verifier.files[closure'.key][i].status = "sent"
           /\ \E j \in Readable(verifier.files[closure'.key]) :
                  verifier.files[closure'.key][j].status = "duplicate_blocked"
<1>1. PICK a \in TargetAliases(verifier.message, verifier.files) :
         closure' = [status |-> Verdict(verifier.message, verifier.state, verifier.files, a),
                     key |-> <<verifier.message, a>>]
  BY DEF WriteClosure
<1> DEFINE k == <<verifier.message, a>>
           has(s) == a \in Aliases /\ Attempts(verifier.files, k, s) # {}
<1>2. Verdict(verifier.message, verifier.state, verifier.files, a) = "closure_met"
      /\ closure'.key = k
  BY <1>1
<1>3. has("sent") /\ has("duplicate_blocked")
  BY <1>2, Zenon DEF Verdict, ClosureStatus
<1>4. k \in Keys
  BY <1>3 DEF VerifierType, Keys
<1> QED
  BY <1>2, <1>3, <1>4 DEF Attempts

-----------------------------------------------------------------------------
(* A met closure means that the chat got the message, if nobody made dry runs *)

\* What a receipt says of a send, it says of a call of the API.
Genuine(r) == r.status = "sent" => r.adapter = "bot_api"

\* Every command is live, so no receipt is a fake client's.
NoDryRuns ==
    /\ LiveFlags \subseteq {TRUE}
    /\ \A c \in Commands : (Active(c) => cmd[c].live) /\ Genuine(cmd[c].receipt)
    /\ \A k \in Keys : \A i \in 1..Len(receipts[k]) : Genuine(receipts[k][i])

LEMMA NoDryRunsInit == LiveFlags \subseteq {TRUE} /\ Init => NoDryRuns
<1> SUFFICES ASSUME LiveFlags \subseteq {TRUE}, Init PROVE NoDryRuns
  OBVIOUS
<1>1. \A c \in Commands : cmd[c].pc = "idle" /\ cmd[c].receipt = Torn
  BY DEF Init, Inactive
<1>2. \A k \in Keys : receipts[k] = << >> /\ Len(receipts[k]) = 0
  BY EmptySeq DEF Init
<1>3. \A c \in Commands : ~Active(c) /\ Genuine(cmd[c].receipt)
  BY <1>1 DEF Active, Genuine, Torn
<1>4. ASSUME NEW k \in Keys PROVE \A i \in 1..Len(receipts[k]) : Genuine(receipts[k][i])
  BY <1>2
<1> QED
  BY <1>3, <1>4 DEF NoDryRuns

\* A step of one command that leaves the receipts alone.
LEMMA GenuineKept ==
    ASSUME NoDryRuns, UNCHANGED receipts,
           NEW c \in Commands, \A d \in Commands : d # c => cmd'[d] = cmd[d],
           Active(c)' => cmd'[c].live, Genuine(cmd'[c].receipt)
    PROVE  NoDryRuns'
<1>1. \A d \in Commands : (Active(d)' => cmd'[d].live) /\ Genuine(cmd'[d].receipt)
  BY DEF NoDryRuns, Active
<1> QED
  BY <1>1 DEF NoDryRuns

LEMMA NoDryRunsStep == TypeOK /\ NoDryRuns /\ [Next]_vars => NoDryRuns'
<1> SUFFICES ASSUME TypeOK, NoDryRuns, [Next]_vars PROVE NoDryRuns'
  OBVIOUS
<1>c. \A c \in Commands : cmd[c] \in Command /\ Genuine(cmd[c].receipt)
                          /\ (Active(c) => cmd[c].live)
  BY DEF TypeOK, NoDryRuns
<1>1. ASSUME NEW c \in Commands, NEW a \in Aliases, NEW live \in LiveFlags,
             NEW retry \in BOOLEAN, NEW p \in ApprovalPaths, Start(c, a, live, retry, p)
      PROVE  NoDryRuns'
  <2>1. live
    BY DEF NoDryRuns
  <2>2. /\ \A d \in Commands : d # c => cmd'[d] = cmd[d]
        /\ cmd'[c].pc = "done" \/ cmd'[c].live
        /\ cmd'[c].receipt = Torn
    BY <1>1, <2>1 DEF Start, TypeOK, Inactive
  <2> QED
    BY <1>1, <2>2, GenuineKept DEF Start, Active, Genuine, Torn
<1>2. ASSUME NEW c \in Commands, WriteTemplate(c) \/ OpenSummary(c)
      PROVE  NoDryRuns'
  <2>1. /\ \A d \in Commands : d # c => cmd'[d] = cmd[d]
        /\ cmd'[c].live = cmd[c].live /\ cmd'[c].receipt = cmd[c].receipt /\ Active(c)
    BY <1>c, <1>2 DEF WriteTemplate, OpenSummary, Goto, TypeOK, Command, Active
  <2> QED
    BY <1>2, <1>c, <2>1, GenuineKept DEF WriteTemplate, OpenSummary
<1>3. ASSUME NEW c \in Commands, CheckApproval(c) \/ ReadReceipts(c) \/ SendLive(c)
      PROVE  NoDryRuns'
  <2>1. Active(c) /\ UNCHANGED receipts
    BY <1>3 DEF CheckApproval, ReadReceipts, SendLive, Active
  <2>2. /\ \A d \in Commands : d # c => cmd'[d] = cmd[d]
        /\ cmd'[c].live = cmd[c].live
    BY <1>c, <1>3 DEF CheckApproval, ReadReceipts, SendLive, Goto, TypeOK, Command
  <2>3. \/ cmd'[c].receipt = cmd[c].receipt
        \/ cmd'[c].receipt.status \in {"failed", "duplicate_blocked"}
        \/ cmd'[c].receipt.adapter = "bot_api"
    BY <1>c, <1>3 DEF CheckApproval, ReadReceipts, SendLive, Goto, TypeOK, Command
  <2> QED
    BY <1>c, <2>1, <2>2, <2>3, GenuineKept DEF Genuine
<1>7. ASSUME NEW c \in Commands, SendFake(c) PROVE FALSE
  BY <1>c, <1>7 DEF SendFake, Active
<1>9. ASSUME NEW c \in Commands, OpenReceipt(c) \/ WriteReceipt(c) PROVE NoDryRuns'
  <2> DEFINE k == cmd[c].key
             i == cmd[c].attempt
  <2>1. PICK f \in File :
           /\ f = Torn \/ f = cmd[c].receipt
           /\ \A q \in Keys : q # k => receipts'[q] = receipts[q]
           /\ Len(receipts'[k]) \in {Len(receipts[k]), i}
           /\ \A j \in 1..Len(receipts'[k]) :
                 receipts'[k][j] = IF j = i THEN f ELSE receipts[k][j]
    BY <1>9, ReceiptFileStep
  <2>2. Genuine(f) /\ Active(c)
    BY <1>9, <1>c, <2>1 DEF Genuine, Torn, OpenReceipt, WriteReceipt, Active
  <2>3. \A j \in 1..Len(receipts'[k]) : Genuine(receipts'[k][j])
    <3>1. k \in Keys /\ receipts[k] \in Seq(File) /\ i \in 1..Len(receipts[k]) + 1
          /\ Len(receipts[k]) \in Nat
      BY LenProperties DEF TypeOK, Command, Fits, File
    <3>2. \A j \in 1..Len(receipts'[k]) : j = i \/ j \in 1..Len(receipts[k])
      BY <2>1, <3>1
    <3>3. \A j \in 1..Len(receipts[k]) : Genuine(receipts[k][j])
      BY <3>1 DEF NoDryRuns
    <3> HIDE DEF k, i
    <3> QED
      BY <2>1, <2>2, <3>2, <3>3
  <2>4. \A d \in Commands : /\ cmd'[d].receipt = cmd[d].receipt /\ cmd'[d].live = cmd[d].live
                            /\ d # c => cmd'[d] = cmd[d]
    BY <1>9 DEF OpenReceipt, WriteReceipt, Goto, TypeOK, Command
  <2>5. \A d \in Commands : (Active(d)' => cmd'[d].live) /\ Genuine(cmd'[d].receipt)
    BY <1>c, <2>2, <2>4 DEF Active
  <2> QED
    BY <2>1, <2>3, <2>5 DEF NoDryRuns
<1>10. ASSUME NEW c \in Commands, WriteSummary(c) \/ Crash(c) PROVE NoDryRuns'
  <2>1. /\ \A d \in Commands : d # c => cmd'[d] = cmd[d]
        /\ cmd'[c].pc \in {"done", "crashed"} /\ cmd'[c].receipt = Torn
    BY <1>10 DEF WriteSummary, Crash, End, TypeOK, Inactive
  <2> QED
    BY <1>10, <2>1, GenuineKept DEF WriteSummary, Crash, Active, Genuine, Torn
<1>11. ASSUME UNCHANGED <<cmd, receipts>> PROVE NoDryRuns'
  BY <1>11 DEF NoDryRuns, Active
<1>12. CASE Environment \/ UNCHANGED vars
  BY <1>11, <1>12 DEF Environment, EditApproval, CopyTemplate, NewHandoff, Tick, vars
<1> QED
  BY <1>1, <1>2, <1>3, <1>7, <1>9, <1>10, <1>12 DEF Next, CommandStep

\* Deliveries are never undone.
LEMMA DeliveriesStay ==
    TypeOK /\ [Next]_vars => \A k \in Keys : delivered[k] > 0 => delivered'[k] > 0
<1> SUFFICES ASSUME TypeOK, [Next]_vars
             PROVE  \A k \in Keys : delivered[k] > 0 => delivered'[k] > 0
  OBVIOUS
<1>1. ASSUME NEW c \in Commands, SendLive(c)
      PROVE  \A k \in Keys : delivered[k] > 0 => delivered'[k] > 0
  <2>1. \/ delivered' = delivered
        \/ delivered' = [delivered EXCEPT ![cmd[c].key] = @ + 1]
    BY <1>1, Zenon DEF SendLive
  <2>2. delivered \in [Keys -> Nat]
    BY DEF TypeOK
  <2> QED
    BY <2>1, <2>2
<1>2. UNCHANGED delivered \/ \E c \in Commands : SendLive(c)
  BY Zenon DEF Next, CommandStep, Environment, Start, WriteTemplate, CheckApproval, ReadReceipts,
         SendFake, OpenReceipt, WriteReceipt, OpenSummary, WriteSummary, Crash, EditApproval,
         CopyTemplate, NewHandoff, Tick, vars
<1> QED
  BY <1>1, <1>2

\* The sends that the verifier has read of happened, and so did that of a met closure.
ReadSendsHappened ==
    \A k \in Keys : \A i \in Readable(verifier.files[k]) :
        verifier.files[k][i].status = "sent" => delivered[k] > 0

MetInv ==
    /\ TypeOK /\ SentFiles /\ SentInFlight /\ NoDryRuns
    /\ VerifierType /\ ReadSendsHappened
    /\ closure.status = "closure_met" => closure.key \in Keys
    /\ ClosureMetMeansDelivered

LEMMA MetInvInit == LiveFlags \subseteq {TRUE} /\ ClosureInit => MetInv
<1> SUFFICES ASSUME LiveFlags \subseteq {TRUE}, ClosureInit PROVE MetInv
  OBVIOUS
<1>1. TypeOK /\ SentFiles /\ SentInFlight
  BY TypeOKInit, SentInit DEF ClosureInit
<1>2. closure.status # "closure_met"
  BY DEF ClosureInit, NoClosure
<1>3. NoDryRuns
  BY NoDryRunsInit DEF ClosureInit
<1>4. VerifierType /\ ReadSendsHappened
  BY IdleVerifierType DEF ClosureInit, VerifierType, ReadSendsHappened, Readable
<1> QED
  BY <1>1, <1>2, <1>3, <1>4 DEF MetInv, ClosureMetMeansDelivered

LEMMA MetInvStep == MetInv /\ [ClosureNext]_closureState => MetInv'
<1> SUFFICES ASSUME MetInv, [ClosureNext]_closureState PROVE MetInv'
  OBVIOUS
<1> USE DEF MetInv
<1>1. [Next]_vars
  BY CommandsUnderVerifier
<1>2. TypeOK' /\ SentFiles' /\ SentInFlight' /\ NoDryRuns'
  BY <1>1, TypeOKStep, SentStep, NoDryRunsStep
<1>3. VerifierType'
  BY VerifierTypeStep
<1>4. \A k \in Keys : delivered[k] > 0 => delivered'[k] > 0
  BY <1>1, DeliveriesStay
<1>5. ReadSendsHappened'
  <2>1. CASE ReadPackage /\ verifier' # verifier
    <3>1. verifier'.files = receipts /\ delivered' = delivered
      BY <2>1 DEF ReadPackage, vars
    <3>2. \A k \in Keys : DOMAIN receipts[k] = 1..Len(receipts[k])
                          /\ \A i \in 1..Len(receipts[k]) : receipts[k][i] \in File
      BY LenProperties DEF TypeOK, File
    <3>3. \A r \in File : Genuine(r) /\ r # Torn /\ r.status = "sent" => r = ApiSent
      BY DEF File, Receipt, Genuine, ApiSent
    <3> QED
      BY <3>1, <3>2, <3>3 DEF ReadSendsHappened, Readable, SentFiles, NoDryRuns
  <2>2. CASE WriteClosure
    BY <2>2, IdleVerifierType DEF WriteClosure, ReadSendsHappened, Readable
  <2>3. CASE verifier' = verifier
    BY <1>4, <2>3 DEF ReadSendsHappened
  <2> QED
    BY <2>1, <2>2, <2>3 DEF ClosureNext, Validate, ReadPackage, closureVars, closureState
<1>6. closure'.status = "closure_met" => closure'.key \in Keys /\ delivered'[closure'.key] > 0
  <2>1. CASE WriteClosure
    <3>1. delivered' = delivered
      BY <2>1 DEF WriteClosure, vars
    <3> QED
      BY <2>1, <3>1, MetMeansRead DEF ReadSendsHappened
  <2>2. CASE ReadPackage
    BY <1>4, <2>2 DEF ReadPackage, ClosureMetMeansDelivered
  <2>3. CASE closure' = closure
    BY <1>4, <2>3 DEF ClosureMetMeansDelivered
  <2> QED
    BY <2>1, <2>2, <2>3 DEF ClosureNext, Validate, closureVars, closureState
<1> QED
  BY <1>2, <1>3, <1>5, <1>6 DEF ClosureMetMeansDelivered

\* Where every command is run with --live, a day is only called complete when the chat
\* got its message: whatever overlaps, dies or tears, and whenever the verifier reads
\* the package (verify_daily_publish_closure).
THEOREM MetClosuresWereDelivered ==
    LiveFlags \subseteq {TRUE} /\ ClosureSpec => []ClosureMetMeansDelivered
<1>1. MetInv => ClosureMetMeansDelivered
  BY DEF MetInv
<1> QED
  BY <1>1, MetInvInit, MetInvStep, PTL DEF ClosureSpec, closureState

-----------------------------------------------------------------------------
(* What a met closure cites stays, if commands run in turn *)

\* A block has an earlier send.
Founded(files) ==
    \A j \in Readable(files) : files[j].status = "duplicate_blocked" =>
        \E i \in Readable(files) : i < j /\ files[i].status = "sent"

\* All that could be read of a file earlier can still be read of it.
Kept(old, new) == \A i \in Readable(old) : i \in Readable(new) /\ new[i] = old[i]

LEMMA ReceiptsKept ==
    ASSUME SeqInv, \A k \in Keys : Founded(receipts[k]), [Next]_vars
    PROVE  \A k \in Keys : Kept(receipts[k], receipts'[k]) /\ Founded(receipts'[k])
<1>1. CASE UNCHANGED receipts
  BY <1>1 DEF Kept
<1>2. ASSUME NEW c \in Commands, OpenReceipt(c)
      PROVE  \A q \in Keys : Kept(receipts[q], receipts'[q]) /\ Founded(receipts'[q])
  <2> DEFINE k == cmd[c].key
             i == cmd[c].attempt
             files == receipts[k]
  <2>1. /\ k \in Keys /\ files \in Seq(File) /\ OnlyLastTorn(files)
        /\ i = SettledLen(files) + 1
    BY <1>2 DEF OpenReceipt, SeqInv, TypeOK, FilesInOrder, CommandsInStep, InStep, File,
                Command
  <2>2. receipts' = [receipts EXCEPT ![k] = Opened(files, i)]
    BY <1>2 DEF OpenReceipt, Opened
  <2>3. \A q \in Keys : receipts'[q] = IF q = k THEN Opened(files, i) ELSE receipts[q]
    BY <2>1, <2>2 DEF SeqInv, TypeOK
  <2>4. /\ Readable(Opened(files, i)) = Readable(files)
        /\ \A j \in Readable(files) : Opened(files, i)[j] = files[j]
    <3> HIDE DEF files, i, k
    <3> QED
      BY <2>1, OpenedFile
  <2>5. Kept(files, Opened(files, i)) /\ Founded(Opened(files, i))
    BY <2>1, <2>4 DEF Kept, Founded
  <2> HIDE DEF files
  <2> QED
    BY <2>3, <2>5 DEF Kept, files
<1>3. ASSUME NEW c \in Commands, WriteReceipt(c)
      PROVE  \A q \in Keys : Kept(receipts[q], receipts'[q]) /\ Founded(receipts'[q])
  <2> DEFINE k == cmd[c].key
             r == cmd[c].receipt
             files == receipts[k]
  <2>1. /\ k \in Keys /\ files \in Seq(File) /\ OnlyLastTorn(files)
        /\ files # << >> /\ cmd[c].attempt = Len(files) /\ files[Len(files)] = Torn
        /\ r.status = "duplicate_blocked" <=> HasSent(files)
    BY <1>3 DEF WriteReceipt, SeqInv, TypeOK, FilesInOrder, CommandsInStep, InStep, File,
                Command
  <2>2. r \in Receipt
    BY <1>3 DEF WriteReceipt, SeqInv, TypeOK, Fits, Command
  <2>3. receipts' = [receipts EXCEPT ![k] = Written(files, r)]
    BY <1>3, <2>1 DEF WriteReceipt, WriteResults, Written
  <2>4. \A q \in Keys : receipts'[q] = IF q = k THEN Written(files, r) ELSE receipts[q]
    BY <2>1, <2>3 DEF SeqInv, TypeOK
  <2>5. /\ Readable(Written(files, r)) = Readable(files) \union {Len(files)}
        /\ \A j \in Readable(files) : Written(files, r)[j] = files[j]
        /\ Written(files, r)[Len(files)] = r
        /\ \A j \in Readable(files) : j < Len(files)
    <3> HIDE DEF files, r, k
    <3>1. Readable(files) = 1..(Len(files) - 1) /\ Len(files) \in Nat
      BY <2>1, SettledFiles, LenProperties DEF SettledLen
    <3> QED
      BY <2>1, <2>2, <3>1, WrittenFile
  <2>6. Kept(files, Written(files, r))
    BY <2>5 DEF Kept
  <2>7. Founded(files)
    BY <2>1
  <2>8. Founded(Written(files, r))
    <3> HIDE DEF files, r, k
    <3> QED
      BY <2>1, <2>5, <2>7 DEF Founded, HasSent, HasStatus
  <2> HIDE DEF files
  <2> QED
    BY <2>4, <2>6, <2>8 DEF Kept, files
<1> QED
  BY <1>1, <1>2, <1>3, ReceiptSteps

FoundedInv ==
    /\ SeqInv
    /\ \A k \in Keys : Founded(receipts[k])
    /\ VerifierType
    /\ \A k \in Keys : Kept(verifier.files[k], receipts[k])
    /\ closure.status = "closure_met" => closure.key \in Keys
    /\ ClosureStaysFounded

LEMMA FoundedInvInit == ~Overlap /\ ClosureInit => FoundedInv
<1> SUFFICES ASSUME ~Overlap, ClosureInit PROVE FoundedInv
  OBVIOUS
<1>1. SeqInv
  BY SeqInvInit DEF ClosureInit
<1>2. \A k \in Keys : Founded(receipts[k])
  BY EmptySeq DEF ClosureInit, Init, Founded, Readable
<1>3. VerifierType /\ \A k \in Keys : Kept(verifier.files[k], receipts[k])
  BY IdleVerifierType DEF ClosureInit, VerifierType, Kept, Readable
<1>4. closure.status # "closure_met"
  BY DEF ClosureInit, NoClosure
<1> QED
  BY <1>1, <1>2, <1>3, <1>4 DEF FoundedInv, ClosureStaysFounded

LEMMA FoundedInvStep == FoundedInv /\ [ClosureNext]_closureState => FoundedInv'
<1> SUFFICES ASSUME FoundedInv, [ClosureNext]_closureState PROVE FoundedInv'
  OBVIOUS
<1> USE DEF FoundedInv
<1>1. [Next]_vars
  BY CommandsUnderVerifier
<1>2. SeqInv'
  BY <1>1, SeqInvStep
<1>3. \A k \in Keys : Kept(receipts[k], receipts'[k]) /\ Founded(receipts'[k])
  BY <1>1, ReceiptsKept
<1>4. VerifierType'
  BY VerifierTypeStep DEF SeqInv
<1>5. \A k \in Keys : Kept(verifier'.files[k], receipts'[k])
  <2>1. CASE ReadPackage /\ verifier' # verifier
    BY <2>1 DEF ReadPackage, Kept, vars
  <2>2. CASE WriteClosure
    BY <2>2, IdleVerifierType DEF WriteClosure, Kept, Readable
  <2>3. CASE verifier' = verifier
    BY <1>3, <2>3 DEF Kept
  <2> QED
    BY <2>1, <2>2, <2>3 DEF ClosureNext, Validate, ReadPackage, closureVars, closureState
<1>6. ASSUME closure'.status = "closure_met"
      PROVE  /\ closure'.key \in Keys
             /\ \E i, j \in Readable(receipts'[closure'.key]) :
                   /\ i < j
                   /\ receipts'[closure'.key][i].status = "sent"
                   /\ receipts'[closure'.key][j].status = "duplicate_blocked"
  <2>1. CASE WriteClosure
    <3>1. PICK j \in Readable(verifier.files[closure'.key]) :
              verifier.files[closure'.key][j].status = "duplicate_blocked"
      BY <1>6, <2>1, MetMeansRead
    <3>2. closure'.key \in Keys
      BY <1>6, <2>1, MetMeansRead
    <3>3. j \in Readable(receipts'[closure'.key])
          /\ receipts'[closure'.key][j].status = "duplicate_blocked"
      BY <2>1, <3>1, <3>2 DEF Kept, WriteClosure, vars
    <3> QED
      BY <1>3, <3>2, <3>3 DEF Founded
  <2>2. CASE closure' = closure
    BY <1>3, <1>6, <2>2 DEF ClosureStaysFounded, Kept
  <2>3. CASE ReadPackage
    BY <1>6, <2>2, <2>3 DEF ReadPackage
  <2> QED
    BY <2>1, <2>2, <2>3 DEF ClosureNext, Validate, closureVars, closureState
<1> QED
  BY <1>2, <1>3, <1>4, <1>5, <1>6 DEF ClosureStaysFounded

\* The sent receipt and the later block that a met closure rests on are never
\* overwritten, if commands run in turn (_write_receipt, verify_daily_publish_closure).
THEOREM MetClosuresStayFounded == ~Overlap /\ ClosureSpec => []ClosureStaysFounded
<1>1. FoundedInv => ClosureStaysFounded
  BY DEF FoundedInv
<1> QED
  BY <1>1, FoundedInvInit, FoundedInvStep, PTL DEF ClosureSpec, closureState
=============================================================================
