-------------------------- MODULE TelegramDelivery --------------------------
(***************************************************************************)
(* `deliver-telegram-alert` (signal_report/telegram_delivery.py): commands *)
(* that read the pre-publish handoff, check the operator's approval file,  *)
(* look for earlier receipts, call the Telegram API and write a receipt    *)
(* and a summary into the result package.  The files are the only shared   *)
(* state: there is no lock, no file is written atomically, and a command   *)
(* can die between any two of its steps.                                   *)
(*                                                                         *)
(* A message stands for the handoff's (run id, alert artifact id, message  *)
(* fingerprint); with a target alias it is the duplicate-send identity     *)
(* that _idempotency_key hashes.  The approval boundary is that identity   *)
(* too: its other fields are functions of it and of the package.           *)
(***************************************************************************)
EXTENDS Naturals, Sequences, FiniteSets

CONSTANTS
    Commands,        \* invocations of the command; each runs at most once
    Messages,        \* the messages successive handoffs may carry
    Aliases,         \* target aliases
    ApprovalPaths,   \* approval files in use: the template's own, a separate one
    LiveFlags,       \* the values of --live in use
    HandoffStates,   \* what the handoff file may be besides deliverable
    MaxClock,        \* bound: the clock the expiry dates are compared with
    Overlap          \* may a command start while another one runs?

ASSUME ApprovalPathsAssumption ==
    "template" \in ApprovalPaths /\ ApprovalPaths \subseteq {"template", "operator"}
ASSUME KeysAssumption == Messages # {} /\ Aliases # {}
ASSUME HandoffStatesAssumption ==
    HandoffStates \subseteq {"missing", "not_user_ready", "not_sendable"}
ASSUME LiveFlagsAssumption == LiveFlags \subseteq BOOLEAN
ASSUME MaxClockAssumption == MaxClock \in Nat
ASSUME OverlapAssumption == Overlap \in BOOLEAN

VARIABLES
    handoff,      \* pre_publish_handoff.json: its message and what it allows
    approvals,    \* the approval profile stored at each approval path
    clock,        \* current time
    cmd,          \* the state of each command
    receipts,     \* receipt files of each identity, by attempt number
    summary,      \* telegram_delivery_summary.json
    delivered,    \* observation: how many times the chat got each identity
    authorised,   \* observation: the identities an operator ever approved
    lost          \* observation: deliveries whose command died before its receipt

vars == <<handoff, approvals, clock, cmd, receipts, summary,
          delivered, authorised, lost>>

Keys == Messages \X Aliases
SomeKey == CHOOSE k \in Keys : TRUE   \* where a field means nothing yet

\* A file that was opened for writing (and so truncated) and not yet written,
\* or written by two commands at once: not JSON, and skipped by every reader.
Torn == [status |-> "torn", adapter |-> "none"]
ReceiptStatuses == {"sent", "failed", "duplicate_blocked"}
Adapters == {"none", "fake", "bot_api"}
Receipt == [status : ReceiptStatuses, adapter : Adapters]

\* "revoked" stands for every profile the check rejects for what it is: revoked,
\* not JSON, an unknown status, a scope list without telegram_delivery.
ProfileStatuses == {"missing", "pending", "approved", "revoked"}
Never == MaxClock + 1
Profile == [status : ProfileStatuses, boundary : Keys, expires : 0..Never]

NoSummary == [status |-> "missing", live |-> FALSE]
TornSummary == [status |-> "torn", live |-> FALSE]
Summary == [status : ReceiptStatuses, live : BOOLEAN, key : Keys]

\* Where a command is; the steps between two labels are local to it.
Phases == {"idle", "template", "approval", "receipts", "send", "open_receipt",
           "write_receipt", "open_summary", "write_summary", "done", "crashed"}
Active(c) == cmd[c].pc \notin {"idle", "done", "crashed"}

\* A command that is not running remembers nothing.
Inactive(pc) == [pc |-> pc, key |-> SomeKey, live |-> FALSE, retry |-> FALSE,
                 path |-> "template", now |-> 0, attempt |-> 1, receipt |-> Torn,
                 called |-> FALSE]

Init ==
    /\ handoff \in [message : Messages, state : {"deliverable"}]
    /\ approvals = [p \in ApprovalPaths |->
           [status |-> "missing", boundary |-> SomeKey, expires |-> Never]]
    /\ clock = 0
    /\ cmd = [c \in Commands |-> Inactive("idle")]
    /\ receipts = [k \in Keys |-> << >>]
    /\ summary = NoSummary
    /\ delivered = [k \in Keys |-> 0]
    /\ authorised = {}
    /\ lost = {}

-----------------------------------------------------------------------------
(* What the command computes from the files *)

\* Receipt files that parse, and carry this identity.
Readable(files) == {i \in DOMAIN files : files[i] # Torn}
HasStatus(files, s) == \E i \in Readable(files) : files[i].status = s

\* Mutant: only the newest receipt is looked at.
HasSentLatestOnly(files) ==
    files # << >> /\ files[Len(files)].status = "sent"

HasSent(files) == HasStatus(files, "sent")

\* Mutant: failed attempts do not stop a plain re-run.
NoRetryGate(files) == FALSE

HasFailed(files) == HasStatus(files, "failed")

\* Mutant: the attempt number skips one.
AttemptSkipsOne(files) == Cardinality(Readable(files)) + 2

NextAttempt(files) == Cardinality(Readable(files)) + 1

\* Mutant: an approval of another message or alias is good enough.
ApprovalIgnoresBoundary(profile, key, now) ==
    profile.status = "approved" /\ profile.expires > now

\* evaluate_telegram_delivery_approval: `now` is the time the command started.
ApprovalValid(profile, key, now) ==
    /\ profile.status = "approved"
    /\ profile.expires > now
    /\ profile.boundary = key

\* Mutant: an answer that could not be parsed counts as sent.
OptimisticResponses ==
    {[delivered |-> d, status |-> s] : d \in BOOLEAN, s \in {"sent", "failed"}}

\* What a live call can come to: an accepted message; a timeout, a connection
\* error or an unreadable answer after the chat got the message or not; a refusal.
LiveResponses ==
    {[delivered |-> TRUE, status |-> "sent"],
     [delivered |-> TRUE, status |-> "failed"],
     [delivered |-> FALSE, status |-> "failed"]}

\* The file a write leaves when it began with a truncation: if another command
\* wrote the file in between, a shorter text over a longer one is not JSON.
WriteResults(current, torn, new) ==
    IF current = torn THEN {new} ELSE {new, torn}

-----------------------------------------------------------------------------
(* The command's steps *)

Goto(c, pc) == cmd' = [cmd EXCEPT ![c].pc = pc]
End(c, pc) == cmd' = [cmd EXCEPT ![c] = Inactive(pc)]

\* _delivery_eligibility_error: the handoff is there, user-ready, and sendable (not
\* sent already, and with a message of its own alert artifact).
Eligible == handoff.state = "deliverable"

\* Reads the handoff once; a command that may not deliver it leaves no trace.
Start(c, alias, live, retry, path) ==
    /\ cmd[c].pc = "idle"
    /\ Overlap \/ \A d \in Commands : ~Active(d)
    /\ cmd' = [cmd EXCEPT ![c] =
           IF Eligible
           THEN [Inactive("template") EXCEPT !.key = <<handoff.message, alias>>,
                     !.live = live, !.retry = retry, !.path = path, !.now = clock]
           ELSE Inactive("done")]
    /\ UNCHANGED <<handoff, approvals, clock, receipts, summary,
                   delivered, authorised, lost>>

\* The preflight (which nothing reads back) and the pending template; the
\* template never overwrites the file the approval is read from.
WriteTemplate(c) ==
    /\ cmd[c].pc = "template"
    /\ IF cmd[c].path = "template" /\ approvals["template"].status # "missing"
       THEN UNCHANGED approvals
       ELSE approvals' = [approvals EXCEPT !["template"] =
                [status |-> "pending", boundary |-> cmd[c].key, expires |-> Never]]
    /\ Goto(c, "approval")
    /\ UNCHANGED <<handoff, clock, receipts, summary, delivered, authorised, lost>>

\* Without a valid approval: no receipt, only a "failed" summary.
CheckApproval(c) ==
    /\ cmd[c].pc = "approval"
    /\ IF ApprovalValid(approvals[cmd[c].path], cmd[c].key, cmd[c].now)
       THEN Goto(c, "receipts")
       ELSE cmd' = [cmd EXCEPT ![c].pc = "open_summary",
                               ![c].receipt = [status |-> "failed", adapter |-> "none"]]
    /\ UNCHANGED <<handoff, approvals, clock, receipts, summary,
                   delivered, authorised, lost>>

\* The receipts are read once; everything up to the write is decided here.
ReadReceipts(c) ==
    LET files == receipts[cmd[c].key]
        next(pc, status, adapter) ==
            cmd' = [cmd EXCEPT ![c].pc = pc, ![c].attempt = NextAttempt(files),
                               ![c].receipt = [status |-> status, adapter |-> adapter]]
    IN
    /\ cmd[c].pc = "receipts"
    /\ \/ HasSent(files) /\ next("open_receipt", "duplicate_blocked", "none")
       \/ ~HasSent(files) /\ HasFailed(files) /\ ~cmd[c].retry
          /\ next("open_summary", "failed", "none")
       \/ ~HasSent(files) /\ (HasFailed(files) => cmd[c].retry)
          /\ \/ next("send", "failed", "none")
             \/ cmd[c].live /\ next("open_receipt", "failed", "bot_api")  \* no credentials
    /\ UNCHANGED <<handoff, approvals, clock, receipts, summary,
                   delivered, authorised, lost>>

\* The fake client always succeeds and reaches no chat.
SendFake(c) ==
    /\ cmd[c].pc = "send"
    /\ ~cmd[c].live
    /\ cmd' = [cmd EXCEPT ![c].pc = "open_receipt",
                          ![c].receipt = [status |-> "sent", adapter |-> "fake"]]
    /\ UNCHANGED <<handoff, approvals, clock, receipts, summary,
                   delivered, authorised, lost>>

\* Mutant: a failed call ends the command before its receipt.
SendLiveForgetsFailure(c) ==
    /\ cmd[c].pc = "send"
    /\ cmd[c].live
    /\ \E r \in LiveResponses :
         /\ cmd' = [cmd EXCEPT
                ![c].pc = IF r.status = "sent" THEN "open_receipt" ELSE "open_summary",
                ![c].called = TRUE,
                ![c].receipt = [status |-> r.status, adapter |-> "bot_api"]]
         /\ delivered' = IF r.delivered
                         THEN [delivered EXCEPT ![cmd[c].key] = @ + 1] ELSE delivered
    /\ UNCHANGED <<handoff, approvals, clock, receipts, summary, authorised, lost>>

\* RealTelegramBotApiClient.send_message, and the except clauses around it.
SendLive(c) ==
    /\ cmd[c].pc = "send"
    /\ cmd[c].live
    /\ \E r \in LiveResponses :
         /\ cmd' = [cmd EXCEPT ![c].pc = "open_receipt", ![c].called = TRUE,
                ![c].receipt = [status |-> r.status, adapter |-> "bot_api"]]
         /\ delivered' = IF r.delivered
                         THEN [delivered EXCEPT ![cmd[c].key] = @ + 1] ELSE delivered
    /\ UNCHANGED <<handoff, approvals, clock, receipts, summary, authorised, lost>>

\* Path.write_text truncates the file (or creates it) ...
OpenReceipt(c) ==
    LET k == cmd[c].key
        i == cmd[c].attempt
    IN
    /\ cmd[c].pc = "open_receipt"
    /\ receipts' = [receipts EXCEPT ![k] =
           IF i = Len(@) + 1 THEN Append(@, Torn) ELSE [@ EXCEPT ![i] = Torn]]
    /\ Goto(c, "write_receipt")
    /\ UNCHANGED <<handoff, approvals, clock, summary, delivered, authorised, lost>>

\* ... and then writes it.
WriteReceipt(c) ==
    LET k == cmd[c].key
        i == cmd[c].attempt
    IN
    /\ cmd[c].pc = "write_receipt"
    /\ \E new \in WriteResults(receipts[k][i], Torn, cmd[c].receipt) :
         receipts' = [receipts EXCEPT ![k][i] = new]
    /\ Goto(c, "open_summary")
    /\ UNCHANGED <<handoff, approvals, clock, summary, delivered, authorised, lost>>

OpenSummary(c) ==
    /\ cmd[c].pc = "open_summary"
    /\ summary' = TornSummary
    /\ Goto(c, "write_summary")
    /\ UNCHANGED <<handoff, approvals, clock, receipts, delivered, authorised, lost>>

\* The summary carries this command's --live, whatever the receipt says.
WriteSummary(c) ==
    /\ cmd[c].pc = "write_summary"
    /\ summary' \in WriteResults(summary, TornSummary,
           [status |-> cmd[c].receipt.status, live |-> cmd[c].live, key |-> cmd[c].key])
    /\ End(c, "done")
    /\ UNCHANGED <<handoff, approvals, clock, receipts, delivered, authorised, lost>>

\* The process dies; what it wrote stays.
Crash(c) ==
    /\ Active(c)
    /\ End(c, "crashed")
    /\ lost' = IF cmd[c].called /\ cmd[c].pc \in {"open_receipt", "write_receipt"}
               THEN lost \union {cmd[c].key} ELSE lost
    /\ UNCHANGED <<handoff, approvals, clock, receipts, summary, delivered, authorised>>

CommandStep(c) ==
    \/ WriteTemplate(c) \/ CheckApproval(c) \/ ReadReceipts(c)
    \/ SendFake(c) \/ SendLive(c)
    \/ OpenReceipt(c) \/ WriteReceipt(c) \/ OpenSummary(c) \/ WriteSummary(c)

-----------------------------------------------------------------------------
(* The operator, the preview that rewrites the handoff, and time *)

\* An approval file is edited in place: its status and its expiry date change,
\* the boundary stays the one the template disclosed.
EditApproval(p) ==
    /\ approvals[p].status # "missing"
    /\ \E s \in {"approved", "revoked"}, e \in 0..Never :
         /\ approvals' = [approvals EXCEPT ![p].status = s, ![p].expires = e]
         /\ authorised' = IF s = "approved"
                          THEN authorised \union {approvals[p].boundary} ELSE authorised
    /\ UNCHANGED <<handoff, clock, cmd, receipts, summary, delivered, lost>>

\* The template is copied to a separate approval file.
CopyTemplate ==
    /\ "operator" \in ApprovalPaths
    /\ approvals["template"].status # "missing"
    /\ approvals' = [approvals EXCEPT !["operator"] = approvals["template"]]
    /\ UNCHANGED <<handoff, clock, cmd, receipts, summary, delivered, authorised, lost>>

\* A later preview writes another handoff to the same package.
NewHandoff(m, state) ==
    /\ handoff' = [message |-> m, state |-> state]
    /\ UNCHANGED <<approvals, clock, cmd, receipts, summary, delivered, authorised, lost>>

Tick ==
    /\ clock < MaxClock
    /\ clock' = clock + 1
    /\ UNCHANGED <<handoff, approvals, cmd, receipts, summary, delivered, authorised, lost>>

Environment ==
    \/ \E p \in ApprovalPaths : EditApproval(p)
    \/ CopyTemplate
    \/ \E m \in Messages, state \in HandoffStates \union {"deliverable"} : NewHandoff(m, state)
    \/ Tick

Next ==
    \/ \E c \in Commands : CommandStep(c) \/ Crash(c)
    \/ \E c \in Commands, a \in Aliases, live \in LiveFlags, retry \in BOOLEAN,
          p \in ApprovalPaths : Start(c, a, live, retry, p)
    \/ Environment

Spec == Init /\ [][Next]_vars

-----------------------------------------------------------------------------
(* Properties *)

Command ==
    [pc : Phases, key : Keys, live : BOOLEAN, retry : BOOLEAN, path : ApprovalPaths,
     now : 0..MaxClock, attempt : Nat \ {0}, receipt : Receipt \union {Torn},
     called : BOOLEAN]

\* A command's memory fits the receipt files it is about to write.
Fits(m, files) ==
    /\ m.attempt <= Len(files[m.key]) + 1
    /\ m.pc = "write_receipt" => m.attempt <= Len(files[m.key])
    /\ m.pc \in {"open_receipt", "write_receipt", "open_summary", "write_summary"}
         => m.receipt # Torn

\* The types of the files and of the commands; and an attempt number computed
\* from the receipts that could be read always names the next file or an
\* existing one, so the receipt files of an identity are numbered without gaps
\* whatever overlaps, tears or crashes (_write_receipt's file name).
TypeOK ==
    /\ handoff \in [message : Messages, state : HandoffStates \union {"deliverable"}]
    /\ approvals \in [ApprovalPaths -> Profile]
    /\ clock \in 0..MaxClock
    /\ cmd \in [Commands -> Command]
    /\ receipts \in [Keys -> Seq(Receipt \union {Torn})]
    /\ summary \in {NoSummary, TornSummary} \union Summary
    /\ delivered \in [Keys -> Nat]
    /\ authorised \subseteq Keys
    /\ lost \subseteq Keys
    /\ \A c \in Commands : Fits(cmd[c], receipts)

\* A chat only ever gets a message an operator approved for exactly that message
\* and alias, however handoffs, templates and approval files are replaced while
\* commands run (evaluate_telegram_delivery_approval, _write_template_if_safe).
OnlyApprovedIsDelivered ==
    \A k \in Keys : delivered[k] > 0 => k \in authorised

\* A receipt that says the Telegram API sent the message is true: overlapping
\* commands that write the same attempt's file never leave one that lies.
SentReceiptIsTrue ==
    \A k \in Keys : \A i \in Readable(receipts[k]) :
        receipts[k][i] = [status |-> "sent", adapter |-> "bot_api"] => delivered[k] > 0

\* "An existing sent receipt for that identity blocks another network call"
\* (CONTEXT.md, TelegramDelivery): no live call while such a receipt is there.
SentReceiptBlocksCall ==
    [][\A c \in Commands : SendLive(c) =>
           \A i \in DOMAIN receipts[cmd[c].key] :
               receipts[cmd[c].key][i].status # "sent"]_vars

\* Without overlap, a chat gets the same message again only because the operator
\* asked for a retry or because an earlier command died before its receipt.
NoSilentDuplicate ==
    [][\A c \in Commands : SendLive(c) /\ delivered[cmd[c].key] > 0 =>
           cmd[c].retry \/ cmd[c].key \in lost]_vars

\* Without overlap, a message that reached the chat has a receipt of the API call
\* (sent, or failed when the answer was lost), unless its command has not yet
\* written it or died before it: later commands never write over it.
DeliveryIsRecorded ==
    \A k \in Keys : delivered[k] > 0 =>
        \/ k \in lost
        \/ \E c \in Commands : cmd[c].key = k /\ cmd[c].called
                               /\ cmd[c].pc \in {"open_receipt", "write_receipt"}
        \/ \E i \in Readable(receipts[k]) : receipts[k][i].adapter = "bot_api"

\* Without overlap the receipts that were completed are DeliveryLedger's ledger:
\* only the newest file can be torn, and the next attempt takes its place.
SettledLen(files) ==
    IF files # << >> /\ files[Len(files)] = Torn THEN Len(files) - 1 ELSE Len(files)
Settled(files) == [i \in 1..SettledLen(files) |-> files[i].status]
Ledger == INSTANCE DeliveryLedger
              WITH ledger <- [k \in Keys |-> Settled(receipts[k])]
ReceiptsAreALedger == Ledger!Spec

=============================================================================
