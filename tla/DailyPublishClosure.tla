------------------------- MODULE DailyPublishClosure -------------------------
(***************************************************************************)
(* `verify-daily-publish-closure` (signal_report/daily_publish_closure.py) *)
(* over the package that TelegramDelivery's commands write: it reads the   *)
(* handoff and the receipts, then the summary and the validation results,  *)
(* and writes its verdict.  It takes no lock and changes nothing else.     *)
(***************************************************************************)
EXTENDS TelegramDelivery

CONSTANT NoAlias   \* the target alias of a verdict that found none
ASSUME NoAliasAssumption == NoAlias \notin Aliases

VARIABLES
    validation,   \* does validation_command_results.json say "passed"
    verifier,     \* the verifier: idle, or what it has read so far
    closure       \* daily_publish_closure.json

closureVars == <<validation, verifier, closure>>

NoClosure == [status |-> "none", key |-> SomeKey]
IdleVerifier == [pc |-> "idle", message |-> SomeKey[1], state |-> "missing",
                 files |-> [k \in Keys |-> << >>]]

ClosureStatuses ==
    {"missing_handoff", "pre_publish_not_user_ready", "validation_not_passed",
     "stale_receipt", "duplicate_only_without_sent", "failed_delivery", "not_sent",
     "sent_without_duplicate_proof", "closure_met"}

ClosureInit ==
    /\ Init
    /\ validation = FALSE
    /\ verifier = IdleVerifier
    /\ closure = NoClosure

-----------------------------------------------------------------------------
(* The verdict, from what was read: h the handoff, files the receipts *)

SummaryMatches(message) == "key" \in DOMAIN summary /\ summary.key[1] = message

\* Mutant: the receipts of the message count, whatever alias they are for.
AttemptsOfAnyAlias(files, k, s) ==
    UNION {{i \in Readable(files[q]) : files[q][i].status = s} :
              q \in {q \in Keys : q[1] = k[1]}}

Attempts(files, k, s) == {i \in Readable(files[k]) : files[k][i].status = s}

\* _closure_target_alias: the summary's alias when it is about this message; else
\* that of the last attempt among sent receipts, else duplicates, else failures
\* (two aliases may tie, then the file names decide); else any summary's alias.
TargetAliases(message, files) ==
    LET with(s) == {a \in Aliases : Attempts(files, <<message, a>>, s) # {}}
        last(s) == {a \in with(s) : \E i \in Attempts(files, <<message, a>>, s) :
                       \A b \in with(s) : \A j \in Attempts(files, <<message, b>>, s) : j <= i}
    IN IF SummaryMatches(message) THEN {summary.key[2]}
       ELSE IF with("sent") # {} THEN last("sent")
       ELSE IF with("duplicate_blocked") # {} THEN last("duplicate_blocked")
       ELSE IF with("failed") # {} THEN last("failed")
       ELSE IF "key" \in DOMAIN summary THEN {summary.key[2]} ELSE {NoAlias}

\* Mutant: the send need not be proved by a later duplicate block.
ClosureStatusWithoutProof(state, passed, any, matching, sent, liveSent, duplicate, failed) ==
    IF state = "not_user_ready" THEN "pre_publish_not_user_ready"
    ELSE IF ~passed THEN "validation_not_passed"
    ELSE IF any /\ ~matching THEN "stale_receipt"
    ELSE IF failed /\ ~sent THEN "failed_delivery"
    ELSE IF ~liveSent THEN "not_sent"
    ELSE "closure_met"

\* _closure_status: the first thing that is wrong.
ClosureStatus(state, passed, any, matching, sent, liveSent, duplicate, failed) ==
    IF state = "not_user_ready" THEN "pre_publish_not_user_ready"
    ELSE IF ~passed THEN "validation_not_passed"
    ELSE IF any /\ ~matching THEN "stale_receipt"
    ELSE IF duplicate /\ ~sent THEN "duplicate_only_without_sent"
    ELSE IF failed /\ ~sent THEN "failed_delivery"
    ELSE IF ~sent \/ ~liveSent THEN "not_sent"
    ELSE IF ~duplicate THEN "sent_without_duplicate_proof"
    ELSE "closure_met"

\* A receipt counts when it is the handoff's identity with the closure's alias;
\* a sent one counts as live when the summary's last command was run with --live.
Verdict(message, state, files, alias) ==
    LET k == <<message, alias>>
        has(s) == alias \in Aliases /\ Attempts(files, k, s) # {}
    IN ClosureStatus(state, validation,
           \E q \in Keys : Readable(files[q]) # {},
           \E s \in ReceiptStatuses : has(s),
           has("sent"),
           has("sent") /\ SummaryMatches(message) /\ summary.live,
           has("duplicate_blocked"), has("failed"))

-----------------------------------------------------------------------------
ReadPackage ==
    /\ verifier.pc = "idle"
    /\ IF handoff.state = "missing"
       THEN /\ closure' = [status |-> "missing_handoff", key |-> SomeKey]
            /\ UNCHANGED verifier
       ELSE /\ verifier' = [pc |-> "summary", message |-> handoff.message,
                            state |-> handoff.state, files |-> receipts]
            /\ UNCHANGED closure
    /\ UNCHANGED <<vars, validation>>

WriteClosure ==
    /\ verifier.pc = "summary"
    /\ \E a \in TargetAliases(verifier.message, verifier.files) :
         closure' = [status |-> Verdict(verifier.message, verifier.state, verifier.files, a),
                     key |-> <<verifier.message, a>>]
    /\ verifier' = IdleVerifier
    /\ UNCHANGED <<vars, validation>>

\* The operator runs the validation commands, and they pass or not.
Validate ==
    /\ validation' \in BOOLEAN
    /\ UNCHANGED <<vars, verifier, closure>>

ClosureNext ==
    \/ ReadPackage
    \/ WriteClosure
    \/ Validate
    \/ Next /\ UNCHANGED closureVars

ClosureSpec == ClosureInit /\ [][ClosureNext]_<<vars, closureVars>>

-----------------------------------------------------------------------------
(* Properties *)

\* "DailyPublishClosure is met only when a package has ... matching live sent
\* TelegramDeliveryReceipt evidence" (CONTEXT.md): a day is only called complete
\* when the chat got that day's message.  The receipt does not say whether it was
\* live; the verifier takes that from the summary of whichever command ran last.
ClosureMetMeansDelivered ==
    closure.status = "closure_met" => delivered[closure.key] > 0

\* The evidence a met closure cites stays in the package: without overlap no later
\* command overwrites the sent receipt, or the later duplicate block that proves
\* a second command was stopped by it (_write_receipt, verify_daily_publish_closure).
ClosureStaysFounded ==
    closure.status = "closure_met" =>
        \E i, j \in Readable(receipts[closure.key]) :
            /\ i < j
            /\ receipts[closure.key][i].status = "sent"
            /\ receipts[closure.key][j].status = "duplicate_blocked"

=============================================================================
