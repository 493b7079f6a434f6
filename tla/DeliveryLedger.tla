--------------------------- MODULE DeliveryLedger ---------------------------
(***************************************************************************)
(* What the delivery receipts of one result package promise, for each      *)
(* duplicate-send identity (CONTEXT.md: run id, alert artifact, message    *)
(* fingerprint, target alias): a ledger that only grows, in which an entry *)
(* says "duplicate_blocked" exactly when an earlier one says "sent".       *)
(* TelegramDelivery implements it when no two commands overlap.            *)
(***************************************************************************)
EXTENDS Sequences

CONSTANT Keys

VARIABLE ledger

Statuses == {"sent", "failed", "duplicate_blocked"}

Sent(k) == \E i \in DOMAIN ledger[k] : ledger[k][i] = "sent"

Init == ledger = [k \in Keys |-> << >>]

\* One more attempt of identity k is on record, with status s.
Record(k, s) ==
    /\ s = "duplicate_blocked" <=> Sent(k)
    /\ ledger' = [ledger EXCEPT ![k] = Append(@, s)]

Next == \E k \in Keys, s \in Statuses : Record(k, s)

Spec == Init /\ [][Next]_ledger
=============================================================================
