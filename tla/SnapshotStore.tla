---------------------------- MODULE SnapshotStore ----------------------------
(***************************************************************************)
(* What the holdings history promises to those who read it (CONTEXT.md,    *)
(* HoldingsHistoryStore, HoldingsSnapshotRefresh): it only grows, by       *)
(* snapshots somebody offered, and a stored snapshot is only replaced by   *)
(* one that was offered as an explicit refresh of exactly that snapshot.   *)
(* HoldingsHistory implements it when its commands run one at a time,      *)
(* whatever they were doing when they were killed.                         *)
(***************************************************************************)
CONSTANTS Snapshots, Contents

VARIABLES
    known,     \* what readers know: a partial function from Snapshots to Contents
    offered    \* the <<snapshot, content, refresh>> that commands were given

Init == known = << >> /\ offered = {}

\* A reader may come to see history h.
Explained(h) ==
    /\ DOMAIN known \subseteq DOMAIN h /\ DOMAIN h \subseteq Snapshots
    /\ \A s \in DOMAIN h :
         \/ s \in DOMAIN known /\ h[s] = known[s]
         \/ s \in DOMAIN known /\ <<s, h[s], TRUE>> \in offered
         \/ s \notin DOMAIN known /\ \E r \in BOOLEAN : <<s, h[s], r>> \in offered

Next ==
    /\ Explained(known')
    /\ offered' \subseteq Snapshots \X Contents \X BOOLEAN

Spec == Init /\ [][Next]_<<known, offered>>
=============================================================================
