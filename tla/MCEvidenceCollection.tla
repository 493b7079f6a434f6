------------------------ MODULE MCEvidenceCollection ------------------------
(* Evidence collection for TLC: a news provider asked about every target, one   *)
(* asked about a batch, and a disclosure provider with two sources for its map. *)
EXTENDS EvidenceCollection, TLC

CONSTANTS t1, t2, news, batch, filings

Row(t, s, l) == [ticker |-> t, security |-> s, listed |-> l]
\* A ticker that a listed row and a bare one share; one that two listed rows share.
SomeBoards == {<<Row(t1, "a", TRUE), Row(t1, "b", FALSE), Row(t2, "c", FALSE)>>,
               <<Row(t1, "a", TRUE), Row(NoTicker, "d", FALSE), Row(t1, "b", TRUE)>>}
ThreeProviders == <<news, filings, batch>>
Poor == [fact |-> "f", rich |-> FALSE]
Rich == [fact |-> "f", rich |-> TRUE]
Finds == (news :> {Poor, Rich}) @@ (batch :> {Rich}) @@ (filings :> {Rich})
Category == (news :> "news") @@ (batch :> "news") @@ (filings :> "disclosure")
Kind == (news :> "each") @@ (batch :> "batch") @@ (filings :> "spare_map")
Duration == (news :> 2) @@ (batch :> 2) @@ (filings :> 1)
==============================================================================
