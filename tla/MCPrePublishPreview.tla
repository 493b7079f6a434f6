-------------------------- MODULE MCPrePublishPreview --------------------------
(* Pre-publish previews for TLC: one run id, two requests about the same targets,  *)
(* two providers of a category each.                                               *)
EXTENDS PrePublishPreview, TLC

CONSTANTS run1, narrow, wide, targets, quotes, filings, profile
TwoRequests == {narrow, wide}
SameTargets == (narrow :> targets) @@ (wide :> targets)
TwoProviders == <<quotes, filings>>
OwnCategory == (quotes :> "financial") @@ (filings :> "disclosure")
BothCategories == {"financial", "disclosure"}
CoversAll == profile :> {narrow, wide}
================================================================================
