------------------------ MODULE MCDailyPublishClosure ------------------------
(* A package for TLC: one operator who runs the command a few times, to one or *)
(* two aliases, and verifies the day's closure at any moment.                  *)
EXTENDS DailyPublishClosure, TLC

BothFlags == BOOLEAN
LiveOnly == {TRUE}
TemplateOnly == {"template"}
AnyHandoff == {"missing", "not_user_ready", "not_sendable"}
Deliverable == {}

Symmetry == Permutations(Commands)
==============================================================================
