------------------------- MODULE MCTelegramDelivery -------------------------
(* Small instances of TelegramDelivery for TLC: two or three invocations of *)
(* the command, two identities, an approval that may expire between them.   *)
EXTENDS TelegramDelivery, TLC

BothFlags == BOOLEAN
LiveOnly == {TRUE}
TemplateOnly == {"template"}
NotUserReady == {"not_user_ready"}
BothPaths == {"template", "operator"}

\* Invocations differ in nothing but their arguments, which are not constants.
Symmetry == Permutations(Commands)
=============================================================================
