--------------------------- MODULE MCLiveBaseline ---------------------------
(* Two providers: kodex has an ETF with a whole window in the operational    *)
(* copy and one that is not in it, ace only one with a single date there.    *)
EXTENDS LiveBaseline, TLC

CONSTANTS kodex, ace, k1, k2, a1

TwoProviders == <<kodex, ace>>
ThreeEtfs == (kodex :> <<k1, k2>>) @@ (ace :> <<a1>>)
OperationalCopy == (k1 :> {1, 2}) @@ (k2 :> {}) @@ (a1 :> {2})
=============================================================================
