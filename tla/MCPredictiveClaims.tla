-------------------------- MODULE MCPredictiveClaims --------------------------
(***************************************************************************)
(* Two versions of a claim, over ranges that differ in an end point.       *)
(***************************************************************************)
EXTENDS PredictiveClaims

CONSTANT x1

OneCause == {x1}

\* [0, 2] and (0, 2].
Wide == [lower |-> 0, upper |-> 2, lowerIn |-> TRUE, upperIn |-> TRUE]
HalfOpen == [Wide EXCEPT !.lowerIn = FALSE]
TwoScopes == {Wide, HalfOpen}
=============================================================================
