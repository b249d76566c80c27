------------------------- MODULE MCActuationDelivery -------------------------
(***************************************************************************)
(* Small instances of delivery: one recommendation published twice, with   *)
(* the same or a later deadline, and its dispatch event delivered twice;   *)
(* or two recommendations whose retries fall due in the same sweep.        *)
(***************************************************************************)
EXTENDS ActuationDelivery

CONSTANTS r1, r2, c1, c2, d1, d2

OneRecommendation == {r1}
TwoRecommendations == {r1, r2}
OneConsumer == {c1}
TwoConsumers == {c1, c2}
OneDispatcher == {d1}
TwoDispatchers == {d1, d2}
OneDeadline == {2}
TwoDeadlines == {1, 2}
OneTick == {1}
=============================================================================
