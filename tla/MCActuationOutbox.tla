-------------------------- MODULE MCActuationOutbox --------------------------
(***************************************************************************)
(* Small instances of the outbox: two publishers that can take the same    *)
(* event from each other, leases and retry delays of one tick.             *)
(***************************************************************************)
EXTENDS ActuationOutbox

CONSTANTS e1, e2, p1, p2

OneEvent == {e1}
TwoEvents == {e1, e2}
OnePublisher == {p1}
TwoPublishers == {p1, p2}
OneTick == {1}
AnyDelay == {0, 1}
=============================================================================
