------------------------- MODULE MCTelemetryPipeline -------------------------
(***************************************************************************)
(* A small pipeline: a queue of one place, so that the second reading can  *)
(* be dropped, and two workers, one of which may take both readings.       *)
(***************************************************************************)
EXTENDS TelemetryPipeline

CONSTANTS r1, r2, w1, w2

TwoReadings == {r1, r2}
TwoWorkers == {w1, w2}
=============================================================================
