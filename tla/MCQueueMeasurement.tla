--------------------------- MODULE MCQueueMeasurement ---------------------------
(* The measurement of a screening trial: eight windows. *)
EXTENDS QueueMeasurement
=================================================================================
