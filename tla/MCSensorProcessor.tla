------------------------- MODULE MCSensorProcessor -------------------------
(* SensorProcessor for TLC: the channels are given by the configurations.  *)
EXTENDS SensorProcessor
=============================================================================
