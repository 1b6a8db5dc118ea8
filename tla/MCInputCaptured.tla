-------------------------- MODULE MCInputCaptured --------------------------
(* Instances of InputCaptured for TLC: a small clock and two signals, one  *)
(* of them a span longer than the other, so that a change of target can    *)
(* look like a needle.                                                     *)
EXTENDS InputCaptured
=============================================================================
