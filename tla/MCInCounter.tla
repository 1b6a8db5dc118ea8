---------------------------- MODULE MCInCounter ----------------------------
(* InCounter for TLC: a counter of four values, targets for three prescalers. *)
EXTENDS InCounter
=============================================================================
