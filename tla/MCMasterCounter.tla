-------------------------- MODULE MCMasterCounter --------------------------
(* Instances of MasterCounter for TLC: the widths are cut down, everything *)
(* else is as in the specification.                                        *)
EXTENDS MasterCounter
=============================================================================
