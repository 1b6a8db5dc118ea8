--------------------------- MODULE MCPageStorage ---------------------------
(* Instances of PageStorage for TLC.                                       *)
EXTENDS PageStorage
=============================================================================
