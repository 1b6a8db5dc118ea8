------------------------ MODULE MCRecorderSchedule ------------------------
(* Instances of RecorderSchedule for TLC.                                  *)
EXTENDS RecorderSchedule
=============================================================================
