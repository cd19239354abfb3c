-------------------------- MODULE MCRecordingTake --------------------------
(* RecordingTake for TLC: which specification a run explores.              *)
EXTENDS RecordingTake

=============================================================================
