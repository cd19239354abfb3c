------------------------ MODULE MCRecordingTakeover -------------------------
(***************************************************************************)
(* Small instances of RecordingTakeover for TLC.  One unit of time is the  *)
(* renewal interval of 1 s; the intervals keep the order of the code's     *)
(* (3 s lease, 5 s clear, 10 s split brain, 2 s join) on a shorter scale.  *)
(***************************************************************************)
EXTENDS RecordingTakeover

OneTake == {1}
TwoTakes == {1, 2}
=============================================================================
