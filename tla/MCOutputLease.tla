--------------------------- MODULE MCOutputLease ---------------------------
(***************************************************************************)
(* Small instances of OutputLease for TLC.  The registry treats owners and *)
(* projects only through equality, so they may be permuted.                *)
(***************************************************************************)
EXTENDS OutputLease, TLC

OwnersAndProjects == Permutations(ThisProcess) \cup Permutations(Project)
=============================================================================
