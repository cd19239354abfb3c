------------------------ MODULE MCOutputRoleOrdering ------------------------
(* Two publishers and two threads that deny, the closing window among them, *)
(* with one generation fewer than the denials they can ask for.             *)
EXTENDS OutputRoleOrdering

=============================================================================
