-------------------------- MODULE MCOutputKeepalive --------------------------
(* Model checking of OutputKeepalive. *)
EXTENDS OutputKeepalive
=============================================================================
