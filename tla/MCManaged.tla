----------------------------- MODULE MCManaged -----------------------------
(* Managed for one Endpoint or one Template. *)
EXTENDS Managed

CONSTANTS i1, i2, f, u
=============================================================================
