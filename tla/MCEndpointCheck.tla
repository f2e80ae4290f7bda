-------------------------- MODULE MCEndpointCheck --------------------------
(* EndpointCheck on small instances. *)
EXTENDS EndpointCheck
=============================================================================
