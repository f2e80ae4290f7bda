------------------------------- MODULE Proxy -------------------------------
(***************************************************************************)
(* proxyChat of model-router (internal/router/router.go) from the body of  *)
(* the request to the trailer of the response: the request is judged       *)
(* (ChatRequest), sent on, and the answer copied back (ResponseCopy).      *)
(***************************************************************************)
EXTENDS ChatRequest, ResponseCopy

VARIABLE upstream   \* "none", "busy", "unavailable", or "answered"

proxyVars == <<chatVars, copyVars, upstream>>

ProxyInit == ChatInit /\ CopyInit /\ upstream = "none"

Judging == ChatNext /\ UNCHANGED <<copyVars, upstream>>

(* No free slot (429), no answer (502), or an answer whose status and headers *)
(* are written at once.                                                       *)
Forward ==
    /\ phase = "accepted" /\ upstream = "none"
    /\ upstream' \in {"busy", "unavailable", "answered"}
    /\ UNCHANGED <<chatVars, copyVars>>

Copying == upstream = "answered" /\ CopyNext /\ UNCHANGED <<chatVars, upstream>>

ProxyNext == Judging \/ Forward \/ Copying

ProxySpec == ProxyInit /\ [][ProxyNext]_proxyVars
=============================================================================
