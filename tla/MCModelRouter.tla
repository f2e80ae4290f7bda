--------------------------- MODULE MCModelRouter ---------------------------
(***************************************************************************)
(* The two parts of model-router: routes, leases and drains (Router), and  *)
(* what happens to one chat request while it holds a lease (Proxy).  They  *)
(* share no variable, so a behaviour is about one or the other, and the    *)
(* idle one keeps its state.                                               *)
(***************************************************************************)
EXTENDS MCRouter, MCProxy

VARIABLE part       \* which of the two a behaviour is about

MCVars == <<vars, proxyVars, part>>

MCInit ==
    /\ part \in {"routes", "request"}
    /\ Init
    /\ MCProxyInit /\ (part = "routes" => payload = Plain /\ limit = 3 /\ length = 0
                                           /\ ending = "eof")

(* A request ends, and then nothing happens; the routes are never done. *)
Routes == part = "routes" /\ Next /\ UNCHANGED <<proxyVars, part>>
Request == part = "request" /\ [ProxyNext]_proxyVars /\ UNCHANGED <<vars, part>>

MCSpec == MCInit /\ [][Routes \/ Request]_MCVars
=============================================================================
