------------------------------- MODULE Drain -------------------------------
(***************************************************************************)
(* What the drain finalizer of an EndpointCheck promises                   *)
(* (docs/model-router.md): while it is on a check, requests may use the    *)
(* check; it is removed only when nobody does.  Router implements this     *)
(* with leases, routes and refreshMu; Teardown assumes it of the router.   *)
(*                                                                         *)
(* The promise is made by a router that runs: `up' is false from the       *)
(* moment it is told to stop until its successor starts, and users it then *)
(* still serves are not counted.                                           *)
(***************************************************************************)
CONSTANTS Checks, Users

VARIABLES
    guarded,    \* per check: the drain finalizer is present
    users,      \* per check: who uses it
    up          \* a router runs

vars == <<guarded, users, up>>

Nobody == [c \in Checks |-> {}]

Init ==
    /\ guarded = [c \in Checks |-> FALSE]
    /\ users = Nobody
    /\ up = TRUE

Guard(c) ==
    /\ guarded' = [guarded EXCEPT ![c] = TRUE]
    /\ UNCHANGED <<users, up>>

(* A use begins only under the finalizer. *)
Enter(c, u) ==
    /\ up /\ guarded[c]
    /\ users' = [users EXCEPT ![c] = @ \union {u}]
    /\ UNCHANGED <<guarded, up>>

Leave(c, u) ==
    /\ users' = [users EXCEPT ![c] = @ \ {u}]
    /\ UNCHANGED <<guarded, up>>

(* The finalizer is removed from an unused check. *)
LetGo(c) ==
    /\ users[c] = {}
    /\ guarded' = [guarded EXCEPT ![c] = FALSE]
    /\ UNCHANGED <<users, up>>

(* The router is told to stop, dies, or is started. *)
Switch ==
    /\ up' \in BOOLEAN
    /\ users' = Nobody
    /\ UNCHANGED guarded

Next ==
    \/ \E c \in Checks : Guard(c) \/ LetGo(c)
    \/ \E c \in Checks, u \in Users : Enter(c, u) \/ Leave(c, u)
    \/ Switch

Spec == Init /\ [][Next]_vars
=============================================================================
