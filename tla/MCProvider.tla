----------------------------- MODULE MCProvider -----------------------------
(***************************************************************************)
(* Two parts of the provider: one call of its RunPod client (RestClient),  *)
(* and the controllers that take an experiment down (Teardown, with one    *)
(* check name that may be used twice).  They share no variable, so a       *)
(* behaviour is about one or the other, and the idle one keeps its state.  *)
(***************************************************************************)
EXTENDS RestClient, Teardown

CONSTANT c1

VARIABLE part       \* which of the two a behaviour is about

MCVars == <<vars, teardownVars, part>>

MCInit ==
    /\ part \in {"client", "teardown"}
    /\ Init /\ (part = "teardown" => op = "get")
    /\ TeardownInit

OfClient(A) == part = "client" /\ A /\ UNCHANGED <<teardownVars, part>>
OfTeardown(A) == part = "teardown" /\ A /\ UNCHANGED <<vars, part>>

(* Fairness and TeardownFairness.  A behaviour has one part, so a condition  *)
(* on the steps of both is a condition on those of either.                   *)
MCSpec ==
    /\ MCInit /\ [][OfClient(Next) \/ OfTeardown(TeardownNext)]_MCVars
    /\ WF_MCVars(OfClient(ClientStep) \/ OfTeardown(Janitor))
    /\ WF_MCVars(OfTeardown(Reaper))
    /\ \A c \in Checks :
         /\ WF_MCVars(OfTeardown(Withdraw(c) /\ check[c].phase = "deleting"))
         /\ WF_MCVars(OfTeardown(AcknowledgeDrain(c)))

(* Every call of the client returns (client.go:445): Returns, of the         *)
(* behaviours that are about the client.                                     *)
CallReturns == part = "client" => Returns
=============================================================================
