------------------------------- MODULE Router -------------------------------
(***************************************************************************)
(* The model-router's route table (internal/router/router.go): Refresh,    *)
(* request leases, route replacement and the drain-finalizer handshake.    *)
(*                                                                         *)
(* Goroutines: one per HTTP request, and the poller (Router.Run).  All of  *)
(* them call Refresh, which holds refreshMu for its whole transaction, so  *)
(* the local variables of Refresh are kept once, for the holder.  Every    *)
(* API call, every critical section of r.mu and every wait is a step of    *)
(* its own.  The API server's objects change between any two steps.        *)
(*                                                                         *)
(* Data.  A check's status is reduced to what the router compares: whether *)
(* it claims admission, and the Endpoint revision and Secret version it    *)
(* was verified against.  A Revision stands for everything                 *)
(* endpointRevisionMatches compares; Target[rev] for the endpointID and    *)
(* expectedModelID that routesEquivalent compares.  Time is not kept: an   *)
(* admitted check may be found fresh or lapsed at every evaluation.        *)
(***************************************************************************)
EXTENDS Naturals, FiniteSets

CONSTANTS
    Requests,       \* HTTP request goroutines
    Poller,         \* the goroutine of Router.Run
    Checks,         \* EndpointCheck names of the router's namespace
    Revisions,      \* Endpoint/Template revisions a check can be verified against
    Targets,        \* (endpointID, expectedModelID) pairs
    Target,         \* the pair a revision serves
    Tokens,         \* well-formed inference tokens
    RouteIds,       \* identities of *route values
    None,           \* nil
    MaxRV,          \* bound on the writes to each check
    MaxSecretRV,    \* bound on the writes to the inference Secret
    MaxRestarts     \* bound on the process deaths

ASSUME RouterAssumption ==
    /\ Poller \notin Requests
    /\ None \notin Requests \union {Poller} \union Checks \union Revisions
                   \union Tokens \union RouteIds
    /\ Checks \intersect Tokens = {}
    /\ Target \in [Revisions -> Targets]
    /\ MaxRV \in [Checks -> Nat] /\ MaxSecretRV \in Nat /\ MaxRestarts \in Nat

VARIABLES
    \* the API server (shared with the other controllers)
    checks, endpoint, secret,
    \* Router: mutex, route table, inference slot, poller
    refreshMu, active, routes, slot, run, runPrev,
    \* local variables of Refresh, for the holder of refreshMu
    step, snap, deleting, cand, candToken, prev, failed,
    \* request goroutines
    pc, lease,
    \* auxiliary: per request, what was already unusable when it arrived
    stale,
    restarts

api == <<checks, endpoint, secret>>
table == <<active, routes, slot, run, runPrev>>
tx == <<step, snap, deleting, cand, candToken, prev, failed>>
reqs == <<pc, lease, stale>>
vars == <<checks, endpoint, secret, refreshMu, active, routes, slot, run,
          runPrev, step, snap, deleting, cand, candToken, prev, failed,
          pc, lease, stale, restarts>>

Procs == Requests \union {Poller}
Maybe(S) == S \union {None}

Check == [rv : Nat, phase : {"absent", "live", "deleting"}, drain : BOOLEAN,
          admitted : BOOLEAN, endpoint : Maybe(Revisions), secretRV : Nat]

Route == [check : Maybe(Checks), target : Maybe(Targets),
          token : Maybe(Tokens), cancelled : BOOLEAN]

NoCheck == [rv |-> 0, phase |-> "absent", drain |-> FALSE, admitted |-> FALSE,
            endpoint |-> None, secretRV |-> 0]

NoSnap == [c \in Checks |-> NoCheck]

NoRoute == [check |-> None, target |-> None, token |-> None,
            cancelled |-> FALSE]

Steps == {"none", "list", "evaluate", "secret", "recheck", "relist", "swap",
          "drain", "ack", "return"}

(* The sync.WaitGroup of a route: Add(1) in acquire, Done on release. *)
inflight(r) == {q \in Requests : lease[q] = r}

(* Identities of route values that nothing refers to any more. *)
FreeRoutes == {r \in RouteIds : r \notin {active, prev, runPrev}
                                /\ inflight(r) = {}}

newRoute == CHOOSE r \in FreeRoutes : TRUE

(* Checks and tokens that cannot be used by a request arriving now. *)
StaleNow ==
    {c \in Checks : checks[c].phase # "live" \/ endpoint[c] = None}
    \union {t \in Tokens : t # secret.token}

Init ==
    /\ checks = NoSnap
    /\ endpoint = [c \in Checks |-> None]
    /\ secret \in [rv : {0}, token : Maybe(Tokens)]
    /\ refreshMu = None
    /\ active = None
    /\ routes = [r \in RouteIds |-> NoRoute]
    /\ slot = None
    /\ run = "running"
    /\ runPrev = None
    /\ step = "none" /\ snap = NoSnap /\ deleting = {}
    /\ cand = None /\ candToken = None /\ prev = None /\ failed = FALSE
    /\ pc = [q \in Requests |-> "idle"]
    /\ lease = [q \in Requests |-> None]
    /\ stale = [q \in Requests |-> {}]
    /\ restarts = 0

-----------------------------------------------------------------------------
(***************************************************************************)
(* The API server: writes of users, of the Crossplane composition, of the  *)
(* janitor and of the EndpointCheck reconciler.  Every write of a check    *)
(* gives it a new resourceVersion.                                         *)
(***************************************************************************)

WriteCheck(c, new) ==
    /\ checks[c].rv < MaxRV[c]
    /\ checks' = [checks EXCEPT ![c] = [new EXCEPT !.rv = checks[c].rv + 1]]
    /\ UNCHANGED <<endpoint, secret>>

(* What has become usable again is no longer held against a request. *)
WorldStep ==
    /\ stale' = [q \in Requests |-> stale[q] \intersect StaleNow']
    /\ UNCHANGED <<refreshMu, table, tx, pc, lease, restarts>>

CreateCheck(c) ==
    /\ checks[c].phase = "absent"
    /\ WriteCheck(c, [NoCheck EXCEPT !.phase = "live"])
    /\ WorldStep

(* The EndpointCheck reconciler adds the drain finalizer before anything    *)
(* else it does to a live check.                                            *)
AddDrainFinalizer(c) ==
    /\ checks[c].phase = "live" /\ ~checks[c].drain
    /\ WriteCheck(c, [checks[c] EXCEPT !.drain = TRUE])
    /\ WorldStep

(* A verification is written long after the Endpoint and the Secret it is   *)
(* about were read: it may name an older revision or Secret version.        *)
Admit(c) ==
    /\ checks[c].phase = "live" /\ checks[c].drain
    /\ \E e \in Revisions, v \in 0 .. secret.rv :
          WriteCheck(c, [checks[c] EXCEPT !.admitted = TRUE, !.endpoint = e,
                                          !.secretRV = v])
    /\ WorldStep

WithdrawAdmission(c) ==
    /\ checks[c].phase = "live" /\ checks[c].admitted
    /\ WriteCheck(c, [checks[c] EXCEPT !.admitted = FALSE])
    /\ WorldStep

(* Deletion by a user, by the janitor or on expiry: an object without       *)
(* finalizers vanishes; it may carry finalizers of other controllers.       *)
DeleteCheck(c) ==
    /\ checks[c].phase = "live"
    /\ \/ WriteCheck(c, [checks[c] EXCEPT !.phase = "deleting"])
       \/ ~checks[c].drain /\ WriteCheck(c, NoCheck)
    /\ WorldStep

(* The last other finalizer of a deleting check is removed. *)
Vanish(c) ==
    /\ checks[c].phase = "deleting" /\ ~checks[c].drain
    /\ WriteCheck(c, NoCheck)
    /\ WorldStep

(* The Endpoint of a check becomes Ready at a revision, or stops being so.  *)
ChangeEndpoint(c) ==
    /\ \E e \in Maybe(Revisions) \ {endpoint[c]} :
          endpoint' = [endpoint EXCEPT ![c] = e]
    /\ UNCHANGED <<checks, secret>>
    /\ WorldStep

(* The Secret is written; None stands for an absent key, a malformed token  *)
(* or a wrong purpose label.                                                *)
WriteSecret ==
    /\ secret.rv < MaxSecretRV
    /\ \E t \in Maybe(Tokens) : secret' = [rv |-> secret.rv + 1, token |-> t]
    /\ UNCHANGED <<checks, endpoint>>
    /\ WorldStep

-----------------------------------------------------------------------------
(***************************************************************************)
(* Refresh.                                                                *)
(***************************************************************************)

Lock(p) ==
    /\ refreshMu = None
    /\ IF p = Poller THEN run = "running" ELSE pc[p] = "refresh"
    /\ refreshMu' = p
    /\ step' = "list"
    /\ UNCHANGED <<api, table, snap, deleting, cand, candToken, prev, failed,
                   reqs, restarts>>

(* Every return path of the transaction before replace that gives up the    *)
(* route: r.withdraw followed by an error.                                  *)
Fail ==
    /\ step' = "swap"
    /\ failed' = TRUE
    /\ cand' = None
    /\ candToken' = None

ListChecks ==
    /\ step = "list"
    /\ step' = "evaluate"
    /\ snap' = checks
    /\ deleting' = {c \in Checks : checks[c].phase = "deleting"}
    /\ UNCHANGED <<api, refreshMu, table, cand, candToken, prev, failed,
                   reqs, restarts>>

(* An API error or the cancelled context of a request that went away. *)
ListFails ==
    /\ step \in {"list", "relist"}
    /\ Fail
    /\ UNCHANGED <<api, refreshMu, table, snap, deleting, prev, reqs, restarts>>

endpointRevisionMatches(c) == endpoint[c] # None /\ endpoint[c] = snap[c].endpoint

(* Checks of the snapshot that may be routed to; fresh is the set of those  *)
(* whose timestamps and lifetime the clock still allows.                    *)
Eligible(fresh) ==
    {c \in fresh : /\ snap[c].phase = "live"
                   /\ snap[c].drain
                   /\ snap[c].admitted
                   /\ endpointRevisionMatches(c)}

Evaluate ==
    /\ step = "evaluate"
    /\ \E fresh \in SUBSET Checks :
          \/ /\ \E c \in Checks : Eligible(fresh) = {c} /\ cand' = c
             /\ step' = "secret"
          \/ /\ \A c \in Checks : Eligible(fresh) # {c}
             /\ cand' = None
             /\ step' = "relist"
    /\ UNCHANGED <<api, refreshMu, table, snap, deleting, candToken, prev,
                   failed, reqs, restarts>>

ReadSecret ==
    /\ step = "secret"
    /\ secret.token # None
    /\ secret.rv = snap[cand].secretRV
    /\ candToken' = secret.token
    /\ step' = "recheck"
    /\ UNCHANGED <<api, refreshMu, table, snap, deleting, cand, prev, failed,
                   reqs, restarts>>

(* An unreadable, mislabelled, malformed or rotated Secret. *)
ReadSecretFails ==
    /\ step = "secret"
    /\ cand' = None
    /\ step' = "relist"
    /\ UNCHANGED <<api, refreshMu, table, snap, deleting, candToken, prev,
                   failed, reqs, restarts>>

RecheckEndpoint ==
    /\ step = "recheck"
    /\ \/ endpointRevisionMatches(cand) /\ UNCHANGED <<cand, candToken>>
       \/ cand' = None /\ candToken' = None    \* changed, expired or unreadable
    /\ step' = "relist"
    /\ UNCHANGED <<api, refreshMu, table, snap, deleting, prev, failed, reqs,
                   restarts>>

Relist ==
    /\ step = "relist"
    /\ \/ /\ checks = snap
          /\ step' = "swap"
          /\ UNCHANGED <<cand, candToken, failed>>
       \/ checks # snap /\ Fail
    /\ UNCHANGED <<api, refreshMu, table, snap, deleting, prev, reqs, restarts>>

(* The route Refresh built. *)
candRoute == [check |-> cand, target |-> Target[snap[cand].endpoint],
              token |-> candToken, cancelled |-> FALSE]

(* Mutant: a rotated token does not make the route a different one. *)
routesEquivalent_IgnoresToken ==
    /\ active # None /\ cand # None
    /\ routes[active].check = cand
    /\ routes[active].target = candRoute.target

routesEquivalent ==
    /\ active # None /\ cand # None
    /\ routes[active].check = cand
    /\ routes[active].target = candRoute.target
    /\ routes[active].token = candToken

AfterReplace == IF failed THEN "return" ELSE "ack"

(* Mutant: the previous route is not cancelled. *)
Cancelled_Never(r) == routes[r]

Cancelled(r) == [routes[r] EXCEPT !.cancelled = TRUE]

(* replace: nothing to do, or an equivalent route keeps its leases. *)
ReplaceKeeps ==
    /\ step = "swap"
    /\ routesEquivalent \/ (active = None /\ cand = None)
    /\ step' = AfterReplace
    /\ UNCHANGED <<api, refreshMu, table, snap, deleting, cand, candToken,
                   prev, failed, reqs, restarts>>

(* Mutant: replace waits only when it withdraws, not on a handover. *)
ReplaceSwaps_NoWaitOnHandover ==
    /\ step = "swap"
    /\ ~routesEquivalent
    /\ \/ /\ cand # None /\ FreeRoutes # {}
          /\ active' = newRoute
          /\ routes' = [s \in RouteIds |-> IF s = newRoute THEN candRoute
                           ELSE IF s = active THEN Cancelled(s) ELSE routes[s]]
          /\ prev' = None
          /\ step' = AfterReplace
       \/ /\ cand = None /\ active # None
          /\ active' = None
          /\ routes' = [routes EXCEPT ![active] = Cancelled(active)]
          /\ prev' = active
          /\ step' = "drain"
    /\ UNCHANGED <<api, refreshMu, slot, run, runPrev, snap, deleting, cand,
                   candToken, failed, reqs, restarts>>

(* replace: the critical section that swaps the active route and cancels    *)
(* the previous one.                                                        *)
ReplaceSwaps ==
    /\ step = "swap"
    /\ ~routesEquivalent
    /\ \/ /\ cand # None /\ FreeRoutes # {}
          /\ active' = newRoute
          /\ routes' = [s \in RouteIds |-> IF s = newRoute THEN candRoute
                           ELSE IF s = active THEN Cancelled(s) ELSE routes[s]]
       \/ /\ cand = None /\ active # None
          /\ active' = None
          /\ routes' = [routes EXCEPT ![active] = Cancelled(active)]
    /\ prev' = active
    /\ step' = IF active = None THEN AfterReplace ELSE "drain"
    /\ UNCHANGED <<api, refreshMu, slot, run, runPrev, snap, deleting, cand,
                   candToken, failed, reqs, restarts>>

(* Mutant: no inflight.Wait(). *)
ReplaceDrained_NoWait ==
    /\ step = "drain"
    /\ routes' = [routes EXCEPT ![prev].token = None]
    /\ prev' = None
    /\ step' = AfterReplace
    /\ UNCHANGED <<api, refreshMu, active, slot, run, runPrev, snap, deleting,
                   cand, candToken, failed, reqs, restarts>>

(* replace: previous.inflight.Wait() returns, the token is erased. *)
ReplaceDrained ==
    /\ step = "drain"
    /\ inflight(prev) = {}
    /\ routes' = [routes EXCEPT ![prev].token = None]
    /\ prev' = None
    /\ step' = AfterReplace
    /\ UNCHANGED <<api, refreshMu, active, slot, run, runPrev, snap, deleting,
                   cand, candToken, failed, reqs, restarts>>

(* The finalizer of a deleting check is removed by an Update that carries   *)
(* the resourceVersion of the snapshot.                                     *)
AckDrain(c) ==
    /\ step = "ack" /\ c \in deleting
    /\ snap[c].drain
    /\ checks[c].rv = snap[c].rv
    /\ \E last \in BOOLEAN :
          checks' = [checks EXCEPT ![c] =
              IF last THEN [NoCheck EXCEPT !.rv = checks[c].rv + 1]
              ELSE [checks[c] EXCEPT !.rv = @ + 1, !.drain = FALSE]]
    /\ deleting' = deleting \ {c}
    /\ UNCHANGED <<endpoint, secret, refreshMu, table, step, snap, cand,
                   candToken, prev, failed, reqs, restarts>>

(* No drain finalizer in the snapshot, or NotFound. *)
AckSkips(c) ==
    /\ step = "ack" /\ c \in deleting
    /\ ~snap[c].drain \/ checks[c].phase = "absent"
    /\ deleting' = deleting \ {c}
    /\ UNCHANGED <<api, refreshMu, table, step, snap, cand, candToken, prev,
                   failed, reqs, restarts>>

(* A conflict, or any other error of the Update. *)
AckFails(c) ==
    /\ step = "ack" /\ c \in deleting
    /\ snap[c].drain
    /\ failed' = TRUE
    /\ step' = "return"
    /\ UNCHANGED <<api, refreshMu, table, snap, deleting, cand, candToken,
                   prev, reqs, restarts>>

AckDone ==
    /\ step = "ack" /\ deleting = {}
    /\ step' = "return"
    /\ UNCHANGED <<api, refreshMu, table, snap, deleting, cand, candToken,
                   prev, failed, reqs, restarts>>

(* Refresh returns and the deferred Unlock runs: a request goes on to       *)
(* acquire, or is answered 503.                                             *)
Return ==
    /\ step = "return"
    /\ refreshMu' = None
    /\ step' = "none" /\ snap' = NoSnap /\ deleting' = {}
    /\ cand' = None /\ candToken' = None /\ failed' = FALSE
    /\ IF refreshMu \in Requests
       THEN LET ok == ~failed /\ cand # None IN
            /\ pc' = [pc EXCEPT ![refreshMu] = IF ok THEN "acquire" ELSE "idle"]
            /\ stale' = IF ok THEN stale
                        ELSE [stale EXCEPT ![refreshMu] = {}]
       ELSE UNCHANGED <<pc, stale>>
    /\ UNCHANGED <<api, table, prev, lease, restarts>>

RefreshStep ==
    \/ ListChecks \/ ListFails \/ Evaluate \/ ReadSecret \/ ReadSecretFails
    \/ RecheckEndpoint \/ Relist
    \/ ReplaceKeeps \/ ReplaceSwaps \/ ReplaceDrained
    \/ \E c \in Checks : AckDrain(c) \/ AckSkips(c) \/ AckFails(c)
    \/ AckDone \/ Return

-----------------------------------------------------------------------------
(***************************************************************************)
(* ServeHTTP and proxyChat.                                                *)
(***************************************************************************)

Arrive(q) ==
    /\ pc[q] = "idle"
    /\ pc' = [pc EXCEPT ![q] = "refresh"]
    /\ stale' = [stale EXCEPT ![q] = StaleNow]
    /\ UNCHANGED <<api, refreshMu, table, tx, lease, restarts>>

acquire(q) ==
    /\ pc[q] = "acquire"
    /\ lease' = [lease EXCEPT ![q] = active]
    /\ pc' = [pc EXCEPT ![q] = IF active = None THEN "idle" ELSE "leased"]
    /\ stale' = IF active = None THEN [stale EXCEPT ![q] = {}] ELSE stale
    /\ UNCHANGED <<api, refreshMu, table, tx, restarts>>

(* /readyz, /v1/models, an unsupported operation, a body that is refused,   *)
(* or 429 because the inference slot is taken.                              *)
AnswerLocally(q) ==
    /\ pc[q] = "leased"
    /\ pc' = [pc EXCEPT ![q] = "release"]
    /\ UNCHANGED <<api, refreshMu, table, tx, lease, stale, restarts>>

(* The request is validated, takes the inference slot and is sent with the  *)
(* route's token; only from here on does cancelling the route reach it.     *)
StartUpstream(q) ==
    /\ pc[q] = "leased"
    /\ slot = None
    /\ slot' = q
    /\ pc' = [pc EXCEPT ![q] = "upstream"]
    /\ UNCHANGED <<api, refreshMu, active, routes, run, runPrev, tx, lease,
                   stale, restarts>>

(* Mutant: the slot is not released. *)
EndUpstream_KeepsSlot(q) ==
    /\ pc[q] = "upstream"
    /\ pc' = [pc EXCEPT ![q] = "release"]
    /\ UNCHANGED <<api, refreshMu, table, tx, lease, stale, restarts>>

(* The response was copied, failed, timed out, the client went away or the  *)
(* route was cancelled; the slot is released before the lease.              *)
EndUpstream(q) ==
    /\ pc[q] = "upstream"
    /\ slot' = None
    /\ pc' = [pc EXCEPT ![q] = "release"]
    /\ UNCHANGED <<api, refreshMu, active, routes, run, runPrev, tx, lease,
                   stale, restarts>>

(* Mutant: the lease is not given back. *)
release_Leaks(q) ==
    /\ pc[q] = "release"
    /\ pc' = [pc EXCEPT ![q] = "idle"]
    /\ stale' = [stale EXCEPT ![q] = {}]
    /\ UNCHANGED <<api, refreshMu, table, tx, lease, restarts>>

release(q) ==
    /\ pc[q] = "release"
    /\ lease' = [lease EXCEPT ![q] = None]
    /\ pc' = [pc EXCEPT ![q] = "idle"]
    /\ stale' = [stale EXCEPT ![q] = {}]
    /\ UNCHANGED <<api, refreshMu, table, tx, restarts>>

-----------------------------------------------------------------------------
(***************************************************************************)
(* Run's exit and the death of the process.                                *)
(***************************************************************************)

(* ctx.Done in Run: withdraw("router stopped") swaps the active route       *)
(* without taking refreshMu, while requests are still being served.         *)
StopWithdraw ==
    /\ run = "running"
    /\ refreshMu # Poller
    /\ active' = None
    /\ runPrev' = active
    /\ routes' = IF active = None THEN routes
                 ELSE [routes EXCEPT ![active] = Cancelled(active)]
    /\ run' = IF active = None THEN "stopped" ELSE "draining"
    /\ UNCHANGED <<api, refreshMu, slot, tx, reqs, restarts>>

(* Mutant: Run erases the token without waiting for the leases. *)
StopDrained_NoWait ==
    /\ run = "draining"
    /\ routes' = [routes EXCEPT ![runPrev].token = None]
    /\ runPrev' = None
    /\ run' = "stopped"
    /\ UNCHANGED <<api, refreshMu, active, slot, tx, reqs, restarts>>

StopDrained ==
    /\ run = "draining"
    /\ inflight(runPrev) = {}
    /\ routes' = [routes EXCEPT ![runPrev].token = None]
    /\ runPrev' = None
    /\ run' = "stopped"
    /\ UNCHANGED <<api, refreshMu, active, slot, tx, reqs, restarts>>

(* The process dies or exits after server.Shutdown, and is started again:   *)
(* only the API server remembers anything.                                  *)
Restart ==
    /\ restarts < MaxRestarts
    /\ restarts' = restarts + 1
    /\ refreshMu' = None
    /\ active' = None /\ runPrev' = None /\ slot' = None /\ run' = "running"
    /\ routes' = [r \in RouteIds |-> NoRoute]
    /\ step' = "none" /\ snap' = NoSnap /\ deleting' = {}
    /\ cand' = None /\ candToken' = None /\ prev' = None /\ failed' = FALSE
    /\ pc' = [q \in Requests |-> "idle"]
    /\ lease' = [q \in Requests |-> None]
    /\ stale' = [q \in Requests |-> {}]
    /\ UNCHANGED api

-----------------------------------------------------------------------------
APIStep ==
    \/ \E c \in Checks :
          \/ CreateCheck(c) \/ AddDrainFinalizer(c) \/ Admit(c)
          \/ WithdrawAdmission(c) \/ DeleteCheck(c) \/ Vanish(c)
          \/ ChangeEndpoint(c)
    \/ WriteSecret

RequestStep ==
    \E q \in Requests :
        Arrive(q) \/ acquire(q) \/ AnswerLocally(q) \/ StartUpstream(q)
        \/ EndUpstream(q) \/ release(q)

Next ==
    \/ APIStep
    \/ \E p \in Procs : Lock(p)
    \/ RefreshStep
    \/ RequestStep
    \/ StopWithdraw \/ StopDrained \/ Restart

Spec == Init /\ [][Next]_vars

(***************************************************************************)
(* Fairness.  A goroutine that can take a step takes it.  sync.Mutex hands *)
(* the lock to a starving waiter, hence strong fairness of Lock.  The API  *)
(* server does not fail for ever, hence strong fairness of the calls that  *)
(* succeed.  Reading and answering a request is bounded by the server's    *)
(* ReadTimeout and WriteTimeout.  An upstream call is only required to end *)
(* once its route is cancelled.  Nobody else has to act.                   *)
(***************************************************************************)
EndCancelledUpstream(q) ==
    pc[q] = "upstream" /\ routes[lease[q]].cancelled /\ EndUpstream(q)

Fairness ==
    /\ \A p \in Procs : SF_vars(Lock(p))
    /\ WF_vars(RefreshStep)
    /\ SF_vars(ListChecks)
    /\ SF_vars(Relist)
    /\ \A c \in Checks : SF_vars(AckDrain(c))
    /\ \A q \in Requests :
          /\ WF_vars(acquire(q))
          /\ WF_vars(AnswerLocally(q) \/ StartUpstream(q))
          /\ WF_vars(EndCancelledUpstream(q))
          /\ WF_vars(release(q))

FairSpec == Spec /\ Fairness

-----------------------------------------------------------------------------
(* Every variable keeps its type, and the one inference slot is held by     *)
(* exactly the request in an upstream call, whatever ends it                *)
(* (router.go:403-407).                                                     *)
TypeOK ==
    /\ checks \in [Checks -> Check]
    /\ endpoint \in [Checks -> Maybe(Revisions)]
    /\ secret \in [rv : Nat, token : Maybe(Tokens)]
    /\ refreshMu \in Maybe(Procs)
    /\ active \in Maybe(RouteIds)
    /\ routes \in [RouteIds -> Route]
    /\ slot \in Maybe(Requests)
    /\ \A q \in Requests : slot = q <=> pc[q] = "upstream"
    /\ run \in {"running", "draining", "stopped"}
    /\ runPrev \in Maybe(RouteIds)
    /\ step \in Steps
    /\ snap \in [Checks -> Check]
    /\ deleting \in SUBSET Checks
    /\ cand \in Maybe(Checks)
    /\ candToken \in Maybe(Tokens)
    /\ prev \in Maybe(RouteIds)
    /\ failed \in BOOLEAN
    /\ pc \in [Requests -> {"idle", "refresh", "acquire", "leased", "upstream",
                           "release"}]
    /\ lease \in [Requests -> Maybe(RouteIds)]
    /\ stale \in [Requests -> SUBSET (Checks \union Tokens)]
    /\ restarts \in Nat

Drained(c) == checks[c].phase = "absent" \/ ~checks[c].drain

(* The drain finalizer is acknowledged only after every lease on the        *)
(* check's route has been released: a request never outlives the object     *)
(* whose deletion it holds up (docs/model-router.md, "waits for all leases  *)
(* to exit before acknowledging the EndpointCheck drain finalizer").        *)
LeaseHoldsFinalizer ==
    \A q \in Requests :
        lease[q] # None => ~Drained(routes[lease[q]].check)

(* The same promise for the time until Run has been told to stop. *)
LeaseHoldsFinalizerWhileRunning == run = "running" => LeaseHoldsFinalizer

(* What the router is for the drain finalizer: see module Drain. *)
guarded == [c \in Checks |-> ~Drained(c)]
users == [c \in Checks |->
            {q \in Requests : /\ run = "running" /\ lease[q] # None
                              /\ routes[lease[q]].check = c}]
DrainSpec == INSTANCE Drain WITH Users <- Requests, up <- (run = "running")

(* The router keeps the promise of the drain finalizer: a lease begins only *)
(* under it and it is acknowledged only when no lease is left, across       *)
(* handovers, conflicts, shutdown and restarts (Refresh and replace).       *)
DrainKept == DrainSpec!Spec

(* A request never works with a check that was already terminating or whose *)
(* Endpoint was already unusable when it arrived, nor with a token that had *)
(* already been rotated away: the synchronous Refresh of ServeHTTP covers   *)
(* every change made before the request, whatever other refreshes commit in *)
(* between (the comment on refreshMu in Refresh).                           *)
NoStaleLease ==
    \A q \in Requests :
        lease[q] # None =>
            /\ routes[lease[q]].check \notin stale[q]
            /\ routes[lease[q]].token \notin stale[q]

(* replace erases a token only when no request can still read it, also      *)
(* while Run's own withdrawal and a refresh wait at the same time.          *)
TokenOutlivesLease ==
    \A q \in Requests : lease[q] # None => routes[lease[q]].token # None

(* Between two refreshes every lease is on the active route: replace never  *)
(* returns while a request still works on a route it has withdrawn.         *)
WithdrawnMeansIdle ==
    run = "running" /\ refreshMu = None =>
        \A q \in Requests : lease[q] \in {None, active}

(* A terminating check is eventually let go by the router, unless the       *)
(* router is stopped, even if upstream responses never end by themselves.   *)
DrainAcknowledged ==
    \A c \in Checks :
        checks[c].phase = "deleting" ~> Drained(c) \/ run # "running"

(* No request hangs in the router: it is answered, or it is in an upstream  *)
(* call.  Waiting for leases under refreshMu cannot deadlock with them.     *)
RequestAnswered ==
    \A q \in Requests : pc[q] = "refresh" ~> pc[q] \in {"idle", "upstream"}
=============================================================================
