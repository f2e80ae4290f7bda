---------------------------- MODULE RouterProofs ----------------------------
(***************************************************************************)
(* Proofs about Router for every value of its constants: type correctness, *)
(* the drain handshake (LeaseHoldsFinalizerWhileRunning,                   *)
(* TokenOutlivesLease, WithdrawnMeansIdle) and the freshness of what a     *)
(* request works with (NoStaleLease).                                      *)
(***************************************************************************)
EXTENDS Router, TLAPS

USE RouterAssumption

(* The empty records have their types. *)
LEMMA RecordTypes ==
    /\ NoCheck \in Check
    /\ NoSnap \in [Checks -> Check]
    /\ NoRoute \in Route
  BY DEF NoCheck, NoSnap, NoRoute, Check, Route, Maybe

(* Updating one field of a check or of a route. *)
LEMMA CheckUpdate ==
    ASSUME NEW r \in Check
    PROVE  /\ \A n \in Nat : [r EXCEPT !.rv = n] \in Check
           /\ \A f \in {"live", "deleting"} : [r EXCEPT !.phase = f] \in Check
           /\ \A b \in BOOLEAN : [r EXCEPT !.drain = b] \in Check
           /\ \A b \in BOOLEAN : [r EXCEPT !.admitted = b] \in Check
           /\ \A e \in Revisions : [r EXCEPT !.endpoint = e] \in Check
           /\ \A n \in Nat : [r EXCEPT !.secretRV = n] \in Check
  <1>1. ASSUME NEW n \in Nat PROVE [r EXCEPT !.rv = n] \in Check
    BY DEF Check
  <1>2. ASSUME NEW f \in {"live", "deleting"} PROVE [r EXCEPT !.phase = f] \in Check
    BY DEF Check
  <1>3. ASSUME NEW b \in BOOLEAN PROVE [r EXCEPT !.drain = b] \in Check
    BY DEF Check
  <1>4. ASSUME NEW b \in BOOLEAN PROVE [r EXCEPT !.admitted = b] \in Check
    BY DEF Check
  <1>5. ASSUME NEW e \in Revisions PROVE [r EXCEPT !.endpoint = e] \in Check
    BY DEF Check, Maybe
  <1>6. ASSUME NEW n \in Nat PROVE [r EXCEPT !.secretRV = n] \in Check
    BY DEF Check
  <1> QED BY <1>1, <1>2, <1>3, <1>4, <1>5, <1>6

(* Updating one field of a route. *)
LEMMA RouteUpdate ==
    ASSUME NEW r \in Route
    PROVE  /\ [r EXCEPT !.cancelled = TRUE] \in Route
           /\ [r EXCEPT !.token = None] \in Route
  <1>1. [r EXCEPT !.cancelled = TRUE] \in Route
    BY DEF Route
  <1>2. [r EXCEPT !.token = None] \in Route
    BY DEF Route, Maybe
  <1> QED BY <1>1, <1>2

(* The API server's writes keep the types and leave the router alone. *)
LEMMA APITypes ==
    ASSUME TypeOK, APIStep
    PROVE  /\ checks' \in [Checks -> Check]
           /\ endpoint' \in [Checks -> Maybe(Revisions)]
           /\ secret' \in [rv : Nat, token : Maybe(Tokens)]
           /\ WorldStep
  <1> USE DEF TypeOK
  <1> DEFINE Typed == /\ checks' \in [Checks -> Check]
                      /\ endpoint' \in [Checks -> Maybe(Revisions)]
                      /\ secret' \in [rv : Nat, token : Maybe(Tokens)]
                      /\ WorldStep
  <1>w. ASSUME NEW c \in Checks, NEW new \in Check, WriteCheck(c, new), WorldStep
        PROVE  Typed
    <2>1. [new EXCEPT !.rv = checks[c].rv + 1] \in Check
      <3>1. checks[c].rv + 1 \in Nat
        BY DEF Check
      <3> QED BY <3>1, CheckUpdate
    <2> QED BY <1>w, <2>1 DEF WriteCheck
  <1> HIDE DEF Typed
  <1>1. ASSUME NEW c \in Checks, CreateCheck(c) PROVE Typed
    <2>1. [NoCheck EXCEPT !.phase = "live"] \in Check
      BY RecordTypes, CheckUpdate
    <2> QED BY <1>1, <1>w, <2>1 DEF CreateCheck
  <1>2. ASSUME NEW c \in Checks, AddDrainFinalizer(c) PROVE Typed
    <2>1. [checks[c] EXCEPT !.drain = TRUE] \in Check
      BY CheckUpdate
    <2> QED BY <1>2, <1>w, <2>1 DEF AddDrainFinalizer
  <1>3. ASSUME NEW c \in Checks, Admit(c) PROVE Typed
    <2>1. PICK e \in Revisions, v \in 0 .. secret.rv :
             WriteCheck(c, [checks[c] EXCEPT !.admitted = TRUE, !.endpoint = e,
                                             !.secretRV = v])
      BY <1>3 DEF Admit
    <2>2. v \in Nat
      OBVIOUS
    <2>3. [checks[c] EXCEPT !.admitted = TRUE, !.endpoint = e, !.secretRV = v]
             \in Check
      BY <2>2, CheckUpdate
    <2> QED BY <1>3, <1>w, <2>1, <2>3 DEF Admit
  <1>4. ASSUME NEW c \in Checks, WithdrawAdmission(c) PROVE Typed
    <2>1. [checks[c] EXCEPT !.admitted = FALSE] \in Check
      BY CheckUpdate
    <2> QED BY <1>4, <1>w, <2>1 DEF WithdrawAdmission
  <1>5. ASSUME NEW c \in Checks, DeleteCheck(c) PROVE Typed
    <2>1. [checks[c] EXCEPT !.phase = "deleting"] \in Check
      BY CheckUpdate
    <2> QED BY <1>5, <1>w, <2>1, RecordTypes DEF DeleteCheck
  <1>6. ASSUME NEW c \in Checks, Vanish(c) PROVE Typed
    BY <1>6, <1>w, RecordTypes DEF Vanish
  <1>7. ASSUME NEW c \in Checks, ChangeEndpoint(c) PROVE Typed
    BY <1>7 DEF ChangeEndpoint, Typed
  <1>8. ASSUME WriteSecret PROVE Typed
    BY <1>8 DEF WriteSecret, Typed, Maybe
  <1> QED
    BY <1>1, <1>2, <1>3, <1>4, <1>5, <1>6, <1>7, <1>8 DEF APIStep, Typed

(* A transaction runs exactly while refreshMu is held; the check it has     *)
(* picked, if any, is a live one of its snapshot, with the drain finalizer. *)
RefreshInv ==
    /\ refreshMu = None => step = "none"
    /\ step = "none" => refreshMu = None
    /\ refreshMu \in Requests => pc[refreshMu] = "refresh"
    /\ cand # None => /\ snap[cand].phase = "live"
                      /\ snap[cand].drain
                      /\ snap[cand].endpoint \in Revisions
    /\ step \in {"none", "list", "evaluate"} => cand = None

TypeInv == TypeOK /\ RefreshInv

(* The types hold at first. *)
LEMMA TypeInit == Init => TypeInv
  <1> SUFFICES ASSUME Init PROVE TypeInv
    OBVIOUS
  <1>1. checks \in [Checks -> Check] /\ snap \in [Checks -> Check]
    BY RecordTypes DEF Init
  <1>2. routes \in [RouteIds -> Route]
    BY RecordTypes DEF Init
  <1>3. secret \in [rv : Nat, token : Maybe(Tokens)]
    BY DEF Init
  <1>4. RefreshInv
    BY DEF Init, RefreshInv
  <1>5. failed \in BOOLEAN /\ step \in Steps /\ run \in {"running", "draining", "stopped"}
    BY DEF Init, Steps
  <1> QED
    BY <1>1, <1>2, <1>3, <1>4, <1>5 DEF Init, TypeInv, TypeOK, Maybe

(* A route is well formed whenever replace publishes it or cancels it. *)
LEMMA RouteTypes ==
    ASSUME TypeInv
    PROVE  /\ cand # None => candRoute \in Route
           /\ \A r \in RouteIds : Cancelled(r) \in Route
           /\ FreeRoutes # {} => newRoute \in FreeRoutes
  <1>1. cand # None => candRoute \in Route
    BY DEF TypeInv, TypeOK, RefreshInv, candRoute, Route, Maybe
  <1>2. \A r \in RouteIds : Cancelled(r) \in Route
    BY RouteUpdate DEF TypeInv, TypeOK, Cancelled
  <1>3. FreeRoutes # {} => newRoute \in FreeRoutes
    BY DEF newRoute
  <1> QED BY <1>1, <1>2, <1>3

(* Every step keeps the types. *)
LEMMA TypeStep == TypeInv /\ [Next]_vars => TypeInv'
  <1> SUFFICES ASSUME TypeInv, [Next]_vars PROVE TypeInv'
    OBVIOUS
  <1> USE DEF TypeInv, TypeOK, RefreshInv
  <1>1. CASE UNCHANGED vars
    BY <1>1 DEF vars
  <1>2. CASE APIStep
    BY <1>2, APITypes DEF WorldStep, table, tx
  <1>3. ASSUME NEW p \in Procs, Lock(p) PROVE TypeInv'
    <2>1. refreshMu' \in Maybe(Procs) /\ step' = "list" /\ step' \in Steps
      BY <1>3 DEF Lock, Steps, Maybe
    <2>2. cand = None
      BY <1>3 DEF Lock
    <2>3. p # None
      BY DEF Procs
    <2> QED BY <1>3, <2>1, <2>2, <2>3 DEF Lock, api, table, reqs
  <1>4. CASE ListChecks
    BY <1>4 DEF ListChecks, api, table, reqs, Steps
  <1>5. CASE ListFails
    BY <1>5 DEF ListFails, Fail, api, table, reqs, Steps, Maybe
  <1>6. CASE Evaluate
    BY <1>6 DEF Evaluate, Eligible, endpointRevisionMatches, api, table, reqs, Steps, Maybe
  <1>7. CASE ReadSecret
    BY <1>7 DEF ReadSecret, api, table, reqs, Steps
  <1>8. CASE ReadSecretFails
    BY <1>8 DEF ReadSecretFails, api, table, reqs, Steps, Maybe
  <1>9. CASE RecheckEndpoint
    BY <1>9 DEF RecheckEndpoint, api, table, reqs, Steps, Maybe
  <1>10. CASE Relist
    <2>1. /\ step' \in {"swap"} /\ step' \in Steps /\ failed' \in BOOLEAN
          /\ cand' \in {cand, None} /\ candToken' \in {candToken, None}
          /\ refreshMu # None
      BY <1>10 DEF Relist, Fail, Steps
    <2> QED BY <1>10, <2>1 DEF Relist, api, table, reqs, Maybe
  <1>11. CASE ReplaceKeeps
    BY <1>11 DEF ReplaceKeeps, AfterReplace, api, table, reqs, Steps
  <1>12. CASE ReplaceSwaps
    BY <1>12, RouteTypes DEF ReplaceSwaps, AfterReplace, FreeRoutes, api, reqs, Steps, Maybe
  <1>13. CASE ReplaceDrained
    <2>1. routes' \in [RouteIds -> Route]
      BY <1>13, RouteUpdate DEF ReplaceDrained
    <2> QED BY <1>13, <2>1 DEF ReplaceDrained, AfterReplace, api, reqs, Steps, Maybe
  <1>14. ASSUME NEW c \in Checks, AckDrain(c) PROVE TypeInv'
    <2>1. checks[c].rv + 1 \in Nat
      BY DEF Check
    <2>2. [NoCheck EXCEPT !.rv = checks[c].rv + 1] \in Check
      BY <2>1, RecordTypes, CheckUpdate
    <2>3. [checks[c] EXCEPT !.rv = checks[c].rv + 1, !.drain = FALSE] \in Check
      BY <2>1, CheckUpdate
    <2>4. checks' \in [Checks -> Check]
      BY <1>14, <2>2, <2>3 DEF AckDrain
    <2> QED BY <1>14, <2>4 DEF AckDrain, table, reqs
  <1>15. ASSUME NEW c \in Checks, AckSkips(c) PROVE TypeInv'
    BY <1>15 DEF AckSkips, api, table, reqs
  <1>16. ASSUME NEW c \in Checks, AckFails(c) PROVE TypeInv'
    BY <1>16 DEF AckFails, api, table, reqs, Steps
  <1>17. CASE AckDone
    BY <1>17 DEF AckDone, api, table, reqs, Steps
  <1>18. CASE Return
    <2>1. /\ pc' \in [Requests -> {"idle", "refresh", "acquire", "leased", "upstream", "release"}]
          /\ stale' \in [Requests -> SUBSET (Checks \union Tokens)]
          /\ \A q \in Requests : pc[q] = "upstream" <=> pc'[q] = "upstream"
      <3>1. CASE refreshMu \in Requests
        BY <1>18, <3>1 DEF Return
      <3>2. CASE refreshMu \notin Requests
        BY <1>18, <3>2 DEF Return
      <3> QED BY <3>1, <3>2
    <2>2. /\ snap' \in [Checks -> Check] /\ failed' \in BOOLEAN /\ step' \in Steps
          /\ refreshMu' = None /\ step' = "none" /\ cand' = None
          /\ None \notin Requests
      BY <1>18, RecordTypes DEF Return, Steps
    <2> QED BY <1>18, <2>1, <2>2 DEF Return, api, table, Maybe
  <1>19. ASSUME NEW q \in Requests, Arrive(q) PROVE TypeInv'
    BY <1>19 DEF Arrive, StaleNow, api, table, tx
  <1>20. ASSUME NEW q \in Requests, acquire(q) PROVE TypeInv'
    BY <1>20 DEF acquire, api, table, tx
  <1>21. ASSUME NEW q \in Requests, AnswerLocally(q) PROVE TypeInv'
    BY <1>21 DEF AnswerLocally, api, table, tx
  <1>22. ASSUME NEW q \in Requests, StartUpstream(q) PROVE TypeInv'
    BY <1>22 DEF StartUpstream, api, tx, Maybe
  <1>23. ASSUME NEW q \in Requests, EndUpstream(q) PROVE TypeInv'
    BY <1>23 DEF EndUpstream, api, tx, Maybe
  <1>24. ASSUME NEW q \in Requests, release(q) PROVE TypeInv'
    BY <1>24 DEF release, api, table, tx, Maybe
  <1>25. CASE StopWithdraw
    BY <1>25, RouteTypes DEF StopWithdraw, api, tx, reqs, Maybe
  <1>26. CASE StopDrained
    <2>1. routes' \in [RouteIds -> Route]
      BY <1>26, RouteUpdate DEF StopDrained
    <2> QED BY <1>26, <2>1 DEF StopDrained, api, tx, reqs, Maybe
  <1>27. CASE Restart
    <2>1. routes' \in [RouteIds -> Route] /\ snap' \in [Checks -> Check]
      BY <1>27, RecordTypes DEF Restart
    <2>2. failed' \in BOOLEAN /\ step' \in Steps
      BY <1>27 DEF Restart, Steps
    <2> QED BY <1>27, <2>1, <2>2 DEF Restart, api, Maybe
  <1> QED
    BY <1>1, <1>2, <1>3, <1>4, <1>5, <1>6, <1>7, <1>8, <1>9, <1>10, <1>11,
       <1>12, <1>13, <1>14, <1>15, <1>16, <1>17, <1>18, <1>19, <1>20, <1>21,
       <1>22, <1>23, <1>24, <1>25, <1>26, <1>27
       DEF Next, RefreshStep, RequestStep

(* Every variable of the router keeps its type, and only a request in an    *)
(* upstream call holds the inference slot (router.go:403-407), for every set *)
(* of requests, checks, tokens and revisions and every bound.               *)
THEOREM TypeCorrect == Spec => []TypeOK
  <1>1. Spec => []TypeInv
    BY TypeInit, TypeStep, PTL DEF Spec
  <1>2. TypeInv => TypeOK
    BY DEF TypeInv
  <1> QED BY <1>1, <1>2, PTL

-----------------------------------------------------------------------------
(***************************************************************************)
(* The drain handshake.                                                    *)
(***************************************************************************)

(* The transaction: what the snapshot showed as finalized still is, up to    *)
(* the acknowledgements; only checks it showed as deleting are acknowledged. *)
Tracked ==
    /\ step = "evaluate" =>
          \A c \in Checks : snap[c].phase = "live" /\ snap[c].drain => ~Drained(c)
    /\ cand # None => ~Drained(cand)
    /\ cand # None /\ step # "secret" => candToken # None
    /\ \A c \in deleting : snap[c].phase = "deleting"

(* The route table: the active route and the one replace waits for belong    *)
(* to finalized checks; after the swap the active route is the new one.      *)
Published ==
    /\ active # None => /\ routes[active].check \in Checks
                        /\ ~Drained(routes[active].check)
                        /\ routes[active].token # None
                        /\ active # runPrev
    /\ step = "drain" => /\ prev # None
                         /\ prev # active
                         /\ routes[prev].check \in Checks
                         /\ ~Drained(routes[prev].check)
    /\ step \in {"drain", "ack"} /\ active # None => routes[active].check = cand

(* The leases: until Run stops, on the active route or on the one replace    *)
(* waits for; never on an erased token.                                      *)
Leased ==
    /\ run = "running" =>
          \A q \in Requests : \/ lease[q] \in {None, active}
                              \/ step = "drain" /\ lease[q] = prev
    /\ \A q \in Requests : lease[q] # None => routes[lease[q]].token # None

DrainInv == TypeInv /\ Tracked /\ Published /\ Leased

(* At first there is no route and no lease. *)
LEMMA DrainInit == Init => DrainInv
  <1> SUFFICES ASSUME Init PROVE DrainInv
    OBVIOUS
  <1>1. Tracked
    BY DEF Init, Tracked
  <1>2. Published
    BY DEF Init, Published
  <1>3. Leased
    BY DEF Init, Leased
  <1> QED BY <1>1, <1>2, <1>3, TypeInit DEF DrainInv

(* No writer but the router takes the drain finalizer off a check. *)
LEMMA APIKeepsFinalizer ==
    ASSUME TypeOK, APIStep, NEW d \in Checks, ~Drained(d)
    PROVE  ~Drained(d)'
  <1> USE DEF Drained, TypeOK
  <1>d. checks[d].phase # "absent" /\ checks[d].drain
    OBVIOUS
  <1>1. ASSUME NEW c \in Checks, CreateCheck(c) PROVE ~Drained(d)'
    BY <1>1, <1>d DEF CreateCheck, WriteCheck
  <1>2. ASSUME NEW c \in Checks, AddDrainFinalizer(c) PROVE ~Drained(d)'
    BY <1>2, <1>d DEF AddDrainFinalizer, WriteCheck
  <1>3. ASSUME NEW c \in Checks, Admit(c) PROVE ~Drained(d)'
    BY <1>3, <1>d DEF Admit, WriteCheck, Check
  <1>4. ASSUME NEW c \in Checks, WithdrawAdmission(c) PROVE ~Drained(d)'
    BY <1>4, <1>d DEF WithdrawAdmission, WriteCheck, Check
  <1>5. ASSUME NEW c \in Checks, DeleteCheck(c) PROVE ~Drained(d)'
    <2>1. CASE c # d
      BY <1>5, <1>d, <2>1 DEF DeleteCheck, WriteCheck
    <2>2. CASE c = d
      <3>1. WriteCheck(d, [checks[d] EXCEPT !.phase = "deleting"])
        BY <1>5, <1>d, <2>2 DEF DeleteCheck
      <3>2. checks'[d] = [checks[d] EXCEPT !.phase = "deleting",
                                           !.rv = checks[d].rv + 1]
        BY <3>1 DEF WriteCheck
      <3> QED BY <3>2, <1>d DEF Check
    <2> QED BY <2>1, <2>2
  <1>6. ASSUME NEW c \in Checks, Vanish(c) PROVE ~Drained(d)'
    BY <1>6, <1>d DEF Vanish, WriteCheck
  <1>7. ASSUME NEW c \in Checks, ChangeEndpoint(c) PROVE ~Drained(d)'
    BY <1>7, <1>d DEF ChangeEndpoint
  <1>8. CASE WriteSecret
    BY <1>8, <1>d DEF WriteSecret
  <1> QED
    BY <1>1, <1>2, <1>3, <1>4, <1>5, <1>6, <1>7, <1>8 DEF APIStep

(* Steps that leave the checks, the route table and the transaction alone,  *)
(* and take no lease that is not on the active route.                       *)
LEMMA RequestKeepsDrainInv ==
    ASSUME DrainInv, RequestStep
    PROVE  (Tracked /\ Published /\ Leased)'
  <1> USE DEF DrainInv, Tracked, Published, Leased, Drained
  <1>1. ASSUME NEW q \in Requests, Arrive(q) PROVE (Tracked /\ Published /\ Leased)'
    BY <1>1 DEF Arrive, api, table, tx
  <1>2. ASSUME NEW q \in Requests, acquire(q) PROVE (Tracked /\ Published /\ Leased)'
    BY <1>2 DEF acquire, api, table, tx, TypeInv, TypeOK
  <1>3. ASSUME NEW q \in Requests, AnswerLocally(q) PROVE (Tracked /\ Published /\ Leased)'
    BY <1>3 DEF AnswerLocally, api, table, tx
  <1>4. ASSUME NEW q \in Requests, StartUpstream(q) PROVE (Tracked /\ Published /\ Leased)'
    BY <1>4 DEF StartUpstream, api, tx
  <1>5. ASSUME NEW q \in Requests, EndUpstream(q) PROVE (Tracked /\ Published /\ Leased)'
    BY <1>5 DEF EndUpstream, api, tx
  <1>6. ASSUME NEW q \in Requests, release(q) PROVE (Tracked /\ Published /\ Leased)'
    BY <1>6 DEF release, api, table, tx, TypeInv, TypeOK
  <1> QED BY <1>1, <1>2, <1>3, <1>4, <1>5, <1>6 DEF RequestStep

(* The reads of Refresh, before the route table is touched. *)
LEMMA ReadsKeepDrainInv ==
    ASSUME DrainInv,
           \/ \E p \in Procs : Lock(p)
           \/ ListChecks \/ ListFails \/ Evaluate \/ ReadSecret
           \/ ReadSecretFails \/ RecheckEndpoint \/ Relist
    PROVE  (Tracked /\ Published /\ Leased)'
  <1> USE DEF DrainInv, Tracked, Published, Leased, TypeInv, RefreshInv
  <1>0. \A c : UNCHANGED checks => (Drained(c)' <=> Drained(c))
    BY DEF Drained
  <1>1. ASSUME NEW p \in Procs, Lock(p) PROVE (Tracked /\ Published /\ Leased)'
    BY <1>1, <1>0 DEF Lock, api, table, reqs
  <1>2. CASE ListChecks
    BY <1>2 DEF ListChecks, Drained, api, table, reqs
  <1>3. CASE ListFails
    BY <1>3, <1>0 DEF ListFails, Fail, api, table, reqs
  <1>4. CASE Evaluate
    <2>1. cand' # None => cand' \in Checks /\ snap[cand'].phase = "live" /\ snap[cand'].drain
      BY <1>4 DEF Evaluate, Eligible, TypeOK
    <2> QED BY <1>4, <1>0, <2>1 DEF Evaluate, api, table, reqs
  <1>5. CASE ReadSecret
    BY <1>5, <1>0 DEF ReadSecret, api, table, reqs
  <1>6. CASE ReadSecretFails
    BY <1>6, <1>0 DEF ReadSecretFails, api, table, reqs
  <1>7. CASE RecheckEndpoint
    BY <1>7, <1>0 DEF RecheckEndpoint, api, table, reqs
  <1>8. CASE Relist
    BY <1>8, <1>0 DEF Relist, Fail, api, table, reqs
  <1> QED BY <1>1, <1>2, <1>3, <1>4, <1>5, <1>6, <1>7, <1>8

(* replace: the swap hands the leases of the active route to prev, and the  *)
(* wait lets go of prev only without leases.                                *)
LEMMA ReplaceKeepsDrainInv ==
    ASSUME DrainInv, ReplaceKeeps \/ ReplaceSwaps \/ ReplaceDrained
    PROVE  (Tracked /\ Published /\ Leased)'
  <1> USE DEF DrainInv, Tracked, Published, Leased, TypeInv, RefreshInv
  <1>0. \A c : UNCHANGED checks => (Drained(c)' <=> Drained(c))
    BY DEF Drained
  <1>1. CASE ReplaceKeeps
    BY <1>1, <1>0 DEF ReplaceKeeps, routesEquivalent, AfterReplace, api, table, reqs
  <1>2. ASSUME ReplaceSwaps, cand # None PROVE (Tracked /\ Published /\ Leased)'
    <2>1. /\ newRoute \in RouteIds /\ newRoute \notin {active, prev, runPrev}
          /\ \A q \in Requests : lease[q] # newRoute
      BY <1>2, RouteTypes DEF ReplaceSwaps, FreeRoutes, inflight
    <2>2. routes'[newRoute] = candRoute /\ active' = newRoute
      BY <1>2, <2>1 DEF ReplaceSwaps
    <2>3. routes'[newRoute].check = cand /\ routes'[newRoute].token = candToken
      BY <2>2 DEF candRoute
    <2>4. \A r \in RouteIds \ {newRoute} : /\ routes'[r].check = routes[r].check
                                           /\ routes'[r].token = routes[r].token
      BY <1>2 DEF ReplaceSwaps, Cancelled, TypeOK, Route
    <2>5. Tracked'
      BY <1>2, <1>0 DEF ReplaceSwaps, AfterReplace, api
    <2>6. cand \in Checks /\ candToken # None
      BY <1>2 DEF ReplaceSwaps, TypeOK, Maybe
    <2>7. Published'
      BY <1>2, <1>0, <2>1, <2>2, <2>3, <2>4, <2>6 DEF ReplaceSwaps, AfterReplace, api, TypeOK, Maybe
    <2>8. Leased'
      BY <1>2, <2>1, <2>4 DEF ReplaceSwaps, AfterReplace, reqs, TypeOK, Maybe
    <2> QED BY <2>5, <2>7, <2>8
  <1>3. ASSUME ReplaceSwaps, cand = None PROVE (Tracked /\ Published /\ Leased)'
    <2>1. active' = None /\ active \in RouteIds /\ prev' = active /\ step' = "drain"
      BY <1>3 DEF ReplaceSwaps, TypeOK, Maybe
    <2>2. \A r \in RouteIds : /\ routes'[r].check = routes[r].check
                              /\ routes'[r].token = routes[r].token
      BY <1>3 DEF ReplaceSwaps, Cancelled, TypeOK, Route
    <2> QED BY <1>3, <1>0, <2>1, <2>2 DEF ReplaceSwaps, api, reqs, TypeOK, Maybe
  <1>4. CASE ReplaceDrained
    <2>1. /\ active' = active /\ \A q \in Requests : lease'[q] = lease[q] /\ lease[q] # prev
          /\ step' # "drain" /\ step' \in {"ack", "return"} /\ run' = run
      BY <1>4 DEF ReplaceDrained, AfterReplace, reqs, inflight
    <2>2. \A r \in RouteIds : /\ routes'[r].check = routes[r].check
                              /\ r # prev => routes'[r].token = routes[r].token
      BY <1>4 DEF ReplaceDrained, TypeOK, Route
    <2>3. Tracked'
      BY <1>4, <1>0 DEF ReplaceDrained, AfterReplace, api
    <2>4. Published'
      BY <1>4, <1>0, <2>1, <2>2 DEF ReplaceDrained, api, TypeOK, Maybe
    <2>5. ASSUME NEW q \in Requests, lease'[q] # None
          PROVE  routes'[lease'[q]].token # None
      <3>1. lease'[q] = lease[q] /\ lease[q] # prev
        BY <2>1
      <3>2. lease[q] \in RouteIds
        BY <2>5, <3>1 DEF TypeOK, Maybe
      <3>3. routes'[lease[q]].token = routes[lease[q]].token
        BY <2>2, <3>1, <3>2
      <3> QED BY <2>5, <3>1, <3>3
    <2>6. \A q \in Requests : run = "running" => lease'[q] \in {None, active'}
      BY <2>1
    <2> QED BY <2>1, <2>3, <2>4, <2>5, <2>6
  <1> QED BY <1>1, <1>2, <1>3, <1>4

(* Acknowledging takes the finalizer off a check of deleting, which is      *)
(* neither the picked check nor the one of the active route.                *)
LEMMA AckKeepsDrainInv ==
    ASSUME DrainInv,
           \/ \E c \in Checks : AckDrain(c) \/ AckSkips(c) \/ AckFails(c)
           \/ AckDone \/ Return
    PROVE  (Tracked /\ Published /\ Leased)'
  <1> USE DEF DrainInv, Tracked, Published, Leased, TypeInv, RefreshInv
  <1>0. \A c : UNCHANGED checks => (Drained(c)' <=> Drained(c))
    BY DEF Drained
  <1>1. ASSUME NEW c \in Checks, AckDrain(c) PROVE (Tracked /\ Published /\ Leased)'
    <2>1. \A d \in Checks \ {c} : Drained(d)' <=> Drained(d)
      BY <1>1 DEF AckDrain, Drained, TypeOK
    <2>2. cand # c
      BY <1>1 DEF AckDrain
    <2>3. active # None => routes[active].check # c
      BY <1>1, <2>2 DEF AckDrain
    <2> QED BY <1>1, <2>1, <2>2, <2>3 DEF AckDrain, table, reqs, TypeOK, Maybe
  <1>2. ASSUME NEW c \in Checks, AckSkips(c) PROVE (Tracked /\ Published /\ Leased)'
    BY <1>2, <1>0 DEF AckSkips, api, table, reqs
  <1>3. ASSUME NEW c \in Checks, AckFails(c) PROVE (Tracked /\ Published /\ Leased)'
    BY <1>3, <1>0 DEF AckFails, api, table, reqs
  <1>4. CASE AckDone
    BY <1>4, <1>0 DEF AckDone, api, table, reqs
  <1>5. CASE Return
    BY <1>5, <1>0 DEF Return, api, table
  <1> QED BY <1>1, <1>2, <1>3, <1>4, <1>5

(* Run's withdrawal, and the death of the process. *)
LEMMA StopKeepsDrainInv ==
    ASSUME DrainInv, StopWithdraw \/ StopDrained \/ Restart
    PROVE  (Tracked /\ Published /\ Leased)'
  <1> USE DEF DrainInv, Tracked, Published, Leased, TypeInv, RefreshInv
  <1>0. \A c : UNCHANGED checks => (Drained(c)' <=> Drained(c))
    BY DEF Drained
  <1>1. CASE StopWithdraw
    <2>1. \A r \in RouteIds : /\ routes'[r].check = routes[r].check
                              /\ routes'[r].token = routes[r].token
      BY <1>1 DEF StopWithdraw, Cancelled, TypeOK, Route
    <2> QED BY <1>1, <1>0, <2>1 DEF StopWithdraw, api, tx, reqs, TypeOK, Maybe
  <1>2. CASE StopDrained
    <2>1. \A r \in RouteIds : /\ routes'[r].check = routes[r].check
                              /\ r # runPrev => routes'[r].token = routes[r].token
      BY <1>2 DEF StopDrained, TypeOK, Route
    <2>2. \A q \in Requests : lease[q] # runPrev
      BY <1>2 DEF StopDrained, inflight
    <2> QED BY <1>2, <1>0, <2>1, <2>2 DEF StopDrained, api, tx, reqs, TypeOK, Maybe
  <1>3. CASE Restart
    BY <1>3 DEF Restart
  <1> QED BY <1>1, <1>2, <1>3

(* No writer at the API server takes the finalizer from a check in use. *)
LEMMA APIKeepsDrainInv ==
    ASSUME DrainInv, APIStep
    PROVE  (Tracked /\ Published /\ Leased)'
  <1>1. WorldStep
    BY APITypes DEF DrainInv, TypeInv
  <1>2. \A d \in Checks : ~Drained(d) => ~Drained(d)'
    BY APIKeepsFinalizer DEF DrainInv, TypeInv
  <1> QED
    BY <1>1, <1>2 DEF DrainInv, TypeInv, TypeOK, Maybe, Tracked, Published, Leased,
       WorldStep, table, tx

(* Every step preserves the drain invariant. *)
LEMMA DrainStep == DrainInv /\ [Next]_vars => DrainInv'
  <1> SUFFICES ASSUME DrainInv, [Next]_vars PROVE DrainInv'
    OBVIOUS
  <1>1. TypeInv'
    BY TypeStep DEF DrainInv
  <1>2. (Tracked /\ Published /\ Leased)'
    <2>1. CASE UNCHANGED vars
      BY <2>1 DEF vars, DrainInv, Tracked, Published, Leased, Drained
    <2>2. CASE Next
      BY <2>2, APIKeepsDrainInv, RequestKeepsDrainInv, ReadsKeepDrainInv,
         ReplaceKeepsDrainInv, AckKeepsDrainInv, StopKeepsDrainInv
         DEF Next, RefreshStep
    <2> QED BY <2>1, <2>2
  <1> QED BY <1>1, <1>2 DEF DrainInv

(* The drain invariant holds throughout. *)
LEMMA DrainCorrect == Spec => []DrainInv
  BY DrainInit, DrainStep, PTL DEF Spec

(* Until Run is told to stop, no lease outlives the drain finalizer of its  *)
(* check, for any number of requests and checks.                            *)
THEOREM FinalizerHeld == Spec => []LeaseHoldsFinalizerWhileRunning
  <1>1. DrainInv => LeaseHoldsFinalizerWhileRunning
    BY DEF DrainInv, TypeInv, TypeOK, Published, Leased,
           LeaseHoldsFinalizerWhileRunning, LeaseHoldsFinalizer
  <1> QED BY <1>1, DrainCorrect, PTL

(* A token is erased only when no request holds a lease on its route, also  *)
(* while Run's own withdrawal and a refresh wait at the same time.          *)
THEOREM TokenSafe == Spec => []TokenOutlivesLease
  <1>1. DrainInv => TokenOutlivesLease
    BY DEF DrainInv, Leased, TokenOutlivesLease
  <1> QED BY <1>1, DrainCorrect, PTL

(* Between two refreshes every lease is on the active route. *)
THEOREM WithdrawnIdle == Spec => []WithdrawnMeansIdle
  <1>1. DrainInv => WithdrawnMeansIdle
    BY DEF DrainInv, TypeInv, RefreshInv, Leased, WithdrawnMeansIdle
  <1> QED BY <1>1, DrainCorrect, PTL

-----------------------------------------------------------------------------
(***************************************************************************)
(* What a request may work with.                                           *)
(***************************************************************************)

(* Until the second list, a check that differs from the snapshot has a       *)
(* newer resourceVersion than in it, so the difference does not go away.     *)
Reading == step \in {"evaluate", "secret", "recheck", "relist"}

SnapInv ==
    Reading => \A c \in Checks : snap[c].rv < checks[c].rv \/ snap[c] = checks[c]

(* Requests that arrived before the running transaction began: the one it    *)
(* runs for, and those whose own transaction is over.                        *)
Before(q) == pc[q] = "acquire" \/ refreshMu = q

(* What such a request holds against a check or a token is still true. *)
StaleInv == \A q \in Requests : stale[q] \subseteq StaleNow

(* A picked check was usable when it was picked, unless the second list will *)
(* find it changed; a token was in use when it was read.                     *)
PickedInv ==
    cand # None => \A q \in Requests : Before(q) =>
        /\ ~Reading \/ snap[cand] = checks[cand] => cand \notin stale[q]
        /\ step # "secret" => candToken \notin stale[q]

(* From the swap to the return, the active route is the picked one. *)
CommittedInv ==
    step \in {"drain", "ack", "return"} /\ cand # None /\ active # None =>
        routes[active].check = cand /\ routes[active].token = candToken

Usable(q, r) == routes[r].check \notin stale[q] /\ routes[r].token \notin stale[q]

UsableInv ==
    \A q \in Requests :
        /\ pc[q] = "acquire" /\ active # None => Usable(q, active)
        /\ lease[q] # None => Usable(q, lease[q])

(* A request holds refreshMu only in its own Refresh, and a lease only after  *)
(* acquire.                                                                  *)
RequestInv ==
    \A q \in Requests :
        /\ refreshMu = q => pc[q] = "refresh"
        /\ pc[q] \in {"idle", "refresh", "acquire"} => lease[q] = None

FreshInv ==
    SnapInv /\ StaleInv /\ PickedInv /\ CommittedInv /\ UsableInv /\ RequestInv

(* At first nothing is stale. *)
LEMMA FreshInit == Init => FreshInv
  BY DEF Init, FreshInv, SnapInv, StaleInv, PickedInv, CommittedInv, UsableInv,
     RequestInv, Reading

(* Every write gives a check a newer resourceVersion, and what has become    *)
(* usable is struck off the requests' lists.                                 *)
LEMMA APIVersions ==
    ASSUME TypeOK, APIStep, NEW c \in Checks
    PROVE  checks'[c] = checks[c] \/ checks[c].rv < checks'[c].rv
  <1> USE DEF TypeOK
  <1>w. ASSUME NEW d \in Checks, NEW new \in Check, WriteCheck(d, new)
        PROVE  checks'[c] = checks[c] \/ checks[c].rv < checks'[c].rv
    <2>1. checks[d].rv \in Nat
      BY DEF Check
    <2>2. checks'[d].rv = checks[d].rv + 1
      BY <1>w DEF WriteCheck, Check
    <2> QED BY <1>w, <2>1, <2>2 DEF WriteCheck
  <1>1. ASSUME NEW d \in Checks, NEW new, WriteCheck(d, new), new \in Check
        PROVE  checks'[c] = checks[c] \/ checks[c].rv < checks'[c].rv
    BY <1>1, <1>w
  <1>2. CASE \E d \in Checks : CreateCheck(d) \/ AddDrainFinalizer(d)
    <2>1. PICK d \in Checks : CreateCheck(d) \/ AddDrainFinalizer(d)
      BY <1>2
    <2>2. /\ [NoCheck EXCEPT !.phase = "live"] \in Check
          /\ [checks[d] EXCEPT !.drain = TRUE] \in Check
      BY RecordTypes, CheckUpdate
    <2> QED BY <2>1, <2>2, <1>w DEF CreateCheck, AddDrainFinalizer
  <1>3. ASSUME NEW d \in Checks, Admit(d)
        PROVE  checks'[c] = checks[c] \/ checks[c].rv < checks'[c].rv
    <2>1. PICK e \in Revisions, v \in 0 .. secret.rv :
             WriteCheck(d, [checks[d] EXCEPT !.admitted = TRUE, !.endpoint = e,
                                             !.secretRV = v])
      BY <1>3 DEF Admit
    <2>2. [checks[d] EXCEPT !.admitted = TRUE, !.endpoint = e, !.secretRV = v]
             \in Check
      <3>1. v \in Nat
        OBVIOUS
      <3> QED BY <3>1, CheckUpdate
    <2> QED BY <1>w, <2>1, <2>2
  <1>4. CASE \E d \in Checks : WithdrawAdmission(d) \/ DeleteCheck(d) \/ Vanish(d)
    <2>1. PICK d \in Checks : WithdrawAdmission(d) \/ DeleteCheck(d) \/ Vanish(d)
      BY <1>4
    <2>2. /\ [checks[d] EXCEPT !.admitted = FALSE] \in Check
          /\ [checks[d] EXCEPT !.phase = "deleting"] \in Check
          /\ NoCheck \in Check
      BY RecordTypes, CheckUpdate
    <2> QED BY <2>1, <2>2, <1>w DEF WithdrawAdmission, DeleteCheck, Vanish
  <1>5. CASE WriteSecret \/ \E d \in Checks : ChangeEndpoint(d)
    BY <1>5 DEF WriteSecret, ChangeEndpoint
  <1> QED BY <1>2, <1>3, <1>4, <1>5 DEF APIStep

(* The API server's steps: the lists only get shorter, and a check that      *)
(* changed is found changed.                                                 *)
LEMMA APIKeepsFresh ==
    ASSUME DrainInv, FreshInv, APIStep
    PROVE  FreshInv'
  <1> USE DEF DrainInv, TypeInv, FreshInv
  <1>1. WorldStep
    BY APITypes
  <1>2. \A q \in Requests : stale'[q] = stale[q] \intersect StaleNow'
    BY <1>1 DEF WorldStep
  <1>3. UNCHANGED <<refreshMu, active, routes, step, snap, cand, candToken, pc, lease>>
    BY <1>1 DEF WorldStep, table, tx
  <1>4. \A c \in Checks : checks'[c] = checks[c] \/ checks[c].rv < checks'[c].rv
    BY APIVersions
  <1>5. SnapInv'
    <2> SUFFICES ASSUME Reading, NEW c \in Checks
                 PROVE  snap[c].rv < checks'[c].rv \/ snap[c] = checks'[c]
      BY <1>3 DEF SnapInv, Reading
    <2>1. snap[c].rv \in Nat /\ checks[c].rv \in Nat
      BY DEF TypeOK, Check
    <2>2. checks'[c].rv \in Nat
      BY APITypes DEF Check
    <2> QED BY <1>4, <2>1, <2>2 DEF SnapInv
  <1>6. StaleInv'
    BY <1>2 DEF StaleInv
  <1>7. PickedInv'
    <2> SUFFICES ASSUME cand # None, NEW q \in Requests, Before(q)
                 PROVE  /\ ~Reading \/ snap[cand] = checks'[cand] => cand \notin stale'[q]
                        /\ step # "secret" => candToken \notin stale'[q]
      BY <1>3 DEF PickedInv, Before, Reading
    <2>1. cand \in Checks
      BY DEF TypeOK, Maybe
    <2>2. Reading /\ snap[cand] = checks'[cand] => snap[cand] = checks[cand]
      <3>1. snap[cand].rv \in Nat /\ checks[cand].rv \in Nat
        BY <2>1 DEF TypeOK, Check
      <3> QED BY <1>4, <2>1, <3>1 DEF SnapInv
    <2> QED BY <1>2, <2>2 DEF PickedInv
  <1>8. CommittedInv'
    BY <1>3 DEF CommittedInv
  <1>9. UsableInv'
    BY <1>2, <1>3 DEF UsableInv, Usable
  <1>10. RequestInv'
    BY <1>3 DEF RequestInv
  <1> QED BY <1>5, <1>6, <1>7, <1>8, <1>9, <1>10

(* A request's list is true when it arrives; it leases the active route. *)
LEMMA RequestKeepsFresh ==
    ASSUME DrainInv, FreshInv, RequestStep
    PROVE  FreshInv'
  <1> USE DEF DrainInv, TypeInv, TypeOK, FreshInv
  <1>0. UNCHANGED <<checks, endpoint, secret, refreshMu, active, routes, step,
                    snap, cand, candToken>>
    BY DEF RequestStep, Arrive, acquire, AnswerLocally, StartUpstream, EndUpstream,
           release, api, table, tx
  <1>1. PICK q \in Requests : Arrive(q) \/ acquire(q) \/ AnswerLocally(q)
                              \/ StartUpstream(q) \/ EndUpstream(q) \/ release(q)
    BY DEF RequestStep
  <1>2. StaleNow' = StaleNow
    BY <1>0 DEF StaleNow
  <1>3. SnapInv' /\ CommittedInv'
    BY <1>0 DEF SnapInv, CommittedInv, Reading
  <1>4. \A p \in Requests \ {q} : /\ pc'[p] = pc[p] /\ stale'[p] = stale[p]
                                  /\ lease'[p] = lease[p]
    BY <1>1 DEF Arrive, acquire, AnswerLocally, StartUpstream, EndUpstream, release
  <1>5. refreshMu # q /\ pc'[q] # "acquire"
    BY <1>1 DEF Arrive, acquire, AnswerLocally, StartUpstream, EndUpstream, release,
                RequestInv
  <1>6. stale'[q] \in {StaleNow, stale[q], {}}
    BY <1>1 DEF Arrive, acquire, AnswerLocally, StartUpstream, EndUpstream, release
  <1>7. StaleInv'
    BY <1>2, <1>4, <1>6 DEF StaleInv
  <1>8. PickedInv'
    BY <1>0, <1>4, <1>5 DEF PickedInv, Before, Reading
  <1>9. RequestInv'
    <2>1. pc'[q] \in {"idle", "refresh"} => lease'[q] = None
      BY <1>1 DEF Arrive, acquire, AnswerLocally, StartUpstream, EndUpstream, release,
                  RequestInv
    <2> QED BY <1>0, <1>4, <1>5, <2>1 DEF RequestInv
  <1>10. lease'[q] # None => Usable(q, lease[q])'
    <2>1. CASE acquire(q)
      BY <1>0, <2>1 DEF acquire, UsableInv, Usable
    <2>2. CASE ~acquire(q)
      <3>1. lease'[q] # None => lease'[q] = lease[q] /\ stale'[q] = stale[q]
        BY <1>1, <2>2 DEF Arrive, AnswerLocally, StartUpstream, EndUpstream, release,
                          RequestInv
      <3> QED BY <1>0, <3>1 DEF UsableInv, Usable
    <2> QED BY <2>1, <2>2
  <1>11. UsableInv'
    <2>1. ASSUME NEW p \in Requests \ {q}
          PROVE  /\ pc'[p] = "acquire" /\ active' # None => Usable(p, active)'
                 /\ lease'[p] # None => Usable(p, lease[p])'
      BY <1>0, <1>4 DEF UsableInv, Usable
    <2> QED BY <1>5, <1>10, <2>1 DEF UsableInv
  <1> QED BY <1>3, <1>7, <1>8, <1>9, <1>11

(* The reads of Refresh.  A check or a token read now is on nobody's list,   *)
(* and the second list confirms the check.                                   *)
LEMMA ReadsKeepFresh ==
    ASSUME DrainInv, FreshInv,
           \/ \E p \in Procs : Lock(p)
           \/ ListChecks \/ ListFails \/ Evaluate \/ ReadSecret
           \/ ReadSecretFails \/ RecheckEndpoint \/ Relist
    PROVE  FreshInv'
  <1> USE DEF DrainInv, TypeInv, TypeOK, RefreshInv, FreshInv
  <1>0. UNCHANGED <<checks, endpoint, secret, active, routes, pc, lease, stale>>
    BY DEF Lock, ListChecks, ListFails, Evaluate, ReadSecret, ReadSecretFails,
           RecheckEndpoint, Relist, api, table, reqs
  <1>1. step' \in {"list", "evaluate", "secret", "recheck", "relist", "swap"}
    BY DEF Lock, ListChecks, ListFails, Fail, Evaluate, ReadSecret, ReadSecretFails,
           RecheckEndpoint, Relist
  <1>2. StaleInv' /\ UsableInv'
    BY <1>0 DEF StaleInv, StaleNow, UsableInv, Usable
  <1>3. CommittedInv'
    BY <1>1 DEF CommittedInv
  <1>4. RequestInv'
    <2>1. CASE \E p \in Procs : Lock(p)
      BY <1>0, <2>1 DEF Lock, Procs, RequestInv
    <2>2. CASE ~\E p \in Procs : Lock(p)
      BY <1>0, <2>2 DEF ListChecks, ListFails, Evaluate, ReadSecret, ReadSecretFails,
                        RecheckEndpoint, Relist, RequestInv
    <2> QED BY <2>1, <2>2
  <1>5. SnapInv'
    <2>1. CASE ListChecks
      BY <1>0, <2>1 DEF ListChecks, SnapInv
    <2>2. CASE ~ListChecks /\ Reading'
      <3>1. Reading /\ snap' = snap
        BY <2>2 DEF Lock, ListFails, Fail, Evaluate, ReadSecret, ReadSecretFails,
                    RecheckEndpoint, Relist, Reading
      <3> QED BY <1>0, <3>1 DEF SnapInv
    <2> QED BY <2>1, <2>2 DEF SnapInv
  <1>6. PickedInv'
    <2>1. CASE \E p \in Procs : Lock(p)
      BY <2>1 DEF Lock, PickedInv
    <2>2. CASE ListChecks \/ ListFails \/ ReadSecretFails
      BY <2>2 DEF ListChecks, ListFails, Fail, ReadSecretFails, PickedInv
    <2>3. CASE Evaluate
      <3> SUFFICES ASSUME cand' # None, NEW q \in Requests,
                          snap[cand'] = checks[cand']
                   PROVE  step' = "secret" /\ cand' \notin stale[q]
        BY <1>0, <2>3 DEF Evaluate, PickedInv, Reading
      <3>1. /\ cand' \in Checks /\ snap[cand'].phase = "live" /\ step' = "secret"
            /\ endpoint[cand'] # None
        BY <2>3 DEF Evaluate, Eligible, endpointRevisionMatches
      <3>2. cand' \notin StaleNow
        BY <3>1 DEF StaleNow
      <3> QED BY <3>1, <3>2 DEF StaleInv
    <2>4. CASE ReadSecret
      <3>1. candToken' \notin StaleNow /\ candToken' \in Tokens
        BY <2>4 DEF ReadSecret, StaleNow, Maybe
      <3>2. \A q \in Requests : candToken' \notin stale[q]
        BY <3>1 DEF StaleInv
      <3> QED BY <1>0, <2>4, <3>2 DEF ReadSecret, PickedInv, Before, Reading
    <2>5. CASE RecheckEndpoint
      BY <1>0, <2>5 DEF RecheckEndpoint, PickedInv, Before, Reading
    <2>6. CASE Relist
      BY <1>0, <2>6 DEF Relist, Fail, PickedInv, Before, Reading
    <2> QED BY <2>1, <2>2, <2>3, <2>4, <2>5, <2>6
  <1> QED BY <1>2, <1>3, <1>4, <1>5, <1>6

(* replace publishes the picked check and token, and nobody leases the route *)
(* whose token it erases.                                                    *)
LEMMA ReplaceKeepsFresh ==
    ASSUME DrainInv, FreshInv, ReplaceKeeps \/ ReplaceSwaps \/ ReplaceDrained
    PROVE  FreshInv'
  <1> USE DEF DrainInv, TypeInv, TypeOK, RefreshInv, FreshInv
  <1>0. UNCHANGED <<checks, endpoint, secret, refreshMu, snap, cand, candToken,
                    pc, lease, stale>>
    BY DEF ReplaceKeeps, ReplaceSwaps, ReplaceDrained, api, reqs
  <1>1. step \in {"swap", "drain"} /\ step' \in {"drain", "ack", "return"}
    BY DEF ReplaceKeeps, ReplaceSwaps, ReplaceDrained, AfterReplace
  <1>2. SnapInv' /\ StaleInv' /\ RequestInv'
    BY <1>0, <1>1 DEF SnapInv, Reading, StaleInv, StaleNow, RequestInv
  <1>3. PickedInv'
    BY <1>0, <1>1 DEF PickedInv, Before, Reading
  <1>4. CASE ReplaceKeeps
    <2>1. CommittedInv'
      BY <1>0, <1>4 DEF ReplaceKeeps, routesEquivalent, CommittedInv, table
    <2>2. UsableInv'
      BY <1>0, <1>4 DEF ReplaceKeeps, UsableInv, Usable, table
    <2> QED BY <1>2, <1>3, <2>1, <2>2
  <1>5. ASSUME ReplaceSwaps, cand # None PROVE FreshInv'
    <2>1. /\ newRoute \in RouteIds /\ newRoute \notin {active, prev, runPrev}
          /\ \A q \in Requests : lease[q] # newRoute
      BY <1>5, RouteTypes DEF ReplaceSwaps, FreeRoutes, inflight
    <2>2. /\ active' = newRoute
          /\ routes'[newRoute].check = cand /\ routes'[newRoute].token = candToken
      BY <1>5, <2>1 DEF ReplaceSwaps, candRoute
    <2>3. \A r \in RouteIds \ {newRoute} : /\ routes'[r].check = routes[r].check
                                           /\ routes'[r].token = routes[r].token
      BY <1>5 DEF ReplaceSwaps, Cancelled, Route
    <2>4. CommittedInv'
      BY <1>0, <2>2 DEF CommittedInv
    <2>5. ASSUME NEW q \in Requests, pc[q] = "acquire" PROVE Usable(q, active)'
      BY <1>0, <1>1, <1>5, <2>2, <2>5 DEF ReplaceSwaps, PickedInv, Before, Reading, Usable
    <2>6. ASSUME NEW q \in Requests, lease[q] # None PROVE Usable(q, lease[q])'
      <3>1. lease[q] \in RouteIds \ {newRoute}
        BY <2>1, <2>6 DEF Maybe
      <3> QED BY <1>0, <2>3, <2>6, <3>1 DEF UsableInv, Usable
    <2>7. UsableInv'
      BY <1>0, <2>5, <2>6 DEF UsableInv
    <2> QED BY <1>2, <1>3, <2>4, <2>7
  <1>6. ASSUME ReplaceSwaps, cand = None PROVE FreshInv'
    <2>1. active' = None
      BY <1>6 DEF ReplaceSwaps
    <2>2. \A r \in RouteIds : /\ routes'[r].check = routes[r].check
                              /\ routes'[r].token = routes[r].token
      BY <1>6 DEF ReplaceSwaps, Cancelled, Route, Maybe
    <2>3. UsableInv'
      BY <1>0, <2>1, <2>2 DEF UsableInv, Usable, Maybe
    <2> QED BY <1>2, <1>3, <2>1, <2>3 DEF CommittedInv
  <1>7. CASE ReplaceDrained
    <2>1. active' = active /\ step = "drain" /\ \A q \in Requests : lease[q] # prev
      BY <1>7 DEF ReplaceDrained, inflight
    <2>2. \A r \in RouteIds \ {prev} : /\ routes'[r].check = routes[r].check
                                       /\ routes'[r].token = routes[r].token
      BY <1>7 DEF ReplaceDrained
    <2>3. active # prev
      BY <2>1 DEF Published
    <2>4. CommittedInv'
      BY <1>0, <2>1, <2>2, <2>3 DEF CommittedInv, Maybe
    <2>5. UsableInv'
      BY <1>0, <2>1, <2>2, <2>3 DEF UsableInv, Usable, Maybe
    <2> QED BY <1>2, <1>3, <2>4, <2>5
  <1> QED BY <1>4, <1>5, <1>6, <1>7

(* The acknowledgements make nothing usable; a request that returns goes on   *)
(* with the route its own transaction committed.                             *)
LEMMA AckKeepsFresh ==
    ASSUME DrainInv, FreshInv,
           \/ \E c \in Checks : AckDrain(c) \/ AckSkips(c) \/ AckFails(c)
           \/ AckDone \/ Return
    PROVE  FreshInv'
  <1> USE DEF DrainInv, TypeInv, TypeOK, RefreshInv, FreshInv
  <1>1. UNCHANGED <<endpoint, secret, active, routes, lease>> /\ ~Reading'
    BY DEF AckDrain, AckSkips, AckFails, AckDone, Return, api, table, reqs, Reading
  <1>2. StaleNow \subseteq StaleNow'
    <2>1. \A c \in Checks : checks[c].phase # "live" => checks'[c].phase # "live"
      <3>1. ASSUME NEW d \in Checks, AckDrain(d)
            PROVE  \A c \in Checks : checks[c].phase # "live" => checks'[c].phase # "live"
        <4>1. checks'[d].phase \in {"absent", checks[d].phase}
          <5>1. PICK last \in BOOLEAN : checks'[d] =
                   IF last THEN [NoCheck EXCEPT !.rv = checks[d].rv + 1]
                   ELSE [checks[d] EXCEPT !.rv = checks[d].rv + 1, !.drain = FALSE]
            BY <3>1 DEF AckDrain
          <5>2. CASE last
            BY <5>1, <5>2 DEF NoCheck
          <5>3. CASE ~last
            <6>1. checks[d] \in Check
              OBVIOUS
            <6> QED BY <5>1, <5>3, <6>1 DEF Check
          <5> QED BY <5>2, <5>3
        <4> QED BY <3>1, <4>1 DEF AckDrain
      <3>2. UNCHANGED checks \/ \E d \in Checks : AckDrain(d)
        BY DEF AckSkips, AckFails, AckDone, Return, api
      <3> QED BY <3>1, <3>2
    <2> QED BY <1>1, <2>1 DEF StaleNow
  <1>3. SnapInv'
    BY <1>1 DEF SnapInv
  <1>4. CASE ~Return
    <2>1. UNCHANGED <<refreshMu, cand, candToken, pc, stale>> /\ step = "ack"
      BY <1>4 DEF AckDrain, AckSkips, AckFails, AckDone, reqs
    <2>2. step' \in {"ack", "return"}
      BY <1>4 DEF AckDrain, AckSkips, AckFails, AckDone
    <2>3. StaleInv' /\ UsableInv' /\ RequestInv'
      BY <1>1, <1>2, <2>1 DEF StaleInv, UsableInv, Usable, RequestInv
    <2>4. PickedInv' /\ CommittedInv'
      BY <1>1, <2>1, <2>2 DEF PickedInv, CommittedInv, Before, Reading
    <2> QED BY <1>3, <2>3, <2>4, SMTT(30)
  <1>5. CASE Return
    <2>1. step = "return" /\ cand' = None /\ refreshMu' = None
      BY <1>5 DEF Return
    <2>2. ASSUME NEW q \in Requests
          PROVE  /\ stale'[q] \in {stale[q], {}}
                 /\ q # refreshMu => pc'[q] = pc[q]
                 /\ q = refreshMu => /\ pc'[q] \in {"acquire", "idle"}
                                     /\ pc'[q] = "acquire" => cand # None
      BY <1>5 DEF Return
    <2>3. StaleInv' /\ PickedInv' /\ CommittedInv'
      BY <1>2, <2>1, <2>2 DEF StaleInv, PickedInv, CommittedInv
    <2>4. RequestInv'
      BY <1>1, <2>1, <2>2 DEF RequestInv
    <2>5. UsableInv'
      <3> SUFFICES ASSUME NEW q \in Requests, pc'[q] = "acquire", active # None
                   PROVE  Usable(q, active)
        BY <1>1, <2>2 DEF UsableInv, Usable
      <3>1. CASE q # refreshMu
        BY <2>2, <3>1 DEF UsableInv
      <3>2. CASE q = refreshMu
        <4>1. cand # None /\ cand \notin stale[q] /\ candToken \notin stale[q]
          BY <2>1, <2>2, <3>2 DEF PickedInv, Before, Reading
        <4> QED BY <2>1, <4>1 DEF CommittedInv, Usable
      <3> QED BY <3>1, <3>2
    <2> QED BY <1>3, <2>3, <2>4, <2>5
  <1> QED BY <1>4, <1>5, SMTT(30)

(* Run only withdraws, and a new process starts with nothing. *)
LEMMA StopKeepsFresh ==
    ASSUME DrainInv, FreshInv, StopWithdraw \/ StopDrained \/ Restart
    PROVE  FreshInv'
  <1> USE DEF DrainInv, TypeInv, TypeOK, RefreshInv, FreshInv
  <1>1. CASE Restart
    BY <1>1 DEF Restart, SnapInv, Reading, StaleInv, PickedInv, CommittedInv,
                UsableInv, RequestInv
  <1>2. CASE StopWithdraw \/ StopDrained
    <2>0. UNCHANGED <<checks, endpoint, secret, refreshMu, step, snap, cand, candToken,
                      pc, lease, stale>>
      BY <1>2 DEF StopWithdraw, StopDrained, api, tx, reqs
    <2>1. SnapInv' /\ StaleInv' /\ PickedInv' /\ RequestInv'
      BY <2>0 DEF SnapInv, Reading, StaleInv, StaleNow, PickedInv, Before, RequestInv
    <2>2. CASE StopWithdraw
      <3>1. active' = None
        BY <2>2 DEF StopWithdraw
      <3>2. \A r \in RouteIds : /\ routes'[r].check = routes[r].check
                                /\ routes'[r].token = routes[r].token
        BY <2>2 DEF StopWithdraw, Cancelled, Route, Maybe
      <3>3. UsableInv'
        BY <2>0, <3>1, <3>2 DEF UsableInv, Usable, Maybe
      <3> QED BY <2>1, <3>1, <3>3 DEF CommittedInv
    <2>3. CASE StopDrained
      <3>1. active' = active /\ \A q \in Requests : lease[q] # runPrev
        BY <2>3 DEF StopDrained, inflight
      <3>2. \A r \in RouteIds \ {runPrev} : routes'[r] = routes[r]
        BY <2>3 DEF StopDrained
      <3>3. active # None => active \in RouteIds \ {runPrev}
        BY DEF Published, Maybe
      <3>4. CommittedInv' /\ UsableInv'
        BY <2>0, <3>1, <3>2, <3>3 DEF CommittedInv, UsableInv, Usable, Maybe
      <3> QED BY <2>1, <3>4
    <2> QED BY <1>2, <2>2, <2>3
  <1> QED BY <1>1, <1>2

(* Every step preserves the freshness invariant. *)
LEMMA FreshStep == DrainInv /\ FreshInv /\ [Next]_vars => FreshInv'
  <1> SUFFICES ASSUME DrainInv, FreshInv, [Next]_vars PROVE FreshInv'
    OBVIOUS
  <1>1. CASE UNCHANGED vars
    BY <1>1 DEF vars, FreshInv, SnapInv, Reading, StaleInv, StaleNow, PickedInv,
                Before, CommittedInv, UsableInv, Usable, RequestInv
  <1>2. CASE Next
    BY <1>2, APIKeepsFresh, RequestKeepsFresh, ReadsKeepFresh, ReplaceKeepsFresh,
       AckKeepsFresh, StopKeepsFresh DEF Next, RefreshStep
  <1> QED BY <1>1, <1>2

(* The freshness invariant holds throughout. *)
LEMMA FreshCorrect == Spec => []FreshInv
  BY FreshInit, FreshStep, DrainCorrect, PTL DEF Spec

(* No request works with a check or a token that was already unusable when   *)
(* it arrived, whatever refreshes of other requests commit in between: the   *)
(* second list of Refresh and the serialisation by refreshMu suffice, for    *)
(* any number of requests and checks.                                        *)
THEOREM LeaseFresh == Spec => []NoStaleLease
  <1>1. FreshInv => NoStaleLease
    BY DEF FreshInv, UsableInv, Usable, NoStaleLease
  <1> QED BY <1>1, FreshCorrect, PTL

-----------------------------------------------------------------------------
(***************************************************************************)
(* Router implements Drain.                                                *)
(***************************************************************************)

(* Who uses which check is decided by the leases and by the checks of the   *)
(* routes that are leased.                                                  *)
LEMMA UsersFrame ==
    ASSUME UNCHANGED <<lease, run>>,
           \A q \in Requests : lease[q] # None =>
               routes'[lease[q]].check = routes[lease[q]].check
    PROVE  users' = users
  BY DEF users

(* Who leaves the checks alone leaves their finalizers. *)
LEMMA GuardedFrame == UNCHANGED checks => guarded' = guarded
  BY DEF guarded, Drained

(* The other writers at most put the finalizer on. *)
LEMMA APIGuards ==
    ASSUME TypeOK, APIStep
    PROVE  \/ guarded' = guarded
           \/ \E c \in Checks : guarded' = [guarded EXCEPT ![c] = TRUE]
  <1>1. ASSUME NEW c \in Checks,
               \A d \in Checks \ {c} : checks'[d] = checks[d]
        PROVE  \/ guarded' = guarded
               \/ guarded' = [guarded EXCEPT ![c] = TRUE]
    <2>1. \A d \in Checks : ~Drained(d) => ~Drained(d)'
      BY APIKeepsFinalizer
    <2>2. \A d \in Checks \ {c} : Drained(d)' <=> Drained(d)
      BY <1>1 DEF Drained
    <2> QED BY <2>1, <2>2 DEF guarded
  <1>2. \/ UNCHANGED checks
        \/ \E c \in Checks : \A d \in Checks \ {c} : checks'[d] = checks[d]
    <2>1. ASSUME NEW c \in Checks, NEW new, WriteCheck(c, new)
          PROVE  \A d \in Checks \ {c} : checks'[d] = checks[d]
      BY <2>1 DEF WriteCheck, TypeOK
    <2> QED
      BY <2>1 DEF APIStep, CreateCheck, AddDrainFinalizer, Admit, WithdrawAdmission,
            DeleteCheck, Vanish, ChangeEndpoint, WriteSecret
  <1> QED BY <1>1, <1>2, GuardedFrame

(* Every step of the router is a step of Drain or leaves its state alone. *)
LEMMA DrainSimulated ==
    ASSUME DrainInv, DrainInv', FreshInv, [Next]_vars
    PROVE  [DrainSpec!Next]_DrainSpec!vars
  <1> DEFINE Same == guarded' = guarded /\ users' = users /\ run' = run
  <1>s. ASSUME Same PROVE [DrainSpec!Next]_DrainSpec!vars
    BY <1>s DEF DrainSpec!vars
  <1>t. TypeOK
    BY DEF DrainInv, TypeInv
  <1>1. CASE UNCHANGED vars
    BY <1>1, <1>s DEF vars, guarded, users, Drained
  <1>2. CASE APIStep
    <2>1. UNCHANGED <<lease, routes, run>>
      BY <1>2, APITypes, <1>t DEF WorldStep, table
    <2>2. users' = users /\ run' = run
      BY <2>1, UsersFrame
    <2>3. CASE guarded' = guarded
      BY <2>2, <2>3, <1>s
    <2>4. ASSUME NEW c \in Checks, guarded' = [guarded EXCEPT ![c] = TRUE]
          PROVE  [DrainSpec!Next]_DrainSpec!vars
      <3>1. DrainSpec!Guard(c)
        BY <2>2, <2>4 DEF DrainSpec!Guard
      <3> QED BY <3>1 DEF DrainSpec!Next
    <2> QED BY <1>2, <1>t, <2>3, <2>4, APIGuards
  <1>3. CASE \/ \E p \in Procs : Lock(p)
             \/ ListChecks \/ ListFails \/ Evaluate \/ ReadSecret
             \/ ReadSecretFails \/ RecheckEndpoint \/ Relist
             \/ ReplaceKeeps \/ AckDone \/ Return
             \/ \E c \in Checks : AckSkips(c) \/ AckFails(c)
             \/ \E q \in Requests : Arrive(q) \/ AnswerLocally(q)
                                       \/ StartUpstream(q) \/ EndUpstream(q)
    <2>1. UNCHANGED <<checks, lease, routes, run>>
      BY <1>3 DEF Lock, ListChecks, ListFails, Evaluate, ReadSecret, ReadSecretFails,
            RecheckEndpoint, Relist, ReplaceKeeps, AckDone, Return, AckSkips, AckFails,
            Arrive, AnswerLocally, StartUpstream, EndUpstream, api, table, reqs
    <2> QED BY <2>1, <1>s, UsersFrame, GuardedFrame
  <1>4. CASE ReplaceSwaps \/ ReplaceDrained \/ StopDrained
    <2>1. UNCHANGED <<checks, lease, run>> \/ StopDrained
      BY <1>4 DEF ReplaceSwaps, ReplaceDrained, api, reqs
    <2>2. ASSUME NEW q \in Requests, lease[q] # None
          PROVE  routes'[lease[q]].check = routes[lease[q]].check
      <3>1. lease[q] \in RouteIds
        BY <1>t, <2>2 DEF TypeOK, Maybe
      <3>2. CASE ReplaceSwaps /\ cand # None
        <4>1. newRoute # lease[q]
          BY <3>2, RouteTypes, <2>2 DEF ReplaceSwaps, FreeRoutes, inflight, DrainInv
        <4> QED BY <3>1, <3>2, <4>1, <1>t DEF ReplaceSwaps, Cancelled, TypeOK, Route
      <3>3. CASE ReplaceSwaps /\ cand = None
        BY <3>1, <3>3, <1>t DEF ReplaceSwaps, Cancelled, TypeOK, Route
      <3>4. CASE ReplaceDrained
        BY <3>1, <3>4, <1>t DEF ReplaceDrained, TypeOK, Route
      <3>5. CASE StopDrained
        BY <3>1, <3>5, <1>t DEF StopDrained, TypeOK, Route
      <3> QED BY <1>4, <3>2, <3>3, <3>4, <3>5
    <2>3. CASE ReplaceSwaps \/ ReplaceDrained
      <3>1. UNCHANGED <<checks, lease, run>>
        BY <2>3 DEF ReplaceSwaps, ReplaceDrained, api, reqs
      <3> QED BY <3>1, <2>2, <1>s, UsersFrame, GuardedFrame
    <2>4. CASE StopDrained
      <3>1. users' = users /\ guarded' = guarded
        BY <2>4, GuardedFrame DEF StopDrained, api, users
      <3>2. (run = "running") = (run' = "running")
        BY <2>4 DEF StopDrained
      <3> QED BY <3>1, <3>2 DEF DrainSpec!vars
    <2> QED BY <1>4, <2>3, <2>4
  <1>5. ASSUME NEW c \in Checks, AckDrain(c) PROVE [DrainSpec!Next]_DrainSpec!vars
    <2>1. UNCHANGED <<lease, routes, run>> /\ users' = users
      BY <1>5, UsersFrame DEF AckDrain, table, reqs
    <2>2. guarded' = [guarded EXCEPT ![c] = FALSE]
      <3>1. checks'[c].phase = "absent" \/ ~checks'[c].drain
        BY <1>5, <1>t DEF AckDrain, NoCheck, TypeOK, Check
      <3>2. \A d \in Checks \ {c} : checks'[d] = checks[d]
        BY <1>5, <1>t DEF AckDrain, TypeOK
      <3> QED BY <3>1, <3>2 DEF guarded, Drained
    <2>3. users[c] = {}
      <3>1. Drained(c)'
        BY <2>2 DEF guarded
      <3>2. LeaseHoldsFinalizerWhileRunning'
        BY DEF DrainInv, TypeInv, TypeOK, Published, Leased,
               LeaseHoldsFinalizerWhileRunning, LeaseHoldsFinalizer
      <3>3. users'[c] = {}
        BY <3>1, <3>2 DEF users, LeaseHoldsFinalizerWhileRunning, LeaseHoldsFinalizer
      <3> QED BY <2>1, <3>3
    <2>4. DrainSpec!LetGo(c)
      BY <2>1, <2>2, <2>3 DEF DrainSpec!LetGo
    <2> QED BY <2>4 DEF DrainSpec!Next
  <1>6. ASSUME NEW q \in Requests, acquire(q) PROVE [DrainSpec!Next]_DrainSpec!vars
    <2>0. /\ guarded' = guarded /\ UNCHANGED <<routes, run>>
          /\ lease' = [lease EXCEPT ![q] = active]
      BY <1>6, GuardedFrame DEF acquire, api, table
    <2>1. lease[q] = None
      BY <1>6 DEF acquire, FreshInv, RequestInv
    <2>2. CASE run # "running" \/ active = None
      <3>1. users' = users
        BY <2>0, <2>1, <2>2, <1>t DEF users, TypeOK
      <3> QED BY <2>0, <3>1, <1>s
    <2>3. CASE run = "running" /\ active # None
      <3> DEFINE c == routes[active].check
      <3>1. c \in Checks /\ guarded[c]
        BY <2>3 DEF DrainInv, Published, guarded
      <3>2. users' = [users EXCEPT ![c] = @ \union {q}]
        <4>1. ASSUME NEW d \in Checks
              PROVE  users'[d] = IF d = c THEN users[c] \union {q} ELSE users[d]
          BY <2>0, <2>1, <2>3, <1>t, <4>1 DEF users, TypeOK
        <4> QED BY <4>1, <3>1 DEF users
      <3>3. DrainSpec!Enter(c, q)
        BY <2>0, <2>3, <3>1, <3>2 DEF DrainSpec!Enter
      <3> QED BY <3>1, <3>3 DEF DrainSpec!Next
    <2> QED BY <2>2, <2>3
  <1>7. ASSUME NEW q \in Requests, release(q) PROVE [DrainSpec!Next]_DrainSpec!vars
    <2>0. /\ guarded' = guarded /\ UNCHANGED <<routes, run>>
          /\ lease' = [lease EXCEPT ![q] = None]
      BY <1>7, GuardedFrame DEF release, api, table
    <2>1. CASE run # "running" \/ lease[q] = None
      <3>1. users' = users
        BY <2>0, <2>1, <1>t DEF users, TypeOK
      <3> QED BY <2>0, <3>1, <1>s
    <2>2. CASE run = "running" /\ lease[q] # None
      <3> DEFINE c == routes[lease[q]].check
      <3>1. c \in Checks
        BY <2>2 DEF DrainInv, Leased, Published
      <3>2. users' = [users EXCEPT ![c] = @ \ {q}]
        <4>1. ASSUME NEW d \in Checks
              PROVE  users'[d] = IF d = c THEN users[c] \ {q} ELSE users[d]
          BY <2>0, <2>2, <1>t, <4>1 DEF users, TypeOK
        <4> QED BY <4>1, <3>1 DEF users
      <3>3. DrainSpec!Leave(c, q)
        BY <2>0, <2>2, <3>1, <3>2 DEF DrainSpec!Leave
      <3> QED BY <3>1, <3>3 DEF DrainSpec!Next
    <2> QED BY <2>1, <2>2
  <1>8. CASE StopWithdraw \/ Restart
    <2>1. guarded' = guarded
      BY <1>8, GuardedFrame DEF StopWithdraw, Restart, api
    <2>2. users' = [c \in Checks |-> {}]
      BY <1>8 DEF StopWithdraw, Restart, users
    <2>3. DrainSpec!Switch
      BY <2>1, <2>2 DEF DrainSpec!Switch, DrainSpec!Nobody
    <2> QED BY <2>3 DEF DrainSpec!Next
  <1> QED BY <1>1, <1>2, <1>3, <1>4, <1>5, <1>6, <1>7, <1>8 DEF Next, RefreshStep, RequestStep

(* The router implements the promise of the drain finalizer, for any number  *)
(* of requests and checks.                                                   *)
THEOREM DrainRefined == Spec => DrainKept
  <1>1. Init => DrainSpec!Init
    <2> SUFFICES ASSUME Init PROVE DrainSpec!Init
      OBVIOUS
    <2>1. \A c \in Checks : Drained(c)
      BY DEF Init, Drained, NoSnap, NoCheck
    <2>2. \A q \in Requests : lease[q] = None
      BY DEF Init
    <2>3. users = [c \in Checks |-> {}]
      BY <2>2 DEF users
    <2>4. guarded = [c \in Checks |-> FALSE]
      BY <2>1 DEF guarded
    <2> QED BY <2>3, <2>4 DEF Init, DrainSpec!Init, DrainSpec!Nobody
  <1>2. DrainInv /\ DrainInv' /\ FreshInv /\ [Next]_vars => [DrainSpec!Next]_DrainSpec!vars
    BY DrainSimulated
  <1> QED BY <1>1, <1>2, DrainCorrect, FreshCorrect, PTL DEF Spec, DrainKept, DrainSpec!Spec

=============================================================================
