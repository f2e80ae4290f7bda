--------------------------- MODULE TeardownProofs ---------------------------
(***************************************************************************)
(* Theorems about Teardown, for every set of checks: types, the drain      *)
(* before the release of the Endpoint, the Endpoint before the Template,   *)
(* and the recorded intent to reap.                                        *)
(***************************************************************************)
EXTENDS Teardown, TLAPS

USE TeardownAssumption

(* The records that the actions build. *)
LEMMA CheckRecords ==
    /\ NoCheck \in Check
    /\ \A r \in Check, b \in BOOLEAN :
          /\ [r EXCEPT !.drain = TRUE] \in Check
          /\ r.drain => [r EXCEPT !.admitted = TRUE] \in Check
          /\ r.admitted => [r EXCEPT !.routed = TRUE] \in Check
          /\ [r EXCEPT !.routed = FALSE, !.admitted = FALSE] \in Check
          /\ [NoCheck EXCEPT !.phase = "live", !.late = b] \in Check
          /\ DeletedCheck(r) \in Check
  BY DEF Check, NoCheck, DeletedCheck

(* The records that the actions build from an Endpoint. *)
LEMMA EndpointRecords ==
    /\ NoEndpoint \in Endpoint
    /\ \A e \in Endpoint, b \in BOOLEAN :
          /\ [e EXCEPT !.phase = "live"] \in Endpoint
          /\ [e EXCEPT !.managed = TRUE] \in Endpoint
          /\ [e EXCEPT !.lifetime = TRUE] \in Endpoint
          /\ [e EXCEPT !.recovering = FALSE] \in Endpoint
          /\ [e EXCEPT !.object = "removed"] \in Endpoint
          /\ [e EXCEPT !.object = "deleted"] \in Endpoint
          /\ [e EXCEPT !.object = "present", !.recovering = b] \in Endpoint
          /\ \A p \in {"deleting", "gone"} :
                /\ [e EXCEPT !.phase = p] \in Endpoint
                /\ [e EXCEPT !.lifetime = FALSE, !.phase = p] \in Endpoint
                /\ [e EXCEPT !.managed = FALSE, !.phase = p] \in Endpoint
  BY ZenonT(60) DEF Endpoint, NoEndpoint

(* The records that the actions build from the janitor's pass. *)
LEMMA JanitorRecords ==
    /\ NoJan \in Janitors
    /\ \A j \in Janitors, e \in Endpoint, b \in BOOLEAN, S \in SUBSET Checks :
          /\ [NoJan EXCEPT !.step = "decide", !.ep = e] \in Janitors
          /\ [j EXCEPT !.step = "list", !.expired = b] \in Janitors
          /\ [j EXCEPT !.step = "mark"] \in Janitors
          /\ [j EXCEPT !.step = "delete"] \in Janitors
          /\ [j EXCEPT !.step = "release"] \in Janitors
          /\ [j EXCEPT !.step = "deleteChecks", !.todo = S] \in Janitors
          /\ [j EXCEPT !.todo = S] \in Janitors
  BY EndpointRecords, ZenonT(60) DEF Janitors, NoJan

(* The records that the actions build from a Template. *)
LEMMA TemplateRecords ==
    \A t \in Template :
       /\ [t EXCEPT !.reap = TRUE] \in Template
       /\ [t EXCEPT !.object = "deleted"] \in Template
       /\ [t EXCEPT !.phase = "deleting"] \in Template
       /\ [t EXCEPT !.phase = "gone"] \in Template
  BY DEF Template

(* The types hold at first. *)
LEMMA TypeInit == TeardownInit => TeardownTypeOK
  <1> SUFFICES ASSUME TeardownInit PROVE TeardownTypeOK
    OBVIOUS
  <1>1. check \in [Checks -> Check] /\ ep \in Endpoint /\ jan \in Janitors
    BY CheckRecords, EndpointRecords, JanitorRecords DEF TeardownInit
  <1>2. tpl \in Template
    BY DEF TeardownInit, Template
  <1>3. history \in BOOLEAN \X BOOLEAN /\ epExpired \in BOOLEAN /\ tplExpired \in BOOLEAN
    BY DEF TeardownInit, history
  <1> QED BY <1>1, <1>2, <1>3 DEF TeardownInit, TeardownTypeOK

(* What users and the clock do keeps the types. *)
LEMMA UsersType == TeardownTypeOK /\ Users => TeardownTypeOK'
  <1> SUFFICES ASSUME TeardownTypeOK, Users PROVE TeardownTypeOK'
    OBVIOUS
  <1> USE DEF TeardownTypeOK, counts, controllers, history, clocks
  <1>1. CASE CreateEndpoint
    BY <1>1, EndpointRecords, ZenonT(60) DEF CreateEndpoint
  <1>2. CASE DeleteEndpoint
    BY <1>2, EndpointRecords, ZenonT(60) DEF DeleteEndpoint, Deleted
  <1>3. CASE DeleteTemplate
    BY <1>3, TemplateRecords DEF DeleteTemplate
  <1>4. CASE EndpointExpires
    BY <1>4 DEF EndpointExpires
  <1>5. CASE TemplateExpires
    BY <1>5 DEF TemplateExpires
  <1>6. CASE RemovedOutOfBand
    BY <1>6, EndpointRecords, ZenonT(60) DEF RemovedOutOfBand
  <1> QED BY <1>1, <1>2, <1>3, <1>4, <1>5, <1>6 DEF Users

(* A step of a check or of the router on it changes that check alone. *)
LEMMA ChecksType ==
    ASSUME TeardownTypeOK, NEW c \in Checks, CheckStep(c)
    PROVE  /\ check' \in [Checks -> Check]
           /\ creations' \in Nat
           /\ UNCHANGED <<ep, tpl, clocks, controllers, crashes, history>>
  <1> USE DEF TeardownTypeOK, SetCheck
  <1>1. CASE CreateCheck(c)
    <2>1. (ep.phase \in {"deleting", "gone"}) \in BOOLEAN
      OBVIOUS
    <2>2. [NoCheck EXCEPT !.phase = "live", !.late = ep.phase \in {"deleting", "gone"}]
             \in Check
      BY <2>1, CheckRecords, ZenonT(60)
    <2> QED BY <1>1, <2>2 DEF CreateCheck
  <1>2. CASE AddDrainFinalizer(c)
    BY <1>2, CheckRecords, ZenonT(60) DEF AddDrainFinalizer
  <1>3. CASE Resolve(c)
    BY <1>3, CheckRecords, ZenonT(60) DEF Resolve
  <1>4. CASE DeleteCheck(c)
    BY <1>4, CheckRecords, ZenonT(60) DEF DeleteCheck
  <1>5. CASE Route(c)
    BY <1>5, CheckRecords, ZenonT(60) DEF Route
  <1>6. CASE Withdraw(c)
    BY <1>6, CheckRecords, ZenonT(60) DEF Withdraw
  <1>7. CASE AcknowledgeDrain(c)
    BY <1>7, CheckRecords DEF AcknowledgeDrain
  <1> QED BY <1>1, <1>2, <1>3, <1>4, <1>5, <1>6, <1>7 DEF CheckStep

(* A step of the janitor keeps the types. *)
LEMMA JanitorType == TeardownTypeOK /\ Janitor => TeardownTypeOK'
  <1> SUFFICES ASSUME TeardownTypeOK, Janitor PROVE TeardownTypeOK'
    OBVIOUS
  <1> USE DEF TeardownTypeOK, Jan, clocks, counts, history
  <1>1. CASE JanitorReads
    BY <1>1, JanitorRecords, ZenonT(60) DEF JanitorReads
  <1>2. CASE JanitorAddsFinalizer
    BY <1>2, JanitorRecords, EndpointRecords, ZenonT(60) DEF JanitorAddsFinalizer
  <1>3. CASE JanitorDecides
    BY <1>3, JanitorRecords, ZenonT(60) DEF JanitorDecides
  <1>4. CASE JanitorLists
    <2>1. Referring \in SUBSET Checks
      BY DEF Referring
    <2> QED BY <1>4, <2>1, JanitorRecords, ZenonT(60) DEF JanitorLists
  <1>5. ASSUME NEW c \in Checks, JanitorDeletesCheck(c) PROVE TeardownTypeOK'
    <2>1. jan.todo \ {c} \in SUBSET Checks
      BY DEF Janitors
    <2>2. jan' \in Janitors
      BY <1>5, <2>1, JanitorRecords, ZenonT(60) DEF JanitorDeletesCheck
    <2>3. check' \in [Checks -> Check]
      BY <1>5, CheckRecords, ZenonT(60) DEF JanitorDeletesCheck
    <2> QED BY <1>5, <2>2, <2>3 DEF JanitorDeletesCheck
  <1>6. CASE JanitorMarks
    BY <1>6, JanitorRecords, TemplateRecords, ZenonT(60) DEF JanitorMarks
  <1>7. CASE JanitorDeletesEndpoint
    BY <1>7, JanitorRecords, EndpointRecords, ZenonT(60) DEF JanitorDeletesEndpoint, Deleted
  <1>8. CASE JanitorReleases
    BY <1>8, JanitorRecords, EndpointRecords, ZenonT(60) DEF JanitorReleases
  <1> QED BY <1>1, <1>2, <1>3, <1>4, <1>5, <1>6, <1>7, <1>8 DEF Janitor

(* A step of the reaper or of a managed controller keeps the types. *)
LEMMA ControllersType ==
    TeardownTypeOK /\ (Reaper \/ ManagedEndpoint \/ ManagedTemplate) => TeardownTypeOK'
  <1> SUFFICES ASSUME TeardownTypeOK, Reaper \/ ManagedEndpoint \/ ManagedTemplate
               PROVE  TeardownTypeOK'
    OBVIOUS
  <1> USE DEF TeardownTypeOK, Mep, Mtpl, clocks, counts, history
  <1>1. CASE Reaper
    BY <1>1, TemplateRecords DEF Reaper, ReaperReads, ReaperLists, ReaperDeletes
  <1>2. CASE EndpointConnects \/ EndpointCreateFails \/ EndpointListsChecks
    BY <1>2 DEF EndpointConnects, EndpointCreateFails, EndpointListsChecks
  <1>3. CASE EndpointPrepares
    BY <1>3, EndpointRecords, ZenonT(60) DEF EndpointPrepares
  <1>4. CASE EndpointCreates
    <2>1. PICK r \in BOOLEAN : ep' = [ep EXCEPT !.object = "present", !.recovering = r]
      BY <1>4 DEF EndpointCreates
    <2>2. ep' \in Endpoint
      BY <2>1, EndpointRecords, ZenonT(60)
    <2> QED BY <1>4, <2>2 DEF EndpointCreates
  <1>5. CASE EndpointAdopts
    BY <1>5, EndpointRecords, ZenonT(60) DEF EndpointAdopts
  <1>6. CASE EndpointDeletesObject
    <2>1. [ep EXCEPT !.object = ep.object] = ep
      BY DEF Endpoint
    <2> QED BY <1>6, <2>1, EndpointRecords, ZenonT(60) DEF EndpointDeletesObject
  <1>7. CASE EndpointFinalizes
    BY <1>7, EndpointRecords, ZenonT(60) DEF EndpointFinalizes
  <1>8. CASE ManagedTemplate
    BY <1>8, TemplateRecords DEF ManagedTemplate, TemplateListsEndpoints,
         TemplateListsObjects, TemplateDeletesObject, TemplateFinalizes
  <1> QED BY <1>1, <1>2, <1>3, <1>4, <1>5, <1>6, <1>7, <1>8 DEF ManagedEndpoint

(* A restart keeps the types. *)
LEMMA CrashType == TeardownTypeOK /\ Crash => TeardownTypeOK'
  <1> SUFFICES ASSUME TeardownTypeOK, Crash PROVE TeardownTypeOK'
    OBVIOUS
  <1>1. jan' \in Janitors /\ reap' \in {"idle", "list", "delete"}
    BY JanitorRecords DEF Crash
  <1>2. /\ mep' \in {"idle", "connected", "create", "delete"}
        /\ mtpl' \in {"idle", "listed", "delete"}
    BY DEF TeardownTypeOK, Crash
  <1>3. crashes' \in Nat
    BY DEF TeardownTypeOK, Crash
  <1> QED BY <1>1, <1>2, <1>3 DEF TeardownTypeOK, Crash, clocks, history

(* Every step keeps the types. *)
LEMMA TypeStep == TeardownTypeOK /\ [TeardownNext]_teardownVars => TeardownTypeOK'
  <1> SUFFICES ASSUME TeardownTypeOK, [TeardownNext]_teardownVars PROVE TeardownTypeOK'
    OBVIOUS
  <1>1. ASSUME NEW c \in Checks, CheckStep(c) PROVE TeardownTypeOK'
    BY <1>1, ChecksType DEF TeardownTypeOK, clocks, controllers, history
  <1>2. CASE UNCHANGED teardownVars
    BY <1>2 DEF teardownVars, TeardownTypeOK, history
  <1> QED BY <1>1, <1>2, UsersType, JanitorType, ControllersType, CrashType DEF TeardownNext

(* The objects and the reconcilers' local state keep their types, for every  *)
(* set of checks and every number of creations and restarts.                 *)
THEOREM TypeCorrect == TeardownSpec => []TeardownTypeOK
  BY TypeInit, TypeStep, PTL DEF TeardownSpec

-----------------------------------------------------------------------------
(***************************************************************************)
(* The order of the teardown.                                              *)
(***************************************************************************)

Terminating == ep.phase \in {"deleting", "gone"}

(* A check created after the Endpoint's deletion never becomes admitted. *)
LateInv ==
    \A c \in Checks :
       check[c].late => Terminating /\ ~check[c].admitted /\ ~check[c].routed

(* What the janitor knows of the Endpoint it read: the phase only moves on, and *)
(* a pass over a live Endpoint goes beyond its decision only if it has expired. *)
JanitorInv ==
    /\ jan.step # "idle" => jan.ep.phase \in {"live", "deleting"}
    /\ jan.step # "idle" /\ jan.ep.phase = "deleting" => Terminating
    /\ jan.step = "release" => jan.ep.phase = "deleting"
    /\ jan.step \in {"list", "deleteChecks", "mark", "delete"} /\ jan.ep.phase = "live"
          => jan.expired

(* Somebody has found no check of the terminating Endpoint. *)
FoundNone ==
    \/ jan.step \in {"mark", "release"} /\ jan.ep.phase = "deleting"
    \/ mep = "delete"
    \/ ep.object = "deleted"
    \/ released

DrainInv == FoundNone => Terminating /\ \A c \in Referring : check[c].late

(* The Template controller goes on only if no create is under way and none   *)
(* can begin: the Template is terminating, and a pending create holds the    *)
(* Endpoint.                                                                 *)
TemplateGoes == mtpl \in {"listed", "delete"} \/ tpl.object = "deleted"

TemplateInv ==
    /\ mep = "create" => ep.managed /\ ep.phase \in {"live", "deleting"}
    /\ mep = "connected" => ep.phase # "none"
    /\ TemplateGoes => /\ tpl.phase # "live"
                       /\ mep # "create"
                       /\ mep = "connected" => ep.phase # "live"
    /\ mtpl = "delete" \/ tpl.object = "deleted" => ep.object # "present"

(* The mark on the Template precedes the deletion by lifetime. *)
ReapInv ==
    (jan.step = "delete" \/ byTTL) /\ DeleteReferencedTemplateOnExpiry
        => tpl.reap \/ tpl.phase # "live"

OrderInv == TeardownTypeOK /\ LateInv /\ JanitorInv /\ DrainInv /\ TemplateInv /\ ReapInv

(* Nothing is being torn down at first. *)
LEMMA OrderInit == TeardownInit => OrderInv
  <1> SUFFICES ASSUME TeardownInit PROVE OrderInv
    OBVIOUS
  <1>1. LateInv
    BY DEF TeardownInit, LateInv, NoCheck
  <1>2. JanitorInv
    BY DEF TeardownInit, JanitorInv, NoJan
  <1>3. DrainInv
    BY DEF TeardownInit, DrainInv, FoundNone, NoJan, NoEndpoint
  <1>4. TemplateInv
    BY DEF TeardownInit, TemplateInv, TemplateGoes, NoEndpoint
  <1>5. ReapInv
    BY DEF TeardownInit, ReapInv, NoJan
  <1> QED BY <1>1, <1>2, <1>3, <1>4, <1>5, TypeInit DEF OrderInv

(* What a step other than one of a check does to the Endpoint: a terminating *)
(* one stays so, an object is deleted only by the managed controller, and    *)
(* one that is being created by it is kept.                                  *)
LEMMA EndpointStep ==
    ASSUME OrderInv, [TeardownNext]_teardownVars
    PROVE  /\ Terminating => Terminating'
           /\ ep'.phase = "none" => ep.phase = "none"
           /\ ep'.object = "deleted" => ep.object = "deleted" \/ mep = "delete"
           /\ ep'.object = "present" => ep.object = "present" \/ mep = "create"
           /\ ep.managed /\ ep.phase \in {"live", "deleting"} /\ mep # "idle"
                 => ep'.managed /\ ep'.phase \in {"live", "deleting"}
  <1>t. ep \in Endpoint /\ Terminating \in BOOLEAN
    BY DEF OrderInv, TeardownTypeOK, Terminating
  <1> USE DEF Endpoint, Terminating
  <1>1. CASE UNCHANGED ep
    BY <1>1, <1>t
  <1>2. CASE CreateEndpoint \/ DeleteEndpoint \/ RemovedOutOfBand
    BY <1>2, <1>t DEF CreateEndpoint, DeleteEndpoint, RemovedOutOfBand, Deleted
  <1>3. CASE JanitorAddsFinalizer \/ JanitorDeletesEndpoint \/ JanitorReleases
    BY <1>3, <1>t DEF JanitorAddsFinalizer, JanitorDeletesEndpoint, JanitorReleases,
         Deleted, OrderInv, JanitorInv
  <1>4. CASE ManagedEndpoint
    BY <1>4, <1>t DEF ManagedEndpoint, EndpointConnects, EndpointPrepares,
         EndpointCreates, EndpointCreateFails, EndpointAdopts, EndpointListsChecks,
         EndpointDeletesObject, EndpointFinalizes, Mep
  <1>5. ASSUME NEW c \in Checks, CheckStep(c) PROVE UNCHANGED ep
    BY <1>5, ChecksType DEF OrderInv
  <1> QED
    BY <1>1, <1>2, <1>3, <1>4, <1>5
       DEF TeardownNext, teardownVars, Users, DeleteTemplate, EndpointExpires, TemplateExpires,
           Janitor, JanitorReads, JanitorDecides, JanitorLists, JanitorDeletesCheck,
           JanitorMarks, Reaper, ReaperReads, ReaperLists, ReaperDeletes,
           ManagedTemplate, TemplateListsEndpoints, TemplateListsObjects,
           TemplateDeletesObject, TemplateFinalizes, Mtpl, Crash

(* Who changes a check: a step of that check, or the janitor deleting it. *)
LEMMA CheckFrame ==
    ASSUME [TeardownNext]_teardownVars
    PROVE  \/ UNCHANGED check
           \/ \E c \in Checks : CheckStep(c) \/ JanitorDeletesCheck(c)
  BY DEF TeardownNext, teardownVars, Users, CreateEndpoint, DeleteEndpoint, RemovedOutOfBand,
         DeleteTemplate, EndpointExpires, TemplateExpires,
         Janitor, JanitorReads, JanitorAddsFinalizer, JanitorDecides, JanitorLists,
         JanitorMarks, JanitorDeletesEndpoint, JanitorReleases,
         Reaper, ReaperReads, ReaperLists, ReaperDeletes,
         ManagedEndpoint, EndpointConnects, EndpointPrepares, EndpointCreates,
         EndpointCreateFails, EndpointAdopts, EndpointListsChecks,
         EndpointDeletesObject, EndpointFinalizes, Mep,
         ManagedTemplate, TemplateListsEndpoints, TemplateListsObjects,
         TemplateDeletesObject, TemplateFinalizes, Mtpl, Crash

(* What becomes of a check: a new one is late exactly if the Endpoint is     *)
(* terminating; a late one is never admitted, and a check stays late.        *)
LEMMA CheckChange ==
    ASSUME OrderInv, [TeardownNext]_teardownVars, NEW d \in Checks
    PROVE  /\ check'[d].late => Terminating /\ ~check'[d].admitted /\ ~check'[d].routed
           /\ check'[d].phase # "absent" /\ Terminating
                 /\ (check[d].phase # "absent" => check[d].late) => check'[d].late
  <1>t. check[d] \in Check /\ check \in [Checks -> Check]
    BY DEF OrderInv, TeardownTypeOK
  <1>l. check[d].late => Terminating /\ ~check[d].admitted /\ ~check[d].routed
    BY DEF OrderInv, LateInv
  <1> DEFINE Goal == /\ check'[d].late => /\ Terminating
                                          /\ ~check'[d].admitted /\ ~check'[d].routed
                     /\ check'[d].phase # "absent" /\ Terminating
                           /\ (check[d].phase # "absent" => check[d].late)
                        => check'[d].late
  <1>1. CASE check'[d] = check[d]
    BY <1>1, <1>l
  <1>2. CASE check'[d] = NoCheck
    BY <1>2 DEF NoCheck
  <1>3. CASE CreateCheck(d)
    <2>1. check'[d] = [NoCheck EXCEPT !.phase = "live",
                                      !.late = ep.phase \in {"deleting", "gone"}]
      BY <1>3, <1>t DEF CreateCheck, SetCheck
    <2> QED BY <2>1 DEF NoCheck, Terminating
  <1>4. CASE AddDrainFinalizer(d)
    BY <1>4, <1>t, <1>l DEF AddDrainFinalizer, SetCheck, Check
  <1>5. CASE Resolve(d)
    BY <1>5, <1>t, <1>l DEF Resolve, SetCheck, Check, Terminating
  <1>6. CASE Route(d)
    BY <1>6, <1>t, <1>l DEF Route, SetCheck, Check
  <1>7. CASE Withdraw(d)
    BY <1>7, <1>t, <1>l DEF Withdraw, SetCheck, Check
  <1>8. CASE check[d].phase = "live" /\ check'[d] = DeletedCheck(check[d])
    BY <1>8, <1>t, <1>l DEF DeletedCheck, Check, NoCheck
  <1>9. ASSUME NEW c \in Checks, CheckStep(c) PROVE Goal
    <2>1. CASE c # d
      <3>1. check'[d] = check[d]
        BY <1>9, <2>1, <1>t DEF CheckStep, CreateCheck, AddDrainFinalizer, Resolve,
             DeleteCheck, Route, Withdraw, AcknowledgeDrain, SetCheck
      <3> QED BY <3>1, <1>1
    <2>2. CASE c = d
      <3>1. CASE DeleteCheck(d)
        BY <3>1, <1>8, <1>t DEF DeleteCheck, SetCheck
      <3>2. CASE AcknowledgeDrain(d)
        BY <3>2, <1>2, <1>t DEF AcknowledgeDrain, SetCheck
      <3> QED BY <1>9, <2>2, <3>1, <3>2, <1>3, <1>4, <1>5, <1>6, <1>7 DEF CheckStep
    <2> QED BY <2>1, <2>2
  <1>10. ASSUME NEW c \in Checks, JanitorDeletesCheck(c) PROVE Goal
    <2>1. \/ check'[d] = check[d]
          \/ check[d].phase = "live" /\ check'[d] = DeletedCheck(check[d])
      BY <1>10, <1>t DEF JanitorDeletesCheck
    <2> QED BY <2>1, <1>1, <1>8
  <1>11. CASE UNCHANGED check
    BY <1>11, <1>1
  <1> QED BY <1>9, <1>10, <1>11, CheckFrame

(* A late check stays unused. *)
LEMMA LateStep == OrderInv /\ [TeardownNext]_teardownVars => LateInv'
  BY CheckChange, EndpointStep DEF LateInv

(* What the janitor has read stays true enough. *)
LEMMA JanitorStep == OrderInv /\ [TeardownNext]_teardownVars => JanitorInv'
  <1> SUFFICES ASSUME OrderInv, [TeardownNext]_teardownVars PROVE JanitorInv'
    OBVIOUS
  <1>t. jan \in Janitors /\ JanitorInv
    BY DEF OrderInv, TeardownTypeOK
  <1>e. Terminating => Terminating'
    BY EndpointStep
  <1> USE DEF JanitorInv, Jan
  <1>1. CASE UNCHANGED jan
    BY <1>1, <1>t, <1>e
  <1>2. CASE jan' = NoJan
    BY <1>2 DEF NoJan
  <1>3. CASE JanitorReads
    BY <1>3, <1>t DEF JanitorReads, NoJan, Exists, Terminating
  <1>4. CASE JanitorDecides
    <2>1. CASE jan' = [jan EXCEPT !.step = "list", !.expired = epExpired]
      BY <1>4, <2>1, <1>2, <1>t, <1>e DEF JanitorDecides, Janitors, NoJan
    <2> QED BY <1>4, <2>1, <1>2 DEF JanitorDecides
  <1>5. CASE JanitorLists
    BY <1>5, <1>t, <1>e DEF JanitorLists, Janitors
  <1>6. ASSUME NEW c \in Checks, JanitorDeletesCheck(c) PROVE JanitorInv'
    BY <1>6, <1>2, <1>t, <1>e DEF JanitorDeletesCheck, Janitors
  <1>7. CASE JanitorMarks
    BY <1>7, <1>t, <1>e DEF JanitorMarks, Janitors
  <1>8. ASSUME NEW c \in Checks, CheckStep(c) PROVE UNCHANGED jan
    BY <1>8, ChecksType DEF OrderInv, controllers
  <1> QED
    BY <1>1, <1>2, <1>3, <1>4, <1>5, <1>6, <1>7, <1>8
       DEF TeardownNext, teardownVars, controllers, Users, CreateEndpoint, DeleteEndpoint,
           RemovedOutOfBand, DeleteTemplate, EndpointExpires, TemplateExpires,
           Janitor, JanitorAddsFinalizer, JanitorDeletesEndpoint, JanitorReleases,
           Reaper, ReaperReads, ReaperLists, ReaperDeletes,
           ManagedEndpoint, EndpointConnects, EndpointPrepares, EndpointCreates,
           EndpointCreateFails, EndpointAdopts, EndpointListsChecks,
           EndpointDeletesObject, EndpointFinalizes, Mep,
           ManagedTemplate, TemplateListsEndpoints, TemplateListsObjects,
           TemplateDeletesObject, TemplateFinalizes, Mtpl, Crash

(* The first steps of a pass. *)
LEMMA ReadsAndDecides ==
    ASSUME jan \in Janitors, JanitorReads \/ JanitorDecides
    PROVE  jan'.step \in {"idle", "decide", "list"}
  <1>1. CASE JanitorReads
    BY <1>1 DEF JanitorReads, Jan, NoJan
  <1>2. CASE JanitorDecides
    <2>1. jan' \in {NoJan, [jan EXCEPT !.step = "list", !.expired = epExpired]}
      BY <1>2 DEF JanitorDecides, Jan
    <2>2. NoJan.step = "idle"
      BY DEF NoJan
    <2>3. [jan EXCEPT !.step = "list", !.expired = epExpired].step = "list"
      BY DEF Janitors
    <2> QED BY <2>1, <2>2, <2>3
  <1> QED BY <1>1, <1>2

(* FoundNone becomes true only when a list has come back empty while the     *)
(* Endpoint is terminating.                                                  *)
LEMMA DrainStep == OrderInv /\ [TeardownNext]_teardownVars => DrainInv'
  <1> SUFFICES ASSUME OrderInv, [TeardownNext]_teardownVars PROVE DrainInv'
    OBVIOUS
  <1>t. jan \in Janitors /\ JanitorInv /\ DrainInv /\ ep \in Endpoint
    BY DEF OrderInv, TeardownTypeOK
  <1>e. /\ Terminating => Terminating'
        /\ ep'.object = "deleted" => ep.object = "deleted" \/ mep = "delete"
    BY EndpointStep
  <1>l. ASSUME Terminating, \A c \in Referring : check[c].late
        PROVE  DrainInv'
    <2>1. ASSUME NEW d \in Checks, check'[d].phase # "absent" PROVE check'[d].late
      BY <1>l, <2>1, CheckChange DEF Referring
    <2> QED BY <1>l, <1>e, <2>1 DEF DrainInv, Referring
  <1>1. CASE FoundNone
    BY <1>1, <1>l, <1>t DEF DrainInv
  <1>2. CASE JanitorLists /\ Referring = {} /\ jan.ep.phase = "deleting"
    BY <1>2, <1>l, <1>t DEF JanitorLists, JanitorInv
  <1>3. CASE EndpointListsChecks
    BY <1>3, <1>l DEF EndpointListsChecks, Terminating
  <1>4. ASSUME ~FoundNone, FoundNone'
        PROVE  \/ JanitorLists /\ Referring = {} /\ jan.ep.phase = "deleting"
               \/ EndpointListsChecks
    <2> USE DEF FoundNone, Jan
    <2>1. CASE JanitorLists
      BY <1>4, <2>1, <1>t, <1>e DEF JanitorLists, Janitors, history
    <2>2. CASE JanitorMarks
      <3>1. jan.ep.phase \in {"live", "deleting"} /\ jan.step = "mark"
        BY <2>2, <1>t DEF JanitorMarks, JanitorInv
      <3>2. jan.ep.phase = "live" /\ jan'.step = "delete" /\ released' = released
        BY <1>4, <2>2, <3>1, <1>t DEF JanitorMarks, Janitors, history
      <3> QED BY <1>4, <2>2, <3>2, <1>e DEF JanitorMarks
    <2>8. CASE JanitorReads \/ JanitorDecides
      <3>1. jan'.step \in {"idle", "decide", "list"}
        BY <2>8, <1>t, ReadsAndDecides
      <3>2. mep' = mep /\ released' = released
        BY <2>8 DEF JanitorReads, JanitorDecides, history
      <3> QED BY <1>4, <3>1, <3>2, <1>e
    <2>3. ASSUME NEW c \in Checks, JanitorDeletesCheck(c) PROVE FALSE
      BY <1>4, <2>3, <1>t, <1>e DEF JanitorDeletesCheck, Janitors, NoJan, history
    <2>4. CASE JanitorReleases
      BY <1>4, <2>4, <1>t, <1>e DEF JanitorReleases, NoJan, JanitorInv
    <2>5. CASE JanitorAddsFinalizer \/ JanitorDeletesEndpoint \/ Crash
      BY <1>4, <2>5, <1>e DEF JanitorAddsFinalizer, JanitorDeletesEndpoint, Crash,
           NoJan, history
    <2>6. ASSUME NEW c \in Checks, CheckStep(c) PROVE FALSE
      BY <1>4, <2>6, ChecksType DEF OrderInv, controllers, history
    <2>7. CASE ManagedEndpoint
      BY <1>4, <2>7, <1>e DEF ManagedEndpoint, EndpointConnects, EndpointPrepares,
           EndpointCreates, EndpointCreateFails, EndpointAdopts,
           EndpointDeletesObject, EndpointFinalizes, Mep, history
    <2> QED
      BY <1>4, <1>e, <2>1, <2>2, <2>3, <2>4, <2>5, <2>6, <2>7, <2>8
         DEF TeardownNext, teardownVars, controllers, history, Users, CreateEndpoint, DeleteEndpoint,
           RemovedOutOfBand, DeleteTemplate, EndpointExpires, TemplateExpires,
           Janitor, Reaper, ReaperReads, ReaperLists, ReaperDeletes,
           ManagedTemplate, TemplateListsEndpoints, TemplateListsObjects,
           TemplateDeletesObject, TemplateFinalizes, Mtpl
  <1> QED BY <1>1, <1>2, <1>3, <1>4 DEF DrainInv

(* A Template never becomes live again. *)
LEMMA TemplateChange ==
    ASSUME TeardownTypeOK, [TeardownNext]_teardownVars
    PROVE  /\ tpl'.phase = "live" => tpl.phase = "live"
           /\ tpl.reap => tpl'.reap
           /\ tpl'.object = "deleted" => tpl.object = "deleted" \/ mtpl = "delete"
           /\ mtpl' = "delete" => \/ mtpl = "delete"
                                  \/ mtpl = "listed" /\ ep.object # "present"
           /\ mtpl' = "listed" => \/ mtpl = "listed"
                                  \/ /\ tpl.phase = "deleting" /\ ~Exists(ep)
                                     /\ UNCHANGED <<ep, mep>>
  <1>t. tpl \in Template
    BY DEF TeardownTypeOK
  <1>1. CASE UNCHANGED <<tpl, mtpl>>
    BY <1>1
  <1>2. CASE DeleteTemplate \/ ReaperDeletes
    BY <1>2, <1>t DEF DeleteTemplate, ReaperDeletes, Template, controllers
  <1>3. CASE JanitorMarks
    BY <1>3, <1>t DEF JanitorMarks, Template, Jan
  <1>4. CASE ManagedTemplate
    BY <1>4, <1>t DEF ManagedTemplate, TemplateListsEndpoints, TemplateListsObjects,
         TemplateDeletesObject, TemplateFinalizes, Mtpl, Template
  <1>5. CASE Crash
    BY <1>5 DEF Crash
  <1>6. ASSUME NEW c \in Checks, CheckStep(c) PROVE UNCHANGED <<tpl, mtpl>>
    BY <1>6, ChecksType DEF controllers
  <1> QED
    BY <1>1, <1>2, <1>3, <1>4, <1>5, <1>6
       DEF TeardownNext, teardownVars, controllers, history, Users, CreateEndpoint, DeleteEndpoint,
           RemovedOutOfBand, DeleteTemplate, EndpointExpires, TemplateExpires,
           Janitor, JanitorReads, JanitorAddsFinalizer, JanitorDecides, JanitorLists,
           JanitorDeletesCheck, JanitorDeletesEndpoint, JanitorReleases, Jan,
           Reaper, ReaperReads, ReaperLists,
           ManagedEndpoint, EndpointConnects, EndpointPrepares, EndpointCreates,
           EndpointCreateFails, EndpointAdopts, EndpointListsChecks,
           EndpointDeletesObject, EndpointFinalizes, Mep

(* Who moves the managed Endpoint controller: itself, or a restart. *)
LEMMA ControllerFrame ==
    ASSUME TeardownTypeOK, [TeardownNext]_teardownVars
    PROVE  UNCHANGED mep \/ ManagedEndpoint \/ Crash
  <1>1. ASSUME NEW c \in Checks, CheckStep(c) PROVE UNCHANGED mep
    BY <1>1, ChecksType DEF controllers
  <1> QED
    BY <1>1
       DEF TeardownNext, teardownVars, controllers, history, Users, CreateEndpoint, DeleteEndpoint,
           RemovedOutOfBand, DeleteTemplate, EndpointExpires, TemplateExpires,
           Janitor, JanitorReads, JanitorAddsFinalizer, JanitorDecides, JanitorLists,
           JanitorDeletesCheck, JanitorMarks, JanitorDeletesEndpoint, JanitorReleases,
           Jan, Reaper, ReaperReads, ReaperLists, ReaperDeletes,
           ManagedTemplate, TemplateListsEndpoints, TemplateListsObjects,
           TemplateDeletesObject, TemplateFinalizes, Mtpl

(* The Template controller goes on only when no create can come. *)
LEMMA TemplateStep == OrderInv /\ [TeardownNext]_teardownVars => TemplateInv'
  <1> SUFFICES ASSUME OrderInv, [TeardownNext]_teardownVars PROVE TemplateInv'
    OBVIOUS
  <1>t. TeardownTypeOK /\ TemplateInv /\ ep \in Endpoint /\ tpl \in Template
    BY DEF OrderInv, TeardownTypeOK
  <1>c. /\ mep' = "create" =>
              \/ mep = "create" /\ UNCHANGED mep
              \/ mep = "connected" /\ ep.phase = "live" /\ ep'.managed
                 /\ ep'.phase = "live" /\ UNCHANGED <<tpl, mtpl>>
        /\ mep' = "connected" =>
              \/ mep = "connected" /\ UNCHANGED mep
              \/ ep.phase = "live" /\ tpl.phase = "live" /\ UNCHANGED <<ep, tpl, mtpl>>
    <2>1. CASE ManagedEndpoint
      BY <2>1, <1>t DEF ManagedEndpoint, EndpointConnects, EndpointPrepares,
           EndpointCreates, EndpointCreateFails, EndpointAdopts, EndpointListsChecks,
           EndpointDeletesObject, EndpointFinalizes, Mep, Endpoint
    <2> QED BY <2>1, <1>t, ControllerFrame DEF Crash
  <1>1. (mep = "create" => ep.managed /\ ep.phase \in {"live", "deleting"})'
    BY <1>c, <1>t, EndpointStep DEF TemplateInv
  <1>2. (mep = "connected" => ep.phase # "none")'
    BY <1>c, <1>t, EndpointStep DEF TemplateInv
  <1>3. ASSUME TemplateGoes'
        PROVE  tpl'.phase # "live" /\ mep' # "create"
               /\ (mep' = "connected" => ep'.phase # "live")
    <2>1. CASE TemplateGoes
      <3>1. tpl.phase # "live" /\ mep # "create" /\ (mep = "connected" => ep.phase # "live")
        BY <2>1, <1>t DEF TemplateInv
      <3>2. tpl'.phase # "live"
        BY <3>1, <1>t, TemplateChange
      <3>3. mep' # "create"
        BY <3>1, <1>c
      <3>4. mep = "connected" => Terminating
        BY <3>1, <1>t DEF TemplateInv, Terminating, Endpoint
      <3> QED BY <3>1, <3>2, <3>3, <3>4, <1>c, EndpointStep DEF Terminating
    <2>2. CASE ~TemplateGoes
      <3>1. tpl.phase = "deleting" /\ ~Exists(ep) /\ UNCHANGED <<ep, mep>>
        BY <1>3, <2>2, <1>t, TemplateChange DEF TemplateGoes
      <3>2. tpl'.phase # "live"
        BY <3>1, <1>t, TemplateChange
      <3> QED BY <3>1, <3>2, <1>t DEF TemplateInv, Exists, Endpoint
    <2> QED BY <2>1, <2>2
  <1>4. ASSUME mtpl' = "delete" \/ tpl'.object = "deleted"
        PROVE  ep'.object # "present"
    <2>1. TemplateGoes /\ ep.object # "present"
      BY <1>4, <1>t, TemplateChange DEF TemplateInv, TemplateGoes
    <2>2. mep # "create"
      BY <2>1, <1>t DEF TemplateInv
    <2> QED BY <2>1, <2>2, EndpointStep
  <1> QED BY <1>1, <1>2, <1>3, <1>4 DEF TemplateInv

(* The mark comes before the deletion. *)
LEMMA ReapStep == OrderInv /\ [TeardownNext]_teardownVars => ReapInv'
  <1> SUFFICES ASSUME OrderInv, [TeardownNext]_teardownVars, DeleteReferencedTemplateOnExpiry,
                      (jan.step = "delete" \/ byTTL)'
               PROVE  tpl'.reap \/ tpl'.phase # "live"
    BY DEF ReapInv
  <1>t. TeardownTypeOK /\ JanitorInv /\ ReapInv /\ jan \in Janitors /\ tpl \in Template
    BY DEF OrderInv, TeardownTypeOK
  <1>1. CASE jan.step = "delete" \/ byTTL
    BY <1>1, <1>t, TemplateChange DEF ReapInv
  <1>2. CASE JanitorMarks
    <2>1. CASE jan.expired /\ tpl.phase # "gone"
      <3>1. tpl' = [tpl EXCEPT !.reap = TRUE]
        BY <1>2, <2>1 DEF JanitorMarks
      <3> QED BY <3>1, <1>t DEF Template
    <2>2. CASE tpl.phase = "gone"
      BY <2>2, <1>t, TemplateChange
    <2>3. CASE ~jan.expired /\ ~(jan.step = "delete" \/ byTTL)
      <3>1. jan.ep.phase # "live" /\ jan.step = "mark"
        BY <1>2, <2>3, <1>t DEF JanitorMarks, JanitorInv
      <3>2. jan'.step = "release" /\ byTTL' = byTTL
        BY <1>2, <3>1, <1>t DEF JanitorMarks, Jan, Janitors, history
      <3> QED BY <2>3, <3>2
    <2> QED BY <1>1, <2>1, <2>2, <2>3
  <1>3. ASSUME ~(jan.step = "delete" \/ byTTL) PROVE JanitorMarks
    <2> USE DEF Jan
    <2>1. ASSUME NEW c \in Checks, JanitorDeletesCheck(c) PROVE FALSE
      BY <1>3, <2>1, <1>t DEF JanitorDeletesCheck, Janitors, NoJan, history
    <2>2. ASSUME NEW c \in Checks, CheckStep(c) PROVE FALSE
      BY <1>3, <2>2, <1>t, ChecksType DEF controllers, history
    <2>3. CASE JanitorReads \/ JanitorDecides
      <3>1. jan'.step # "delete"
        BY <2>3, <1>t, ReadsAndDecides
      <3>2. byTTL' = byTTL
        BY <2>3 DEF JanitorReads, JanitorDecides, history
      <3> QED BY <1>3, <3>1, <3>2
    <2>4. CASE JanitorLists
      BY <1>3, <2>4, <1>t DEF JanitorLists, Janitors, history
    <2>5. CASE JanitorDeletesEndpoint
      BY <1>3, <2>5 DEF JanitorDeletesEndpoint
    <2>6. CASE JanitorAddsFinalizer \/ JanitorReleases \/ Crash
      <3>1. jan'.step # "delete"
        BY <2>6 DEF JanitorAddsFinalizer, JanitorReleases, Crash, NoJan
      <3>2. byTTL' = byTTL
        BY <2>6 DEF JanitorAddsFinalizer, JanitorReleases, Crash, history
      <3> QED BY <1>3, <3>1, <3>2
    <2>7. ~UNCHANGED <<jan, byTTL>>
      BY <1>3
    <2>8. CASE Users \/ UNCHANGED teardownVars
      BY <2>7, <2>8
         DEF teardownVars, controllers, history, Users, CreateEndpoint, DeleteEndpoint,
             RemovedOutOfBand, DeleteTemplate, EndpointExpires, TemplateExpires
    <2>9. CASE Reaper \/ ManagedEndpoint \/ ManagedTemplate
      BY <2>7, <2>9
         DEF history, Reaper, ReaperReads, ReaperLists, ReaperDeletes,
             ManagedEndpoint, EndpointConnects, EndpointPrepares, EndpointCreates,
             EndpointCreateFails, EndpointAdopts, EndpointListsChecks,
             EndpointDeletesObject, EndpointFinalizes, Mep,
             ManagedTemplate, TemplateListsEndpoints, TemplateListsObjects,
             TemplateDeletesObject, TemplateFinalizes, Mtpl
    <2> QED
      BY <2>1, <2>2, <2>3, <2>4, <2>5, <2>6, <2>8, <2>9 DEF TeardownNext, Janitor
  <1> QED BY <1>1, <1>2, <1>3

(* The order of the teardown is an inductive invariant. *)
LEMMA OrderCorrect == TeardownSpec => []OrderInv
  <1>1. OrderInv /\ [TeardownNext]_teardownVars => OrderInv'
    BY TypeStep, LateStep, JanitorStep, DrainStep, TemplateStep, ReapStep DEF OrderInv
  <1> QED BY <1>1, OrderInit, PTL DEF TeardownSpec

(* For every set of checks, a deleted Endpoint is let go, and its RunPod     *)
(* object deleted, only when the checks that were there before are gone      *)
(* (janitor.go:88-99, endpoint.go:413-422).                                  *)
THEOREM DrainedFirst == TeardownSpec => []DrainedBeforeDelete
  <1>1. OrderInv => DrainedBeforeDelete
    BY DEF OrderInv, DrainInv, FoundNone, LateInv, DrainedBeforeDelete, Referring
  <1> QED BY <1>1, OrderCorrect, PTL

(* The Template's object is deleted only when the Endpoint's is gone and no  *)
(* create that resolved the Template is under way (template.go:359-383).     *)
THEOREM EndpointFirst == TeardownSpec => []TemplateOutlivesEndpoint
  <1>1. OrderInv => TemplateOutlivesEndpoint
    BY DEF OrderInv, TemplateInv, TemplateOutlivesEndpoint
  <1> QED BY <1>1, OrderCorrect, PTL

(* The expiry of an Endpoint never loses the intent to reap its Template,    *)
(* wherever the provider restarts (janitor.go:100-112).                      *)
THEOREM ReapRecorded == TeardownSpec => []ReapIntentSurvives
  <1>1. OrderInv => ReapIntentSurvives
    BY DEF OrderInv, ReapInv, ReapIntentSurvives
  <1> QED BY <1>1, OrderCorrect, PTL
=============================================================================
