------------------------------ MODULE Teardown ------------------------------
(***************************************************************************)
(* The order in which an experiment is taken down: EndpointChecks, then    *)
(* the RunPod Endpoint, then the Template.  Five independent reconcilers   *)
(* take part: the lifetime janitor and the Template reaper                 *)
(* (internal/controller/janitor/janitor.go), the managed Endpoint and      *)
(* Template controllers (their Create and Delete), and model-router, which *)
(* admits, routes and drains checks.                                       *)
(*                                                                         *)
(* One Template, one Endpoint that refers to it, and some checks that      *)
(* refer to the Endpoint.  Each API read, list, write and RunPod call is a *)
(* step; a reconciler acts on what it read however long ago that was.      *)
(* The router is weaker here than in module Router: once a check has been  *)
(* resolved against a live Endpoint it may be routed at any later time.    *)
(* That it routes a check only under the drain finalizer and removes the   *)
(* finalizer only from an unused check are assumptions of this module (the *)
(* guards of Route and AcknowledgeDrain); they are what Drain's Enter and  *)
(* LetGo say, which Router is shown to keep.                               *)
(***************************************************************************)
EXTENDS Naturals

CONSTANTS
    Checks,         \* EndpointCheck names
    DeleteReferencedTemplateOnExpiry,   \* shouldDeleteTemplate of the Endpoint
    MaxCreations,   \* bound on the checks created
    MaxCrashes      \* bound on the provider's restarts

ASSUME TeardownAssumption ==
    /\ DeleteReferencedTemplateOnExpiry \in BOOLEAN
    /\ MaxCreations \in Nat /\ MaxCrashes \in Nat

VARIABLES
    check,          \* per check: phase, drain finalizer, admitted, routed, and
                    \* whether it was created after the Endpoint's deletion
    ep, tpl,        \* the Endpoint and the Template, each with its RunPod object
    epExpired, tplExpired,
    jan,            \* janitor: step, the Endpoint it read, expired?, checks listed
    reap,           \* reaper: step
    mep, mtpl,      \* managed Endpoint and Template controllers: step
    creations, crashes,
    \* auxiliary: the janitor deleted the Endpoint, let go of a deleted one
    byTTL, released

teardownVars ==
    <<check, ep, tpl, epExpired, tplExpired, jan, reap, mep, mtpl,
      creations, crashes, byTTL, released>>
history == <<byTTL, released>>
clocks == <<epExpired, tplExpired>>
controllers == <<jan, reap, mep, mtpl>>
counts == <<creations, crashes>>

(* A check is routed only once admitted, and admitted only under its drain   *)
(* finalizer.                                                                *)
Check ==
    {c \in [phase : {"absent", "live", "deleting"}, drain : BOOLEAN,
            admitted : BOOLEAN, routed : BOOLEAN, late : BOOLEAN] :
       (c.routed => c.admitted) /\ (c.admitted => c.drain)}
NoCheck == [phase |-> "absent", drain |-> FALSE, admitted |-> FALSE,
            routed |-> FALSE, late |-> FALSE]

(* lifetime, managed: finalizers; recovering: the create was ambiguous and   *)
(* Observe finds the object by name; object: "removed" is out of band.       *)
Endpoint == [phase : {"none", "live", "deleting", "gone"}, lifetime : BOOLEAN,
             managed : BOOLEAN, recovering : BOOLEAN,
             object : {"none", "present", "deleted", "removed"}]
Template == [phase : {"live", "deleting", "gone"}, reap : BOOLEAN,
             object : {"present", "deleted"}]

NoEndpoint == [phase |-> "none", lifetime |-> FALSE, managed |-> FALSE,
               recovering |-> FALSE, object |-> "none"]

(* A pass of the janitor: where it is, the Endpoint it read, whether it found *)
(* it expired, and the checks still to delete.                               *)
Janitors == [step : {"idle", "decide", "list", "deleteChecks", "mark", "delete",
                     "release"},
             ep : Endpoint, expired : BOOLEAN, todo : SUBSET Checks]
NoJan == [step |-> "idle", ep |-> NoEndpoint, expired |-> FALSE, todo |-> {}]

TeardownInit ==
    /\ check = [c \in Checks |-> NoCheck]
    /\ ep = NoEndpoint
    /\ tpl = [phase |-> "live", reap |-> FALSE, object |-> "present"]
    /\ epExpired = FALSE /\ tplExpired = FALSE
    /\ jan = NoJan /\ reap = "idle" /\ mep = "idle" /\ mtpl = "idle"
    /\ creations = 0 /\ crashes = 0 /\ byTTL = FALSE /\ released = FALSE

Exists(e) == e.phase \in {"live", "deleting"}
Referring == {c \in Checks : check[c].phase # "absent"}

(* --------------------------- users and deadlines ------------------------- *)

CreateEndpoint ==
    /\ ep.phase = "none"
    /\ ep' = [ep EXCEPT !.phase = "live"]
    /\ UNCHANGED <<check, tpl, clocks, controllers, counts, history>>

Deleted(e) == [e EXCEPT !.phase = IF e.lifetime \/ e.managed THEN "deleting" ELSE "gone"]

DeleteEndpoint ==
    /\ ep.phase = "live"
    /\ ep' = Deleted(ep)
    /\ UNCHANGED <<check, tpl, clocks, controllers, counts, history>>

(* The Template keeps its finalizer: it has been created. *)
DeleteTemplate ==
    /\ tpl.phase = "live"
    /\ tpl' = [tpl EXCEPT !.phase = "deleting"]
    /\ UNCHANGED <<check, ep, clocks, controllers, counts, history>>

EndpointExpires ==
    /\ ~epExpired /\ ep.phase # "none"
    /\ epExpired' = TRUE
    /\ UNCHANGED <<check, ep, tpl, tplExpired, controllers, counts, history>>

TemplateExpires ==
    /\ ~tplExpired
    /\ tplExpired' = TRUE
    /\ UNCHANGED <<check, ep, tpl, epExpired, controllers, counts, history>>

RemovedOutOfBand ==
    /\ ep.object = "present"
    /\ ep' = [ep EXCEPT !.object = "removed"]
    /\ UNCHANGED <<check, tpl, clocks, controllers, counts, history>>

(* ------------------------- checks and model-router ----------------------- *)

SetCheck(c, r) ==
    /\ check' = [check EXCEPT ![c] = r]
    /\ UNCHANGED <<ep, tpl, clocks, controllers, crashes, history>>

CreateCheck(c) ==
    /\ check[c].phase = "absent" /\ creations < MaxCreations
    /\ creations' = creations + 1
    /\ SetCheck(c, [NoCheck EXCEPT !.phase = "live",
                                    !.late = ep.phase \in {"deleting", "gone"}])

AddDrainFinalizer(c) ==
    /\ check[c].phase = "live" /\ ~check[c].drain
    /\ SetCheck(c, [check[c] EXCEPT !.drain = TRUE]) /\ UNCHANGED creations

(* Mutant: the drain finalizer is not waited for. *)
Resolve_Unguarded(c) ==
    /\ check[c].phase = "live"
    /\ ep.phase = "live" /\ ep.object = "present" /\ ~ep.recovering
    /\ ~epExpired /\ tpl.phase = "live" /\ ~tplExpired
    /\ SetCheck(c, [check[c] EXCEPT !.admitted = TRUE]) /\ UNCHANGED creations

(* resolveEndpoint: the Endpoint is live and bound to its object, and no     *)
(* deadline has passed.                                                      *)
Resolve(c) ==
    /\ check[c].phase = "live" /\ check[c].drain
    /\ ep.phase = "live" /\ ep.object = "present" /\ ~ep.recovering
    /\ ~epExpired /\ tpl.phase = "live" /\ ~tplExpired
    /\ SetCheck(c, [check[c] EXCEPT !.admitted = TRUE]) /\ UNCHANGED creations

DeletedCheck(r) == IF r.drain THEN [r EXCEPT !.phase = "deleting"] ELSE NoCheck

DeleteCheck(c) ==
    /\ check[c].phase = "live"
    /\ SetCheck(c, DeletedCheck(check[c])) /\ UNCHANGED creations

Route(c) ==
    /\ check[c].phase = "live" /\ check[c].admitted
    /\ SetCheck(c, [check[c] EXCEPT !.routed = TRUE]) /\ UNCHANGED creations

(* The route is withdrawn and its requests have drained. *)
Withdraw(c) ==
    /\ check[c].routed
    /\ SetCheck(c, [check[c] EXCEPT !.routed = FALSE, !.admitted = FALSE])
    /\ UNCHANGED creations

AcknowledgeDrain(c) ==
    /\ check[c].phase = "deleting" /\ ~check[c].routed
    /\ SetCheck(c, NoCheck) /\ UNCHANGED creations

(* ------------------------------- the janitor ----------------------------- *)

Jan(j) == jan' = j /\ UNCHANGED <<clocks, reap, mep, mtpl, counts>>

(* The resourceVersion of an Endpoint: its content, of which an out-of-band  *)
(* removal of the RunPod object is no part.                                  *)
Version(e) == [e EXCEPT !.object = IF @ = "removed" THEN "present" ELSE @]

(* The cached read. *)
JanitorReads ==
    /\ jan.step = "idle" /\ Exists(ep)
    /\ Jan([NoJan EXCEPT !.step = "decide", !.ep = ep])
    /\ UNCHANGED <<check, ep, tpl, history>>

JanitorAddsFinalizer ==
    /\ jan.step = "decide" /\ jan.ep.phase = "live" /\ ~jan.ep.lifetime
    /\ ep' = IF Version(ep) = Version(jan.ep) THEN [ep EXCEPT !.lifetime = TRUE] ELSE ep
    /\ Jan(NoJan)
    /\ UNCHANGED <<check, tpl, history>>

(* Mutant: only an expired Endpoint has its checks deleted. *)
JanitorDecides_TTLOnly ==
    /\ jan.step = "decide" /\ (jan.ep.phase = "live" => jan.ep.lifetime)
    /\ Jan(IF ~epExpired THEN NoJan
           ELSE [jan EXCEPT !.step = "list", !.expired = epExpired])
    /\ UNCHANGED <<check, ep, tpl, history>>

(* Not expired and not deleting: wait.  Otherwise list the checks. *)
JanitorDecides ==
    /\ jan.step = "decide" /\ (jan.ep.phase = "live" => jan.ep.lifetime)
    /\ Jan(IF jan.ep.phase = "live" /\ ~epExpired THEN NoJan
           ELSE [jan EXCEPT !.step = "list", !.expired = epExpired])
    /\ UNCHANGED <<check, ep, tpl, history>>

(* Mutant: checks that are being drained are not waited for. *)
JanitorLists_IgnoresDraining ==
    /\ jan.step = "list"
    /\ LET found == {c \in Referring : check[c].phase = "live"} IN
         Jan(IF found = {} THEN [jan EXCEPT !.step = "mark"]
             ELSE [jan EXCEPT !.step = "deleteChecks", !.todo = found])
    /\ UNCHANGED <<check, ep, tpl, history>>

(* deleteChecks; anything listed sends it back to wait. *)
JanitorLists ==
    /\ jan.step = "list"
    /\ Jan(IF Referring = {} THEN [jan EXCEPT !.step = "mark"]
           ELSE [jan EXCEPT !.step = "deleteChecks", !.todo = Referring])
    /\ UNCHANGED <<check, ep, tpl, history>>

JanitorDeletesCheck(c) ==
    /\ jan.step = "deleteChecks" /\ c \in jan.todo
    /\ check' = [check EXCEPT ![c] = IF @.phase = "live" THEN DeletedCheck(@) ELSE @]
    /\ LET rest == jan.todo \ {c} IN
         Jan(IF rest = {} THEN NoJan ELSE [jan EXCEPT !.todo = rest])
    /\ UNCHANGED <<ep, tpl, history>>

(* Mutant: the Template is not marked. *)
JanitorMarks_Skipped ==
    /\ jan.step = "mark"
    /\ UNCHANGED tpl
    /\ Jan([jan EXCEPT !.step = IF jan.ep.phase = "live" THEN "delete" ELSE "release"])
    /\ UNCHANGED <<check, ep, history>>

(* markTemplateForReaping: a get and an update; a conflict retries.          *)
JanitorMarks ==
    /\ jan.step = "mark"
    /\ tpl' = IF jan.expired /\ DeleteReferencedTemplateOnExpiry /\ tpl.phase # "gone"
              THEN [tpl EXCEPT !.reap = TRUE] ELSE tpl
    /\ Jan([jan EXCEPT !.step = IF jan.ep.phase = "live" THEN "delete" ELSE "release"])
    /\ UNCHANGED <<check, ep, history>>

JanitorDeletesEndpoint ==
    /\ jan.step = "delete"
    /\ ep' = IF ep.phase = "live" THEN Deleted(ep) ELSE ep
    /\ byTTL' = (byTTL \/ ep.phase = "live")
    /\ Jan(NoJan)
    /\ UNCHANGED <<check, tpl, released>>

(* The lifetime finalizer goes while crossplane's is still there. *)
JanitorReleases ==
    /\ jan.step = "release"
    /\ \/ /\ Version(ep) = Version(jan.ep) /\ ep.lifetime
          /\ ep' = [ep EXCEPT !.lifetime = FALSE,
                              !.phase = IF ep.managed THEN "deleting" ELSE "gone"]
          /\ released' = TRUE
       \/ /\ ~(Version(ep) = Version(jan.ep) /\ ep.lifetime)
          /\ UNCHANGED <<ep, released>>
    /\ Jan(NoJan)
    /\ UNCHANGED <<check, tpl, byTTL>>

(* ------------------------------- the reaper ------------------------------ *)

ReaperReads ==
    /\ reap = "idle" /\ tpl.phase = "live" /\ (tpl.reap \/ tplExpired)
    /\ reap' = "list"
    /\ UNCHANGED <<check, ep, tpl, clocks, jan, mep, mtpl, counts, history>>

ReaperLists ==
    /\ reap = "list"
    /\ reap' = IF Exists(ep) THEN "idle" ELSE "delete"
    /\ UNCHANGED <<check, ep, tpl, clocks, jan, mep, mtpl, counts, history>>

ReaperDeletes ==
    /\ reap = "delete"
    /\ tpl' = IF tpl.phase = "live" THEN [tpl EXCEPT !.phase = "deleting"] ELSE tpl
    /\ reap' = "idle"
    /\ UNCHANGED <<check, ep, clocks, jan, mep, mtpl, counts, history>>

(* ---------------------- the managed Endpoint controller ------------------ *)

Mep(s) == mep' = s /\ UNCHANGED <<check, tpl, clocks, jan, reap, mtpl, counts, history>>

(* resolveTemplate *)
EndpointConnects ==
    /\ mep = "idle" /\ ep.phase = "live" /\ ep.object = "none"
    /\ tpl.phase = "live" /\ ~tplExpired
    /\ Mep("connected") /\ UNCHANGED ep

(* AddFinalizer and the pending annotation: refused once it is terminating.  *)
EndpointPrepares ==
    /\ mep = "connected"
    /\ IF ep.phase = "live"
       THEN Mep("create") /\ ep' = [ep EXCEPT !.managed = TRUE]
       ELSE Mep("idle") /\ UNCHANGED ep

EndpointCreates ==
    /\ mep = "create" /\ ~epExpired
    /\ \E r \in BOOLEAN : ep' = [ep EXCEPT !.object = "present", !.recovering = r]
    /\ Mep("idle")

EndpointCreateFails ==
    /\ mep = "create"
    /\ Mep("idle") /\ UNCHANGED ep

(* Recovery by name binds the object while the Endpoint is live. *)
EndpointAdopts ==
    /\ mep = "idle" /\ ep.phase = "live" /\ ep.object = "present" /\ ep.recovering
    /\ tpl.phase = "live" /\ ~tplExpired
    /\ Mep("idle") /\ ep' = [ep EXCEPT !.recovering = FALSE]

(* Observe and Delete.  crossplane-runtime waits for the other finalizers.   *)
(* Only a recovering Endpoint passes Observe (see Managed!AfterGet).         *)
EndpointListsChecks ==
    /\ mep = "idle" /\ ep.phase = "deleting" /\ ~ep.lifetime
    /\ ep.object = "present" /\ ep.recovering
    /\ Referring = {}
    /\ Mep("delete") /\ UNCHANGED ep

EndpointDeletesObject ==
    /\ mep = "delete"
    /\ ep' = [ep EXCEPT !.object = IF @ = "present" THEN "deleted" ELSE @]
    /\ Mep("idle")

(* The object is not found, or its absence was acknowledged. *)
EndpointFinalizes ==
    /\ mep = "idle" /\ ep.phase = "deleting" /\ ep.managed /\ ep.object # "present"
    /\ ep' = [ep EXCEPT !.managed = FALSE,
                        !.phase = IF ep.lifetime THEN "deleting" ELSE "gone"]
    /\ Mep("idle")

(* ---------------------- the managed Template controller ------------------ *)

Mtpl(s) == mtpl' = s /\ UNCHANGED <<check, ep, clocks, jan, reap, mep, counts, history>>

(* Mutant: a terminating Endpoint does not hold the Template back. *)
TemplateListsEndpoints_LiveOnly ==
    /\ mtpl = "idle" /\ tpl.phase = "deleting" /\ tpl.object = "present"
    /\ ep.phase # "live"
    /\ Mtpl("listed") /\ UNCHANGED tpl

(* Endpoint resources, terminating ones too. *)
TemplateListsEndpoints ==
    /\ mtpl = "idle" /\ tpl.phase = "deleting" /\ tpl.object = "present"
    /\ ~Exists(ep)
    /\ Mtpl("listed") /\ UNCHANGED tpl

(* RunPod Endpoints that are bound to the Template. *)
TemplateListsObjects ==
    /\ mtpl = "listed"
    /\ Mtpl(IF ep.object = "present" THEN "idle" ELSE "delete") /\ UNCHANGED tpl

TemplateDeletesObject ==
    /\ mtpl = "delete"
    /\ tpl' = [tpl EXCEPT !.object = "deleted"]
    /\ Mtpl("idle")

TemplateFinalizes ==
    /\ mtpl = "idle" /\ tpl.phase = "deleting" /\ tpl.object = "deleted"
    /\ tpl' = [tpl EXCEPT !.phase = "gone"]
    /\ Mtpl("idle")

(* The provider restarts; a POST or DELETE already sent still takes effect.  *)
Crash ==
    /\ crashes < MaxCrashes
    /\ crashes' = crashes + 1
    /\ jan' = NoJan /\ reap' = "idle"
    /\ mep' = IF mep = "connected" THEN "idle" ELSE mep
    /\ mtpl' = IF mtpl = "listed" THEN "idle" ELSE mtpl
    /\ UNCHANGED <<check, ep, tpl, clocks, creations, history>>

-----------------------------------------------------------------------------

Users == CreateEndpoint \/ DeleteEndpoint \/ DeleteTemplate \/ EndpointExpires
            \/ TemplateExpires \/ RemovedOutOfBand
CheckStep(c) == CreateCheck(c) \/ AddDrainFinalizer(c) \/ Resolve(c)
            \/ DeleteCheck(c) \/ Route(c) \/ Withdraw(c) \/ AcknowledgeDrain(c)
Janitor == JanitorReads \/ JanitorAddsFinalizer \/ JanitorDecides \/ JanitorLists
            \/ (\E c \in Checks : JanitorDeletesCheck(c)) \/ JanitorMarks
            \/ JanitorDeletesEndpoint \/ JanitorReleases
Reaper == ReaperReads \/ ReaperLists \/ ReaperDeletes
ManagedEndpoint == EndpointConnects \/ EndpointPrepares \/ EndpointCreates
            \/ EndpointCreateFails \/ EndpointAdopts \/ EndpointListsChecks \/ EndpointDeletesObject
            \/ EndpointFinalizes
ManagedTemplate == TemplateListsEndpoints \/ TemplateListsObjects
            \/ TemplateDeletesObject \/ TemplateFinalizes

TeardownNext ==
    Users \/ (\E c \in Checks : CheckStep(c)) \/ Janitor \/ Reaper
    \/ ManagedEndpoint \/ ManagedTemplate \/ Crash

TeardownSpec == TeardownInit /\ [][TeardownNext]_teardownVars

(* Reconcilers are requeued until done, and the router polls; nobody need    *)
(* create or delete anything.                                                *)
TeardownFairness ==
    /\ WF_teardownVars(Janitor)
    /\ \A c \in Checks :
         /\ WF_teardownVars(Withdraw(c) /\ check[c].phase = "deleting")
         /\ WF_teardownVars(AcknowledgeDrain(c))
    /\ WF_teardownVars(Reaper)
FairTeardown == TeardownSpec /\ TeardownFairness

-----------------------------------------------------------------------------

(* The types of the objects and of the reconcilers' local state.  Part of    *)
(* the type of a check is that it is admitted and routed only while it       *)
(* carries the drain finalizer, whoever deletes it meanwhile                 *)
(* (endpointcheck.go:94-97).                                                 *)
TeardownTypeOK ==
    /\ check \in [Checks -> Check] /\ ep \in Endpoint /\ tpl \in Template
    /\ epExpired \in BOOLEAN /\ tplExpired \in BOOLEAN /\ history \in BOOLEAN \X BOOLEAN
    /\ jan \in Janitors
    /\ reap \in {"idle", "list", "delete"}
    /\ mep \in {"idle", "connected", "create", "delete"}
    /\ mtpl \in {"idle", "listed", "delete"}
    /\ creations \in Nat /\ crashes \in Nat

(* Once the janitor lets go of a deleted Endpoint, or the provider deletes   *)
(* its RunPod object, every check that was there before the Endpoint's       *)
(* deletion has been drained and is gone; a check created since cannot have  *)
(* been routed (janitor.go:88-99, endpoint.go:413-422).                      *)
DrainedBeforeDelete ==
    ep.object = "deleted" \/ released =>
        \A c \in Referring : check[c].late /\ ~check[c].routed

(* A Template's object is deleted only after the Endpoint object bound to    *)
(* it, although the Endpoint controller may be about to POST with a Template *)
(* it resolved earlier (template.go:359-383).                                *)
TemplateOutlivesEndpoint == tpl.object = "deleted" => ep.object # "present"

(* When the janitor deletes an expired Endpoint, the intent to reap its      *)
(* Template is already recorded: no crash loses it (janitor.go:100-112).     *)
ReapIntentSurvives ==
    byTTL /\ DeleteReferencedTemplateOnExpiry => tpl.reap \/ tpl.phase # "live"

(* Whoever deletes an Endpoint that carries the lifetime finalizer, every    *)
(* check that refers to it is finally gone (janitor.go:88-99, 125-141).      *)
ChecksDrain ==
    ep.phase = "deleting" /\ ep.lifetime ~> Referring = {} \/ ~ep.lifetime
=============================================================================
