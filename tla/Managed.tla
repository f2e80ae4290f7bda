------------------------------ MODULE Managed ------------------------------
(***************************************************************************)
(* The life of one managed resource, Endpoint or Template, and of the      *)
(* RunPod object created for it (internal/controller/endpoint/endpoint.go, *)
(* internal/controller/template/template.go), driven by crossplane-        *)
(* runtime's managed reconciler (external) over the RunPod REST client     *)
(* (internal/client/runpod/client.go).                                     *)
(*                                                                         *)
(* The reconciler reads the resource from a cache that may lag, works on   *)
(* its own copy, and writes back with optimistic concurrency, except for   *)
(* the annotations of a create, which are merged unconditionally.  A POST  *)
(* may be ambiguous: the object exists, exists but is not listed yet, or   *)
(* does not exist.  The process may die between any two steps.             *)
(*                                                                         *)
(* Data.  An identifier is one of this resource's (Own), that of an object *)
(* of someone else (Foreign), or valid and naming no object (Unknown); the *)
(* UID-scoped effectiveName tells Own from Foreign.  Whether a response    *)
(* matches the desired input is a free choice.  resourceVersion is the     *)
(* content: the count of edits keeps a write from restoring an earlier one. *)
(***************************************************************************)
EXTENDS Naturals, FiniteSets

CONSTANTS
    Kinds,          \* the kinds of resource considered
    Own, Foreign, Unknown,   \* RunPod identifiers
    None,
    MaxPosts,       \* bound on the create attempts
    MaxTampers,     \* bound on the edits of the external-name annotation
    MaxFaults       \* bound on crashes, failed calls and out-of-band deletions

ASSUME ManagedAssumption ==
    /\ Kinds \subseteq {"Endpoint", "Template"}
    /\ Foreign \notin Own /\ Unknown \notin Own \union {Foreign}
    /\ None \notin Own \union {Foreign, Unknown}
    /\ MaxPosts \in Nat /\ MaxTampers \in Nat /\ MaxFaults \in Nat

VARIABLES
    kind,           \* "Endpoint" or "Template": which of the two controllers runs
    cr,             \* the resource in the API server
    cache,          \* the reconciler's cached copy
    ext,            \* the RunPod objects
    spoiled,        \* RunPod reports the object in a state no PATCH repairs
    expired,        \* the resource's maximum lifetime has elapsed
    pc, base, job,  \* the running reconcile: object read, and its working copy
    overdue,        \* the running reconcile began after the lifetime elapsed
    faults,
    \* auxiliary: objects patched or deleted; a write of an overdue reconcile;
    \* names by which an edit took a bound resource away from its object
    touched, late, lost

vars == <<kind, cr, cache, ext, spoiled, expired, pc, base, job, overdue,
          faults, touched, late, lost>>

Ids == Own \union {Foreign, Unknown}

(* pending, outcome: crossplane's external-create-* annotations; marker:    *)
(* ambiguous-create-name; bound: external-id-bound; ack: ambiguous-create-  *)
(* absence-confirmed; status: status.atProvider.id.                         *)
Resource == [phase : {"live", "deleting", "gone"}, finalizer : BOOLEAN,
             pending : Nat, outcome : {"none", "succeeded", "failed"},
             marker : BOOLEAN, name : Ids \union {None}, bound : BOOLEAN,
             ack : Nat, status : Ids \union {None}, edits : Nat]

NewResource == [phase |-> "live", finalizer |-> FALSE, pending |-> 0,
                outcome |-> "none", marker |-> FALSE, name |-> None,
                bound |-> FALSE, ack |-> 0, status |-> None, edits |-> 0]

Steps == {"idle", "observe", "addFinalizer", "setPending", "create", "recover",
          "annotate", "lateInit", "update", "patch", "delete", "status",
          "removeFinalizer"}

Init ==
    /\ kind \in Kinds
    /\ \E n \in {None, Foreign, Unknown} : cr = [NewResource EXCEPT !.name = n]
    /\ cache = cr /\ base = cr /\ job = cr
    /\ ext = [i \in Ids |-> IF i = Foreign THEN "visible" ELSE "absent"]
    /\ spoiled = FALSE /\ expired = FALSE /\ pc = "idle" /\ overdue = FALSE
    /\ faults = 0 /\ touched = {} /\ late = FALSE /\ lost = {}

(* ------------------ users, operators, RunPod, the watch ------------------ *)

Idle == UNCHANGED <<kind, pc, base, job, overdue, touched, late>>

DeleteResource ==
    /\ cr.phase = "live"
    /\ cr' = [cr EXCEPT !.phase = IF cr.finalizer THEN "deleting" ELSE "gone"]
    /\ Idle /\ UNCHANGED <<cache, ext, spoiled, expired, faults, lost>>

(* The external-name annotation is edited: to any identifier, or removed.    *)
(* Without it, or with one that names no object before status.ID is stored,  *)
(* the controllers take the object of a bound resource for absent.           *)
Tamper(n) ==
    /\ cr.phase # "gone" /\ cr.name # n /\ cr.edits < MaxTampers
    /\ n \in Own => ext[n] = "visible"
    /\ cr' = [cr EXCEPT !.name = n, !.edits = @ + 1]
    /\ lost' = IF cr.bound /\ (n = None \/ (n = Unknown /\ cr.status = None))
               THEN lost \union {n} ELSE lost
    /\ Idle /\ UNCHANGED <<cache, ext, spoiled, expired, faults>>

ExternalCreateIncomplete(r) == r.pending # 0 /\ r.outcome = "none"
Recovering(r) == r.marker \/ ExternalCreateIncomplete(r)

(* The operator has proved that the pending create left no object. *)
AcknowledgeAbsence ==
    /\ cr.phase # "gone" /\ cr.ack = 0 /\ Recovering(cr)
    /\ pc \notin {"create", "recover", "annotate"}
    /\ \A i \in Own : ext[i] \notin {"unlisted", "visible"}
    /\ cr' = [cr EXCEPT !.ack = cr.pending]
    /\ Idle /\ UNCHANGED <<cache, ext, spoiled, expired, faults, lost>>

LifetimeEnds ==
    /\ ~expired
    /\ expired' = TRUE
    /\ Idle /\ UNCHANGED <<cr, cache, ext, spoiled, faults, lost>>

LateVisible(i) ==
    /\ ext[i] = "unlisted"
    /\ ext' = [ext EXCEPT ![i] = "visible"]
    /\ Idle /\ UNCHANGED <<cr, cache, spoiled, expired, faults, lost>>

DeletedOutOfBand(i) ==
    /\ ext[i] = "visible" /\ faults < MaxFaults
    /\ ext' = [ext EXCEPT ![i] = "deleted"]
    /\ faults' = faults + 1
    /\ Idle /\ UNCHANGED <<cr, cache, spoiled, expired, lost>>

Spoil ==
    /\ ~spoiled /\ faults < MaxFaults /\ \E i \in Own : ext[i] = "visible"
    /\ spoiled' = TRUE /\ faults' = faults + 1
    /\ Idle /\ UNCHANGED <<cr, cache, ext, expired, lost>>

Sync ==
    /\ cache # cr
    /\ cache' = cr
    /\ Idle /\ UNCHANGED <<cr, ext, spoiled, expired, faults, lost>>

(* ------------------------- the reconciler: reading ------------------------ *)

Goto(s) == pc' = s /\ UNCHANGED base
Quiet == UNCHANGED <<kind, cache, spoiled, expired, overdue, lost>>

Begin ==
    /\ pc = "idle" /\ cache.phase # "gone"
    /\ base' = cache /\ job' = cache /\ pc' = "observe" /\ overdue' = expired
    /\ UNCHANGED <<kind, cr, cache, ext, spoiled, expired, faults, touched, late, lost>>

(* FindEndpointByName, FindTemplateByName *)
FindByName == {i \in Own : ext[i] = "visible"}

(* Mutant: the marker of the ambiguous create is not cleared. *)
bindExternalID_KeepsMarker(r, i) ==
    [r EXCEPT !.name = i, !.status = i, !.bound = TRUE, !.outcome = "succeeded"]

bindExternalID(r, i) ==
    [r EXCEPT !.name = i, !.status = i, !.bound = TRUE, !.marker = FALSE,
              !.outcome = "succeeded"]

(* A read of Observe or Update fails: the error is recorded in the status.   *)
ReadFails ==
    /\ pc \in {"observe", "update"} /\ faults < MaxFaults
    /\ faults' = faults + 1
    /\ Goto("status") /\ UNCHANGED job
    /\ Quiet /\ UNCHANGED <<cr, ext, touched, late>>

ObserveAcknowledged ==
    /\ pc = "observe" /\ job.phase = "live" /\ job.ack # 0
    /\ Goto("status") /\ UNCHANGED job
    /\ Quiet /\ UNCHANGED <<cr, ext, faults, touched, late>>

(* Mutant: an interrupted create is not recovered. *)
PendingName_IgnoresIncomplete == job.marker
(* pendingName # "" *)
PendingName == Recovering(job)

CanObserve == pc = "observe" /\ (job.phase = "live" => job.ack = 0)

(* Mutant: an empty list is taken for absence. *)
ObserveNotRecovered_TrustsEmptyList ==
    /\ CanObserve /\ PendingName /\ Cardinality(FindByName) # 1
    /\ IF job.phase = "deleting" /\ FindByName = {}
       THEN Goto("removeFinalizer") ELSE Goto("status")
    /\ UNCHANGED job
    /\ Quiet /\ UNCHANGED <<cr, ext, faults, touched, late>>

(* The pending create is not listed: only an exact acknowledgement, on a     *)
(* deleting resource, is taken for absence.                                  *)
ObserveNotRecovered ==
    /\ CanObserve /\ PendingName /\ Cardinality(FindByName) # 1
    /\ IF job.phase = "deleting" /\ FindByName = {} /\ job.pending # 0
          /\ job.ack = job.pending
       THEN Goto("removeFinalizer") ELSE Goto("status")
    /\ UNCHANGED job
    /\ Quiet /\ UNCHANGED <<cr, ext, faults, touched, late>>

(* Endpoint: the PATCH that reasserts the bounded settings before adoption. *)
Reassert(i) ==
    IF kind = "Endpoint"
    THEN touched' = touched \union {i} /\ late' = (late \/ overdue)
    ELSE UNCHANGED <<touched, late>>

ObserveRecovers ==
    /\ CanObserve /\ PendingName
    /\ \E i \in FindByName :
         /\ FindByName = {i}
         /\ \/ /\ job.phase = "deleting"
               /\ job' = bindExternalID(job, i) /\ Goto("delete")
               /\ UNCHANGED <<touched, late>>
            \/ /\ job.phase = "live"
               /\ Reassert(i)
               /\ \/ job' = bindExternalID(job, i) /\ Goto("lateInit")
                  \/ kind = "Endpoint" /\ UNCHANGED job /\ Goto("status")
            \/ /\ job.phase = "live" \/ kind = "Endpoint"     \* a mismatch
               /\ Goto("status") /\ UNCHANGED <<job, touched, late>>
    /\ Quiet /\ UNCHANGED <<cr, ext, faults>>

ObserveAbsent ==
    /\ CanObserve /\ ~PendingName /\ job.name = None
    /\ UNCHANGED job
    /\ Goto(IF job.phase = "deleting" THEN "removeFinalizer" ELSE "addFinalizer")
    /\ Quiet /\ UNCHANGED <<cr, ext, faults, touched, late>>

(* Mutant: the persisted status id is not compared. *)
BindingTrusted_AnyName(r) == r.bound
(* The marker is present and the status, once persisted, agrees. *)
BindingTrusted(r) == r.bound /\ (r.status # None => r.status = r.name)

ObserveUntrusted ==
    /\ CanObserve /\ ~PendingName /\ job.name # None /\ ~BindingTrusted(job)
    /\ Goto("status") /\ UNCHANGED job
    /\ Quiet /\ UNCHANGED <<cr, ext, faults, touched, late>>

ObserveMissing ==
    /\ CanObserve /\ ~PendingName /\ job.name # None /\ BindingTrusted(job)
    /\ ext[job.name] # "visible"
    /\ Goto(IF job.phase = "deleting" THEN "removeFinalizer" ELSE "status")
    /\ UNCHANGED job
    /\ Quiet /\ UNCHANGED <<cr, ext, faults, touched, late>>

(* Mutant: deletion needs the Template too. *)
AfterGet_AlwaysNeedsTemplate(r) ==
    IF r.phase = "live" /\ ~spoiled THEN {"status", "update"} ELSE {"status"}

(* What a GET of the bound object leads to.  An object beyond repair fails   *)
(* Observe, of a terminating resource too (unrepairableExternalState); a     *)
(* terminating Endpoint is connected with an empty templateBinding, which no *)
(* response matches.                                                         *)
AfterGet(r) ==
    IF spoiled THEN {"status"}
    ELSE IF r.phase = "live" THEN {"status", "update"}
    ELSE IF kind = "Endpoint" THEN {"status"} ELSE {"delete"}

ObserveBound ==
    /\ CanObserve /\ ~PendingName /\ job.name # None /\ BindingTrusted(job)
    /\ ext[job.name] = "visible"
    /\ IF job.status = None /\ job.name \notin Own
       THEN Goto("status") /\ UNCHANGED job
       ELSE /\ job' = [job EXCEPT !.status = job.name]
            /\ \E s \in AfterGet(job) : Goto(s)
    /\ Quiet /\ UNCHANGED <<cr, ext, faults, touched, late>>

(* ------------------------- the reconciler: acting ------------------------ *)

(* Update with the resourceVersion that was read; a conflict ends the pass. *)
Write(new, next) ==
    IF cr = base
    THEN cr' = new /\ base' = new /\ job' = new /\ pc' = next
    ELSE pc' = "idle" /\ UNCHANGED <<cr, base, job>>

AddFinalizer ==
    /\ pc = "addFinalizer"
    /\ Write([base EXCEPT !.finalizer = TRUE], "setPending")
    /\ Quiet /\ UNCHANGED <<ext, faults, touched, late>>

(* SetExternalCreatePending, persisted before the POST. *)
SetPending ==
    /\ pc = "setPending" /\ cr.pending < MaxPosts
    /\ Write([base EXCEPT !.pending = @ + 1, !.outcome = "none"], "create")
    /\ Quiet /\ UNCHANGED <<ext, faults, touched, late>>

newId == CHOOSE i \in Own : ext[i] = "absent"
CanPost == \E i \in Own : ext[i] = "absent"

(* Refused before the POST (lifetime, validation) or by a definite response. *)
CreateFails ==
    /\ pc = "create"
    /\ job' = [job EXCEPT !.outcome = "failed"] /\ Goto("annotate")
    /\ Quiet /\ UNCHANGED <<cr, ext, faults, touched, late>>

Create ==
    /\ pc = "create" /\ ~expired /\ CanPost
    /\ ext' = [ext EXCEPT ![newId] = "visible"]
    /\ job' = bindExternalID(job, newId) /\ Goto("annotate")
    /\ late' = (late \/ overdue)
    /\ Quiet /\ UNCHANGED <<cr, faults, touched>>

markAmbiguousCreate(r) == [r EXCEPT !.marker = TRUE, !.outcome = "succeeded"]

(* ErrCreateAmbiguous: the POST may have been carried out. *)
CreateAmbiguous ==
    /\ pc = "create" /\ ~expired /\ CanPost
    /\ \E s \in {"absent", "unlisted", "visible"} : ext' = [ext EXCEPT ![newId] = s]
    /\ job' = markAmbiguousCreate(job) /\ Goto("recover")
    /\ late' = (late \/ overdue)
    /\ Quiet /\ UNCHANGED <<cr, faults, touched>>

(* Not listed or not matching; or the listed object is bound, or the PATCH   *)
(* that reasserts it fails.                                                  *)
recoverAmbiguousCreate ==
    /\ pc = "recover"
    /\ \/ UNCHANGED <<job, touched, late>>
       \/ \E i \in FindByName :
            /\ FindByName = {i} /\ Reassert(i)
            /\ \/ job' = bindExternalID(job, i)
               \/ kind = "Endpoint" /\ UNCHANGED job
    /\ Goto("annotate")
    /\ Quiet /\ UNCHANGED <<cr, ext, faults>>

(* UpdateCriticalAnnotations: annotations are merged into whatever the       *)
(* object has become; the status written by Create is discarded.             *)
Annotate ==
    /\ pc = "annotate"
    /\ cr' = [cr EXCEPT !.pending = job.pending, !.outcome = job.outcome,
                        !.marker = job.marker, !.bound = job.bound,
                        !.name = IF job.name # None THEN job.name ELSE @]
    /\ Goto("idle") /\ UNCHANGED job
    /\ Quiet /\ UNCHANGED <<ext, faults, touched, late>>

(* The recovered binding is persisted; the status is not. *)
LateInitialize ==
    /\ pc = "lateInit"
    /\ Write([job EXCEPT !.status = base.status], "idle")
    /\ Quiet /\ UNCHANGED <<ext, faults, touched, late>>

(* Mutant: no ensureLifetimeActive before the PATCH. *)
Update_IgnoresLifetime ==
    /\ pc = "update"
    /\ Goto(IF job.status = job.name /\ ext[job.name] = "visible"
            THEN "patch" ELSE "status")
    /\ UNCHANGED job
    /\ Quiet /\ UNCHANGED <<cr, ext, faults, touched, late>>

(* ensureLifetimeActive, the identity guard and the GET.                     *)
Update ==
    /\ pc = "update"
    /\ Goto(IF ~expired /\ job.status = job.name /\ ext[job.name] = "visible"
            THEN "patch" ELSE "status")
    /\ UNCHANGED job
    /\ Quiet /\ UNCHANGED <<cr, ext, faults, touched, late>>

(* The PATCH, after a GET that may have been retried for a while. *)
Patch ==
    /\ pc = "patch"
    /\ touched' = touched \union {job.name} /\ late' = (late \/ overdue)
    /\ Goto("status") /\ UNCHANGED job
    /\ Quiet /\ UNCHANGED <<cr, ext, faults>>

Delete ==
    /\ pc = "delete" /\ job.status = job.name
    /\ IF ext[job.name] = "visible"
       THEN /\ ext' = [ext EXCEPT ![job.name] = "deleted"]
            /\ touched' = touched \union {job.name}
       ELSE UNCHANGED <<ext, touched>>
    /\ Goto("status") /\ UNCHANGED job
    /\ Quiet /\ UNCHANGED <<cr, faults, late>>

(* Something still refers to the object, or the call fails. *)
DeleteRefused ==
    /\ pc = "delete" /\ faults < MaxFaults
    /\ faults' = faults + 1
    /\ Goto("status") /\ UNCHANGED job
    /\ Quiet /\ UNCHANGED <<cr, ext, touched, late>>

(* Status().Update: the status subresource only. *)
UpdateStatus ==
    /\ pc = "status"
    /\ Write([base EXCEPT !.status = job.status], "idle")
    /\ Quiet /\ UNCHANGED <<ext, faults, touched, late>>

RemoveFinalizer ==
    /\ pc = "removeFinalizer"
    /\ Write([base EXCEPT !.finalizer = FALSE, !.phase = "gone"], "idle")
    /\ Quiet /\ UNCHANGED <<ext, faults, touched, late>>

(* The process dies, or an API call fails; a POST may be under way. *)
Abandon ==
    /\ pc # "idle" /\ faults < MaxFaults
    /\ faults' = faults + 1
    /\ \/ UNCHANGED ext
       \/ /\ pc = "create" /\ ~expired /\ CanPost
          /\ ext' = [ext EXCEPT ![newId] = "unlisted"]
    /\ Goto("idle") /\ UNCHANGED job
    /\ Quiet /\ UNCHANGED <<cr, touched, late>>

-----------------------------------------------------------------------------

Environment ==
    \/ DeleteResource \/ AcknowledgeAbsence \/ LifetimeEnds \/ Sync \/ Spoil
    \/ \E n \in Ids \union {None} : Tamper(n)
    \/ \E i \in Own : LateVisible(i) \/ DeletedOutOfBand(i)

Observe ==
    \/ ObserveAcknowledged \/ ObserveNotRecovered \/ ObserveRecovers
    \/ ObserveAbsent \/ ObserveUntrusted \/ ObserveMissing \/ ObserveBound

Act ==
    \/ AddFinalizer \/ SetPending \/ Create \/ CreateFails \/ CreateAmbiguous
    \/ recoverAmbiguousCreate \/ Annotate \/ LateInitialize \/ Update \/ Patch
    \/ Delete \/ UpdateStatus \/ RemoveFinalizer

Next == Environment \/ Begin \/ Observe \/ ReadFails \/ Act \/ DeleteRefused \/ Abandon

Spec == Init /\ [][Next]_vars

(* The watch delivers, the work queue retries, and every call returns. *)
Fairness == WF_vars(Sync) /\ WF_vars(Begin) /\ WF_vars(Observe) /\ WF_vars(Act)
FairSpec == Spec /\ Fairness

-----------------------------------------------------------------------------

Types ==
    /\ kind \in Kinds
    /\ {cr, cache, base, job} \subseteq Resource
    /\ ext \in [Ids -> {"absent", "unlisted", "visible", "deleted"}]
    /\ pc \in Steps
    /\ spoiled \in BOOLEAN /\ expired \in BOOLEAN
    /\ overdue \in BOOLEAN /\ late \in BOOLEAN
    /\ faults \in Nat /\ touched \subseteq Ids /\ lost \subseteq {None, Unknown}

(* The types of the stored, cached and working copies and of the objects;    *)
(* and a copy bound to an object has no create in doubt (bindExternalID),    *)
(* unless its external name was removed.                                     *)
TypeOK ==
    /\ Types
    /\ None \notin lost =>
         \A r \in {cr, cache, base, job} : r.bound => ~Recovering(r)

(* One resource never has two RunPod objects, whatever the order of crashes, *)
(* ambiguous POSTs, late listings, stale cache reads and edits of the        *)
(* external name, as long as nobody removes the name of a bound resource     *)
(* (Create, Observe).                                                        *)
AtMostOne ==
    None \notin lost =>
        \A i, j \in Own : ext[i] # "absent" /\ ext[j] # "absent" => i = j

(* The finalizer is removed only when the RunPod object is gone: no billed   *)
(* object is left without a resource.  The external name may be edited to    *)
(* another object's, and once status.ID is stored to any identifier; of a    *)
(* bound resource it must not be removed, nor name nothing before that.      *)
GoneMeansDeleted ==
    lost = {} /\ cr.phase = "gone" =>
        \A i \in Own : ext[i] \in {"absent", "deleted"}

(* An object that this resource did not create is never patched or deleted,  *)
(* whatever the external-name annotation says.                               *)
ForeignUntouched == Foreign \notin touched

(* A reconcile that begins after the lifetime has elapsed issues no POST or  *)
(* PATCH: the least that docs/security.md:104-105 says of the Endpoint       *)
(* controller, which it has check the deadline immediately before each.      *)
NoWriteAfterDeadline == ~late

(* The same for a Template, whose recovery of an ambiguous create only reads *)
(* (ensureLifetimeActive in template.go).  A reconcile already past its      *)
(* check when the lifetime elapses may still write.                          *)
TemplateWritesInTime == kind = "Template" => ~late

(* A terminating resource whose object is bound is finally deleted           *)
(* (endpoint.go:448-450).                                                    *)
BoundDeletionCompletes ==
    cr.phase = "deleting" /\ cr.bound /\ ~Recovering(cr) ~> cr.phase = "gone"

(* A terminating Template whose object is bound is finally deleted, however  *)
(* its create ended, unless the external name was edited or RunPod reports   *)
(* the object beyond repair, which fails Observe before Delete is reached    *)
(* (template.go:208-211).                                                    *)
TemplateDeletionCompletes ==
    kind = "Template" /\ cr.phase = "deleting" /\ cr.bound /\ ~Recovering(cr)
        ~> cr.phase = "gone" \/ cr.edits > 0 \/ spoiled
=============================================================================
