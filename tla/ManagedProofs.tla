--------------------------- MODULE ManagedProofs ---------------------------
(***************************************************************************)
(* Proofs about Managed: for any number of identities, posts, edits and    *)
(* faults, and but for the edits that hide the object (lost), a resource   *)
(* never has two RunPod objects and its finalizer is not removed while one *)
(* is left; a foreign object is never touched.                             *)
(***************************************************************************)
EXTENDS Managed, TLAPS

(* No object was ever created for this resource; none is left. *)
Empty == \A i \in Own : ext[i] = "absent"
Settled == \A i \in Own : ext[i] \in {"absent", "deleted"}

(* A copy of the resource, however stale, names only an object that was     *)
(* created and listed, its status holds no other identity, and bound to     *)
(* nothing it was edited.                                                    *)
Sound(r) ==
    /\ r.status \notin {Foreign, Unknown}
    /\ r.name \in Own => ext[r.name] \in {"visible", "deleted"}
    /\ r.bound /\ r.name = None => None \in lost
    /\ r.bound /\ r.name = Unknown /\ r.status = None => Unknown \in lost
    /\ r.bound /\ Recovering(r) => None \in lost

(* A copy that keeps no trace of a create but, perhaps, its binding. *)
Blank(r) == r.name = None /\ ~Recovering(r)

CopiesSound == Sound(cr) /\ Sound(cache) /\ Sound(base) /\ Sound(job)

(* What the stored resource says about the objects. *)
StoredTrace ==
    /\ ext[Foreign] = "visible" /\ ext[Unknown] = "absent"
    /\ lost # {} => cr.bound
    /\ ~cr.bound /\ ~Recovering(cr) => Empty
    /\ ~cr.finalizer /\ cr.phase # "gone" => Empty
    /\ cr.ack # 0 => Settled

(* What the running reconcile knows at each of its steps. *)
Incomplete ==
    /\ ExternalCreateIncomplete(cr) /\ cr.pending = job.pending
    /\ cr.finalizer /\ cr.phase # "gone" /\ cr.ack = 0

JobPlan ==
    /\ pc = "observe" => job = base /\ base.phase # "gone"
    /\ pc \in {"addFinalizer", "setPending"} =>
         base.phase = "live" /\ base.ack = 0 /\ Blank(base)
    /\ pc = "setPending" => base.finalizer
    /\ pc \in {"create", "recover", "annotate"} => Incomplete
    /\ pc \in {"create", "recover"} => job.name = None /\ (job.bound <=> cr.bound)
    /\ pc = "create" => (None \notin lost => Empty) /\ ~job.marker
    /\ pc = "recover" => job.marker
    /\ pc = "annotate" =>
         \/ job.name \in Own /\ job.bound
         \/ /\ job.name = None /\ (job.bound <=> cr.bound)
            /\ job.marker \/ (None \notin lost => Empty)
    /\ pc \in {"update", "patch", "delete"} => job.name \in Own
    /\ pc = "patch" => ~overdue
    /\ pc = "lateInit" =>
         job.name \in Own /\ job = bindExternalID(base, job.name)
    /\ pc = "removeFinalizer" =>
         \/ base.ack # 0
         \/ Blank(base)
         \/ base.name \in Own /\ ext[base.name] = "deleted"
         \/ Unknown \in lost

(* The working copy never loses a status that was stored. *)
StatusKept == pc # "idle" /\ job.status = None => base.status = None

IInv ==
    /\ TypeOK /\ CopiesSound /\ StoredTrace /\ JobPlan /\ StatusKept
    /\ overdue => expired
    /\ AtMostOne /\ GoneMeansDeleted /\ ForeignUntouched /\ TemplateWritesInTime

-----------------------------------------------------------------------------
(*                          Helpers of the operators                         *)

(* A record update of one field, or of several, stays a resource. *)
LEMMA ResourceUpdate ==
    ASSUME NEW r \in Resource
    PROVE  /\ \A i \in Ids : bindExternalID(r, i) \in Resource
           /\ markAmbiguousCreate(r) \in Resource
           /\ \A s \in Ids \union {None} : [r EXCEPT !.status = s] \in Resource
           /\ [r EXCEPT !.finalizer = TRUE] \in Resource
           /\ [r EXCEPT !.finalizer = FALSE, !.phase = "gone"] \in Resource
           /\ [r EXCEPT !.pending = @ + 1, !.outcome = "none"] \in Resource
           /\ [r EXCEPT !.outcome = "failed"] \in Resource
           /\ \A n \in Ids \union {None} :
                [r EXCEPT !.name = n, !.edits = @ + 1] \in Resource
           /\ \A n \in Nat : [r EXCEPT !.ack = n] \in Resource
           /\ \A p \in {"live", "deleting", "gone"} :
                [r EXCEPT !.phase = p] \in Resource
<1>1. ASSUME NEW i \in Ids
      PROVE  bindExternalID(r, i) \in Resource
  <2> DEFINE a == [r EXCEPT !.name = i]
             b == [a EXCEPT !.status = i]
             c == [b EXCEPT !.bound = TRUE]
             d == [c EXCEPT !.marker = FALSE]
  <2>1. a \in Resource
    BY DEF Resource
  <2>2. b \in Resource
    BY <2>1 DEF Resource
  <2>3. c \in Resource
    BY <2>2 DEF Resource
  <2>4. d \in Resource
    BY <2>3 DEF Resource
  <2>5. [d EXCEPT !.outcome = "succeeded"] \in Resource
    BY <2>4 DEF Resource
  <2>6. bindExternalID(r, i) = [d EXCEPT !.outcome = "succeeded"]
    BY Zenon DEF bindExternalID
  <2> QED BY <2>5, <2>6
<1>2. markAmbiguousCreate(r) \in Resource
  BY DEF Resource, markAmbiguousCreate
<1>3. \A s \in Ids \union {None} : [r EXCEPT !.status = s] \in Resource
  BY DEF Resource
<1>4. /\ [r EXCEPT !.finalizer = TRUE] \in Resource
      /\ [r EXCEPT !.outcome = "failed"] \in Resource
  BY DEF Resource
<1>5. [r EXCEPT !.finalizer = FALSE, !.phase = "gone"] \in Resource
  BY DEF Resource
<1>6. [r EXCEPT !.pending = @ + 1, !.outcome = "none"] \in Resource
  <2>1. r.pending + 1 \in Nat
    BY DEF Resource
  <2>2. [r EXCEPT !.pending = r.pending + 1] \in Resource
    BY <2>1 DEF Resource
  <2> QED BY <2>1, <2>2 DEF Resource
<1>7. ASSUME NEW n \in Ids \union {None}
      PROVE  [r EXCEPT !.name = n, !.edits = @ + 1] \in Resource
  <2>1. r.edits + 1 \in Nat
    BY DEF Resource
  <2>2. [r EXCEPT !.name = n] \in Resource
    BY DEF Resource
  <2> QED BY <2>1, <2>2 DEF Resource
<1>8. \A n \in Nat : [r EXCEPT !.ack = n] \in Resource
  BY DEF Resource
<1>9. \A p \in {"live", "deleting", "gone"} : [r EXCEPT !.phase = p] \in Resource
  BY DEF Resource
<1> QED BY <1>1, <1>2, <1>3, <1>4, <1>5, <1>6, <1>7, <1>8, <1>9, Zenon

(* The fields of a resource have their types. *)
LEMMA ResourceFields ==
    ASSUME NEW r \in Resource
    PROVE  /\ r.phase \in {"live", "deleting", "gone"}
           /\ r.finalizer \in BOOLEAN /\ r.marker \in BOOLEAN /\ r.bound \in BOOLEAN
           /\ r.pending \in Nat /\ r.ack \in Nat /\ r.edits \in Nat
           /\ r.outcome \in {"none", "succeeded", "failed"}
           /\ r.name \in Ids \union {None} /\ r.status \in Ids \union {None}
BY DEF Resource

(* What bindExternalID leaves in the copy. *)
LEMMA BindFields ==
    ASSUME NEW r \in Resource, NEW i \in Ids
    PROVE  /\ bindExternalID(r, i).name = i /\ bindExternalID(r, i).status = i
           /\ bindExternalID(r, i).pending = r.pending
           /\ bindExternalID(r, i).ack = r.ack
           /\ bindExternalID(r, i).phase = r.phase
           /\ bindExternalID(r, i).finalizer = r.finalizer
           /\ bindExternalID(r, i).bound /\ ~Recovering(bindExternalID(r, i))
BY DEF Resource, bindExternalID, Recovering, ExternalCreateIncomplete

(* A POST makes an object under an identity nobody used before. *)
LEMMA NewIdentity ==
    ASSUME CanPost
    PROVE  newId \in Own /\ ext[newId] = "absent"
BY DEF CanPost, newId

-----------------------------------------------------------------------------
(*                              Type correctness                             *)

(* Init establishes the types. *)
LEMMA TypeInit == Init => TypeOK
<1> SUFFICES ASSUME Init PROVE TypeOK
  OBVIOUS
<1>1. \A n \in {None, Foreign, Unknown} :
        /\ [NewResource EXCEPT !.name = n] \in Resource
        /\ ~[NewResource EXCEPT !.name = n].bound
  BY DEF NewResource, Resource, Ids
<1>2. cr \in Resource /\ ~cr.bound
  BY <1>1 DEF Init
<1>3. ext \in [Ids -> {"absent", "unlisted", "visible", "deleted"}]
  BY DEF Init
<1> QED BY <1>2, <1>3 DEF Init, TypeOK, Types, Steps

(* Every step keeps them. *)
LEMMA TypeStep ==
    ASSUME IInv, [Next]_vars
    PROVE  Types'
<1> Types
  BY DEF IInv, TypeOK
<1> USE DEF Types
<1>0. cr \in Resource /\ cache \in Resource /\ base \in Resource /\ job \in Resource
  OBVIOUS
<1>1. CASE DeleteResource
  <2>1. cr' \in Resource
    BY <1>1, <1>0 DEF DeleteResource, Resource
  <2> QED BY <1>1, <2>1 DEF DeleteResource, Idle
<1>2. ASSUME NEW n \in Ids \union {None}, Tamper(n)
      PROVE  Types'
  <2>1. cr' \in Resource
    BY <1>2, <1>0, ResourceUpdate DEF Tamper
  <2>2. lost' \subseteq {None, Unknown}
    BY <1>2 DEF Tamper
  <2> QED BY <1>2, <2>1, <2>2 DEF Tamper, Idle
<1>3. CASE AcknowledgeAbsence
  <2>1. cr' \in Resource
    BY <1>3, <1>0 DEF AcknowledgeAbsence, Resource
  <2> QED BY <1>3, <2>1 DEF AcknowledgeAbsence, Idle
<1>4. CASE LifetimeEnds
  BY <1>4 DEF LifetimeEnds, Idle
<1>5. CASE Sync
  BY <1>5 DEF Sync, Idle
<1>6. CASE \E i \in Own : LateVisible(i)
  BY <1>6 DEF LateVisible, Idle, Ids
<1>7. CASE \E i \in Own : DeletedOutOfBand(i)
  BY <1>7 DEF DeletedOutOfBand, Idle, Ids
<1>8. CASE Begin
  BY <1>8 DEF Begin, Quiet, Steps
<1>9. CASE ObserveAcknowledged
  BY <1>9 DEF ObserveAcknowledged, Quiet, Goto, Steps
<1>10. CASE ObserveNotRecovered
  BY <1>10 DEF ObserveNotRecovered, Quiet, Goto, Steps
<1>11. CASE ObserveRecovers
  <2>1. \A i \in Own : bindExternalID(job, i) \in Resource
    BY <1>11, <1>0, ResourceUpdate DEF ObserveRecovers, Ids
  <2>2. job' \in Resource
    BY <1>11, <1>0, <2>1 DEF ObserveRecovers, FindByName
  <2>3. pc' \in Steps /\ base' \in Resource
    BY <1>11, <1>0 DEF ObserveRecovers, Goto, Steps
  <2> QED BY <1>11, <2>1, <2>2, <2>3 DEF ObserveRecovers, Quiet, Goto, Steps, Reassert,
       FindByName, Ids
<1>12. CASE ObserveAbsent
  BY <1>12 DEF ObserveAbsent, Quiet, Goto, Steps
<1>13. CASE ObserveUntrusted
  BY <1>13 DEF ObserveUntrusted, Quiet, Goto, Steps
<1>14. CASE ObserveMissing
  BY <1>14 DEF ObserveMissing, Quiet, Goto, Steps
<1>15. CASE ObserveBound
  <2>1. job' \in Resource
    BY <1>15, <1>0 DEF ObserveBound, Resource
  <2> QED BY <1>15, <2>1 DEF ObserveBound, Quiet, Goto, Steps, AfterGet
<1>16. CASE ReadFails
  BY <1>16 DEF ReadFails, Quiet, Goto, Steps
<1>17. CASE AddFinalizer
  <2>1. [base EXCEPT !.finalizer = TRUE] \in Resource
    BY <1>17, <1>0 DEF AddFinalizer, Resource
  <2> QED BY <1>17, <2>1 DEF AddFinalizer, Quiet, Steps, Write
<1>18. CASE SetPending
  <2>1. [base EXCEPT !.pending = @ + 1, !.outcome = "none"] \in Resource
    BY <1>18, <1>0, ResourceUpdate DEF SetPending
  <2> QED BY <1>18, <2>1 DEF SetPending, Quiet, Steps, Write
<1>19. CASE Create
  <2>1. newId \in Ids
    BY <1>19, NewIdentity DEF Create, Ids
  <2>2. job' \in Resource
    BY <1>19, <1>0, <2>1, ResourceUpdate DEF Create
  <2> QED BY <1>19, <2>1, <2>2 DEF Create, Quiet, Goto, Steps, Ids
<1>20. CASE CreateFails
  <2>1. job' \in Resource
    BY <1>20, <1>0 DEF CreateFails, Resource
  <2> QED BY <1>20, <2>1 DEF CreateFails, Quiet, Goto, Steps
<1>21. CASE CreateAmbiguous
  <2>1. newId \in Ids
    BY <1>21, NewIdentity DEF CreateAmbiguous, Ids
  <2>2. job' \in Resource
    BY <1>21, <1>0, ResourceUpdate DEF CreateAmbiguous
  <2>3. ext' \in [Ids -> {"absent", "unlisted", "visible", "deleted"}]
    BY <1>21, <2>1 DEF CreateAmbiguous
  <2> QED BY <1>21, <2>2, <2>3 DEF CreateAmbiguous, Quiet, Goto, Steps
<1>31. CASE recoverAmbiguousCreate
  <2>1. \A i \in Own : bindExternalID(job, i) \in Resource
    BY <1>0, ResourceUpdate DEF Ids
  <2>2. job' \in Resource
    BY <1>31, <1>0, <2>1 DEF recoverAmbiguousCreate, FindByName
  <2>3. touched' \subseteq Ids /\ late' \in BOOLEAN
    BY <1>31 DEF recoverAmbiguousCreate, Reassert, FindByName, Ids
  <2> QED BY <1>31, <2>2, <2>3 DEF recoverAmbiguousCreate, Quiet, Goto, Steps
<1>22. CASE Annotate
  <2>1. cr' \in Resource
    BY <1>22, <1>0 DEF Annotate, Resource
  <2> QED BY <1>22, <2>1 DEF Annotate, Quiet, Goto, Steps
<1>23. CASE LateInitialize
  <2>1. [job EXCEPT !.status = base.status] \in Resource
    BY <1>23, <1>0 DEF LateInitialize, Resource
  <2> QED BY <1>23, <2>1 DEF LateInitialize, Quiet, Steps, Write
<1>24. CASE Update
  BY <1>24 DEF Update, Quiet, Goto, Steps
<1>32. CASE Patch
  <2>1. touched' \subseteq Ids
    BY <1>32 DEF Patch, Ids, IInv, JobPlan
  <2> QED BY <1>32, <2>1 DEF Patch, Quiet, Goto, Steps
<1>33. CASE Spoil
  BY <1>33 DEF Spoil, Idle
<1>25. CASE Delete
  <2>1. touched' \subseteq Ids
    BY <1>25, <1>0 DEF Delete, Ids, IInv, JobPlan
  <2> QED BY <1>25, <2>1 DEF Delete, Quiet, Goto, Steps
<1>26. CASE UpdateStatus
  <2>1. [base EXCEPT !.status = job.status] \in Resource
    BY <1>26, <1>0 DEF UpdateStatus, Resource
  <2> QED BY <1>26, <2>1 DEF UpdateStatus, Quiet, Steps, Write
<1>27. CASE RemoveFinalizer
  <2>1. [base EXCEPT !.finalizer = FALSE, !.phase = "gone"] \in Resource
    BY <1>27, <1>0 DEF RemoveFinalizer, Resource
  <2> QED BY <1>27, <2>1 DEF RemoveFinalizer, Quiet, Steps, Write
<1>28. CASE DeleteRefused
  BY <1>28 DEF DeleteRefused, Quiet, Goto, Steps
<1>29. CASE Abandon
  BY <1>29, NewIdentity DEF Abandon, Quiet, Goto, Steps, Ids
<1>30. CASE UNCHANGED vars
  BY <1>30 DEF vars
<1> QED
  BY <1>1, <1>2, <1>3, <1>4, <1>5, <1>6, <1>7, <1>8, <1>9, <1>10, <1>11, <1>12, <1>13,
       <1>14, <1>15, <1>16, <1>17, <1>18, <1>19, <1>20, <1>21, <1>22, <1>23, <1>24, <1>25,
       <1>26, <1>27, <1>28, <1>29, <1>30, <1>31, <1>32, <1>33
     DEF Next, Environment, Observe, Act

-----------------------------------------------------------------------------
(*                    Which steps write which variables                      *)

(* The actions that only read the stored resource and the objects. *)
ReadsOnly ==
    \/ LifetimeEnds \/ Spoil \/ Begin \/ Observe \/ ReadFails \/ Update \/ Patch
    \/ CreateFails \/ recoverAmbiguousCreate \/ DeleteRefused \/ Sync

(* A reconcile that only reads, or decides, leaves the object and RunPod alone. *)
LEMMA ReadOnlySteps ==
    ASSUME ReadsOnly
    PROVE  UNCHANGED <<cr, ext, lost>>
BY DEF ReadsOnly, LifetimeEnds, Spoil, Begin, Observe, ObserveAcknowledged,
       ObserveNotRecovered, ObserveRecovers, ObserveAbsent, ObserveUntrusted,
       ObserveMissing, ObserveBound, ReadFails, Update, Patch, CreateFails,
       recoverAmbiguousCreate, DeleteRefused, Sync, Quiet

(* The actions that write the resource with optimistic concurrency. *)
Writes == AddFinalizer \/ SetPending \/ LateInitialize \/ UpdateStatus \/ RemoveFinalizer

(* A write of the object succeeds only on the version the job read. *)
LEMMA WriteSteps ==
    ASSUME Writes
    PROVE  UNCHANGED <<ext, cache, lost>> /\ (cr' = cr \/ cr = base)
BY DEF Writes, AddFinalizer, SetPending, LateInitialize, UpdateStatus,
       RemoveFinalizer, Write, Quiet

(* The actions of others on the stored resource. *)
Edits ==
    \/ DeleteResource \/ AcknowledgeAbsence
    \/ \E n \in Ids \union {None} : Tamper(n)

(* What the user, the clock and other clients do leaves the controller alone. *)
LEMMA EditSteps ==
    ASSUME Edits
    PROVE  UNCHANGED <<ext, cache, pc, base, job, overdue>>
BY DEF Edits, DeleteResource, Tamper, AcknowledgeAbsence, Idle

(* Every step is one of these, of the objects' own, or of a create. *)
LEMMA StepKinds ==
    ASSUME [Next]_vars
    PROVE  \/ ReadsOnly \/ Writes \/ Edits
           \/ \E i \in Own : LateVisible(i) \/ DeletedOutOfBand(i)
           \/ Create \/ CreateAmbiguous \/ Annotate \/ Delete \/ Abandon
           \/ UNCHANGED vars
BY DEF Next, Environment, Act, ReadsOnly, Writes, Edits

(* Only an edit takes a bound resource away from its object, for good. *)
LEMMA LostStep ==
    ASSUME [Next]_vars
    PROVE  /\ lost \subseteq lost'
           /\ lost' = lost \/ (Edits /\ cr.bound)
<1>1. CASE Edits
  BY <1>1 DEF Edits, DeleteResource, AcknowledgeAbsence, Tamper
<1>2. CASE ~Edits
  BY <1>2, StepKinds, ReadOnlySteps, WriteSteps DEF LateVisible, DeletedOutOfBand,
     Create, CreateAmbiguous, Annotate, Delete, Abandon, Quiet, vars
<1> QED BY <1>1, <1>2

-----------------------------------------------------------------------------
(*                               The objects                                 *)

(* An object that was listed stays known, a deleted one stays deleted, and   *)
(* only a create makes one, from an identity that was never used.            *)
LEMMA ObjectStep ==
    ASSUME IInv, [Next]_vars
    PROVE  /\ ext'[Foreign] = "visible" /\ ext'[Unknown] = "absent"
           /\ \A i \in Own : ext[i] \in {"visible", "deleted"}
                             => ext'[i] \in {"visible", "deleted"}
           /\ \A i \in Own : ext[i] = "deleted" => ext'[i] = "deleted"
           /\ pc # "create" =>
                \A i \in Own : ext[i] = "absent" => ext'[i] = "absent"
<1> /\ ext \in [Ids -> {"absent", "unlisted", "visible", "deleted"}]
    /\ ext[Foreign] = "visible" /\ ext[Unknown] = "absent" /\ Own \subseteq Ids
  BY DEF IInv, TypeOK, Types, StoredTrace, Ids
<1>1. CASE ReadsOnly \/ Writes \/ Edits \/ Annotate \/ UNCHANGED vars
  BY <1>1, ReadOnlySteps, WriteSteps, EditSteps DEF Annotate, vars
<1>2. ASSUME NEW j \in Own, NEW s, ext' = [ext EXCEPT ![j] = s],
             \/ pc = "create" /\ ext[j] = "absent"
             \/ ext[j] = "unlisted" /\ s = "visible"
             \/ ext[j] = "visible" /\ s = "deleted"
      PROVE  /\ ext'[Foreign] = "visible" /\ ext'[Unknown] = "absent"
             /\ \A i \in Own : ext[i] \in {"visible", "deleted"}
                               => ext'[i] \in {"visible", "deleted"}
             /\ \A i \in Own : ext[i] = "deleted" => ext'[i] = "deleted"
             /\ pc # "create" =>
                  \A i \in Own : ext[i] = "absent" => ext'[i] = "absent"
  <2>1. j # Foreign /\ j # Unknown
    BY ManagedAssumption
  <2>2. \A i \in Ids : ext'[i] = IF i = j THEN s ELSE ext[i]
    BY <1>2
  <2>3. Foreign \in Ids /\ Unknown \in Ids
    BY DEF Ids
  <2> QED BY <1>2, <2>1, <2>2, <2>3
<1>3. CASE \E i \in Own : LateVisible(i) \/ DeletedOutOfBand(i)
  BY <1>2, <1>3 DEF LateVisible, DeletedOutOfBand
<1>4. CASE Create \/ CreateAmbiguous \/ Abandon
  <2>1. CASE ext' = ext
    BY <2>1
  <2>2. CASE ext' # ext
    <3>1. /\ newId \in Own /\ ext[newId] = "absent" /\ pc = "create"
          /\ \E s \in {"absent", "unlisted", "visible"} : ext' = [ext EXCEPT ![newId] = s]
      BY <1>4, <2>2, NewIdentity DEF Create, CreateAmbiguous, Abandon
    <3> QED BY <3>1, <1>2
  <2> QED BY <2>1, <2>2
<1>5. CASE Delete
  <2>1. job.name \in Own
    BY <1>5 DEF Delete, IInv, JobPlan
  <2> QED BY <1>5, <2>1, <1>2 DEF Delete
<1> QED BY <1>1, <1>3, <1>4, <1>5, StepKinds

(* AtMostOne is kept: a POST starts from no object at all. *)
LEMMA AtMostOneStep ==
    ASSUME IInv, [Next]_vars
    PROVE  AtMostOne'
<1> /\ ext \in [Ids -> {"absent", "unlisted", "visible", "deleted"}] /\ Own \subseteq Ids
  BY DEF IInv, TypeOK, Types, Ids
<1> SUFFICES ASSUME None \notin lost'
             PROVE  AtMostOne'
  BY DEF AtMostOne
<1>0. None \notin lost
  BY LostStep
<1>1. CASE pc # "create"
  <2>1. \A i \in Own : ext'[i] # "absent" => ext[i] # "absent"
    BY <1>1, ObjectStep
  <2> QED BY <1>0, <2>1 DEF IInv, AtMostOne
<1>2. CASE pc = "create" /\ Empty
  <2>1. ext' = ext \/ \E i \in Own, s \in {"absent", "unlisted", "visible"} :
                        ext' = [ext EXCEPT ![i] = s]
    <3>1. CASE ReadsOnly \/ Writes \/ Edits \/ Annotate \/ UNCHANGED vars
      BY <3>1, ReadOnlySteps, WriteSteps, EditSteps DEF Annotate, vars
    <3>2. CASE Create \/ CreateAmbiguous \/ Abandon
      BY <3>2, NewIdentity DEF Create, CreateAmbiguous, Abandon
    <3>3. CASE Delete
      BY <3>3, <1>2 DEF Delete
    <3>4. CASE \E i \in Own : LateVisible(i) \/ DeletedOutOfBand(i)
      BY <3>4, <1>2 DEF LateVisible, DeletedOutOfBand, Empty
    <3> QED BY <3>1, <3>2, <3>3, <3>4, StepKinds
  <2> QED BY <2>1, <1>2 DEF Empty, AtMostOne
<1> QED BY <1>0, <1>1, <1>2 DEF IInv, JobPlan

-----------------------------------------------------------------------------
(*                          The copies stay sound                            *)

(* Sound(r) after the step, of a copy r that the step itself may have made. *)
SoundAfter(r) ==
    /\ r.status \notin {Foreign, Unknown}
    /\ r.name \in Own => ext'[r.name] \in {"visible", "deleted"}
    /\ r.bound /\ r.name = None => None \in lost'
    /\ r.bound /\ r.name = Unknown /\ r.status = None => Unknown \in lost'
    /\ r.bound /\ Recovering(r) => None \in lost'

(* Whatever happens to the objects, a sound copy stays sound. *)
LEMMA SoundKept ==
    ASSUME IInv, [Next]_vars
    PROVE  SoundAfter(cr) /\ SoundAfter(cache) /\ SoundAfter(base) /\ SoundAfter(job)
BY ObjectStep, LostStep DEF IInv, CopiesSound, Sound, SoundAfter

(* A copy that is bound to one of this resource's objects is sound when the  *)
(* object is listed.                                                          *)
LEMMA BindSound ==
    ASSUME IInv, NEW r \in Resource, NEW i \in Own, ext'[i] \in {"visible", "deleted"}
    PROVE  SoundAfter(bindExternalID(r, i))
<1>1. i \in Ids
  BY DEF Ids
<1>2. /\ bindExternalID(r, i).name = i /\ bindExternalID(r, i).status = i
      /\ ~Recovering(bindExternalID(r, i))
  BY <1>1, BindFields
<1> QED BY <1>2, ManagedAssumption DEF SoundAfter

(* The soundness of a copy rests on these fields only. *)
LEMMA SameSound ==
    ASSUME NEW r, NEW q, SoundAfter(r), q.name = r.name, q.status = r.status,
           q.bound = r.bound, Recovering(q) => Recovering(r)
    PROVE  SoundAfter(q)
BY DEF SoundAfter

(* Only the trusted name of one of this resource's objects gets into the    *)
(* status.                                                                   *)
LEMMA ObserveBoundOwn ==
    ASSUME IInv, ObserveBound, job.status # None \/ job.name \in Own
    PROVE  job.name \in Own
<1> job \in Resource
  BY DEF IInv, TypeOK, Types
<1> QED BY DEF IInv, CopiesSound, Sound, ObserveBound, BindingTrusted, Resource, Ids

(* An edit of the external name that loses the object is remembered. *)
LEMMA EditSound ==
    ASSUME IInv, [Next]_vars, Edits
    PROVE  SoundAfter(cr')
<1>0. cr \in Resource /\ SoundAfter(cr)
  BY SoundKept DEF IInv, TypeOK, Types
<1>1. CASE DeleteResource \/ AcknowledgeAbsence
  <2>1. /\ cr'.name = cr.name /\ cr'.status = cr.status /\ cr'.bound = cr.bound
        /\ Recovering(cr') => Recovering(cr)
    BY <1>0, <1>1 DEF DeleteResource, AcknowledgeAbsence, Resource, Recovering,
       ExternalCreateIncomplete
  <2> QED BY <1>0, <2>1, SameSound
<1>2. ASSUME NEW n \in Ids \union {None}, Tamper(n)
      PROVE  SoundAfter(cr')
  <2>1. /\ cr'.name = n /\ cr'.status = cr.status /\ cr'.bound = cr.bound
        /\ Recovering(cr') <=> Recovering(cr)
    BY <1>0, <1>2 DEF Tamper, Resource, Recovering, ExternalCreateIncomplete
  <2>2. n \in Own => ext'[n] = "visible"
    BY <1>2 DEF Tamper
  <2>3. /\ cr.bound /\ n = None => None \in lost'
        /\ cr.bound /\ n = Unknown /\ cr.status = None => Unknown \in lost'
    BY <1>2 DEF Tamper
  <2>4. cr.status \notin {Foreign, Unknown} /\ (cr.bound /\ Recovering(cr) => None \in lost')
    BY <1>0 DEF SoundAfter
  <2> QED BY <2>1, <2>2, <2>3, <2>4 DEF SoundAfter
<1> QED BY <1>1, <1>2 DEF Edits

(* What the reconciler writes is sound. *)
LEMMA WriteSound ==
    ASSUME IInv, [Next]_vars, Writes
    PROVE  SoundAfter(cr') /\ SoundAfter(base') /\ SoundAfter(job')
<1>0. /\ base \in Resource /\ job \in Resource
      /\ SoundAfter(cr) /\ SoundAfter(base) /\ SoundAfter(job)
  BY SoundKept DEF IInv, TypeOK, Types
<1>1. CASE UNCHANGED <<cr, base, job>>
  BY <1>0, <1>1
<1>2. ASSUME NEW new, cr' = new, base' = new, job' = new, SoundAfter(new)
      PROVE  SoundAfter(cr') /\ SoundAfter(base') /\ SoundAfter(job')
  BY <1>2
<1>3. SoundAfter([base EXCEPT !.finalizer = TRUE])
  <2> DEFINE q == [base EXCEPT !.finalizer = TRUE]
  <2>1. /\ q.name = base.name /\ q.status = base.status /\ q.bound = base.bound
        /\ Recovering(q) => Recovering(base)
    BY <1>0 DEF Resource, Recovering, ExternalCreateIncomplete
  <2> QED BY <1>0, <2>1, SameSound
<1>4. SetPending => SoundAfter([base EXCEPT !.pending = @ + 1, !.outcome = "none"])
  <2> SUFFICES ASSUME SetPending
               PROVE  SoundAfter([base EXCEPT !.pending = @ + 1, !.outcome = "none"])
    OBVIOUS
  <2> DEFINE q == [base EXCEPT !.pending = @ + 1, !.outcome = "none"]
  <2>1. q.name = base.name /\ q.status = base.status /\ q.bound = base.bound
    BY <1>0 DEF Resource
  <2>2. base.name = None
    BY DEF SetPending, IInv, JobPlan, Blank
  <2> QED BY <1>0, <2>1, <2>2 DEF SoundAfter
<1>5. LateInitialize => SoundAfter([job EXCEPT !.status = base.status])
  <2> SUFFICES ASSUME LateInitialize
               PROVE  SoundAfter([job EXCEPT !.status = base.status])
    OBVIOUS
  <2> DEFINE q == [job EXCEPT !.status = base.status]
  <2>1. job.name \in Own
    BY DEF LateInitialize, IInv, JobPlan
  <2>2. /\ q.name = job.name /\ q.status = base.status /\ q.bound = job.bound
        /\ Recovering(q) => Recovering(job)
    BY <1>0 DEF Resource, Recovering, ExternalCreateIncomplete
  <2> QED BY <1>0, <2>1, <2>2, ManagedAssumption DEF SoundAfter
<1>6. UpdateStatus => SoundAfter([base EXCEPT !.status = job.status])
  <2> SUFFICES ASSUME UpdateStatus
               PROVE  SoundAfter([base EXCEPT !.status = job.status])
    OBVIOUS
  <2> DEFINE q == [base EXCEPT !.status = job.status]
  <2>1. job.status = None => base.status = None
    BY DEF UpdateStatus, IInv, StatusKept
  <2>2. /\ q.name = base.name /\ q.status = job.status /\ q.bound = base.bound
        /\ Recovering(q) => Recovering(base)
    BY <1>0 DEF Resource, Recovering, ExternalCreateIncomplete
  <2> QED BY <1>0, <2>1, <2>2 DEF SoundAfter
<1>7. SoundAfter([base EXCEPT !.finalizer = FALSE, !.phase = "gone"])
  <2> DEFINE q == [base EXCEPT !.finalizer = FALSE, !.phase = "gone"]
  <2>1. /\ q.name = base.name /\ q.status = base.status /\ q.bound = base.bound
        /\ Recovering(q) => Recovering(base)
    BY <1>0 DEF Resource, Recovering, ExternalCreateIncomplete
  <2> QED BY <1>0, <2>1, SameSound
<1> QED
  BY <1>1, <1>2, <1>3, <1>4, <1>5, <1>6, <1>7 DEF Writes, AddFinalizer,
     SetPending, LateInitialize, UpdateStatus, RemoveFinalizer, Write

(* What a create, its recovery and its annotations leave is sound. *)
LEMMA CreateSound ==
    ASSUME IInv, [Next]_vars,
           CreateFails \/ Create \/ CreateAmbiguous \/ recoverAmbiguousCreate \/ Annotate
    PROVE  SoundAfter(cr') /\ SoundAfter(job')
<1>0. /\ cr \in Resource /\ job \in Resource /\ SoundAfter(cr) /\ SoundAfter(job)
      /\ ext \in [Ids -> {"absent", "unlisted", "visible", "deleted"}] /\ Own \subseteq Ids
  BY SoundKept DEF IInv, TypeOK, Types, Ids
<1>1. CASE CreateFails
  <2>1. /\ job'.name = job.name /\ job'.status = job.status /\ job'.bound = job.bound
        /\ Recovering(job') => Recovering(job)
    BY <1>0, <1>1 DEF CreateFails, Resource, Recovering, ExternalCreateIncomplete
  <2>2. UNCHANGED cr
    BY <1>1 DEF CreateFails
  <2> QED BY <1>0, <2>1, <2>2, SameSound
<1>2. CASE Create
  <2>1. newId \in Own /\ job' = bindExternalID(job, newId) /\ ext'[newId] = "visible"
    BY <1>0, <1>2, NewIdentity DEF Create
  <2>2. UNCHANGED cr
    BY <1>2 DEF Create
  <2> QED BY <1>0, <2>1, <2>2, BindSound
<1>3. CASE CreateAmbiguous
  <2>1. job' = markAmbiguousCreate(job) /\ UNCHANGED cr /\ pc = "create"
    BY <1>3 DEF CreateAmbiguous
  <2>2. job'.name = job.name /\ job'.status = job.status /\ job'.bound = job.bound
    BY <1>0, <2>1 DEF markAmbiguousCreate, Resource
  <2>3. job.bound <=> cr.bound
    BY <2>1 DEF IInv, JobPlan
  <2>4. Recovering(cr)
    BY <2>1 DEF IInv, JobPlan, Incomplete, Recovering
  <2>5. job.bound => None \in lost'
    BY <1>0, <2>3, <2>4 DEF SoundAfter
  <2> QED BY <1>0, <2>1, <2>2, <2>5 DEF SoundAfter
<1>4. CASE recoverAmbiguousCreate
  <2>1. UNCHANGED <<cr, ext>>
    BY <1>4 DEF recoverAmbiguousCreate
  <2>2. job' = job \/ \E i \in Own : ext[i] = "visible" /\ job' = bindExternalID(job, i)
    BY <1>4 DEF recoverAmbiguousCreate, FindByName
  <2> QED BY <1>0, <2>1, <2>2, BindSound
<1>5. CASE Annotate
  <2>1. /\ cr'.status = cr.status /\ cr'.bound = job.bound
        /\ cr'.name = IF job.name # None THEN job.name ELSE cr.name
        /\ Recovering(cr') <=> Recovering(job)
    BY <1>0, <1>5 DEF Annotate, Resource, Recovering, ExternalCreateIncomplete
  <2>2. \/ job.name \in Own
        \/ job.name = None /\ (job.bound <=> cr.bound)
    BY <1>5 DEF Annotate, IInv, JobPlan
  <2>3. UNCHANGED job
    BY <1>5 DEF Annotate
  <2> QED BY <1>0, <2>1, <2>2, <2>3, ManagedAssumption DEF SoundAfter
<1> QED BY <1>1, <1>2, <1>3, <1>4, <1>5

(* What each step of the reconciler makes of its copies. *)
LEMMA CopiesStep ==
    ASSUME IInv, [Next]_vars
    PROVE  CopiesSound'
<1>0. cr \in Resource /\ cache \in Resource /\ base \in Resource /\ job \in Resource
  BY DEF IInv, TypeOK, Types
<1> USE SoundKept
<1> SUFFICES SoundAfter(cr') /\ SoundAfter(cache') /\ SoundAfter(base') /\ SoundAfter(job')
  BY DEF CopiesSound, Sound, SoundAfter, Recovering, ExternalCreateIncomplete
<1>1. CASE Edits
  BY <1>1, EditSteps, EditSound
<1>2. CASE LifetimeEnds \/ Spoil \/ Sync \/ Begin \/ UNCHANGED vars
           \/ \E i \in Own : LateVisible(i) \/ DeletedOutOfBand(i)
  BY <1>2 DEF LifetimeEnds, Spoil, Sync, Begin, vars, LateVisible, DeletedOutOfBand, Idle
<1>3. CASE ObserveAcknowledged \/ ObserveNotRecovered \/ ObserveAbsent
           \/ ObserveUntrusted \/ ObserveMissing \/ ReadFails \/ Update \/ Patch
           \/ Delete \/ DeleteRefused \/ Abandon
  BY <1>3 DEF ObserveAcknowledged, ObserveNotRecovered, ObserveAbsent, Goto,
     ObserveUntrusted, ObserveMissing, ReadFails, Update, Patch, Delete,
     DeleteRefused, Abandon, Quiet
<1>4. CASE ObserveRecovers
  <2>1. UNCHANGED <<cr, cache, base, ext>>
    BY <1>4 DEF ObserveRecovers, Goto, Quiet
  <2>2. job' = job \/ \E i \in Own : ext[i] = "visible" /\ job' = bindExternalID(job, i)
    BY <1>4 DEF ObserveRecovers, FindByName
  <2> QED BY <1>0, <2>1, <2>2, BindSound
<1>5. CASE ObserveBound
  <2>1. UNCHANGED <<cr, cache, base, ext>>
    BY <1>5 DEF ObserveBound, Goto, Quiet
  <2>2. job' = job \/ (job' = [job EXCEPT !.status = job.name] /\ job.name \in Own)
    BY <1>5, ObserveBoundOwn DEF ObserveBound
  <2>3. ASSUME job' = [job EXCEPT !.status = job.name], job.name \in Own
        PROVE  SoundAfter(job')
    <3>1. /\ job'.name = job.name /\ job'.status = job.name /\ job'.bound = job.bound
          /\ Recovering(job') => Recovering(job)
      BY <1>0, <2>3 DEF Resource, Recovering, ExternalCreateIncomplete
    <3> QED BY <2>3, <3>1, ManagedAssumption DEF SoundAfter
  <2> QED BY <2>1, <2>2, <2>3
<1>6. CASE Writes
  BY <1>6, WriteSteps, WriteSound
<1>7. CASE CreateFails \/ Create \/ CreateAmbiguous \/ recoverAmbiguousCreate \/ Annotate
  <2>1. UNCHANGED <<cache, base>>
    BY <1>7 DEF CreateFails, Create, CreateAmbiguous, recoverAmbiguousCreate, Annotate,
       Goto, Quiet
  <2> QED BY <1>7, <2>1, CreateSound
<1> QED
  BY <1>1, <1>2, <1>3, <1>4, <1>5, <1>6, <1>7, StepKinds DEF ReadsOnly, Observe

-----------------------------------------------------------------------------
(*                What the stored resource says of the objects               *)

(* Outside a create, no object stays no object and none left stays none left. *)
LEMMA SettledKept ==
    ASSUME IInv, [Next]_vars, pc # "create"
    PROVE  (Empty => Empty') /\ (Settled => Settled')
BY ObjectStep DEF Empty, Settled

(* The finalizer is about to be removed and the copy is current: nothing is left. *)
LEMMA RemovalJustified ==
    ASSUME IInv, pc = "removeFinalizer", cr = base, lost = {}
    PROVE  Settled
<1>1. CASE base.ack # 0
  BY <1>1 DEF IInv, StoredTrace
<1>2. CASE Blank(base)
  <2>1. ~base.bound
    BY <1>2 DEF IInv, CopiesSound, Sound, Blank
  <2> QED BY <1>2, <2>1 DEF IInv, StoredTrace, Blank, Empty, Settled
<1>3. CASE base.name \in Own /\ ext[base.name] = "deleted"
  <2>1. \A i \in Own : ext[i] # "absent" => i = base.name
    BY <1>3 DEF IInv, AtMostOne
  <2> QED BY <1>3, <2>1 DEF Settled
<1> QED BY <1>1, <1>2, <1>3 DEF IInv, JobPlan

(* What each edit of the stored resource changes. *)
LEMMA EditFields ==
    ASSUME IInv, Edits
    PROVE  /\ cr.phase # "gone"
           /\ cr'.finalizer = cr.finalizer /\ (Recovering(cr') <=> Recovering(cr))
           /\ ExternalCreateIncomplete(cr') <=> ExternalCreateIncomplete(cr)
           /\ cr'.pending = cr.pending /\ cr'.bound = cr.bound
           /\ cr'.phase # cr.phase =>
                \/ cr'.phase = "deleting"
                \/ cr'.phase = "gone" /\ ~cr.finalizer /\ cr.phase = "live"
           /\ cr'.ack # cr.ack => Settled /\ pc \notin {"create", "recover", "annotate"}
<1> cr \in Resource
  BY DEF IInv, TypeOK, Types
<1>1. CASE DeleteResource
  BY <1>1 DEF DeleteResource, Resource, Recovering, ExternalCreateIncomplete
<1>2. CASE \E n \in Ids \union {None} : Tamper(n)
  BY <1>2 DEF Tamper, Resource, Recovering, ExternalCreateIncomplete
<1>3. CASE AcknowledgeAbsence
  <2>1. Settled /\ pc \notin {"create", "recover", "annotate"}
    BY <1>3 DEF AcknowledgeAbsence, Settled, IInv, TypeOK, Types, Ids
  <2> QED
    BY <1>3, <2>1 DEF AcknowledgeAbsence, Resource, Recovering, ExternalCreateIncomplete
<1> QED BY <1>1, <1>2, <1>3 DEF Edits

(* The stored resource keeps no trace of a create that left an object. *)
Traceless(r) == ~r.bound /\ ~Recovering(r)

(* What each successful write of the reconciler changes. *)
LEMMA WriteFields ==
    ASSUME IInv, Writes, cr' # cr
    PROVE  /\ cr = base /\ cr'.ack = cr.ack
           /\ \/ cr'.finalizer = cr.finalizer \/ cr'.finalizer
              \/ cr'.phase = "gone"
           /\ \/ cr'.phase = cr.phase
              \/ cr'.phase = "gone" /\ pc = "removeFinalizer"
           /\ (cr.bound => cr'.bound) /\ (Traceless(cr') => Traceless(cr))
<1>0. base \in Resource /\ job \in Resource /\ (Writes => cr = base)
  BY WriteSteps DEF IInv, TypeOK, Types
<1>1. CASE AddFinalizer
  BY <1>0, <1>1 DEF AddFinalizer, Write, Resource, Traceless, Recovering,
     ExternalCreateIncomplete
<1>2. CASE SetPending
  <2>1. cr' = [base EXCEPT !.pending = base.pending + 1, !.outcome = "none"]
    BY <1>2 DEF SetPending, Write
  <2>2. /\ cr'.pending = base.pending + 1 /\ cr'.outcome = "none" /\ cr'.ack = base.ack
        /\ cr'.finalizer = base.finalizer /\ cr'.phase = base.phase
        /\ cr'.bound = base.bound
    BY <1>0, <2>1 DEF Resource
  <2>3. base.pending + 1 # 0
    BY <1>0 DEF Resource
  <2> QED BY <1>0, <2>2, <2>3 DEF Traceless, Recovering, ExternalCreateIncomplete
<1>3. CASE LateInitialize
  <2>1. job.name \in Own /\ job = bindExternalID(base, job.name)
    BY <1>3 DEF IInv, JobPlan, LateInitialize
  <2>2. /\ job.ack = base.ack /\ job.finalizer = base.finalizer /\ job.phase = base.phase
        /\ job.bound
    BY <2>1, <1>0, BindFields DEF Ids
  <2>3. cr' = [job EXCEPT !.status = base.status]
    BY <1>3 DEF LateInitialize, Write
  <2>4. /\ cr'.ack = job.ack /\ cr'.finalizer = job.finalizer
        /\ cr'.phase = job.phase /\ cr'.bound = job.bound
    BY <2>3, <1>0 DEF Resource
  <2> QED BY <1>0, <2>2, <2>4 DEF Traceless
<1>4. CASE UpdateStatus
  BY <1>0, <1>4 DEF UpdateStatus, Write, Resource, Traceless, Recovering,
     ExternalCreateIncomplete
<1>5. CASE RemoveFinalizer
  <2>1. cr' = [base EXCEPT !.finalizer = FALSE, !.phase = "gone"]
    BY <1>5 DEF RemoveFinalizer, Write
  <2>2. /\ cr'.pending = base.pending /\ cr'.outcome = base.outcome /\ cr'.ack = base.ack
        /\ cr'.phase = "gone" /\ cr'.bound = base.bound /\ cr'.marker = base.marker
    BY <1>0, <2>1 DEF Resource
  <2> QED BY <1>0, <1>5, <2>2 DEF RemoveFinalizer, Traceless, Recovering,
     ExternalCreateIncomplete
<1> QED BY <1>1, <1>2, <1>3, <1>4, <1>5 DEF Writes

(* What the merge of the annotations changes. *)
LEMMA AnnotateFields ==
    ASSUME IInv, Annotate
    PROVE  /\ cr'.finalizer = cr.finalizer /\ cr'.phase = cr.phase /\ cr'.ack = cr.ack
           /\ (cr.bound => cr'.bound) /\ (Traceless(cr') => Empty)
<1> cr \in Resource /\ job \in Resource
  BY DEF IInv, TypeOK, Types
<1>1. /\ cr'.finalizer = cr.finalizer /\ cr'.phase = cr.phase /\ cr'.ack = cr.ack
      /\ cr'.bound = job.bound /\ cr'.marker = job.marker
  BY DEF Annotate, Resource
<1>2. \/ job.bound
      \/ (job.bound <=> cr.bound) /\ (job.marker \/ (None \notin lost => Empty))
  BY DEF Annotate, IInv, JobPlan
<1>3. cr.bound => job.bound
  BY DEF Annotate, IInv, JobPlan
<1>4. None \in lost => cr.bound
  BY DEF IInv, StoredTrace
<1> QED BY <1>1, <1>2, <1>3, <1>4 DEF Traceless, Recovering

(* What the stored object records of its external object stays true, and it *)
(* is gone only when nothing is left.                                        *)
LEMMA StoredStep ==
    ASSUME IInv, [Next]_vars
    PROVE  StoredTrace' /\ GoneMeansDeleted'
<1>0. ext'[Foreign] = "visible" /\ ext'[Unknown] = "absent"
  BY ObjectStep
<1> SUFFICES /\ lost' # {} => cr'.bound
             /\ Traceless(cr') => Empty'
             /\ ~cr'.finalizer /\ cr'.phase # "gone" => Empty'
             /\ cr'.ack # 0 => Settled'
             /\ lost' = {} /\ cr'.phase = "gone" => Settled'
  BY <1>0 DEF StoredTrace, GoneMeansDeleted, Settled, Traceless, Recovering,
              ExternalCreateIncomplete
<1>1. /\ lost # {} => cr.bound
      /\ Traceless(cr) => Empty
      /\ ~cr.finalizer /\ cr.phase # "gone" => Empty
      /\ cr.ack # 0 => Settled
      /\ lost = {} /\ cr.phase = "gone" => Settled
      /\ Empty => Settled
  BY DEF IInv, StoredTrace, GoneMeansDeleted, Settled, Empty, Traceless
<1>2. /\ lost' = {} => lost = {}
      /\ lost' # {} => lost # {} \/ (Edits /\ cr.bound)
  BY LostStep
<1>3. CASE UNCHANGED <<cr, lost>>
  <2>1. CASE pc # "create"
    BY <1>1, <1>3, <2>1, SettledKept DEF Traceless, Recovering, ExternalCreateIncomplete
  <2>2. CASE pc = "create"
    <3>1. ~Traceless(cr) /\ cr.finalizer /\ cr.phase # "gone" /\ cr.ack = 0
      BY <2>2 DEF IInv, JobPlan, Incomplete, Traceless, Recovering
    <3> QED BY <1>1, <1>3, <3>1 DEF Traceless, Recovering, ExternalCreateIncomplete
  <2> QED BY <2>1, <2>2
<1>4. CASE Edits
  <2>1. (Empty => Empty') /\ (Settled => Settled')
    BY <1>4, EditSteps DEF Empty, Settled
  <2>2. Traceless(cr') => Traceless(cr)
    BY <1>4, EditFields DEF Traceless
  <2> QED BY <1>1, <1>2, <1>4, <2>1, <2>2, EditFields
<1>5. CASE Writes /\ cr' # cr
  <2>1. (Empty => Empty') /\ (Settled => Settled') /\ UNCHANGED lost
    BY <1>5, WriteSteps DEF Empty, Settled
  <2> QED BY <1>1, <1>5, <2>1, WriteFields, RemovalJustified
<1>6. CASE Annotate
  <2>1. (Empty => Empty') /\ (Settled => Settled') /\ UNCHANGED lost
    BY <1>6 DEF Annotate, Empty, Settled, Quiet
  <2> QED BY <1>1, <1>6, <2>1, AnnotateFields
<1>7. CASE \/ ReadsOnly \/ Create \/ CreateAmbiguous \/ Delete \/ Abandon
           \/ \E i \in Own : LateVisible(i) \/ DeletedOutOfBand(i)
           \/ UNCHANGED vars
  BY <1>3, <1>7, ReadOnlySteps DEF Create, CreateAmbiguous, Delete, Abandon,
     LateVisible, DeletedOutOfBand, Quiet, vars
<1>8. CASE Writes /\ cr' = cr
  BY <1>3, <1>8, WriteSteps
<1> QED BY <1>4, <1>5, <1>6, <1>7, <1>8, StepKinds

-----------------------------------------------------------------------------
(*                            The running reconcile                          *)

(* Steps of others leave what the reconcile relies on. *)
LEMMA PlanKept ==
    ASSUME IInv, [Next]_vars, UNCHANGED <<pc, base, job, overdue>>,
           UNCHANGED cr \/ Edits
    PROVE  JobPlan'
<1>1. pc \in {"create", "recover", "annotate"} => Incomplete'
  <2> SUFFICES ASSUME pc \in {"create", "recover", "annotate"} PROVE Incomplete'
    OBVIOUS
  <2>1. Incomplete
    BY DEF IInv, JobPlan
  <2>2. CASE UNCHANGED cr
    BY <2>1, <2>2 DEF Incomplete, ExternalCreateIncomplete
  <2>3. CASE Edits
    BY <2>1, <2>3, EditFields DEF Incomplete, ExternalCreateIncomplete
  <2> QED BY <2>2, <2>3
<1>2. pc # "create" /\ Empty => Empty'
  BY SettledKept
<1>3. pc = "create" /\ Empty => Empty'
  <2> SUFFICES ASSUME pc = "create", Empty PROVE Empty'
    OBVIOUS
  <2>2. UNCHANGED ext
    <3>1. CASE ReadsOnly \/ Writes \/ Edits \/ Annotate \/ UNCHANGED vars
      BY <3>1, ReadOnlySteps, WriteSteps, EditSteps DEF Annotate, vars
    <3>2. CASE Create \/ CreateAmbiguous \/ Abandon \/ Delete
      BY <3>2 DEF Create, CreateAmbiguous, Abandon, Delete, Goto
    <3>3. CASE \E i \in Own : LateVisible(i) \/ DeletedOutOfBand(i)
      BY <3>3 DEF LateVisible, DeletedOutOfBand, Empty
    <3> QED BY <3>1, <3>2, <3>3, StepKinds
  <2> QED BY <2>2 DEF Empty
<1>4. /\ \A i \in Own : ext[i] = "deleted" => ext'[i] = "deleted"
      /\ lost \subseteq lost' /\ cr'.bound = cr.bound
  BY ObjectStep, LostStep, EditFields
<1>5. JobPlan
  BY DEF IInv
<1>6. /\ pc' = "observe" => job' = base' /\ base'.phase # "gone"
      /\ pc' \in {"addFinalizer", "setPending"} =>
           base'.phase = "live" /\ base'.ack = 0 /\ Blank(base')
      /\ pc' = "setPending" => base'.finalizer
      /\ pc' \in {"create", "recover"} => job'.name = None /\ (job'.bound <=> cr'.bound)
      /\ pc' = "create" => (None \notin lost' => Empty') /\ ~job'.marker
      /\ pc' = "recover" => job'.marker
  BY <1>3, <1>4, <1>5 DEF JobPlan
<1>7. pc' = "annotate" =>
        \/ job'.name \in Own /\ job'.bound
        \/ /\ job'.name = None /\ (job'.bound <=> cr'.bound)
           /\ job'.marker \/ (None \notin lost' => Empty')
  BY <1>2, <1>4, <1>5 DEF JobPlan
<1>8. /\ pc' \in {"update", "patch", "delete"} => job'.name \in Own
      /\ pc' = "patch" => ~overdue'
      /\ pc' = "lateInit" =>
           job'.name \in Own /\ job' = bindExternalID(base', job'.name)
  BY <1>5 DEF JobPlan
<1>9. pc' = "removeFinalizer" => \/ base'.ack # 0
                                 \/ Blank(base')
                                 \/ base'.name \in Own /\ ext'[base'.name] = "deleted"
                                 \/ Unknown \in lost'
  BY <1>4, <1>5 DEF JobPlan
<1> QED
  BY <1>1, <1>6, <1>7, <1>8, <1>9
  DEF JobPlan, Blank, Recovering, ExternalCreateIncomplete, bindExternalID

(* Nothing is promised at rest, or before the status is written. *)
LEMMA PlanTrivial == pc' \in {"idle", "status"} => JobPlan'
BY DEF JobPlan

(* What Observe leads to. *)
LEMMA PlanObserve ==
    ASSUME IInv, Observe
    PROVE  JobPlan'
<1>0. /\ pc = "observe" /\ job = base /\ UNCHANGED <<cr, base, ext>>
      /\ base \in Resource /\ base.phase \in {"live", "deleting"}
  <2>1. pc = "observe" /\ UNCHANGED <<cr, base, ext>>
    BY DEF Observe, ObserveAcknowledged, ObserveNotRecovered, ObserveRecovers,
           ObserveAbsent, ObserveUntrusted, ObserveMissing, ObserveBound,
           CanObserve, Goto
  <2>2. job = base /\ base \in Resource /\ base.phase # "gone"
    BY <2>1 DEF IInv, JobPlan, TypeOK, Types
  <2> QED BY <2>1, <2>2 DEF Resource
<1>1. CASE ObserveAcknowledged \/ ObserveUntrusted
  BY <1>1, PlanTrivial DEF ObserveAcknowledged, ObserveUntrusted, Goto
<1>2. CASE ObserveNotRecovered
  BY <1>0, <1>2 DEF ObserveNotRecovered, Goto, JobPlan
<1>3. CASE ObserveRecovers
  <2>1. CASE pc' = "status"
    BY <2>1, PlanTrivial
  <2>2. CASE pc' # "status"
    <3>1. PICK i \in Own : job' = bindExternalID(job, i) /\ pc' \in {"delete", "lateInit"}
      BY <1>3, <2>2 DEF ObserveRecovers, FindByName, Goto
    <3>2. job'.name = i
      BY <1>0, <3>1, BindFields DEF Ids
    <3>3. job'.name \in Own /\ job' = bindExternalID(base', job'.name)
      BY <1>0, <3>1, <3>2
    <3> QED BY <3>1, <3>3 DEF JobPlan, bindExternalID
  <2> QED BY <2>1, <2>2
<1>4. CASE ObserveAbsent
  <2>1. Blank(base) /\ (base.phase = "live" => base.ack = 0)
    BY <1>0, <1>4 DEF ObserveAbsent, PendingName, CanObserve, Blank
  <2>2. \/ pc' = "removeFinalizer"
        \/ pc' = "addFinalizer" /\ base.phase = "live"
    BY <1>0, <1>4 DEF ObserveAbsent, Goto
  <2> QED BY <1>0, <2>1, <2>2 DEF JobPlan, Blank, Recovering, ExternalCreateIncomplete
<1>5. CASE ObserveMissing
  <2>1. CASE pc' = "status"
    BY <2>1, PlanTrivial
  <2>2. CASE pc' # "status"
    <3>1. pc' = "removeFinalizer" /\ ext[base.name] # "visible" /\ base.name # None
      BY <1>0, <1>5, <2>2 DEF ObserveMissing, Goto
    <3>2. CASE base.name \in Own
      <4>1. ext[base.name] = "deleted"
        BY <3>1, <3>2 DEF IInv, CopiesSound, Sound
      <4> QED BY <1>0, <3>1, <3>2, <4>1 DEF JobPlan
    <3>3. CASE base.name = Unknown
      <4>1. base.bound /\ (base.status # None => base.status = Unknown)
        BY <1>0, <1>5, <3>3 DEF ObserveMissing, BindingTrusted
      <4>2. Unknown \in lost /\ UNCHANGED lost
        BY <1>5, <3>3, <4>1 DEF IInv, CopiesSound, Sound, ObserveMissing, Quiet
      <4> QED BY <3>1, <4>2 DEF JobPlan
    <3>4. base.name # Foreign
      BY <3>1 DEF IInv, StoredTrace
    <3> QED BY <1>0, <3>1, <3>2, <3>3, <3>4 DEF Resource, Ids
  <2> QED BY <2>1, <2>2 DEF ObserveMissing, Goto
<1>6. CASE ObserveBound
  <2>1. CASE job.status = None /\ job.name \notin Own
    BY <1>6, <2>1, PlanTrivial DEF ObserveBound, Goto
  <2>2. CASE job.status # None \/ job.name \in Own
    <3>1. job.name \in Own
      BY <1>6, <2>2, ObserveBoundOwn
    <3>2. job' = [job EXCEPT !.status = job.name] /\ pc' \in {"status", "update", "delete"}
      BY <1>6, <2>2 DEF ObserveBound, AfterGet, Goto
    <3>3. job'.name = job.name
      BY <1>0, <3>2 DEF Resource
    <3> QED BY <3>1, <3>2, <3>3 DEF JobPlan
  <2> QED BY <2>1, <2>2
<1> QED BY <1>1, <1>2, <1>3, <1>4, <1>5, <1>6 DEF Observe

(* What a create and its recovery leave for the annotations. *)
LEMMA PlanCreate ==
    ASSUME IInv, CreateFails \/ Create \/ CreateAmbiguous \/ recoverAmbiguousCreate
    PROVE  JobPlan'
<1>1. /\ pc \in {"create", "recover"} /\ UNCHANGED <<cr, lost>> /\ job \in Resource
      /\ pc' = IF CreateAmbiguous THEN "recover" ELSE "annotate"
  BY DEF IInv, TypeOK, Types, CreateFails, Create, CreateAmbiguous,
     recoverAmbiguousCreate, Goto, Quiet
<1>2. Incomplete /\ job.name = None /\ (job.bound <=> cr.bound)
  BY <1>1 DEF IInv, JobPlan
<1>3. CASE CreateFails
  <2>0. pc = "create" /\ pc' = "annotate" /\ UNCHANGED ext
    BY <1>3 DEF CreateFails, Goto
  <2>1. /\ job'.pending = job.pending /\ job'.name = None
        /\ job'.bound = job.bound
    BY <1>1, <1>2, <1>3 DEF CreateFails, Resource
  <2>2. None \notin lost' => Empty'
    BY <1>1, <2>0 DEF IInv, JobPlan, Empty
  <2> QED BY <1>1, <1>2, <2>0, <2>1, <2>2 DEF JobPlan, Incomplete, ExternalCreateIncomplete
<1>4. CASE CreateAmbiguous
  <2>1. /\ job'.pending = job.pending /\ job'.name = None /\ job'.marker
        /\ job'.bound = job.bound
    BY <1>1, <1>2, <1>4 DEF CreateAmbiguous, markAmbiguousCreate, Resource
  <2> QED BY <1>1, <1>2, <1>4, <2>1 DEF JobPlan, Incomplete, ExternalCreateIncomplete
<1>5. ASSUME NEW i \in Own, job' = bindExternalID(job, i), pc' = "annotate"
      PROVE  JobPlan'
  <2>1. job'.pending = job.pending /\ job'.name = i /\ job'.bound
    BY <1>1, <1>5, BindFields DEF Ids
  <2>2. Incomplete'
    BY <1>1, <1>2, <2>1 DEF Incomplete, ExternalCreateIncomplete
  <2> QED BY <1>5, <2>1, <2>2 DEF JobPlan
<1>6. CASE Create
  BY <1>5, <1>6, NewIdentity DEF Create, Goto
<1>7. CASE recoverAmbiguousCreate /\ UNCHANGED job
  <2>1. pc = "recover" /\ pc' = "annotate" /\ job.marker
    BY <1>7 DEF recoverAmbiguousCreate, Goto, IInv, JobPlan
  <2> QED BY <1>1, <1>2, <1>7, <2>1 DEF JobPlan, Incomplete, ExternalCreateIncomplete
<1>8. CASE recoverAmbiguousCreate /\ job' # job
  <2>1. PICK i \in Own : job' = bindExternalID(job, i)
    BY <1>8 DEF recoverAmbiguousCreate, FindByName
  <2> QED BY <1>5, <1>8, <2>1 DEF recoverAmbiguousCreate, Goto
<1> QED BY <1>3, <1>4, <1>6, <1>7, <1>8

(* What each step of a job knows is still true when the job gets there. *)
LEMMA PlanStep ==
    ASSUME IInv, [Next]_vars
    PROVE  JobPlan'
<1>1. CASE \/ Edits \/ LifetimeEnds \/ Spoil \/ Sync \/ UNCHANGED vars
           \/ \E i \in Own : LateVisible(i) \/ DeletedOutOfBand(i)
  <2>1. UNCHANGED <<pc, base, job, overdue>> /\ (UNCHANGED cr \/ Edits)
    BY <1>1, EditSteps DEF LifetimeEnds, Spoil, Sync, LateVisible, DeletedOutOfBand,
       Idle, vars
  <2> QED BY <2>1, PlanKept
<1>2. CASE Begin
  BY <1>2 DEF Begin, JobPlan
<1>3. CASE Observe
  BY <1>3, PlanObserve
<1>4. CASE ReadFails \/ Patch \/ Delete \/ DeleteRefused \/ Annotate \/ Abandon
  BY <1>4, PlanTrivial DEF ReadFails, Patch, Delete, DeleteRefused, Annotate,
     Abandon, Goto
<1>7. CASE Update
  <2>1. CASE pc' = "status"
    BY <2>1, PlanTrivial
  <2>2. CASE pc' # "status"
    <3>1. pc' = "patch" /\ ~expired /\ job' = job /\ UNCHANGED overdue /\ pc = "update"
      BY <1>7, <2>2 DEF Update, Goto, Quiet
    <3>2. job.name \in Own /\ ~overdue
      BY <3>1 DEF IInv, JobPlan
    <3> QED BY <3>1, <3>2 DEF JobPlan
  <2> QED BY <2>1, <2>2
<1>5. CASE CreateFails \/ Create \/ CreateAmbiguous \/ recoverAmbiguousCreate
  BY <1>5, PlanCreate
<1>6. CASE Writes
  <2>0. base \in Resource
    BY DEF IInv, TypeOK, Types
  <2>1. CASE pc' = "idle"
    BY <2>1, PlanTrivial
  <2>2. CASE AddFinalizer /\ pc' # "idle"
    <3>1. pc' = "setPending" /\ base' = [base EXCEPT !.finalizer = TRUE]
      BY <2>2 DEF AddFinalizer, Write
    <3>2. base.phase = "live" /\ base.ack = 0 /\ Blank(base)
      BY <2>2 DEF AddFinalizer, IInv, JobPlan
    <3>3. base'.phase = "live" /\ base'.ack = 0 /\ Blank(base') /\ base'.finalizer
      BY <2>0, <3>1, <3>2 DEF Resource, Blank, Recovering, ExternalCreateIncomplete
    <3> QED BY <3>1, <3>3 DEF JobPlan, Blank, Recovering, ExternalCreateIncomplete
  <2>3. CASE SetPending /\ pc' # "idle"
    <3>1. /\ pc' = "create" /\ cr' = job' /\ cr = base /\ UNCHANGED ext
          /\ cr' = [base EXCEPT !.pending = base.pending + 1, !.outcome = "none"]
      BY <2>3 DEF SetPending, Write
    <3>2. /\ base.phase = "live" /\ base.ack = 0 /\ Blank(base) /\ base.finalizer
      BY <2>3 DEF SetPending, IInv, JobPlan
    <3>3. /\ cr'.phase = "live" /\ cr'.ack = 0 /\ cr'.finalizer
          /\ cr'.pending = base.pending + 1 /\ cr'.outcome = "none"
          /\ cr'.name = None /\ ~cr'.marker /\ cr'.bound = base.bound
      BY <2>0, <3>1, <3>2 DEF Resource, Blank, Recovering
    <3>4. base.pending + 1 # 0
      BY <2>0 DEF Resource
    <3>5. None \notin lost' => Empty'
      <4>1. base.bound => None \in lost
        BY <3>2 DEF IInv, CopiesSound, Sound, Blank
      <4>2. lost' = lost
        BY <2>3 DEF SetPending, Quiet
      <4> QED BY <3>1, <3>2, <4>1, <4>2 DEF IInv, StoredTrace, Empty, Blank
    <3> QED BY <3>1, <3>3, <3>4, <3>5 DEF JobPlan, Incomplete, ExternalCreateIncomplete
  <2> QED
    BY <1>6, <2>1, <2>2, <2>3 DEF Writes, LateInitialize, UpdateStatus,
       RemoveFinalizer, Write
<1> QED BY <1>1, <1>2, <1>3, <1>4, <1>5, <1>6, <1>7, StepKinds DEF ReadsOnly

(* No step of a reconcile forgets the status it read. *)
LEMMA StatusStep ==
    ASSUME IInv, [Next]_vars
    PROVE  StatusKept'
<1>0. job \in Resource /\ base \in Resource
  BY DEF IInv, TypeOK, Types
<1>1. CASE UNCHANGED <<pc, base, job>> \/ pc' = "idle" \/ job' = base'
  BY <1>1 DEF IInv, StatusKept
<1>2. CASE pc # "idle" /\ UNCHANGED <<base, job>>
  BY <1>2 DEF IInv, StatusKept
<1>3. CASE pc # "idle" /\ UNCHANGED base /\ \E i \in Own : job' = bindExternalID(job, i)
  BY <1>0, <1>3, BindFields, ManagedAssumption DEF StatusKept, Ids
<1>4. CASE pc # "idle" /\ UNCHANGED base /\ job'.status = job.status
  BY <1>4 DEF IInv, StatusKept
<1>5. CASE Edits \/ LifetimeEnds \/ Spoil \/ Sync \/ UNCHANGED vars
           \/ \E i \in Own : LateVisible(i) \/ DeletedOutOfBand(i)
  BY <1>1, <1>5, EditSteps DEF LifetimeEnds, Spoil, Sync, LateVisible,
     DeletedOutOfBand, Idle, vars
<1>6. CASE Begin \/ Writes \/ Annotate \/ Abandon
  BY <1>1, <1>6 DEF Begin, Annotate, Abandon, Goto, Writes, AddFinalizer, SetPending,
     LateInitialize, UpdateStatus, RemoveFinalizer, Write
<1>7. CASE ObserveAcknowledged \/ ObserveNotRecovered \/ ObserveAbsent
           \/ ObserveUntrusted \/ ObserveMissing \/ ReadFails \/ Update \/ Patch
           \/ Delete \/ DeleteRefused
  BY <1>2, <1>7 DEF ObserveAcknowledged, ObserveNotRecovered, ObserveAbsent, Goto,
     ObserveUntrusted, ObserveMissing, ReadFails, Update, Patch, Delete,
     DeleteRefused, CanObserve
<1>8. CASE ObserveRecovers \/ recoverAmbiguousCreate
  BY <1>2, <1>3, <1>8 DEF ObserveRecovers, recoverAmbiguousCreate, Goto, FindByName,
     CanObserve
<1>9. CASE ObserveBound
  <2>1. pc # "idle" /\ UNCHANGED base
    BY <1>9 DEF ObserveBound, CanObserve, Goto
  <2>2. job' = job \/ (job' = [job EXCEPT !.status = job.name] /\ job.name \in Own)
    BY <1>9, ObserveBoundOwn DEF ObserveBound
  <2>3. job.name \in Own /\ job' = [job EXCEPT !.status = job.name] => job'.status # None
    BY <1>0, ManagedAssumption DEF Resource
  <2> QED BY <1>2, <2>1, <2>2, <2>3 DEF StatusKept
<1>10. CASE CreateFails \/ CreateAmbiguous
  <2>1. job'.status = job.status /\ pc # "idle" /\ UNCHANGED base
    BY <1>0, <1>10 DEF CreateFails, CreateAmbiguous, markAmbiguousCreate, Resource, Goto
  <2> QED BY <1>4, <2>1
<1>11. CASE Create
  BY <1>3, <1>11, NewIdentity DEF Create, Goto
<1> QED
  BY <1>5, <1>6, <1>7, <1>8, <1>9, <1>10, <1>11, StepKinds DEF ReadsOnly, Observe

-----------------------------------------------------------------------------
(*                      What is patched, and when                            *)

(* The steps that patch or post, and those that begin or end a deadline. *)
LEMMA TouchKinds ==
    ASSUME [Next]_vars
    PROVE  /\ UNCHANGED kind
           /\ \/ ObserveRecovers \/ recoverAmbiguousCreate \/ Create
              \/ CreateAmbiguous \/ Patch \/ Delete \/ UNCHANGED <<touched, late>>
           /\ \/ Begin \/ LifetimeEnds \/ UNCHANGED <<overdue, expired>>
<1>1. CASE Environment
  BY <1>1 DEF Environment, DeleteResource, Tamper, AcknowledgeAbsence, Spoil,
     LifetimeEnds, Sync, LateVisible, DeletedOutOfBand, Idle
<1>2. CASE Begin
  BY <1>2 DEF Begin
<1>3. CASE Observe \/ ReadFails \/ DeleteRefused \/ Abandon
  BY <1>3 DEF Observe, ObserveAcknowledged, ObserveNotRecovered, ObserveRecovers,
     ObserveAbsent, ObserveUntrusted, ObserveMissing, ObserveBound, ReadFails,
     DeleteRefused, Abandon, Quiet
<1>4. CASE Act
  BY <1>4 DEF Act, AddFinalizer, SetPending, Create, CreateFails, CreateAmbiguous,
     recoverAmbiguousCreate, Annotate, LateInitialize, Update, Patch, Delete,
     UpdateStatus, RemoveFinalizer, Quiet
<1>5. CASE UNCHANGED vars
  BY <1>5 DEF vars
<1> QED BY <1>1, <1>2, <1>3, <1>4, <1>5 DEF Next

(* No step touches a foreign object, no overdue reconcile of a Template      *)
(* writes, and only an expired lifetime makes one overdue.                    *)
LEMMA TouchStep ==
    ASSUME IInv, [Next]_vars
    PROVE  ForeignUntouched' /\ TemplateWritesInTime' /\ (overdue' => expired')
<1>0. /\ Foreign \notin touched /\ (kind = "Template" => ~late)
      /\ (overdue => expired) /\ Foreign \notin Own
  BY ManagedAssumption DEF IInv, ForeignUntouched, TemplateWritesInTime
<1>1. overdue' => expired'
  BY <1>0, TouchKinds DEF Begin, LifetimeEnds, Idle
<1> SUFFICES Foreign \notin touched' /\ (kind' = "Template" => ~late')
  BY <1>1 DEF ForeignUntouched, TemplateWritesInTime
<1>2. UNCHANGED kind
  BY TouchKinds
<1>3. CASE ObserveRecovers
  BY <1>0, <1>2, <1>3 DEF ObserveRecovers, Reassert, FindByName
<1>4. CASE recoverAmbiguousCreate
  BY <1>0, <1>2, <1>4 DEF recoverAmbiguousCreate, Reassert, FindByName
<1>5. CASE Create \/ CreateAmbiguous
  BY <1>0, <1>2, <1>5 DEF Create, CreateAmbiguous
<1>6. CASE Patch
  <2>1. job.name \in Own /\ ~overdue
    BY <1>6 DEF Patch, IInv, JobPlan
  <2> QED BY <1>0, <1>2, <1>6, <2>1 DEF Patch
<1>7. CASE Delete
  BY <1>0, <1>2, <1>7 DEF Delete, IInv, JobPlan
<1>8. CASE UNCHANGED <<touched, late>>
  BY <1>0, <1>2, <1>8
<1> QED BY <1>3, <1>4, <1>5, <1>6, <1>7, <1>8, TouchKinds

-----------------------------------------------------------------------------
(*                               The theorems                                *)

(* Before the first reconcile there is no object and no job. *)
LEMMA InvInit == Init => IInv
<1> SUFFICES ASSUME Init PROVE IInv
  OBVIOUS
<1>1. TypeOK
  BY TypeInit
<1>2. Empty /\ ext[Foreign] = "visible" /\ ext[Unknown] = "absent"
  BY ManagedAssumption DEF Init, Empty, Ids
<1>3. /\ cr.status = None /\ cr.name \notin Own /\ cr.phase = "live" /\ cr.ack = 0
      /\ ~cr.bound
  BY ManagedAssumption DEF Init, NewResource
<1>4. CopiesSound
  BY <1>3, ManagedAssumption DEF Init, CopiesSound, Sound
<1>5. StoredTrace
  BY <1>2, <1>3 DEF StoredTrace, Init
<1>6. JobPlan /\ StatusKept /\ (overdue => expired)
  BY DEF Init, JobPlan, StatusKept
<1>7. AtMostOne /\ GoneMeansDeleted
  BY <1>2, <1>3 DEF Empty, AtMostOne, GoneMeansDeleted
<1>8. ForeignUntouched /\ TemplateWritesInTime
  BY DEF Init, ForeignUntouched, TemplateWritesInTime
<1> QED BY <1>1, <1>4, <1>5, <1>6, <1>7, <1>8 DEF IInv

(* Every step preserves the invariant. *)
LEMMA InvStep ==
    ASSUME IInv, [Next]_vars
    PROVE  IInv'
<1>1. TypeOK'
  <2>1. Types' /\ CopiesSound'
    BY TypeStep, CopiesStep
  <2> QED BY <2>1 DEF TypeOK, CopiesSound, Sound, Recovering, ExternalCreateIncomplete
<1> QED
  BY <1>1, CopiesStep, StoredStep, PlanStep, StatusStep, AtMostOneStep, TouchStep DEF IInv

(* The inductive invariant holds of every reachable state. *)
LEMMA Invariant == Spec => []IInv
BY InvInit, InvStep, PTL DEF Spec

(* The stored, cached and working copies of the resource, the objects and    *)
(* the reconciler's step always have their types, and a bound copy has no    *)
(* create in doubt (Observe, Create, Update, Delete, bindExternalID).        *)
THEOREM TypeCorrect == Spec => []TypeOK
<1>1. IInv => TypeOK
  BY DEF IInv
<1> QED BY <1>1, Invariant, PTL

(* However crashes, ambiguous POSTs, late listings and stale reads           *)
(* interleave, a resource never has two RunPod objects (Create, Observe), as *)
(* long as the external name of a bound resource is not removed.             *)
THEOREM OneObject == Spec => []AtMostOne
<1>1. IInv => AtMostOne
  BY DEF IInv
<1> QED BY <1>1, Invariant, PTL

(* When the resource is gone, no RunPod object of it is left: the finalizer  *)
(* goes only after a deletion, a proven absence or a create that never was.  *)
(* Edits of the external name do not change that, but for the two that hide  *)
(* the object from the controllers (see GoneMeansDeleted).                   *)
THEOREM NothingLeft == Spec => []GoneMeansDeleted
<1>1. IInv => GoneMeansDeleted
  BY DEF IInv
<1> QED BY <1>1, Invariant, PTL

(* No PATCH or DELETE reaches an object this resource did not create,        *)
(* whatever the external-name annotation was made to say.                    *)
THEOREM ForeignSafe == Spec => []ForeignUntouched
<1>1. IInv => ForeignUntouched
  BY DEF IInv
<1> QED BY <1>1, Invariant, PTL

(* A reconcile of a Template that begins after its lifetime has elapsed      *)
(* issues no POST and no PATCH: the check in Create and Update is never      *)
(* bypassed, by the recovery of an ambiguous create either                   *)
(* (ensureLifetimeActive in template.go).                                    *)
THEOREM TemplateDeadline == Spec => []TemplateWritesInTime
<1>1. IInv => TemplateWritesInTime
  BY DEF IInv
<1> QED BY <1>1, Invariant, PTL
=============================================================================
