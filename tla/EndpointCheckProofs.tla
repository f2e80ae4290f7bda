------------------------ MODULE EndpointCheckProofs ------------------------
(***************************************************************************)
(* Theorems about EndpointCheck, for all durations and bounds: types, what *)
(* a status may claim (VerifiedMeansProbed, ReadyMeansWorkerSeen), and how *)
(* often a full verification begins (ProbeCadence).                        *)
(***************************************************************************)
EXTENDS EndpointCheck, TLAPS

USE EndpointCheckAssumption

(* Saturating ages stay ages, and an event that has happened has happened. *)
LEMMA Ageing ==
    /\ \A a \in Ages : \A cap \in 0 .. Cap :
          Older(a, cap) \in Ages /\ (Older(a, cap) = Never <=> a = Never)
    /\ \A a \in 0 .. Cap : Older(a, Cap) \in 0 .. Cap
    /\ Cap \in 0 .. Cap /\ Poll + MaxCall \in 0 .. Cap /\ FlashMax + 1 \in 0 .. Cap
    /\ 0 \in Ages /\ Never \in Ages /\ 0 .. Cap \subseteq Ages
  BY DEF Ages, Older, Never

(* The records that the actions build from a check. *)
LEMMA CheckRecords ==
    /\ NoStatus \in Check
    /\ \A c \in Check :
          /\ [c EXCEPT !.deleting = TRUE] \in Check
          /\ [c EXCEPT !.drain = TRUE] \in Check
          /\ [c EXCEPT !.gen = c.gen + 1] \in Check
  <1>1. NoStatus \in Check
    BY Ageing DEF Check, NoStatus
  <1>2. ASSUME NEW c \in Check
        PROVE  /\ [c EXCEPT !.deleting = TRUE] \in Check
               /\ [c EXCEPT !.drain = TRUE] \in Check
               /\ [c EXCEPT !.gen = c.gen + 1] \in Check
    <2>1. c.gen + 1 \in Nat
      BY DEF Check
    <2>2. [c EXCEPT !.deleting = TRUE] \in Check
      BY DEF Check
    <2>3. [c EXCEPT !.drain = TRUE] \in Check
      BY DEF Check
    <2>4. [c EXCEPT !.gen = c.gen + 1] \in Check
      BY <2>1 DEF Check
    <2> QED BY <2>2, <2>3, <2>4
  <1> QED BY <1>1, <1>2

(* A tick changes only the ages of a check. *)
LEMMA AgedCheck ==
    ASSUME NEW c \in Check
    PROVE  /\ OlderCheck(c) \in Check
           /\ OlderCheck(c).verified = c.verified /\ OlderCheck(c).ready = c.ready
           /\ OlderCheck(c).obsGen = c.obsGen /\ OlderCheck(c).gen = c.gen
           /\ OlderCheck(c).version = c.version
           /\ OlderCheck(c).template = c.template
           /\ OlderCheck(c).secret = c.secret
  BY Ageing DEF Check, OlderCheck

(* The local variables of a Reconcile. *)
LEMMA JobRecords ==
    /\ NoJob \in Jobs
    /\ \A c \in Check : [NoJob EXCEPT !.check = c] \in Jobs
    /\ \A j \in Jobs :
          /\ \A k \in Kinds : [j EXCEPT !.kind = k] \in Jobs
          /\ \A s \in Nat : [j EXCEPT !.secret = s] \in Jobs
          /\ \A v, t \in Nat, o \in Ages :
                [j EXCEPT !.version = v, !.template = t, !.observed = o] \in Jobs
          /\ \A c \in Check, a \in 0 .. Cap, o \in Ages :
                [j EXCEPT !.check = c, !.age = a, !.observed = o] \in Jobs
  <1>1. "none" \in Kinds /\ 0 \in 0 .. Cap
    BY DEF Kinds
  <1>2. NoJob \in Jobs
    BY <1>1, CheckRecords, Ageing DEF Jobs, NoJob
  <1>3. ASSUME NEW c \in Check PROVE [NoJob EXCEPT !.check = c] \in Jobs
    BY <1>2 DEF Jobs
  <1>4. ASSUME NEW j \in Jobs, NEW k \in Kinds PROVE [j EXCEPT !.kind = k] \in Jobs
    BY DEF Jobs
  <1>5. ASSUME NEW j \in Jobs, NEW s \in Nat PROVE [j EXCEPT !.secret = s] \in Jobs
    BY DEF Jobs
  <1>6. ASSUME NEW j \in Jobs, NEW v \in Nat, NEW t \in Nat, NEW o \in Ages
        PROVE  [j EXCEPT !.version = v, !.template = t, !.observed = o] \in Jobs
    BY DEF Jobs
  <1>7. ASSUME NEW j \in Jobs, NEW c \in Check, NEW a \in 0 .. Cap, NEW o \in Ages
        PROVE  [j EXCEPT !.check = c, !.age = a, !.observed = o] \in Jobs
    BY DEF Jobs
  <1> QED BY <1>2, <1>3, <1>4, <1>5, <1>6, <1>7

-----------------------------------------------------------------------------
(***************************************************************************)
(* The inductive invariant.                                                *)
(***************************************************************************)

(* What a status claims is so. *)
Claims(c) ==
    /\ c.verified => Key(c.obsGen, c.version, c.template, c.secret) \in passed
    /\ c.ready => c.verified /\ c.version \in seen

(* A worker observation belongs to the rollout it is stored with. *)
EvidenceInv ==
    /\ ep.observed # Never => ep.version \in seen
    /\ job.observed # Never => job.version \in seen

(* What the running Reconcile has established when it reaches a status write. *)
JobInv ==
    /\ Claims(job.check)
    /\ pc = "health" => Bound(job.check, job.secret)
    /\ pc = "write" =>
          /\ job.kind # "none"
          /\ job.kind \in {"healthy", "failLiveness"} => Bound(job.check, job.secret)
          /\ job.kind = "verified" =>
                Key(job.check.gen, job.version, job.template, job.secret) \in passed
          /\ job.kind = "admit" => job.check.verified /\ job.check.version \in seen

ClaimInv == TypeOK /\ Claims(check) /\ EvidenceInv /\ JobInv

(* At first nothing is claimed. *)
LEMMA ClaimInit == Init => ClaimInv
  <1> SUFFICES ASSUME Init PROVE ClaimInv
    OBVIOUS
  <1>1. check \in Check /\ job \in Jobs
    BY CheckRecords, JobRecords DEF Init
  <1>2. ep \in Evidence /\ secret \in [rv : Nat, usable : BOOLEAN]
    BY Ageing DEF Init, Evidence
  <1>3. last \in [key : Nat \X Nat \X Nat \X Nat, age : Ages]
    BY Ageing DEF Init, NoProbe, Key
  <1>4. TypeOK
    BY <1>1, <1>2, <1>3 DEF Init, TypeOK
  <1>5. Claims(check) /\ JobInv
    BY DEF Init, Claims, JobInv, NoStatus, NoJob
  <1>6. EvidenceInv
    BY DEF Init, EvidenceInv, NoJob
  <1> QED BY <1>4, <1>5, <1>6 DEF ClaimInv

(* Passing time changes no claim. *)
LEMMA TickStep == ClaimInv /\ Tick => ClaimInv'
  <1> SUFFICES ASSUME ClaimInv, Tick PROVE ClaimInv'
    OBVIOUS
  <1>t. /\ check \in Check /\ job \in Jobs /\ ep \in Evidence /\ job.check \in Check
        /\ last \in [key : Nat \X Nat \X Nat \X Nat, age : Ages]
    BY DEF ClaimInv, TypeOK, Jobs
  <1>1. check' = OlderCheck(check) /\ UNCHANGED <<world, pc, passed, seen, forgotten, faults>>
    BY DEF Tick
  <1>2. /\ ep' \in Evidence
        /\ ep'.version = ep.version /\ (ep'.observed # Never => ep.observed # Never)
    BY <1>t, Ageing DEF Tick, Evidence
  <1>3. last' \in [key : Nat \X Nat \X Nat \X Nat, age : Ages]
    BY <1>t, Ageing DEF Tick
  <1>4. /\ job' \in Jobs
        /\ job'.check \in {job.check, OlderCheck(job.check)}
        /\ job'.version = job.version /\ job'.template = job.template
        /\ job'.secret = job.secret /\ job'.kind = job.kind
        /\ job'.observed # Never => job.observed # Never
    <2>1. CASE pc = "idle"
      BY <2>1, <1>t DEF Tick
    <2>2. CASE pc # "idle"
      <3>1. job' = [job EXCEPT !.check = OlderCheck(job.check), !.age = Older(job.age, Cap),
                               !.observed = Older(job.observed, Cap)]
        BY <2>2 DEF Tick
      <3>2. /\ OlderCheck(job.check) \in Check /\ Older(job.age, Cap) \in 0 .. Cap
            /\ Older(job.observed, Cap) \in Ages
            /\ Older(job.observed, Cap) # Never => job.observed # Never
        BY <1>t, AgedCheck, Ageing DEF Jobs
      <3>3. job' \in Jobs
        BY <3>1, <3>2, <1>t, JobRecords
      <3> QED BY <3>1, <3>2, <3>3, <1>t DEF Jobs
    <2> QED BY <2>1, <2>2
  <1>5. TypeOK'
    BY <1>1, <1>2, <1>3, <1>4, <1>t, AgedCheck DEF ClaimInv, TypeOK, world
  <1>6. Claims(check)'
    BY <1>1, <1>t, AgedCheck DEF ClaimInv, Claims
  <1>7. EvidenceInv'
    BY <1>1, <1>2, <1>4 DEF ClaimInv, EvidenceInv
  <1>8. JobInv'
    <2>1. /\ job'.check.verified = job.check.verified /\ job'.check.ready = job.check.ready
          /\ job'.check.obsGen = job.check.obsGen /\ job'.check.gen = job.check.gen
          /\ job'.check.version = job.check.version
          /\ job'.check.template = job.check.template
          /\ job'.check.secret = job.check.secret
      BY <1>4, <1>t, AgedCheck
    <2> QED BY <1>1, <1>4, <2>1 DEF ClaimInv, JobInv, Claims, Bound
  <1> QED BY <1>5, <1>6, <1>7, <1>8 DEF ClaimInv

(* Users and RunPod change what is claimed about, never a claim. *)
LEMMA WorldStep == ClaimInv /\ World => ClaimInv'
  <1> SUFFICES ASSUME ClaimInv, World PROVE ClaimInv'
    OBVIOUS
  <1>t. check \in Check
    BY DEF ClaimInv, TypeOK
  <1>1. CASE EditCheck \/ DeleteCheck
    <2>1. check' \in {[check EXCEPT !.gen = check.gen + 1], [check EXCEPT !.deleting = TRUE]}
      BY <1>1 DEF EditCheck, DeleteCheck
    <2>2. check' \in Check
      BY <2>1, <1>t, CheckRecords
    <2>3. /\ check'.verified = check.verified /\ check'.ready = check.ready
          /\ check'.obsGen = check.obsGen /\ check'.version = check.version
          /\ check'.template = check.template /\ check'.secret = check.secret
      BY <2>1, <1>t DEF Check
    <2>4. UNCHANGED <<ep, version, template, secret, expired, pc, job, passed, seen,
                      last, forgotten, faults>>
      BY <1>1 DEF EditCheck, DeleteCheck, world, aux
    <2>5. TypeOK'
      BY <2>2, <2>4 DEF ClaimInv, TypeOK
    <2> QED BY <2>3, <2>4, <2>5 DEF ClaimInv, Claims, EvidenceInv, JobInv, Bound
  <1>2. CASE Rollout \/ EditTemplate \/ LifetimeEnds
    <2>1. UNCHANGED <<check, ep, secret, pc, job, passed, seen, last, forgotten, faults>>
      BY <1>2 DEF Rollout, EditTemplate, LifetimeEnds, aux
    <2>2. version' \in Nat /\ template' \in Nat
      BY <1>2 DEF Rollout, EditTemplate, LifetimeEnds, ClaimInv, TypeOK
    <2>3. expired' = expired \/ \E k \in 1 .. 4 : expired' = Deadlines[k]
      BY <1>2 DEF Rollout, EditTemplate, LifetimeEnds
    <2>4. expired' \in {"none", "template", "endpoint", "check"}
      BY <2>3 DEF ClaimInv, TypeOK, Deadlines
    <2> QED BY <2>1, <2>2, <2>4 DEF ClaimInv, TypeOK, Claims, EvidenceInv, JobInv, Bound
  <1>3. CASE WriteSecret
    <2>1. UNCHANGED <<check, ep, version, template, expired, pc, job, passed, seen,
                      last, forgotten, faults>>
      BY <1>3 DEF WriteSecret, aux
    <2>2. secret' \in [rv : Nat, usable : BOOLEAN]
      <3>1. secret.rv + 1 \in Nat
        BY DEF ClaimInv, TypeOK
      <3> QED BY <1>3, <3>1 DEF WriteSecret
    <2> QED BY <2>1, <2>2 DEF ClaimInv, TypeOK, Claims, EvidenceInv, JobInv, Bound
  <1> QED BY <1>1, <1>2, <1>3 DEF World

(* A status computed from a response is well formed and names its version. *)
LEMMA Observed ==
    ASSUME template \in Nat, NEW e \in Evidence, NEW v \in Nat, NEW r,
           NEW w, NEW s
    PROVE  /\ setObservation(e, v, r, w, s) \in Evidence
           /\ setObservation(e, v, r, w, s).version = v
  <1> DEFINE kp == r = "omitted" /\ ~w /\ FlashBootEvidenceCurrent(e) /\ e.version = v
             fl == r = "off" \/ kp \/ (r = "omitted" /\ w)
             rp == \/ e.template = template
                   \/ e.template = 0 /\ w
                   \/ e.template # 0 /\ e.version # v
             o == [current  |-> fl /\ rp /\ ~w,
                   version  |-> v,
                   template |-> IF rp THEN template ELSE e.template,
                   flash    |-> IF kp THEN e.flash ELSE IF fl THEN 0 ELSE Never,
                   observed |-> IF s THEN 0 ELSE Never]
  <1>1. setObservation(e, v, r, w, s) = o
    BY DEF setObservation
  <1>2. (fl /\ rp /\ ~w) \in BOOLEAN
    OBVIOUS
  <1>3. (IF rp THEN template ELSE e.template) \in Nat
    BY DEF Evidence
  <1>4. (IF kp THEN e.flash ELSE IF fl THEN 0 ELSE Never) \in Ages
    BY Ageing DEF Evidence
  <1>5. (IF s THEN 0 ELSE Never) \in Ages
    BY Ageing
  <1> HIDE DEF kp, fl, rp
  <1>6. o \in Evidence
    BY <1>2, <1>3, <1>4, <1>5 DEF Evidence
  <1> QED BY <1>1, <1>6

(* The management controller's evidence. *)
LEMMA ManagementStep == ClaimInv /\ Management => ClaimInv'
  <1> SUFFICES ASSUME ClaimInv, Management PROVE ClaimInv'
    OBVIOUS
  <1>t. /\ ep \in Evidence /\ version \in Nat /\ template \in Nat /\ faults \in Nat
        /\ seen \subseteq Nat
    BY DEF ClaimInv, TypeOK
  <1>1. CASE Observe
    <2>1. PICK workers \in BOOLEAN, read \in Reports :
            LET e == setObservation(ep, version, read, FALSE, workers) IN
            /\ seen' = IF workers THEN seen \union {version} ELSE seen
            /\ \/ ep' = e /\ UNCHANGED <<version, faults>>
               \/ \E answer \in Reports :
                    /\ faults' \in {faults, faults + 1}
                    /\ version' \in {version, version + 1}
                    /\ ep' = setObservation(e, version', answer, TRUE, FALSE)
      BY <1>1, ZenonT(60) DEF Observe
    <2> DEFINE e == setObservation(ep, version, read, FALSE, workers)
    <2>2. /\ e \in Evidence /\ e.version = version
          /\ e.observed # Never => workers
      <3>1. e \in Evidence
        BY <1>t, Observed
      <3>2. e.version = version
        BY DEF setObservation
      <3>3. e.observed = IF workers THEN 0 ELSE Never
        BY DEF setObservation
      <3> QED BY <3>1, <3>2, <3>3
    <2>3. version' \in Nat /\ faults' \in Nat /\ seen' \subseteq Nat /\ seen \subseteq seen'
      <3>1. version' \in {version, version + 1} /\ faults' \in {faults, faults + 1}
        BY <2>1
      <3>2. seen' \in {seen, seen \union {version}}
        BY <2>1
      <3> QED BY <3>1, <3>2, <1>t
    <2>4. ep' \in Evidence /\ (ep'.observed # Never => ep'.version \in seen')
      <3>1. CASE ep' = e
        BY <2>1, <2>2, <3>1
      <3>2. CASE \E answer \in Reports : ep' = setObservation(e, version', answer, TRUE, FALSE)
        <4>1. PICK answer \in Reports : ep' = setObservation(e, version', answer, TRUE, FALSE)
          BY <3>2
        <4> HIDE DEF e
        <4>2. ep' \in Evidence
          BY <2>2, <2>3, <4>1, <1>t, Observed
        <4>3. ep'.observed = Never
          BY <4>1 DEF setObservation
        <4> QED BY <4>2, <4>3
      <3> QED BY <2>1, <3>1, <3>2
    <2>5. UNCHANGED <<check, template, secret, expired, pc, job, passed, last, forgotten>>
      BY <1>1 DEF Observe
    <2>6. TypeOK'
      BY <2>3, <2>4, <2>5 DEF ClaimInv, TypeOK
    <2> QED BY <2>3, <2>4, <2>5, <2>6 DEF ClaimInv, Claims, EvidenceInv, JobInv, Bound
  <1>2. CASE ObserveFails
    <2>1. ep' = [ep EXCEPT !.current = FALSE] /\ faults' = faults + 1
      BY <1>2 DEF ObserveFails
    <2>2. ep' \in Evidence /\ ep'.version = ep.version /\ ep'.observed = ep.observed
      BY <2>1, <1>t DEF Evidence
    <2>3. UNCHANGED <<check, version, template, secret, expired, pc, job, passed, seen,
                      last, forgotten>>
      BY <1>2 DEF ObserveFails, world, aux
    <2>4. TypeOK'
      BY <2>1, <2>2, <2>3 DEF ClaimInv, TypeOK
    <2> QED BY <2>2, <2>3, <2>4 DEF ClaimInv, Claims, EvidenceInv, JobInv, Bound
  <1> QED BY <1>1, <1>2 DEF Management

(* Every status a Reconcile writes is well formed and claims what is so. *)
LEMMA WrittenClaims ==
    ASSUME ClaimInv, pc = "write"
    PROVE  Written \in Check /\ Claims(Written)
  <1>t. /\ job \in Jobs /\ job.check \in Check /\ job.version \in Nat
        /\ job.template \in Nat /\ job.secret \in Nat /\ job.age \in Ages
        /\ job.age # Never /\ Never \in Ages /\ job.kind \in Kinds /\ job.kind # "none"
    BY Ageing DEF ClaimInv, TypeOK, Jobs, JobInv, Never
  <1>o. ASSUME NEW v \in Nat, NEW t \in Nat, NEW s \in Nat, NEW a \in Ages,
               NEW b \in BOOLEAN, b => a # Never
        PROVE  LET o == observation(v, t, s, a, b) IN
               /\ o \in Check /\ o.verified = b /\ ~o.ready /\ o.obsGen = job.check.gen
               /\ o.version = v /\ o.template = t /\ o.secret = s
    BY <1>t, <1>o DEF observation, Check
  <1>1. CASE job.kind = "fail"
    <2>1. Written = observation(0, 0, 0, Never, FALSE)
      BY <1>1 DEF Written, fail
    <2> QED BY <2>1, <1>o, <1>t DEF Claims
  <1>2. CASE job.kind = "failVerification"
    <2>1. Written = observation(job.version, job.template, job.secret, job.age, FALSE)
      BY <1>2 DEF Written, failVerification
    <2> QED BY <2>1, <1>o, <1>t DEF Claims
  <1>3. CASE job.kind = "failLiveness"
    <2>1. Written = [job.check EXCEPT !.checked = job.age, !.obsGen = job.check.gen,
                                      !.ready = FALSE]
      BY <1>3 DEF Written, failLiveness
    <2>2. /\ Written \in Check /\ Written.verified = job.check.verified /\ ~Written.ready
          /\ Written.obsGen = job.check.gen /\ Written.version = job.check.version
          /\ Written.template = job.check.template /\ Written.secret = job.check.secret
      BY <2>1, <1>t DEF Check
    <2>3. job.check.obsGen = job.check.gen
      BY <1>3 DEF ClaimInv, JobInv, Bound
    <2> QED BY <2>2, <2>3 DEF ClaimInv, JobInv, Claims
  <1>4. CASE job.kind = "verified"
    <2> DEFINE o == observation(job.version, job.template, job.secret, job.age, TRUE)
               w == WorkerSecurityEvidenceCurrent(job.observed)
    <2>1. Written = [o EXCEPT !.ready = w]
      BY <1>4 DEF Written, verifiedStatus
    <2>2. w \in BOOLEAN /\ (w => job.version \in seen)
      BY DEF WorkerSecurityEvidenceCurrent, ClaimInv, EvidenceInv
    <2>3. /\ o \in Check /\ o.verified = TRUE /\ o.obsGen = job.check.gen
          /\ o.version = job.version /\ o.template = job.template /\ o.secret = job.secret
      BY <1>t DEF observation, Check
    <2> HIDE DEF o, w
    <2>4. /\ Written \in Check /\ Written.verified = o.verified /\ Written.ready = w
          /\ Written.obsGen = job.check.gen /\ Written.version = job.version
          /\ Written.template = job.template /\ Written.secret = job.secret
      BY <2>1, <2>2, <2>3 DEF Check
    <2>5. Key(job.check.gen, job.version, job.template, job.secret) \in passed
      BY <1>4 DEF ClaimInv, JobInv
    <2> QED BY <2>2, <2>3, <2>4, <2>5 DEF Claims
  <1>5. CASE job.kind = "healthy"
    <2> DEFINE c == [job.check EXCEPT !.version = job.version, !.checked = job.age,
                                      !.obsGen = job.check.gen]
               w == verificationAdmitted(c, job.secret)
    <2>1. Written = [c EXCEPT !.ready = w]
      BY <1>5 DEF Written, healthyStatus
    <2>2. /\ c \in Check /\ c.verified = job.check.verified /\ c.obsGen = job.check.gen
          /\ c.version = job.version /\ c.template = job.check.template
          /\ c.secret = job.check.secret
      BY <1>t DEF Check
    <2>3. w \in BOOLEAN /\ (w => c.verified /\ job.version \in seen)
      <3>1. w => c.verified /\ job.observed # Never
        BY DEF verificationAdmitted, WorkerSecurityEvidenceCurrent
      <3>2. w \in BOOLEAN
        BY DEF verificationAdmitted
      <3> QED BY <3>1, <3>2 DEF ClaimInv, EvidenceInv
    <2> HIDE DEF c, w
    <2>4. /\ Written \in Check /\ Written.verified = c.verified /\ Written.ready = w
          /\ Written.obsGen = c.obsGen /\ Written.version = c.version
          /\ Written.template = c.template /\ Written.secret = c.secret
      BY <2>1, <2>2, <2>3 DEF Check
    <2>5. job.check.obsGen = job.check.gen /\ job.check.version = job.version
      BY <1>5 DEF ClaimInv, JobInv, Bound
    <2> QED BY <2>2, <2>3, <2>4, <2>5 DEF ClaimInv, JobInv, Claims
  <1>6. CASE job.kind = "admit"
    <2>1. Written = [job.check EXCEPT !.checked = job.age, !.ready = TRUE]
      BY <1>6 DEF Written, admitStatus
    <2>2. /\ Written \in Check /\ Written.verified = job.check.verified
          /\ Written.obsGen = job.check.obsGen /\ Written.version = job.check.version
          /\ Written.template = job.check.template /\ Written.secret = job.check.secret
      BY <2>1, <1>t DEF Check
    <2> QED BY <1>6, <2>2 DEF ClaimInv, JobInv, Claims
  <1> QED BY <1>t, <1>1, <1>2, <1>3, <1>4, <1>5, <1>6 DEF Kinds

(* The end of a Reconcile. *)
LEMMA Ended ==
    ASSUME ClaimInv, pc' = "idle", job' = NoJob,
           check' \in Check, Claims(check)', faults' \in Nat, forgotten' \in BOOLEAN,
           UNCHANGED <<ep, version, template, secret, expired, passed, seen, last>>
    PROVE  ClaimInv'
  <1>1. TypeOK'
    BY JobRecords DEF ClaimInv, TypeOK
  <1>2. JobInv' /\ EvidenceInv'
    BY DEF ClaimInv, JobInv, EvidenceInv, Claims, NoJob, NoStatus
  <1> QED BY <1>1, <1>2 DEF ClaimInv

(* The start of a Reconcile copies the check. *)
LEMMA StartStep == ClaimInv /\ (AddDrainFinalizer \/ Start) => ClaimInv'
  <1> SUFFICES ASSUME ClaimInv, AddDrainFinalizer \/ Start PROVE ClaimInv'
    OBVIOUS
  <1>t. check \in Check /\ Claims(check)
    BY DEF ClaimInv, TypeOK
  <1>1. CASE AddDrainFinalizer
    <2>1. check' = [check EXCEPT !.drain = TRUE]
      BY <1>1 DEF AddDrainFinalizer
    <2>2. /\ check' \in Check
          /\ check'.verified = check.verified /\ check'.ready = check.ready
          /\ check'.obsGen = check.obsGen /\ check'.version = check.version
          /\ check'.template = check.template /\ check'.secret = check.secret
      BY <2>1, <1>t, CheckRecords DEF Check
    <2>3. UNCHANGED <<ep, version, template, secret, expired, pc, job, passed, seen,
                      last, forgotten, faults>>
      BY <1>1 DEF AddDrainFinalizer, world, aux
    <2>4. TypeOK'
      BY <2>2, <2>3 DEF ClaimInv, TypeOK
    <2> QED BY <2>2, <2>3, <2>4 DEF ClaimInv, Claims, EvidenceInv, JobInv, Bound
  <1>2. CASE Start
    <2>1. pc' = "resolve" /\ job' = [NoJob EXCEPT !.check = check]
      BY <1>2 DEF Start
    <2>2. job' \in Jobs /\ job'.check = check /\ job'.observed = Never
      BY <2>1, <1>t, JobRecords DEF NoJob
    <2>3. UNCHANGED <<check, ep, version, template, secret, expired, passed, seen,
                      last, forgotten, faults>>
      BY <1>2 DEF Start, world, aux
    <2>4. TypeOK'
      BY <2>1, <2>2, <2>3 DEF ClaimInv, TypeOK
    <2> QED BY <1>t, <2>1, <2>2, <2>3, <2>4 DEF ClaimInv, Claims, EvidenceInv, JobInv
  <1> QED BY <1>1, <1>2

(* The steps of a Reconcile that end it. *)
LEMMA EndStep ==
    ASSUME ClaimInv,
           \/ Expire \/ UpdateStatus \/ UpdateConflicts
           \/ requestEndpointObservation \/ Abandon
    PROVE  ClaimInv'
  <1>t. /\ check \in Check /\ Claims(check) /\ faults \in Nat /\ forgotten \in BOOLEAN
        /\ job \in Jobs
    BY DEF ClaimInv, TypeOK
  <1>1. CASE Expire
    <2>1. check' = [check EXCEPT !.deleting = TRUE] /\ UNCHANGED <<passed, seen>>
      BY <1>1 DEF Expire, aux
    <2>2. check' \in Check
      BY <2>1, <1>t, CheckRecords
    <2>3. Claims(check)'
      BY <2>1, <1>t DEF Claims, Check
    <2> QED BY <1>1, <1>t, <2>2, <2>3, Ended DEF Expire, world, aux
  <1>2. CASE UpdateStatus
    <2>1. /\ pc = "write" /\ check' = Written
          /\ UNCHANGED <<ep, version, template, secret, expired, passed, seen, last, faults>>
      BY <1>2 DEF UpdateStatus, world
    <2>2. check' \in Check /\ Claims(check)'
      BY <2>1, WrittenClaims DEF Claims
    <2>3. forgotten' \in BOOLEAN
      BY <1>2 DEF UpdateStatus
    <2>4. CASE pc' = "idle" /\ job' = NoJob
      BY <1>t, <2>1, <2>2, <2>3, <2>4, Ended
    <2>5. CASE pc' = "request" /\ UNCHANGED job
      <3>1. TypeOK'
        BY <2>1, <2>2, <2>3, <2>5 DEF ClaimInv, TypeOK
      <3> QED BY <2>1, <2>2, <2>5, <3>1 DEF ClaimInv, JobInv, EvidenceInv, Claims
    <2> QED BY <1>2, <2>4, <2>5 DEF UpdateStatus
  <1>3. CASE UpdateConflicts \/ requestEndpointObservation \/ Abandon
    <2>1. /\ pc' = "idle" /\ job' = NoJob
          /\ UNCHANGED <<check, ep, version, template, secret, expired, passed, seen, last>>
      BY <1>3 DEF UpdateConflicts, requestEndpointObservation, Abandon, world, aux
    <2>2. faults' \in Nat
      BY <1>3, <1>t DEF UpdateConflicts, requestEndpointObservation, Abandon
    <2>3. forgotten' \in BOOLEAN
      BY <1>3, <1>t DEF UpdateConflicts, requestEndpointObservation, Abandon, aux
    <2>4. Claims(check)'
      BY <2>1, <1>t DEF Claims
    <2> QED BY <1>t, <2>1, <2>2, <2>3, <2>4, Ended
  <1> QED BY <1>1, <1>2, <1>3

(* A step of a Reconcile that only decides how to go on. *)
LEMMA Decided ==
    ASSUME ClaimInv,
           UNCHANGED <<check, ep, version, template, secret, expired, passed, seen,
                       last, forgotten>>,
           faults' \in Nat,
           pc' \in {"idle", "resolve", "secret", "health", "verify", "write", "request"},
           job' \in Jobs, JobInv', EvidenceInv'
    PROVE  ClaimInv'
  <1>1. TypeOK'
    BY DEF ClaimInv, TypeOK
  <1> QED BY <1>1 DEF ClaimInv, Claims

(* A failed resolution or a bad Secret claims nothing. *)
LEMMA FailStep == ClaimInv /\ (ResolveFails \/ ReadSecretFails) => ClaimInv'
  <1> SUFFICES ASSUME ClaimInv, ResolveFails \/ ReadSecretFails PROVE ClaimInv'
    OBVIOUS
  <1>1. /\ pc' = "write" /\ job' = [job EXCEPT !.kind = "fail"]
        /\ UNCHANGED <<check, ep, version, template, secret, expired, passed, seen,
                       last, forgotten>>
        /\ faults' \in {faults, faults + 1}
    BY DEF ResolveFails, ReadSecretFails, ReadError, world, aux
  <1>2. job \in Jobs /\ "fail" \in Kinds /\ faults' \in Nat
    BY <1>1 DEF ClaimInv, TypeOK, Kinds
  <1>3. job' \in Jobs
    BY <1>1, <1>2, JobRecords
  <1>4. /\ job'.kind = "fail" /\ job'.check = job.check
        /\ job'.observed = job.observed /\ job'.version = job.version
    BY <1>1, <1>2 DEF Jobs
  <1>5. JobInv' /\ EvidenceInv'
    BY <1>1, <1>4 DEF ClaimInv, JobInv, EvidenceInv, Claims
  <1> QED BY <1>1, <1>2, <1>3, <1>5, Decided

(* resolveEndpoint takes over an observation with the rollout it belongs to. *)
LEMMA ResolveStep == ClaimInv /\ resolveEndpoint => ClaimInv'
  <1> SUFFICES ASSUME ClaimInv, resolveEndpoint PROVE ClaimInv'
    OBVIOUS
  <1>t. /\ job \in Jobs /\ ep \in Evidence /\ check \in Check /\ Claims(check)
        /\ faults \in Nat /\ forgotten \in BOOLEAN
    BY DEF ClaimInv, TypeOK
  <1>u. UNCHANGED <<check, ep, version, template, secret, expired, passed, seen,
                    last, forgotten, faults>>
    BY DEF resolveEndpoint, world, aux
  <1>1. CASE pc' = "idle" /\ job' = NoJob
    <2>1. Claims(check)'
      BY <1>t, <1>u DEF Claims
    <2> QED BY <1>1, <1>t, <1>u, <2>1, Ended
  <1>2. CASE /\ pc' = "secret"
             /\ job' = [job EXCEPT !.version = ep.version, !.template = ep.template,
                                   !.observed = ep.observed]
    <2>1. job' \in Jobs
      BY <1>2, <1>t, JobRecords DEF Evidence
    <2>2. job'.check = job.check /\ job'.observed = ep.observed /\ job'.version = ep.version
      BY <1>2, <1>t DEF Jobs
    <2>3. JobInv' /\ EvidenceInv'
      BY <1>2, <1>u, <2>2 DEF ClaimInv, JobInv, EvidenceInv, Claims
    <2> QED BY <1>t, <1>2, <1>u, <2>1, <2>3, Decided
  <1> QED BY <1>1, <1>2 DEF resolveEndpoint

(* /health is called only on a status bound to this revision. *)
LEMMA HealthStep == ClaimInv /\ CheckHealth => ClaimInv'
  <1> SUFFICES ASSUME ClaimInv, CheckHealth PROVE ClaimInv'
    OBVIOUS
  <1>1. PICK k \in {"healthy", "failLiveness"} :
          pc = "health" /\ pc' = "write" /\ job' = [job EXCEPT !.kind = k]
    BY DEF CheckHealth
  <1>2. job \in Jobs /\ k \in Kinds /\ faults \in Nat
    BY DEF ClaimInv, TypeOK, Kinds
  <1>3. job' \in Jobs
    BY <1>1, <1>2, JobRecords
  <1>4. /\ job'.kind = k /\ job'.check = job.check /\ job'.observed = job.observed
        /\ job'.version = job.version /\ job'.template = job.template
        /\ job'.secret = job.secret
    BY <1>1, <1>2 DEF Jobs
  <1>5. UNCHANGED <<check, ep, version, template, secret, expired, passed, seen,
                    last, forgotten, faults>>
    BY DEF CheckHealth, world, aux
  <1>6. JobInv' /\ EvidenceInv'
    BY <1>1, <1>4, <1>5 DEF ClaimInv, JobInv, EvidenceInv, Claims, Bound
  <1> QED BY <1>1, <1>2, <1>3, <1>5, <1>6, Decided

(* A probe that passes adds the revision it was sent to. *)
LEMMA VerifyStep == ClaimInv /\ Verify => ClaimInv'
  <1> SUFFICES ASSUME ClaimInv, Verify PROVE ClaimInv'
    OBVIOUS
  <1> DEFINE key == Key(job.check.gen, job.version, job.template, job.secret)
  <1>1. PICK k \in {"verified", "failVerification"} :
          /\ pc' = "write" /\ job' = [job EXCEPT !.kind = k]
          /\ passed' = IF k = "verified" THEN passed \union {key} ELSE passed
    BY DEF Verify
  <1>2. job \in Jobs /\ k \in Kinds /\ faults \in Nat
    BY DEF ClaimInv, TypeOK, Kinds
  <1>3. job' \in Jobs
    BY <1>1, <1>2, JobRecords
  <1>4. /\ job'.kind = k /\ job'.check = job.check /\ job'.observed = job.observed
        /\ job'.version = job.version /\ job'.template = job.template
        /\ job'.secret = job.secret
    BY <1>1, <1>2 DEF Jobs
  <1>5. UNCHANGED <<check, ep, version, template, secret, expired, seen,
                    last, forgotten, faults>>
    BY DEF Verify, world
  <1>6. key \in Nat \X Nat \X Nat \X Nat
    BY <1>2 DEF Jobs, Check, Key
  <1> HIDE DEF key
  <1>7. passed' \subseteq Nat \X Nat \X Nat \X Nat /\ passed \subseteq passed'
    BY <1>1, <1>6 DEF ClaimInv, TypeOK
  <1>8. TypeOK'
    BY <1>1, <1>3, <1>5, <1>7 DEF ClaimInv, TypeOK
  <1>9. Claims(check)' /\ Claims(job.check)' /\ EvidenceInv'
    BY <1>4, <1>5, <1>7 DEF ClaimInv, JobInv, EvidenceInv, Claims
  <1>10. k = "verified" =>
           Key(job'.check.gen, job'.version, job'.template, job'.secret) \in passed'
    BY <1>1, <1>4 DEF key
  <1>11. JobInv'
    BY <1>1, <1>4, <1>9, <1>10 DEF JobInv
  <1> QED BY <1>8, <1>9, <1>11 DEF ClaimInv

(* The choice between admission, verification and /health. *)
LEMMA SecretStep == ClaimInv /\ ReadSecret => ClaimInv'
  <1> SUFFICES ASSUME ClaimInv, ReadSecret PROVE ClaimInv'
    OBVIOUS
  <1> DEFINE c == job.check
             j == [job EXCEPT !.secret = secret.rv]
  <1>t. job \in Jobs /\ secret.rv \in Nat /\ "admit" \in Kinds /\ faults \in Nat
    BY DEF ClaimInv, TypeOK, Kinds
  <1>j. /\ j \in Jobs /\ j.check = job.check /\ j.secret = secret.rv
        /\ j.version = job.version /\ j.template = job.template
        /\ j.observed = job.observed /\ j.kind = job.kind
    BY <1>t, JobRecords DEF Jobs
  <1>u. UNCHANGED <<check, ep, version, template, secret, expired, passed, seen, faults>>
    BY DEF ReadSecret, world
  <1>1. CASE /\ verificationAdmitted(c, secret.rv)
             /\ pc' = "write" /\ job' = [j EXCEPT !.kind = "admit"]
             /\ UNCHANGED <<last, forgotten>>
    <2>1. job' \in Jobs
      BY <1>1, <1>t, <1>j, JobRecords
    <2>2. /\ job'.check = job.check /\ job'.kind = "admit" /\ job'.version = job.version
          /\ job'.observed = job.observed
      BY <1>1, <1>j DEF Jobs
    <2>3. job.check.verified /\ job.check.version \in seen
      BY <1>1 DEF verificationAdmitted, Bound, WorkerSecurityEvidenceCurrent, ClaimInv,
           EvidenceInv
    <2>4. JobInv' /\ EvidenceInv'
      BY <1>1, <1>u, <2>2, <2>3 DEF ClaimInv, JobInv, EvidenceInv, Claims
    <2> QED BY <1>t, <1>1, <1>u, <2>1, <2>4, Decided
  <1>2. CASE /\ job' = j /\ pc' = "health"
             /\ ~fullVerificationDue(c, secret.rv)
             /\ UNCHANGED <<last, forgotten>>
    <2>1. /\ job.check.obsGen = job.check.gen /\ job.check.version = job.version
          /\ job.check.template = job.template /\ job.check.secret = secret.rv
      BY <1>2 DEF fullVerificationDue, Bound
    <2>2. JobInv' /\ EvidenceInv'
      BY <1>2, <1>u, <1>j, <2>1 DEF ClaimInv, JobInv, EvidenceInv, Claims, Bound
    <2> QED BY <1>t, <1>2, <1>u, <1>j, <2>2, Decided
  <1>3. CASE /\ job' = j /\ pc' = "verify" /\ forgotten' = FALSE
             /\ last' = [key |-> Key(c.gen, job.version, job.template, secret.rv),
                         age |-> job.age]
    <2>1. Key(c.gen, job.version, job.template, secret.rv) \in Nat \X Nat \X Nat \X Nat
      BY <1>t DEF Jobs, Check, Key
    <2>2. job.age \in Ages
      BY <1>t, Ageing DEF Jobs
    <2>3. last' \in [key : Nat \X Nat \X Nat \X Nat, age : Ages]
      BY <1>3, <2>1, <2>2
    <2>4. TypeOK'
      BY <1>3, <1>u, <1>j, <2>3 DEF ClaimInv, TypeOK
    <2>5. JobInv' /\ EvidenceInv' /\ Claims(check)'
      BY <1>3, <1>u, <1>j DEF ClaimInv, JobInv, EvidenceInv, Claims
    <2> QED BY <2>4, <2>5 DEF ClaimInv
  <1> QED BY <1>1, <1>2, <1>3 DEF ReadSecret

(* The claims are an inductive invariant. *)
LEMMA ClaimsCorrect == Spec => []ClaimInv
  <1>1. ASSUME ClaimInv, [Next]_vars PROVE ClaimInv'
    <2>1. CASE UNCHANGED vars
      BY <1>1, <2>1 DEF vars, ClaimInv, TypeOK, Claims, EvidenceInv, JobInv, Bound
    <2>2. CASE Tick \/ World \/ Management
      BY <1>1, <2>2, TickStep, WorldStep, ManagementStep
    <2>3. CASE Reconcile
      BY <1>1, <2>3, StartStep, EndStep, FailStep, ResolveStep, HealthStep, VerifyStep,
         SecretStep DEF Reconcile, Progress
    <2> QED BY <1>1, <2>1, <2>2, <2>3 DEF Next, Terminating
  <1> QED BY <1>1, ClaimInit, PTL DEF Spec

(* The objects and the running Reconcile keep their types, for all durations *)
(* and bounds.                                                               *)
THEOREM TypeCorrect == Spec => []TypeOK
  <1>1. ClaimInv => TypeOK
    BY DEF ClaimInv
  <1> QED BY <1>1, ClaimsCorrect, PTL

(* No sequence of edits, rollouts, rotations, failures and restarts makes a  *)
(* status claim a verification that did not take place: the /health path     *)
(* runs only on a status that is bound to the revision it stamps             *)
(* (endpointcheck.go:170-196, 384-403).                                      *)
THEOREM VerificationSound == Spec => []VerifiedMeansProbed
  <1>1. ClaimInv => VerifiedMeansProbed
    BY DEF ClaimInv, Claims, VerifiedMeansProbed
  <1> QED BY <1>1, ClaimsCorrect, PTL

(* A Ready check is verified, and a worker of the rollout it names was seen  *)
(* (endpointcheck.go:146-155, 186-187, 207-208).                             *)
THEOREM ReadinessSound == Spec => []ReadyMeansWorkerSeen
  <1>1. ClaimInv => ReadyMeansWorkerSeen
    BY DEF ClaimInv, Claims, ReadyMeansWorkerSeen
  <1> QED BY <1>1, ClaimsCorrect, PTL

-----------------------------------------------------------------------------
(***************************************************************************)
(* The cadence of full verifications.  The status the last one was written *)
(* to still describes it, and the copy a Reconcile works on agrees with    *)
(* what is stored, since nobody else writes the status.                    *)
(***************************************************************************)

(* What the status records of the last full verification. *)
Record(c) == <<Key(c.obsGen, c.version, c.template, c.secret), c.attempt>>

Reading == {"resolve", "secret", "health", "verify", "write"}

(* A full verification is under way, or done and not yet recorded. *)
InFlight == pc = "verify" \/ (pc = "write" /\ AttemptLost)

CopyInv == pc \in Reading => Record(job.check) = Record(check)

FlightInv ==
    InFlight =>
       /\ last.key = Key(job.check.gen, job.version, job.template, job.secret)
       /\ last.age = job.age

RecordInv ==
    last.age # Never /\ ~forgotten /\ ~InFlight => Record(check) = <<last.key, last.age>>

CadenceInv == CopyInv /\ FlightInv /\ RecordInv

(* Two records are equal when their five parts are. *)
LEMMA SameRecord ==
    ASSUME NEW c, NEW d
    PROVE  Record(c) = Record(d) <=>
             /\ c.obsGen = d.obsGen /\ c.version = d.version /\ c.template = d.template
             /\ c.secret = d.secret /\ c.attempt = d.attempt
  BY DEF Record, Key

(* Nothing has been verified at first. *)
LEMMA CadenceInit == Init => CadenceInv
  BY DEF Init, CadenceInv, CopyInv, FlightInv, RecordInv, InFlight, NoProbe, Reading

(* All timestamps grow old together. *)
LEMMA CadenceTick ==
    ASSUME ClaimInv, CadenceInv, Tick
    PROVE  CadenceInv'
  <1>t. /\ check \in Check /\ job \in Jobs /\ job.check \in Check
        /\ last \in [key : Nat \X Nat \X Nat \X Nat, age : Ages]
    BY DEF ClaimInv, TypeOK, Jobs
  <1>1. /\ check' = OlderCheck(check) /\ UNCHANGED <<pc, forgotten>>
        /\ last' = [last EXCEPT !.age = Older(last.age, Cap)]
        /\ pc # "idle" => job' = [job EXCEPT !.check = OlderCheck(job.check),
                                              !.age = Older(job.age, Cap),
                                              !.observed = Older(job.observed, Cap)]
        /\ pc = "idle" => job' = job
    BY DEF Tick
  <1>2. ASSUME NEW c \in Check
        PROVE  Record(OlderCheck(c)) =
                 <<Key(c.obsGen, c.version, c.template, c.secret), Older(c.attempt, Cap)>>
    <2>1. OlderCheck(c).attempt = Older(c.attempt, Cap)
      BY DEF OlderCheck, Check
    <2> QED BY <2>1, AgedCheck DEF Record
  <1>3. last'.key = last.key /\ last'.age = Older(last.age, Cap)
    BY <1>1, <1>t
  <1>4. pc # "idle" => /\ job'.check = OlderCheck(job.check) /\ job'.age = Older(job.age, Cap)
                       /\ job'.version = job.version /\ job'.template = job.template
                       /\ job'.secret = job.secret /\ job'.kind = job.kind
    BY <1>1, <1>t DEF Jobs
  <1>5. CopyInv'
    <2> SUFFICES ASSUME pc \in Reading PROVE Record(job'.check) = Record(check')
      BY <1>1 DEF CopyInv, Record
    <2>1. job'.check = OlderCheck(job.check) /\ Record(job.check) = Record(check)
      BY <1>4 DEF Reading, CadenceInv, CopyInv
    <2>2. Record(OlderCheck(job.check)) = Record(OlderCheck(check))
      BY <1>2, <1>t, <2>1, SameRecord
    <2> QED BY <1>1, <2>1, <2>2
  <1>6. InFlight' <=> InFlight
    BY <1>1, <1>4 DEF InFlight, AttemptLost
  <1>7. FlightInv'
    <2> SUFFICES ASSUME InFlight
                 PROVE  /\ last'.key = Key(job'.check.gen, job'.version, job'.template, job'.secret)
                        /\ last'.age = job'.age
      BY <1>6 DEF FlightInv
    <2>1. OlderCheck(job.check).gen = job.check.gen
      BY <1>t, AgedCheck
    <2> QED BY <1>3, <1>4, <2>1 DEF InFlight, CadenceInv, FlightInv
  <1>8. RecordInv'
    <2> SUFFICES ASSUME last'.age # Never, ~forgotten, ~InFlight
                 PROVE  Record(check') = <<last'.key, last'.age>>
      BY <1>1, <1>6 DEF RecordInv, Record
    <2>1. last.age # Never
      BY <1>3 DEF Older
    <2>2. Record(check) = <<last.key, last.age>>
      BY <2>1 DEF CadenceInv, RecordInv
    <2>3. /\ Key(check.obsGen, check.version, check.template, check.secret) = last.key
          /\ check.attempt = last.age
      BY <2>2 DEF Record
    <2> QED BY <1>1, <1>2, <1>3, <1>t, <2>3
  <1> QED BY <1>5, <1>7, <1>8 DEF CadenceInv

(* Whoever writes neither the status nor the Reconcile's variables. *)
LEMMA CadenceKept ==
    ASSUME CadenceInv, Record(check') = Record(check), UNCHANGED <<pc, job, last, forgotten>>
    PROVE  CadenceInv'
  <1>1. InFlight' <=> InFlight
    BY DEF InFlight, AttemptLost
  <1> QED BY <1>1 DEF CadenceInv, CopyInv, FlightInv, RecordInv, Record

(* Users, RunPod and the management controller do not write the status.      *)
LEMMA CadenceWorld ==
    ASSUME ClaimInv, CadenceInv, World \/ Management \/ AddDrainFinalizer
    PROVE  CadenceInv'
  <1>t. check \in Check
    BY DEF ClaimInv, TypeOK
  <1>1. UNCHANGED <<pc, job, last, forgotten>>
    BY DEF World, Management, EditCheck, DeleteCheck, Rollout, EditTemplate, WriteSecret,
       LifetimeEnds, Observe, ObserveFails, AddDrainFinalizer, aux
  <1>2. \/ check' = check \/ check' = [check EXCEPT !.gen = check.gen + 1]
        \/ check' = [check EXCEPT !.deleting = TRUE] \/ check' = [check EXCEPT !.drain = TRUE]
    BY DEF World, Management, EditCheck, DeleteCheck, Rollout, EditTemplate, WriteSecret,
       LifetimeEnds, Observe, ObserveFails, AddDrainFinalizer
  <1>3. Record(check') = Record(check)
    BY <1>2, <1>t, SameRecord DEF Check
  <1> QED BY <1>1, <1>3, CadenceKept

(* A step of a Reconcile that decides how to go on: the record, the copy and *)
(* the history stay, and nothing is in flight before or after it.            *)
LEMMA CadenceDecided ==
    ASSUME CadenceInv, ~InFlight, ~InFlight', Record(check') = Record(check),
           pc' \in Reading => Record(job'.check) = Record(check),
           UNCHANGED <<last, forgotten>>
    PROVE  CadenceInv'
  BY DEF CadenceInv, CopyInv, FlightInv, RecordInv, Record

(* The steps before a status write, except those of a full verification. *)
LEMMA CadenceBefore ==
    ASSUME ClaimInv, CadenceInv,
           \/ Start \/ Expire \/ ResolveFails \/ resolveEndpoint \/ ReadSecretFails
           \/ CheckHealth \/ requestEndpointObservation
    PROVE  CadenceInv'
  <1>t. check \in Check /\ job \in Jobs
    BY DEF ClaimInv, TypeOK
  <1>1. CASE Start
    <2>1. job'.check = check /\ pc' = "resolve" /\ check' = check /\ pc = "idle"
      BY <1>1 DEF Start, NoJob
    <2>2. ~InFlight /\ ~InFlight'
      BY <2>1 DEF InFlight
    <2> QED BY <1>1, <2>1, <2>2, CadenceDecided DEF Start, aux
  <1>2. CASE Expire
    <2>1. check' = [check EXCEPT !.deleting = TRUE] /\ pc = "resolve" /\ pc' = "idle"
      BY <1>2 DEF Expire
    <2>2. Record(check') = Record(check)
      BY <1>t, <2>1, SameRecord DEF Check
    <2>3. ~InFlight /\ ~InFlight' /\ pc' \notin Reading
      BY <2>1 DEF InFlight, Reading
    <2> QED BY <1>2, <2>2, <2>3, CadenceDecided DEF Expire, aux
  <1>3. CASE ResolveFails \/ ReadSecretFails \/ CheckHealth
    <2>1. /\ pc \in {"resolve", "secret", "health"} /\ pc' = "write" /\ check' = check
          /\ \E k \in {"fail", "healthy", "failLiveness"} : job' = [job EXCEPT !.kind = k]
          /\ UNCHANGED <<last, forgotten>>
      BY <1>3 DEF ResolveFails, ReadSecretFails, CheckHealth, aux
    <2>2. job'.check = job.check /\ job'.kind \in {"fail", "healthy", "failLiveness"}
      BY <2>1, <1>t DEF Jobs
    <2>3. ~InFlight /\ ~InFlight'
      BY <2>1, <2>2 DEF InFlight, AttemptLost
    <2>4. Record(job.check) = Record(check)
      BY <2>1 DEF CadenceInv, CopyInv, Reading
    <2> QED BY <2>1, <2>2, <2>3, <2>4, CadenceDecided
  <1>4. CASE resolveEndpoint
    <2>1. /\ pc = "resolve" /\ pc' \in {"idle", "secret"} /\ check' = check
          /\ pc' = "secret" => job'.check = job.check
          /\ UNCHANGED <<last, forgotten>>
      BY <1>4, <1>t DEF resolveEndpoint, aux, Jobs
    <2>2. ~InFlight /\ ~InFlight'
      BY <2>1 DEF InFlight
    <2>3. pc' \in Reading => Record(job'.check) = Record(check)
      BY <2>1 DEF CadenceInv, CopyInv, Reading
    <2> QED BY <2>1, <2>2, <2>3, CadenceDecided
  <1>5. CASE requestEndpointObservation
    <2>1. /\ pc = "request" /\ pc' = "idle" /\ check' = check /\ UNCHANGED <<last, forgotten>>
      BY <1>5 DEF requestEndpointObservation, aux
    <2>2. ~InFlight /\ ~InFlight' /\ pc' \notin Reading
      BY <2>1 DEF InFlight, Reading
    <2> QED BY <2>1, <2>2, CadenceDecided
  <1> QED BY <1>1, <1>2, <1>3, <1>4, <1>5

(* The Secret is read: a verification that begins is the last one begun. *)
LEMMA CadenceSecret ==
    ASSUME ClaimInv, CadenceInv, ReadSecret
    PROVE  CadenceInv'
  <1> DEFINE j == [job EXCEPT !.secret = secret.rv]
  <1>t. job \in Jobs
    BY DEF ClaimInv, TypeOK
  <1>1. pc = "secret" /\ check' = check /\ ~InFlight /\ Record(job.check) = Record(check)
    BY DEF ReadSecret, InFlight, CadenceInv, CopyInv, Reading
  <1>2. /\ j.check = job.check /\ j.secret = secret.rv /\ j.version = job.version
        /\ j.template = job.template /\ j.age = job.age
    BY <1>t DEF Jobs
  <1>3. CASE pc' = "write" /\ job' = [j EXCEPT !.kind = "admit"] /\ UNCHANGED <<last, forgotten>>
    <2>1. job'.check = job.check /\ job'.kind = "admit"
      BY <1>3, <1>t DEF Jobs
    <2>2. ~InFlight'
      BY <1>3, <2>1 DEF InFlight, AttemptLost
    <2> QED BY <1>1, <1>3, <2>1, <2>2, CadenceDecided
  <1>4. CASE pc' = "health" /\ job' = j /\ UNCHANGED <<last, forgotten>>
    <2>1. job'.check = job.check /\ ~InFlight'
      BY <1>2, <1>4 DEF InFlight
    <2> QED BY <1>1, <1>4, <2>1, CadenceDecided
  <1>5. CASE /\ pc' = "verify" /\ job' = j
             /\ last' = [key |-> Key(job.check.gen, job.version, job.template, secret.rv),
                         age |-> job.age]
    <2>1. InFlight' /\ job'.check = job.check
      BY <1>2, <1>5 DEF InFlight
    <2>2. last'.key = Key(job.check.gen, job.version, job.template, secret.rv)
          /\ last'.age = job.age
      BY <1>5
    <2> HIDE DEF j
    <2>3. FlightInv'
      BY <1>2, <1>5, <2>2 DEF FlightInv
    <2>4. CopyInv' /\ RecordInv'
      BY <1>1, <2>1 DEF CopyInv, RecordInv, Record
    <2> QED BY <2>3, <2>4 DEF CadenceInv
  <1> QED BY <1>3, <1>4, <1>5 DEF ReadSecret

(* The probes have run: the attempt is not recorded yet. *)
LEMMA CadenceVerify ==
    ASSUME ClaimInv, CadenceInv, Verify
    PROVE  CadenceInv'
  <1>t. job \in Jobs
    BY DEF ClaimInv, TypeOK
  <1>1. /\ pc = "verify" /\ pc' = "write" /\ check' = check /\ UNCHANGED <<last, forgotten>>
        /\ \E k \in {"verified", "failVerification"} : job' = [job EXCEPT !.kind = k]
    BY DEF Verify
  <1>2. /\ job'.check = job.check /\ job'.kind \in {"verified", "failVerification"}
        /\ job'.version = job.version /\ job'.template = job.template
        /\ job'.secret = job.secret /\ job'.age = job.age
    BY <1>1, <1>t DEF Jobs
  <1>3. InFlight /\ InFlight' /\ pc \in Reading
    BY <1>1, <1>2 DEF InFlight, AttemptLost, Reading
  <1> QED BY <1>1, <1>2, <1>3 DEF CadenceInv, CopyInv, FlightInv, RecordInv, Record

(* A status write records the attempt it follows, resets the record, which   *)
(* is then forgotten, or leaves the record as it is: /health runs only on a  *)
(* status that is bound to what it stamps.                                   *)
LEMMA WrittenRecord ==
    ASSUME ClaimInv, CadenceInv, pc = "write", check = job.check
    PROVE  /\ InFlight => Record(Written) = <<last.key, last.age>>
           /\ ~InFlight => Record(Written) = Record(check) \/ job.kind = "fail"
  <1>t. job.check \in Check /\ job.kind \in Kinds /\ job.kind # "none"
    BY DEF ClaimInv, TypeOK, Jobs, JobInv
  <1>1. CASE job.kind \in {"verified", "failVerification"}
    <2>1. InFlight
      BY <1>1 DEF InFlight, AttemptLost
    <2>2. /\ last.key = Key(job.check.gen, job.version, job.template, job.secret)
          /\ last.age = job.age
      BY <2>1 DEF CadenceInv, FlightInv
    <2>3. Written \in {verifiedStatus, failVerification}
      BY <1>1 DEF Written
    <2>4. /\ Written.obsGen = job.check.gen /\ Written.version = job.version
          /\ Written.template = job.template /\ Written.secret = job.secret
          /\ Written.attempt = job.age
      BY <1>t, <2>3 DEF verifiedStatus, failVerification, observation, Check
    <2> QED BY <2>1, <2>2, <2>4 DEF Record
  <1>2. CASE job.kind \in {"healthy", "failLiveness", "admit"}
    <2>1. job.kind # "admit" =>
            job.check.obsGen = job.check.gen /\ job.check.version = job.version
      BY <1>2 DEF ClaimInv, JobInv, Bound
    <2>2. CASE job.kind = "healthy"
      <3>1. Written = healthyStatus
        BY <2>2 DEF Written
      <3>2. /\ Written.obsGen = job.check.gen /\ Written.version = job.version
            /\ Written.template = job.check.template /\ Written.secret = job.check.secret
            /\ Written.attempt = job.check.attempt
        BY <1>t, <3>1 DEF healthyStatus, Check
      <3>3. Record(Written) = Record(check)
        BY <2>1, <2>2, <3>2, SameRecord
      <3> QED BY <2>2, <3>3 DEF InFlight, AttemptLost
    <2>3. CASE job.kind = "failLiveness"
      <3>1. Written = failLiveness
        BY <2>3 DEF Written
      <3> QED BY <1>t, <2>1, <2>3, <3>1, SameRecord, ZenonT(60)
              DEF failLiveness, Check, InFlight, AttemptLost
    <2>4. CASE job.kind = "admit"
      <3>1. Written = admitStatus
        BY <2>4 DEF Written
      <3> QED BY <1>t, <2>4, <3>1, SameRecord DEF admitStatus, Check, InFlight, AttemptLost
    <2> QED BY <1>2, <2>2, <2>3, <2>4
  <1>3. CASE job.kind = "fail"
    BY <1>3 DEF InFlight, AttemptLost
  <1> QED BY <1>t, <1>1, <1>2, <1>3 DEF Kinds

(* The end of a Reconcile: the attempt is recorded, or it is forgotten. *)
LEMMA CadenceEnd ==
    ASSUME ClaimInv, CadenceInv, UpdateStatus \/ UpdateConflicts \/ Abandon
    PROVE  CadenceInv'
  <1>1. pc' \in {"idle", "request"} /\ last' = last
    BY DEF UpdateStatus, UpdateConflicts, Abandon
  <1>2. ~InFlight' /\ pc' \notin Reading
    BY <1>1 DEF InFlight, Reading
  <1>3. CopyInv' /\ FlightInv'
    BY <1>2 DEF CopyInv, FlightInv
  <1>4. RecordInv'
    <2> SUFFICES ASSUME last.age # Never, ~forgotten'
                 PROVE  Record(check') = <<last.key, last.age>>
      BY <1>1 DEF RecordInv, Record
    <2>1. CASE UpdateStatus
      <3>1. /\ pc = "write" /\ check = job.check /\ check' = Written
            /\ ~forgotten /\ job.kind # "fail"
        BY <2>1 DEF UpdateStatus
      <3> QED BY <3>1, WrittenRecord DEF CadenceInv, RecordInv
    <2>2. CASE UpdateConflicts
      <3>1. pc = "write" /\ check' = check /\ ~forgotten /\ ~AttemptLost
        BY <2>2 DEF UpdateConflicts
      <3> QED BY <3>1 DEF CadenceInv, RecordInv, InFlight
    <2>3. CASE Abandon
      <3>1. check' = check /\ ~forgotten /\ ~InFlight
        BY <2>3 DEF Abandon, InFlight
      <3> QED BY <3>1 DEF CadenceInv, RecordInv
    <2> QED BY <2>1, <2>2, <2>3
  <1> QED BY <1>3, <1>4 DEF CadenceInv

(* The bookkeeping of attempts is an inductive invariant. *)
LEMMA CadenceCorrect == Spec => []CadenceInv
  <1>1. ASSUME ClaimInv, CadenceInv, [Next]_vars PROVE CadenceInv'
    <2>1. CASE UNCHANGED vars
      BY <1>1, <2>1, CadenceKept DEF vars
    <2>2. CASE Tick \/ World \/ Management
      BY <1>1, <2>2, CadenceTick, CadenceWorld
    <2>3. CASE Reconcile
      BY <1>1, <2>3, CadenceWorld, CadenceBefore, CadenceSecret, CadenceVerify, CadenceEnd
         DEF Reconcile, Progress
    <2> QED BY <1>1, <2>1, <2>2, <2>3 DEF Next, Terminating
  <1> QED BY <1>1, CadenceInit, ClaimsCorrect, PTL DEF Spec

(* A full verification that begins again for what the last one was about is  *)
(* due: its attempt is on record and Interval old, unless it was forgotten.  *)
LEMMA DueAgain ==
    ASSUME ClaimInv, CadenceInv, ReadSecret, Begins, Again, TooSoon
    PROVE  forgotten
  <1> SUFFICES ASSUME ~forgotten PROVE FALSE
    BY DEF ClaimInv, TypeOK
  <1> DEFINE c == job.check
  <1>1. /\ fullVerificationDue(c, secret.rv)
        /\ last' = [key |-> Key(c.gen, job.version, job.template, secret.rv), age |-> job.age]
    BY DEF ReadSecret, Begins
  <1>2. /\ Record(c) = Record(check) /\ Record(check) = <<last.key, last.age>>
        /\ last.age # Never
    BY DEF Begins, Again, CadenceInv, CopyInv, RecordInv, InFlight, Reading
  <1>3. Key(c.gen, job.version, job.template, secret.rv) = last.key
    BY <1>1 DEF Again
  <1>4. /\ Key(c.obsGen, c.version, c.template, c.secret) = last.key /\ c.attempt = last.age
    BY <1>2 DEF Record
  <1>5. Bound(c, secret.rv)
    BY <1>3, <1>4 DEF Key, Bound
  <1>6. last.age - job.age >= Interval
    BY <1>1, <1>2, <1>4, <1>5 DEF fullVerificationDue
  <1>7. last.age \in Int /\ job.age \in Int
    BY DEF ClaimInv, TypeOK, Jobs, Ages, Never
  <1> QED BY <1>6, <1>7 DEF TooSoon

(* Edits, rollouts, rotations, conflicts and restarts never make the         *)
(* reconciler repeat a billable verification of the same generation, binding *)
(* and Secret version before its interval has passed, except after the       *)
(* record of the first one was lost or reset (endpointcheck.go:170-196,      *)
(* 336-348, fullVerificationDue).                                            *)
THEOREM CadenceKeeps == Spec => ProbeCadence
  <1>1. ASSUME ClaimInv, CadenceInv, [Next]_vars
        PROVE  [Begins /\ Again /\ TooSoon => forgotten]_vars
    <2> SUFFICES ASSUME Next, Begins, Again, TooSoon PROVE forgotten
      BY <1>1
    <2>1. ReadSecret
      BY DEF Begins, Next, Terminating, vars, Tick, World, Management, Reconcile, Progress, EditCheck, DeleteCheck,
         Rollout, EditTemplate, WriteSecret, LifetimeEnds, Observe, ObserveFails,
         AddDrainFinalizer, Start, Expire, ResolveFails, resolveEndpoint, ReadSecretFails,
         CheckHealth, Verify, UpdateStatus, UpdateConflicts, requestEndpointObservation, Abandon
    <2> QED BY <1>1, <2>1, DueAgain
  <1> QED BY <1>1, ClaimsCorrect, CadenceCorrect, PTL DEF Spec, ProbeCadence
=============================================================================
