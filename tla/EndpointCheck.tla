--------------------------- MODULE EndpointCheck ---------------------------
(***************************************************************************)
(* The EndpointCheck reconciler of model-router                            *)
(* (internal/controller/endpointcheck/endpointcheck.go), together with the *)
(* evidence the management controller keeps in the referenced Endpoint's   *)
(* status (setObservation, endpoint.go).                                   *)
(*                                                                         *)
(* One Reconcile runs at a time for a check; each API read, each call to   *)
(* RunPod and each status write is a step, and the world moves between     *)
(* them.  Events may start a Reconcile at any time.                        *)
(*                                                                         *)
(* Time.  A timestamp is kept as its age in ticks, which saturates where   *)
(* no comparison tells greater ages apart; Never is the zero time.         *)
(* Truncation to seconds is what the tick does: two events of one tick are *)
(* not one after the other.  A Reconcile ends                              *)
(* within MaxCall ticks (the client timeouts), so no age saturates between *)
(* the step that reads it and the step that compares it.                   *)
(*                                                                         *)
(* Data.  A binding is the pair of the observed rollout version and the    *)
(* Template revision; the ids, UIDs, generations and image that the code   *)
(* compares beside them change with one of the two.  Healthy,              *)
(* ModelVerified, ToolCallVerified and LastVerifiedAt are only read        *)
(* together, as `verified'.  The lifetimes of the check, the Endpoint and  *)
(* the Template end at arbitrary moments; `expired' is the one a Reconcile *)
(* comes to first, for the later ones are then not looked at.              *)
(***************************************************************************)
EXTENDS Integers

CONSTANTS
    Poll,           \* pollInterval
    Interval,       \* verificationIntervalSeconds
    FlashMax,       \* FlashBootEvidenceMaxAge
    MaxCall,        \* longest duration of one Reconcile
    Cap,            \* the greatest age kept
    MaxChanges,     \* bound on the changes of spec, rollout, Template and Secret,
                    \* the passing of deadlines being one
    MaxFaults       \* bound on crashes, failed API calls and external drift

ASSUME EndpointCheckAssumption ==
    /\ Poll \in Nat /\ Interval \in Nat /\ FlashMax \in Nat /\ MaxCall \in Nat
    /\ Cap \in Nat /\ Cap >= Interval + MaxCall /\ Cap > FlashMax
    /\ Cap >= Poll + MaxCall
    /\ MaxChanges \in Nat /\ MaxFaults \in Nat

VARIABLES
    check,          \* the EndpointCheck object
    ep,             \* the Endpoint object, as its status describes it
    version,        \* the rollout version RunPod reports
    template,       \* the Template's revision
    secret,         \* the inference Secret
    expired,        \* the first elapsed lifetime in the order of the code's tests
    pc, job,        \* the running Reconcile and its local variables
    \* auxiliary: what really happened
    passed,         \* the revisions a full verification passed against
    seen,           \* the rollout versions an active worker was observed on
    last,           \* the last full verification begun
    forgotten,      \* its attempt was not recorded, or its record was reset
    faults

world == <<version, template, secret, expired>>
aux == <<passed, seen, last, forgotten>>
vars == <<check, ep, version, template, secret, expired, pc, job,
          passed, seen, last, forgotten, faults>>

Never == -1
Ages == {Never} \union 0 .. Cap

(* A status that claims a verification says when it was attempted. *)
Check ==
    {c \in [deleting : BOOLEAN, drain : BOOLEAN, gen : Nat, obsGen : Nat,
            ready : BOOLEAN, verified : BOOLEAN, version : Nat, template : Nat,
            secret : Nat, checked : Ages, attempt : Ages] :
       c.verified => c.attempt # Never}

NoStatus == [deleting |-> FALSE, drain |-> FALSE, gen |-> 1, obsGen |-> 0,
             ready |-> FALSE, verified |-> FALSE, version |-> 0, template |-> 0,
             secret |-> 0, checked |-> Never, attempt |-> Never]

(* status.atProvider of the Endpoint: current is the conjunction of Ready,   *)
(* Synced and the observed generation.                                       *)
Evidence == [current : BOOLEAN, version : Nat, template : Nat, flash : Ages,
             observed : Ages]

Kinds == {"none", "fail", "failLiveness", "failVerification", "verified",
          "healthy", "admit"}

(* The local variables of a Reconcile; age is the time since `now'. *)
Jobs == [check : Check, age : 0 .. Cap, version : Nat, template : Nat,
         observed : Ages, secret : Nat, kind : Kinds]
NoJob == [check |-> NoStatus, age |-> 0, version |-> 0, template |-> 0,
          observed |-> Never, secret |-> 0, kind |-> "none"]

(* What an admission is bound to: check generation, binding and Secret. *)
Key(c, v, t, s) == <<c, v, t, s>>
NoProbe == [key |-> Key(0, 0, 0, 0), age |-> Never]

Init ==
    /\ check = NoStatus
    /\ ep = [current |-> FALSE, version |-> 0, template |-> 0, flash |-> Never,
             observed |-> Never]
    /\ version = 1 /\ template = 1
    /\ secret = [rv |-> 1, usable |-> TRUE]
    /\ expired = "none"
    /\ pc = "idle" /\ job = NoJob
    /\ passed = {} /\ seen = {} /\ last = NoProbe /\ forgotten = FALSE
    /\ faults = 0

(* ------------------------------- the clock ------------------------------- *)

Older(a, cap) == IF a = Never \/ a >= cap THEN a ELSE a + 1
OlderCheck(c) == [c EXCEPT !.checked = Older(@, Poll + MaxCall),
                           !.attempt = Older(@, Cap)]

Tick ==
    /\ pc # "idle" => job.age < MaxCall
    /\ check' = OlderCheck(check)
    /\ ep' = [ep EXCEPT !.flash = Older(@, FlashMax + 1),
                         !.observed = Older(@, Cap)]
    /\ job' = IF pc = "idle" THEN job
              ELSE [job EXCEPT !.check = OlderCheck(@), !.age = Older(@, Cap),
                               !.observed = Older(@, Cap)]
    /\ last' = [last EXCEPT !.age = Older(@, Cap)]
    /\ UNCHANGED <<world, pc, passed, seen, forgotten, faults>>

(* -------------------- users, RunPod and other controllers ---------------- *)

(* The changes made so far, of any kind. *)
Changes == (check.gen - 1) + (version - 1) + (template - 1) + (secret.rv - 1)
           + (IF expired = "none" THEN 0 ELSE 1)

EditCheck ==
    /\ ~check.deleting /\ Changes < MaxChanges
    /\ check' = [check EXCEPT !.gen = @ + 1]
    /\ UNCHANGED <<ep, world, pc, job, aux, faults>>

DeleteCheck ==
    /\ ~check.deleting
    /\ check' = [check EXCEPT !.deleting = TRUE]
    /\ UNCHANGED <<ep, world, pc, job, aux, faults>>

Rollout ==
    /\ Changes < MaxChanges
    /\ version' = version + 1
    /\ UNCHANGED <<check, ep, template, secret, expired, pc, job, aux, faults>>

EditTemplate ==
    /\ Changes < MaxChanges
    /\ template' = template + 1
    /\ UNCHANGED <<check, ep, version, secret, expired, pc, job, aux, faults>>

WriteSecret ==
    /\ Changes < MaxChanges
    /\ \E ok \in BOOLEAN : secret' = [rv |-> secret.rv + 1, usable |-> ok]
    /\ UNCHANGED <<check, ep, version, template, expired, pc, job, aux, faults>>

(* The deadlines, the one that a Reconcile looks at first being the greatest. *)
Deadlines == <<"none", "template", "endpoint", "check">>

LifetimeEnds ==
    /\ expired = "none" => Changes < MaxChanges
    /\ \E i, k \in 1 .. 4 :
          i < k /\ expired = Deadlines[i] /\ expired' = Deadlines[k]
    /\ UNCHANGED <<check, ep, version, template, secret, pc, job, aux, faults>>

(* ------------------ the management controller's evidence ----------------- *)

FlashBootEvidenceCurrent(e) == e.flash # Never /\ e.flash <= FlashMax
WorkerSecurityEvidenceCurrent(age) == age # Never

(* What a response says of FlashBoot; the v1 GET schema omits it. *)
Reports == {"omitted", "off", "on"}

(* The status after a GET or PATCH that reported version v and `reported'. *)
setObservation(e, v, reported, writeConfirmed, workers) ==
    LET kept == reported = "omitted" /\ ~writeConfirmed
                /\ FlashBootEvidenceCurrent(e) /\ e.version = v
        flashBootDisabled ==
            reported = "off" \/ kept \/ (reported = "omitted" /\ writeConfirmed)
        revisionProven == \/ e.template = template
                          \/ e.template = 0 /\ writeConfirmed
                          \/ e.template # 0 /\ e.version # v
    IN  [current  |-> flashBootDisabled /\ revisionProven /\ ~writeConfirmed,
         version  |-> v,
         template |-> IF revisionProven THEN template ELSE e.template,
         flash    |-> IF kept THEN e.flash
                      ELSE IF flashBootDisabled THEN 0 ELSE Never,
         observed |-> IF workers THEN 0 ELSE Never]

(* Observe; when the object is not up to date (drift, FlashBoot reported on, *)
(* evidence too old or of another version, Template revision unproven),      *)
(* Update in the same pass: its PATCH may roll out a new version, and the    *)
(* worker proof is dropped.                                                  *)
Observe ==
    \E workers, matches \in BOOLEAN, read \in Reports :
      LET e == setObservation(ep, version, read, FALSE, workers) IN
      /\ seen' = IF workers THEN seen \union {version} ELSE seen
      /\ \/ /\ matches /\ e.current
            /\ ep' = e
            /\ UNCHANGED <<version, faults>>
         \/ /\ ~(matches /\ e.current)
            /\ \E answer \in Reports :
                 /\ faults' = IF matches /\ "on" \notin {read, answer} THEN faults
                              ELSE faults + 1
                 /\ faults' <= MaxFaults
                 /\ version' \in {version, version + 1}
                 /\ version' # version => Changes < MaxChanges
                 /\ ep' = setObservation(e, version', answer, TRUE, FALSE)
      /\ UNCHANGED <<check, template, secret, expired, pc, job, passed, last,
                     forgotten>>

(* Observe or Update fails: Synced becomes false, the status is kept. *)
ObserveFails ==
    /\ faults < MaxFaults
    /\ faults' = faults + 1
    /\ ep' = [ep EXCEPT !.current = FALSE]
    /\ UNCHANGED <<check, world, pc, job, aux>>

(* -------------------------------- Reconcile ------------------------------ *)

AddDrainFinalizer ==
    /\ pc = "idle" /\ ~check.deleting /\ ~check.drain
    /\ check' = [check EXCEPT !.drain = TRUE]
    /\ UNCHANGED <<ep, world, pc, job, aux, faults>>

(* The direct read of the check; now is taken here. *)
Start ==
    /\ pc = "idle" /\ ~check.deleting /\ check.drain
    /\ pc' = "resolve"
    /\ job' = [NoJob EXCEPT !.check = check]
    /\ UNCHANGED <<check, ep, world, aux, faults>>

Resolvable == ep.current /\ FlashBootEvidenceCurrent(ep) /\ ep.template = template

(* Mutant: the Endpoint's deadline is tested after its readiness. *)
Elapsed_AfterReadiness ==
    \/ expired = "check"
    \/ expired \in {"endpoint", "template"} /\ Resolvable

(* The check's own deadline, or errEndpointLifetimeExpired: the Endpoint's   *)
(* deadline is tested before everything else that is read of it, the         *)
(* Template's after everything else.                                         *)
Elapsed ==
    \/ expired \in {"check", "endpoint"}
    \/ expired = "template" /\ Resolvable

(* Delete has no precondition. *)
Expire ==
    /\ pc = "resolve" /\ Elapsed
    /\ check' = [check EXCEPT !.deleting = TRUE]
    /\ pc' = "idle" /\ job' = NoJob
    /\ UNCHANGED <<ep, world, aux, faults>>

(* A failed read is told in the status as any other refusal is. *)
ReadError == faults < MaxFaults /\ faults' = faults + 1

(* The Endpoint is not ready or not bound to the current Template, or it or  *)
(* the Template cannot be read.                                              *)
ResolveFails ==
    /\ pc = "resolve"
    /\ \/ ~Elapsed /\ ~Resolvable /\ UNCHANGED faults
       \/ expired # "check" /\ ReadError
    /\ pc' = "write" /\ job' = [job EXCEPT !.kind = "fail"]
    /\ UNCHANGED <<check, ep, world, aux>>

workerAdmissionPending(c) == c.obsGen = c.gen /\ ~c.ready /\ c.verified

RecentlyChecked(c) ==
    /\ c.obsGen = c.gen /\ c.checked # Never /\ ~workerAdmissionPending(c)
    /\ c.checked - job.age < Poll

(* resolveEndpoint, and the shortcut for self-triggered events. *)
resolveEndpoint ==
    /\ pc = "resolve" /\ ~Elapsed /\ Resolvable
    /\ IF RecentlyChecked(job.check)
       THEN pc' = "idle" /\ job' = NoJob
       ELSE /\ pc' = "secret"
            /\ job' = [job EXCEPT !.version = ep.version, !.template = ep.template,
                                  !.observed = ep.observed]
    /\ UNCHANGED <<check, ep, world, aux, faults>>

(* Missing, unlabelled, without the key, or holding a malformed token; or    *)
(* it cannot be read.                                                        *)
ReadSecretFails ==
    /\ pc = "secret"
    /\ (~secret.usable /\ UNCHANGED faults) \/ ReadError
    /\ pc' = "write" /\ job' = [job EXCEPT !.kind = "fail"]
    /\ UNCHANGED <<check, ep, world, aux>>

(* Mutant: the rollout version is not compared. *)
Bound_IgnoresVersion(c, s) ==
    c.obsGen = c.gen /\ c.template = job.template /\ c.secret = s

(* The status speaks of this generation, binding and Secret version. *)
Bound(c, s) ==
    /\ c.obsGen = c.gen
    /\ c.version = job.version /\ c.template = job.template /\ c.secret = s

fullVerificationDue_IgnoresVersion(c, s) ==
    \/ ~Bound_IgnoresVersion(c, s)
    \/ c.attempt = Never
    \/ c.attempt - job.age >= Interval

fullVerificationDue(c, s) ==
    \/ ~Bound(c, s)
    \/ c.attempt = Never
    \/ c.attempt - job.age >= Interval

verificationAdmitted(c, s) ==
    /\ Bound(c, s)
    /\ c.verified
    /\ WorkerSecurityEvidenceCurrent(job.observed)
    /\ c.attempt # Never /\ job.observed < c.attempt

(* Read the Secret and choose: admit a pending check, verify, or only call   *)
(* /health.  The handshake branch of a pending check (request an            *)
(* observation, wait) is not here: verificationAdmitted, which guards it,    *)
(* already implies the test that precedes it.                               *)
ReadSecret ==
    /\ pc = "secret" /\ secret.usable
    /\ LET c == job.check
           j == [job EXCEPT !.secret = secret.rv]
       IN  \/ /\ workerAdmissionPending(c) /\ verificationAdmitted(c, secret.rv)
              /\ pc' = "write" /\ job' = [j EXCEPT !.kind = "admit"]
              /\ UNCHANGED <<last, forgotten>>
           \/ /\ ~(workerAdmissionPending(c) /\ verificationAdmitted(c, secret.rv))
              /\ job' = j
              /\ \/ /\ fullVerificationDue(c, secret.rv)
                    /\ pc' = "verify"
                    /\ last' = [key |-> Key(c.gen, job.version, job.template, secret.rv),
                                age |-> job.age]
                    /\ forgotten' = FALSE
                 \/ /\ ~fullVerificationDue(c, secret.rv)
                    /\ pc' = "health"
                    /\ UNCHANGED <<last, forgotten>>
    /\ UNCHANGED <<check, ep, world, passed, seen, faults>>

CheckHealth ==
    /\ pc = "health"
    /\ \E k \in {"healthy", "failLiveness"} :
         pc' = "write" /\ job' = [job EXCEPT !.kind = k]
    /\ UNCHANGED <<check, ep, world, aux, faults>>

(* The authenticated health, model and tool-call probes (inference.Verify). *)
Verify ==
    /\ pc = "verify"
    /\ pc' = "write"
    /\ \/ /\ job' = [job EXCEPT !.kind = "verified"]
          /\ passed' = passed \union
                {Key(job.check.gen, job.version, job.template, job.secret)}
       \/ /\ job' = [job EXCEPT !.kind = "failVerification"]
          /\ UNCHANGED passed
    /\ UNCHANGED <<check, ep, world, seen, last, forgotten, faults>>

(* observation(): the whole of status.atProvider is replaced. *)
observation(v, t, s, attempt, verified) ==
    [job.check EXCEPT !.obsGen = job.check.gen, !.version = v, !.template = t,
                      !.secret = s, !.checked = job.age, !.attempt = attempt,
                      !.verified = verified, !.ready = FALSE]

fail == observation(0, 0, 0, Never, FALSE)
(* Mutant: the failed attempt is not recorded. *)
failVerification_Unrecorded ==
    observation(job.version, job.template, job.secret, Never, FALSE)
failVerification ==
    observation(job.version, job.template, job.secret, job.age, FALSE)
failLiveness ==
    [job.check EXCEPT !.checked = job.age, !.obsGen = job.check.gen, !.ready = FALSE]
(* Mutant: the successful attempt is not stamped. *)
verifiedStatus_Unstamped ==
    [observation(job.version, job.template, job.secret, Never, TRUE)
        EXCEPT !.ready = WorkerSecurityEvidenceCurrent(job.observed)]
(* Mutant: a probe admits without a worker observation. *)
verifiedStatus_AdmitsAtOnce ==
    [observation(job.version, job.template, job.secret, job.age, TRUE)
        EXCEPT !.ready = TRUE]
verifiedStatus ==
    [observation(job.version, job.template, job.secret, job.age, TRUE)
        EXCEPT !.ready = WorkerSecurityEvidenceCurrent(job.observed)]
healthyStatus ==
    LET c == [job.check EXCEPT !.version = job.version, !.checked = job.age,
                               !.obsGen = job.check.gen]
    IN  [c EXCEPT !.ready = verificationAdmitted(c, job.secret)]
admitStatus == [job.check EXCEPT !.checked = job.age, !.ready = TRUE]

Written ==
    CASE job.kind = "fail"             -> fail
      [] job.kind = "failVerification" -> failVerification
      [] job.kind = "failLiveness"     -> failLiveness
      [] job.kind = "verified"         -> verifiedStatus
      [] job.kind = "healthy"          -> healthyStatus
      [] job.kind = "admit"            -> admitStatus

AttemptLost == job.kind \in {"verified", "failVerification"}

(* Status().Update succeeds only on the object that was read. *)
UpdateStatus ==
    /\ pc = "write" /\ check = job.check
    /\ check' = Written
    /\ forgotten' = (forgotten \/ job.kind = "fail")
    /\ IF job.kind = "verified" /\ ~WorkerSecurityEvidenceCurrent(job.observed)
       THEN pc' = "request" /\ UNCHANGED job
       ELSE pc' = "idle" /\ job' = NoJob
    /\ UNCHANGED <<ep, world, passed, seen, last, faults>>

UpdateConflicts ==
    /\ pc = "write" /\ check # job.check
    /\ forgotten' = (forgotten \/ AttemptLost)
    /\ pc' = "idle" /\ job' = NoJob
    /\ UNCHANGED <<check, ep, world, passed, seen, last, faults>>

(* The merge patch that wakes the management controller.  The annotation is  *)
(* not kept: Observe may run at any time anyway.                             *)
requestEndpointObservation ==
    /\ pc = "request"
    /\ pc' = "idle" /\ job' = NoJob
    /\ UNCHANGED <<check, ep, world, aux, faults>>

(* Any API call of the Reconcile fails and the error is returned, or the    *)
(* process dies: the next event starts over.                                *)
Abandon ==
    /\ pc # "idle" /\ faults < MaxFaults
    /\ faults' = faults + 1
    /\ forgotten' = (forgotten \/ pc = "verify" \/ (pc = "write" /\ AttemptLost))
    /\ pc' = "idle" /\ job' = NoJob
    /\ UNCHANGED <<check, ep, world, passed, seen, last>>

-----------------------------------------------------------------------------

World == EditCheck \/ DeleteCheck \/ Rollout \/ EditTemplate \/ WriteSecret \/ LifetimeEnds
Management == Observe \/ ObserveFails
Progress ==
    \/ Expire \/ ResolveFails \/ resolveEndpoint \/ ReadSecretFails \/ ReadSecret
    \/ CheckHealth \/ Verify \/ UpdateStatus \/ UpdateConflicts
    \/ requestEndpointObservation
Reconcile == AddDrainFinalizer \/ Start \/ Progress \/ Abandon

(* A terminating check is left to the router: no Reconcile starts again. *)
Withdrawn == check.deleting /\ pc = "idle"
Terminating == Withdrawn /\ UNCHANGED vars

Next ==
    \/ ~Withdrawn /\ (Tick \/ World \/ Management)
    \/ Reconcile \/ Terminating

Spec == Init /\ [][Next]_vars

(* The work queue always starts a due Reconcile, and its calls return.  At   *)
(* most one of the three is enabled: they are the steps of one worker.       *)
Fairness == WF_vars(AddDrainFinalizer \/ Start \/ Progress)
FairSpec == Spec /\ Fairness

-----------------------------------------------------------------------------

(* The types of the objects, of the running Reconcile and of the history.    *)
(* Part of the type of a status is that one that claims a verification says  *)
(* when it was attempted, which the cadence and the admission are computed   *)
(* from: no path through Reconcile writes one without the other (lines       *)
(* 170-215, 325-382).                                                        *)
TypeOK ==
    /\ check \in Check
    /\ ep \in Evidence
    /\ version \in Nat /\ template \in Nat
    /\ secret \in [rv : Nat, usable : BOOLEAN]
    /\ expired \in {"none", "template", "endpoint", "check"}
    /\ pc \in {"idle", "resolve", "secret", "health", "verify", "write", "request"}
    /\ job \in Jobs
    /\ passed \subseteq Nat \X Nat \X Nat \X Nat
    /\ seen \subseteq Nat
    /\ last \in [key : Nat \X Nat \X Nat \X Nat, age : Ages]
    /\ forgotten \in BOOLEAN /\ faults \in Nat

(* A status that claims a successful verification names a generation,        *)
(* binding and Secret version that a full verification really passed         *)
(* against: the /health path, which also stamps versions and generations,    *)
(* never moves an old result to a new revision (lines 170-196, 384-403).     *)
VerifiedMeansProbed ==
    check.verified =>
        Key(check.obsGen, check.version, check.template, check.secret) \in passed

(* A Ready check was verified, and an active worker of exactly the rollout   *)
(* version it names was observed by the management controller (lines         *)
(* 146-155, 186-187, 207-208).                                               *)
ReadyMeansWorkerSeen == check.ready => check.verified /\ check.version \in seen

(* A full verification begins *)
Begins == pc = "secret" /\ pc' = "verify"
Again == last.age # Never /\ last'.key = last.key
TooSoon == last.age - job.age < Interval

(* Two full verifications of one generation, binding and Secret version are  *)
(* Interval apart, unless the record of the first was reset by fail or never *)
(* reached the API server (failVerification, lines 336-348, and              *)
(* fullVerificationDue).                                                     *)
ProbeCadence == [][Begins /\ Again /\ TooSoon => forgotten]_vars

(* The same without the exception: what docs/security.md:45-51 says.         *)
BillableCadence == [][~(Begins /\ Again /\ TooSoon)]_vars

(* /health is called at most once per Poll for one generation: the comment   *)
(* at lines 115-117.                                                         *)
HealthCadence ==
    [][pc = "secret" /\ pc' = "health" /\ job.check.obsGen = job.check.gen
          /\ job.check.checked # Never
       => job.check.checked - job.age >= Poll]_vars

(* docs/model-router.md:53-56: a check becomes Ready only on a worker        *)
(* observation made after its full probe.                                    *)
AdmittedAfterObservation ==
    [][~check.ready /\ check'.ready
          => job.observed # Never /\ job.observed < check'.attempt]_vars

(* A check whose lifetime, or whose Endpoint's, has elapsed is deleted,      *)
(* whatever Reconcile was in flight and however unready the Endpoint is      *)
(* (lines 98-107, 268-271).  A Template's deadline does this only once       *)
(* everything else that is read of the Endpoint and the Template is in       *)
(* order (lines 273-309), and is not promised here.                          *)
ExpiryWithdraws == expired \in {"check", "endpoint"} ~> check.deleting
=============================================================================
