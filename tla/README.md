# TLA+ verification of provider-runpod

provider-runpod is a Crossplane provider for RunPod serverless endpoints and a
companion HTTP proxy, `model-router`. Several independent processes act on the
same Kubernetes objects and on a remote REST API that may lose an answer. This
directory models the parts where their interleavings decide correctness,
model-checks them with TLC on small instances, and proves the central safety
properties of the router, of the EndpointCheck reconciler, of the teardown and
of the two HTTP paths for every value of the constants with TLAPS.

    tlc -workers 2 -config MCModelRouter.cfg MCModelRouter
    tlapm RouterProofs.tla

`PROJECT.json` lists every run, the source lines behind every definition, a
mutation of the code for every property, the findings and the hazards.

## 1. The system

| Component | State | Operations | Talks to |
|---|---|---|---|
| route table (`internal/router/router.go`) | `refreshMu`, `active`, one inference slot, per-route WaitGroup, token and cancel function | `Refresh`, `replace`, `acquire`/release, `Run`, shutdown, drain acknowledgement | EndpointCheck, Endpoint, Template, Secret (reads), the drain finalizer (write), RunPod inference (proxied) |
| request validation (`internal/router/request.go`) | the names, IDs and budgets collected while a body is walked | `validateChatPayload`, which also rewrites the body (annotations deleted, arguments made canonical) | called by `proxyChat` |
| response copy (`router.go`, `copyBoundedAndFlush`) | what is left of the limit | read, write, probe, trailer | RunPod inference, the client |
| EndpointCheck reconciler (`internal/controller/endpointcheck`) | `EndpointCheck.status` | one `Reconcile`: finalizer, expiry, shortcut, `/health`, full verification, status write | Endpoint and Template status, Secret, RunPod inference |
| managed Endpoint controller (`internal/controller/endpoint`) | create annotations, external name, Endpoint status | `Observe`, `Create`, `Update`, `Delete` under crossplane-runtime's reconciler | RunPod REST, Template status |
| managed Template controller (`internal/controller/template`) | the same for a Template | the same | RunPod REST, Endpoints that refer to it |
| lifetime janitor, Template reaper (`internal/controller/janitor`) | lifetime finalizer, reap annotation | delete by deadline; withdraw checks; release the finalizer; reap the Template | EndpointChecks, Endpoint, Template |
| RunPod REST client (`internal/client/runpod`) | the attempt of a running call | GET/POST/PATCH/DELETE with retry and outcome classes, `FindByName`, the two-step `DeleteEndpoint` | RunPod REST |
| inference client (`internal/inference`) | none | `Verify`, `CheckHealth` | RunPod inference |
| credentials, provider configuration, identifiers, wiring | none of their own | single reads and comparisons | - |

How they interact. A check is *verified* by its reconciler, made *Ready* on the
evidence the Endpoint controller publishes, *routed* by model-router, and, when
it terminates, *drained*: model-router withdraws the route, waits for its
leases and only then removes the drain finalizer. The janitor waits for that
before it deletes the Endpoint, the Endpoint controller deletes the remote
object, and the Template goes last.

What is hard, and the property that makes each part correct:

* the route table: a lease must never outlive the drain finalizer, the token or
  the authorisation it was granted under, while every request and the poller
  refresh concurrently and `replace` waits under a lock all of them need;
* the EndpointCheck reconciler: minutes pass between reading a revision and
  writing the verdict about it, and every write enqueues the check again;
* the managed controllers: a POST whose answer is lost, an object that is not
  listed yet, a stale cache and a crash between any two steps must not give a
  resource two billed objects, or none that it knows of;
* the teardown: five reconcilers with no common lock must act in one order;
* the REST client: what a call returns is all a controller knows of a write
  whose answer may be lost, wrong or late, and the controllers bill and delete
  by it;
* the proxy: a body is judged by a recursion over maps with one budget, and
  rewritten while it is judged; a response that breaks off after its status was
  sent can be recognised by the trailer only.

## 2. Modules

| Module | Models | Checked by |
|---|---|---|
| `Router` | `router.go` and the shutdown in `cmd/model-router/main.go` | `MCModelRouter.cfg`, `MCRouter*.cfg`, `RouterProofs` |
| `EndpointCheck` | `endpointcheck.go`, and the Endpoint evidence (`setObservation`, `endpoint_types.go`) it depends on | `MCEndpointCheck*.cfg`, `EndpointCheckProofs` |
| `Drain` | what the drain finalizer promises: the abstract specification that `Router` implements and `Teardown` assumes | `MCModelRouter.cfg`, `DrainRefined` |
| `Managed` | `endpoint.go` and `template.go` (constant `Kinds`, variable `kind`) under crossplane-runtime's managed reconciler, and the remote objects | `MCManaged*.cfg`, `ManagedProofs` |
| `Teardown` | `janitor.go` composed with the deletions of both managed controllers and the router's drain | `MCProvider.cfg`, `TeardownProofs` |
| `RestClient` | `internal/client/runpod/client.go`: one call | `MCProvider.cfg`, `RestClientProofs` |
| `ChatRequest` | `request.go` and the tests of `proxyChat` | `MCModelRouter.cfg`, `MCProxyOrder.cfg`, `ChatRequestProofs` |
| `ResponseCopy` | `copyBoundedAndFlush` and the trailer | `MCModelRouter.cfg`, `ResponseCopyProofs` |
| `Proxy` | `proxyChat`: `ChatRequest`, the upstream call, `ResponseCopy` | `MCModelRouter.cfg`, `ProxyProofs` |
| `RouterProofs`, `EndpointCheckProofs`, `ManagedProofs`, `TeardownProofs`, `RestClientProofs`, `ChatRequestProofs`, `ResponseCopyProofs`, `ProxyProofs` | theorems about the eight | tlapm |

`MCModelRouter` puts `Router` and `Proxy` into one run, `MCProvider` `RestClient`
and `Teardown`. In both the two modules share no variable, and a behaviour is
about one of them (variable `part`): nothing is claimed of their interaction.

Names follow the source. An operator with the suffix `_Something` next to a
definition is a mutation of it: the definition with a plausible mistake, used
to show that a property can fail.

### Router

*State.* `checks`, `endpoint`, `secret` are the API server's objects.
`refreshMu` is the mutex and its holder; `active`, `routes`, `slot` are the
route pointer, the route values and the one-request semaphore. `step`, `snap`,
`deleting`, `cand`, `candToken`, `prev`, `failed` are the local variables of
the one `Refresh` that can be running; `run` and `runPrev` belong to
`Router.Run`. `pc` and `lease` are per request. The WaitGroup of a route is the
set of requests that lease it.

*Actions.* Every API call, every critical section of `r.mu` and every wait is a
step, so the API objects, other requests, `Run`'s shutdown and a process death
can come between any two. A refresh is `Lock`, `ListChecks` or `ListFails`,
`Evaluate`, `ReadSecret` or `ReadSecretFails`, `RecheckEndpoint`, `Relist`, then
`replace` (`ReplaceKeeps`, or `ReplaceSwaps` and `ReplaceDrained`), one
`AckDrain`, `AckSkips` or `AckFails` per terminating check, `AckDone`, `Return`.
A request is `Arrive`, its refresh, `acquire`, `AnswerLocally` or
`StartUpstream` and `EndUpstream`, `release`. `StopWithdraw` and `StopDrained`
are the exit of `Run`, `Restart` the next process. `stale` is auxiliary: what
was already unusable when the request arrived, less what has become usable.

*Abstractions.* A check's status is reduced to what the router compares. A
revision stands for all that `endpointRevisionMatches` compares, its target for
what `routesEquivalent` compares. Time is not kept: an admitted check may be
found fresh or lapsed at every evaluation. `Evaluate` looks at all checks in one
step; the source reads each Endpoint in turn, and the difference is covered by
the free choice of the checks found fresh together with the second look at the
chosen one (`RecheckEndpoint`). What a request asks for and what comes back are
the subject of `Proxy`.

### Drain

Per check: is the drain finalizer present, who uses the check; and is a router
running. A use begins only under the finalizer, and the finalizer goes only
when there is no use. `Router` implements it with `guarded` (the check exists
and has the finalizer) and `users` (the requests with a lease on a route of the
check while the router runs). `Teardown` does not prove it but takes it for
granted: its `Route` and `AcknowledgeDrain` have the guards of `Enter` and
`LetGo`, with one user, the route. The assumption is discharged by `DrainRefined`
of `RouterProofs`, for a router that runs. A router that was told to stop makes no promise: that is finding 1, and why `Switch` forgets
the users.

### EndpointCheck

*State.* The check with its status, the Endpoint evidence (`ep`), the Secret,
and the local variables of one `Reconcile` (`pc`, `job`). Ages are counted in
ticks, capped by `Cap`; `Poll`, `Interval`, `FlashMax` and `MaxCall` are the
four durations the code compares. `passed` and `seen` record which revisions a
probe has passed and which rollouts have shown a worker. They are never read by
an action. `expired` is the deadline of those passed which a pass tests first:
that of the check and that of the Endpoint are tested before anything else is
read of the Endpoint, that of the Template only after readiness, FlashBoot and
Template revision, each of which ends in `fail` (`endpointcheck.go:273-309`). So
an elapsed Template lifetime may be hidden by them, and `ExpiryWithdraws` is
about the other two.

A read of the Endpoint, the Template or the Secret that fails is reported by
`fail` too, which erases the record of the last attempt (`ReadError`). A response
may omit FlashBoot, as the v1 schema does, or report it off or on
(`setObservation`); on counts as a fault.

*Abstractions.* The requeue delays are replaced by events that may come at any
time, which includes every event a status write causes. The branch at
`endpointcheck.go:156-168` (handshake on an unverified check) cannot be reached
and has no action.

### Managed

*State.* The resource as the API server has it and as the reconciler read it
(which may be older), the kind of resource, its create annotations, external name
and status, and the remote objects: own ones, named deterministically, and a
foreign one. `Unknown` is a well-formed identifier of no object. `spoiled` says
that RunPod reports the object in a state which `unrepairableExternalState`
refuses (`template.go:208-211`), for a terminating resource too.

*Actions.* crossplane-runtime's reconciler is external: `Begin`, `Observe`, and
then the create, update or delete path, with its annotation updates as steps of
their own. A POST may succeed, be refused, or be ambiguous with the object
existing now, later or never; the search after an ambiguous one is a step of its
own (`recoverAmbiguousCreate`), and so is the PATCH after the deadline check and
the GET of `Update`, so that the deadline may pass between them. The process may
die between any two steps (`Abandon`). The field-by-field comparison of a
response with the desired input is a free choice, except that an empty
`templateBinding` matches no response.

*Edits of the external name.* `Tamper` sets the annotation to any identifier or
removes it. Two such edits hide the object from the controllers, and are recorded
in `lost`: removing the name of a bound resource, which is then created again or
let go (`endpoint.go:229-231`), and naming no object before `status.ID` has been
stored, which lets a deleting resource go (`endpoint.go:243-247`,
`template.go:183-186`). `AtMostOne` and `GoneMeansDeleted` except them by name:
they are what the reservation of `crossplane.io/external-name` that
`docs/security.md:115-127` asks of cluster admission is for. `ForeignUntouched`
has no exception.

### Teardown

One Template, one Endpoint that refers to it, some checks that refer to the
Endpoint. The router is weaker here than in `Router`: once a check has been
resolved against a live Endpoint it may be routed at any later time, so nothing
depends on how quickly it notices. The janitor reads through a cache: a stale
read behaves like a slow pass, because each of its writes is conditional on the
version it read, or idempotent. Among bound Endpoints only one that is being
recovered after an ambiguous create gets past `Observe` while terminating
(finding 2), and the model has that restriction.

### RestClient

*State.* One call: the operation, the request `doJSON` is making and its
attempt, the answer being judged, whether the context is done, and what the
call returned. At the service: how often each request arrived, and what became
of each write (`fate`). Calls share nothing, so one is enough.

*Actions.* `Begin` is the validation before anything is sent, `Send` and
`SendCancelled` are `httpClient.Do`, `TransportError` its failure, `Judge` what
the code does with an answer, in its order (read, 404, retryable, not 2xx,
decode, then the operation's own tests), `Wake` and `WakeCancelled` the end of
a backoff. The service is external and as unhelpful as HTTP allows: it may
apply a write after the client has given up (`Apply`), answer 429 or 5xx to a
write it applies or not, or cut off any answer. It is only assumed that a 2xx
is given after the write, and that any other 4xx, a 3xx or a 404 means that the
write was not and will not be carried out.

*Abstractions.* Templates and Endpoints have the same operations and are not
told apart; a body is one of eight kinds; durations are not kept.
`RefusalIsFinal` and `OutcomeIsTrue` are what `Managed` assumes of the client
when it lets a refused create be repeated and a deleted object be forgotten.

### ChatRequest, ResponseCopy and Proxy

A payload is a record of what the tests relate to each other. Its schemas are
trees, given as sets of paths; `EnterNode` and `LeaveNode` are the recursion of
`validateJSONSchema` with its stack, one child at a time in any order, because
Go ranges over a map in any order. `declared` and `callIDs` are the maps of the
code, `stripped` the nodes from which `$schema` and `default` were deleted. A
test of a single field (a type, a range, a known key) is a flag of the place
where the field is; so is the strict decoding of a call's arguments.
Credential-like text is placed where the scans can or cannot see it: plain,
escaped by the JSON of the body, escaped by the JSON of the arguments inside it,
or `reescaped`: with white space that `json.Marshal` writes as an escape again.
`credentialPattern` (`router.go:52`) asks for white space itself, and every scan
is of an encoding, so text of the last kind is seen by none of them; the model
accepts it. `docs/model-router.md:79-81` and `docs/security.md:72-74` speak of a
scan "after escape decoding"; `NoCredentialForwarded` claims what the scans of the
encodings achieve: an escape that the encoder would not write itself hides
nothing.

`ResponseCopy` counts bytes. A read may return any number of bytes, with the end
of the body or before it, and a write may fail or be short. `Proxy` puts the
parts in the order of `proxyChat`, with the inference slot and the upstream call
as one step (`Router` has their concurrency).

## 3. Runs

Bounds are the constants of the cfgs, named in the modules.

| Run | Instance | Shows |
|---|---|---|
| `router` | `Router` with 2 requests, 1 check with 4 writes, 2 tokens, 1 Secret rewrite, 1 restart, 3 route values; `Proxy` with bodies of up to 3 tools or 4 messages, budget 6, depth 2; limits -1 to 3, responses of 0 to 5 bytes, buffer 2 | types, and the inference slot is held by the request that is upstream; a lease keeps the finalizer while the router runs; no lease on what was already unusable when the request arrived; tokens outlive leases; between refreshes only the active route is leased; the router implements `Drain`. Tools are judged as a whole, annotations stripped, results answer calls, no credential hidden by escapes; the copy is within the limit and its trailer true |
| `router_live` | 2 requests, 1 check, fair; `LiveNext`, which is `Next` without `Restart` and `WriteSecret` | a terminating check is acknowledged, every request is answered |
| `router_stop` | the shutdown | finding 1 |
| `result_order` | the bodies of `router` | finding 7 |
| `endpointcheck` | `Poll` 1, `Interval` 2, `FlashMax` 1, `MaxCall` 1, one change (edit, rollout, Template, Secret or the first deadline), one fault (a failed call, drift, FlashBoot reported on) or crash, fair | a status claims only what was probed, Ready only with a worker seen for that rollout; an early repetition of a full verification has a lost or reset record as its cause; expiry of the check or its Endpoint withdraws the check |
| `endpointcheck_billable`, `_health`, `_admission` | longer `Interval` | findings 3 to 5 |
| `managed` | both kinds, 2 own ids, 1 foreign, 1 of nothing, 2 POSTs, 1 edit of the external name, 2 faults, fair | no copy is bound and in doubt; at most one object; a resource that is gone left none behind; foreign objects untouched; a Template pass that begins after the deadline writes nothing, and a terminating bound Template is deleted |
| `managed_endpoint_stuck`, `_deadline` | Endpoint only | findings 2 and 6 |
| `provider` | `RestClient` with 4 attempts, as in the code, every operation, answer and loss, fair; `Teardown` with 1 check name, 2 creations, 1 crash, fair | writes are sent once, their outcomes are true, nothing follows a doubtful write, a call returns. Checks are drained before the Endpoint goes, the Template outlives the Endpoint, the intent to reap survives, the checks of a deleted Endpoint are drained |

Why the bounds are enough to be interesting. Two requests and the poller are
the smallest set in which one goroutine holds a lease, one waits in `replace`
and one is queued on `refreshMu`. Four writes take a check through creation,
finalizer, admission and deletion. Three route values are an active one, one
being drained by `Refresh` and one by `Run`. Two POSTs are what a duplicate
needs. Ages stop where they no longer matter: `checked` at `Poll + MaxCall`,
FlashBoot evidence at `FlashMax + 1`, the others at `Cap`, which is beyond
every interval. Two creations let a
check be created after the Endpoint's deletion began. The bodies of `router`
include each tree as it should be, annotated and with one fault before or after
its children, two tools that are within the budget alone but not together, all
conversations of three messages over two call IDs, and one tool and one message
too many; the copies cover bodies shorter than, exactly at and over the limit,
with a buffer that divides it and one that does not. More requests, more
checks (a collision, a handover from one check to another) and longer durations
are covered by the proofs, which fix none of the constants.

Deadlock is checked for `Router` and `EndpointCheck`. In `Managed` and
`Teardown` the system may stop once the resources are gone, and a call of
`RestClient` is over when it has returned; a request of `Proxy` that has ended
stutters in `MCModelRouter`.

### Fairness

* `Router`: strong fairness of `Lock`, because `sync.Mutex` hands over to a
  starved waiter; weak fairness of the steps of a running `Refresh`, and strong
  fairness of the successful outcome of the lists and of `AckDrain`, because the
  API server does not fail or conflict for ever; weak fairness of acquire,
  answer, release, and of the end of an upstream call whose context is
  cancelled. Nothing is assumed of an upstream that is not cancelled.
* `EndpointCheck`: weak fairness of the one worker that reconciles the check:
  its finalizer update, the start of a pass (the work queue delivers) and its
  progress (every call has a deadline). At most one of them is enabled.
* `Managed`: weak fairness of sync, begin, observe and act (the poll interval).
* `Teardown`: weak fairness of the janitor and the reaper, and, for each check,
  of the withdrawal of a terminating one and of its acknowledgement, which is
  what `DrainAcknowledged` establishes for `Router`.
* `RestClient`: weak fairness of the client's own steps. A goroutine is
  scheduled, a timer fires, and a request without an answer fails within the
  30 seconds of the HTTP client. The service owes nothing.

## 4. Proofs

Each theorem is `Spec => []P`, an action property or a refinement, for every
value of the constants; the only assumptions are `RouterAssumption`,
`EndpointCheckAssumption`, `ManagedAssumption`, `TeardownAssumption`,
`CopyBounds` (the constants are what their names say), `ChatAssumption` (the
bounds are numbers, and a schema is a finite tree: what `json.Unmarshal`
returns) and `Attempts` (there are at least two: with one, a POST answered by a
5xx would be reported as an ordinary error). TLC evaluates them in every run.
Every invariant, action property and refinement that a passing run checks is
also a theorem; what `CallReturns` and the other liveness properties say is not.
The inductive invariants were checked by TLC before they
were proved. A `*Init` lemma shows that they hold at first, one lemma per group
of actions that a step keeps them.

### RouterProofs

`TypeCorrect` (`TypeOK`), `FinalizerHeld` (`LeaseHoldsFinalizerWhileRunning`),
`TokenSafe` (`TokenOutlivesLease`), `WithdrawnIdle` (`WithdrawnMeansIdle`),
`LeaseFresh` (`NoStaleLease`).

The first three after the types rest on `DrainInv`:

* `TypeInv`: `TypeOK`, and a transaction runs exactly while `refreshMu` is held,
  by a request only in its refresh (so that its end takes nobody out of an
  upstream call with the slot); the check it picked is live, with the drain finalizer, in its snapshot;
* `Tracked`, about the transaction: what the snapshot showed as live and
  finalized has its finalizer still; a picked check has its finalizer and, once
  the Secret was read, a token; `deleting` holds only checks that the snapshot
  showed as deleting;
* `Published`, about the route table: the active route has a check with its
  finalizer and a token, and is not the one `Run` waits for; so has the route
  that `replace` waits for, which is not the active one; after the swap the
  active route, if there is one, belongs to the picked check;
* `Leased`: while the router runs a lease is on the active route or, during the
  wait, on the previous one; no leased route has lost its token.

The finalizer of a check is removed only by `AckDrain`. The check is then in
`deleting`, hence neither the picked one nor that of the active route, and no
other route is leased, because `replace` has waited.

`LeaseFresh` needs a second invariant, `FreshInv`, on top of it: what a request
holds against a check or a token is still true of the API server (`StaleInv`); a
check that differs from the snapshot has a newer resource version, so the second
list finds it (`SnapInv`); a picked check is either about to be found changed or
on no list of a request that arrived before the transaction, and the same for
its token (`PickedInv`); from the swap to the return the active route is the
picked one (`CommittedInv`). A request's own transaction begins after its
arrival, and so does each one that commits between its return and its `acquire`.
The invariant shows what the second list is for: without it a check may be
deleted, and its Endpoint become Ready, between the first list and the look at
the Endpoint, and the transaction would commit a check that was unusable at
every moment since the request arrived.

`DrainRefined` (`DrainKept`) shows that every step of `Router` is one of `Drain`
or leaves its variables alone. `DrainInv` is what it needs: a lease begins on
the active route, whose check has its finalizer, and `AckDrain` finds nobody on
a check it lets go.

### EndpointCheckProofs

`TypeCorrect`, `VerificationSound` (`VerifiedMeansProbed`), `ReadinessSound`
(`ReadyMeansWorkerSeen`). `ClaimInv` adds to the two properties that they hold
of the copy of the check the running `Reconcile` read; that a worker
observation, stored in the Endpoint status or carried by the `Reconcile`, is one
of the rollout it is stored with (`EvidenceInv`); and what each kind of status
write has established when it is reached (`JobInv`): the health path only for a
status bound to the generation, rollout and Secret at hand, the verified status
only for a probe that passed, admission only of a verified rollout with a worker
seen. No timing is needed: soundness holds for all durations.

`CadenceKeeps` (`ProbeCadence`) is the action property about time. `CadenceInv`
says that the copy a `Reconcile` reads agrees with the stored status on what
was last verified and when, since nobody else writes it (`CopyInv`); that a
verification under way is the last one begun, as old as the `Reconcile`
(`FlightInv`); and that otherwise the status still names the last one begun with
its age, unless that is forgotten (`RecordInv`). The last needs `JobInv`: the
`/health` path writes a generation and a rollout version, and would lose the
record if the status were not bound to them already. A verification of the same
key then finds the status bound, so that only an attempt older than the interval
makes it due. The ages saturate at one `Cap`, and the record and the history
grow old together.

### ManagedProofs

`TypeCorrect`, `OneObject` (`AtMostOne`), `NothingLeft` (`GoneMeansDeleted`),
`ForeignSafe` (`ForeignUntouched`), `TemplateDeadline` (`TemplateWritesInTime`),
for any set of identities and any number of posts, edits and faults. The four
are not inductive: the reconciler acts on a cached copy that may be older than
the resource, so `IInv` adds what any copy may be trusted with.

* `CopiesSound`: every copy (stored, cached, read by the running reconcile, and
  being edited by it) has a status that names no foreign object and none that does
  not exist; an own object that it names has been created and listed; one that is
  bound and has no name, or a create in doubt, or before its status is stored
  names nothing, was edited so (`lost`);
* `StoredTrace`: a stored resource that is neither bound nor in doubt has never had
  an object; one without finalizer has none; one that is acknowledged has none
  left; an object was hidden only from a bound resource;
* `JobPlan`: what holds when the reconcile reaches each of its writes. Before
  the POST the stored resource has the pending annotation of this very pass and
  there has never been an object, unless the name was removed; the pass could store
  that annotation only on the version it had read, so a stale cache stops it there.
  After the POST the object is named by the copy, or the copy carries the ambiguity
  marker, or there is none. `Update` and `Delete` work on own identities only, and a
  pass that reached its PATCH began in time;
* `StatusKept`: the working copy has a status if the one read had.

### TeardownProofs

`TypeCorrect`, `DrainedFirst` (`DrainedBeforeDelete`), `EndpointFirst`
(`TemplateOutlivesEndpoint`), `ReapRecorded` (`ReapIntentSurvives`), for every
set of checks. `OrderInv` consists of `LateInv` (a check created after the
deletion of the Endpoint began is never admitted or routed), `JanitorInv` (what
the janitor read of the Endpoint can only have moved on), `DrainInv` (once
anybody has found no check of the terminating Endpoint, those that refer to it
are late ones), `TemplateInv` (when the Template controller goes on, no create
is under way and none can begin) and `ReapInv` (the mark precedes the deletion).
The types include that a routed check is admitted and an admitted one has its
drain finalizer.

### RestClientProofs

`CallTypes` (`TypeOK`), `WritesOnce` (`RetriesOnlyReads`), `RefusedCreates`
(`RefusalIsFinal`), `TrueOutcomes` (`OutcomeIsTrue`), `ZeroedFirst`
(`ZeroBeforeDelete`), `DoubtStops` (`NothingAfterDoubt`), for any number of
attempts. `CallInv` says which requests an operation can be making (`Path`);
that earlier writes of the call are settled (`Settled`) and those it does not
make are unsent (`Others`); how often the current request was sent, given the
attempt and the place in the loop (`CurrentWrite`, `CurrentRead`); and what each
outcome says of the writes (`Ended`). The last must survive `Apply`: it may speak
of a pending write only where the outcome leaves it in doubt.

### ChatRequestProofs

`TypeCorrect` (`ChatTypeOK`), `VerdictRight` (`ToolsVerdict`), `Cleaned`
(`AnnotationsStripped`), `Answered` (`ResultsAnswerCalls`), `NoCredential`
(`NoCredentialForwarded`), for all payloads and bounds.

The verdict is compared with a definition that knows no order and no stack
(`GoodTools`), so it must be shown that the walk enters every node exactly once.
`Walking` describes the stack: the frames are the nodes from the root to where
the walk is, all entered, each with those of its children that have not been;
every child of an entered node is entered or awaited by a frame; a node with a
fault behind its children is still on the stack. `Accounting` says that what is
left of the budget and the number of nodes entered add up to the bound. When the
walk is back at the bottom nothing is awaited, so the nodes entered contain the
root and the children of their nodes; `ClosedIsAll` concludes that they are all,
by taking a missing node nearest to the root (every set of naturals has a least
element, `LeastNatural`), whose parent is entered. A rejection is right because
each failed test contradicts one conjunct of `GoodTools`; for the budget, because
the nodes entered and the next one are more nodes than the bound.

`MessagesPart` says of the messages checked so far that their calls have
different IDs, are declared and clean, and that `callIDs` is the set of those
IDs. That IDs of one message differ follows from their number (`DistinctIDs`: a
surjection between finite sets of one size is injective).

### ProxyProofs

`OnlyJudgedForwarded`: what goes upstream has passed all tests, is stripped, and
shows no credential to a scan; `Stages` is the invariant that ties the order of
`proxyChat` to the judgement. `ExchangeBounded`: the bound and the trailer hold of
the whole exchange. The lemmas `ProxyJudges` and `ProxyCopies` carry the theorems
about the halves over to their composition, which holds by its construction.

### ResponseCopyProofs

`Bounded` (`WithinLimit`) and `HonestTrailer` (`TrailerTells`), for every limit,
length and buffer size. `CopyInv`: while the copy goes on everything consumed
was delivered, and what was delivered and what remains add up to the limit.

### Only model-checked

All liveness, which is out of reach of the prover: `DrainAcknowledged` and
`RequestAnswered` of `Router`, `ExpiryWithdraws` of `EndpointCheck`,
`TemplateDeletionCompletes` of `Managed`, `ChecksDrain` of `Teardown` and
`CallReturns` of `RestClient`. That the router acknowledges a drain, which
`Teardown` assumes as fairness, is `DrainAcknowledged` of the run `router_live`.

## 5. Findings

1. `router_stop`: `Run` withdraws the route at shutdown without `refreshMu`, so
   a concurrent `Refresh` sees nothing to wait for and acknowledges the drain
   finalizer while leases on the withdrawn route are held.
2. `managed_endpoint_stuck`: a terminating bound Endpoint resolves to an empty
   `templateBinding`, `Observe` compares the response with it and fails, and
   `Delete` is never reached.
3. `endpointcheck_billable`: `fail` erases the attempt record, so that every
   short outage of the Endpoint evidence is followed by another full
   verification inside the interval.
4. `endpointcheck_health`: a check that waits for a worker calls `/health` on
   each of its own events, without the pause.
5. `endpointcheck_admission`: readiness after a full verification rests on a
   worker observed before the probe.
6. `managed_endpoint_deadline`: the PATCH that recovers an ambiguous create is
   not preceded by the deadline check, so a pass that begins after the deadline
   sends it. (Also where the check is made it is not immediately before the write:
   a GET with retries comes between, `template.go:332-345`, `endpoint.go:387-400`.
   The run is about passes, not about that window.)
7. `result_order`: the comment at `request.go:156` has a tool result refer to a call
   "present earlier in this body"; the code tests it against the calls of the whole
   body, and accepts a result before its call.

Some observations are not part of a run. The comment at `types.go:71`
of the REST client disagrees with `endpoint.go:500`. A list answered by 2xx and
an empty body counts as an empty list, so `FindTemplateByName` returns
`ErrNotFound` for it. `backoff` multiplies the seconds of `Retry-After` before it
bounds them; durations are not in the model.

## 6. Not modelled, and the plan

Not modelled: generated code, RBAC and admission-policy tests (no state), the
credentials and identifier helpers (single comparisons), flag parsing and
manager set-up, the layout of JSON documents. A deletion of the remote object
whose answer is lost and whose effect appears late leaves the create marker in
place; the resource then needs an operator's acknowledgement, and that is in
`Managed` as a resource that stays.

`Refresh` runs under the context of the request that called it, so a client that
disconnects can withdraw the route for everybody until the next refresh
(`ListFails` in `Router`). Nothing in the repository promises otherwise; that the
route comes back needs fairness of the whole chain of reads of a transaction,
with more conjuncts than TLC can handle here, and is not checked.

Next, in this order:

1. an abstract specification of the create protocol (intent, POST, binding or
   doubt) that `Managed` implements, and a proof of the refinement;
2. the safety half of the liveness properties: what the steps between a
   deletion and its end may not undo;
3. the parsing of the probe's tool call in the inference client, which is a step
   that passes or fails in `EndpointCheck`;
4. the provider's connection to its credentials (`management.Connect`).
