# k8s-aibom: TLA+ models and proofs

k8s-aibom is a Kubernetes controller that keeps an AI bill of materials (an
`AIBOM` object and documents in external sinks) for every AI workload of the
opted-in namespaces. This directory holds TLA+ models of the parts of it that
are hard to test, TLC configurations that check them on small instances, and
TLAPS proofs of the properties that matter most. All paths below are relative
to `src/`; `internal/controller/` is abbreviated `controller/`.

## 1. The system

| Component | Code | State | Operations | Hard behaviour |
|---|---|---|---|---|
| CRD discovery | `controller/watch_discovery.go` | one worker per candidate kind (last published state and UID, evidence of absence, lag), the observations, one-slot wake-up channels | `readCRD`, `publish`, `publishLag`, `removeObserved`, `poke` | the CRD changes between the read and the publication; wake-ups coalesce; reads fail |
| Watch health | `controller/watch_health.go` | one entry per kind | `Register`, `MarkHealthy/Started/Unhealthy/Disabled/Starting` | entries written by several goroutines |
| Watch supervisor | `controller/watch_supervisor.go` | desired set, `life`, runners, `activated`, `pendingStart`, `lagReported`, `absentSince` | `apply`, `applyAllowlist`, `retire`, `disable`, `stopRunner`, `sweepAIBOMs`, `run`, `runOnce`, `runnerError` | waits for runners and sweeps in the middle of a pass; late callbacks; a destructive sweep |
| Workload reconciler | `controller/workload_reconciler.go`, `aibom_controller.go` and the other per-kind controllers | none of its own: AIBOM, cache, queue, sinks | `reconcileWorkload`, `emitToExternalSinks`, `persistFailureStatus`, `recordExtractionErrors`, `deleteWorkloadAIBOM` | lagging cache, conflicts, lost answers, restarts, filtered events, re-created workloads |
| Status builder | `controller/status.go` | none | `BuildStatus`, `BuildFastPathStatus`, `buildBOMDocumentRef` | which fields survive on which path; what is said of a delivery |
| Configuration | `controller/aibomcontrollerconfig_reconciler.go`, `schema_skew.go`, `internal/config/` | the snapshot, `configInvalid`, `lastObserved`, open sinks and their closing timers | `Load`, `Reconcile`, `updateConditions`, `Store`, `MarkAsLastKnownGood` | hot reload under running reconciles, deferred closing of sinks, conditions about what has changed again |
| Ownership roll-up | `controller/ownership_rollup.go`, `pod_ownership.go` | `TrackedKinds` | `resolveTrackedOwner`, `rootDescendants`, `EnqueueRootForPod` | membership and the allowlist change under concurrent reconciles; owners that cannot be read |
| Allowlist fan-out | `controller/allowlist_fanout.go` | the slot, inactive kinds, channels | `Trigger`, `TriggerContext`, `fanOutKind` | bounded channels, a deadline, one fan-out at a time |
| Namespace observer | `controller/namespace_observer.go` | an observation and a timer per namespace | `Considered`, `Forget`, `announce` | timers that are reset, stopped too late, or outlive their namespace |
| Verifier | `verifier/`, `internal/sigverify/` | the verifier of a policy, its result cache, calls in flight | `current`, `Verify`, `do`, `decideOutcome` | shared calls, expiry, policy changes |
| Sinks | `internal/sink/` | attempts of an emission | `Emit`, `deliver`, `retriesStopped` | lost answers, deadlines between two attempts |
| Scrapers, BOM builder | `internal/scraper/`, `internal/bom/`, `controller/summary.go` | none | `Scrape`, merge, `Build`, `redactComponent`, `buildSummary` | several scrapers on one workload, two caps, any order of pods and maps |

How they interact. Discovery workers read CRDs and publish observations; the
supervisor's serialized `apply()` turns them, together with the allowlist from
the configuration store, into running watches, health entries and membership
in `TrackedKinds`, and asks the fan-out to re-enqueue the workloads whose owner
may have changed. A running watch is a controller whose reconciles go through
`reconcileWorkload`, which reads the configuration snapshot, looks up the
namespace, walks to a tracked owner, scrapes (with signature verification),
decides by input hash whether to emit, builds the document, writes to the sinks
in parallel, then creates the AIBOM and writes its status. Runners report
absence-shaped errors back to discovery by poking its worker; `apply()` sweeps
the AIBOMs of a kind it disables; a change of watch health wakes the
configuration reconciler, which reports it as a condition of its CR.

What makes each correct: discovery never calls a present generation removed
and loses no event; the supervisor sweeps only on evidence, never runs two
watches of a kind and converges to what is installed and allowed; the
reconciler never records as done what a sink has not accepted, and leaves no
workload unreported with nothing queued; the configuration in effect, its sinks
and what the CR says agree at rest; every workload is in exactly one document;
a verified claim earned it; a document drops, overstates and leaks nothing.

The hazards, each at its line, are in `PROJECT.json`.

## 2. Modules

| Module | Models | Composes |
|---|---|---|
| `WatchHealth` | the entry of the health registry, one operator per method | |
| `CRDLifecycle` | abstract specification of discovery: the state machine of Design 004 A1 over the CRD the API server holds | |
| `CRDDiscovery` | the discovery workers, the API server's CRDs, observations and wake-ups; refines `CRDLifecycle` | |
| `WatchSupervisor` | the apply loop, runners, callbacks, reconciles in flight and the sweep | `CRDDiscovery`, `WatchHealth` |
| `AIBOMLifecycle` | abstract specification of the reconcile: the AIBOM's status and the sinks' contents as their readers see them, one step per write | |
| `WorkloadReconcile` | the reconcile of one workload with its queue entry, AIBOM, cache, sinks, failures and restarts; refines `AIBOMLifecycle` | |
| `ConfigLoader` | operators: parsing and validation of a spec, Secrets, construction of sinks, served schema | |
| `ConfigStore` | abstract specification of the store: which snapshot is in effect and which sinks are open, one step per swap, delivery and closing | |
| `Configuration` | the CR and its informer, the reconciler, the store, sinks, their closing and a delivery through them; refines `ConfigStore` | `ConfigLoader` |
| `WorkloadKinds` | one record per reconciler: what tells them apart | |
| `OwnershipRollup` | the walk up and the list down the ownership graph, membership, the fan-out, pod events | `WorkloadKinds` |
| `NamespaceObserver`, `SignatureVerifier`, `SinkDelivery` | the component of that name | |
| `Scrapers` | operators: what each scraper reads from a workload | |
| `BOMPipeline` | scrapers, merge, document, redaction, summary; pods listed again in another order | `Scrapers` |
| `CRDDiscoveryProofs`, `WorkloadReconcileProofs`, `ConfigurationProofs`, `OwnershipRollupProofs`, `NamespaceObserverProofs`, `SignatureVerifierProofs`, `SinkDeliveryProofs` | the theorems about the module of that name | |
| `WatchSupervisorProofs` | the theorems about `WatchSupervisor` | `CRDDiscoveryProofs` |
| `MC*` | the TLC instances | `MCServices`: the four services of a reconcile |

**CRDDiscovery.** `worker[k]` is `crdWorker` with the program counter of its
goroutine. `ReadCRD` is the GET of `readCRD`, the `Classify*` actions are its
cases in the order of the code, and `KickApply` is the second half of
`publish`; the API server may act between any two. A read that finds another
UID publishes `Removed`, kicks, and goes on classifying the same object, as
the code does. UIDs are numbered in order of creation. `crdReady` (served
version, scope, names, Established) is the Boolean `ready`. Each change of a
CRD pokes its worker at once: an informer event that is late only delays a
read, which `ReadCRD` may do anyway. Time is not modelled: mapping lag may
exceed `CacheSyncTimeout` at any retry.

**WatchSupervisor.** `sup` is the `Start` goroutine. A pass of `apply()` takes
the kinds in some order, and is cut where the code waits or does I/O: before
the desired set is read, per kind, while it waits for a runner (`retire`,
`unserve`, `exclude`), and around a sweep. `runner[k]` is the runner
goroutine (`run`, `runOnce`); `callback[k]` is a watch error whose handler, in
the reflector's goroutine, has not run yet; nobody waits for it. One AIBOM
stands for all AIBOMs of a kind. `inflight` and `cached` are the write of a
reconcile that is under way and the shared cache the sweep lists.

**AIBOMLifecycle.** What a reader of the API server can count on, with no cache,
queue, reconcile, lost answer or restart in sight: the document is created for
an incarnation of the workload that existed, it may be taken over as it is by a
later incarnation and never by an earlier one (`Adopt`), a status is written as one step
from the document as it is then (`Refresh` on an unchanged input, `Publish` of a
document that was built and offered to the sinks, `MarkFailed`), a document says
it is complete only when every one of its sinks has the contents, and what it
has observed, an incarnation and a generation of it, never goes back. (The comment at
`api/v1beta1/aibom_types.go:135` says it is the AIBOM's own generation; the code
records the workload's, and so does the model.)

**WorkloadReconcile.** The queue holds at most one entry of the key, due now
or when a timer fires, and an event overtakes the timer (the comment at
`workload_reconciler.go:353` relies on it). `rec` is the reconcile in
progress; its steps are the calls other processes can overtake: the start
(snapshot, exclusions, scrape and hash, which may fail), the lookup of the existing AIBOM in
the cache, the emission, `CreateOrUpdate`, the status write. Every write is
checked against the resource version it was read at. `CreateOrUpdate` creates the
AIBOM, keeps it, or adopts one that an earlier incarnation of the workload left:
`SetControllerReference` (`workload_reconciler.go:433`) compares group, kind and
name of the two owners, not the UID, and the reconcile goes on from the status
it finds. The three exclusions
(namespace, allowlist, tracked owner) are elements of `Causes`. A call that
fails may have taken effect. The history fields `aibom.st.sinks` (the sinks
of the snapshot the status was computed under) and `delivered` exist for the
properties only.

**ConfigStore.** What those who load a snapshot can count on, with no queue, load,
condition, timer or clock in sight: a snapshot is replaced as a whole, by one of
the generation the controller sees (`Accept`), by itself under the label
last-known-good (`Retain`), or by the compiled defaults when there is no CR
(`Revert`); a list of sinks is closed (`Close`) when it is neither in effect nor in
use by a delivery that began while it was.

**Configuration.** A reconcile is cut where the API server or another goroutine
can come in: load, swap and announce (one step, on the cached CR); read the CR
again and compute its conditions; write the status, which may conflict, fail or
find the CR gone. `feed` is what the informer has still to deliver; the
predicates (`configChangeReloads`) and the one-slot health channel decide what
queues the request. A list of sinks is a number (`batch`), so that sharing one
between a snapshot and its last-known-good copy, and leaking one, can be told
apart. Time is counted in ticks of 30 s: `DefaultExternalSinkTimeout` is one
tick and the 35 s of the closing are two. A delivery that begins after its
snapshot was replaced is marked `late`: the closing does not wait for it
(section 6).

**ConfigLoader.** A spec is a record of what decides: whether each pattern
compiles, the parts of each `Group/Kind` entry, the bodies a sink sets, what a
Secret key holds. Errors are tags; all of them are collected, one is enough for
the defaults.

**OwnershipRollup.** Objects, kinds and controller references are constants; an
object is one UID. `resolveTrackedOwner` is a walk with one live read per hop,
done in one step because every interleaving that matters is between the walk
and the write of the document (`Resolve`, `Finish`). The supervisor appears as
what it does to membership, runners and documents; `WatchSupervisor` has its
steps. `exists` is what the API
server has and `cached` what the informers show of the kinds that are listed
through them; each object is shown at its own time (`Observe`), and an object
that is not shown yet leaves out what is below it. A pod of the model exists when
its cache shows it, which is when its event is handled. A list that fails on the way
down leaves its kind out and the reconcile goes on; `partial` marks a document made
while a list failed or lagged. A supervised kind's own live Get comes first
(`Begin`): while its kind cannot be read it returns an error, and the request
stays queued. `missed` records which workloads a failed fan-out did not reach, and
`unnoticed` those below an object whose CRD went before the supervisor tracked
it, so that the properties can say what that costs and no more.

**NamespaceObserver.** One namespace, whose incarnations are numbered. A timer
that fired leaves a call of `announce` behind that `Forget` or `Reset` cannot
take back. `pass` numbers the observations and exists for the properties.

**SignatureVerifier.** What a reference resolves to is a constant. A caller
loads the policy, gets the current verifier (rebuilt when the policy changed),
the trust root, and enters the cache: a hit, a wait for the call in flight, or
the lead. Removing the entry in flight and closing its channel are separate
steps, as in `do`.

**SinkDelivery.** One emission per round: each sink attempts, waits and retries
on its own; an answer may be lost after the document arrived; a context may end
at any time. `CutShortEmit` keeps the previous answer as `retriesStopped` does.

**Scrapers, BOMPipeline.** A workload is templates with containers, and of each
string only its identity and the credentials in it: images, tags, versions,
package URLs, the values of properties and their keys are such texts. What a
custom resource says of its version and its runtime is `said` and
`runtimeSaid`, the names and revisions of Dynamo's components belong to the
templates. No scraper sets a package URL; redaction covers it all the same.
`Scrape` is the table of
scrapers per kind of `cmd/manager`. `up` is the order in which Go ranges over a
map in this scrape, and `Relist` gives the pods in another order.

## 3. Runs

Every bound is a constant used in guards; a bound counts how often the
environment does something, never how far the program gets.

| Run | Instance | Shows |
|---|---|---|
| `discovery` | 1 kind, 3 generations, 2 edits, 2 NoMatch answers, 1 failed read | types; `RemovedIsGone`, `LateIsAfterStart`, `RestingWorkerIsCurrent`; `CRDDiscovery` implements `CRDLifecycle` |
| `sup_life` | 1 kind, 2 generations, 1 change of the allowlist or 1 fault, fair | types; `SweepNeedsEvidence`, `MembershipFollowsPresence`, `WatchStartedOwed`; `ReadyIsServed` |
| `sup_runner` | 1 generation, 2 edits, 1 AIBOM write, 1 change of the allowlist or 1 fault | `SweepWithoutRunner`, `RestMeansApplied` |
| `workload` | 2 contents, 2 sinks, 2 incarnations, 1 change, 2 faults, threshold 2, fair | types; `HashMeansDelivered`, `QuietMeansReported`; `ReportedInTheEnd`; `WorkloadReconcile` implements `AIBOMLifecycle` |
| `config` | 3 specs (plain; restricted, with a Secret; rejected), 2 schemas, any 2 of 8 kinds of disturbance, 3 lists of sinks at a time, fair | types; `QuietMeansCurrent`, `SinksFollowSnapshot`, `DeliverySurvivesSwap`; `Settles`; `Configuration` implements `ConfigStore` |
| `rollup` | a DynamoComponentDeployment, its Deployment, ReplicaSet and pod; any 2 of 5 kinds of disturbance, fair | types; `NothingDisappears`, `OneWorkloadOneDocument`, `DocumentsFollowPods`; `ComesToRest` |
| `services` | observer: 2 workloads, 2 incarnations, 1 opt-out, clock to 4; verifier: 2 callers, 2 claims on one reference, 2 policies, 1 swap, 1 failure, 3 calls; sinks: both, 3 attempts, 2 rounds; pipeline: one workload per kind and combination of signals, cap 4 | types; `AnnouncementAhead`, `AnnouncedOnce`; `VerifiedIsEarned`, `OneVerificationAtATime`, `EveryClaimIsAnswered`; `ReportedIsDelivered`, `EmissionEnds`; `NothingSilentlyDropped`, `ConfidenceNotOverstated`, `RedactionComplete`, `DocumentIsStable` |
| `sup_removed_retired`, `workload_bootstrap`, `config_secret`, `rollup_outage`, `verifier_cache` | the smallest instance that shows it | a statement of the documentation that the code does not keep (section 6) |

Two properties are stated and proved without a run of their own, since a
refinement in the same run implies them: `StaleMeansPersistent` (by
`ImplementsLifecycle`: `Publish` and `Refresh` set Stale with the count) and
`OnlyDeletionReverts` (by `ImplementsStore`: `Revert`, `Retain`). Ten more
configurations show further disagreements with the documentation (section 6).

Why the bounds are enough. Kinds share nothing in discovery but the
supervisor's kick, and nothing in `apply()` but the goroutine that serves them
in turn, so one kind shows what can go wrong within a kind. Two generations are
one to run and one that comes and goes unseen, which the collapse of
`RemovedIsRetired` needs. One fault is enough to lose any one call, and the
proofs (section 5) remove the bounds for almost every safety property. In
`config` and `rollup` two disturbances are enough for one to overtake the
handling of the other. The chain of four objects is the longest real one below
a component. Three attempts of a sink have a first, a middle and a last one; a
cap of 4 is exceeded within one scraper, only by the merge, and by both. The
supervisor's runs each combine few kinds of disturbance (`MaxDisturbances` bounds
changes of the allowlist and faults together): all of them at once are beyond a run,
and for safety they are left to the proofs.
The workloads of the pipeline include one whose only signal is the reference to
an API key. The services share no state, so `MCServices` lets one of them
move in a behaviour (`topic`).

Deadlock is not checked except in `discovery`: elsewhere the environment may
stop, and a system with nothing to do is at rest. What rest means is what
`RestMeansApplied`, `QuietMeansReported`, `QuietMeansCurrent` and the three
properties of `rollup` say. In `discovery` the rest of the supervisor may
always poke a worker.

## 4. Fairness

`WatchSupervisor!Fairness` assumes that goroutines that can go on do so: the
apply loop, the discovery workers, the subscriber's kick, and the runner's
probe, backoff, sync and return. The code justifies it: each `select` has an
enabled case, reads and probes run under timeouts, and Go schedules runnable
goroutines. That an informer syncs on a CRD that is served is an assumption
on the API server. Nothing is assumed of CRDs, edits, the allowlist, ticks
and failures.

`WorkloadReconcile!FairSpec` assumes that the queue's worker, its timers, the
informer and the garbage collector run. `Configuration!FairSpec` assumes the
same of the configuration reconciler and its informer, and of the clock.
`OwnershipRollup!FairSpec` assumes only that the controller as a whole, its
informers included, goes on while it has something to do. `MCServices!Fairness`: a
call that entered the verifier, and an emission, run on, since their waits end
with a context; the fetch of the trusted root takes none
(`trustedMaterial`, with the mutex held) and is bounded by the TUF client. Calls may fail as often as the bounds allow; liveness is about what
happens when they stop failing.

## 5. Proofs

The theorems hold for every value of the constants: any kinds, objects, owner
references, specs, inputs, sinks, claims, thresholds and bounds. Every
invariant of the runs of section 3 that a prover without induction over data can
reach is a theorem; the exceptions are at the end of this section.

**Assumptions.** Only the named `ASSUME`s, which TLC evaluates in every run:

| Module | Assumed | Because |
|---|---|---|
| all | bounds, thresholds and periods are naturals, markers such as `NoHash`, `NoObs` and `Nil` are none of the values they stand beside | they are numbers, and nil, in the code |
| `ConfigLoader`, `Configuration` | `NilIsNoSelector`; the specs are of the type of the CR (`AIBOMControllerConfigSpec`) | the API server validates the CR against that schema |
| `Configuration` | `ClockResolution`: the 35 s of the closing are more ticks than the 30 s of a delivery | both are constants of the code; a coarser clock could not tell them apart |
| `OwnershipRollup` | `OwnersAreFinite`: going up controller references ends, and goes on as from the owner | an object has one controller reference, set to a UID that existed before it |
| `NamespaceObserver`, `SignatureVerifier` | finite sets of workloads and callers; some claim exists; the settle period is at most the longest wait | |

**Discovery** (`CRDDiscoveryProofs`): `DiscoveryTypeCorrect`,
`DiscoveryInvariant`, `RemovedStaysGone`, `LateMeansAfterStart`,
`RestingIsCurrent`, `DiscoveryImplementsLifecycle`. `RemovedIsGone` is not
inductive: it needs that what the worker read is not newer than what the API
server has given out (`got.uid <= top`), that a generation the worker tracks is
the one it published, and that a UID other than the present one is never handed
out again. The refinement rests on the same invariant: each worker action is a
transition of the lifecycle or a stutter, each API-server action a
`ServerStep`. `RestingIsCurrent` adds that a difference between the CRD and what
was published always has a poke, a retry or a read under way.

**Supervisor** (`WatchSupervisorProofs`): `SupervisorInvariant`,
`SupervisorTypeCorrect`, `SweepHasEvidence`, `SweepHasNoRunner`,
`MembershipIsPresence`, `StartIsOwed`, `RestIsApplied`,
`SupervisorIncludesDiscovery`, `SupervisorKeepsLifecycle`,
`ReadyAtRestIsServed`. Every step of the supervisor is a step of discovery or
leaves its variables alone, apart from pokes (`SupervisorIncludesDiscovery`), so
what is proved of discovery holds in the composition, the refinement included.
`SupervisorInv` then ties each stage of a pass to the decision that led there: a
pass that waits for a runner or sweeps still knows why, and what was Removed
stays gone while it waits. `RestIsApplied` needs that a kind whose observation
or allowance differs from what was applied has a kick pending or is still ahead
in the pass. `ReadyAtRestIsServed` joins this with `RestingIsCurrent`: from the
CRD in the API server to its runner, no wake-up is lost. It is the safety half of
`ReadyIsServed`, which adds that the runner syncs or that its failure is on record.

**Workload reconcile** (`WorkloadReconcileProofs`): `WorkloadInvariant`,
`WorkloadTypeCorrect`, `HashIsDelivered`, `StaleIsPersistent`,
`QuietIsReported`, `LifecycleInvariant`, `ReconcileImplementsLifecycle`. A
status exists in three places: in the API server, in the cache and in the reconcile in progress; a stale copy may be written back. The
invariant therefore says of all three that a hash was delivered, Stale has its
count and a failed sink has no hash. For `QuietIsReported` it adds that whatever
is not as the workload calls for has a cause of a later reconcile: an entry in
the queue, an event the cache has still to see, or a reconcile in progress whose
own copy of the inputs is current or which will be overtaken by a queued entry.

The refinement of `AIBOMLifecycle` asks more: a status is computed from a copy
that may be old, and must be a step of the document that is there when it is
written. `LifecycleInv` has four parts. `VersionInv`: the copy in the cache and
the one in the reconcile are versions the API server held, and one whose resource
version is the present one is the present object; a write that does not conflict
therefore replaces what its reconcile has read. `BuiltInv`: a status about to be
written is either the fast path's, made of the copy it will replace, or one of a
document that was built and, if it has a hash, accepted by every sink. `UidInv`
and `GenerationInv`: an AIBOM belongs to, and has observed, an incarnation the API
server has given out, and while a reconcile runs none later than the
reconcile's own; of one and the same incarnation it has observed no generation above the
reconcile's or the workload's. The queue runs one reconcile of a key at a time, so
what was observed, the incarnation `of` and its `gen`, does not go back, and an
adoption maps to `Adopt`: it never hands a document to an earlier incarnation. A step whose answer is lost maps to the
write, one whose request is lost to a stutter, a restart to a stutter.

**Configuration** (`ConfigurationProofs`): `ConfigTypeCorrect`,
`ConfigInvariant`, `RestTellsTheTruth`, `OpenSinksAreInUse`,
`DeliveryOutlivesSwap`, `OnlyDeletion`, `ConfigurationImplementsStore`,
`StoreIsUsable`. `ConfigInv` has a part per piece of
state: `FeedInv`, the events still to be delivered lead from the cached CR to
the one in the API server, and where two neighbours differ in what decides, the
predicates let the later one through; `LoadInv`, the snapshot is what some
version of the CR loads to; `ReadInv`, a reconcile that has read the CR again
writes the conditions of what it read; `RestInv`, what is out of date has a
request queued or an event coming; `SinkInv` and `EmitInv`, each open list of
sinks belongs to the snapshot or to one closing timer, and a delivery that began
in time ends before that timer. `LoadAndStoreSwaps` is the lemma the rest builds
on: a load ends in one of three ways (accepted, kept as last-known-good,
defaults).

The refinement of `ConfigStore` takes it up: an accepted load is `Accept`, because
the list of sinks it opens was not open; an invalid one is `Retain` or a stutter; a
missing CR is `Revert`. The stutter on defaults needs `DefaultsInv`, that a
snapshot labelled as the defaults is the defaults; a restart can be told from a
`Revert` because `lastObserved` is unknown until a reconcile has told what it found
(`fresh`). A timer that fires is `Close`:
were its list in use, `EmitInv` would give it time left and `SinkInv` no second
timer. A delivery is `BeginDelivery` when its list is still in effect and a
stutter when it is late. `StoreIsUsable` is proved of the abstract specification:
the sinks of the snapshot in effect and of a delivery that began on it are open.

**Roll-up** (`OwnershipRollupProofs`): `RollupTypeCorrect`, `RollupInvariant`,
`OneDocument`, `AbsorptionInvariant`, `NothingIsLost`, `FollowInvariant`,
`DocumentsKnowPods`, for every ownership graph.
`Owed(w)` says that `w` will be visited (queued, not yet shown by its informer, a
fan-out requested, waiting with the allowlist of now, or under way) or that a failed fan-out missed it. The
allowlist and the tracked kinds change only together with something that makes
every workload owed, so what an unowed reconcile left behind is current
(`RollupInv`); that a walk which found nothing passed no owner, and one which
found an owner read all the way up to it, is `WalkFacts`. `AbsorptionInv` adds
why a workload has no document: an owner absorbs it and the objects up to that
owner are there, or a tracked CRD on the way has gone and the supervisor has still
to retire it. `NothingIsLost` then takes the uppermost absorbing owner: without a
document it would have another above it.

`FollowInv` is about the contents of a document: what an unowed reconcile holds,
and the document it left, record every pod that can be followed up to the
workload and the tracked workloads between the two. The walk up (a pod event
wakes the nearest owner of each kind) and the list down (`rootDescendants`) are
different code; `FoundBelow` shows that what the one passes the other finds.
`CreateMakesNoWay` shows that only the pod itself can complete a way, since an
object is created after its owner, and `NewPodWakes` that its creation then
queues the workload or, when a read on the way fails, counts as missed. A change
of the tracked kinds changes the kinds that are listed, and requests a fan-out.

The property was restated for the proof. On an arbitrary graph it needs the
conditions `Follows` names (at most `rollupMaxDepth` hops, kinds that are listed on
the way, no nearer owner of the same kind: a pod under nested owners of one kind
wakes the lower one only), and that no list failed or lagged when the document was made (`partial`).
What happens without the last one is section 6's `DocumentsAreComplete`. Since a
cache shows an object after it exists, `NotShown` and `NotCached` say that what a
reconcile that is owed nothing misses is still to be observed, which owes it, and
`ObserveFrame` that an informer's step changes nothing else.

The proof of `NothingDisappears` corrected the property. As first stated it held
on the instance of `rollup`, which has a single third-party owner, and is false
on longer chains in two ways: a failed fan-out may miss the owner and not the
workload below (a Job under a CronJob), and a CRD in the middle of a chain may go
before the supervisor has tracked it, so that nobody re-enqueues what its objects
owned (section 6). The property names both, and besides them the two of an outage:
an owner tracked and unreadable before its first watch, and an owner whose
own request is still retried.

**Services.** `SinkDeliveryProofs` (`DeliveryTypeCorrect`, `ReportsAreTrue`):
what each sink's emission has recorded as its result has arrived, for the round
in progress. `SignatureVerifierProofs` (`VerifierTypeCorrect`,
`VerifiedEarned`, `OneAtATime`): a result in the cache, in a call in flight or
in the hands of a waiter is right for the policy of the verifier it belongs to,
which is the policy its caller loaded. `NamespaceObserverProofs`
(`ObserverTypeCorrect`, `AnnouncementIsAhead`, `PassAnnouncedOnce`): a pass that
was announced is over, and the ones with a timer are the observation in place.

**Only model-checked.** Liveness (`ReadyIsServed`, `ReportedInTheEnd`,
`Settles`, `ComesToRest`, `EveryClaimIsAnswered`, `EmissionEnds`), which is out
of the prover's reach. The properties of `BOMPipeline`, which are about folds
over lists of components and would need induction over them. `ServicesTypeOK`,
the conjunction of the services' types in `MCServices`; each part but the
pipeline's is a theorem of its own.

## 6. Where the code and its documentation disagree

Each of these is a run that TLC ends with a counterexample; `findings` in
`PROJECT.json` quotes the lines.

- `RemovedIsRetired`: a CRD is replaced and the replacement removed between two
  passes. `apply()` sees Removed under a UID it never acted on and keeps the
  first generation's watch, membership and documents.
- `BootstrapEnds`: the status write after the creation of the AIBOM is lost.
  Every later reconcile takes the bootstrap deferral. `ReportedInTheEnd` is
  what holds: it excludes exactly this state.
- `GoodSpecTakesEffect`: a Secret that cannot be read for a moment rejects the
  spec, and nothing tries it again.
- `SuppressionIsStable`: a child reconciled while its owner's kind cannot be
  read gets a document beside its owner's. `OneWorkloadOneDocument` is what
  holds: a failed read is the only excuse.
- `VerifiedMeansBound`: the verifier's cache key leaves out the claim's declared
  digest and identity, so a claim may get the result of another.

These are smaller. Each is a definition and a configuration beside the modules
with which TLC shows the counterexample, for instance
`tlc -config WorkloadReady.cfg MCWorkloadReconcile` (`Supervisor*.cfg` go with
`MCWatchSupervisor`, `ConfigStrictReadiness.cfg` with `MCConfiguration`,
`RollupLists.cfg` and `RollupLag.cfg` with `MCOwnershipRollup`, `Pipeline*.cfg`
with `MCServices`).

- `ErrorsAreConsecutive` (`WorkloadCount.cfg`): the count of errors is taken
  from the copy read before the build, and the status is written over the
  version `CreateOrUpdate` read: a document that had recovered goes from 0
  errors to 2. `StaleMeansPersistent` is what holds.
- `QuietMeansReady` (`WorkloadReady.cfg`): the fast path keeps the conditions,
  so a Ready set to False by a failed scrape or build stays after it has
  succeeded again on the same input.
- `PersistentMeansStale` (`WorkloadStale.cfg`): a scrape that fails for ever
  never makes the document Stale; only extraction errors of a scrape that
  succeeds do.
- `DisabledIsNeverDegraded` (`SupervisorDegraded.cfg`): a watch-error handler
  that runs after `disable` or `retire` makes the disabled kind Degraded.
- `ExcludedIsSwept` (`SupervisorSweep.cfg`): a write under way during the sweep
  of an excluded kind, or one the cache does not show, leaves an AIBOM behind.
- `FlagIsOfLastLoad` (`ConfigStrictReadiness.cfg`): a status write that fails
  returns before `lastObserved` is set, and `emitTransitionEvent` skips a state
  that equals the last one recorded: the flag of the strict readiness check is
  then not that of the last load.
- `DocumentsAreComplete` (`RollupLists.cfg`): a root reconciled while an
  intermediate kind cannot be listed gets a document without what is below that
  kind. The reconcile succeeds, and nothing repeats it when the kind can be read
  again. The same with `RollupLag.cfg` and no failure at all: the typed kinds are
  listed from informer caches, and when the reconcile that a pod's event woke runs
  before the cache shows the ReplicaSet above the pod, the pod is left out and no event is
  owed for it. `DocumentsFollowPods` is what holds.
- `KeysAreRedacted` (`PipelineKeys.cfg`): `dynamo.go:204` makes the name of a
  graph component part of the key of a property, and `redact.go:135` redacts values
  only, although `redact.go:27` speaks of every string of a document.
  `RedactionComplete` is what holds: of names, versions, package URLs, locators and
  values.
- `OnlyResolvedIsReported` (`PipelineUnresolved.cfg`): a workload whose only
  signal is an API key taken from a Secret has a component without a model
  behind it, and its document is `inferred` all the same (`agent.go:102`,
  `agent.go:174`, against `inference.go:266`). `ConfidenceNotOverstated`, which
  compares with resolved components only, is what holds.

Seen while modelling, without a property of their own:

- Supervisor. Mapping lag is reported, then the CRD goes away before it was ever
  Ready: the kind stays Degraded. A sweep that fails is not repeated. `Start`
  subscribes to the store and then records the set it loaded: a swap between the
  two is overwritten. The absence streak and the lag timer
  outlive a generation; a probe cancelled by `stopRunner` is recorded as an
  error just before the kind is disabled.
- Reconcile. A newly configured sink does not get documents whose hash is
  unchanged. The hash does not cover the UID of the workload: when a document was adopted,
  the status write after it was lost and the contents then change back, the
  fast path keeps a document that names the old incarnation.
- Configuration. A workload reconcile that loaded the old snapshot and emits
  late may find its sinks closed. An empty `namespaceSelector` matches every
  namespace. A CR deleted and re-created within a gap of the watch is filtered
  when the generation is the same.
- Roll-up. A CRD that goes before the supervisor tracked it takes its objects
  along and requests no fan-out; a workload below them that an owner further up
  had absorbed stays without a document until something else wakes it
  (`unnoticed`). Nothing re-absorbs a child reported during an outage when the outage
  ends. A child that was suppressed just before its owner's kind became unreadable
  has no document, and neither has the owner while its first reconcile is retried. An owner tracked but unreadable before its first watch starts
  suppresses its child without a document of its own. `rootDescendants` does
  not list DaemonSets, CronJobs or, of the third-party kinds, any but
  LeaderWorkerSets and DynamoComponentDeployments. A fan-out that fails or
  times out is not repeated. `Owns` reads the live store although the reconcile
  otherwise keeps to the snapshot it loaded.
- Services. A timer that outlived a `Forget` may announce the next pass early.
  The trust root is loaded once, so the epoch in the cache key never changes.
  A retry of a bucket write whose answer was lost ends in a precondition error
  although the object is there. `buildServices` does not redact the evidence
  locator, and the workload's name, namespace and the names of what it rolled up
  reach the document without redaction. `inference.spec` computes its confidence after its cap, and models
  sort last: more than 256 containers cut every model, the workload becomes
  unresolved and the truncation is not recorded. A leader and a worker container
  of the same name and image name get the majority digest of both. The comment
  of the DisaggregatedSet scraper lists all role metadata before all templates;
  the code takes them role by role.

## 7. Not modelled, and the plan

Not modelled for good: formatting and parsing of documents, summaries, image
references and annotations, metrics, logs, the kubectl plugin's output, flags
and server set-up in `cmd/manager`, HTTP, GCS, TUF and cryptography, generated
code and the v1alpha1 copy of the types.

Left out so far: the health of discovery itself and the informer gate, the
start of the supervisor, services in a document.

Worth adding next: discovery health with the supervisor's start, and an abstract
specification of the roll-up (each workload in one document) that
`OwnershipRollup` implements.
