--------------------------- MODULE Configuration ---------------------------
(***************************************************************************)
(* The configuration of the controller at run time: the singleton          *)
(* AIBOMControllerConfig and its informer, the reconciler that turns it    *)
(* into a Snapshot (internal/controller/aibomcontrollerconfig_reconciler.go), *)
(* the Store that hosts the Snapshot                                       *)
(* (internal/config/snapshot.go), and the external sinks of a Snapshot,    *)
(* which outlive it while a workload reconcile still delivers through them. *)
(*                                                                         *)
(* One reconcile is four steps, the places where another goroutine or the  *)
(* API server can come in between: load, swap and announce; read the CR    *)
(* again for its conditions; write the status.                             *)
(***************************************************************************)
EXTENDS ConfigLoader

CONSTANTS
  Specs,           \* the specs an operator may apply
  ExpectedFields,  \* expectedSpecFields(): the spec fields compiled in
  Schemas,         \* the spec schemas the API server may serve
  TickSeconds,     \* the length of a tick of the clock
  Disturbances,    \* what may happen to the controller, of AllDisturbances
  MaxDisturbances, \* bound: how many of them happen
  MaxBatches       \* bound: lists of sinks that exist at one time

\* Writes of the operator to the CR; changes of Secrets, namespaces, schema and
\* watch health; failed calls (not conflicts); restarts of the process;
\* workload reconciles that deliver through the sinks.
AllDisturbances == {"edit", "secret", "namespace", "schema", "health", "fault", "restart", "emit"}

ASSUME ConfigurationBounds ==
  /\ Specs \subseteq AIBOMControllerConfigSpec
  /\ TickSeconds \in Nat \ {0}
  /\ Disturbances \subseteq AllDisturbances /\ MaxDisturbances \in Nat
  /\ MaxBatches \in Nat \ {0}

VARIABLES
  cr,            \* the AIBOMControllerConfig in the API server
  feed,          \* versions of it the watch has still to deliver
  cached,        \* the version the informer cache holds
  secrets,       \* what each referenced Secret key holds
  namespace,     \* the label of the one namespace, or that it is terminating
  served,        \* the spec schema the API server serves
  degraded,      \* WatchHealth.Degraded() is not empty
  healthEvents,  \* the one-place channel of health transitions
  pending,       \* the work queue holds the singleton's request
  rec,           \* the Reconcile in progress
  lastObserved,  \* r.lastObserved
  store,         \* Store.current
  configInvalid, \* Store.configInvalid
  open,          \* the lists of sinks that are open
  drains,        \* the time.AfterFunc timers that will close a list
  emit,          \* a workload reconcile and its delivery
  spent          \* the number of disturbances so far

server == <<cr, feed, cached>>
world == <<secrets, namespace, served, degraded>>
stored == <<store, configInvalid, open, drains>>
vars == <<server, world, healthEvents, pending, rec, lastObserved, stored, emit, spent>>

-----------------------------------------------------------------------------
(* State *)

observedState == {"unknown", "missing", "valid", "invalid"}

NoStatus == [ready |-> Nil, degraded |-> Nil, optedIn |-> Nil, gen |-> 0]
Status == [ready : BOOLEAN \cup {Nil}, optedIn : BOOLEAN \cup {Nil}, gen : Nat,
           degraded : {Nil, "no", "SchemaPredatesController", "ThirdPartyWatchUnhealthy",
                       "RunningOnDefaults", "RunningOnLastKnownGood"}]
Absent == [exists |-> FALSE, gen |-> 0, touch |-> 0, spec |-> Nil, status |-> NoStatus]
Objects ==
  {Absent} \cup [exists : {TRUE}, gen : Nat, touch : Nat, spec : Specs, status : Status]

\* state, skew, listFailed: of the last load, kept when the reconcile is over.
\* status, conflict: what is about to be written, and that the read was stale.
reconcile == [pc : {"idle", "stored", "read"}, state : observedState,
              skew : SUBSET ExpectedFields, status : Status,
              conflict : BOOLEAN, listFailed : BOOLEAN]
NoReconcile == [pc |-> "idle", state |-> "unknown", skew |-> {}, status |-> NoStatus,
                conflict |-> FALSE, listFailed |-> FALSE]

\* A list of sinks is a number; 0 is the empty list.
Batches == 1..MaxBatches
\* late: the delivery began when the list was already to be closed.
delivery == [pc : {"idle", "loaded", "emitting"}, batch : 0..MaxBatches, left : Nat, late : BOOLEAN]
NoDelivery == [pc |-> "idle", batch |-> 0, left |-> 0, late |-> FALSE]

\* Durations in ticks: DefaultExternalSinkTimeout and the delay of the closing.
Ticks(seconds) == (seconds + TickSeconds - 1) \div TickSeconds
DefaultExternalSinkTimeout == 30
\* The clock of the model tells the two apart.
ASSUME ClockResolution == Ticks(35) > Ticks(30)
\* Mistake: closing waits for less than a delivery may take.
SinkCloseDelayShort == 5
SinkCloseDelay == 35

Snapshots == [source : {"config-cr", "compiled-defaults", "last-known-good"}, gen : Nat,
              selector : {"optin", "team", "everything"},
              kinds : [restricted : BOOLEAN, kinds : SUBSET KnownWorkloadKinds],
              patterns : SUBSET Nat,
              verification : {Nil, "public", "tufMirror", "staticBundle"},
              inline : MinInlineThresholdBytes..MaxInlineThresholdBytes,
              stale : Nat \ {0}, batch : 0..MaxBatches]
WithSinks(snapshot, batch) == [snapshot EXCEPT !.batch = batch]

ConfigTypeOK ==
  /\ cr \in Objects /\ cached \in Objects /\ feed \in Seq(Objects)
  /\ secrets \in [SecretRefs -> SecretState]
  /\ namespace \in {"plain", "optin", "team", "terminating"}
  /\ served \in Schemas
  /\ degraded \in BOOLEAN /\ healthEvents \in BOOLEAN
  /\ pending \in BOOLEAN /\ configInvalid \in BOOLEAN
  /\ rec \in reconcile
  /\ lastObserved \in observedState
  /\ store \in Snapshots
  /\ open \subseteq Batches
  /\ drains \subseteq [batch : Batches, left : 0..Ticks(SinkCloseDelay)]
  /\ emit \in delivery
  /\ spent \in 0..MaxDisturbances

\* A start of the process: NewStore with the defaults, the startup event queued.
ProcessInit ==
  /\ healthEvents = FALSE /\ pending = TRUE
  /\ rec = NoReconcile
  /\ lastObserved = "unknown"
  /\ store = DefaultSnapshot
  /\ configInvalid = FALSE
  /\ open = {} /\ drains = {}
  /\ emit = NoDelivery

Init ==
  /\ \E spec \in Specs :
       cr \in {Absent, [Absent EXCEPT !.exists = TRUE, !.gen = 1, !.spec = spec]}
  /\ feed = <<>> /\ cached = cr
  /\ secrets = [r \in SecretRefs |-> "good"]
  /\ namespace = "plain" /\ served \in Schemas /\ degraded = FALSE
  /\ ProcessInit
  /\ spent = 0

Spend(what) == what \in Disturbances /\ spent < MaxDisturbances /\ spent' = spent + 1

-----------------------------------------------------------------------------
(* The operator, the cluster and the API server *)

\* A write of the CR: the watch will deliver it, a status update under way
\* with an older version will conflict.
Write(object) ==
  /\ cr' = object
  /\ feed' = Append(feed, object)

\* metadata.generation counts spec changes and starts again with the object.
Operator ==
  /\ Spend("edit")
  /\ \/ \E spec \in Specs :
          \/ ~cr.exists /\ Write([Absent EXCEPT !.exists = TRUE, !.gen = 1, !.spec = spec])
          \/ cr.exists /\ cr.spec # spec /\ Write([cr EXCEPT !.gen = @ + 1, !.spec = spec])
     \/ cr.exists /\ Write([cr EXCEPT !.touch = @ + 1])
     \/ cr.exists /\ Write(Absent)
  /\ rec' = [rec EXCEPT !.conflict = @ \/ rec.pc = "read"]
  /\ UNCHANGED <<cached, world, healthEvents, pending, lastObserved, stored, emit>>

\* Nobody watches Secrets or the served schema.
SecretChanges ==
  /\ Spend("secret")
  /\ \E r \in SecretRefs, v \in {"good", "missing"} :
       v # secrets[r] /\ secrets' = [secrets EXCEPT ![r] = v]
  /\ UNCHANGED <<server, namespace, served, degraded, healthEvents, pending, rec, lastObserved,
                 stored, emit>>

SchemaChanges ==
  /\ Spend("schema")
  /\ served' \in Schemas \ {served}
  /\ UNCHANGED <<server, secrets, namespace, degraded, healthEvents, pending, rec, lastObserved,
                 stored, emit>>

\* Creations, deletions, label and phase changes of namespaces queue the singleton.
NamespaceChanges ==
  /\ Spend("namespace")
  /\ namespace' \in {"plain", "optin", "team", "terminating"} \ {namespace}
  /\ pending' = TRUE
  /\ UNCHANGED <<server, secrets, served, degraded, healthEvents, rec, lastObserved, stored, emit>>

\* The WatchHealth subscriber sends without blocking: a full channel drops it.
HealthChanges ==
  /\ Spend("health")
  /\ degraded' = ~degraded
  /\ healthEvents' = TRUE
  /\ UNCHANGED <<server, secrets, namespace, served, pending, rec, lastObserved, stored, emit>>

HealthSource ==
  /\ healthEvents /\ healthEvents' = FALSE /\ pending' = TRUE
  /\ UNCHANGED <<server, world, rec, lastObserved, stored, emit, spent>>

\* Mistake: every new version reloads, the reconciler's own status write too.
anyChangeReloads(old, new) == TRUE
\* A spec change bumps the generation, a status write changes neither field.
configChangeReloads(old, new) == old.gen # new.gen \/ old.touch # new.touch

\* The singleton's predicates, on the next version the watch delivers.
DeliverCR ==
  /\ feed # <<>>
  /\ LET new == Head(feed) IN
       /\ cached' = new /\ feed' = Tail(feed)
       /\ pending' = (\/ pending
                      \/ new.exists # cached.exists
                      \/ new.exists /\ cached.exists /\ configChangeReloads(cached, new))
  /\ UNCHANGED <<cr, world, healthEvents, rec, lastObserved, stored, emit, spent>>

-----------------------------------------------------------------------------
(* Reconcile *)

\* Loader.Load, on the cached CR and on Secrets read from the API server.
Load(secretsRead) ==
  IF cached.exists THEN parseSpec(cached.spec, cached.gen, secretsRead)
  ELSE [snapshot |-> DefaultSnapshot, errs |-> {}, sinks |-> {}]

classify(result) ==
  CASE result.errs # {} -> "invalid"
    [] result.errs = {} /\ result.snapshot.source = "compiled-defaults" -> "missing"
    [] OTHER -> "valid"

MarkAsLastKnownGood(snapshot) == [snapshot EXCEPT !.source = "last-known-good"]

\* Mistake: an invalid spec gives way to the defaults.
SnapshotAsLoaded(state, loaded) == loaded
\* An invalid spec keeps what is there, unless it is the defaults.
SnapshotToStore(state, loaded) ==
  CASE state = "invalid" /\ store.source = "config-cr" -> MarkAsLastKnownGood(store)
    [] state = "invalid" /\ store.source = "last-known-good" -> store
    [] OTHER -> loaded

\* Mistake: the list a last-known-good snapshot shares is closed too.
CloseSharedSinks(next) ==
  IF next = store \/ store.batch = 0 THEN {}
  ELSE {[batch |-> store.batch, left |-> Ticks(SinkCloseDelay)]}
\* The previous list of sinks is closed later, unless the new snapshot shares it.
CloseOldSinks(next) ==
  IF next = store \/ next.source = "last-known-good" \/ store.batch = 0 THEN {}
  ELSE {[batch |-> store.batch, left |-> Ticks(SinkCloseDelay)]}

\* emitTransitionEvent: what it leaves behind besides the events.
emitTransitionEvent(from, to) ==
  configInvalid' = IF from = to THEN configInvalid ELSE to = "invalid"

detectSchemaSkew == missingFields(ExpectedFields, servedSpecFields(served))

\* The list of sinks a load leaves open gets a number nobody uses.
Fresh == Batches \ (open \cup {emit.batch})

\* A load that succeeds is followed at once by the swap and by the events.  A
\* missing CR has no conditions, and the reconcile is over.
LoadAndStore(secretsRead, skew) ==
  LET result == Load(secretsRead)
      state == classify(result)
      batch == IF result.sinks = {} THEN 0 ELSE CHOOSE b \in Fresh : TRUE
      next == SnapshotToStore(state, WithSinks(result.snapshot, batch))
  IN /\ pending /\ pending' = FALSE
     /\ rec.pc = "idle"
     /\ result.sinks # {} => Fresh # {}
     /\ store' = next
     /\ drains' = drains \cup CloseOldSinks(next)
     /\ open' = open \cup ({batch} \ {0})
     /\ emitTransitionEvent(lastObserved, state)
     /\ rec' = [NoReconcile EXCEPT !.pc = IF state = "missing" THEN "idle" ELSE "stored",
                                   !.state = state, !.skew = skew]
     /\ lastObserved' = IF state = "missing" THEN state ELSE lastObserved
     /\ UNCHANGED <<server, world, healthEvents, emit>>

Reconcile == LoadAndStore(secrets, detectSchemaSkew) /\ UNCHANGED spent

\* The check of the schema fails, which counts as no skew.
ReconcileUnchecked == LoadAndStore(secrets, {}) /\ Spend("fault")

\* The read of a Secret fails.  It is a LoadError of the spec.
ReconcileSecretError ==
  /\ \E r \in SecretRefs : LoadAndStore([secrets EXCEPT ![r] = "error"], detectSchemaSkew)
  /\ Spend("fault")

\* The read of the CR fails: nothing changes, the request is tried again.
ReconcileLoadError ==
  /\ pending /\ rec.pc = "idle"
  /\ Spend("fault")
  /\ UNCHANGED <<server, world, healthEvents, pending, rec, lastObserved, stored, emit>>

\* Active namespaces that match the selector of the snapshot in effect.
optedInNamespaces(snapshot) ==
  /\ namespace # "terminating"
  /\ snapshot.selector \in {"everything", namespace}

DegradedReason ==
  CASE rec.state = "invalid" /\ store.source = "last-known-good" -> "RunningOnLastKnownGood"
    [] rec.state = "invalid" /\ store.source # "last-known-good" -> "RunningOnDefaults"
    [] rec.state = "valid" /\ rec.skew # {} -> "SchemaPredatesController"
    [] rec.state = "valid" /\ rec.skew = {} /\ degraded -> "ThirdPartyWatchUnhealthy"
    [] OTHER -> "no"

Done == [rec EXCEPT !.pc = "idle", !.status = NoStatus, !.conflict = FALSE]

\* updateConditions up to its write: the CR is read again from the cache.  A CR
\* that is gone by now ends the reconcile.
ReadConditions(listed) ==
  /\ rec.pc = "stored"
  /\ IF cached.exists
     THEN /\ rec' = [rec EXCEPT
               !.pc = "read",
               !.status = [ready |-> rec.state = "valid", degraded |-> DegradedReason,
                           optedIn |-> IF listed THEN optedInNamespaces(store)
                                       ELSE cached.status.optedIn,
                           gen |-> cached.gen],
               !.conflict = feed # <<>>,
               !.listFailed = ~listed]
          /\ UNCHANGED lastObserved
     ELSE /\ rec' = Done
          /\ lastObserved' = rec.state
  /\ UNCHANGED <<server, world, healthEvents, pending, stored, emit>>

updateConditions == ReadConditions(TRUE) /\ UNCHANGED spent
updateConditionsUnlisted == ReadConditions(FALSE) /\ Spend("fault")

\* Status().Update.  Every write is a new version: it carries the load time.
UpdateStatus ==
  /\ rec.pc = "read" /\ ~rec.conflict /\ cr.exists
  /\ Write([cr EXCEPT !.status = rec.status])
  /\ rec' = Done
  /\ lastObserved' = rec.state
  /\ UNCHANGED <<cached, world, healthEvents, pending, stored, emit,
                 spent>>

UpdateNotFound ==
  /\ rec.pc = "read" /\ ~cr.exists
  /\ rec' = Done
  /\ lastObserved' = rec.state
  /\ UNCHANGED <<server, world, healthEvents, pending, stored, emit,
                 spent>>

\* Mistake: the conflict ends the reconcile instead of queueing it again.
RequeueDropped ==
  /\ rec' = Done
  /\ UNCHANGED <<server, world, healthEvents, pending, lastObserved, stored, emit>>
\* A conflict, or another error: the request is queued again, and the state
\* that was announced is not remembered as observed.
Requeue ==
  /\ pending' = TRUE
  /\ rec' = Done
  /\ UNCHANGED <<server, world, healthEvents, lastObserved, stored, emit>>
UpdateConflict == rec.pc = "read" /\ rec.conflict /\ cr.exists /\ Requeue /\ UNCHANGED spent
UpdateError == rec.pc = "read" /\ Requeue /\ Spend("fault")

-----------------------------------------------------------------------------
(* Deliveries, the closing of sinks, the process *)

\* A workload reconcile holds the snapshot it loaded, whatever is swapped in.
WorkloadLoads ==
  /\ emit.pc = "idle" /\ store.batch # 0
  /\ Spend("emit")
  /\ emit' = [NoDelivery EXCEPT !.pc = "loaded", !.batch = store.batch]
  /\ UNCHANGED <<server, world, healthEvents, pending, rec, lastObserved, stored>>

EmitBegins ==
  /\ emit.pc = "loaded"
  /\ emit' = [emit EXCEPT !.pc = "emitting", !.left = Ticks(DefaultExternalSinkTimeout),
                          !.late = emit.batch # store.batch]
  /\ UNCHANGED <<server, world, healthEvents, pending, rec, lastObserved, stored, spent>>

\* Accepted, failed, or cut off by its deadline.
EmitEnds ==
  /\ emit.pc = "emitting"
  /\ emit' = NoDelivery
  /\ UNCHANGED <<server, world, healthEvents, pending, rec, lastObserved, stored, spent>>

\* A timer may fire at any time; one that runs beside a delivery is counted.
CloseSinks ==
  /\ \E d \in drains : /\ d.left = 0 \/ emit.pc # "emitting"
                       /\ drains' = drains \ {d}
                       /\ open' = open \ {d.batch}
  /\ UNCHANGED <<server, world, healthEvents, pending, rec, lastObserved, store, configInvalid,
                 emit, spent>>

\* Time is counted while a delivery is under way; one whose deadline has come
\* returns before the next tick.
Tick ==
  /\ emit.pc = "emitting" /\ emit.left > 0
  /\ drains' = {[d EXCEPT !.left = IF @ > 0 THEN @ - 1 ELSE 0] : d \in drains}
  /\ emit' = [emit EXCEPT !.left = @ - 1]
  /\ UNCHANGED <<server, world, healthEvents, pending, rec, lastObserved, store, configInvalid,
                 open, spent>>

\* The process ends and starts again: the informer lists, the rest is lost.
Restart ==
  /\ Spend("restart")
  /\ cached' = cr /\ feed' = <<>>
  /\ healthEvents' = FALSE /\ pending' = TRUE
  /\ rec' = NoReconcile
  /\ lastObserved' = "unknown"
  /\ store' = DefaultSnapshot
  /\ configInvalid' = FALSE
  /\ open' = {} /\ drains' = {}
  /\ emit' = NoDelivery
  /\ degraded' = FALSE
  /\ UNCHANGED <<cr, secrets, namespace, served>>

Controller ==
  \/ HealthSource \/ DeliverCR
  \/ Reconcile \/ updateConditions \/ UpdateStatus \/ UpdateNotFound \/ UpdateConflict
Process ==
  \/ EmitBegins \/ EmitEnds \/ CloseSinks \/ Tick
Faults ==
  \/ ReconcileUnchecked \/ ReconcileSecretError \/ ReconcileLoadError
  \/ updateConditionsUnlisted \/ UpdateError
Environment ==
  \/ Operator \/ SecretChanges \/ SchemaChanges \/ NamespaceChanges \/ HealthChanges
  \/ WorkloadLoads

Next == Controller \/ Process \/ Faults \/ Environment \/ Restart
Spec == Init /\ [][Next]_vars

\* The informer delivers: without that a conflicting update is repeated for
\* ever.  The worker goes on while it can, and so do deliveries and timers.
\* Nothing is assumed of faults.
FairSpec == Spec /\ WF_vars(DeliverCR) /\ WF_vars(Controller) /\ WF_vars(Process)

-----------------------------------------------------------------------------
(* Properties *)

\* Nothing is queued, unseen or under way that would make the reconciler act.
Quiet == ~pending /\ rec.pc = "idle" /\ feed = <<>> /\ ~healthEvents

\* When the reconciler rests, the CR tells the truth about the snapshot in
\* effect: the conditions are of the current generation, Ready exactly when the
\* snapshot is this spec, Degraded for the reason that holds, NamespacesOptedIn
\* as the namespaces are; and without a CR the defaults are in effect.  No
\* conflict, failed call, late event or dropped health event may break this
\* (updateConditions, the requeue on its errors, the predicates and the sources).
QuietMeansCurrent ==
  Quiet =>
    IF cr.exists
    THEN /\ cr.status.gen = cr.gen
         /\ cr.status.ready = (store.source = "config-cr")
         /\ store.source = "config-cr" =>
              /\ store.gen = cr.gen
              /\ EqualKinds(store.kinds, parseWorkloadKinds(cr.spec.workloadKinds).set)
         /\ cr.status.degraded = DegradedReason
         /\ rec.listFailed \/ cr.status.optedIn = optedInNamespaces(store)
    ELSE store = DefaultSnapshot

\* The sinks that are open and not about to be closed are those of the snapshot
\* in effect: a snapshot kept as last-known-good keeps its sinks, a rejected
\* spec leaves none behind, a replaced one is on its way to be closed (the close
\* of discarded sinks in parseSpec, retainSinks in Reconcile).
SinksFollowSnapshot ==
  open \ {d.batch : d \in drains} = {store.batch} \ {0}

\* A delivery that was under way when its snapshot was replaced is over before
\* its sinks are closed: the closing waits longer than a delivery may take.
DeliverySurvivesSwap ==
  emit.pc = "emitting" /\ ~emit.late => emit.batch \in open

\* While the process lives, the operator's configuration gives way to the
\* defaults only because the CR is gone; an invalid spec changes nothing of it
\* but its label (SnapshotToStore, MarkAsLastKnownGood).
OnlyDeletionReverts ==
  [][lastObserved' # "unknown" =>
       /\ store.source # "compiled-defaults" /\ store'.source = "compiled-defaults"
            => ~cached.exists
       /\ store'.source = "last-known-good"
            => store' = [store EXCEPT !.source = "last-known-good"]]_vars

\* What the users of the store see of all this: loads, conflicts, retries, timers
\* and restarts appear as swaps of whole snapshots that the CR in the cache
\* accounts for, and a list of sinks is closed when it is neither in effect nor
\* used by a delivery that began while it was (SnapshotToStore,
\* CloseOldSinks, CloseSinks, Restart).
S == INSTANCE ConfigStore WITH
       Default <- DefaultSnapshot, active <- store, fresh <- lastObserved = "unknown",
       seen <- [exists |-> cached.exists, gen |-> cached.gen],
       inUse <- IF emit.pc = "emitting" /\ ~emit.late THEN emit.batch ELSE 0
ImplementsStore == S!SSpec

\* The reconciler comes to rest: its own status writes, conflicts and retries do
\* not keep it busy once the operator and the cluster are still.
Settles == <>[]Quiet

\* A spec that can be loaded, of a CR that stays, comes into effect: a failed
\* read of the API server is tried again ("API error -> Go error returned (caller
\* retries)", internal/config/loader.go:45).
GoodSpecTakesEffect ==
  <>[](cr.exists /\ parseSpec(cr.spec, cr.gen, secrets).errs = {})
    => <>[](store.source = "config-cr")

\* "ConfigInvalid reports whether the most recent config load found an invalid
\* CR" (Store, internal/config/snapshot.go:171), which the strict readiness check
\* reads: once the reconciler rests, the flag is that of its last load.
FlagIsOfLastLoad ==
  Quiet /\ rec.state # "unknown" => (configInvalid <=> rec.state = "invalid")
=============================================================================
