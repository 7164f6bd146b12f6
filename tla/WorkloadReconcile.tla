------------------------- MODULE WorkloadReconcile -------------------------
(***************************************************************************)
(* The kind-neutral reconcile of one workload                              *)
(* (internal/controller/workload_reconciler.go, status.go, and the         *)
(* Reconcile and SetupWithManager of the per-kind controllers): from a     *)
(* queued key to the AIBOM object in the API server and the documents the  *)
(* external sinks accepted.                                                *)
(*                                                                         *)
(* The reconciler reads AIBOMs from an informer cache that lags and writes *)
(* them to the API server with optimistic locking, so every decision may   *)
(* rest on an older version of the object than the one it overwrites.      *)
(* The work queue runs one reconcile of a key at a time; everything else   *)
(* (changes of the workload, of the configuration, of the AIBOM, the       *)
(* cache, the garbage collector, a restart) interleaves between its calls. *)
(***************************************************************************)
EXTENDS Integers, FiniteSets

CONSTANTS Inputs,          \* contents of BOMInputs that differ in their hash
          Sinks,           \* the external sinks that may be configured
          Causes,          \* reasons to leave a workload out
          StaleThreshold,  \* snap.StaleThresholdReconciles
          MaxUid,          \* bound: incarnations of the workload
          MaxChanges,      \* bound: other changes of the environment
          MaxFaults        \* bound: failed calls and restarts

\* The empty InputHash.
NoHash == "none"

ASSUME WorkloadAssumption ==
  /\ StaleThreshold \in Nat \ {0} /\ MaxUid \in Nat /\ MaxChanges \in Nat /\ MaxFaults \in Nat
  /\ NoHash \notin Inputs /\ "unresolved" \notin Inputs

VARIABLES
  wl,         \* the workload as its informer has it
  env,        \* the configuration snapshot, namespace and owner of the workload
  aibom,      \* the AIBOM object in the API server
  cache,      \* the AIBOM as the informer cache has it
  pending,    \* an AIBOM has appeared or disappeared since the cache was current
  rev,        \* the API server's revision counter
  queue,      \* the work queue's entry of this key
  rec,        \* the reconcile in progress: where it is and what it has read
  delivered,  \* delivered[s]: the contents sink s has accepted
  used        \* how much of the bounds above has been used

vars == <<wl, env, aibom, cache, pending, rev, queue, rec, delivered, used>>

-----------------------------------------------------------------------------
(* The objects *)

\* What a scrape of the workload yields: its content, or no signal at all
\* (ConfidenceUnresolved), and whether it reports extraction errors.
Content == [in : Inputs \cup {"unresolved"}, errs : BOOLEAN]

\* HashBOMInputs covers everything but timestamps and extraction errors.
HashBOMInputs(c) == c.in

\* The work queue keeps one entry of the key: handed out now, or when the
\* timer of a requeue fires.
QueueEntry == {"none", "later", "now"}

\* uid 0: the workload does not exist.
Workload == [uid : Nat, gen : Nat, content : Content]
NoWorkload == [uid |-> 0, gen |-> 0, content |-> [in |-> "unresolved", errs |-> FALSE]]

\* excluded: the namespace is not opted in, the kind is not allowed, or a
\* tracked kind owns the workload.
Environment == [excluded : SUBSET Causes, sinks : SUBSET Sinks]

\* AIBOMStatus: reconciled is LastReconciled # nil; Synced is ~sinkFailed;
\* errors is ConsecutiveErrors, counted up to the threshold; sinks (history)
\* are the sinks of the snapshot the hash was computed under; of (history) is
\* the incarnation of the workload whose generation gen is.
AIBOMStatus ==
  [reconciled : BOOLEAN, hash : Inputs \cup {NoHash}, of : Nat, gen : Nat,
   ready : BOOLEAN, sinkFailed : BOOLEAN, errors : 0..StaleThreshold, stale : BOOLEAN, sinks : SUBSET Sinks]
NoStatus ==
  [reconciled |-> FALSE, hash |-> NoHash, of |-> 0, gen |-> 0, ready |-> FALSE,
   sinkFailed |-> FALSE, errors |-> 0, stale |-> FALSE, sinks |-> {}]

\* born is the revision of the creation, 0 when there is no such object.
AIBOM == [born : Nat, rv : Nat, owner : Nat, st : AIBOMStatus]
NoAIBOM == [born |-> 0, rv |-> 0, owner |-> 0, st |-> NoStatus]
Exists(a) == a.born # 0

\* snap, uid, gen, content are read at the start; obj is the object the
\* status will be written to; st the status that will be written.
Reconcile ==
  [pc : {"idle", "delete", "lookup", "emit", "create", "status"},
   uid : Nat, gen : Nat, content : Content, sinks : SUBSET Sinks,
   obj : AIBOM, st : AIBOMStatus]
NoReconcile ==
  [pc |-> "idle", uid |-> 0, gen |-> 0, content |-> NoWorkload.content, sinks |-> {},
   obj |-> NoAIBOM, st |-> NoStatus]

TypeOK ==
  /\ wl \in Workload
  /\ env \in Environment
  /\ aibom \in AIBOM /\ cache \in AIBOM
  /\ pending \in BOOLEAN /\ rev \in Nat
  /\ queue \in QueueEntry
  /\ rec \in Reconcile
  /\ delivered \in [Sinks -> SUBSET Inputs]
  /\ used \in [uids : Nat, changes : Nat, faults : Nat]

\* The manager starts in any cluster without an AIBOM of this workload; a
\* restart in the middle of anything is the action Restart.
Init ==
  /\ wl \in {NoWorkload} \cup {[uid |-> 1, gen |-> 1, content |-> c] : c \in Content}
  /\ env \in [excluded : {{}} \cup {{c} : c \in Causes}, sinks : {{}, Sinks}]
  /\ aibom = NoAIBOM /\ cache = NoAIBOM /\ pending = FALSE /\ rev = 0
  /\ queue = "now"
  /\ rec = NoReconcile
  /\ delivered = [s \in Sinks |-> {}]
  /\ used = [uids |-> wl.uid, changes |-> 0, faults |-> 0]

-----------------------------------------------------------------------------
(* The environment.  Informer events queue the key (SetupWithManager). *)

\* An event overtakes the timer of a requeue, which is gone with it.
Enqueue == queue' = "now"
Change ==
  /\ used.changes < MaxChanges
  /\ used' = [used EXCEPT !.changes = @ + 1]
Fault ==
  /\ used.faults < MaxFaults
  /\ used' = [used EXCEPT !.faults = @ + 1]

CreateWorkload ==
  /\ wl.uid = 0 /\ used.uids < MaxUid
  /\ used' = [used EXCEPT !.uids = @ + 1]
  /\ \E c \in Content : wl' = [uid |-> used.uids + 1, gen |-> 1, content |-> c]
  /\ Enqueue
  /\ UNCHANGED <<env, aibom, cache, pending, rev, rec, delivered>>

DeleteWorkload ==
  /\ wl.uid # 0 /\ Change
  /\ wl' = NoWorkload
  /\ Enqueue
  /\ UNCHANGED <<env, aibom, cache, pending, rev, rec, delivered>>

\* The spec changes (a new generation), or only the pods' image digests do.
WorkloadChanges ==
  /\ wl.uid # 0 /\ Change
  /\ \E c \in Content \ {wl.content}, g \in {wl.gen, wl.gen + 1} :
       wl' = [wl EXCEPT !.content = c, !.gen = g]
  /\ Enqueue
  /\ UNCHANGED <<env, aibom, cache, pending, rev, rec, delivered>>

\* A namespace label, the allowlist or the owner changes: each has a watch
\* or a fan-out that queues the workloads concerned.
ExclusionChanges ==
  /\ Change
  /\ \E S \in SUBSET Causes : S # env.excluded /\ env' = [env EXCEPT !.excluded = S]
  /\ Enqueue
  /\ UNCHANGED <<wl, aibom, cache, pending, rev, rec, delivered>>

\* The configured sinks are hot-reloaded; no workload is queued for it.
SinksChange ==
  /\ Change
  /\ \E S \in SUBSET Sinks : S # env.sinks /\ env' = [env EXCEPT !.sinks = S]
  /\ UNCHANGED <<wl, aibom, cache, pending, rev, queue, rec, delivered>>

\* An AIBOM appears (a # NoAIBOM) or disappears: an event for its informer.
StoreAIBOM(a) == aibom' = a /\ pending' = (pending \/ a.born # aibom.born)

\* Someone deletes the AIBOM.
RemoveAIBOM ==
  /\ Exists(aibom) /\ Change
  /\ StoreAIBOM(NoAIBOM)
  /\ UNCHANGED <<wl, env, cache, rev, queue, rec, delivered>>

\* The garbage collector deletes an AIBOM whose owner is gone.
GarbageCollect ==
  /\ Exists(aibom) /\ aibom.owner # wl.uid
  /\ StoreAIBOM(NoAIBOM)
  /\ UNCHANGED <<wl, env, cache, rev, queue, rec, delivered, used>>

\* The AIBOM informer catches up.  Its events pass the filter
\* GenerationChangedPredicate only when the object appears or disappears:
\* a write of the status queues nothing.
CacheSync ==
  /\ cache # aibom \/ pending
  /\ cache' = aibom /\ pending' = FALSE
  /\ IF pending THEN Enqueue ELSE UNCHANGED queue
  /\ UNCHANGED <<wl, env, aibom, rev, rec, delivered, used>>

TimerFires ==
  /\ queue = "later"
  /\ queue' = "now"
  /\ UNCHANGED <<wl, env, aibom, cache, pending, rev, rec, delivered, used>>

\* The process dies; its successor lists everything afresh.
Restart ==
  /\ Fault
  /\ rec' = NoReconcile
  /\ cache' = aibom /\ pending' = FALSE
  /\ queue' = "now"
  /\ UNCHANGED <<wl, env, aibom, rev, delivered>>

Environs ==
  \/ CreateWorkload \/ DeleteWorkload \/ WorkloadChanges \/ ExclusionChanges
  \/ SinksChange \/ RemoveAIBOM \/ GarbageCollect \/ CacheSync \/ TimerFires \/ Restart

-----------------------------------------------------------------------------
(* The status a reconcile writes (StatusBuilder, recordExtractionErrors) *)

\* Extraction errors are counted from what the AIBOM already carries; a
\* cycle without them resets the count and clears Stale.
recordExtractionErrors(st, prev, errs) ==
  LET n == IF prev < StaleThreshold THEN prev + 1 ELSE prev IN
  IF errs THEN [st EXCEPT !.errors = n, !.stale = @ \/ n = StaleThreshold]
          ELSE [st EXCEPT !.errors = 0, !.stale = FALSE]

\* Mutant: the hash is persisted although a sink failed.
BuildStatusHashed(r, failed) ==
  recordExtractionErrors(
    [reconciled |-> TRUE, hash |-> HashBOMInputs(r.content), of |-> r.uid, gen |-> r.gen,
     ready |-> TRUE, sinkFailed |-> failed # {}, errors |-> 0, stale |-> FALSE,
     sinks |-> r.sinks],
    r.obj.st.errors, r.content.errs)

\* The full path.  The hash is not persisted when a sink failed, so that the
\* next reconcile emits again.
BuildStatus(r, failed) ==
  recordExtractionErrors(
    [reconciled |-> TRUE, hash |-> IF failed = {} THEN HashBOMInputs(r.content) ELSE NoHash,
     of |-> r.uid, gen |-> r.gen, ready |-> TRUE, sinkFailed |-> failed # {},
     errors |-> 0, stale |-> FALSE, sinks |-> r.sinks],
    r.obj.st.errors, r.content.errs)

\* The dedup fast path keeps everything but LastReconciled and
\* ObservedGeneration, the conditions included.
BuildFastPathStatus(r, prev) ==
  recordExtractionErrors([prev EXCEPT !.reconciled = TRUE, !.of = r.uid, !.gen = r.gen],
                         prev.errors, r.content.errs)

-----------------------------------------------------------------------------
(* The reconcile, one step for each call that can be overtaken. *)

Done == rec' = NoReconcile /\ UNCHANGED queue
\* An error, a conflict and RequeueAfter all queue the key again later, or
\* leave the entry an event has made meanwhile.
Retry == rec' = NoReconcile /\ queue' = IF queue = "none" THEN "later" ELSE queue

\* Mutant: a status is written over whatever version there is.
MatchesAny(a) == Exists(aibom)

\* The status subresource is written to the version that was read.
Matches(a) == Exists(aibom) /\ a.rv = aibom.rv
StoreStatus(st) ==
  /\ aibom' = [aibom EXCEPT !.rv = rev + 1, !.st = st]
  /\ rev' = rev + 1

Dequeue == rec.pc = "idle" /\ queue = "now" /\ queue' = "none"

\* The workload is gone: the garbage collector takes care of the AIBOM.
WorkloadNotFound ==
  /\ Dequeue /\ wl.uid = 0
  /\ UNCHANGED <<wl, env, aibom, cache, pending, rev, rec, delivered, used>>

\* Mutant: a workload without a signal is not left out.
BeginReconcileUnresolved ==
  /\ Dequeue /\ wl.uid # 0
  /\ rec' = [NoReconcile EXCEPT !.pc = IF env.excluded # {} THEN "delete" ELSE "lookup",
       !.uid = wl.uid, !.gen = wl.gen, !.content = wl.content, !.sinks = env.sinks]
  /\ UNCHANGED <<wl, env, aibom, cache, pending, rev, delivered, used>>

\* The configuration is loaded once; the exclusions come first, and a
\* workload without a signal (after the scrape) is left out as well.
BeginReconcile ==
  /\ Dequeue /\ wl.uid # 0
  /\ rec' = [NoReconcile EXCEPT
       !.pc = IF env.excluded # {} \/ wl.content.in = "unresolved" THEN "delete" ELSE "lookup",
       !.uid = wl.uid, !.gen = wl.gen, !.content = wl.content, !.sinks = env.sinks]
  /\ UNCHANGED <<wl, env, aibom, cache, pending, rev, delivered, used>>

\* A read of the workload, its pods or its namespace fails.
ReadFails ==
  /\ rec.pc = "idle" /\ queue = "now" /\ Fault
  /\ queue' = "later"
  /\ UNCHANGED <<wl, env, aibom, cache, pending, rev, rec, delivered>>

\* deleteWorkloadAIBOM: what the cache does not have is not deleted, and
\* what the API server does not have any more is no error.
DeleteWorkloadAIBOM ==
  /\ rec.pc = "delete"
  /\ StoreAIBOM(IF Exists(cache) THEN NoAIBOM ELSE aibom)
  /\ Done
  /\ UNCHANGED <<wl, env, cache, rev, delivered, used>>

DeleteFails ==
  /\ rec.pc = "delete" /\ Exists(cache) /\ Fault
  /\ \E a \in {aibom, NoAIBOM} : StoreAIBOM(a)      \* the answer may be what was lost
  /\ Retry
  /\ UNCHANGED <<wl, env, cache, rev, delivered>>

\* persistFailureStatus, on an existing AIBOM; its own failures are ignored.
persistFailureStatus ==
  IF Exists(cache) /\ Matches(cache)
  THEN StoreStatus([cache.st EXCEPT !.ready = FALSE,
                      !.errors = IF @ < StaleThreshold THEN @ + 1 ELSE @])
  ELSE UNCHANGED <<aibom, rev>>

\* The scrape of a workload that is not excluded fails; whatever happens
\* while it runs might as well happen before.
ScrapeFails ==
  /\ rec.pc = "idle" /\ queue = "now" /\ wl.uid # 0 /\ env.excluded = {} /\ Fault
  /\ persistFailureStatus
  /\ queue' = "later"
  /\ UNCHANGED <<wl, env, cache, pending, rec, delivered>>

\* The three ways on from the lookup of the existing AIBOM.
FastPath ==
  /\ rec.pc = "lookup"
  /\ Exists(cache) /\ cache.st.hash = HashBOMInputs(rec.content)
  /\ rec' = [rec EXCEPT !.pc = "status", !.obj = cache, !.st = BuildFastPathStatus(rec, cache.st)]
  /\ UNCHANGED <<wl, env, aibom, cache, pending, rev, queue, delivered, used>>

\* Mutant: the deferral waits for an event of the status write.
DeferWithoutRequeue ==
  /\ rec.pc = "lookup"
  /\ Exists(cache) /\ cache.st.hash # HashBOMInputs(rec.content) /\ ~cache.st.reconciled
  /\ Done
  /\ UNCHANGED <<wl, env, aibom, cache, pending, rev, delivered, used>>

\* Mutant: the deferral waits for a hash, not for a first status.
DeferUnhashed ==
  /\ rec.pc = "lookup"
  /\ Exists(cache) /\ cache.st.hash = NoHash
  /\ Retry
  /\ UNCHANGED <<wl, env, aibom, cache, pending, rev, delivered, used>>

\* "the prior reconcile is doing the work".
DeferBootstrap ==
  /\ rec.pc = "lookup"
  /\ Exists(cache) /\ cache.st.hash # HashBOMInputs(rec.content) /\ ~cache.st.reconciled
  /\ Retry
  /\ UNCHANGED <<wl, env, aibom, cache, pending, rev, delivered, used>>

FullPath ==
  /\ rec.pc = "lookup"
  /\ Exists(cache) => cache.st.hash # HashBOMInputs(rec.content) /\ cache.st.reconciled
  /\ rec' = [rec EXCEPT !.pc = "emit", !.obj = cache]
  /\ UNCHANGED <<wl, env, aibom, cache, pending, rev, queue, delivered, used>>

BuildFails ==
  /\ rec.pc = "emit" /\ Fault
  /\ persistFailureStatus
  /\ Retry
  /\ UNCHANGED <<wl, env, cache, pending, delivered>>

\* emitToExternalSinks waits for all sinks; each fails or succeeds by itself.
EmitToExternalSinks ==
  /\ rec.pc = "emit"
  /\ \E failed \in SUBSET rec.sinks :
       /\ IF failed = {} THEN UNCHANGED used ELSE Fault
       /\ delivered' = [s \in Sinks |-> IF s \in rec.sinks \ failed
                          THEN delivered[s] \cup {HashBOMInputs(rec.content)} ELSE delivered[s]]
       /\ rec' = [rec EXCEPT !.pc = "create", !.st = BuildStatus(rec, failed)]
  /\ UNCHANGED <<wl, env, aibom, cache, pending, rev, queue>>

NewAIBOM == [born |-> rev + 1, rv |-> rev + 1, owner |-> rec.uid, st |-> NoStatus]

\* CreateOrUpdate reads the cache again.  The spec it sets is the same for
\* every document of a workload, so an object of this incarnation is left
\* alone; SetControllerReference compares owners by kind and name only, so
\* one of an earlier incarnation that the garbage collector has not taken yet
\* changes its owner and keeps its status.  Such an update leaves the
\* object's generation as it is: the informer queues nothing for it.
CreateAIBOM ==
  /\ rec.pc = "create" /\ ~Exists(cache) /\ ~Exists(aibom)
  /\ StoreAIBOM(NewAIBOM) /\ rev' = rev + 1
  /\ rec' = [rec EXCEPT !.pc = "status", !.obj = NewAIBOM]
  /\ UNCHANGED <<wl, env, cache, queue, delivered, used>>

KeepAIBOM ==
  /\ rec.pc = "create" /\ Exists(cache) /\ cache.owner = rec.uid
  /\ rec' = [rec EXCEPT !.pc = "status", !.obj = cache]
  /\ UNCHANGED <<wl, env, aibom, cache, pending, rev, queue, delivered, used>>

\* The leftover under its new owner.
AdoptedAIBOM == [aibom EXCEPT !.rv = rev + 1, !.owner = rec.uid]
Foreign(a) == Exists(a) /\ a.owner # rec.uid

AdoptAIBOM ==
  /\ rec.pc = "create" /\ Foreign(cache) /\ Matches(cache)
  /\ StoreAIBOM(AdoptedAIBOM) /\ rev' = rev + 1
  /\ rec' = [rec EXCEPT !.pc = "status", !.obj = AdoptedAIBOM]
  /\ UNCHANGED <<wl, env, cache, queue, delivered, used>>

\* AlreadyExists or a conflict behind a cache that lags, or the call fails
\* (after it took effect, perhaps).
CreateFails ==
  /\ rec.pc = "create"
  /\ \/ ~Exists(cache) /\ Exists(aibom) /\ UNCHANGED <<aibom, pending, rev, used>>
     \/ Foreign(cache) /\ ~Matches(cache) /\ UNCHANGED <<aibom, pending, rev, used>>
     \/ /\ ~Exists(cache) /\ ~Exists(aibom) /\ Fault
        /\ \E a \in {aibom, NewAIBOM} : StoreAIBOM(a)
        /\ rev' = rev + 1
     \/ /\ Foreign(cache) /\ Matches(cache) /\ Fault
        /\ \E a \in {aibom, AdoptedAIBOM} : StoreAIBOM(a)
        /\ rev' = rev + 1
  /\ Retry
  /\ UNCHANGED <<wl, env, cache, delivered>>

UpdateStatus ==
  /\ rec.pc = "status" /\ Matches(rec.obj)
  /\ StoreStatus(rec.st)
  /\ IF rec.st.hash = NoHash THEN Retry ELSE Done      \* SinkRetryRequeueAfter
  /\ UNCHANGED <<wl, env, cache, pending, delivered, used>>

\* A conflict, the AIBOM is gone, or the call fails (after it took effect,
\* perhaps).
StatusFails ==
  /\ rec.pc = "status"
  /\ \/ ~Matches(rec.obj) /\ UNCHANGED <<aibom, rev, used>>
     \/ Matches(rec.obj) /\ Fault /\ (StoreStatus(rec.st) \/ UNCHANGED <<aibom, rev>>)
  /\ Retry
  /\ UNCHANGED <<wl, env, cache, pending, delivered>>

ReconcileStep ==
  \/ WorkloadNotFound \/ BeginReconcile \/ DeleteWorkloadAIBOM \/ FastPath \/ DeferBootstrap
  \/ FullPath \/ EmitToExternalSinks \/ CreateAIBOM \/ KeepAIBOM \/ AdoptAIBOM
  \/ UpdateStatus \/ CreateFails \/ StatusFails

Failures == ReadFails \/ DeleteFails \/ ScrapeFails \/ BuildFails

Next == Environs \/ ReconcileStep \/ Failures

Spec == Init /\ [][Next]_vars

\* The queue's worker, the timers, the informer and the garbage collector
\* run; nothing is assumed of sinks, calls and the environment, whose
\* failures the bounds make finite.
FairSpec ==
  /\ Spec
  /\ WF_vars(ReconcileStep) /\ WF_vars(TimerFires) /\ WF_vars(CacheSync) /\ WF_vars(GarbageCollect)

-----------------------------------------------------------------------------
(* Properties *)

\* The workload is one that gets a document.
Reported == wl.uid # 0 /\ env.excluded = {} /\ wl.content.in # "unresolved"

\* The sink-retry contract: a persisted input hash, which sends later
\* reconciles down the fast path, means that every sink configured for that
\* reconcile has accepted the document; through conflicts, lost answers,
\* restarts and stale reads.
HashMeansDelivered ==
  aibom.st.hash # NoHash => \A s \in aibom.st.sinks : aibom.st.hash \in delivered[s]

\* No event is lost: when nothing is queued or timed and the cache has
\* caught up, a reported workload has its AIBOM, up to date and its own, and
\* any other workload has none.  An AIBOM adopted from an earlier incarnation
\* is no exception: its generation is one of this incarnation.
QuietMeansReported ==
  /\ rec.pc = "idle" /\ queue = "none" /\ cache = aibom /\ ~pending
  /\ Exists(aibom) => aibom.owner = wl.uid
  => IF Reported
     THEN /\ Exists(aibom) /\ aibom.st.hash = HashBOMInputs(wl.content)
          /\ aibom.st.of = wl.uid /\ aibom.st.gen = wl.gen /\ ~aibom.st.sinkFailed
          /\ aibom.st.stale => wl.content.errs
     ELSE ~Exists(aibom)

\* Stale is set only by errors that persisted, and cleared with them, on
\* both paths (recordExtractionErrors).
StaleMeansPersistent == aibom.st.stale => aibom.st.errors = StaleThreshold

\* What a reader of the API server and of the sinks sees of all this: every
\* write of a status is one step from the document as it is, although what
\* it is computed from was read from a cache that lags, and a call whose
\* answer was lost is repeated.  No write revives a replaced version, takes
\* back what was observed of an incarnation, gives a document back to an
\* earlier incarnation or shows a hash its sinks have not seen; only the
\* error count of a newly built document may be an older document's.
L == INSTANCE AIBOMLifecycle WITH
       uid <- wl.uid, gen <- wl.gen, last <- used.uids,
       doc <- [owner |-> aibom.owner, st |-> aibom.st]
ImplementsLifecycle == L!LSpec

\* The AIBOM is of this incarnation of the workload and of its content.
UpToDate == Exists(aibom) /\ aibom.owner = wl.uid /\ aibom.st.hash = HashBOMInputs(wl.content)

\* "ConsecutiveErrors counts how many consecutive reconciles have produced
\* extraction errors": a write over an earlier status counts one more, starts
\* again or leaves the count as it is.
ErrorsAreConsecutive ==
  [][aibom.st.reconciled /\ aibom'.born = aibom.born =>
       aibom'.st.errors \in {0, aibom.st.errors, L!OneMore(aibom.st.errors)}]_vars

\* "False during transient scrape or build failures": once the failure is
\* over and nothing is left to do, Ready is True again.
QuietMeansReady ==
  /\ rec.pc = "idle" /\ queue = "none" /\ cache = aibom /\ ~pending
  /\ Reported /\ UpToDate
  => aibom.st.ready

\* "True when the controller has been unable to reconcile this AIBOM for
\* longer than the staleness threshold (e.g. ... persistent scrape failure)".
PersistentMeansStale == aibom.st.errors = StaleThreshold => aibom.st.stale

\* A workload that stays reported ends up with a current document, unless
\* its AIBOM is left without a first status.
ReportedInTheEnd ==
  <>[](Reported /\ (Exists(aibom) => aibom.st.reconciled)) => <>[]UpToDate

\* "the prior reconcile is doing the work": the deferral ends and the
\* workload gets its document.
BootstrapEnds == <>[]Reported => <>[]UpToDate
=============================================================================
