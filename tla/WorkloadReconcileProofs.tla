---------------------- MODULE WorkloadReconcileProofs ----------------------
(***************************************************************************)
(* Proofs about WorkloadReconcile, for all inputs, sinks, causes and       *)
(* bounds.                                                                 *)
(*                                                                         *)
(* What the API server holds, what the cache holds and what the reconcile  *)
(* is about to write are three versions of one status; each of them is     *)
(* honest by itself, so a write that is overtaken, lost or repeated can    *)
(* only replace an honest status by an honest status.                      *)
(***************************************************************************)
EXTENDS WorkloadReconcile, TLAPS

\* Every sink of the snapshot has accepted the document the hash stands for.
Delivered(st, d) == st.hash # NoHash => \A s \in st.sinks : st.hash \in d[s]
Persistent(st) == st.stale => st.errors = StaleThreshold
\* A failed sink leaves no hash, so the next reconcile emits again.
Retried(st) == st.sinkFailed => st.hash = NoHash
Honest(st, d) == Delivered(st, d) /\ Persistent(st) /\ Retried(st)

\* Past the scrape there is a signal, and so a document.
ScrapedInv == rec.pc \in {"lookup", "emit", "create", "status"} => rec.content.in \in Inputs

\* The status to be written is of the content that was read.
StatusOf(r) ==
  /\ r.st.of = r.uid /\ r.st.gen = r.gen
  /\ r.st.hash \in {NoHash, r.content.in}
  /\ r.st.stale => r.content.errs
StatusInv == rec.pc \in {"create", "status"} => StatusOf(rec)

WorkloadInv ==
  /\ TypeOK
  /\ ScrapedInv
  /\ StatusInv
  /\ Honest(aibom.st, delivered) /\ Honest(cache.st, delivered) /\ Honest(rec.st, delivered)

-----------------------------------------------------------------------------
(* Records *)

\* The assumptions on the constants, as facts to cite.
LEMMA Constants ==
  /\ StaleThreshold \in Nat
  /\ StaleThreshold # 0
  /\ NoHash \notin Inputs
  BY WorkloadAssumption DEF WorkloadAssumption

\* The absent workload, status, AIBOM and reconcile have their types.
LEMMA NoObjects ==
  /\ NoStatus \in AIBOMStatus /\ NoStatus.hash = NoHash /\ NoStatus.stale = FALSE
  /\ NoStatus.sinkFailed = FALSE
  /\ NoAIBOM \in AIBOM /\ NoAIBOM.st = NoStatus
  /\ NoWorkload \in Workload /\ NoWorkload.content \in Content
  /\ NoReconcile \in Reconcile /\ NoReconcile.st = NoStatus /\ NoReconcile.pc = "idle"
<1>1. /\ NoStatus \in AIBOMStatus /\ NoStatus.hash = NoHash /\ NoStatus.stale = FALSE
      /\ NoStatus.sinkFailed = FALSE
  BY Constants DEF NoStatus, AIBOMStatus
<1>2. NoAIBOM \in AIBOM /\ NoAIBOM.st = NoStatus  BY <1>1 DEF NoAIBOM, AIBOM
<1>3. NoWorkload \in Workload /\ NoWorkload.content \in Content
  BY DEF NoWorkload, Workload, Content
<1>4. NoReconcile \in Reconcile /\ NoReconcile.st = NoStatus /\ NoReconcile.pc = "idle"
  BY <1>1, <1>2, <1>3 DEF NoReconcile, Reconcile
<1> QED  BY <1>1, <1>2, <1>3, <1>4

\* The type of an AIBOMStatus, field by field.
LEMMA StatusFields ==
  ASSUME NEW st \in AIBOMStatus
  PROVE  /\ st.reconciled \in BOOLEAN /\ st.sinkFailed \in BOOLEAN /\ st.hash \in Inputs \cup {NoHash}
         /\ st.of \in Nat /\ st.gen \in Nat
         /\ st.errors \in 0..StaleThreshold /\ st.stale \in BOOLEAN /\ st.sinks \subseteq Sinks
  BY DEF AIBOMStatus

\* The type of an AIBOM, field by field.
LEMMA ObjectFields ==
  /\ \A a \in AIBOM : a.st \in AIBOMStatus /\ a.born \in Nat /\ a.rv \in Nat /\ a.owner \in Nat
  /\ \A a \in AIBOM, st \in AIBOMStatus, n \in Nat :
       LET b == [a EXCEPT !.rv = n, !.st = st] IN b \in AIBOM /\ b.st = st
  /\ \A n, o \in Nat, st \in AIBOMStatus : [born |-> n, rv |-> n, owner |-> o, st |-> st] \in AIBOM
  BY DEF AIBOM

\* The type of a reconcile in progress, field by field.
LEMMA ReconcileFields ==
  ASSUME NEW r \in Reconcile
  PROVE  /\ r.uid \in Nat /\ r.gen \in Nat /\ r.content \in Content /\ r.sinks \subseteq Sinks
         /\ r.obj \in AIBOM /\ r.st \in AIBOMStatus
  BY DEF Reconcile

\* A step of the reconcile keeps what it read.
SameRead(q, r) ==
  q.uid = r.uid /\ q.gen = r.gen /\ q.content = r.content /\ q.sinks = r.sinks

AtStatus(r, a, st) == [r EXCEPT !.pc = "status", !.obj = a, !.st = st]
AtCreate(r, st) == [r EXCEPT !.pc = "create", !.st = st]

\* The fast path goes on to the status write with the cached object.
LEMMA ToStatus ==
  ASSUME NEW r \in Reconcile, NEW a \in AIBOM, NEW st \in AIBOMStatus
  PROVE  /\ AtStatus(r, a, st) \in Reconcile /\ AtStatus(r, a, st).st = st
         /\ SameRead(AtStatus(r, a, st), r) /\ AtStatus(r, a, st).pc = "status"
  BY DEF Reconcile, SameRead, AtStatus

\* CreateOrUpdate goes on to the status write with the status built before.
LEMMA ToStatusAsBuilt ==
  ASSUME NEW r \in Reconcile, NEW a \in AIBOM, NEW q, q = [r EXCEPT !.pc = "status", !.obj = a]
  PROVE  q \in Reconcile /\ q.st = r.st /\ SameRead(q, r) /\ q.pc = "status"
  BY DEF Reconcile, SameRead

\* The full path goes on to the emission with the cached object.
LEMMA ToEmit ==
  ASSUME NEW r \in Reconcile, NEW a \in AIBOM, NEW q, q = [r EXCEPT !.pc = "emit", !.obj = a]
  PROVE  q \in Reconcile /\ q.st = r.st /\ SameRead(q, r) /\ q.pc = "emit"
  BY DEF Reconcile, SameRead

\* The emission goes on to CreateOrUpdate with the status it led to.
LEMMA ToCreate ==
  ASSUME NEW r \in Reconcile, NEW st \in AIBOMStatus
  PROVE  /\ AtCreate(r, st) \in Reconcile /\ AtCreate(r, st).st = st
         /\ SameRead(AtCreate(r, st), r) /\ AtCreate(r, st).pc = "create"
  BY DEF Reconcile, SameRead, AtCreate

\* The error count changes nothing but itself and Stale.
LEMMA RecordErrors ==
  ASSUME NEW st \in AIBOMStatus, NEW prev \in 0..StaleThreshold, NEW errs \in BOOLEAN,
         st.stale => prev = StaleThreshold
  PROVE  LET r == recordExtractionErrors(st, prev, errs) IN
         /\ r \in AIBOMStatus /\ r.hash = st.hash /\ r.sinks = st.sinks
         /\ r.of = st.of /\ r.gen = st.gen /\ r.sinkFailed = st.sinkFailed
         /\ Persistent(r) /\ (r.stale => errs)
<1> DEFINE n == IF prev < StaleThreshold THEN prev + 1 ELSE prev
<1>1. n \in 0..StaleThreshold /\ (prev = StaleThreshold => n = StaleThreshold)
  BY Constants
<1>2. CASE errs
  <2>1. recordExtractionErrors(st, prev, errs) =
          [st EXCEPT !.errors = n, !.stale = st.stale \/ n = StaleThreshold]
    BY <1>2 DEF recordExtractionErrors, AIBOMStatus
  <2> HIDE DEF n
  <2>2. (st.stale \/ n = StaleThreshold) \in BOOLEAN  BY StatusFields
  <2>3. (st.stale \/ n = StaleThreshold) => n = StaleThreshold  BY <1>1
  <2> QED  BY <1>1, <1>2, <2>1, <2>2, <2>3 DEF AIBOMStatus, Persistent
<1>3. CASE ~errs
  <2>1. recordExtractionErrors(st, prev, errs) = [st EXCEPT !.errors = 0, !.stale = FALSE]
    BY <1>3 DEF recordExtractionErrors
  <2>2. 0 \in 0..StaleThreshold  BY Constants
  <2> QED  BY <2>1, <2>2 DEF AIBOMStatus, Persistent
<1> QED  BY <1>2, <1>3

\* A status that was never written claims nothing.
LEMMA NoStatusHonest == \A d : Honest(NoStatus, d)
  BY NoObjects DEF Honest, Delivered, Persistent, Retried

\* Sinks only ever accept more, so an honest status stays honest.
LEMMA HonestStays ==
  ASSUME NEW st \in AIBOMStatus, NEW d, NEW e, Honest(st, d),
         \A s \in Sinks : d[s] \subseteq e[s]
  PROVE  Honest(st, e)
  BY StatusFields DEF Honest, Delivered

-----------------------------------------------------------------------------
(* The status of each path is honest *)

\* BuildStatus after an emission: a hash only when every sink accepted.
LEMMA FullStatus ==
  ASSUME NEW r \in Reconcile, r.content.in \in Inputs, NEW failed,
         NEW d, failed = {} => \A s \in r.sinks : r.content.in \in d[s]
  PROVE  LET st == BuildStatus(r, failed) IN
         /\ st \in AIBOMStatus /\ Honest(st, d)
         /\ st.of = r.uid /\ st.gen = r.gen /\ st.hash \in {NoHash, r.content.in} /\ (st.stale => r.content.errs)
<1> DEFINE st == [reconciled |-> TRUE, hash |-> IF failed = {} THEN HashBOMInputs(r.content) ELSE NoHash,
                  of |-> r.uid, gen |-> r.gen, ready |-> TRUE, sinkFailed |-> failed # {},
                  errors |-> 0, stale |-> FALSE, sinks |-> r.sinks]
<1>1. st \in AIBOMStatus /\ st.stale = FALSE
  BY ReconcileFields, Constants DEF AIBOMStatus, HashBOMInputs
<1>2. Delivered(st, d) /\ Retried(st) /\ st.of = r.uid /\ st.gen = r.gen
      /\ st.hash \in {NoHash, r.content.in}
  BY Constants DEF Delivered, Retried, HashBOMInputs
<1>3. BuildStatus(r, failed) = recordExtractionErrors(st, r.obj.st.errors, r.content.errs)
  BY DEF BuildStatus
<1> HIDE DEF st
<1>4. r.obj.st.errors \in 0..StaleThreshold  BY ReconcileFields, ObjectFields, StatusFields
<1>5. r.content.errs \in BOOLEAN  BY ReconcileFields DEF Content
<1>6. LET q == recordExtractionErrors(st, r.obj.st.errors, r.content.errs) IN
      /\ q \in AIBOMStatus /\ q.hash = st.hash /\ q.sinks = st.sinks /\ q.of = st.of /\ q.gen = st.gen
      /\ q.sinkFailed = st.sinkFailed /\ Persistent(q) /\ (q.stale => r.content.errs)
  BY <1>1, <1>4, <1>5, RecordErrors
<1> QED  BY <1>2, <1>3, <1>6 DEF Honest, Delivered, Retried

\* BuildFastPathStatus claims no more than the status it copies.
LEMMA FastStatus ==
  ASSUME NEW r \in Reconcile, NEW prev \in AIBOMStatus, NEW d, Honest(prev, d)
  PROVE  LET st == BuildFastPathStatus(r, prev) IN
         /\ st \in AIBOMStatus /\ Honest(st, d)
         /\ st.of = r.uid /\ st.gen = r.gen /\ st.hash = prev.hash /\ (st.stale => r.content.errs)
<1> DEFINE st == [prev EXCEPT !.reconciled = TRUE, !.of = r.uid, !.gen = r.gen]
<1>1. /\ st \in AIBOMStatus /\ st.stale = prev.stale /\ st.hash = prev.hash
      /\ st.sinks = prev.sinks /\ st.of = r.uid /\ st.gen = r.gen /\ st.sinkFailed = prev.sinkFailed
  BY ReconcileFields DEF AIBOMStatus
<1>2. BuildFastPathStatus(r, prev) = recordExtractionErrors(st, prev.errors, r.content.errs)
  BY DEF BuildFastPathStatus
<1> HIDE DEF st
<1>3. prev.errors \in 0..StaleThreshold /\ (st.stale => prev.errors = StaleThreshold)
  BY <1>1, StatusFields DEF Honest, Persistent
<1>4. r.content.errs \in BOOLEAN  BY ReconcileFields DEF Content
<1>5. LET q == recordExtractionErrors(st, prev.errors, r.content.errs) IN
      /\ q \in AIBOMStatus /\ q.hash = st.hash /\ q.sinks = st.sinks /\ q.of = st.of /\ q.gen = st.gen
      /\ q.sinkFailed = st.sinkFailed /\ Persistent(q) /\ (q.stale => r.content.errs)
  BY <1>1, <1>3, <1>4, RecordErrors
<1> QED  BY <1>1, <1>2, <1>5 DEF Honest, Delivered, Retried

\* persistFailureStatus claims no more than the status it changes.
LEMMA FailureStatus ==
  ASSUME NEW prev \in AIBOMStatus, NEW d, Honest(prev, d)
  PROVE  LET st == [prev EXCEPT !.ready = FALSE,
                      !.errors = IF @ < StaleThreshold THEN @ + 1 ELSE @]
         IN  st \in AIBOMStatus /\ Honest(st, d)
<1> DEFINE n == IF prev.errors < StaleThreshold THEN prev.errors + 1 ELSE prev.errors
           st == [prev EXCEPT !.ready = FALSE, !.errors = n]
<1>1. n \in 0..StaleThreshold /\ (prev.errors = StaleThreshold => n = StaleThreshold)
  BY StatusFields, Constants
<1>2. [prev EXCEPT !.ready = FALSE, !.errors = IF @ < StaleThreshold THEN @ + 1 ELSE @] = st
  BY DEF AIBOMStatus
<1> HIDE DEF n
<1>3. st \in AIBOMStatus /\ st.errors = n /\ st.stale = prev.stale /\ st.hash = prev.hash
        /\ st.sinks = prev.sinks /\ st.sinkFailed = prev.sinkFailed
  BY <1>1 DEF AIBOMStatus
<1> HIDE DEF st
<1> QED  BY <1>1, <1>2, <1>3 DEF Honest, Delivered, Persistent, Retried

-----------------------------------------------------------------------------
(* What the pieces of an action do *)

\* A reconcile that ends leaves nothing to write.
LEMMA Finishing ==
  ASSUME WorkloadInv, Done \/ Retry
  PROVE  rec' = NoReconcile /\ queue' \in QueueEntry
  BY DEF WorkloadInv, TypeOK, Done, Retry, QueueEntry

\* The status of the reconcile may be stored in the API server.
LEMMA WritingStatus ==
  ASSUME WorkloadInv, NEW st \in AIBOMStatus, Honest(st, delivered), StoreStatus(st)
  PROVE  /\ aibom' \in AIBOM /\ rev' \in Nat /\ Honest(aibom'.st, delivered)
         /\ aibom'.st = st /\ aibom'.born = aibom.born /\ aibom'.owner = aibom.owner
<1>1. aibom \in AIBOM /\ rev \in Nat  BY DEF WorkloadInv, TypeOK
<1>2. aibom' = [aibom EXCEPT !.rv = rev + 1, !.st = st] /\ rev' = rev + 1  BY DEF StoreStatus
<1>3. rev + 1 \in Nat  BY <1>1
<1>4. aibom' \in AIBOM /\ aibom'.st = st /\ aibom'.born = aibom.born /\ aibom'.owner = aibom.owner
  BY <1>1, <1>2, <1>3 DEF AIBOM
<1> QED  BY <1>2, <1>3, <1>4

\* The failure status may be stored in the API server.
LEMMA WritingFailure ==
  ASSUME WorkloadInv, persistFailureStatus
  PROVE  /\ aibom' \in AIBOM /\ rev' \in Nat /\ Honest(aibom'.st, delivered)
         /\ aibom'.born = aibom.born /\ aibom'.owner = aibom.owner
<1>1. /\ aibom \in AIBOM /\ cache \in AIBOM /\ rev \in Nat
      /\ Honest(aibom.st, delivered) /\ Honest(cache.st, delivered)
  BY DEF WorkloadInv, TypeOK
<1> DEFINE st == [cache.st EXCEPT !.ready = FALSE,
                    !.errors = IF @ < StaleThreshold THEN @ + 1 ELSE @]
<1>2. cache.st \in AIBOMStatus  BY <1>1, ObjectFields
<1>3. st \in AIBOMStatus /\ Honest(st, delivered)  BY <1>1, <1>2, FailureStatus
<1>4. StoreStatus(st) \/ UNCHANGED <<aibom, rev>>  BY DEF persistFailureStatus
<1> HIDE DEF st
<1>5. CASE StoreStatus(st)  BY <1>3, <1>5, WritingStatus
<1>6. CASE UNCHANGED <<aibom, rev>>  BY <1>1, <1>6
<1> QED  BY <1>4, <1>5, <1>6

\* An AIBOM that appears or disappears keeps the invariant.
LEMMA StoringObject ==
  ASSUME WorkloadInv, NEW a \in AIBOM, Honest(a.st, delivered), StoreAIBOM(a)
  PROVE  aibom' \in AIBOM /\ pending' \in BOOLEAN /\ Honest(aibom'.st, delivered)
<1>1. aibom' = a /\ pending' = (pending \/ a.born # aibom.born)  BY DEF StoreAIBOM
<1>2. pending' \in BOOLEAN  BY <1>1
<1> QED  BY <1>1, <1>2

\* CreateOrUpdate creates an AIBOM of the type, without a status.
LEMMA NewObject ==
  ASSUME WorkloadInv
  PROVE  /\ NewAIBOM \in AIBOM /\ Honest(NewAIBOM.st, delivered)
         /\ NewAIBOM.born = rev + 1 /\ NewAIBOM.owner = rec.uid
<1>1. rev + 1 \in Nat /\ rec.uid \in Nat  BY ReconcileFields DEF WorkloadInv, TypeOK
<1>2. NewAIBOM \in AIBOM /\ NewAIBOM.st = NoStatus /\ NewAIBOM.born = rev + 1
        /\ NewAIBOM.owner = rec.uid
  BY <1>1, NoObjects DEF NewAIBOM, AIBOM
<1> QED  BY <1>2, NoStatusHonest

\* An AIBOM that is adopted keeps everything but its owner and revision.
LEMMA AdoptedObject ==
  ASSUME WorkloadInv
  PROVE  /\ AdoptedAIBOM \in AIBOM /\ Honest(AdoptedAIBOM.st, delivered)
         /\ AdoptedAIBOM.born = aibom.born /\ AdoptedAIBOM.owner = rec.uid
         /\ AdoptedAIBOM.rv = rev + 1 /\ AdoptedAIBOM.st = aibom.st
<1>1. /\ rev + 1 \in Nat /\ rec.uid \in Nat /\ aibom \in AIBOM /\ Honest(aibom.st, delivered)
  BY ReconcileFields DEF WorkloadInv, TypeOK
<1> QED  BY <1>1 DEF AdoptedAIBOM, AIBOM

-----------------------------------------------------------------------------
(* The invariant *)

\* The counters of the bounds, field by field.
LEMMA UsedFields ==
  ASSUME WorkloadInv, Change \/ Fault
  PROVE  used' \in [uids : Nat, changes : Nat, faults : Nat]
  BY DEF WorkloadInv, TypeOK, Change, Fault

\* The invariant holds when the manager starts.
LEMMA InitInv == Init => WorkloadInv
<1> SUFFICES ASSUME Init PROVE WorkloadInv  OBVIOUS
<1>1. aibom = NoAIBOM /\ cache = NoAIBOM /\ rec = NoReconcile /\ queue = "now"  BY DEF Init
<1>2. wl \in Workload
  <2>1. \A c \in Content : [uid |-> 1, gen |-> 1, content |-> c] \in Workload  BY DEF Workload
  <2> QED  BY <2>1, NoObjects DEF Init
<1>3. wl.uid \in Nat  BY <1>2 DEF Workload
<1>4. used \in [uids : Nat, changes : Nat, faults : Nat]  BY <1>3 DEF Init
<1>5. env \in Environment  BY DEF Init, Environment
<1>6. pending \in BOOLEAN /\ rev \in Nat /\ delivered \in [Sinks -> SUBSET Inputs]  BY DEF Init
<1>7. TypeOK  BY <1>1, <1>2, <1>4, <1>5, <1>6, NoObjects DEF TypeOK, QueueEntry
<1> QED  BY <1>1, <1>7, NoObjects, NoStatusHonest DEF WorkloadInv, ScrapedInv, StatusInv

\* The environment (workload, configuration, cache, collector, restart) keeps
\* the invariant.
LEMMA EnvironsInv == WorkloadInv /\ Environs => WorkloadInv'
<1> SUFFICES ASSUME WorkloadInv, Environs PROVE WorkloadInv'  OBVIOUS
<1> USE DEF QueueEntry
<1>1. CASE CreateWorkload
  <2>1. used' \in [uids : Nat, changes : Nat, faults : Nat] /\ used.uids + 1 \in Nat
    BY <1>1 DEF WorkloadInv, TypeOK, CreateWorkload
  <2>2. PICK c \in Content : wl' = [uid |-> used.uids + 1, gen |-> 1, content |-> c]
    BY <1>1 DEF CreateWorkload
  <2>3. wl' \in Workload  BY <2>1, <2>2 DEF Workload
  <2>4. queue' = "now" /\ UNCHANGED <<env, aibom, cache, pending, rev, rec, delivered>>
    BY <1>1 DEF CreateWorkload, Enqueue
  <2> QED  BY <2>1, <2>3, <2>4 DEF WorkloadInv, TypeOK, ScrapedInv, StatusInv, StatusOf
<1>2. CASE DeleteWorkload
  <2>1. used' \in [uids : Nat, changes : Nat, faults : Nat]  BY <1>2, UsedFields DEF DeleteWorkload
  <2>2. wl' \in Workload  BY <1>2, NoObjects DEF DeleteWorkload
  <2>3. queue' = "now" /\ UNCHANGED <<env, aibom, cache, pending, rev, rec, delivered>>
    BY <1>2 DEF DeleteWorkload, Enqueue
  <2> QED  BY <2>1, <2>2, <2>3 DEF WorkloadInv, TypeOK, ScrapedInv, StatusInv, StatusOf
<1>3. CASE WorkloadChanges
  <2>1. used' \in [uids : Nat, changes : Nat, faults : Nat]  BY <1>3, UsedFields DEF WorkloadChanges
  <2>2. wl \in Workload  BY DEF WorkloadInv, TypeOK
  <2>3. PICK c \in Content, g \in {wl.gen, wl.gen + 1} : wl' = [wl EXCEPT !.content = c, !.gen = g]
    BY <1>3 DEF WorkloadChanges
  <2>4. g \in Nat  BY <2>2 DEF Workload
  <2>5. wl' \in Workload  BY <2>2, <2>3, <2>4 DEF Workload
  <2>6. queue' = "now" /\ UNCHANGED <<env, aibom, cache, pending, rev, rec, delivered>>
    BY <1>3 DEF WorkloadChanges, Enqueue
  <2> QED  BY <2>1, <2>5, <2>6 DEF WorkloadInv, TypeOK, ScrapedInv, StatusInv, StatusOf
<1>4. CASE ExclusionChanges
  <2>1. used' \in [uids : Nat, changes : Nat, faults : Nat]  BY <1>4, UsedFields DEF ExclusionChanges
  <2>2. env' \in Environment  BY <1>4 DEF ExclusionChanges, WorkloadInv, TypeOK, Environment
  <2>3. queue' = "now" /\ UNCHANGED <<wl, aibom, cache, pending, rev, rec, delivered>>
    BY <1>4 DEF ExclusionChanges, Enqueue
  <2> QED  BY <2>1, <2>2, <2>3 DEF WorkloadInv, TypeOK, ScrapedInv, StatusInv, StatusOf
<1>5. CASE SinksChange
  <2>1. used' \in [uids : Nat, changes : Nat, faults : Nat]  BY <1>5, UsedFields DEF SinksChange
  <2>2. env' \in Environment  BY <1>5 DEF SinksChange, WorkloadInv, TypeOK, Environment
  <2>3. UNCHANGED <<wl, aibom, cache, pending, rev, queue, rec, delivered>>
    BY <1>5 DEF SinksChange
  <2> QED  BY <2>1, <2>2, <2>3 DEF WorkloadInv, TypeOK, ScrapedInv, StatusInv, StatusOf
<1>6. CASE RemoveAIBOM
  <2>1. used' \in [uids : Nat, changes : Nat, faults : Nat]  BY <1>6, UsedFields DEF RemoveAIBOM
  <2>2. aibom' \in AIBOM /\ pending' \in BOOLEAN /\ Honest(aibom'.st, delivered)
    BY <1>6, StoringObject, NoObjects, NoStatusHonest DEF RemoveAIBOM
  <2>3. UNCHANGED <<wl, env, cache, rev, queue, rec, delivered>>  BY <1>6 DEF RemoveAIBOM
  <2> QED  BY <2>1, <2>2, <2>3 DEF WorkloadInv, TypeOK, ScrapedInv, StatusInv, StatusOf
<1>7. CASE GarbageCollect
  <2>1. aibom' \in AIBOM /\ pending' \in BOOLEAN /\ Honest(aibom'.st, delivered)
    BY <1>7, StoringObject, NoObjects, NoStatusHonest DEF GarbageCollect
  <2>2. UNCHANGED <<wl, env, cache, rev, queue, rec, delivered, used>>  BY <1>7 DEF GarbageCollect
  <2> QED  BY <2>1, <2>2 DEF WorkloadInv, TypeOK, ScrapedInv, StatusInv, StatusOf
<1>8. CASE CacheSync
  <2>1. cache' = aibom /\ pending' = FALSE /\ queue' \in QueueEntry
    BY <1>8 DEF CacheSync, Enqueue, WorkloadInv, TypeOK
  <2>2. UNCHANGED <<wl, env, aibom, rev, rec, delivered, used>>  BY <1>8 DEF CacheSync
  <2> QED  BY <2>1, <2>2 DEF WorkloadInv, TypeOK, ScrapedInv, StatusInv, StatusOf
<1>9. CASE TimerFires
  <2>1. queue' = "now" /\ UNCHANGED <<wl, env, aibom, cache, pending, rev, rec, delivered, used>>
    BY <1>9 DEF TimerFires
  <2> QED  BY <2>1 DEF WorkloadInv, TypeOK, ScrapedInv, StatusInv, StatusOf
<1>10. CASE Restart
  <2>1. used' \in [uids : Nat, changes : Nat, faults : Nat]  BY <1>10, UsedFields DEF Restart
  <2>2. /\ rec' = NoReconcile /\ cache' = aibom /\ pending' = FALSE /\ queue' = "now"
        /\ UNCHANGED <<wl, env, aibom, rev, delivered>>
    BY <1>10 DEF Restart
  <2> QED  BY <2>1, <2>2, NoObjects, NoStatusHonest DEF WorkloadInv, TypeOK, ScrapedInv, StatusInv
<1> QED  BY <1>1, <1>2, <1>3, <1>4, <1>5, <1>6, <1>7, <1>8, <1>9, <1>10 DEF Environs

\* A step that ends the reconcile and has left an honest AIBOM.
LEMMA EndedInv ==
  ASSUME WorkloadInv, Done \/ Retry,
         aibom' \in AIBOM, rev' \in Nat, pending' \in BOOLEAN, Honest(aibom'.st, delivered),
         used' \in [uids : Nat, changes : Nat, faults : Nat],
         UNCHANGED <<wl, env, cache, delivered>>
  PROVE  WorkloadInv'
<1>1. rec' = NoReconcile /\ queue' \in QueueEntry  BY Finishing
<1> QED  BY <1>1, NoObjects, NoStatusHonest DEF WorkloadInv, TypeOK, ScrapedInv, StatusInv

\* The steps of reconcileWorkload keep the invariant.
LEMMA ReconcileInv == WorkloadInv /\ ReconcileStep => WorkloadInv'
<1> SUFFICES ASSUME WorkloadInv, ReconcileStep PROVE WorkloadInv'  OBVIOUS
<1> USE DEF QueueEntry
<1>a. /\ rec \in Reconcile /\ cache \in AIBOM /\ aibom \in AIBOM /\ rev \in Nat
      /\ Honest(rec.st, delivered) /\ Honest(cache.st, delivered) /\ Honest(aibom.st, delivered)
      /\ wl \in Workload /\ env \in Environment /\ pending \in BOOLEAN
      /\ used \in [uids : Nat, changes : Nat, faults : Nat]
      /\ delivered \in [Sinks -> SUBSET Inputs]
  BY DEF WorkloadInv, TypeOK
<1>b. rec.st \in AIBOMStatus /\ cache.st \in AIBOMStatus  BY <1>a, ReconcileFields, ObjectFields
<1>1. CASE WorkloadNotFound
  <2>1. queue' = "none" /\ UNCHANGED <<wl, env, aibom, cache, pending, rev, rec, delivered, used>>
    BY <1>1 DEF WorkloadNotFound, Dequeue
  <2> QED  BY <2>1 DEF WorkloadInv, TypeOK, ScrapedInv, StatusInv, StatusOf
<1>2. CASE BeginReconcile
  <2> DEFINE pc == IF env.excluded # {} \/ wl.content.in = "unresolved" THEN "delete" ELSE "lookup"
  <2>1. /\ queue' = "none" /\ UNCHANGED <<wl, env, aibom, cache, pending, rev, delivered, used>>
        /\ rec' = [NoReconcile EXCEPT !.pc = pc, !.uid = wl.uid, !.gen = wl.gen,
                                      !.content = wl.content, !.sinks = env.sinks]
    BY <1>2 DEF BeginReconcile, Dequeue
  <2>2. /\ pc \in {"delete", "lookup"} /\ wl.uid \in Nat /\ wl.gen \in Nat /\ wl.content \in Content
        /\ env.sinks \subseteq Sinks
    BY <1>a DEF Workload, Environment
  <2>3. pc = "lookup" => wl.content.in \in Inputs  BY <2>2 DEF Content
  <2> HIDE DEF pc
  <2>4. rec' \in Reconcile /\ rec'.st = NoStatus /\ rec'.pc = pc /\ rec'.content = wl.content
    BY <2>1, <2>2, NoObjects DEF Reconcile
  <2> QED  BY <2>1, <2>2, <2>3, <2>4, NoStatusHonest
           DEF WorkloadInv, TypeOK, ScrapedInv, StatusInv
<1>3. CASE DeleteWorkloadAIBOM
  <2> DEFINE a == IF Exists(cache) THEN NoAIBOM ELSE aibom
  <2>1. a \in AIBOM /\ Honest(a.st, delivered)  BY <1>a, NoObjects, NoStatusHonest
  <2>2. StoreAIBOM(a) /\ Done /\ UNCHANGED <<wl, env, cache, rev, delivered, used>>
    BY <1>3 DEF DeleteWorkloadAIBOM
  <2> HIDE DEF a
  <2>3. aibom' \in AIBOM /\ pending' \in BOOLEAN /\ Honest(aibom'.st, delivered)
    BY <2>1, <2>2, StoringObject
  <2> QED  BY <1>a, <2>2, <2>3, EndedInv
<1>4. CASE FastPath
  <2>1. PICK st : st = BuildFastPathStatus(rec, cache.st)  OBVIOUS
  <2>a. /\ st \in AIBOMStatus /\ Honest(st, delivered)
        /\ st.of = rec.uid /\ st.gen = rec.gen /\ st.hash = cache.st.hash /\ (st.stale => rec.content.errs)
    BY <1>a, <1>b, <2>1, FastStatus
  <2>2. /\ rec' = [rec EXCEPT !.pc = "status", !.obj = cache, !.st = st]
        /\ cache.st.hash = rec.content.in /\ rec.pc = "lookup"
        /\ UNCHANGED <<wl, env, aibom, cache, pending, rev, queue, delivered, used>>
    BY <1>4, <2>1 DEF FastPath, HashBOMInputs
  <2>3. rec' \in Reconcile /\ rec'.st = st /\ SameRead(rec', rec) /\ rec'.pc = "status"
    <3>1. rec \in Reconcile /\ cache \in AIBOM /\ st \in AIBOMStatus  BY <1>a, <2>a
    <3>2. rec' = AtStatus(rec, cache, st)  BY <2>2 DEF AtStatus
    <3> QED  BY <3>1, <3>2, ToStatus
  <2>4. StatusOf(rec')  BY <2>a, <2>2, <2>3 DEF StatusOf, SameRead
  <2> QED  BY <2>a, <2>2, <2>3, <2>4 DEF WorkloadInv, TypeOK, ScrapedInv, StatusInv, SameRead
<1>5. CASE DeferBootstrap
  BY <1>a, <1>5, EndedInv DEF DeferBootstrap
<1>6. CASE FullPath
  <2>1. /\ rec' = [rec EXCEPT !.pc = "emit", !.obj = cache] /\ rec.pc = "lookup"
        /\ UNCHANGED <<wl, env, aibom, cache, pending, rev, queue, delivered, used>>
    BY <1>6 DEF FullPath
  <2>2. rec' \in Reconcile /\ rec'.st = rec.st /\ SameRead(rec', rec) /\ rec'.pc = "emit"
    BY <1>a, <2>1, ToEmit
  <2> QED  BY <2>1, <2>2 DEF WorkloadInv, TypeOK, ScrapedInv, StatusInv, SameRead
<1>7. CASE EmitToExternalSinks
  <2>1. PICK failed \in SUBSET rec.sinks :
          /\ IF failed = {} THEN UNCHANGED used ELSE Fault
          /\ delivered' = [s \in Sinks |-> IF s \in rec.sinks \ failed
                             THEN delivered[s] \cup {HashBOMInputs(rec.content)} ELSE delivered[s]]
          /\ rec' = [rec EXCEPT !.pc = "create", !.st = BuildStatus(rec, failed)]
    BY <1>7 DEF EmitToExternalSinks
  <2>2. rec.pc = "emit" /\ UNCHANGED <<wl, env, aibom, cache, pending, rev, queue>>
    BY <1>7 DEF EmitToExternalSinks
  <2>3. rec.content.in \in Inputs /\ rec.sinks \subseteq Sinks
    BY <1>a, <2>2, ReconcileFields DEF WorkloadInv, ScrapedInv
  <2>4. used' \in [uids : Nat, changes : Nat, faults : Nat]  BY <1>a, <2>1, UsedFields
  <2>5. delivered' \in [Sinks -> SUBSET Inputs]
    BY <1>a, <2>1, <2>3 DEF HashBOMInputs
  <2>6. \A s \in Sinks : delivered[s] \subseteq delivered'[s]  BY <2>1
  <2>7. failed = {} => \A s \in rec.sinks : rec.content.in \in delivered'[s]
    BY <2>1, <2>3 DEF HashBOMInputs
  <2>a. PICK st : st = BuildStatus(rec, failed)  OBVIOUS
  <2>8. /\ st \in AIBOMStatus /\ Honest(st, delivered') /\ st.of = rec.uid /\ st.gen = rec.gen
        /\ st.hash \in {NoHash, rec.content.in} /\ (st.stale => rec.content.errs)
    BY <1>a, <2>3, <2>7, <2>a, FullStatus
  <2>9. rec' = AtCreate(rec, st)  BY <2>1, <2>a DEF AtCreate
  <2>10. rec' \in Reconcile /\ rec'.st = st /\ SameRead(rec', rec) /\ rec'.pc = "create"
    <3>1. rec \in Reconcile /\ st \in AIBOMStatus  BY <1>a, <2>8
    <3> QED  BY <3>1, <2>9, ToCreate
  <2>11. StatusOf(rec')  BY <2>8, <2>10 DEF StatusOf, SameRead
  <2>12. Honest(aibom.st, delivered') /\ Honest(cache.st, delivered')
    BY <1>a, <1>b, <2>6, ObjectFields, HonestStays
  <2> QED  BY <2>2, <2>3, <2>4, <2>5, <2>8, <2>10, <2>11, <2>12
           DEF WorkloadInv, TypeOK, ScrapedInv, StatusInv, SameRead
<1>8. CASE CreateAIBOM
  <2>1. /\ StoreAIBOM(NewAIBOM) /\ rev' = rev + 1 /\ rec.pc = "create"
        /\ rec' = [rec EXCEPT !.pc = "status", !.obj = NewAIBOM]
        /\ UNCHANGED <<wl, env, cache, queue, delivered, used>>
    BY <1>8 DEF CreateAIBOM
  <2>2. NewAIBOM \in AIBOM /\ Honest(NewAIBOM.st, delivered)  BY NewObject
  <2>3. aibom' \in AIBOM /\ pending' \in BOOLEAN /\ Honest(aibom'.st, delivered)
    BY <2>1, <2>2, StoringObject
  <2>4. rec' \in Reconcile /\ rec'.st = rec.st /\ SameRead(rec', rec) /\ rec'.pc = "status"
    BY <1>a, <2>1, <2>2, ToStatusAsBuilt
  <2>5. StatusOf(rec')  BY <2>1, <2>4 DEF WorkloadInv, StatusInv, StatusOf, SameRead
  <2>6. rev' \in Nat  BY <1>a, <2>1
  <2> QED  BY <2>1, <2>3, <2>4, <2>5, <2>6 DEF WorkloadInv, TypeOK, ScrapedInv, StatusInv, SameRead
<1>9. CASE KeepAIBOM
  <2>1. /\ rec' = [rec EXCEPT !.pc = "status", !.obj = cache] /\ rec.pc = "create"
        /\ UNCHANGED <<wl, env, aibom, cache, pending, rev, queue, delivered, used>>
    BY <1>9 DEF KeepAIBOM
  <2>2. rec' \in Reconcile /\ rec'.st = rec.st /\ SameRead(rec', rec) /\ rec'.pc = "status"
    BY <1>a, <2>1, ToStatusAsBuilt
  <2>3. StatusOf(rec')  BY <2>1, <2>2 DEF WorkloadInv, StatusInv, StatusOf, SameRead
  <2> QED  BY <2>1, <2>2, <2>3 DEF WorkloadInv, TypeOK, ScrapedInv, StatusInv, SameRead
<1>10. CASE UpdateStatus
  <2>1. /\ StoreStatus(rec.st) /\ (Done \/ Retry)
        /\ UNCHANGED <<wl, env, cache, pending, delivered, used>>
    BY <1>10 DEF UpdateStatus
  <2>2. aibom' \in AIBOM /\ rev' \in Nat /\ Honest(aibom'.st, delivered)
    BY <1>a, <1>b, <2>1, WritingStatus
  <2> QED  BY <1>a, <2>1, <2>2, EndedInv
<1>11. CASE CreateFails
  <2>1. Retry /\ UNCHANGED <<wl, env, cache, delivered>>  BY <1>11 DEF CreateFails
  <2>2. CASE UNCHANGED <<aibom, pending, rev, used>>  BY <1>a, <2>1, <2>2, EndedInv
  <2>3. ASSUME NEW a \in {aibom, NewAIBOM, AdoptedAIBOM}, Fault, StoreAIBOM(a), rev' = rev + 1
        PROVE  WorkloadInv'
    <3>1. a \in AIBOM /\ Honest(a.st, delivered)  BY <1>a, NewObject, AdoptedObject
    <3>2. aibom' \in AIBOM /\ pending' \in BOOLEAN /\ Honest(aibom'.st, delivered)
      BY <2>3, <3>1, StoringObject
    <3>3. used' \in [uids : Nat, changes : Nat, faults : Nat]  BY <2>3, UsedFields
    <3>4. rev' \in Nat  BY <1>a, <2>3
    <3> QED  BY <2>1, <3>2, <3>3, <3>4, EndedInv
  <2> QED  BY <1>11, <2>2, <2>3 DEF CreateFails
<1>12. CASE StatusFails
  <2>1. Retry /\ UNCHANGED <<wl, env, cache, pending, delivered>>  BY <1>12 DEF StatusFails
  <2>2. used' \in [uids : Nat, changes : Nat, faults : Nat]  BY <1>a, <1>12, UsedFields DEF StatusFails
  <2>3. StoreStatus(rec.st) \/ UNCHANGED <<aibom, rev>>  BY <1>12 DEF StatusFails
  <2>4. aibom' \in AIBOM /\ rev' \in Nat /\ Honest(aibom'.st, delivered)
    BY <1>a, <1>b, <2>3, WritingStatus
  <2> QED  BY <1>a, <2>1, <2>2, <2>4, EndedInv
<1>13. CASE AdoptAIBOM
  <2>1. /\ StoreAIBOM(AdoptedAIBOM) /\ rev' = rev + 1 /\ rec.pc = "create"
        /\ rec' = [rec EXCEPT !.pc = "status", !.obj = AdoptedAIBOM]
        /\ UNCHANGED <<wl, env, cache, queue, delivered, used>>
    BY <1>13 DEF AdoptAIBOM
  <2>2. AdoptedAIBOM \in AIBOM /\ Honest(AdoptedAIBOM.st, delivered)  BY AdoptedObject
  <2>3. aibom' \in AIBOM /\ pending' \in BOOLEAN /\ Honest(aibom'.st, delivered)
    BY <2>1, <2>2, StoringObject
  <2>4. rec' \in Reconcile /\ rec'.st = rec.st /\ SameRead(rec', rec) /\ rec'.pc = "status"
    BY <1>a, <2>1, <2>2, ToStatusAsBuilt
  <2>5. StatusOf(rec')  BY <2>1, <2>4 DEF WorkloadInv, StatusInv, StatusOf, SameRead
  <2>6. rev' \in Nat  BY <1>a, <2>1
  <2> QED  BY <2>1, <2>3, <2>4, <2>5, <2>6 DEF WorkloadInv, TypeOK, ScrapedInv, StatusInv, SameRead
<1> QED  BY <1>1, <1>2, <1>3, <1>4, <1>5, <1>6, <1>7, <1>8, <1>9, <1>10, <1>11, <1>12, <1>13
         DEF ReconcileStep

\* Failed calls keep the invariant.
LEMMA FailuresInv == WorkloadInv /\ Failures => WorkloadInv'
<1> SUFFICES ASSUME WorkloadInv, Failures PROVE WorkloadInv'  OBVIOUS
<1>a. /\ aibom \in AIBOM /\ Honest(aibom.st, delivered) /\ pending \in BOOLEAN /\ rev \in Nat
  BY DEF WorkloadInv, TypeOK
<1>b. used' \in [uids : Nat, changes : Nat, faults : Nat]
  BY UsedFields DEF Failures, ReadFails, DeleteFails, ScrapeFails, BuildFails
<1>1. CASE ReadFails
  <2>1. queue' = "later" /\ UNCHANGED <<wl, env, aibom, cache, pending, rev, rec, delivered>>
    BY <1>1 DEF ReadFails
  <2> QED  BY <1>b, <2>1 DEF WorkloadInv, TypeOK, QueueEntry, ScrapedInv, StatusInv, StatusOf
<1>2. CASE DeleteFails
  <2>1. Retry /\ UNCHANGED <<wl, env, cache, rev, delivered>>  BY <1>2 DEF DeleteFails
  <2>2. PICK a \in {aibom, NoAIBOM} : StoreAIBOM(a)  BY <1>2 DEF DeleteFails
  <2>3. a \in AIBOM /\ Honest(a.st, delivered)  BY <1>a, NoObjects, NoStatusHonest
  <2>4. aibom' \in AIBOM /\ pending' \in BOOLEAN /\ Honest(aibom'.st, delivered)
    BY <2>2, <2>3, StoringObject
  <2> QED  BY <1>a, <1>b, <2>1, <2>4, EndedInv
<1>3. CASE ScrapeFails
  <2>1. /\ persistFailureStatus /\ queue' = "later"
        /\ UNCHANGED <<wl, env, cache, pending, rec, delivered>>
    BY <1>3 DEF ScrapeFails
  <2>2. aibom' \in AIBOM /\ rev' \in Nat /\ Honest(aibom'.st, delivered)  BY <2>1, WritingFailure
  <2> QED  BY <1>b, <2>1, <2>2 DEF WorkloadInv, TypeOK, QueueEntry, ScrapedInv, StatusInv, StatusOf
<1>4. CASE BuildFails
  <2>1. persistFailureStatus /\ Retry /\ UNCHANGED <<wl, env, cache, pending, delivered>>
    BY <1>4 DEF BuildFails
  <2>2. aibom' \in AIBOM /\ rev' \in Nat /\ Honest(aibom'.st, delivered)  BY <2>1, WritingFailure
  <2> QED  BY <1>a, <1>b, <2>1, <2>2, EndedInv
<1> QED  BY <1>1, <1>2, <1>3, <1>4 DEF Failures

\* The invariant is inductive.
LEMMA NextInv == WorkloadInv /\ [Next]_vars => WorkloadInv'
<1> SUFFICES ASSUME WorkloadInv, [Next]_vars PROVE WorkloadInv'  OBVIOUS
<1>1. CASE UNCHANGED vars
  BY <1>1 DEF vars, WorkloadInv, TypeOK, ScrapedInv, StatusInv, StatusOf
<1>2. CASE Next  BY <1>2, EnvironsInv, ReconcileInv, FailuresInv DEF Next
<1> QED  BY <1>1, <1>2

\* Every reachable state satisfies the inductive invariant: the three
\* versions of the AIBOM's status are honest.
THEOREM WorkloadInvariant == Spec => []WorkloadInv
  BY InitInv, NextInv, PTL DEF Spec

\* The type invariant of the reconcile, of the AIBOM and of its cache.
THEOREM WorkloadTypeCorrect == Spec => []TypeOK
<1>1. WorkloadInv => TypeOK  BY DEF WorkloadInv
<1> QED  BY <1>1, WorkloadInvariant, PTL

\* The sink-retry contract, for every set of sinks and any number of faults:
\* an input hash in the API server, which later reconciles trust, is of a
\* document that all its sinks have.
THEOREM HashIsDelivered == Spec => []HashMeansDelivered
<1>1. WorkloadInv => HashMeansDelivered  BY DEF WorkloadInv, Honest, Delivered, HashMeansDelivered
<1> QED  BY <1>1, WorkloadInvariant, PTL

\* Stale only after StaleThreshold errors in a row, for every threshold.
THEOREM StaleIsPersistent == Spec => []StaleMeansPersistent
<1>1. WorkloadInv => StaleMeansPersistent
  BY DEF WorkloadInv, Honest, Persistent, StaleMeansPersistent
<1> QED  BY <1>1, WorkloadInvariant, PTL

-----------------------------------------------------------------------------
(* No event is lost.  Whatever changes the workload or its exclusions leaves *)
(* an entry in the queue, and whatever makes an AIBOM appear or disappear    *)
(* leaves the cache behind; so a reconcile that no event has overtaken works *)
(* on what is current, and a reconcile that ends without a requeue leaves    *)
(* the AIBOM settled.                                                        *)

Current ==
  /\ rec.uid = wl.uid /\ rec.gen = wl.gen /\ rec.content = wl.content
  /\ rec.pc = "delete" <=> ~Reported

Settled ==
  IF Reported
  THEN /\ Exists(aibom) /\ aibom.st.hash = HashBOMInputs(wl.content)
       /\ aibom.st.of = wl.uid /\ aibom.st.gen = wl.gen /\ ~aibom.st.sinkFailed
       /\ aibom.st.stale => wl.content.errs
  ELSE ~Exists(aibom)

OwnedInv == (rec.pc # "idle" => rec.uid # 0) /\ (Exists(aibom) => aibom.owner # 0)
SeenInv == pending \/ cache.born = aibom.born
CurrentInv == queue = "none" /\ rec.pc # "idle" => Current
SettledInv ==
  /\ queue = "none" /\ rec.pc = "idle" /\ ~pending
  /\ Exists(aibom) => aibom.owner = wl.uid
  => Settled

QuietInv == OwnedInv /\ SeenInv /\ CurrentInv /\ SettledInv

\* The key is queued at the start, so nothing is settled yet.
LEMMA QuietInit == Init => QuietInv
<1> SUFFICES ASSUME Init PROVE QuietInv  OBVIOUS
<1>1. aibom = NoAIBOM /\ cache = NoAIBOM /\ rec = NoReconcile /\ queue = "now"  BY DEF Init
<1>2. NoAIBOM.born = 0  BY DEF NoAIBOM
<1> QED  BY <1>1, <1>2, NoObjects DEF QuietInv, OwnedInv, SeenInv, CurrentInv, SettledInv, Exists

\* An object that appears or disappears leaves the cache behind.
LEMMA StoreSeen ==
  ASSUME SeenInv, NEW a, StoreAIBOM(a), UNCHANGED cache
  PROVE  SeenInv'
  BY DEF SeenInv, StoreAIBOM

\* There is no AIBOM where NoAIBOM is.
LEMMA NotExists == ~Exists(NoAIBOM)
  BY DEF Exists, NoAIBOM

\* A step that leaves the key in the queue owes nothing but the first two parts.
LEMMA QueuedQuiet ==
  ASSUME OwnedInv', SeenInv', queue' # "none"
  PROVE  QuietInv'
  BY DEF QuietInv, CurrentInv, SettledInv

\* A change of the surroundings queues the key, leaves the cache behind, or
\* concerns nothing that a reconcile has read.
LEMMA QuietEnvirons == WorkloadInv /\ QuietInv /\ Environs => QuietInv'
<1> SUFFICES ASSUME WorkloadInv, QuietInv, Environs PROVE QuietInv'  OBVIOUS
<1>a. OwnedInv /\ SeenInv  BY DEF QuietInv
<1>1. CASE CreateWorkload \/ DeleteWorkload \/ WorkloadChanges \/ ExclusionChanges
  <2>1. queue' = "now" /\ UNCHANGED <<aibom, cache, pending, rec>>
    BY <1>1 DEF CreateWorkload, DeleteWorkload, WorkloadChanges, ExclusionChanges, Enqueue
  <2>2. OwnedInv' /\ SeenInv'  BY <1>a, <2>1 DEF OwnedInv, SeenInv, Exists
  <2> QED  BY <2>1, <2>2, QueuedQuiet
<1>2. CASE SinksChange
  <2>1. UNCHANGED <<wl, aibom, cache, pending, queue, rec>>  BY <1>2 DEF SinksChange
  <2>2. env'.excluded = env.excluded
    BY <1>2 DEF SinksChange, WorkloadInv, TypeOK, Environment
  <2>3. Reported' = Reported  BY <2>1, <2>2 DEF Reported
  <2>4. Settled' = Settled /\ Current' = Current  BY <2>1, <2>3 DEF Settled, Current, Exists
  <2> QED  BY <2>1, <2>4 DEF QuietInv, OwnedInv, SeenInv, CurrentInv, SettledInv, Exists
<1>3. CASE RemoveAIBOM \/ GarbageCollect
  <2>1. Exists(aibom) /\ StoreAIBOM(NoAIBOM) /\ UNCHANGED <<wl, cache, queue, rec>>
    BY <1>3 DEF RemoveAIBOM, GarbageCollect
  <2>2. aibom' = NoAIBOM /\ pending' = TRUE
    BY <2>1 DEF StoreAIBOM, Exists, NoAIBOM
  <2>3. UNCHANGED env  BY <1>3 DEF RemoveAIBOM, GarbageCollect
  <2>4. Current' = Current  BY <2>1, <2>3 DEF Current, Reported
  <2>5. OwnedInv'  BY <1>a, <2>1, <2>2, NotExists DEF OwnedInv
  <2> QED  BY <2>1, <2>2, <2>4, <2>5 DEF QuietInv, SeenInv, CurrentInv, SettledInv
<1>4. CASE CacheSync
  <2>1. cache' = aibom /\ pending' = FALSE /\ UNCHANGED <<wl, env, aibom, rec>>
    BY <1>4 DEF CacheSync
  <2>2. OwnedInv' /\ SeenInv'  BY <1>a, <2>1 DEF OwnedInv, SeenInv, Exists
  <2>3. CASE pending
    BY <1>4, <2>2, <2>3, QueuedQuiet DEF CacheSync, Enqueue
  <2>4. CASE ~pending
    <3>1. UNCHANGED queue  BY <1>4, <2>4 DEF CacheSync
    <3>2. Settled' = Settled /\ Current' = Current  BY <2>1 DEF Settled, Current, Exists, Reported
    <3> QED  BY <2>1, <2>2, <2>4, <3>1, <3>2 DEF QuietInv, CurrentInv, SettledInv, Exists
  <2> QED  BY <2>3, <2>4
<1>5. CASE TimerFires
  <2>1. queue' = "now" /\ UNCHANGED <<aibom, cache, pending, rec>>  BY <1>5 DEF TimerFires
  <2>2. OwnedInv' /\ SeenInv'  BY <1>a, <2>1 DEF OwnedInv, SeenInv, Exists
  <2> QED  BY <2>1, <2>2, QueuedQuiet
<1>6. CASE Restart
  <2>1. /\ rec' = NoReconcile /\ cache' = aibom /\ queue' = "now" /\ aibom' = aibom
    BY <1>6 DEF Restart
  <2>2. OwnedInv' /\ SeenInv'  BY <1>a, <2>1, NoObjects DEF OwnedInv, SeenInv, Exists
  <2> QED  BY <2>1, <2>2, QueuedQuiet
<1> QED  BY <1>1, <1>2, <1>3, <1>4, <1>5, <1>6 DEF Environs

\* A requeue owes nothing but the first two parts.
LEMMA RetryQuiet ==
  ASSUME WorkloadInv, QuietInv, Retry, SeenInv', Exists(aibom') => aibom'.owner # 0
  PROVE  QuietInv'
<1>1. rec' = NoReconcile /\ queue' # "none"  BY DEF Retry
<1>2. OwnedInv'  BY <1>1, NoObjects DEF OwnedInv
<1> QED  BY <1>1, <1>2, QueuedQuiet

\* A step that only moves the reconcile on.
LEMMA MoveQuiet ==
  ASSUME QuietInv, SameRead(rec', rec), rec.pc \notin {"idle", "delete"},
         rec'.pc \notin {"idle", "delete"}, OwnedInv', SeenInv', UNCHANGED <<wl, env, queue>>
  PROVE  QuietInv'
<1>1. Current => Current'  BY DEF Current, SameRead, Reported
<1> QED  BY <1>1 DEF QuietInv, CurrentInv, SettledInv

\* A failed call queues the key again.
LEMMA QuietFailures == WorkloadInv /\ QuietInv /\ Failures => QuietInv'
<1> SUFFICES ASSUME WorkloadInv, QuietInv, Failures PROVE QuietInv'  OBVIOUS
<1>a. OwnedInv /\ SeenInv  BY DEF QuietInv
<1>1. CASE ReadFails
  <2>1. queue' = "later" /\ UNCHANGED <<aibom, cache, pending, rec>>  BY <1>1 DEF ReadFails
  <2>2. OwnedInv' /\ SeenInv'  BY <1>a, <2>1 DEF OwnedInv, SeenInv, Exists
  <2> QED  BY <2>1, <2>2, QueuedQuiet
<1>2. CASE DeleteFails
  <2>1. Retry /\ UNCHANGED cache  BY <1>2 DEF DeleteFails
  <2>2. PICK a \in {aibom, NoAIBOM} : StoreAIBOM(a)  BY <1>2 DEF DeleteFails
  <2>3. SeenInv'  BY <1>a, <2>1, <2>2, StoreSeen
  <2>4. Exists(aibom') => aibom'.owner # 0
    BY <1>a, <2>2, NotExists DEF OwnedInv, StoreAIBOM
  <2> QED  BY <2>1, <2>3, <2>4, RetryQuiet
<1>3. CASE ScrapeFails
  <2>1. persistFailureStatus /\ queue' = "later" /\ UNCHANGED <<cache, pending, rec>>
    BY <1>3 DEF ScrapeFails
  <2>2. aibom'.born = aibom.born /\ aibom'.owner = aibom.owner  BY <2>1, WritingFailure
  <2>3. OwnedInv' /\ SeenInv'  BY <1>a, <2>1, <2>2 DEF OwnedInv, SeenInv, Exists
  <2> QED  BY <2>1, <2>3, QueuedQuiet
<1>4. CASE BuildFails
  <2>1. persistFailureStatus /\ Retry /\ UNCHANGED <<cache, pending>>
    BY <1>4 DEF BuildFails
  <2>2. aibom'.born = aibom.born /\ aibom'.owner = aibom.owner  BY <2>1, WritingFailure
  <2>3. SeenInv' /\ (Exists(aibom') => aibom'.owner # 0)
    BY <1>a, <2>1, <2>2 DEF SeenInv, OwnedInv, Exists
  <2> QED  BY <2>1, <2>3, RetryQuiet
<1> QED  BY <1>1, <1>2, <1>3, <1>4 DEF Failures

\* The three steps that end without a requeue settle the AIBOM; the others
\* move on with what they read, or come again.
LEMMA QuietReconcile == WorkloadInv /\ QuietInv /\ ReconcileStep => QuietInv'
<1> SUFFICES ASSUME WorkloadInv, QuietInv, ReconcileStep PROVE QuietInv'  OBVIOUS
<1>a. OwnedInv /\ SeenInv  BY DEF QuietInv
<1>b. /\ rec \in Reconcile /\ cache \in AIBOM /\ aibom \in AIBOM /\ rev \in Nat /\ wl \in Workload
      /\ Honest(rec.st, delivered)
  BY DEF WorkloadInv, TypeOK
<1>c. rec.st \in AIBOMStatus  BY <1>b, ReconcileFields
<1>1. CASE WorkloadNotFound
  <2>1. /\ wl.uid = 0 /\ rec.pc = "idle"
        /\ UNCHANGED <<wl, env, aibom, cache, pending, rec>>
    BY <1>1 DEF WorkloadNotFound, Dequeue
  <2>2. ~Reported'  BY <2>1 DEF Reported
  <2>3. (Exists(aibom) => aibom.owner = wl.uid) => ~Exists(aibom)  BY <1>a, <2>1 DEF OwnedInv
  <2> QED  BY <1>a, <2>1, <2>2, <2>3
           DEF QuietInv, OwnedInv, SeenInv, CurrentInv, SettledInv, Settled, Exists
<1>2. CASE BeginReconcile
  <2> DEFINE pc == IF env.excluded # {} \/ wl.content.in = "unresolved" THEN "delete" ELSE "lookup"
  <2>1. /\ wl.uid # 0 /\ UNCHANGED <<wl, env, aibom, cache, pending>>
        /\ rec' = [NoReconcile EXCEPT !.pc = pc, !.uid = wl.uid, !.gen = wl.gen,
                                      !.content = wl.content, !.sinks = env.sinks]
    BY <1>2 DEF BeginReconcile
  <2>2. pc \in {"delete", "lookup"} /\ (pc = "delete" <=> ~Reported)
    BY <2>1 DEF Reported
  <2> HIDE DEF pc
  <2>3. /\ rec'.pc = pc /\ rec'.uid = wl.uid /\ rec'.gen = wl.gen /\ rec'.content = wl.content
    BY <2>1 DEF NoReconcile
  <2>4. Reported' = Reported  BY <2>1 DEF Reported
  <2>5. Current'  BY <2>1, <2>2, <2>3, <2>4 DEF Current
  <2>6. OwnedInv' /\ SeenInv'  BY <1>a, <2>1, <2>3 DEF OwnedInv, SeenInv, Exists
  <2> QED  BY <2>2, <2>3, <2>5, <2>6 DEF QuietInv, CurrentInv, SettledInv
<1>3. CASE DeleteWorkloadAIBOM
  <2>1. /\ rec.pc = "delete" /\ StoreAIBOM(IF Exists(cache) THEN NoAIBOM ELSE aibom)
        /\ rec' = NoReconcile /\ UNCHANGED <<wl, env, cache, queue>>
    BY <1>3 DEF DeleteWorkloadAIBOM, Done
  <2>2. aibom' = IF Exists(cache) THEN NoAIBOM ELSE aibom  BY <2>1 DEF StoreAIBOM
  <2>3. SeenInv'  BY <1>a, <2>1, StoreSeen
  <2>4. OwnedInv'  BY <1>a, <2>1, <2>2, NotExists, NoObjects DEF OwnedInv
  <2>5. ~pending' => ~Exists(aibom')
    BY <2>1, <2>2, <2>3, NotExists DEF SeenInv, Exists
  <2>6. queue = "none" => ~Reported'
    BY <2>1 DEF QuietInv, CurrentInv, Current, Reported
  <2>7. SettledInv'  BY <2>1, <2>5, <2>6 DEF SettledInv, Settled
  <2> QED  BY <2>1, <2>3, <2>4, <2>7, NoObjects DEF QuietInv, CurrentInv
<1>4. CASE FastPath
  <2>1. PICK st : st = BuildFastPathStatus(rec, cache.st)  OBVIOUS
  <2>2. /\ rec.pc = "lookup" /\ rec' = [rec EXCEPT !.pc = "status", !.obj = cache, !.st = st]
        /\ UNCHANGED <<wl, env, aibom, cache, pending, queue>>
    BY <1>4, <2>1 DEF FastPath
  <2>3. rec'.pc = "status" /\ SameRead(rec', rec)  BY <1>b, <2>2 DEF SameRead, Reconcile
  <2>4. OwnedInv' /\ SeenInv'  BY <1>a, <2>2, <2>3 DEF OwnedInv, SeenInv, Exists, SameRead
  <2> QED  BY <2>2, <2>3, <2>4, MoveQuiet
<1>5. CASE DeferBootstrap
  BY <1>a, <1>5, RetryQuiet DEF DeferBootstrap, OwnedInv, SeenInv, Exists
<1>6. CASE FullPath
  <2>1. /\ rec.pc = "lookup" /\ rec' = [rec EXCEPT !.pc = "emit", !.obj = cache]
        /\ UNCHANGED <<wl, env, aibom, cache, pending, queue>>
    BY <1>6 DEF FullPath
  <2>2. rec'.pc = "emit" /\ SameRead(rec', rec)  BY <1>b, <2>1, ToEmit
  <2>3. OwnedInv' /\ SeenInv'  BY <1>a, <2>1, <2>2 DEF OwnedInv, SeenInv, Exists, SameRead
  <2> QED  BY <2>1, <2>2, <2>3, MoveQuiet
<1>7. CASE EmitToExternalSinks
  <2>1. PICK failed : rec' = [rec EXCEPT !.pc = "create", !.st = BuildStatus(rec, failed)]
    BY <1>7 DEF EmitToExternalSinks
  <2>2. rec.pc = "emit" /\ UNCHANGED <<wl, env, aibom, cache, pending, queue>>
    BY <1>7 DEF EmitToExternalSinks
  <2>3. rec'.pc = "create" /\ SameRead(rec', rec)  BY <1>b, <2>1 DEF SameRead, Reconcile
  <2>4. OwnedInv' /\ SeenInv'  BY <1>a, <2>2, <2>3 DEF OwnedInv, SeenInv, Exists, SameRead
  <2> QED  BY <2>2, <2>3, <2>4, MoveQuiet
<1>8. CASE CreateAIBOM
  <2>1. /\ rec.pc = "create" /\ StoreAIBOM(NewAIBOM)
        /\ rec' = [rec EXCEPT !.pc = "status", !.obj = NewAIBOM]
        /\ UNCHANGED <<wl, env, cache, queue>>
    BY <1>8 DEF CreateAIBOM
  <2>2. rec'.pc = "status" /\ SameRead(rec', rec)  BY <1>b, <2>1, NewObject, ToStatusAsBuilt
  <2>3. SeenInv'  BY <1>a, <2>1, StoreSeen
  <2>4. aibom'.owner = rec.uid /\ rec.uid # 0
    BY <1>a, <2>1, NewObject DEF StoreAIBOM, OwnedInv
  <2>5. OwnedInv'  BY <2>2, <2>4 DEF OwnedInv, SameRead
  <2> QED  BY <2>1, <2>2, <2>3, <2>5, MoveQuiet
<1>9. CASE KeepAIBOM
  <2>1. /\ rec.pc = "create" /\ rec' = [rec EXCEPT !.pc = "status", !.obj = cache]
        /\ UNCHANGED <<wl, env, aibom, cache, pending, queue>>
    BY <1>9 DEF KeepAIBOM
  <2>2. rec'.pc = "status" /\ SameRead(rec', rec)  BY <1>b, <2>1, ToStatusAsBuilt
  <2>3. OwnedInv' /\ SeenInv'  BY <1>a, <2>1, <2>2 DEF OwnedInv, SeenInv, Exists, SameRead
  <2> QED  BY <2>1, <2>2, <2>3, MoveQuiet
<1>10. CASE UpdateStatus
  <2>1. /\ rec.pc = "status" /\ Exists(aibom) /\ StoreStatus(rec.st)
        /\ UNCHANGED <<wl, env, cache, pending>>
    BY <1>10 DEF UpdateStatus, Matches
  <2>2. aibom'.st = rec.st /\ aibom'.born = aibom.born /\ aibom'.owner = aibom.owner
    BY <1>b, <1>c, <2>1, WritingStatus
  <2>3. SeenInv' /\ (Exists(aibom') => aibom'.owner # 0) /\ Exists(aibom')
    BY <1>a, <2>1, <2>2 DEF SeenInv, OwnedInv, Exists
  <2>4. CASE rec.st.hash = NoHash
    <3>1. Retry  BY <1>10, <2>4 DEF UpdateStatus
    <3> QED  BY <2>3, <3>1, RetryQuiet
  <2>5. CASE rec.st.hash # NoHash
    <3>1. rec' = NoReconcile /\ UNCHANGED queue  BY <1>10, <2>5 DEF UpdateStatus, Done
    <3>2. /\ rec.st.hash = rec.content.in /\ rec.st.of = rec.uid /\ rec.st.gen = rec.gen
          /\ rec.st.stale => rec.content.errs
      BY <2>1, <2>5 DEF WorkloadInv, StatusInv, StatusOf
    <3>3. ~rec.st.sinkFailed  BY <1>b, <1>c, <2>5, StatusFields DEF Honest, Retried
    <3>4. queue = "none" => Settled'
      <4> SUFFICES ASSUME queue = "none" PROVE Settled'  OBVIOUS
      <4>1. Current  BY <2>1 DEF QuietInv, CurrentInv
      <4>2. Reported' /\ rec.uid = wl'.uid /\ rec.gen = wl'.gen /\ rec.content = wl'.content
        BY <2>1, <4>1 DEF Current, Reported
      <4> QED  BY <2>2, <2>3, <3>2, <3>3, <4>2 DEF Settled, HashBOMInputs
    <3>5. OwnedInv'  BY <2>3, <3>1, NoObjects DEF OwnedInv
    <3> QED  BY <2>3, <3>1, <3>4, <3>5, NoObjects DEF QuietInv, CurrentInv, SettledInv
  <2> QED  BY <2>4, <2>5
<1>11. CASE CreateFails
  <2>1. Retry /\ UNCHANGED cache  BY <1>11 DEF CreateFails
  <2>2. CASE UNCHANGED <<aibom, pending>>
    BY <1>a, <2>1, <2>2, RetryQuiet DEF OwnedInv, SeenInv, Exists
  <2>3. ASSUME NEW a \in {aibom, NewAIBOM, AdoptedAIBOM}, StoreAIBOM(a)  PROVE  QuietInv'
    <3>1. SeenInv'  BY <1>a, <2>1, <2>3, StoreSeen
    <3>2. rec.uid # 0  BY <1>a, <1>11 DEF CreateFails, OwnedInv
    <3>3. Exists(aibom') => aibom'.owner # 0
      BY <1>a, <2>3, <3>2, NewObject, AdoptedObject DEF StoreAIBOM, OwnedInv
    <3> QED  BY <2>1, <3>1, <3>3, RetryQuiet
  <2> QED  BY <1>11, <2>2, <2>3 DEF CreateFails
<1>12. CASE StatusFails
  <2>1. Retry /\ UNCHANGED <<cache, pending>> /\ (StoreStatus(rec.st) \/ UNCHANGED aibom)
    BY <1>12 DEF StatusFails
  <2>2. aibom'.born = aibom.born /\ aibom'.owner = aibom.owner
    BY <1>b, <1>c, <2>1, WritingStatus
  <2>3. SeenInv' /\ (Exists(aibom') => aibom'.owner # 0)
    BY <1>a, <2>1, <2>2 DEF SeenInv, OwnedInv, Exists
  <2> QED  BY <2>1, <2>3, RetryQuiet
<1>13. CASE AdoptAIBOM
  <2>1. /\ rec.pc = "create" /\ StoreAIBOM(AdoptedAIBOM)
        /\ rec' = [rec EXCEPT !.pc = "status", !.obj = AdoptedAIBOM]
        /\ UNCHANGED <<wl, env, cache, queue>>
    BY <1>13 DEF AdoptAIBOM
  <2>2. rec'.pc = "status" /\ SameRead(rec', rec)
    BY <1>b, <2>1, AdoptedObject, ToStatusAsBuilt
  <2>3. SeenInv'  BY <1>a, <2>1, StoreSeen
  <2>4. aibom'.owner = rec.uid /\ rec.uid # 0
    BY <1>a, <2>1, AdoptedObject DEF StoreAIBOM, OwnedInv
  <2>5. OwnedInv'  BY <2>2, <2>4 DEF OwnedInv, SameRead
  <2> QED  BY <2>1, <2>2, <2>3, <2>5, MoveQuiet
<1> QED  BY <1>1, <1>2, <1>3, <1>4, <1>5, <1>6, <1>7, <1>8, <1>9, <1>10, <1>11, <1>12, <1>13
         DEF ReconcileStep

\* The second invariant is inductive, given the first.
LEMMA QuietNext == WorkloadInv /\ QuietInv /\ [Next]_vars => QuietInv'
<1> SUFFICES ASSUME WorkloadInv, QuietInv, [Next]_vars PROVE QuietInv'  OBVIOUS
<1>1. CASE UNCHANGED vars
  BY <1>1 DEF vars, QuietInv, OwnedInv, SeenInv, CurrentInv, SettledInv, Current, Settled,
              Reported, Exists
<1>2. CASE Next  BY <1>2, QuietEnvirons, QuietReconcile, QuietFailures DEF Next
<1> QED  BY <1>1, <1>2

\* No lost wake-up in the reconcile: when the queue holds nothing of the
\* workload and the cache has caught up, its AIBOM is what its content, its
\* exclusions and its extraction errors ask for, however the events, the
\* timers, the faults and the restarts were ordered.
THEOREM QuietIsReported == Spec => []QuietMeansReported
<1>1. QuietInv => QuietMeansReported  BY DEF QuietInv, SettledInv, Settled, QuietMeansReported
<1> QED  BY <1>1, QuietInit, QuietNext, WorkloadInvariant, PTL DEF Spec

-----------------------------------------------------------------------------
(* Refinement: the reconcile implements AIBOMLifecycle.  A write of the      *)
(* status matches the revision of the object that was read; since a revision *)
(* is given once, the object that was read is then the object that is        *)
(* overwritten, and what was computed from it is a step from it.             *)

\* Equal revisions are the same object; a revision is given once.
VersionInv ==
  /\ aibom.rv <= rev /\ cache.rv <= rev /\ rec.obj.rv <= rev
  /\ IF Exists(aibom) THEN aibom.rv # 0 ELSE aibom = NoAIBOM
  /\ Matches(cache) => cache = aibom
  /\ Matches(rec.obj) => rec.obj = aibom

\* What the full path has built after the sinks answered.
Complete(st, d) ==
  /\ st.reconciled /\ st.ready
  /\ st.sinkFailed <=> st.hash = NoHash
  /\ st.hash # NoHash => st.hash \in Inputs /\ \A s \in st.sinks : st.hash \in d[s]
  /\ st.stale <=> st.errors = StaleThreshold

\* The status to be written is a refreshed copy of the one that was read, or
\* that of a document built and offered to the sinks, for an AIBOM of the same
\* incarnation.
Copied(r) == r.obj.st.hash # NoHash /\ r.st = BuildFastPathStatus(r, r.obj.st)
BuiltInv ==
  /\ rec.pc = "create" => Complete(rec.st, delivered)
  /\ rec.pc = "status" =>
       \/ Copied(rec)
       \/ Complete(rec.st, delivered) /\ rec.obj.owner = rec.uid

\* Incarnations are numbered in the order of creation; a reconcile is of the
\* current one or of an earlier one, and so are the owner of the AIBOM and the
\* incarnation it has observed.
UidInv ==
  /\ wl.uid \in {0, used.uids}
  /\ aibom.owner <= used.uids /\ aibom.st.of <= used.uids
  /\ rec.pc # "idle" =>
       rec.uid <= used.uids /\ aibom.owner <= rec.uid /\ aibom.st.of <= rec.uid

\* The generation that was read is at least the one observed of the same
\* incarnation, and at most the workload's.
GenerationInv ==
  /\ rec.pc # "idle" /\ rec.uid = wl.uid => rec.gen <= wl.gen
  /\ wl.uid # 0 /\ aibom.st.of = wl.uid => aibom.st.gen <= wl.gen
  /\ rec.pc # "idle" /\ aibom.st.of = rec.uid => aibom.st.gen <= rec.gen

LifecycleInv == VersionInv /\ BuiltInv /\ UidInv /\ GenerationInv

\* A reconcile that ends and one that begins hold no object.
LEMMA NoObject ==
  /\ NoReconcile.obj = NoAIBOM /\ NoAIBOM.rv = 0 /\ NoAIBOM.owner = 0 /\ ~Exists(NoAIBOM)
  BY DEF NoReconcile, NoAIBOM, Exists

\* What any step does to the versions: the AIBOM stays, goes, or gets the
\* next revision; the cache stays or catches up; the reconcile keeps its
\* object, drops it, or takes the cached or the stored one.
ObjectStep ==
  /\ rev' \in {rev, rev + 1}
  /\ \/ aibom' \in {aibom, NoAIBOM}
     \/ Exists(aibom') /\ aibom'.rv = rev + 1 /\ rev' = rev + 1
  /\ cache' \in {cache, aibom'}
  /\ rec'.obj \in {rec.obj, NoAIBOM, cache', aibom'}

\* A status is written to an AIBOM that exists and gives it a new revision.
LEMMA StoredVersion ==
  ASSUME WorkloadInv, Exists(aibom), NEW st, StoreStatus(st)
  PROVE  /\ Exists(aibom') /\ aibom'.rv = rev + 1 /\ rev' = rev + 1
         /\ aibom'.st = st /\ aibom'.owner = aibom.owner
  BY DEF WorkloadInv, TypeOK, StoreStatus, Exists, AIBOM

\* The same for the status of a failed scrape or build.
LEMMA FailedVersion ==
  ASSUME WorkloadInv, persistFailureStatus
  PROVE  \/ UNCHANGED <<aibom, rev>>
         \/ Exists(aibom') /\ aibom'.rv = rev + 1 /\ rev' = rev + 1
<1>1. CASE Exists(cache) /\ Matches(cache)
  BY <1>1, StoredVersion DEF persistFailureStatus, Matches
<1>2. CASE ~(Exists(cache) /\ Matches(cache))  BY <1>2 DEF persistFailureStatus
<1> QED  BY <1>1, <1>2

\* Every step is an ObjectStep.
LEMMA ObjectSteps == WorkloadInv /\ [Next]_vars => ObjectStep
<1> SUFFICES ASSUME WorkloadInv, [Next]_vars PROVE ObjectStep  OBVIOUS
<1>a. rec \in Reconcile  BY DEF WorkloadInv, TypeOK
<1>1. CASE \/ CreateWorkload \/ DeleteWorkload \/ WorkloadChanges \/ ExclusionChanges
           \/ SinksChange \/ TimerFires \/ WorkloadNotFound \/ ReadFails \/ UNCHANGED vars
  <2>1. UNCHANGED <<aibom, cache, rev, rec>>
    BY <1>1 DEF CreateWorkload, DeleteWorkload, WorkloadChanges, ExclusionChanges,
                SinksChange, TimerFires, WorkloadNotFound, ReadFails, vars
  <2> QED  BY <2>1 DEF ObjectStep
<1>2. CASE RemoveAIBOM \/ GarbageCollect
  <2>1. aibom' = NoAIBOM /\ UNCHANGED <<cache, rev, rec>>
    BY <1>2 DEF RemoveAIBOM, GarbageCollect, StoreAIBOM
  <2> QED  BY <2>1 DEF ObjectStep
<1>3. CASE CacheSync \/ Restart
  <2>1. cache' = aibom /\ rec' \in {rec, NoReconcile} /\ UNCHANGED <<aibom, rev>>
    BY <1>3 DEF CacheSync, Restart
  <2> QED  BY <2>1, NoObject DEF ObjectStep
<1>4. CASE BeginReconcile
  <2>1. rec'.obj = NoAIBOM /\ UNCHANGED <<aibom, cache, rev>>
    BY <1>4 DEF BeginReconcile, NoReconcile
  <2> QED  BY <2>1 DEF ObjectStep
<1>5. CASE DeleteWorkloadAIBOM \/ DeleteFails \/ DeferBootstrap
  <2>1. aibom' \in {aibom, NoAIBOM} /\ rec' = NoReconcile /\ UNCHANGED <<cache, rev>>
    BY <1>5 DEF DeleteWorkloadAIBOM, DeleteFails, DeferBootstrap, StoreAIBOM, Done, Retry
  <2> QED  BY <2>1, NoObject DEF ObjectStep
<1>6. CASE FastPath \/ FullPath \/ KeepAIBOM
  <2>1. rec'.obj = cache /\ UNCHANGED <<aibom, cache, rev>>
    BY <1>a, <1>6 DEF FastPath, FullPath, KeepAIBOM, Reconcile
  <2> QED  BY <2>1 DEF ObjectStep
<1>7. CASE EmitToExternalSinks
  <2>1. rec'.obj = rec.obj /\ UNCHANGED <<aibom, cache, rev>>
    BY <1>a, <1>7 DEF EmitToExternalSinks, Reconcile
  <2> QED  BY <2>1 DEF ObjectStep
<1>8. CASE CreateAIBOM
  <2>1. aibom' = NewAIBOM /\ rec'.obj = NewAIBOM /\ rev' = rev + 1 /\ UNCHANGED cache
    BY <1>a, <1>8 DEF CreateAIBOM, StoreAIBOM, Reconcile
  <2>2. Exists(NewAIBOM) /\ NewAIBOM.rv = rev + 1
    BY DEF NewAIBOM, Exists, WorkloadInv, TypeOK
  <2> QED  BY <2>1, <2>2 DEF ObjectStep
<1>9. CASE CreateFails
  <2>1. rec' = NoReconcile /\ UNCHANGED cache  BY <1>9 DEF CreateFails, Retry
  <2>2. \/ UNCHANGED <<aibom, rev>>
        \/ aibom' \in {aibom, NewAIBOM} /\ rev' = rev + 1
        \/ aibom' \in {aibom, AdoptedAIBOM} /\ Exists(aibom) /\ rev' = rev + 1
    BY <1>9 DEF CreateFails, StoreAIBOM, Matches
  <2>3. Exists(NewAIBOM) /\ NewAIBOM.rv = rev + 1
    BY DEF NewAIBOM, Exists, WorkloadInv, TypeOK
  <2>4. Exists(aibom) => Exists(AdoptedAIBOM) /\ AdoptedAIBOM.rv = rev + 1
    BY AdoptedObject DEF Exists
  <2> QED  BY <2>1, <2>2, <2>3, <2>4, NoObject DEF ObjectStep
<1>10. CASE UpdateStatus \/ StatusFails
  <2>1. /\ rec' = NoReconcile /\ UNCHANGED cache
        /\ (Exists(aibom) /\ StoreStatus(rec.st)) \/ UNCHANGED <<aibom, rev>>
    BY <1>10 DEF UpdateStatus, StatusFails, Done, Retry, Matches
  <2> QED  BY <2>1, NoObject, StoredVersion DEF ObjectStep
<1>11. CASE ScrapeFails \/ BuildFails
  <2>1. rec' \in {rec, NoReconcile} /\ UNCHANGED cache /\ persistFailureStatus
    BY <1>11 DEF ScrapeFails, BuildFails, Retry
  <2> QED  BY <2>1, NoObject, FailedVersion DEF ObjectStep
<1>12. CASE AdoptAIBOM
  <2>1. /\ aibom' = AdoptedAIBOM /\ rec'.obj = AdoptedAIBOM /\ rev' = rev + 1 /\ UNCHANGED cache
        /\ Exists(aibom)
    BY <1>a, <1>12 DEF AdoptAIBOM, StoreAIBOM, Matches, Reconcile
  <2>2. Exists(AdoptedAIBOM) /\ AdoptedAIBOM.rv = rev + 1  BY <2>1, AdoptedObject DEF Exists
  <2> QED  BY <2>1, <2>2 DEF ObjectStep
<1> QED  BY <1>1, <1>2, <1>3, <1>4, <1>5, <1>6, <1>7, <1>8, <1>9, <1>10, <1>11, <1>12
         DEF Next, Environs, ReconcileStep, Failures

\* Such a step keeps the versions apart.
LEMMA VersionNext ==
  ASSUME WorkloadInv, VersionInv, ObjectStep
  PROVE  VersionInv'
<1>1. /\ rev \in Nat /\ aibom \in AIBOM /\ cache \in AIBOM /\ rec.obj \in AIBOM
  BY ReconcileFields DEF WorkloadInv, TypeOK
<1>2. aibom.rv \in Nat /\ cache.rv \in Nat /\ rec.obj.rv \in Nat  BY <1>1, ObjectFields
<1>3. rev' \in Nat /\ rev <= rev'  BY <1>1 DEF ObjectStep
<1>4. /\ aibom'.rv <= rev'
      /\ IF Exists(aibom') THEN aibom'.rv # 0 ELSE aibom' = NoAIBOM
  <2>1. CASE aibom' \in {aibom, NoAIBOM}  BY <1>1, <1>2, <1>3, <2>1, NoObject DEF VersionInv
  <2>2. CASE Exists(aibom') /\ aibom'.rv = rev + 1 /\ rev' = rev + 1  BY <1>1, <2>2
  <2> QED  BY <2>1, <2>2 DEF ObjectStep
\* An object that agreed with the old AIBOM agrees with the new one: an old
\* object cannot have the new revision.
<1>5. ASSUME NEW a, a.rv \in Nat, a.rv <= rev,
             Exists(aibom) /\ a.rv = aibom.rv => a = aibom,
             Exists(aibom'), a.rv = aibom'.rv
      PROVE  a = aibom'
  BY <1>1, <1>5, NoObject DEF ObjectStep
<1>6. NoAIBOM.rv <= rev' /\ ~(Exists(aibom') /\ NoAIBOM.rv = aibom'.rv)
  BY <1>3, <1>4, NoObject
<1>7. cache'.rv <= rev' /\ (Exists(aibom') /\ cache'.rv = aibom'.rv => cache' = aibom')
  <2>1. CASE cache' = cache  BY <1>1, <1>2, <1>3, <1>5, <2>1 DEF VersionInv, Matches
  <2>2. CASE cache' = aibom'  BY <1>4, <2>2
  <2> QED  BY <2>1, <2>2 DEF ObjectStep
<1>8. rec'.obj.rv <= rev' /\ (Exists(aibom') /\ rec'.obj.rv = aibom'.rv => rec'.obj = aibom')
  <2>1. CASE rec'.obj = rec.obj  BY <1>1, <1>2, <1>3, <1>5, <2>1 DEF VersionInv, Matches
  <2>2. CASE rec'.obj = NoAIBOM  BY <1>6, <2>2
  <2>3. CASE rec'.obj = cache'  BY <1>7, <2>3
  <2>4. CASE rec'.obj = aibom'  BY <1>4, <2>4
  <2> QED  BY <2>1, <2>2, <2>3, <2>4 DEF ObjectStep
<1> QED  BY <1>4, <1>7, <1>8 DEF VersionInv, Matches

\* The full path builds a complete status: a hash when every sink accepted.
LEMMA FullComplete ==
  ASSUME NEW r \in Reconcile, r.content.in \in Inputs, NEW failed,
         NEW d, failed = {} => \A s \in r.sinks : r.content.in \in d[s]
  PROVE  Complete(BuildStatus(r, failed), d)
<1> DEFINE base == [reconciled |-> TRUE, hash |-> IF failed = {} THEN HashBOMInputs(r.content) ELSE NoHash,
                    of |-> r.uid, gen |-> r.gen, ready |-> TRUE, sinkFailed |-> failed # {},
                    errors |-> 0, stale |-> FALSE, sinks |-> r.sinks]
           prev == r.obj.st.errors
           n == IF prev < StaleThreshold THEN prev + 1 ELSE prev
<1>1. /\ base.reconciled /\ base.ready /\ base.sinkFailed = (base.hash = NoHash) /\ ~base.stale
      /\ base.hash # NoHash => base.hash \in Inputs /\ \A s \in base.sinks : base.hash \in d[s]
  BY Constants DEF HashBOMInputs
<1>2. BuildStatus(r, failed) = IF r.content.errs
        THEN [base EXCEPT !.errors = n, !.stale = @ \/ n = StaleThreshold]
        ELSE [base EXCEPT !.errors = 0, !.stale = FALSE]
  BY DEF BuildStatus, recordExtractionErrors
<1>3. base.stale = FALSE  OBVIOUS
<1>4. DOMAIN base =
        {"reconciled", "hash", "of", "gen", "ready", "sinkFailed", "errors", "stale", "sinks"}
  OBVIOUS
<1>5. base = [f \in DOMAIN base |-> base[f]]  OBVIOUS
<1>6. CASE r.content.errs
  <2>1. BuildStatus(r, failed) = [base EXCEPT !.errors = n, !.stale = (n = StaleThreshold)]
    BY <1>2, <1>3, <1>6
  <2> HIDE DEF base, n
  <2> QED  BY <1>1, <1>4, <1>5, <2>1 DEF Complete
<1>7. CASE ~r.content.errs
  <2>1. BuildStatus(r, failed) = [base EXCEPT !.errors = 0, !.stale = FALSE]  BY <1>2, <1>7
  <2>2. StaleThreshold # 0  BY Constants
  <2> HIDE DEF base, n
  <2> QED  BY <1>1, <1>4, <1>5, <2>1, <2>2 DEF Complete
<1> QED  BY <1>6, <1>7

\* The status to be written is always a copy or complete.
LEMMA BuiltNext == WorkloadInv /\ BuiltInv /\ [Next]_vars => BuiltInv'
<1> SUFFICES ASSUME WorkloadInv, BuiltInv, [Next]_vars PROVE BuiltInv'  OBVIOUS
<1>a. rec \in Reconcile /\ cache \in AIBOM /\ rev \in Nat /\ rec.st \in AIBOMStatus
  BY ReconcileFields DEF WorkloadInv, TypeOK
<1>1. CASE UNCHANGED <<rec, delivered>>  BY <1>1 DEF BuiltInv, Copied, BuildFastPathStatus
<1>2. CASE rec' = NoReconcile  BY <1>2, NoObjects DEF BuiltInv
<1>3. CASE BeginReconcile
  <2>1. rec'.pc \in {"delete", "lookup"}  BY <1>3 DEF BeginReconcile, NoReconcile
  <2> QED  BY <2>1 DEF BuiltInv
<1>4. CASE FastPath
  <2>1. PICK st : st = BuildFastPathStatus(rec, cache.st)  OBVIOUS
  <2>2. st \in AIBOMStatus  BY <1>a, <2>1, FastStatus, ObjectFields DEF WorkloadInv
  <2>3. /\ rec' = [rec EXCEPT !.pc = "status", !.obj = cache, !.st = st]
        /\ rec.pc = "lookup" /\ cache.st.hash = rec.content.in
    BY <1>4, <2>1 DEF FastPath, HashBOMInputs
  <2>4. /\ rec'.st = st /\ rec'.obj = cache /\ rec'.uid = rec.uid /\ rec'.gen = rec.gen
        /\ rec'.content = rec.content
        /\ rec'.pc = "status"
    BY <1>a, <2>3 DEF Reconcile
  <2>5. cache.st.hash # NoHash  BY <2>3, Constants DEF WorkloadInv, ScrapedInv
  <2>6. Copied(rec')  BY <2>1, <2>4, <2>5 DEF Copied, BuildFastPathStatus
  <2> QED  BY <2>4, <2>6 DEF BuiltInv
<1>5. CASE FullPath
  <2>1. rec'.pc = "emit"  BY <1>a, <1>5 DEF FullPath, Reconcile
  <2> QED  BY <2>1 DEF BuiltInv
<1>6. CASE EmitToExternalSinks
  <2>1. PICK failed \in SUBSET rec.sinks :
          /\ delivered' = [s \in Sinks |-> IF s \in rec.sinks \ failed
                             THEN delivered[s] \cup {HashBOMInputs(rec.content)} ELSE delivered[s]]
          /\ rec' = [rec EXCEPT !.pc = "create", !.st = BuildStatus(rec, failed)]
    BY <1>6 DEF EmitToExternalSinks
  <2>2. rec.content.in \in Inputs /\ rec.sinks \subseteq Sinks
    BY <1>a, <1>6, ReconcileFields DEF EmitToExternalSinks, WorkloadInv, ScrapedInv
  <2>3. failed = {} => \A s \in rec.sinks : rec.content.in \in delivered'[s]
    BY <2>1, <2>2 DEF HashBOMInputs
  <2>4. PICK st : st = BuildStatus(rec, failed)  OBVIOUS
  <2>5. Complete(st, delivered')  BY <1>a, <2>2, <2>3, <2>4, FullComplete
  <2>6. rec'.st = st /\ rec'.pc = "create"  BY <1>a, <2>1, <2>4 DEF Reconcile
  <2> QED  BY <2>5, <2>6 DEF BuiltInv
<1>7. CASE CreateAIBOM \/ KeepAIBOM \/ AdoptAIBOM
  <2>1. PICK a : a.owner = rec.uid /\ rec' = [rec EXCEPT !.pc = "status", !.obj = a]
    <3>1. NewAIBOM.owner = rec.uid /\ AdoptedAIBOM.owner = rec.uid  BY NewObject, AdoptedObject
    <3> QED  BY <1>7, <3>1 DEF CreateAIBOM, KeepAIBOM, AdoptAIBOM
  <2>2. rec'.pc = "status" /\ rec'.st = rec.st /\ rec'.obj = a /\ rec'.uid = rec.uid
    BY <1>a, <2>1 DEF Reconcile
  <2>3. rec.pc = "create" /\ UNCHANGED delivered  BY <1>7 DEF CreateAIBOM, KeepAIBOM, AdoptAIBOM
  <2> QED  BY <2>1, <2>2, <2>3 DEF BuiltInv
<1> QED
  BY <1>1, <1>2, <1>3, <1>4, <1>5, <1>6, <1>7
  DEF Next, Environs, ReconcileStep, Failures, CreateWorkload, DeleteWorkload, WorkloadChanges,
      ExclusionChanges, SinksChange, RemoveAIBOM, GarbageCollect, CacheSync, TimerFires, Restart,
      WorkloadNotFound, DeleteWorkloadAIBOM, DeferBootstrap, UpdateStatus, CreateFails, StatusFails,
      ReadFails, DeleteFails, ScrapeFails, BuildFails, Done, Retry, vars

\* Incarnations and generations, as numbers.
LEMMA Numbers ==
  ASSUME WorkloadInv
  PROVE  /\ wl.uid \in Nat /\ wl.gen \in Nat /\ used.uids \in Nat /\ rec.uid \in Nat /\ rec.gen \in Nat
         /\ aibom.owner \in Nat /\ aibom.st.of \in Nat /\ aibom.st.gen \in Nat
  BY ReconcileFields, ObjectFields, StatusFields DEF WorkloadInv, TypeOK, Workload

\* What a step that leaves the workload alone does to the AIBOM: it goes,
\* stays or is adopted with what it has observed, observes what the reconcile
\* in progress read, or is created by it.
SameObserved == aibom'.st.of = aibom.st.of /\ aibom'.st.gen = aibom.st.gen
DocumentStep ==
  \/ aibom' = NoAIBOM
  \/ aibom'.owner = aibom.owner /\ SameObserved
  \/ /\ rec.pc # "idle" /\ aibom'.owner = aibom.owner
     /\ aibom'.st.of = rec.uid /\ aibom'.st.gen = rec.gen
  \/ rec.pc # "idle" /\ aibom'.owner = rec.uid /\ SameObserved
  \/ rec.pc # "idle" /\ aibom'.owner = rec.uid /\ aibom'.st.of = 0 /\ aibom'.st.gen = 0

\* The reconcile in progress goes on with what it read, or is over.
GoesOn == rec'.pc = "idle" \/ (rec.pc # "idle" /\ rec'.uid = rec.uid /\ rec'.gen = rec.gen)

\* Such steps keep the numbers in order, for a reconcile is never ahead of
\* the workload and the document never ahead of the reconcile.
LEMMA NumbersStay ==
  ASSUME WorkloadInv, UidInv, GenerationInv, DocumentStep, GoesOn,
         UNCHANGED wl, used'.uids = used.uids
  PROVE  UidInv' /\ GenerationInv'
<1>a. /\ wl.uid \in Nat /\ wl.gen \in Nat /\ used.uids \in Nat /\ rec.uid \in Nat /\ rec.gen \in Nat
      /\ aibom.owner \in Nat /\ aibom.st.of \in Nat /\ aibom.st.gen \in Nat
  BY Numbers
<1>1. CASE aibom' = NoAIBOM
  <2>1. aibom'.owner = 0 /\ aibom'.st.of = 0 /\ aibom'.st.gen = 0
    BY <1>1, NoObject, NoObjects DEF NoStatus
  <2>2. rec'.pc # "idle" => rec'.gen \in Nat  BY <1>a DEF GoesOn
  <2> QED  BY <1>a, <2>1, <2>2 DEF UidInv, GenerationInv, GoesOn
<1>2. CASE aibom'.owner = aibom.owner /\ SameObserved
  BY <1>a, <1>2 DEF UidInv, GenerationInv, GoesOn, SameObserved
<1>3. CASE /\ rec.pc # "idle" /\ aibom'.owner = aibom.owner
           /\ aibom'.st.of = rec.uid /\ aibom'.st.gen = rec.gen
  BY <1>a, <1>3 DEF UidInv, GenerationInv, GoesOn
<1>4. CASE rec.pc # "idle" /\ aibom'.owner = rec.uid /\ SameObserved
  BY <1>a, <1>4 DEF UidInv, GenerationInv, GoesOn, SameObserved
<1>5. CASE rec.pc # "idle" /\ aibom'.owner = rec.uid /\ aibom'.st.of = 0 /\ aibom'.st.gen = 0
  BY <1>a, <1>5 DEF UidInv, GenerationInv, GoesOn
<1> QED  BY <1>1, <1>2, <1>3, <1>4, <1>5 DEF DocumentStep

\* The workload's own steps: a new incarnation is later than everything, and
\* a generation only grows.
LEMMA WorkloadNumbers ==
  ASSUME WorkloadInv, OwnedInv, UidInv, GenerationInv,
         CreateWorkload \/ DeleteWorkload \/ WorkloadChanges
  PROVE  UidInv' /\ GenerationInv'
<1>a. /\ wl.uid \in Nat /\ wl.gen \in Nat /\ used.uids \in Nat /\ rec.uid \in Nat /\ rec.gen \in Nat
      /\ aibom.owner \in Nat /\ aibom.st.of \in Nat /\ aibom.st.gen \in Nat
  BY Numbers
<1>b. UNCHANGED <<aibom, rec>>  BY DEF CreateWorkload, DeleteWorkload, WorkloadChanges
<1>c. used \in [uids : Nat, changes : Nat, faults : Nat] /\ wl \in Workload
  BY DEF WorkloadInv, TypeOK
<1>1. CASE CreateWorkload
  <2>1. used'.uids = used.uids + 1 /\ wl'.uid = used.uids + 1
    BY <1>c, <1>1 DEF CreateWorkload
  <2> QED  BY <1>a, <1>b, <2>1 DEF UidInv, GenerationInv
<1>2. CASE DeleteWorkload
  <2>1. used'.uids = used.uids /\ wl'.uid = 0
    BY <1>c, <1>2 DEF DeleteWorkload, Change, NoWorkload
  <2> QED  BY <1>a, <1>b, <2>1 DEF UidInv, GenerationInv, OwnedInv
<1>3. CASE WorkloadChanges
  <2>1. used'.uids = used.uids  BY <1>c, <1>3 DEF WorkloadChanges, Change
  <2>2. PICK c \in Content, g \in {wl.gen, wl.gen + 1} : wl' = [wl EXCEPT !.content = c, !.gen = g]
    BY <1>3 DEF WorkloadChanges
  <2>3. wl'.uid = wl.uid /\ wl'.gen = g  BY <1>c, <2>2 DEF Workload
  <2> QED  BY <1>a, <1>b, <2>1, <2>2, <2>3 DEF UidInv, GenerationInv
<1> QED  BY <1>1, <1>2, <1>3

\* What is written after a failed scrape or build is the status it copies.
LEMMA FailedDocument ==
  ASSUME WorkloadInv, VersionInv, persistFailureStatus
  PROVE  \/ UNCHANGED aibom
         \/ /\ Exists(aibom) /\ Exists(aibom') /\ aibom'.owner = aibom.owner
            /\ aibom'.st = [aibom.st EXCEPT !.ready = FALSE,
                              !.errors = IF @ < StaleThreshold THEN @ + 1 ELSE @]
<1>1. CASE Exists(cache) /\ Matches(cache)
  <2>1. cache = aibom /\ Exists(aibom)  BY <1>1 DEF VersionInv, Matches
  <2> QED  BY <1>1, <2>1, StoredVersion DEF persistFailureStatus
<1>2. CASE ~(Exists(cache) /\ Matches(cache))  BY <1>2 DEF persistFailureStatus
<1> QED  BY <1>1, <1>2

\* The status of a failed scrape or build keeps what was observed.
LEMMA FailedGeneration ==
  ASSUME WorkloadInv, VersionInv, persistFailureStatus
  PROVE  aibom'.owner = aibom.owner /\ SameObserved
<1>1. aibom.st \in AIBOMStatus  BY ObjectFields DEF WorkloadInv, TypeOK
<1> QED  BY <1>1, FailedDocument DEF AIBOMStatus, SameObserved

\* The incarnations and generations stay in order.
LEMMA NumbersNext ==
  WorkloadInv /\ OwnedInv /\ LifecycleInv /\ [Next]_vars => UidInv' /\ GenerationInv'
<1> SUFFICES ASSUME WorkloadInv, OwnedInv, LifecycleInv, [Next]_vars PROVE UidInv' /\ GenerationInv'
  OBVIOUS
<1>a. /\ rec \in Reconcile /\ used \in [uids : Nat, changes : Nat, faults : Nat]
      /\ VersionInv /\ UidInv /\ GenerationInv
  BY DEF WorkloadInv, TypeOK, LifecycleInv
<1>b. Change \/ Fault => used'.uids = used.uids  BY <1>a DEF Change, Fault
<1>1. CASE CreateWorkload \/ DeleteWorkload \/ WorkloadChanges  BY <1>a, <1>1, WorkloadNumbers
<1>2. CASE BeginReconcile
  <2>1. rec'.uid = wl.uid /\ rec'.gen = wl.gen /\ wl.uid # 0 /\ UNCHANGED <<wl, aibom, used>>
    BY <1>2 DEF BeginReconcile, NoReconcile
  <2>2. /\ wl.uid \in Nat /\ wl.gen \in Nat /\ used.uids \in Nat
        /\ aibom.owner \in Nat /\ aibom.st.of \in Nat /\ aibom.st.gen \in Nat
    BY Numbers
  <2> QED  BY <1>a, <2>1, <2>2 DEF UidInv, GenerationInv
<1>3. CASE \/ ExclusionChanges \/ SinksChange \/ TimerFires \/ CacheSync \/ Restart
           \/ WorkloadNotFound \/ ReadFails \/ DeferBootstrap \/ UNCHANGED vars
  <2>1. /\ UNCHANGED <<wl, aibom>> /\ used'.uids = used.uids
        /\ rec' \in {rec, NoReconcile}
    BY <1>b, <1>3 DEF ExclusionChanges, SinksChange, TimerFires, CacheSync, Restart,
                      WorkloadNotFound, ReadFails, DeferBootstrap, Retry, vars
  <2> QED  BY <1>a, <2>1, NoObjects, NumbersStay DEF DocumentStep, SameObserved, GoesOn
<1>4. CASE RemoveAIBOM \/ GarbageCollect \/ DeleteWorkloadAIBOM \/ DeleteFails
  <2>1. /\ UNCHANGED wl /\ used'.uids = used.uids
        /\ aibom' \in {aibom, NoAIBOM} /\ rec' \in {rec, NoReconcile}
    BY <1>b, <1>4 DEF RemoveAIBOM, GarbageCollect, DeleteWorkloadAIBOM, DeleteFails, StoreAIBOM,
                      Done, Retry
  <2> QED  BY <1>a, <2>1, NoObjects, NumbersStay DEF DocumentStep, SameObserved, GoesOn
<1>5. CASE FastPath \/ FullPath \/ EmitToExternalSinks \/ KeepAIBOM
  <2>1. /\ UNCHANGED <<wl, aibom>> /\ used'.uids = used.uids
        /\ rec.pc # "idle" /\ rec'.uid = rec.uid /\ rec'.gen = rec.gen
    BY <1>a, <1>b, <1>5 DEF FastPath, FullPath, EmitToExternalSinks, KeepAIBOM, Reconcile
  <2> QED  BY <1>a, <2>1, NumbersStay DEF DocumentStep, SameObserved, GoesOn
<1>6. CASE CreateAIBOM \/ AdoptAIBOM \/ CreateFails
  <2>1. /\ UNCHANGED wl /\ used'.uids = used.uids /\ rec.pc # "idle"
        /\ aibom' \in {aibom, NewAIBOM, AdoptedAIBOM}
        /\ rec' = NoReconcile \/ (rec'.uid = rec.uid /\ rec'.gen = rec.gen)
    BY <1>a, <1>b, <1>6 DEF CreateAIBOM, AdoptAIBOM, CreateFails, StoreAIBOM, Retry, Reconcile
  <2>2. NewAIBOM.owner = rec.uid /\ NewAIBOM.st.of = 0 /\ NewAIBOM.st.gen = 0
    BY DEF NewAIBOM, NoStatus
  <2>3. AdoptedAIBOM.owner = rec.uid /\ AdoptedAIBOM.st = aibom.st  BY AdoptedObject
  <2>4. DocumentStep  BY <2>1, <2>2, <2>3 DEF DocumentStep, SameObserved
  <2> QED  BY <1>a, <2>1, <2>4, NoObjects, NumbersStay DEF GoesOn
<1>7. CASE UpdateStatus \/ StatusFails
  <2>1. /\ UNCHANGED wl /\ used'.uids = used.uids /\ rec.pc = "status" /\ rec' = NoReconcile
        /\ UNCHANGED aibom \/ (Exists(aibom) /\ StoreStatus(rec.st))
    BY <1>b, <1>7 DEF UpdateStatus, StatusFails, Done, Retry, Matches
  <2>2. rec.st.of = rec.uid /\ rec.st.gen = rec.gen  BY <2>1 DEF WorkloadInv, StatusInv, StatusOf
  <2> QED  BY <1>a, <2>1, <2>2, StoredVersion, NoObjects, NumbersStay
           DEF DocumentStep, SameObserved, GoesOn
<1>8. CASE ScrapeFails \/ BuildFails
  <2>1. /\ persistFailureStatus /\ UNCHANGED wl /\ used'.uids = used.uids
        /\ rec' \in {rec, NoReconcile}
    BY <1>b, <1>8 DEF ScrapeFails, BuildFails, Retry
  <2> QED  BY <1>a, <2>1, FailedGeneration, NoObjects, NumbersStay DEF DocumentStep, GoesOn
<1> QED  BY <1>1, <1>2, <1>3, <1>4, <1>5, <1>6, <1>7, <1>8
         DEF Next, Environs, ReconcileStep, Failures

\* The three parts hold when the manager starts.
LEMMA LifecycleInit == Init => LifecycleInv
<1> SUFFICES ASSUME Init PROVE LifecycleInv  OBVIOUS
<1>1. /\ aibom = NoAIBOM /\ cache = NoAIBOM /\ rec = NoReconcile /\ rev = 0 /\ used.uids = wl.uid
  BY DEF Init
<1>2. wl.uid \in Nat  BY InitInv DEF WorkloadInv, TypeOK, Workload
<1>3. VersionInv  BY <1>1, NoObject DEF VersionInv, Matches
<1>4. BuiltInv  BY <1>1, NoObjects DEF BuiltInv
<1>5. UidInv /\ GenerationInv  BY <1>1, <1>2, NoObject, NoObjects DEF UidInv, GenerationInv, NoStatus
<1> QED  BY <1>3, <1>4, <1>5 DEF LifecycleInv

\* Every step keeps the versions, the built status and the numbers.
LEMMA LifecycleNext == WorkloadInv /\ OwnedInv /\ LifecycleInv /\ [Next]_vars => LifecycleInv'
  BY ObjectSteps, VersionNext, BuiltNext, NumbersNext DEF LifecycleInv

\* The document, as the mapping has it.
Doc == [owner |-> aibom.owner, st |-> aibom.st]

\* No AIBOM is no document.
LEMMA NoDocument == aibom = NoAIBOM => Doc = L!NoDoc
  BY NoObject, NoObjects DEF Doc, L!NoDoc, L!NoStatus, NoStatus

\* The initial states are initial states of AIBOMLifecycle.
LEMMA RefineInit == Init => L!LInit
<1> SUFFICES ASSUME Init PROVE L!LInit  OBVIOUS
<1>1. Doc = L!NoDoc  BY NoDocument DEF Init
<1>2. wl.uid = used.uids /\ delivered = [s \in Sinks |-> {}]  BY DEF Init
<1> QED  BY <1>1, <1>2 DEF L!LInit, Doc

\* What a step leaves alone in the abstract specification.
SameDoc == UNCHANGED Doc
SameWorkload == UNCHANGED <<wl.uid, wl.gen, used.uids>>

\* A change of the workload is a WorkloadStep.
LEMMA RefineWorkload ==
  ASSUME WorkloadInv, UidInv, CreateWorkload \/ DeleteWorkload \/ WorkloadChanges
  PROVE  L!WorkloadStep
<1>a. used \in [uids : Nat, changes : Nat, faults : Nat] /\ wl \in Workload
  BY DEF WorkloadInv, TypeOK
<1>b. UNCHANGED <<aibom, delivered>>  BY DEF CreateWorkload, DeleteWorkload, WorkloadChanges
<1>1. CASE CreateWorkload
  <2>1. wl.uid = 0 /\ wl'.uid = used.uids + 1 /\ used'.uids = used.uids + 1
    BY <1>a, <1>1 DEF CreateWorkload
  <2> QED  BY <1>a, <1>b, <2>1 DEF L!WorkloadStep
<1>2. CASE DeleteWorkload
  <2>1. wl'.uid = 0 /\ used'.uids = used.uids
    BY <1>a, <1>2 DEF DeleteWorkload, Change, NoWorkload
  <2> QED  BY <1>b, <2>1 DEF L!WorkloadStep
<1>3. CASE WorkloadChanges
  <2>1. used'.uids = used.uids  BY <1>a, <1>3 DEF WorkloadChanges, Change
  <2>2. PICK c \in Content, g \in {wl.gen, wl.gen + 1} : wl' = [wl EXCEPT !.content = c, !.gen = g]
    BY <1>3 DEF WorkloadChanges
  <2>3. wl'.uid = wl.uid /\ wl'.gen = g /\ wl.gen \in Nat  BY <1>a, <2>2 DEF Workload
  <2> QED  BY <1>b, <2>1, <2>2, <2>3 DEF L!WorkloadStep
<1> QED  BY <1>1, <1>2, <1>3

\* Whatever removes the AIBOM is a Delete.
LEMMA RefineDelete ==
  ASSUME aibom' = NoAIBOM, SameWorkload, UNCHANGED delivered
  PROVE  L!Delete
<1>1. Doc' = L!NoDoc  BY NoObject, NoObjects DEF Doc, L!NoDoc, L!NoStatus, NoStatus
<1> QED  BY <1>1 DEF L!Delete, Doc, SameWorkload

\* The emission is a Deliver to the sinks that did not fail.
LEMMA RefineDeliver ==
  ASSUME WorkloadInv, EmitToExternalSinks
  PROVE  \E h \in Inputs, S \in SUBSET Sinks : L!Deliver(h, S)
<1>1. PICK failed \in SUBSET rec.sinks :
        /\ used' = used \/ Fault
        /\ delivered' = [s \in Sinks |-> IF s \in rec.sinks \ failed
                           THEN delivered[s] \cup {HashBOMInputs(rec.content)} ELSE delivered[s]]
  BY DEF EmitToExternalSinks
<1>2. rec.content.in \in Inputs /\ rec.sinks \subseteq Sinks
  BY ReconcileFields DEF EmitToExternalSinks, WorkloadInv, TypeOK, ScrapedInv
<1>3. UNCHANGED <<wl, aibom>> /\ used'.uids = used.uids
  BY <1>1 DEF EmitToExternalSinks, Fault, WorkloadInv, TypeOK
<1>4. L!Deliver(rec.content.in, rec.sinks \ failed)
  BY <1>1, <1>3 DEF L!Deliver, HashBOMInputs
<1> QED  BY <1>2, <1>4

\* CreateOrUpdate of an AIBOM that is not there is a Create.
LEMMA RefineCreate ==
  ASSUME WorkloadInv, OwnedInv, LifecycleInv, rec.pc = "create", ~Exists(aibom), aibom' = NewAIBOM,
         SameWorkload, UNCHANGED delivered
  PROVE  L!Create(Doc'.owner)
<1>1. Doc = L!NoDoc  BY NoDocument DEF LifecycleInv, VersionInv
<1>2. Doc' = [owner |-> rec.uid, st |-> L!NoStatus]
  BY DEF Doc, NewAIBOM, NoStatus, L!NoStatus
<1>3. rec.uid \in Nat /\ rec.uid # 0 /\ rec.uid <= used.uids
  BY Numbers DEF OwnedInv, LifecycleInv, UidInv
<1> QED  BY <1>1, <1>2, <1>3 DEF L!Create, Doc, SameWorkload

\* The update that adopts an AIBOM matches the version that was read, which
\* an earlier incarnation owned: it is an Adopt.
LEMMA RefineAdopt ==
  ASSUME WorkloadInv, OwnedInv, LifecycleInv, rec.pc = "create", Foreign(cache), Matches(cache),
         aibom' = AdoptedAIBOM, SameWorkload, UNCHANGED delivered
  PROVE  L!Adopt(Doc'.owner)
<1>1. cache = aibom /\ Exists(aibom)  BY DEF LifecycleInv, VersionInv, Matches
<1>2. aibom.owner # 0 /\ aibom.owner < rec.uid /\ rec.uid <= used.uids
  BY <1>1, Numbers DEF Foreign, OwnedInv, LifecycleInv, UidInv
<1>3. Doc' = [Doc EXCEPT !.owner = rec.uid]  BY AdoptedObject DEF Doc
<1>4. Doc'.owner = rec.uid /\ Doc.owner = aibom.owner  BY <1>3 DEF Doc
<1> QED  BY <1>2, <1>3, <1>4 DEF L!Adopt, Doc, SameWorkload

\* A write of the status matches the version it was computed from: it is a
\* Refresh of the very document it replaces, or the publication of a new one.
LEMMA RefineStatus ==
  ASSUME WorkloadInv, OwnedInv, LifecycleInv, rec.pc = "status", Matches(rec.obj),
         StoreStatus(rec.st), SameWorkload, UNCHANGED delivered
  PROVE  L!Publish \/ \E errs \in BOOLEAN : L!Refresh(errs)
<1>a. rec \in Reconcile /\ aibom \in AIBOM /\ rec.st \in AIBOMStatus /\ aibom.st \in AIBOMStatus
  BY ReconcileFields, ObjectFields DEF WorkloadInv, TypeOK
<1>b. rec.content.errs \in BOOLEAN  BY <1>a, ReconcileFields DEF Content
<1>1. aibom = rec.obj /\ Exists(aibom)  BY DEF LifecycleInv, VersionInv, Matches
<1>2. aibom'.st = rec.st /\ aibom'.owner = aibom.owner /\ aibom.owner # 0
  BY <1>1, StoredVersion DEF OwnedInv
<1>3. rec.st.of = rec.uid /\ rec.st.gen = rec.gen  BY DEF WorkloadInv, StatusInv, StatusOf
<1>4. /\ aibom.st.of <= rec.uid /\ rec.uid <= used.uids
      /\ aibom.st.of = rec.uid => aibom.st.gen <= rec.gen
      /\ rec.uid = wl.uid => rec.gen <= wl.gen
  BY Numbers DEF LifecycleInv, UidInv, GenerationInv
<1>5. L!Observed(Doc'.st)  BY <1>2, <1>3, <1>4 DEF L!Observed, Doc
<1>6. CASE Complete(rec.st, delivered) /\ rec.obj.owner = rec.uid
  <2>1. L!Published(Doc'.st)  BY <1>2, <1>6 DEF L!Published, Complete, Doc
  <2>2. aibom.owner = rec.uid  BY <1>1, <1>6
  <2> QED  BY <1>2, <1>3, <1>5, <2>1, <2>2 DEF L!Publish, Doc, SameWorkload
<1>7. CASE Copied(rec)
  <2>1. rec.st = BuildFastPathStatus(rec, aibom.st) /\ aibom.st.hash # NoHash
    BY <1>1, <1>7 DEF Copied
  <2>2. rec.st = L!Refreshed(aibom.st, [of |-> rec.uid, gen |-> rec.gen], rec.content.errs)
    BY <1>a, <2>1 DEF BuildFastPathStatus, recordExtractionErrors, L!Refreshed, L!OneMore, AIBOMStatus
  <2>a. rec.st = L!Refreshed(aibom.st, rec.st, rec.content.errs)
    BY <1>3, <2>2 DEF L!Refreshed
  <2>3. Doc' = [Doc EXCEPT !.st = L!Refreshed(Doc.st, Doc'.st, rec.content.errs)]
    BY <1>2, <2>a DEF Doc
  <2>4. L!Refresh(rec.content.errs)
    BY <1>2, <1>5, <2>1, <2>3 DEF L!Refresh, Doc, SameWorkload
  <2> QED  BY <1>b, <2>4
<1> QED  BY <1>6, <1>7 DEF LifecycleInv, BuiltInv

\* A failed scrape or build is a MarkFailed, or changes nothing.
LEMMA RefineFailed ==
  ASSUME WorkloadInv, OwnedInv, LifecycleInv, persistFailureStatus, SameWorkload, UNCHANGED delivered
  PROVE  L!MarkFailed \/ SameDoc
<1>1. CASE UNCHANGED aibom  BY <1>1 DEF SameDoc, Doc
<1>2. CASE /\ Exists(aibom) /\ aibom'.owner = aibom.owner
           /\ aibom'.st = [aibom.st EXCEPT !.ready = FALSE,
                             !.errors = IF @ < StaleThreshold THEN @ + 1 ELSE @]
  <2>1. aibom.owner # 0  BY <1>2 DEF OwnedInv
  <2>2. aibom'.st = L!Failed(aibom.st)  BY <1>2 DEF L!Failed, L!OneMore
  <2>3. Doc' = [Doc EXCEPT !.st = L!Failed(@)]  BY <1>2, <2>2 DEF Doc
  <2> QED  BY <2>1, <2>3 DEF L!MarkFailed, Doc, SameWorkload
<1> QED  BY <1>1, <1>2, FailedDocument DEF LifecycleInv

\* Every step is a step of AIBOMLifecycle or leaves it alone.
LEMMA RefineNext ==
  WorkloadInv /\ OwnedInv /\ LifecycleInv /\ [Next]_vars => [L!LNext]_(L!lvars)
<1> SUFFICES ASSUME WorkloadInv, OwnedInv, LifecycleInv, [Next]_vars
             PROVE  L!LNext \/ (SameDoc /\ SameWorkload /\ UNCHANGED delivered)
  BY DEF L!lvars, SameDoc, SameWorkload, Doc
<1>a. used \in [uids : Nat, changes : Nat, faults : Nat]  BY DEF WorkloadInv, TypeOK
<1>b. Change \/ Fault => used'.uids = used.uids  BY <1>a DEF Change, Fault
<1>1. CASE CreateWorkload \/ DeleteWorkload \/ WorkloadChanges
  BY <1>1, RefineWorkload DEF L!LNext, LifecycleInv
<1>2. CASE \/ ExclusionChanges \/ SinksChange \/ TimerFires \/ CacheSync \/ Restart
           \/ WorkloadNotFound \/ BeginReconcile \/ ReadFails \/ DeferBootstrap
           \/ FastPath \/ FullPath \/ KeepAIBOM \/ UNCHANGED vars
  <2>1. UNCHANGED <<wl, aibom, delivered>> /\ used'.uids = used.uids
    BY <1>b, <1>2 DEF ExclusionChanges, SinksChange, TimerFires, CacheSync, Restart,
                      WorkloadNotFound, BeginReconcile, ReadFails, DeferBootstrap, FastPath,
                      FullPath, KeepAIBOM, vars
  <2> QED  BY <2>1 DEF SameDoc, SameWorkload, Doc
<1>3. CASE RemoveAIBOM \/ GarbageCollect \/ DeleteWorkloadAIBOM \/ DeleteFails
  <2>1. UNCHANGED <<wl, delivered>> /\ used'.uids = used.uids /\ aibom' \in {aibom, NoAIBOM}
    BY <1>b, <1>3 DEF RemoveAIBOM, GarbageCollect, DeleteWorkloadAIBOM, DeleteFails, StoreAIBOM
  <2> QED  BY <2>1, RefineDelete DEF L!LNext, SameDoc, SameWorkload, Doc
<1>4. CASE EmitToExternalSinks  BY <1>4, RefineDeliver DEF L!LNext
<1>5. CASE CreateAIBOM \/ AdoptAIBOM \/ CreateFails
  <2>1. /\ rec.pc = "create" /\ UNCHANGED <<wl, delivered>> /\ used'.uids = used.uids
        /\ \/ aibom' = aibom
           \/ ~Exists(aibom) /\ aibom' = NewAIBOM
           \/ Foreign(cache) /\ Matches(cache) /\ aibom' = AdoptedAIBOM
    BY <1>b, <1>5 DEF CreateAIBOM, AdoptAIBOM, CreateFails, StoreAIBOM
  <2>2. SameWorkload /\ UNCHANGED delivered  BY <2>1 DEF SameWorkload
  <2>3. CASE aibom' = aibom  BY <2>2, <2>3 DEF SameDoc, Doc
  <2>4. CASE ~Exists(aibom) /\ aibom' = NewAIBOM
    BY <2>1, <2>2, <2>4, RefineCreate DEF L!LNext, Doc
  <2>5. CASE Foreign(cache) /\ Matches(cache) /\ aibom' = AdoptedAIBOM
    BY <2>1, <2>2, <2>5, RefineAdopt DEF L!LNext, Doc
  <2> QED  BY <2>1, <2>3, <2>4, <2>5
<1>6. CASE UpdateStatus \/ StatusFails
  <2>1. /\ rec.pc = "status" /\ UNCHANGED <<wl, delivered>> /\ used'.uids = used.uids
        /\ UNCHANGED aibom \/ (Matches(rec.obj) /\ StoreStatus(rec.st))
    BY <1>b, <1>6 DEF UpdateStatus, StatusFails
  <2> QED  BY <2>1, RefineStatus DEF L!LNext, SameDoc, SameWorkload, Doc
<1>7. CASE ScrapeFails \/ BuildFails
  <2>1. persistFailureStatus /\ UNCHANGED <<wl, delivered>> /\ used'.uids = used.uids
    BY <1>b, <1>7 DEF ScrapeFails, BuildFails
  <2> QED  BY <2>1, RefineFailed DEF L!LNext, SameWorkload
<1> QED  BY <1>1, <1>2, <1>3, <1>4, <1>5, <1>6, <1>7 DEF Next, Environs, ReconcileStep, Failures

\* Every reachable state satisfies the invariant of the refinement: what is
\* overwritten is what was read, and generations are in order.
THEOREM LifecycleInvariant == Spec => []LifecycleInv
<1>1. QuietInv => OwnedInv  BY DEF QuietInv
<1> QED
  BY <1>1, QuietInit, QuietNext, LifecycleInit, LifecycleNext, WorkloadInvariant, PTL DEF Spec

\* The reconcile implements AIBOMLifecycle: behind the cache that lags, the
\* lost answers, the conflicts and the restarts, every write of a document's
\* status is one step from the document as it is, for all inputs, sinks and
\* thresholds and any number of incarnations, changes and faults.
THEOREM ReconcileImplementsLifecycle == Spec => ImplementsLifecycle
<1>1. QuietInv => OwnedInv  BY DEF QuietInv
<1> QED
  BY <1>1, RefineInit, RefineNext, QuietInit, QuietNext, LifecycleInvariant, WorkloadInvariant, PTL
  DEF Spec, ImplementsLifecycle, L!LSpec
=============================================================================
