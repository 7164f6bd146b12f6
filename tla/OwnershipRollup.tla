-------------------------- MODULE OwnershipRollup --------------------------
(***************************************************************************)
(* One workload, one AIBOM: which workload of a namespace gets a document  *)
(* of its own and which is rolled up into its owner's                      *)
(* (internal/controller/ownership_rollup.go, pod_ownership.go), while the  *)
(* allowlist changes, kinds come and go with their CRDs, objects are       *)
(* created and deleted and reads of a kind fail; and the fan-out that      *)
(* re-enqueues the workloads when the answer may have changed              *)
(* (allowlist_fanout.go, requestFanout and runFanout of the supervisor).   *)
(*                                                                         *)
(* The objects, their kinds and their controller references are constants; *)
(* an object stands for one UID, so an owner re-created under the same     *)
(* name is another object and the reference to it dangles.  Every workload *)
(* is one the scrapers match, in a namespace that is opted in.  The        *)
(* supervisor is kept to what it does to membership, runners and documents *)
(* (WatchSupervisor has its steps).                                        *)
(*                                                                         *)
(* Reads of the typed kinds are answered by the manager's informer caches, *)
(* each of which follows the API server in its own time, reads of every    *)
(* other kind and the hops of a walk by the API server.  A pod is nowhere  *)
(* read but from the cache that makes its events: it exists when that      *)
(* shows it.                                                               *)
(***************************************************************************)
EXTENDS Integers, Sequences, FiniteSetsExt, WorkloadKinds

CONSTANTS
  Objects,          \* the objects of the namespace, pods included
  KindOf,           \* [Objects -> kind]
  OwnerRef,         \* [Objects -> Objects \cup {Nil}], the controller reference
  Nil,
  rollupMaxDepth,   \* the bound of the walk, 6 in the code
  Disturbances,     \* what may happen, of AllDisturbances
  MaxDisturbances   \* bound: how often

AllDisturbances == {"swap", "crd", "outage", "object", "fanout"}

Kinds == {KindOf[o] : o \in Objects}
Reporting == Kinds \cap ReportingKinds
Managed == Reporting \cap ManagedKinds
Supervised == Reporting \cap SupervisedKinds
Workloads == {o \in Objects : KindOf[o] \in Reporting}
Pods == {o \in Objects : KindOf[o] = "Pod"}

ASSUME RollupConstants ==
  /\ OwnerRef \in [Objects -> Objects \cup {Nil}] /\ Nil \notin Objects
  /\ rollupMaxDepth \in Nat
  /\ Disturbances \subseteq AllDisturbances /\ MaxDisturbances \in Nat

VARIABLES
  exists,     \* the objects in the API server
  cached,     \* those the informer caches show, of CachedKinds
  present,    \* third-party kinds whose CRD is there and Ready
  broken,     \* kinds whose objects cannot be read, as in a conversion outage
  allow,      \* spec.discovery.workloadKinds of the stored snapshot
  tracked,    \* TrackedKinds
  replaced,   \* tracked kinds whose CRD of that generation (UID) is gone
  running,    \* third-party kinds with a running controller, in s.runners
  fanoutReq,  \* s.fanoutReq holds a request
  waiting,    \* TriggerContext calls that wait for the slot
  fanout,     \* the fan-out that holds the slot
  queue,      \* the work queues of the controllers
  rec,        \* rec[w]: the reconcile of w
  aibom,      \* aibom[w]: what w's document says, or Nil
  missed,     \* workloads a fan-out that failed did not reach
  unnoticed,  \* workloads below an object that went before its kind was tracked
  spent       \* the number of disturbances so far

cluster == <<exists, cached, present, broken>>
fanoutVars == <<fanoutReq, waiting, fanout, missed>>
work == <<queue, rec, aibom>>
vars == <<cluster, allow, tracked, replaced, running, fanoutVars, work, unnoticed, spent>>

\* found: the outcome of the walk.  partial: a list of descendants failed or lagged,
\* and the document was made without it.
Document == [owned : SUBSET Objects, pods : SUBSET Objects, found : {"none", "unresolved"},
             partial : BOOLEAN]
ASSUME NilIsNoDocument == Nil \notin Document
reconcile ==
  [pc : {"idle", "begun", "resolved"}, allowed : BOOLEAN,
   found : {"none", "tracked", "unresolved"}, owned : SUBSET Objects, pods : SUBSET Objects,
   partial : BOOLEAN]
NoReconcile ==
  [pc |-> "idle", allowed |-> FALSE, found |-> "none", owned |-> {}, pods |-> {},
   partial |-> FALSE]
\* A call of TriggerContext: the set it was given and who made it.
Trigger == [allowed : SUBSET Reporting, by : {"store", "supervisor"}]
Fanout == [trigger : Trigger \cup {Nil}, todo : SUBSET Reporting]
NoFanout == [trigger |-> Nil, todo |-> {}]

RollupTypeOK ==
  /\ exists \subseteq Objects /\ cached \subseteq Objects
  /\ present \subseteq Supervised /\ broken \subseteq Supervised
  /\ allow \subseteq Reporting /\ tracked \subseteq Reporting
  /\ replaced \subseteq tracked \cap Supervised /\ running \subseteq Supervised
  /\ fanoutReq \in BOOLEAN /\ waiting \subseteq Trigger /\ fanout \in Fanout
  /\ queue \subseteq Workloads /\ rec \in [Workloads -> reconcile]
  /\ aibom \in [Workloads -> Document \cup {Nil}]
  /\ missed \subseteq Workloads /\ unnoticed \subseteq Workloads
  /\ spent \in 0..MaxDisturbances

\* A start of the process: the managed kinds are tracked and their informers
\* list; the supervisor has seen no CRD yet.  Nothing is documented so far.
Init ==
  /\ exists \in {objects \in SUBSET Objects : \A o \in objects : OwnerRef[o] \in objects \cup {Nil}}
  /\ cached = {o \in exists : KindOf[o] \in CachedKinds}
  /\ present \in SUBSET Supervised /\ broken = {}
  /\ \A o \in exists : KindOf[o] \in Supervised => KindOf[o] \in present
  /\ allow = Reporting
  /\ tracked = Managed /\ replaced = {} /\ running = {}
  /\ fanoutReq = FALSE /\ waiting = {} /\ fanout = NoFanout
  /\ queue = {w \in Workloads \cap exists : KindOf[w] \in Managed}
  /\ rec = [w \in Workloads |-> NoReconcile]
  /\ aibom = [w \in Workloads |-> Nil]
  /\ missed = {} /\ unnoticed = {} /\ spent = 0

Spend(what) == what \in Disturbances /\ spent < MaxDisturbances /\ spent' = spent + 1

\* A controller runs for the kind: only then an event reaches its queue.
Served(k) == k \in Managed \cup running
OfKind(k) == {w \in Workloads : KindOf[w] = k}
Readable(o) == o \in exists /\ KindOf[o] \notin broken
\* What a list or a read of the object's kind shows, and what it does not show yet.
Shown == {o \in exists : KindOf[o] \notin CachedKinds} \cup cached
Unseen == {o \in exists : KindOf[o] \in CachedKinds} \ cached

\* The controller references upward from o: what a walk may read, hop by hop.
Owners[o \in Objects] ==
  IF OwnerRef[o] = Nil THEN <<>> ELSE <<OwnerRef[o]>> \o Owners[OwnerRef[o]]
\* Owner references make no cycle: the walk up ends, with the owners of the owner.
ASSUME OwnersAreFinite ==
  \A o \in Objects :
    /\ Owners[o] \in Seq(Objects)
    /\ OwnerRef[o] = Nil => Owners[o] = <<>>
    /\ OwnerRef[o] # Nil => Owners[o] = <<OwnerRef[o]>> \o Owners[OwnerRef[o]]
\* The hops of o up to which every object is one of the set.
Through(o, objects) ==
  {i \in 1..Len(Owners[o]) : \A j \in 1..i : Owners[o][j] \in objects}

\* The workloads one of the objects owns, directly or not.
Below(objects) == {w \in Workloads : \E i \in 1..Len(Owners[w]) : Owners[w][i] \in objects}
\* w itself and its owners, as far as they exist.
Chain(w) == {w} \cup {Owners[w][i] : i \in Through(w, exists)}

-----------------------------------------------------------------------------
(* The roll-up *)

Has(k) == k \in tracked

\* Mistake: a kind that is switched off goes on absorbing its children.
OwnsTracked(k) == Has(k)
Owns(k) == Has(k) /\ k \in allow

\* The walk up from w, one live read for each hop, to the first that fails or
\* that reads a kind which owns.
resolveTrackedOwner(w) ==
  LET up == Owners[w]
      stops == {i \in 1..Len(up) : ~Readable(up[i]) \/ Owns(KindOf[up[i]])}
      first == IF stops = {} THEN Len(up) + 1 ELSE Min(stops)
  IN CASE first > rollupMaxDepth -> "unresolved"
       [] first <= rollupMaxDepth /\ stops = {} -> "none"
       [] OTHER -> IF Readable(up[first]) THEN "tracked" ELSE "unresolved"

\* Everything below w that the lists show, as the loop of rootDescendants finds it.
Descendants(w) ==
  LET nodes == {o \in Shown : KindOf[o] \in ListedKinds(tracked) \ broken}
  IN {o \in nodes : \E i \in 1..Len(Owners[o]) :
        Owners[o][i] = w /\ \A j \in 1..(i - 1) : Owners[o][j] \in nodes}

\* A list that fails is left out, and the reconcile goes on; a list that does not
\* show yet what w owns is not known to be short.
ListsFail == ListedKinds(tracked) \cap broken # {}
ListsLag(w) ==
  \E o \in Unseen : /\ KindOf[o] \in ListedKinds(tracked)
                    /\ \E i \in 1..Len(Owners[o]) : Owners[o][i] = w

\* The tracked workloads among them, which the document of w records.
OwnedWorkloads(w) == {o \in Descendants(w) : Has(KindOf[o])}

filterPodsOwnedBy(owners) == {p \in Pods \cap exists : OwnerRef[p] \in owners}
replicaSetOwnerUIDs(w) == {o \in cached : KindOf[o] = "ReplicaSet" /\ OwnerRef[o] = w}
\* The pods a reconciler takes its digests from.
PodsOf(w) ==
  LET r == ReconcilerOf(KindOf[w]) IN
  filterPodsOwnedBy(CASE r.descends -> {w} \cup Descendants(w)
                      [] r.podOwner = "ReplicaSet" -> replicaSetOwnerUIDs(w)
                      [] OTHER -> {w})

-----------------------------------------------------------------------------
(* Reconciles: read the descendants and the snapshot, walk up, write *)

\* While the kind cannot be read the reconcile fails with its first Get, and the
\* request stays in the queue for the next retry.
Begin(w) ==
  /\ w \in queue /\ Served(KindOf[w]) /\ KindOf[w] \notin broken
  /\ \A v \in OfKind(KindOf[w]) : rec[v].pc = "idle"
  /\ queue' = queue \ {w}
  /\ missed' = missed \ {w} /\ unnoticed' = unnoticed \ {w}
  /\ rec' = IF w \notin Shown THEN rec
            ELSE [rec EXCEPT ![w] =
              [NoReconcile EXCEPT !.pc = "begun", !.allowed = KindOf[w] \in allow,
                 !.owned = IF ReconcilerOf(KindOf[w]).descends THEN OwnedWorkloads(w) ELSE {},
                 !.pods = PodsOf(w),
                 !.partial = ReconcilerOf(KindOf[w]).descends /\ (ListsFail \/ ListsLag(w))]]
  /\ UNCHANGED <<cluster, allow, tracked, replaced, running, fanoutReq, waiting, fanout, aibom, spent>>

Resolve(w) ==
  /\ rec[w].pc = "begun"
  /\ rec' = [rec EXCEPT ![w].pc = "resolved",
               ![w].found = IF rec[w].allowed THEN resolveTrackedOwner(w) ELSE @]
  /\ UNCHANGED <<cluster, allow, tracked, replaced, running, fanoutVars, queue, aibom, spent, unnoticed>>

\* Mistake: the owner found by the walk is ignored.
FinishAnyway(w) ==
  /\ rec[w].pc = "resolved"
  /\ rec' = [rec EXCEPT ![w] = NoReconcile]
  /\ aibom' = [aibom EXCEPT ![w] =
       IF ~rec[w].allowed \/ w \notin exists THEN Nil
       ELSE [owned |-> rec[w].owned, pods |-> rec[w].pods, found |-> rec[w].found,
             partial |-> rec[w].partial]]
  /\ UNCHANGED <<cluster, allow, tracked, replaced, running, fanoutVars, queue, spent, unnoticed>>
\* The document is written or deleted; a workload that is gone by now has none.
Finish(w) ==
  /\ rec[w].pc = "resolved"
  /\ rec' = [rec EXCEPT ![w] = NoReconcile]
  /\ aibom' = [aibom EXCEPT ![w] =
       IF ~rec[w].allowed \/ rec[w].found = "tracked" \/ w \notin exists THEN Nil
       ELSE [owned |-> rec[w].owned, pods |-> rec[w].pods, found |-> rec[w].found,
             partial |-> rec[w].partial]]
  /\ UNCHANGED <<cluster, allow, tracked, replaced, running, fanoutVars, queue, spent, unnoticed>>

-----------------------------------------------------------------------------
(* Events of the cluster *)

\* EnqueueWorkloadForPod: the direct owner, or the Deployment of its ReplicaSet.
EnqueueWorkloadForPod(p, k) ==
  LET owner == OwnerRef[p] IN
  CASE owner = Nil -> {}
    [] owner # Nil /\ KindOf[owner] = "ReplicaSet" /\ k = "Deployment" ->
         {o \in OfKind(k) : owner \in cached /\ OwnerRef[owner] = o}
    [] OTHER -> {owner} \cap OfKind(k)

\* Mistake: a pod event is mapped to its direct owner only.
EnqueueOwnerForPod(p, k) == {OwnerRef[p]} \cap OfKind(k)
\* EnqueueRootForPod: the first ancestor of kind k, reading the objects below it.
EnqueueRootForPod(p, k) ==
  {Owners[p][i] : i \in {i \in 1..Len(Owners[p]) :
     /\ i <= rollupMaxDepth /\ KindOf[Owners[p][i]] = k
     /\ \A j \in 1..(i - 1) : Readable(Owners[p][j]) /\ KindOf[Owners[p][j]] # k}}

\* The requests an event of object o makes, over all controllers that run.
Requests(o) ==
  IF o \in Pods
  THEN UNION {IF ReconcilerOf(k).descends THEN EnqueueRootForPod(o, k)
              ELSE EnqueueWorkloadForPod(o, k) : k \in {j \in Reporting : Served(j)}}
  ELSE {w \in {o} \cap Workloads : Served(KindOf[w])}

\* The owners a pod's event cannot be mapped to, because the chain cannot be
\* read, miss it.
Changed(o) ==
  /\ queue' = queue \cup Requests(o)
  /\ missed' = IF o \in Pods /\ broken # {}
               THEN missed \cup ((Chain(o) \cap Workloads) \ Requests(o)) ELSE missed
\* An informer that caches the object makes the event when it shows the change.
Event(o) ==
  IF KindOf[o] \in CachedKinds THEN UNCHANGED <<queue, missed>> ELSE Changed(o)

\* An informer cache shows what was created, or no longer what was deleted.
Observe(o) ==
  /\ KindOf[o] \in CachedKinds /\ (o \in exists) # (o \in cached)
  /\ cached' = IF o \in exists THEN cached \cup {o} ELSE cached \ {o}
  /\ Changed(o)
  /\ UNCHANGED <<exists, present, broken, allow, tracked, replaced, running, fanoutReq, waiting, fanout, rec, aibom, spent, unnoticed>>

\* Owners are created before what they own.
Create(o) ==
  /\ o \notin exists \cup cached /\ Spend("object")
  /\ OwnerRef[o] \in exists \cup {Nil} /\ \A c \in exists : OwnerRef[c] # o
  /\ KindOf[o] \in Supervised => KindOf[o] \in present
  /\ exists' = exists \cup {o}
  /\ Event(o)
  /\ UNCHANGED <<cached, present, broken, allow, tracked, replaced, running, fanoutReq, waiting, fanout, rec, aibom, unnoticed>>

\* A new spec, or a new image digest of a pod.
Update(o) ==
  /\ o \in exists \cap Shown /\ Spend("object")
  /\ Changed(o)
  /\ UNCHANGED <<cluster, allow, tracked, replaced, running, fanoutReq, waiting, fanout, rec, aibom, unnoticed>>

\* The garbage collector deletes the document of a workload with it.
Gone(objects) ==
  /\ exists' = exists \ objects
  /\ aibom' = [w \in Workloads |-> IF w \in objects THEN Nil ELSE aibom[w]]

\* What an object owned goes first.
Delete(o) ==
  /\ o \in exists /\ Spend("object")
  /\ \A c \in exists : OwnerRef[c] # o
  /\ Gone({o})
  /\ Event(o)
  /\ UNCHANGED <<cached, present, broken, allow, tracked, replaced, running, fanoutReq, waiting, fanout, rec, unnoticed>>

\* A CRD goes with its objects, what they owned lingers.  When the supervisor
\* had not tracked the kind yet, nothing re-enqueues what was below them.
RemoveCRD(k) ==
  /\ k \in present /\ Spend("crd")
  /\ present' = present \ {k}
  /\ broken' = broken \ {k}
  /\ replaced' = IF k \in tracked THEN replaced \cup {k} ELSE replaced
  /\ unnoticed' = IF k \in tracked THEN unnoticed ELSE unnoticed \cup Below(OfKind(k) \cap exists)
  /\ Gone(OfKind(k))
  /\ UNCHANGED <<cached, allow, tracked, running, fanoutVars, queue, rec>>

InstallCRD(k) ==
  /\ k \in Supervised \ present /\ Spend("crd")
  /\ present' = present \cup {k}
  /\ UNCHANGED <<exists, cached, broken, allow, tracked, replaced, running, fanoutVars, work, unnoticed>>

\* Reads of a kind begin to fail, or work again.  Its controller stays.
Outage(k) ==
  /\ k \in present /\ Spend("outage")
  /\ broken' = IF k \in broken THEN broken \ {k} ELSE broken \cup {k}
  /\ UNCHANGED <<exists, cached, present, allow, tracked, replaced, running, fanoutVars, work, unnoticed>>

\* Store.Store with another allowlist; Bind starts a fan-out goroutine.
Swap(kinds) ==
  /\ kinds # allow /\ Spend("swap")
  /\ allow' = kinds
  /\ waiting' = waiting \cup {[allowed |-> kinds, by |-> "store"]}
  /\ UNCHANGED <<cluster, tracked, replaced, running, fanoutReq, fanout, missed, work, unnoticed>>

-----------------------------------------------------------------------------
(* The supervisor *)

\* Mistake: a kind becomes an owner and nobody looks at its children again.
activateSilently(k) ==
  /\ k \in present \ tracked
  /\ tracked' = tracked \cup {k}
  /\ UNCHANGED <<cluster, allow, replaced, running, fanoutVars, work, spent, unnoticed>>
activate(k) ==
  /\ k \in present \ tracked
  /\ tracked' = tracked \cup {k}
  /\ fanoutReq' = TRUE
  /\ UNCHANGED <<cluster, allow, replaced, running, waiting, fanout, missed, work, spent, unnoticed>>

\* A runner that starts lists every object of its kind.
StartRunner(k) ==
  /\ k \in (present \cap tracked \cap allow) \ (running \cup broken \cup replaced)
  /\ running' = running \cup {k}
  /\ queue' = queue \cup (OfKind(k) \cap exists)
  /\ UNCHANGED <<cluster, allow, tracked, replaced, fanoutVars, rec, aibom, spent, unnoticed>>

\* stopRunner, then the sweep of the kind's documents.  A reconcile under way is
\* cut off, or has returned before.
StopAndSweep(k) ==
  /\ running' = running \ {k}
  /\ queue' = queue \ OfKind(k)
  /\ rec' = [w \in Workloads |-> IF KindOf[w] = k THEN NoReconcile ELSE rec[w]]
  /\ aibom' = [w \in Workloads |-> IF KindOf[w] = k THEN Nil ELSE aibom[w]]

StopExcluded(k) ==
  /\ k \in running \ (allow \cup replaced)
  /\ StopAndSweep(k)
  /\ UNCHANGED <<cluster, allow, tracked, replaced, fanoutVars, spent, unnoticed>>

\* The CRD is gone, or another one has its name: rows 8-9.
retire(k) ==
  /\ k \in replaced
  /\ StopAndSweep(k)
  /\ tracked' = tracked \ {k} /\ replaced' = replaced \ {k}
  /\ fanoutReq' = TRUE
  /\ UNCHANGED <<cluster, allow, waiting, fanout, missed, spent, unnoticed>>

-----------------------------------------------------------------------------
(* The fan-out *)

\* runFanout: one at a time, with the set desired now.
runFanout ==
  /\ fanoutReq
  /\ \A t \in (waiting \cup {fanout.trigger}) \ {Nil} : t.by # "supervisor"
  /\ fanoutReq' = FALSE
  /\ waiting' = waiting \cup {[allowed |-> allow, by |-> "supervisor"]}
  /\ UNCHANGED <<cluster, allow, tracked, replaced, running, fanout, missed, work, spent, unnoticed>>

\* The slot is taken: managed kinds always, third-party kinds that are allowed
\* and have a controller.
TriggerContext(t) ==
  /\ fanout = NoFanout /\ t \in waiting
  /\ waiting' = waiting \ {t}
  /\ fanout' = [trigger |-> t, todo |-> Managed \cup (running \cap t.allowed)]
  /\ UNCHANGED <<cluster, allow, tracked, replaced, running, fanoutReq, missed, work, spent, unnoticed>>

\* Mistake: the slot is not given back.
SlotHeld(todo) == fanout' = [fanout EXCEPT !.todo = todo]
\* The last kind gives the slot back.
RemainingKinds(todo) == fanout' = IF todo = {} THEN NoFanout ELSE [fanout EXCEPT !.todo = todo]

\* One kind is listed and its objects are sent.  A send to a controller that has
\* stopped meanwhile comes to nothing.
fanOutKind(k) ==
  /\ k \in fanout.todo
  /\ RemainingKinds(fanout.todo \ {k})
  /\ queue' = IF Served(k) /\ k \notin broken THEN queue \cup (OfKind(k) \cap exists) ELSE queue
  /\ missed' = IF k \in broken THEN missed \cup OfKind(k) ELSE missed
  /\ UNCHANGED <<cluster, allow, tracked, replaced, running, fanoutReq, waiting, rec, aibom, spent, unnoticed>>

\* The list fails: the fan-out goes on with the next kind.
fanOutKindFails(k) ==
  /\ k \in fanout.todo /\ Spend("fanout")
  /\ RemainingKinds(fanout.todo \ {k})
  /\ missed' = missed \cup OfKind(k)
  /\ UNCHANGED <<cluster, allow, tracked, replaced, running, fanoutReq, waiting, work, unnoticed>>

\* Two minutes are over: the rest is not reached.
FanoutTimesOut ==
  /\ fanout.todo # {} /\ Spend("fanout")
  /\ fanout' = NoFanout
  /\ missed' = missed \cup UNION {OfKind(k) : k \in fanout.todo}
  /\ UNCHANGED <<cluster, allow, tracked, replaced, running, fanoutReq, waiting, work, unnoticed>>

-----------------------------------------------------------------------------

Supervisor(k) == activate(k) \/ StartRunner(k) \/ StopExcluded(k) \/ retire(k)
Reconciles(w) == Begin(w) \/ Resolve(w) \/ Finish(w)
FanoutStep ==
  \/ runFanout
  \/ \E t \in waiting : TriggerContext(t)
  \/ \E k \in Reporting : fanOutKind(k)
Cluster ==
  \/ \E o \in Objects : Create(o) \/ Update(o) \/ Delete(o)
  \/ \E k \in Supervised : RemoveCRD(k) \/ InstallCRD(k) \/ Outage(k)
  \/ \E kinds \in SUBSET Reporting : Swap(kinds)
  \/ FanoutTimesOut
  \/ \E k \in Reporting : fanOutKindFails(k)
Controller ==
  \/ \E k \in Supervised : Supervisor(k)
  \/ \E w \in Workloads : Reconciles(w)
  \/ \E o \in Objects : Observe(o)
  \/ FanoutStep

Next == Controller \/ Cluster
Spec == Init /\ [][Next]_vars
FairSpec == Spec /\ WF_vars(Controller)

-----------------------------------------------------------------------------
(* Properties *)

\* Nothing is left to do for the supervisor, the fan-out, an informer or a
\* controller, but to retry for a kind that cannot be read.
Rest ==
  /\ \A w \in queue : KindOf[w] \in broken
  /\ \A o \in Objects : KindOf[o] \in CachedKinds => (o \in exists) = (o \in cached)
  /\ \A w \in Workloads : rec[w].pc = "idle"
  /\ ~fanoutReq /\ waiting = {} /\ fanout = NoFanout
  /\ present \subseteq tracked /\ replaced = {}
  /\ running \ broken = (present \cap allow) \ broken

\* Nothing silently disappears: at rest, a workload of an allowed kind that is
\* watched has a document, or one of its owners has.  Whatever the allowlist, the
\* CRDs, outages and the walk did, only four things may leave a workload without:
\* a fan-out that failed for it or for an owner, an owner whose kind was tracked
\* and became unreadable before its first watch started or before a reconcile that
\* is retried since, and a CRD between it and the owner that went before it was
\* tracked (resolveTrackedOwner, Owns, Trigger, Reconcile's own Get).
NothingDisappears ==
  Rest => \A w \in Workloads \cap exists :
            /\ KindOf[w] \in allow /\ Served(KindOf[w])
            /\ \A o \in Chain(w) : o \notin missed \cup unnoticed \cup queue
                                   /\ KindOf[o] \notin broken \ running
            => \E o \in Chain(w) \cap Workloads : aibom[o] # Nil

\* One workload, one document: at rest, a workload with a document of its own is
\* of an allowed kind, and no owner that can be reached and is itself reported
\* absorbs it; a read that failed is the only excuse (activate's and Bind's
\* fan-outs, retire's sweep).
OneWorkloadOneDocument ==
  Rest => \A w \in (Workloads \cap exists) \ missed :
            aibom[w] # Nil /\ KindOf[w] \notin broken =>
              /\ KindOf[w] \in allow
              /\ aibom[w].found # "unresolved" => resolveTrackedOwner(w) # "tracked"

\* The way from o up to its i-th owner is one the code follows: a pod event
\* reaches that owner (EnqueueRootForPod), and its kinds are listed on the way
\* down (rootDescendants).
Follows(o, i) ==
  /\ i <= rollupMaxDepth
  /\ \A j \in 1..(i - 1) : KindOf[Owners[o][j]] \in ListedKinds(tracked) \ {KindOf[Owners[o][i]]}

\* A pod and the tracked workloads between it and its i-th owner are in the
\* document.
Records(document, p, i) ==
  /\ p \in document.pods
  /\ \A j \in 1..(i - 1) : Has(KindOf[Owners[p][j]]) => Owners[p][j] \in document.owned

\* A document knows its pods and what it absorbed: at rest, a pod is in the
\* document of the workload that reports it, and the tracked workloads between
\* the two are recorded there, unless a list failed when it was made, or did not
\* show yet an object on some way up to the workload (rootDescendants,
\* EnqueueRootForPod).
DocumentsFollowPods ==
  Rest => \A w \in Workloads \ missed :
    /\ KindOf[w] \notin broken /\ ReconcilerOf(KindOf[w]).descends
    /\ aibom[w] # Nil /\ ~aibom[w].partial
    => \A p \in Pods \cap exists : \A i \in Through(p, exists) :
         Owners[p][i] = w /\ Follows(p, i) => Records(aibom[w], p, i)

\* The controller comes to rest; in an outage that lasts, the requests for the
\* kind that cannot be read are retried for ever, and they alone.
ComesToRest == <>[]Rest

\* Suppression is stable through an outage: at rest, an owner that is there, is
\* tracked and allowed and has a document keeps its children without one ("so
\* suppression stays stable through a Design 004 outage",
\* internal/controller/ownership_rollup.go:60).
SuppressionIsStable ==
  Rest => \A w \in Workloads \cap exists :
    (\E o \in Chain(w) \ {w} : o \in Workloads /\ Owns(KindOf[o]) /\ aibom[o] # Nil)
      => aibom[w] = Nil

\* "Nothing silently disappears: the suppressed identities are on the owner's
\* document" (Design 005): at rest and with every kind readable again, also of
\* a document that was made while a list failed or lagged.
DocumentsAreComplete ==
  Rest /\ broken = {} => \A w \in Workloads \ missed :
    ReconcilerOf(KindOf[w]).descends /\ aibom[w] # Nil
    => \A p \in Pods \cap exists : \A i \in Through(p, exists) :
         Owners[p][i] = w /\ Follows(p, i) => Records(aibom[w], p, i)
=============================================================================
