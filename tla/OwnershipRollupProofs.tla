----------------------- MODULE OwnershipRollupProofs -----------------------
(***************************************************************************)
(* Proofs about OwnershipRollup: at rest no workload has a document beside *)
(* the document of an owner that absorbs it, and none that is watched is   *)
(* left without one, whatever swaps of the allowlist, CRDs that come and   *)
(* go, outages and failed fan-outs there were.                             *)
(*                                                                         *)
(* The argument: whether a workload may report depends on the allowlist,   *)
(* on the tracked kinds and on the objects above it. The first two change  *)
(* together with a request for a fan-out, so a workload that no fan-out    *)
(* owes a visit (~Owed) was reconciled with those of now. The objects      *)
(* above it stay while it does, but for a CRD that goes with its objects,  *)
(* which the supervisor notices when it tracked the kind. A workload       *)
(* without a document therefore has an owner that absorbs it, and the      *)
(* uppermost such owner has the document.                                  *)
(***************************************************************************)
EXTENDS OwnershipRollup, WellFoundedInduction, TLAPS

-----------------------------------------------------------------------------
(* The inductive invariant *)

\* No owner of w is of a kind that absorbs its children.
NoOwner(w) == \A i \in 1..Len(Owners[w]) : ~Owns(KindOf[Owners[w][i]])

\* w will be reconciled again, or a fan-out failed to reach it.  What its informer
\* does not show yet will be queued when it does.
Owed(w) ==
  \/ w \in queue \cup missed \cup Unseen
  \/ fanoutReq
  \/ \E t \in waiting : t.allowed = allow
  \/ KindOf[w] \in fanout.todo

\* A workload that is not served has no reconcile and no document, one that is
\* gone has no document.
IdleInv(w) ==
  /\ ~Served(KindOf[w]) => rec[w].pc = "idle" /\ aibom[w] = Nil
  /\ w \notin exists => aibom[w] = Nil

\* What a reconcile knows, and what it left behind, is true of the present.
CurrentInv(w) ==
  w \in exists /\ ~Owed(w) /\ KindOf[w] \in Managed \cup allow =>
    /\ rec[w].pc # "idle" => rec[w].allowed = (KindOf[w] \in allow)
    /\ rec[w].pc = "resolved" /\ rec[w].allowed /\ rec[w].found = "none" => NoOwner(w)
    /\ rec[w].pc = "idle" /\ aibom[w] # Nil =>
         KindOf[w] \in allow /\ (aibom[w].found = "none" => NoOwner(w))

RollupInv == RollupTypeOK /\ \A w \in Workloads : IdleInv(w) /\ CurrentInv(w)

\* The i-th owner of w absorbs what it owns; the way up to it is there.
Absorbs(w, i) == Owns(KindOf[Owners[w][i]])
Intact(w, i) == \A j \in 1..i : Owners[w][j] \in exists

\* An owner of w absorbs it, or did until a CRD on the way was replaced, which
\* the supervisor is going to notice.
OwnerThere(w) ==
  \E i \in 1..Len(Owners[w]) :
    /\ Absorbs(w, i)
    /\ Intact(w, i) \/ \E j \in 1..Len(Owners[w]) : KindOf[Owners[w][j]] \in replaced

\* Objects of a third-party kind have their CRD.
PresentInv(w) == w \in exists /\ KindOf[w] \in Supervised => KindOf[w] \in present

\* A workload that is owed nothing and has no document has an owner for it.
AbsorbedInv(w) ==
  w \in exists /\ ~Owed(w) /\ w \notin unnoticed /\ Served(KindOf[w]) /\ KindOf[w] \in allow =>
    /\ rec[w].pc = "resolved" /\ rec[w].found = "tracked" => OwnerThere(w)
    /\ rec[w].pc = "idle" /\ aibom[w] = Nil => OwnerThere(w)

AbsorptionInv == RollupInv /\ \A w \in Workloads : PresentInv(w) /\ AbsorbedInv(w)

-----------------------------------------------------------------------------
(* The kinds *)

\* The assumptions on the constants.
LEMMA RollupFacts ==
  /\ OwnerRef \in [Objects -> Objects \cup {Nil}] /\ Nil \notin Objects
  /\ MaxDisturbances \in Nat /\ rollupMaxDepth \in Nat
  /\ \A o \in Objects : Owners[o] \in Seq(Objects)
  /\ Nil \notin Document
BY RollupConstants, OwnersAreFinite, NilIsNoDocument

\* Every kind is either the manager's or the supervisor's.
LEMMA KindFacts ==
  /\ Managed \subseteq Reporting /\ Supervised \subseteq Reporting
  /\ Managed \cap Supervised = {}
  /\ \A k \in Reporting : k \in Managed \/ k \in Supervised
  /\ \A w \in Workloads : w \in Objects /\ KindOf[w] \in Reporting
BY DEF Managed, Supervised, Reporting, ManagedKinds, Workloads

\* A pod is not a workload.
LEMMA PodsAreNoWorkloads == Pods \cap Workloads = {}
<1>1. "Pod" \notin ReportingKinds
  BY DEF ReportingKinds, Reconcilers, DeploymentReconciler, StatefulSetReconciler,
         DaemonSetReconciler, JobReconciler, CronJobReconciler,
         KServeInferenceServiceReconciler, DynamoGraphDeploymentReconciler,
         DynamoComponentDeploymentReconciler, NIMServiceReconciler, LeaderWorkerSetReconciler,
         DisaggregatedSetReconciler, managed, supervisedRoot
<1>2. QED
  BY <1>1 DEF Pods, Workloads, Reporting

\* The least of a set of positions.
LEMMA LeastPosition ==
  ASSUME NEW S \in SUBSET Nat, S # {}
  PROVE  Min(S) \in S /\ \A y \in S : Min(S) <= y
<1>1. IsWellFoundedOn(OpToRel(<, Nat), Nat)
  BY NatLessThanWellFounded
<1>2. PICK x \in S : \A y \in S : ~(<<y, x>> \in OpToRel(<, Nat))
  BY <1>1, WFMin
<1>3. \A y \in S : x <= y
  <2> SUFFICES ASSUME NEW y \in S, ~(x <= y) PROVE FALSE
    OBVIOUS
  <2>1. x \in Nat /\ y \in Nat /\ y < x
    OBVIOUS
  <2>2. <<y, x>> \in Nat \X Nat /\ <<y, x>>[1] = y /\ <<y, x>>[2] = x
    BY <2>1
  <2>3. <<y, x>> \in {ss \in Nat \X Nat : ss[1] < ss[2]}
    BY <2>1, <2>2
  <2>4. <<y, x>> \in OpToRel(<, Nat)
    BY <2>3 DEF OpToRel
  <2>5. QED
    BY <1>2, <2>4
<1>4. QED
  BY <1>3 DEF Min

\* The owners of w are objects.
LEMMA OwnerFacts ==
  ASSUME NEW w \in Objects
  PROVE  /\ Len(Owners[w]) \in Nat
         /\ \A i \in 1..Len(Owners[w]) : Owners[w][i] \in Objects
BY RollupFacts

\* What is there and not shown is of a kind whose informer lags.
LEMMA NotShown ==
  ASSUME NEW o, o \in exists, o \notin Shown
  PROVE  o \in Unseen
BY DEF Shown, Unseen

\* Neither pods nor the supervisor's kinds wait for one of those informers.
LEMMA NotCached ==
  /\ "Pod" \notin CachedKinds
  /\ \A o \in Unseen : o \in exists /\ KindOf[o] \in CachedKinds
<1>1. "Pod" \notin ManagedKinds
  BY DEF ManagedKinds, ReportingKinds, Reconcilers, DeploymentReconciler, StatefulSetReconciler,
         DaemonSetReconciler, JobReconciler, CronJobReconciler,
         KServeInferenceServiceReconciler, DynamoGraphDeploymentReconciler,
         DynamoComponentDeploymentReconciler, NIMServiceReconciler, LeaderWorkerSetReconciler,
         DisaggregatedSetReconciler, managed, supervisedRoot
<1>2. QED
  BY <1>1 DEF CachedKinds, Unseen

-----------------------------------------------------------------------------
(* The walk *)

\* A walk that found nothing passed no owner that absorbs, one that found an
\* owner stopped at one that does.
LEMMA WalkFacts ==
  ASSUME NEW w \in Workloads
  PROVE  /\ resolveTrackedOwner(w) \in {"none", "tracked", "unresolved"}
         /\ resolveTrackedOwner(w) = "none" => NoOwner(w)
         /\ resolveTrackedOwner(w) = "tracked" =>
              \E i \in 1..Len(Owners[w]) : Absorbs(w, i) /\ Intact(w, i)
<1> DEFINE up == Owners[w]
           stops == {i \in 1..Len(up) : ~Readable(up[i]) \/ Owns(KindOf[up[i]])}
           first == IF stops = {} THEN Len(up) + 1 ELSE Min(stops)
           found == CASE first > rollupMaxDepth -> "unresolved"
                      [] first <= rollupMaxDepth /\ stops = {} -> "none"
                      [] OTHER -> IF Readable(up[first]) THEN "tracked" ELSE "unresolved"
<1>1. resolveTrackedOwner(w) = found
  BY DEF resolveTrackedOwner
<1>2. Len(up) \in Nat /\ rollupMaxDepth \in Nat
  BY KindFacts, OwnerFacts, RollupFacts
<1>3. stops \subseteq Nat
  BY <1>2
<1>4. stops # {} => first \in stops
  BY <1>3, LeastPosition
<1>5. first \in Nat
  BY <1>2, <1>3, <1>4
<1>6. stops = {} => NoOwner(w)
  BY DEF NoOwner
<1>7. stops # {} /\ Readable(up[first]) =>
        \E i \in 1..Len(Owners[w]) : Absorbs(w, i) /\ Intact(w, i)
  <2> SUFFICES ASSUME stops # {}, Readable(up[first])
               PROVE  Absorbs(w, first) /\ Intact(w, first) /\ first \in 1..Len(up)
    OBVIOUS
  <2>1. first \in 1..Len(up) /\ Owns(KindOf[up[first]]) /\ up[first] \in exists
    BY <1>4 DEF Readable
  <2>2. \A i \in stops : first <= i
    BY <1>3, LeastPosition
  <2> HIDE DEF first
  <2>3. ASSUME NEW j \in 1..first
        PROVE  up[j] \in exists
    <3>1. CASE j = first
      BY <2>1, <3>1
    <3>2. CASE j < first
      <4>1. j \in 1..Len(up) /\ ~(first <= j)
        BY <1>2, <1>5, <2>1, <2>3, <3>2
      <4>2. j \notin stops
        BY <2>2, <4>1
      <4>3. QED
        BY <4>1, <4>2 DEF Readable
    <3>3. QED
      BY <1>5, <2>3, <3>1, <3>2
  <2>4. QED
    BY <2>1, <2>3 DEF Absorbs, Intact
<1> HIDE DEF stops, first
<1>8. CASE first > rollupMaxDepth
  <2>1. ~(first <= rollupMaxDepth)
    BY <1>2, <1>5, <1>8
  <2>2. found = "unresolved"
    BY <1>8, <2>1
  <2>3. QED
    BY <1>1, <2>2
<1>9. CASE first <= rollupMaxDepth /\ stops = {}
  <2>1. ~(first > rollupMaxDepth)
    BY <1>2, <1>5, <1>9
  <2>2. found = "none"
    BY <1>9, <2>1
  <2>3. QED
    BY <1>1, <1>6, <1>9, <2>2
<1>10. CASE first <= rollupMaxDepth /\ stops # {}
  <2>1. ~(first > rollupMaxDepth)
    BY <1>2, <1>5, <1>10
  <2>2. found = IF Readable(up[first]) THEN "tracked" ELSE "unresolved"
    BY <1>10, <2>1
  <2>3. QED
    BY <1>1, <1>7, <1>10, <2>2
<1>11. QED
  BY <1>2, <1>5, <1>8, <1>9, <1>10

-----------------------------------------------------------------------------
(* Type correctness *)

\* The requests of an event name workloads.
LEMMA RequestsAreWorkloads ==
  ASSUME NEW o \in Objects
  PROVE  Requests(o) \subseteq Workloads
<1>1. ASSUME NEW k \in Reporting
      PROVE  EnqueueRootForPod(o, k) \subseteq Workloads
  <2>1. \A i \in 1..Len(Owners[o]) : Owners[o][i] \in Objects
    BY OwnerFacts
  <2>2. QED
    BY <1>1, <2>1 DEF EnqueueRootForPod, Workloads
<1>2. ASSUME NEW k \in Reporting
      PROVE  EnqueueWorkloadForPod(o, k) \subseteq Workloads
  <2>1. OfKind(k) \subseteq Workloads
    BY DEF OfKind
  <2>2. CASE OwnerRef[o] = Nil
    BY <2>2 DEF EnqueueWorkloadForPod
  <2>3. CASE OwnerRef[o] # Nil /\ KindOf[OwnerRef[o]] = "ReplicaSet" /\ k = "Deployment"
    BY <2>1, <2>3 DEF EnqueueWorkloadForPod
  <2>4. CASE OwnerRef[o] # Nil /\ ~(KindOf[OwnerRef[o]] = "ReplicaSet" /\ k = "Deployment")
    BY <2>1, <2>4 DEF EnqueueWorkloadForPod
  <2>5. QED
    BY <2>2, <2>3, <2>4
<1>3. CASE o \in Pods
  BY <1>1, <1>2, <1>3 DEF Requests
<1>4. CASE o \notin Pods
  BY <1>4 DEF Requests
<1>5. QED
  BY <1>3, <1>4

\* What a reconcile reads are objects.
LEMMA ReadsAreObjects ==
  ASSUME exists \subseteq Objects, cached \subseteq Objects, NEW w
  PROVE  OwnedWorkloads(w) \subseteq Objects /\ PodsOf(w) \subseteq Objects
<1>1. OwnedWorkloads(w) \subseteq Objects
  BY DEF OwnedWorkloads, Descendants, Shown
<1>2. \A S : filterPodsOwnedBy(S) \subseteq Objects
  BY DEF filterPodsOwnedBy
<1>3. PodsOf(w) \subseteq Objects
  BY <1>2 DEF PodsOf
<1>4. QED
  BY <1>1, <1>3

\* Idle reconciles and fan-outs.
LEMMA IdleTypes ==
  /\ NoReconcile \in reconcile /\ NoReconcile.pc = "idle"
  /\ NoFanout \in Fanout /\ NoFanout.todo = {} /\ NoFanout.trigger = Nil
BY DEF NoReconcile, reconcile, NoFanout, Fanout

LEMMA RollupTypeInit == Init => RollupTypeOK
<1> SUFFICES ASSUME Init PROVE RollupTypeOK
  OBVIOUS
<1>1. 0 \in 0..MaxDisturbances
  BY RollupFacts
<1>2. rec \in [Workloads -> reconcile] /\ aibom \in [Workloads -> Document \cup {Nil}]
  BY IdleTypes DEF Init
<1>3. queue \subseteq Workloads /\ present \subseteq Supervised /\ tracked \subseteq Reporting
  BY KindFacts DEF Init
<1>4. QED
  BY <1>1, <1>2, <1>3, IdleTypes DEF Init, RollupTypeOK

LEMMA SpendCounts ==
  ASSUME NEW what, Spend(what), spent \in 0..MaxDisturbances
  PROVE  spent' \in 0..MaxDisturbances
BY RollupFacts DEF Spend

\* The three steps of a reconcile.
LEMMA ReconcilesType ==
  ASSUME RollupTypeOK, NEW w \in Workloads, Reconciles(w)
  PROVE  RollupTypeOK'
<1>1. /\ rec \in [Workloads -> reconcile] /\ aibom \in [Workloads -> Document \cup {Nil}]
      /\ exists \subseteq Objects /\ cached \subseteq Objects
  BY DEF RollupTypeOK
<1>2. rec[w] \in reconcile
  BY <1>1
<1>3. CASE Begin(w)
  <2> DEFINE begun ==
        [NoReconcile EXCEPT !.pc = "begun", !.allowed = KindOf[w] \in allow,
           !.owned = IF ReconcilerOf(KindOf[w]).descends THEN OwnedWorkloads(w) ELSE {},
           !.pods = PodsOf(w),
           !.partial = ReconcilerOf(KindOf[w]).descends /\ (ListsFail \/ ListsLag(w))]
  <2>1. OwnedWorkloads(w) \subseteq Objects /\ PodsOf(w) \subseteq Objects
    BY <1>1, ReadsAreObjects
  <2>2. begun \in reconcile
    <3>1. ASSUME NEW a \in BOOLEAN, NEW o \in SUBSET Objects, NEW p \in SUBSET Objects,
                 NEW d \in BOOLEAN
          PROVE  [NoReconcile EXCEPT !.pc = "begun", !.allowed = a, !.owned = o, !.pods = p,
                                     !.partial = d] \in reconcile
      BY DEF reconcile, NoReconcile
    <3>2. (KindOf[w] \in allow) \in BOOLEAN
      OBVIOUS
    <3>3. (IF ReconcilerOf(KindOf[w]).descends THEN OwnedWorkloads(w) ELSE {}) \in SUBSET Objects
      BY <2>1
    <3>4. PodsOf(w) \in SUBSET Objects
      BY <2>1
    <3>5. (ReconcilerOf(KindOf[w]).descends /\ (ListsFail \/ ListsLag(w))) \in BOOLEAN
      OBVIOUS
    <3>6. QED
      BY <3>1, <3>2, <3>3, <3>4, <3>5
  <2>3. rec' = IF w \notin Shown THEN rec ELSE [rec EXCEPT ![w] = begun]
    BY <1>3 DEF Begin
  <2> HIDE DEF begun
  <2>4. rec' \in [Workloads -> reconcile]
    BY <1>1, <2>2, <2>3
  <2>5. QED
    BY <1>3, <2>4 DEF Begin, RollupTypeOK, cluster
<1>4. CASE Resolve(w)
  <2>1. resolveTrackedOwner(w) \in {"none", "tracked", "unresolved"}
    BY WalkFacts
  <2>2. [rec[w] EXCEPT !.pc = "resolved",
           !.found = IF rec[w].allowed THEN resolveTrackedOwner(w) ELSE @] \in reconcile
    BY <1>2, <2>1 DEF reconcile
  <2>3. rec' = [rec EXCEPT ![w] = [rec[w] EXCEPT !.pc = "resolved",
                  !.found = IF rec[w].allowed THEN resolveTrackedOwner(w) ELSE @]]
    BY <1>1, <1>4 DEF Resolve
  <2>4. rec' \in [Workloads -> reconcile]
    BY <1>1, <2>2, <2>3
  <2>5. QED
    BY <1>4, <2>4 DEF Resolve, RollupTypeOK, cluster, fanoutVars
<1>5. CASE Finish(w)
  <2> DEFINE new == IF ~rec[w].allowed \/ rec[w].found = "tracked" \/ w \notin exists THEN Nil
                    ELSE [owned |-> rec[w].owned, pods |-> rec[w].pods, found |-> rec[w].found,
                          partial |-> rec[w].partial]
  <2>1. new \in Document \cup {Nil}
    BY <1>2 DEF reconcile, Document
  <2>2. aibom' = [aibom EXCEPT ![w] = new] /\ rec' = [rec EXCEPT ![w] = NoReconcile]
    BY <1>5 DEF Finish
  <2> HIDE DEF new
  <2>3. aibom' \in [Workloads -> Document \cup {Nil}] /\ rec' \in [Workloads -> reconcile]
    BY <1>1, <2>1, <2>2, IdleTypes
  <2>4. QED
    BY <1>5, <2>3 DEF Finish, RollupTypeOK, cluster, fanoutVars
<1>6. QED
  BY <1>3, <1>4, <1>5 DEF Reconciles

\* The supervisor stops a kind.
LEMMA StopType ==
  ASSUME RollupTypeOK, NEW k, StopAndSweep(k)
  PROVE  /\ running' \subseteq Supervised /\ queue' \subseteq Workloads
         /\ rec' \in [Workloads -> reconcile] /\ aibom' \in [Workloads -> Document \cup {Nil}]
<1>1. rec \in [Workloads -> reconcile] /\ aibom \in [Workloads -> Document \cup {Nil}]
  BY DEF RollupTypeOK
<1>2. \A w \in Workloads : rec[w] \in reconcile /\ aibom[w] \in Document \cup {Nil}
  BY <1>1
<1>3. rec' \in [Workloads -> reconcile] /\ aibom' \in [Workloads -> Document \cup {Nil}]
  BY <1>2, IdleTypes DEF StopAndSweep
<1>4. QED
  BY <1>3 DEF StopAndSweep, RollupTypeOK

LEMMA SupervisorType ==
  ASSUME RollupTypeOK, NEW k \in Supervised, Supervisor(k)
  PROVE  RollupTypeOK'
<1>1. CASE activate(k)
  BY <1>1, KindFacts DEF activate, RollupTypeOK, cluster, work
<1>2. CASE StartRunner(k)
  <2>1. OfKind(k) \subseteq Workloads
    BY DEF OfKind
  <2>2. QED
    BY <1>2, <2>1 DEF StartRunner, RollupTypeOK, cluster, fanoutVars
<1>3. CASE StopExcluded(k)
  BY <1>3, StopType DEF StopExcluded, RollupTypeOK, cluster, fanoutVars
<1>4. CASE retire(k)
  BY <1>4, StopType DEF retire, RollupTypeOK, cluster
<1>5. QED
  BY <1>1, <1>2, <1>3, <1>4 DEF Supervisor

LEMMA RemainingType ==
  ASSUME fanout \in Fanout, NEW todo \in SUBSET Reporting, RemainingKinds(todo)
  PROVE  fanout' \in Fanout /\ fanout'.todo = todo
BY IdleTypes DEF RemainingKinds, Fanout

\* The fan-out, its failures included.
LEMMA FanoutType ==
  ASSUME RollupTypeOK,
         FanoutStep \/ FanoutTimesOut \/ \E k \in Reporting : fanOutKindFails(k)
  PROVE  RollupTypeOK'
<1>1. /\ fanout \in Fanout /\ allow \subseteq Reporting /\ waiting \subseteq Trigger
      /\ running \subseteq Supervised /\ spent \in 0..MaxDisturbances
  BY DEF RollupTypeOK
<1>2. fanout.todo \subseteq Reporting
  BY <1>1 DEF Fanout
<1>3. \A k : OfKind(k) \subseteq Workloads
  BY DEF OfKind
<1>4. CASE runFanout
  <2>1. [allowed |-> allow, by |-> "supervisor"] \in Trigger
    BY <1>1 DEF Trigger
  <2>2. QED
    BY <1>4, <2>1 DEF runFanout, RollupTypeOK, cluster, work
<1>5. ASSUME NEW t \in waiting, TriggerContext(t)
      PROVE  RollupTypeOK'
  <2>1. fanout' = [trigger |-> t, todo |-> Managed \cup (running \cap t.allowed)]
    BY <1>5 DEF TriggerContext
  <2>2. Managed \cup (running \cap t.allowed) \subseteq Reporting
    BY <1>1, KindFacts
  <2>3. fanout' \in Fanout
    BY <1>1, <1>5, <2>1, <2>2 DEF Fanout
  <2>4. QED
    BY <1>5, <2>3 DEF TriggerContext, RollupTypeOK, cluster, work
<1>6. ASSUME NEW k \in Reporting, fanOutKind(k)
      PROVE  RollupTypeOK'
  <2>1. fanout' \in Fanout
    BY <1>1, <1>2, <1>6, RemainingType DEF fanOutKind
  <2>2. QED
    BY <1>3, <1>6, <2>1 DEF fanOutKind, RollupTypeOK, cluster
<1>7. ASSUME NEW k \in Reporting, fanOutKindFails(k)
      PROVE  RollupTypeOK'
  <2>1. fanout' \in Fanout
    BY <1>1, <1>2, <1>7, RemainingType DEF fanOutKindFails
  <2>2. spent' \in 0..MaxDisturbances
    BY <1>1, <1>7, SpendCounts DEF fanOutKindFails
  <2>3. QED
    BY <1>3, <1>7, <2>1, <2>2 DEF fanOutKindFails, RollupTypeOK, cluster, work
<1>8. CASE FanoutTimesOut
  <2>1. spent' \in 0..MaxDisturbances
    BY <1>1, <1>8, SpendCounts DEF FanoutTimesOut
  <2>2. QED
    BY <1>3, <1>8, <2>1, IdleTypes DEF FanoutTimesOut, RollupTypeOK, cluster, work
<1>9. QED
  BY <1>4, <1>5, <1>6, <1>7, <1>8 DEF FanoutStep

\* An event of an object queues workloads.
LEMMA ChangedType ==
  ASSUME RollupTypeOK, NEW o \in Objects, Changed(o) \/ Event(o)
  PROVE  queue' \subseteq Workloads /\ missed' \subseteq Workloads
BY RequestsAreWorkloads DEF Changed, Event, RollupTypeOK

LEMMA ObserveType ==
  ASSUME RollupTypeOK, NEW o \in Objects, Observe(o)
  PROVE  RollupTypeOK'
<1>1. queue' \subseteq Workloads /\ missed' \subseteq Workloads
  BY ChangedType DEF Observe
<1>2. QED
  BY <1>1 DEF Observe, RollupTypeOK

LEMMA GoneType ==
  ASSUME RollupTypeOK, NEW objects, Gone(objects)
  PROVE  exists' \subseteq Objects /\ aibom' \in [Workloads -> Document \cup {Nil}]
<1>1. aibom \in [Workloads -> Document \cup {Nil}]
  BY DEF RollupTypeOK
<1>2. \A w \in Workloads : aibom[w] \in Document \cup {Nil}
  BY <1>1
<1>3. QED
  BY <1>2 DEF Gone, RollupTypeOK

\* The cluster and the operator.
LEMMA ClusterType ==
  ASSUME RollupTypeOK, Cluster
  PROVE  RollupTypeOK'
<1>1. spent \in 0..MaxDisturbances /\ exists \subseteq Objects
  BY DEF RollupTypeOK
<1>2. ASSUME NEW o \in Objects, Create(o)
      PROVE  RollupTypeOK'
  <2>1. spent' \in 0..MaxDisturbances
    BY <1>1, <1>2, SpendCounts DEF Create
  <2>2. queue' \subseteq Workloads /\ missed' \subseteq Workloads
    BY <1>2, ChangedType DEF Create
  <2>3. QED
    BY <1>2, <2>1, <2>2 DEF Create, RollupTypeOK
<1>3. ASSUME NEW o \in Objects, Update(o)
      PROVE  RollupTypeOK'
  <2>1. spent' \in 0..MaxDisturbances
    BY <1>1, <1>3, SpendCounts DEF Update
  <2>2. queue' \subseteq Workloads /\ missed' \subseteq Workloads
    BY <1>3, ChangedType DEF Update
  <2>3. QED
    BY <1>3, <2>1, <2>2 DEF Update, RollupTypeOK, cluster
<1>4. ASSUME NEW o \in Objects, Delete(o)
      PROVE  RollupTypeOK'
  <2>1. spent' \in 0..MaxDisturbances
    BY <1>1, <1>4, SpendCounts DEF Delete
  <2>2. queue' \subseteq Workloads /\ missed' \subseteq Workloads
    BY <1>4, ChangedType DEF Delete
  <2>3. exists' \subseteq Objects /\ aibom' \in [Workloads -> Document \cup {Nil}]
    BY <1>4, GoneType DEF Delete
  <2>4. QED
    BY <1>4, <2>1, <2>2, <2>3 DEF Delete, RollupTypeOK
<1>5. ASSUME NEW k \in Supervised, RemoveCRD(k)
      PROVE  RollupTypeOK'
  <2>1. spent' \in 0..MaxDisturbances
    BY <1>1, <1>5, SpendCounts DEF RemoveCRD
  <2>2. exists' \subseteq Objects /\ aibom' \in [Workloads -> Document \cup {Nil}]
    BY <1>5, GoneType DEF RemoveCRD
  <2>3. QED
    BY <1>5, <2>1, <2>2 DEF RemoveCRD, RollupTypeOK, fanoutVars, Below
<1>6. ASSUME NEW k \in Supervised, InstallCRD(k)
      PROVE  RollupTypeOK'
  <2>1. spent' \in 0..MaxDisturbances
    BY <1>1, <1>6, SpendCounts DEF InstallCRD
  <2>2. QED
    BY <1>6, <2>1 DEF InstallCRD, RollupTypeOK, fanoutVars, work
<1>7. ASSUME NEW k \in Supervised, Outage(k)
      PROVE  RollupTypeOK'
  <2>1. spent' \in 0..MaxDisturbances
    BY <1>1, <1>7, SpendCounts DEF Outage
  <2>2. QED
    BY <1>7, <2>1 DEF Outage, RollupTypeOK, fanoutVars, work
<1>8. ASSUME NEW kinds \in SUBSET Reporting, Swap(kinds)
      PROVE  RollupTypeOK'
  <2>1. spent' \in 0..MaxDisturbances
    BY <1>1, <1>8, SpendCounts DEF Swap
  <2>2. [allowed |-> kinds, by |-> "store"] \in Trigger
    BY DEF Trigger
  <2>3. QED
    BY <1>8, <2>1, <2>2 DEF Swap, RollupTypeOK, cluster, work
<1>9. QED
  BY <1>2, <1>3, <1>4, <1>5, <1>6, <1>7, <1>8, FanoutType DEF Cluster

LEMMA RollupTypeNext == RollupTypeOK /\ [Next]_vars => RollupTypeOK'
<1> SUFFICES ASSUME RollupTypeOK, [Next]_vars PROVE RollupTypeOK'
  OBVIOUS
<1>1. CASE Controller
  BY <1>1, SupervisorType, ReconcilesType, ObserveType, FanoutType DEF Controller
<1>2. CASE Cluster
  BY <1>2, ClusterType
<1>3. CASE UNCHANGED vars
  BY <1>3 DEF vars, RollupTypeOK, cluster, fanoutVars, work
<1>4. QED
  BY <1>1, <1>2, <1>3 DEF Next

\* The roll-up keeps its types: in particular only a tracked kind of the
\* supervisor's is ever recorded as replaced, and a document never says that a
\* tracked owner was found (reconcileWorkload, kindLife).
THEOREM RollupTypeCorrect == Spec => []RollupTypeOK
BY RollupTypeInit, RollupTypeNext, PTL DEF Spec

-----------------------------------------------------------------------------
(* What a reconcile left behind is true of the present *)

\* A step that changes neither the allowlist nor the tracked kinds, and nothing
\* of w but that it is owed a visit or has gone.
LEMMA Framed ==
  ASSUME NEW w \in Workloads, IdleInv(w), CurrentInv(w),
         allow' = allow, tracked' = tracked, running \subseteq running',
         rec'[w] = rec[w],
         w \in exists' => aibom'[w] = aibom[w],
         w \notin exists' => aibom'[w] = Nil,
         w \in exists' /\ Served(KindOf[w]) /\ KindOf[w] \in Managed \cup allow
           /\ (Owed(w) \/ w \notin exists) => Owed(w)'
  PROVE  IdleInv(w)' /\ CurrentInv(w)'
<1>1. NoOwner(w) => NoOwner(w)'
  BY DEF NoOwner, Owns, Has
<1>2. ~Served(KindOf[w])' => ~Served(KindOf[w])
  BY DEF Served
<1>3. IdleInv(w)'
  BY <1>2 DEF IdleInv
<1>4. CASE ~Served(KindOf[w])
  BY <1>4 DEF IdleInv, CurrentInv
<1>5. CASE Served(KindOf[w])
  <2>1. SUFFICES ASSUME w \in exists', ~Owed(w)', (KindOf[w] \in Managed \cup allow)'
                 PROVE  CurrentInv(w)'
    BY <1>3 DEF CurrentInv
  <2>2. w \in exists /\ ~Owed(w) /\ KindOf[w] \in Managed \cup allow
    BY <1>5, <2>1
  <2>3. aibom'[w] = aibom[w]
    BY <2>1
  <2>4. QED
    BY <1>1, <2>2, <2>3 DEF CurrentInv
<1>6. QED
  BY <1>3, <1>4, <1>5

\* The supervisor: a kind that becomes or ceases to be an owner makes it request
\* a fan-out, a kind that is stopped loses its documents.
LEMMA SupervisorCurrent ==
  ASSUME RollupTypeOK, NEW w \in Workloads, IdleInv(w), CurrentInv(w),
         NEW k \in Supervised, Supervisor(k)
  PROVE  IdleInv(w)' /\ CurrentInv(w)'
<1>1. CASE activate(k)
  <2>1. Owed(w)'
    BY <1>1 DEF activate, Owed
  <2>2. IdleInv(w)'
    BY <1>1 DEF activate, IdleInv, Served, cluster, work
  <2>3. QED
    BY <2>1, <2>2 DEF CurrentInv
<1>2. CASE StartRunner(k)
  <2>1. Owed(w) => Owed(w)'
    BY <1>2 DEF StartRunner, Owed, Unseen, cluster, fanoutVars
  <2>2. running \subseteq running' /\ allow' = allow /\ tracked' = tracked
    BY <1>2 DEF StartRunner
  <2>3. exists' = exists /\ rec' = rec /\ aibom' = aibom
    BY <1>2 DEF StartRunner, cluster
  <2>4. QED
    BY <2>1, <2>2, <2>3, Framed DEF IdleInv
<1>3. ASSUME StopAndSweep(k), exists' = exists
      PROVE  IdleInv(w)'
  <2>1. CASE KindOf[w] = k
    BY <1>3, <2>1, IdleTypes DEF StopAndSweep, IdleInv
  <2>2. CASE KindOf[w] # k
    BY <1>3, <2>2 DEF StopAndSweep, IdleInv, Served
  <2>3. QED
    BY <2>1, <2>2
<1>4. CASE StopExcluded(k)
  <2>1. StopAndSweep(k) /\ allow' = allow /\ tracked' = tracked /\ exists' = exists
    BY <1>4 DEF StopExcluded, cluster
  <2>2. CASE KindOf[w] = k
    <3>1. rec'[w].pc = "idle" /\ aibom'[w] = Nil
      BY <2>1, <2>2, IdleTypes DEF StopAndSweep
    <3>2. QED
      BY <1>3, <2>1, <3>1 DEF CurrentInv
  <2>3. CASE KindOf[w] # k
    <3>1. rec'[w] = rec[w] /\ aibom'[w] = aibom[w]
      BY <2>1, <2>3 DEF StopAndSweep
    <3>2. Owed(w) => Owed(w)'
      BY <1>4, <2>1, <2>3 DEF StopExcluded, StopAndSweep, Owed, Unseen, OfKind, cluster, fanoutVars
    <3>3. NoOwner(w) => NoOwner(w)'
      BY <2>1 DEF NoOwner, Owns, Has
    <3>4. CurrentInv(w)'
      BY <2>1, <3>1, <3>2, <3>3 DEF CurrentInv
    <3>5. QED
      BY <1>3, <2>1, <3>4
  <2>4. QED
    BY <2>2, <2>3
<1>5. CASE retire(k)
  <2>1. StopAndSweep(k) /\ exists' = exists
    BY <1>5 DEF retire, cluster
  <2>2. Owed(w)'
    BY <1>5 DEF retire, Owed
  <2>3. QED
    BY <1>3, <2>1, <2>2 DEF CurrentInv
<1>6. QED
  BY <1>1, <1>2, <1>4, <1>5 DEF Supervisor

\* A reconcile reads the allowlist and walks up; what it finds is true when it
\* reads it, and a change since then owes the workload another visit.
LEMMA ReconcilesCurrent ==
  ASSUME RollupTypeOK, NEW w \in Workloads, IdleInv(w), CurrentInv(w),
         NEW v \in Workloads, Reconciles(v)
  PROVE  IdleInv(w)' /\ CurrentInv(w)'
<1>1. rec \in [Workloads -> reconcile] /\ aibom \in [Workloads -> Document \cup {Nil}]
  BY DEF RollupTypeOK
<1>2. /\ allow' = allow /\ tracked' = tracked /\ running' = running /\ exists' = exists
      /\ fanoutReq' = fanoutReq /\ waiting' = waiting /\ fanout' = fanout /\ cached' = cached
  BY DEF Reconciles, Begin, Resolve, Finish, cluster, fanoutVars
<1>3. NoOwner(w) => NoOwner(w)'
  BY <1>2 DEF NoOwner, Owns, Has
<1>4. CASE v # w
  <2>1. rec'[w] = rec[w] /\ aibom'[w] = aibom[w]
    BY <1>1, <1>4 DEF Reconciles, Begin, Resolve, Finish
  <2>2. Owed(w) => Owed(w)'
    BY <1>2, <1>4 DEF Reconciles, Begin, Resolve, Finish, Owed, Unseen, fanoutVars
  <2>3. QED
    BY <1>2, <2>1, <2>2, Framed DEF IdleInv
<1>5. CASE v = w /\ Begin(w)
  <2>1. Served(KindOf[w])' /\ aibom' = aibom
    BY <1>2, <1>5 DEF Begin, Served
  <2>2. IdleInv(w)'
    BY <1>2, <2>1 DEF IdleInv
  <2>3. CASE w \notin Shown
    <3>1. w \in exists' => Owed(w)'
      BY <1>2, <2>3, NotShown DEF Owed, Unseen
    <3>2. QED
      BY <2>2, <3>1 DEF CurrentInv
  <2>4. CASE w \in Shown
    <3>1. rec'[w].pc = "begun" /\ rec'[w].allowed = (KindOf[w] \in allow)
      BY <1>1, <1>5, <2>4 DEF Begin, NoReconcile
    <3>2. CurrentInv(w)'
      BY <1>2, <3>1 DEF CurrentInv
    <3>3. QED
      BY <2>2, <3>2
  <2>5. QED
    BY <2>3, <2>4
<1>6. CASE v = w /\ Resolve(w)
  <2>1. rec[w].pc = "begun" /\ aibom' = aibom /\ (Owed(w) => Owed(w)')
    BY <1>2, <1>6 DEF Resolve, Owed, Unseen, fanoutVars
  <2>2. Served(KindOf[w])'
    BY <1>2, <2>1 DEF IdleInv, Served
  <2>3. rec[w] \in reconcile
    BY <1>1
  <2>4. rec'[w].pc = "resolved" /\ rec'[w].allowed = rec[w].allowed
    BY <1>1, <1>6, <2>3 DEF Resolve, reconcile
  <2>5. rec[w].allowed => rec'[w].found = resolveTrackedOwner(w)
    BY <1>1, <1>6, <2>3 DEF Resolve, reconcile
  <2>6. IdleInv(w)'
    BY <1>2, <2>1, <2>2 DEF IdleInv
  <2>7. CurrentInv(w)'
    BY <1>2, <1>3, <2>1, <2>4, <2>5, WalkFacts DEF CurrentInv
  <2>8. QED
    BY <2>6, <2>7
<1>7. CASE v = w /\ Finish(w)
  <2>1. rec[w].pc = "resolved" /\ (Owed(w) => Owed(w)')
    BY <1>2, <1>7 DEF Finish, Owed, Unseen, fanoutVars
  <2>2. Served(KindOf[w])'
    BY <1>2, <2>1 DEF IdleInv, Served
  <2>3. rec'[w].pc = "idle"
    BY <1>1, <1>7, IdleTypes DEF Finish
  <2>4. aibom'[w] = IF ~rec[w].allowed \/ rec[w].found = "tracked" \/ w \notin exists THEN Nil
                    ELSE [owned |-> rec[w].owned, pods |-> rec[w].pods, found |-> rec[w].found,
                          partial |-> rec[w].partial]
    BY <1>1, <1>7 DEF Finish
  <2>5. IdleInv(w)'
    BY <1>2, <2>2, <2>4 DEF IdleInv
  <2>6. aibom'[w] # Nil => rec[w].allowed /\ aibom'[w].found = rec[w].found
    BY <2>4
  <2>7. CurrentInv(w)'
    BY <1>2, <1>3, <2>1, <2>3, <2>6 DEF CurrentInv
  <2>8. QED
    BY <2>5, <2>7
<1>8. QED
  BY <1>4, <1>5, <1>6, <1>7 DEF Reconciles

\* A step of the fan-out concerns none of the workloads but by what they are owed.
LEMMA FanoutFrame ==
  ASSUME FanoutStep \/ FanoutTimesOut \/ \E k \in Reporting : fanOutKindFails(k)
  PROVE  /\ allow' = allow /\ tracked' = tracked /\ running' = running /\ exists' = exists
         /\ rec' = rec /\ aibom' = aibom /\ present' = present /\ replaced' = replaced
         /\ unnoticed' = unnoticed /\ Unseen' = Unseen
BY DEF FanoutStep, runFanout, TriggerContext, fanOutKind, FanoutTimesOut, fanOutKindFails,
       cluster, work, Unseen

\* The fan-out keeps its promise: a request becomes a call with the set of now,
\* the call becomes kinds to visit, and a visit queues the workload or fails.
LEMMA FanoutOwes ==
  ASSUME RollupTypeOK, NEW w \in Workloads,
         w \in exists, Served(KindOf[w]), KindOf[w] \in Managed \cup allow, Owed(w),
         FanoutStep \/ FanoutTimesOut \/ \E k \in Reporting : fanOutKindFails(k)
  PROVE  Owed(w)'
<1>1. fanout \in Fanout /\ fanout.todo \in SUBSET Reporting
  BY DEF RollupTypeOK, Fanout
<1>2. allow' = allow /\ Unseen' = Unseen
  BY FanoutFrame
<1>3. w \in exists /\ Served(KindOf[w]) /\ KindOf[w] \in Managed \cup allow /\ Owed(w)
  OBVIOUS
<1>4. \A k : KindOf[w] = k => w \in OfKind(k)
  BY DEF OfKind
<1>5. CASE runFanout
  <2> DEFINE t == [allowed |-> allow, by |-> "supervisor"]
  <2>1. t \in waiting' /\ t.allowed = allow'
    BY <1>2, <1>5 DEF runFanout
  <2> HIDE DEF t
  <2>2. QED
    BY <2>1 DEF Owed
<1>6. ASSUME NEW t \in waiting, TriggerContext(t)
      PROVE  Owed(w)'
  <2>1. /\ queue' = queue /\ missed' = missed /\ fanoutReq' = fanoutReq
        /\ waiting' = waiting \ {t} /\ fanout = NoFanout
        /\ fanout' = [trigger |-> t, todo |-> Managed \cup (running \cap t.allowed)]
    BY <1>6 DEF TriggerContext, work
  <2>2. fanout'.todo = Managed \cup (running \cap t.allowed)
    BY <2>1
  <2>3. KindOf[w] \notin fanout.todo
    BY <2>1, IdleTypes
  <2>4. CASE t.allowed = allow
    BY <1>3, <2>2, <2>4 DEF Owed, Served
  <2>5. CASE t.allowed # allow
    BY <1>2, <1>3, <2>1, <2>3, <2>5 DEF Owed
  <2>6. QED
    BY <2>4, <2>5
<1>7. ASSUME NEW k \in Reporting, fanOutKind(k)
      PROVE  Owed(w)'
  <2>1. fanout'.todo = fanout.todo \ {k}
    BY <1>1, <1>7, RemainingType DEF fanOutKind
  <2>2. queue \subseteq queue' /\ missed \subseteq missed'
    BY <1>7 DEF fanOutKind
  <2>3. fanoutReq' = fanoutReq /\ waiting' = waiting
    BY <1>7 DEF fanOutKind
  <2>4. CASE KindOf[w] = k
    <3>1. w \in queue' \cup missed'
      BY <1>3, <1>4, <1>7, <2>4 DEF fanOutKind
    <3>2. QED
      BY <3>1 DEF Owed
  <2>5. CASE KindOf[w] # k
    BY <1>2, <1>3, <2>1, <2>2, <2>3, <2>5 DEF Owed
  <2>6. QED
    BY <2>4, <2>5
<1>8. ASSUME NEW k \in Reporting, fanOutKindFails(k)
      PROVE  Owed(w)'
  <2>1. fanout'.todo = fanout.todo \ {k}
    BY <1>1, <1>8, RemainingType DEF fanOutKindFails
  <2>2. queue' = queue /\ missed' = missed \cup OfKind(k)
    BY <1>8 DEF fanOutKindFails, work
  <2>3. fanoutReq' = fanoutReq /\ waiting' = waiting
    BY <1>8 DEF fanOutKindFails
  <2>4. QED
    BY <1>2, <1>3, <1>4, <2>1, <2>2, <2>3 DEF Owed
<1>9. CASE FanoutTimesOut
  <2>1. /\ queue' = queue /\ fanoutReq' = fanoutReq /\ waiting' = waiting
        /\ missed' = missed \cup UNION {OfKind(k) : k \in fanout.todo}
    BY <1>9 DEF FanoutTimesOut, work
  <2>2. KindOf[w] \in fanout.todo => w \in missed'
    BY <1>4, <2>1
  <2>3. QED
    BY <1>2, <1>3, <2>1, <2>2 DEF Owed
<1>10. QED
  BY <1>5, <1>6, <1>7, <1>8, <1>9 DEF FanoutStep

LEMMA FanoutCurrent ==
  ASSUME RollupTypeOK, NEW w \in Workloads, IdleInv(w), CurrentInv(w),
         FanoutStep \/ FanoutTimesOut \/ \E k \in Reporting : fanOutKindFails(k)
  PROVE  IdleInv(w)' /\ CurrentInv(w)'
BY FanoutFrame, FanoutOwes, Framed DEF IdleInv

\* An event makes requests and takes none back.
LEMMA ObjectFrame ==
  ASSUME NEW o \in Objects, Create(o) \/ Update(o) \/ Delete(o) \/ Observe(o)
  PROVE  /\ queue \subseteq queue' /\ missed \subseteq missed'
         /\ fanoutReq' = fanoutReq /\ waiting' = waiting /\ fanout' = fanout
         /\ allow' = allow /\ tracked' = tracked /\ running' = running
         /\ replaced' = replaced /\ unnoticed' = unnoticed /\ present' = present
         /\ rec' = rec
<1>1. Changed(o) \/ Event(o)
  BY DEF Create, Update, Delete, Observe
<1>2. queue \subseteq queue' /\ missed \subseteq missed'
  BY <1>1 DEF Event, Changed
<1>3. QED
  BY <1>2 DEF Create, Update, Delete, Observe, cluster

\* What appears is queued, by its event or when the informer shows it.
LEMMA ObjectOwes ==
  ASSUME NEW w \in Workloads, NEW o \in Objects,
         Create(o) \/ Update(o) \/ Delete(o) \/ Observe(o),
         w \in exists', Served(KindOf[w]), Owed(w) \/ w \notin exists
  PROVE  Owed(w)'
<1>1. /\ queue \subseteq queue' /\ missed \subseteq missed'
      /\ fanoutReq' = fanoutReq /\ waiting' = waiting /\ fanout' = fanout
      /\ allow' = allow
  BY ObjectFrame
<1>2. w \in Objects /\ w \notin Pods
  BY KindFacts, PodsAreNoWorkloads
<1>3. w = o => w \in Requests(o)
  BY <1>2 DEF Requests
<1>4. CASE w \in Unseen
  <2>1. CASE Create(o) \/ Update(o) \/ Delete(o)
    <3>1. cached' = cached
      BY <2>1 DEF Create, Update, Delete, cluster
    <3>2. w \in Unseen'
      BY <1>4, <3>1 DEF Unseen
    <3>3. QED
      BY <3>2 DEF Owed
  <2>2. CASE Observe(o) /\ w # o
    <3>1. w \in Unseen'
      BY <1>4, <2>2 DEF Observe, Unseen
    <3>2. QED
      BY <3>1 DEF Owed
  <2>3. CASE Observe(o) /\ w = o
    <3>1. w \in queue'
      BY <1>3, <2>3 DEF Observe, Changed
    <3>2. QED
      BY <3>1 DEF Owed
  <2>4. QED
    BY <2>1, <2>2, <2>3
<1>5. CASE w \in exists /\ w \notin Unseen
  BY <1>1, <1>5 DEF Owed
<1>6. CASE w \notin exists
  <2>1. Create(o) /\ w = o
    BY <1>6 DEF Create, Update, Delete, Observe, Gone, cluster
  <2>2. CASE KindOf[o] \in CachedKinds
    <3>1. w \in Unseen'
      BY <2>1, <2>2 DEF Create, Unseen
    <3>2. QED
      BY <3>1 DEF Owed
  <2>3. CASE KindOf[o] \notin CachedKinds
    <3>1. w \in queue'
      BY <1>3, <2>1, <2>3 DEF Create, Event, Changed
    <3>2. QED
      BY <3>1 DEF Owed
  <2>4. QED
    BY <2>2, <2>3
<1>7. QED
  BY <1>4, <1>5, <1>6

\* An informer that catches up changes nothing else.
LEMMA ObserveFrame ==
  ASSUME NEW o \in Objects, Observe(o)
  PROVE  exists' = exists /\ aibom' = aibom
BY DEF Observe

LEMMA ObserveCurrent ==
  ASSUME NEW w \in Workloads, IdleInv(w), CurrentInv(w), NEW o \in Objects, Observe(o)
  PROVE  IdleInv(w)' /\ CurrentInv(w)'
<1>1. w \in exists' /\ Served(KindOf[w]) /\ (Owed(w) \/ w \notin exists) => Owed(w)'
  BY ObjectOwes
<1>2. QED
  BY <1>1, ObjectFrame, ObserveFrame, Framed DEF IdleInv

\* The cluster and the operator: an object that appears is queued, one that
\* goes takes its document along, and a swap starts a fan-out with the new set.
LEMMA ClusterCurrent ==
  ASSUME RollupTypeOK, NEW w \in Workloads, IdleInv(w), CurrentInv(w), Cluster
  PROVE  IdleInv(w)' /\ CurrentInv(w)'
<1>1. ASSUME NEW o \in Objects, Create(o) \/ Update(o) \/ Delete(o)
      PROVE  /\ w \in exists' /\ Served(KindOf[w]) /\ (Owed(w) \/ w \notin exists) => Owed(w)'
             /\ allow' = allow /\ tracked' = tracked /\ running' = running /\ rec' = rec
  BY <1>1, ObjectOwes, ObjectFrame
<1>2. ASSUME NEW objects, Gone(objects)
      PROVE  /\ w \in exists' => w \in exists /\ aibom'[w] = aibom[w]
             /\ w \notin exists' => aibom'[w] = Nil
  BY <1>2 DEF Gone, IdleInv
<1>3. ASSUME NEW o \in Objects, Create(o) \/ Update(o)
      PROVE  IdleInv(w)' /\ CurrentInv(w)'
  <2>1. exists \subseteq exists' /\ aibom' = aibom
    BY <1>3 DEF Create, Update, cluster
  <2>2. w \notin exists' => aibom'[w] = Nil
    BY <2>1 DEF IdleInv
  <2>3. QED
    BY <1>1, <1>3, <2>1, <2>2, Framed
<1>4. ASSUME NEW o \in Objects, Delete(o)
      PROVE  IdleInv(w)' /\ CurrentInv(w)'
  <2>1. Gone({o})
    BY <1>4 DEF Delete
  <2>2. QED
    BY <1>1, <1>2, <1>4, <2>1, Framed
<1>5. ASSUME NEW k \in Supervised, RemoveCRD(k)
      PROVE  IdleInv(w)' /\ CurrentInv(w)'
  <2>1. /\ Gone(OfKind(k)) /\ rec' = rec /\ queue' = queue /\ missed' = missed /\ cached' = cached
        /\ fanoutReq' = fanoutReq /\ waiting' = waiting /\ fanout' = fanout
        /\ allow' = allow /\ tracked' = tracked /\ running' = running
    BY <1>5 DEF RemoveCRD, fanoutVars
  <2>2. w \in exists' /\ Owed(w) => Owed(w)'
    BY <2>1 DEF Owed, Unseen
  <2>3. QED
    BY <1>2, <2>1, <2>2, Framed
<1>6. ASSUME NEW k \in Supervised, InstallCRD(k) \/ Outage(k)
      PROVE  IdleInv(w)' /\ CurrentInv(w)'
  <2>1. /\ exists' = exists /\ rec' = rec /\ aibom' = aibom /\ queue' = queue /\ cached' = cached
        /\ missed' = missed /\ fanoutReq' = fanoutReq /\ waiting' = waiting /\ fanout' = fanout
        /\ allow' = allow /\ tracked' = tracked /\ running' = running
    BY <1>6 DEF InstallCRD, Outage, fanoutVars, work
  <2>2. Owed(w) => Owed(w)'
    BY <2>1 DEF Owed, Unseen
  <2>3. QED
    BY <2>1, <2>2, Framed DEF IdleInv
<1>7. ASSUME NEW kinds \in SUBSET Reporting, Swap(kinds)
      PROVE  IdleInv(w)' /\ CurrentInv(w)'
  <2> DEFINE t == [allowed |-> kinds, by |-> "store"]
  <2>1. t \in waiting' /\ t.allowed = allow'
    BY <1>7 DEF Swap
  <2> HIDE DEF t
  <2>2. Owed(w)'
    BY <2>1 DEF Owed
  <2>3. IdleInv(w)'
    BY <1>7 DEF Swap, IdleInv, Served, cluster, work
  <2>4. QED
    BY <2>2, <2>3 DEF CurrentInv
<1>8. QED
  BY <1>3, <1>4, <1>5, <1>6, <1>7, FanoutCurrent DEF Cluster

LEMMA RollupInvInit == Init => RollupInv
<1> SUFFICES ASSUME Init PROVE RollupInv
  OBVIOUS
<1>1. ASSUME NEW w \in Workloads
      PROVE  rec[w].pc = "idle" /\ aibom[w] = Nil
  BY IdleTypes DEF Init
<1>2. ASSUME NEW w \in Workloads
      PROVE  IdleInv(w) /\ CurrentInv(w)
  BY <1>1 DEF IdleInv, CurrentInv
<1>3. QED
  BY <1>2, RollupTypeInit DEF RollupInv

LEMMA RollupInvNext == RollupInv /\ [Next]_vars => RollupInv'
<1> SUFFICES ASSUME RollupInv, [Next]_vars PROVE RollupInv'
  OBVIOUS
<1>1. RollupTypeOK'
  BY RollupTypeNext DEF RollupInv
<1>2. ASSUME NEW w \in Workloads
      PROVE  IdleInv(w)' /\ CurrentInv(w)'
  <2>1. RollupTypeOK /\ IdleInv(w) /\ CurrentInv(w)
    BY DEF RollupInv
  <2>2. CASE Controller
    BY <2>1, <2>2, SupervisorCurrent, ReconcilesCurrent, ObserveCurrent, FanoutCurrent
      DEF Controller
  <2>3. CASE Cluster
    BY <2>1, <2>3, ClusterCurrent
  <2>4. CASE UNCHANGED vars
    <3>1. /\ exists' = exists /\ rec' = rec /\ aibom' = aibom /\ queue' = queue /\ cached' = cached
          /\ missed' = missed /\ fanoutReq' = fanoutReq /\ waiting' = waiting
          /\ fanout' = fanout /\ allow' = allow /\ tracked' = tracked /\ running' = running
      BY <2>4 DEF vars, cluster, fanoutVars, work
    <3>2. Owed(w) => Owed(w)'
      BY <3>1 DEF Owed, Unseen
    <3>3. QED
      BY <2>1, <3>1, <3>2, Framed DEF IdleInv
  <2>5. QED
    BY <2>2, <2>3, <2>4 DEF Next
<1>3. QED
  BY <1>1, <1>2 DEF RollupInv

\* Whatever a reconcile holds in its hands or left behind was computed with the
\* allowlist and the tracked kinds of now, unless its workload will be visited
\* again or a failed fan-out missed it.
THEOREM RollupInvariant == Spec => []RollupInv
BY RollupInvInit, RollupInvNext, PTL DEF Spec

\* At rest the informers show what is there.
LEMMA RestShows ==
  ASSUME RollupTypeOK, Rest
  PROVE  Unseen = {}
BY DEF Rest, RollupTypeOK, Unseen

\* At rest a workload that no failed fan-out missed is owed nothing.
LEMMA RestOwesNothing ==
  ASSUME RollupInv, Rest, NEW w \in (Workloads \cap exists) \ missed,
         aibom[w] # Nil, KindOf[w] \notin broken
  PROVE  ~Owed(w) /\ KindOf[w] \in Managed \cup allow /\ rec[w].pc = "idle"
<1>1. w \in Workloads /\ w \notin missed
  OBVIOUS
<1>2. /\ w \notin queue \cup Unseen /\ rec[w].pc = "idle"
      /\ ~fanoutReq /\ waiting = {} /\ fanout = NoFanout
      /\ running \ broken = (present \cap allow) \ broken
  BY <1>1, RestShows DEF Rest, RollupInv
<1>3. ~Owed(w)
  BY <1>1, <1>2, IdleTypes DEF Owed
<1>4. Served(KindOf[w])
  BY <1>1 DEF RollupInv, IdleInv
<1>5. KindOf[w] \in Managed \cup allow
  BY <1>2, <1>4 DEF Served
<1>6. QED
  BY <1>2, <1>3, <1>5

\* One workload, one document: when the system has come to rest, a workload with
\* a document of its own is of an allowed kind and no owner above it absorbs it,
\* whatever swaps, CRDs, outages and failures came before (reconcileWorkload,
\* resolveTrackedOwner, runFanout, Bind).
THEOREM OneDocument == Spec => []OneWorkloadOneDocument
<1>1. RollupInv => OneWorkloadOneDocument
  <2>1. SUFFICES ASSUME RollupInv, Rest, NEW w \in (Workloads \cap exists) \ missed,
                        aibom[w] # Nil, KindOf[w] \notin broken
                 PROVE  /\ KindOf[w] \in allow
                        /\ aibom[w].found # "unresolved" => resolveTrackedOwner(w) # "tracked"
    BY DEF OneWorkloadOneDocument
  <2>2. w \in Workloads /\ w \in exists
    BY <2>1
  <2>3. ~Owed(w) /\ KindOf[w] \in Managed \cup allow /\ rec[w].pc = "idle"
    BY <2>1, RestOwesNothing
  <2>4. KindOf[w] \in allow /\ (aibom[w].found = "none" => NoOwner(w))
    BY <2>1, <2>2, <2>3 DEF RollupInv, CurrentInv
  <2>5. aibom \in [Workloads -> Document \cup {Nil}]
    BY <2>1 DEF RollupInv, RollupTypeOK
  <2>6. aibom[w] \in Document
    BY <2>1, <2>2, <2>5
  <2>7. aibom[w].found \in {"none", "unresolved"}
    BY <2>6 DEF Document
  <2>8. resolveTrackedOwner(w) = "tracked" => ~NoOwner(w)
    BY <2>2, WalkFacts DEF NoOwner, Absorbs
  <2>9. QED
    BY <2>4, <2>7, <2>8
<1>2. QED
  BY <1>1, RollupInvariant, PTL

-----------------------------------------------------------------------------
(* The owners of an owner *)

\* One hop up.
LEMMA OneHop ==
  ASSUME NEW o \in Objects, Owners[o] # <<>>
  PROVE  /\ OwnerRef[o] \in Objects
         /\ Len(Owners[o]) = 1 + Len(Owners[OwnerRef[o]])
         /\ Owners[o][1] = OwnerRef[o]
         /\ \A j \in 1..Len(Owners[OwnerRef[o]]) : Owners[o][j + 1] = Owners[OwnerRef[o]][j]
<1>1. /\ OwnerRef[o] \in Objects /\ Owners[OwnerRef[o]] \in Seq(Objects)
      /\ Owners[o] = <<OwnerRef[o]>> \o Owners[OwnerRef[o]]
  BY RollupFacts, OwnersAreFinite
<1>2. ASSUME NEW x \in Objects, NEW s \in Seq(Objects)
      PROVE  /\ Len(<<x>> \o s) = 1 + Len(s) /\ (<<x>> \o s)[1] = x
             /\ \A j \in 1..Len(s) : (<<x>> \o s)[j + 1] = s[j]
  OBVIOUS
<1>3. QED
  BY <1>1, <1>2

\* From the i-th owner on, the owners of w are the owners of that owner.
Suffix(w, i) ==
  /\ Len(Owners[w]) = i + Len(Owners[Owners[w][i]])
  /\ \A j \in 1..Len(Owners[Owners[w][i]]) : Owners[w][i + j] = Owners[Owners[w][i]][j]
  /\ OwnerRef[IF i = 1 THEN w ELSE Owners[w][i - 1]] = Owners[w][i]

\* Each hop of a walk makes the same way as a walk that starts there.
LEMMA SuffixStep ==
  ASSUME NEW w \in Objects, NEW i \in 1..Len(Owners[w]), i > 1, Suffix(w, i - 1)
  PROVE  Suffix(w, i)
<1> DEFINE p == Owners[w][i - 1]
<1>1. Len(Owners[w]) \in Nat /\ i - 1 \in 1..Len(Owners[w]) /\ i \in Nat
  BY OwnerFacts
<1>2. p \in Objects
  BY <1>1, OwnerFacts
<1>3. /\ Len(Owners[w]) = (i - 1) + Len(Owners[p])
      /\ \A j \in 1..Len(Owners[p]) : Owners[w][(i - 1) + j] = Owners[p][j]
  BY DEF Suffix
<1> HIDE DEF p
<1>4. Len(Owners[p]) \in Nat /\ Owners[p] \in Seq(Objects)
  BY <1>2, RollupFacts
<1>5. Len(Owners[p]) # 0
  BY <1>1, <1>3, <1>4
<1>6. Owners[p] # <<>>
  BY <1>5
<1> DEFINE q == OwnerRef[p]
<1>7. /\ q \in Objects /\ Len(Owners[p]) = 1 + Len(Owners[q]) /\ Owners[p][1] = q
      /\ \A j \in 1..Len(Owners[q]) : Owners[p][j + 1] = Owners[q][j]
  BY <1>2, <1>6, OneHop
<1>8. Len(Owners[q]) \in Nat
  BY <1>7, OwnerFacts
<1>9. q = OwnerRef[p]
  OBVIOUS
<1> HIDE DEF q
<1>10. Owners[w][i] = q
  <2>1. 1 \in 1..Len(Owners[p]) /\ (i - 1) + 1 = i
    BY <1>1, <1>4, <1>5
  <2>2. QED
    BY <1>3, <1>7, <2>1
<1>11. Len(Owners[w]) = i + Len(Owners[q])
  BY <1>1, <1>3, <1>7, <1>8
<1>12. ASSUME NEW j \in 1..Len(Owners[q])
       PROVE  Owners[w][i + j] = Owners[q][j]
  <2>1. j + 1 \in 1..Len(Owners[p]) /\ (i - 1) + (j + 1) = i + j
    BY <1>1, <1>7, <1>8
  <2>2. Owners[w][(i - 1) + (j + 1)] = Owners[p][j + 1]
    BY <1>3, <2>1
  <2>3. QED
    BY <1>7, <2>1, <2>2
<1>13. ~(i = 1)
  BY <1>1
<1>14. QED
  BY <1>9, <1>10, <1>11, <1>12, <1>13 DEF Suffix, p

LEMMA OwnersOfOwners ==
  ASSUME NEW w \in Objects
  PROVE  \A i \in 1..Len(Owners[w]) : Suffix(w, i)
<1> DEFINE Bad == {i \in 1..Len(Owners[w]) : ~Suffix(w, i)}
<1>1. Len(Owners[w]) \in Nat /\ Bad \in SUBSET Nat
  BY OwnerFacts
<1>2. SUFFICES ASSUME Bad # {} PROVE FALSE
  OBVIOUS
<1>3. PICK i \in Bad : \A k \in Bad : i <= k
  BY <1>1, <1>2, LeastPosition
<1>4. i \in 1..Len(Owners[w]) /\ ~Suffix(w, i)
  OBVIOUS
<1>5. CASE i = 1
  <2>1. Owners[w] # <<>>
    BY <1>1, <1>4, <1>5
  <2>2. /\ OwnerRef[w] \in Objects /\ Len(Owners[w]) = 1 + Len(Owners[OwnerRef[w]])
        /\ Owners[w][1] = OwnerRef[w]
        /\ \A j \in 1..Len(Owners[OwnerRef[w]]) : Owners[w][j + 1] = Owners[OwnerRef[w]][j]
    BY <2>1, OneHop
  <2>3. \A j \in 1..Len(Owners[OwnerRef[w]]) : 1 + j = j + 1
    BY <2>2, OwnerFacts
  <2>4. Suffix(w, 1)
    BY <2>2, <2>3 DEF Suffix
  <2>5. QED
    BY <1>4, <1>5, <2>4
<1>6. CASE i # 1
  <2>1. i > 1 /\ i - 1 \in 1..Len(Owners[w]) /\ ~(i <= i - 1)
    BY <1>1, <1>4, <1>6
  <2>2. Suffix(w, i - 1)
    BY <1>3, <2>1
  <2>3. QED
    BY <1>4, <2>1, <2>2, SuffixStep
<1>7. QED
  BY <1>5, <1>6

-----------------------------------------------------------------------------
(* A workload without a document has an owner for it *)

\* An owner stays one while the ways up and the replaced CRDs do.
LEMMA OwnerStays ==
  ASSUME NEW w, OwnerThere(w), allow' = allow, tracked' = tracked,
         replaced \subseteq replaced', exists \subseteq exists'
  PROVE  OwnerThere(w)'
<1>1. PICK i \in 1..Len(Owners[w]) :
        /\ Absorbs(w, i)
        /\ Intact(w, i) \/ \E j \in 1..Len(Owners[w]) : KindOf[Owners[w][j]] \in replaced
  BY DEF OwnerThere
<1>2. Absorbs(w, i)'
  BY <1>1 DEF Absorbs, Owns, Has
<1>3. Intact(w, i) => Intact(w, i)'
  BY DEF Intact
<1>4. QED
  BY <1>1, <1>2, <1>3 DEF OwnerThere

\* A step that leaves w's reconcile, its document and its owner alone.
LEMMA AbsorbedFramed ==
  ASSUME NEW w \in Workloads, AbsorbedInv(w), allow' = allow, rec'[w] = rec[w],
         w \in exists' /\ Served(KindOf[w])' /\ KindOf[w] \in allow
           /\ ~Owed(w)' /\ w \notin unnoticed' =>
             /\ w \in exists /\ Served(KindOf[w]) /\ ~Owed(w) /\ w \notin unnoticed
             /\ aibom'[w] = aibom[w]
             /\ OwnerThere(w) => OwnerThere(w)'
  PROVE  AbsorbedInv(w)'
<1>1. SUFFICES ASSUME w \in exists', Served(KindOf[w])', KindOf[w] \in allow,
                      ~Owed(w)', w \notin unnoticed'
               PROVE  /\ rec[w].pc = "resolved" /\ rec[w].found = "tracked" => OwnerThere(w)'
                      /\ rec[w].pc = "idle" /\ aibom'[w] = Nil => OwnerThere(w)'
  BY DEF AbsorbedInv
<1>2. /\ w \in exists /\ Served(KindOf[w]) /\ ~Owed(w) /\ w \notin unnoticed
      /\ aibom'[w] = aibom[w] /\ (OwnerThere(w) => OwnerThere(w)')
  BY <1>1
<1>3. QED
  BY <1>1, <1>2 DEF AbsorbedInv

\* The supervisor: a runner that starts lists what it serves from now on.
LEMMA SupervisorAbsorbed ==
  ASSUME RollupInv, NEW w \in Workloads, PresentInv(w), AbsorbedInv(w),
         NEW k \in Supervised, Supervisor(k)
  PROVE  PresentInv(w)' /\ AbsorbedInv(w)'
<1>1. exists' = exists /\ present' = present
  BY DEF Supervisor, activate, StartRunner, StopExcluded, retire, cluster
<1>2. PresentInv(w)'
  BY <1>1 DEF PresentInv
<1>3. CASE activate(k)
  <2>1. Owed(w)'
    BY <1>3 DEF activate, Owed
  <2>2. QED
    BY <1>2, <2>1 DEF AbsorbedInv
<1>4. CASE StartRunner(k)
  <2>1. /\ allow' = allow /\ tracked' = tracked /\ replaced' = replaced /\ rec' = rec
        /\ aibom' = aibom /\ unnoticed' = unnoticed
        /\ running' = running \cup {k} /\ queue' = queue \cup (OfKind(k) \cap exists)
    BY <1>4 DEF StartRunner
  <2>2. Owed(w) => Owed(w)'
    BY <1>4 DEF StartRunner, Owed, Unseen, cluster, fanoutVars
  <2>3. w \in exists /\ KindOf[w] = k => Owed(w)'
    BY <2>1 DEF OfKind, Owed
  <2>4. KindOf[w] # k /\ Served(KindOf[w])' => Served(KindOf[w])
    BY <2>1 DEF Served
  <2>5. AbsorbedInv(w)'
    BY <1>1, <2>1, <2>2, <2>3, <2>4, OwnerStays, AbsorbedFramed
  <2>6. QED
    BY <1>2, <2>5
<1>5. CASE StopExcluded(k)
  <2>1. StopAndSweep(k)
    BY <1>5 DEF StopExcluded
  <2>2. /\ allow' = allow /\ tracked' = tracked /\ replaced' = replaced
        /\ unnoticed' = unnoticed /\ running' = running \ {k} /\ queue' = queue \ OfKind(k)
    BY <1>5, <2>1 DEF StopExcluded, StopAndSweep
  <2>3. CASE KindOf[w] = k
    <3>1. k \notin Managed
      BY KindFacts
    <3>2. ~Served(KindOf[w])'
      BY <2>2, <2>3, <3>1 DEF Served
    <3>3. QED
      BY <1>2, <3>2 DEF AbsorbedInv
  <2>4. CASE KindOf[w] # k
    <3>1. rec'[w] = rec[w] /\ aibom'[w] = aibom[w]
      BY <2>1, <2>4 DEF StopAndSweep
    <3>2. Owed(w) => Owed(w)'
      BY <1>5, <2>2, <2>4 DEF StopExcluded, Owed, Unseen, OfKind, cluster, fanoutVars
    <3>3. Served(KindOf[w])' => Served(KindOf[w])
      BY <2>2 DEF Served
    <3>4. AbsorbedInv(w)'
      BY <1>1, <2>2, <3>1, <3>2, <3>3, OwnerStays, AbsorbedFramed
    <3>5. QED
      BY <1>2, <3>4
  <2>5. QED
    BY <2>3, <2>4
<1>6. CASE retire(k)
  <2>1. Owed(w)'
    BY <1>6 DEF retire, Owed
  <2>2. QED
    BY <1>2, <2>1 DEF AbsorbedInv
<1>7. QED
  BY <1>3, <1>4, <1>5, <1>6 DEF Supervisor

\* A reconcile suppresses a workload because of an owner it has just read.
LEMMA ReconcilesAbsorbed ==
  ASSUME RollupInv, NEW w \in Workloads, PresentInv(w), AbsorbedInv(w),
         NEW v \in Workloads, Reconciles(v)
  PROVE  PresentInv(w)' /\ AbsorbedInv(w)'
<1>1. rec \in [Workloads -> reconcile] /\ aibom \in [Workloads -> Document \cup {Nil}]
  BY DEF RollupInv, RollupTypeOK
<1>2. /\ allow' = allow /\ tracked' = tracked /\ running' = running /\ exists' = exists
      /\ fanoutReq' = fanoutReq /\ waiting' = waiting /\ fanout' = fanout
      /\ present' = present /\ replaced' = replaced /\ cached' = cached
  BY DEF Reconciles, Begin, Resolve, Finish, cluster, fanoutVars
<1>3. PresentInv(w)'
  BY <1>2 DEF PresentInv
<1>4. Served(KindOf[w])' = Served(KindOf[w])
  BY <1>2 DEF Served
<1>5. OwnerThere(w) => OwnerThere(w)'
  BY <1>2, OwnerStays
<1>6. CASE v # w
  <2>1. rec'[w] = rec[w] /\ aibom'[w] = aibom[w]
    BY <1>1, <1>6 DEF Reconciles, Begin, Resolve, Finish
  <2>2. Owed(w) => Owed(w)'
    BY <1>2, <1>6 DEF Reconciles, Begin, Resolve, Finish, Owed, Unseen, fanoutVars
  <2>3. w \in unnoticed => w \in unnoticed'
    BY <1>6 DEF Reconciles, Begin, Resolve, Finish
  <2>4. AbsorbedInv(w)'
    BY <1>2, <1>4, <1>5, <2>1, <2>2, <2>3, AbsorbedFramed
  <2>5. QED
    BY <1>3, <2>4
<1>7. CASE v = w /\ Begin(w)
  <2>1. CASE w \notin Shown
    <3>1. w \in exists' => Owed(w)'
      BY <1>2, <2>1, NotShown DEF Owed, Unseen
    <3>2. QED
      BY <1>3, <3>1 DEF AbsorbedInv
  <2>2. CASE w \in Shown
    <3>1. rec'[w].pc = "begun"
      BY <1>1, <1>7, <2>2 DEF Begin, NoReconcile
    <3>2. QED
      BY <1>3, <3>1 DEF AbsorbedInv
  <2>3. QED
    BY <2>1, <2>2
<1>8. CASE v = w /\ (Resolve(w) \/ Finish(w))
  <2>1. SUFFICES ASSUME w \in exists, ~Owed(w)', w \notin unnoticed', Served(KindOf[w]),
                        KindOf[w] \in allow
                 PROVE  /\ rec'[w].pc = "resolved" /\ rec'[w].found = "tracked" => OwnerThere(w)'
                        /\ rec'[w].pc = "idle" /\ aibom'[w] = Nil => OwnerThere(w)'
    BY <1>2, <1>3, <1>4 DEF AbsorbedInv
  <2>2. queue' = queue /\ missed' = missed /\ unnoticed' = unnoticed
    BY <1>8 DEF Resolve, Finish, fanoutVars
  <2>3. ~Owed(w) /\ w \notin unnoticed
    BY <1>2, <2>1, <2>2 DEF Owed, Unseen
  <2>4. rec[w].pc # "idle" /\ rec[w].allowed = (KindOf[w] \in allow)
    BY <1>8, <2>1, <2>3 DEF Resolve, Finish, RollupInv, CurrentInv
  <2>5. rec[w].allowed
    BY <2>1, <2>4
  <2>6. rec[w] \in reconcile
    BY <1>1
  <2>7. CASE Resolve(w)
    <3>1. rec'[w].pc = "resolved" /\ rec'[w].found = resolveTrackedOwner(w)
      BY <1>1, <2>5, <2>6, <2>7 DEF Resolve, reconcile
    <3>2. resolveTrackedOwner(w) = "tracked" => OwnerThere(w)
      BY WalkFacts DEF OwnerThere
    <3>3. QED
      BY <1>5, <3>1, <3>2
  <2>8. CASE Finish(w)
    <3>1. rec[w].pc = "resolved" /\ rec'[w].pc = "idle"
      BY <1>1, <2>8, IdleTypes DEF Finish
    <3>2. aibom'[w] = IF rec[w].found = "tracked" THEN Nil
                      ELSE [owned |-> rec[w].owned, pods |-> rec[w].pods, found |-> rec[w].found,
                          partial |-> rec[w].partial]
      BY <1>1, <2>1, <2>5, <2>8 DEF Finish
    <3>3. rec[w].found # "tracked" =>
            [owned |-> rec[w].owned, pods |-> rec[w].pods, found |-> rec[w].found,
                          partial |-> rec[w].partial] \in Document
      BY <2>6 DEF reconcile, Document
    <3>4. aibom'[w] = Nil => rec[w].found = "tracked"
      BY <3>2, <3>3, RollupFacts
    <3>5. rec[w].found = "tracked" => OwnerThere(w)
      BY <2>1, <2>3, <3>1 DEF AbsorbedInv
    <3>6. QED
      BY <1>5, <3>1, <3>4, <3>5
  <2>9. QED
    BY <1>8, <2>7, <2>8
<1>9. QED
  BY <1>6, <1>7, <1>8 DEF Reconciles

LEMMA FanoutAbsorbed ==
  ASSUME RollupInv, NEW w \in Workloads, PresentInv(w), AbsorbedInv(w),
         FanoutStep \/ FanoutTimesOut \/ \E k \in Reporting : fanOutKindFails(k)
  PROVE  PresentInv(w)' /\ AbsorbedInv(w)'
<1>1. /\ allow' = allow /\ tracked' = tracked /\ running' = running /\ exists' = exists
      /\ rec' = rec /\ aibom' = aibom /\ present' = present /\ replaced' = replaced
      /\ unnoticed' = unnoticed
  BY FanoutFrame
<1>2. Served(KindOf[w])' = Served(KindOf[w])
  BY <1>1 DEF Served
<1>3. w \in exists /\ Served(KindOf[w]) /\ KindOf[w] \in allow /\ Owed(w) => Owed(w)'
  BY FanoutOwes DEF RollupInv
<1>4. AbsorbedInv(w)'
  BY <1>1, <1>2, <1>3, OwnerStays, AbsorbedFramed
<1>5. QED
  BY <1>1, <1>4 DEF PresentInv

LEMMA ObserveAbsorbed ==
  ASSUME NEW w \in Workloads, PresentInv(w), AbsorbedInv(w), NEW o \in Objects, Observe(o)
  PROVE  PresentInv(w)' /\ AbsorbedInv(w)'
<1>1. w \in exists' /\ Served(KindOf[w]) /\ (Owed(w) \/ w \notin exists) => Owed(w)'
  BY ObjectOwes
<1>2. Served(KindOf[w])' = Served(KindOf[w])
  BY ObjectFrame DEF Served
<1>3. AbsorbedInv(w)'
  BY <1>1, <1>2, ObjectFrame, ObserveFrame, OwnerStays, AbsorbedFramed
<1>4. QED
  BY <1>3, ObjectFrame, ObserveFrame DEF PresentInv

\* The cluster: what an object owned goes before it, except with its CRD; when
\* that CRD was tracked the supervisor will retire it, and otherwise nobody
\* notices (unnoticed).
LEMMA ClusterAbsorbed ==
  ASSUME RollupInv, NEW w \in Workloads, PresentInv(w), AbsorbedInv(w), Cluster
  PROVE  PresentInv(w)' /\ AbsorbedInv(w)'
<1>1. w \in Objects
  BY KindFacts
<1>2. ASSUME NEW o \in Objects, Create(o) \/ Update(o) \/ Delete(o)
      PROVE  /\ w \in exists' /\ Served(KindOf[w]) /\ (Owed(w) \/ w \notin exists) => Owed(w)'
             /\ allow' = allow /\ tracked' = tracked /\ running' = running /\ rec' = rec
             /\ replaced' = replaced /\ unnoticed' = unnoticed /\ present' = present
             /\ Served(KindOf[w])' = Served(KindOf[w])
  BY <1>2, ObjectOwes, ObjectFrame DEF Served
<1>3. ASSUME NEW o \in Objects, Create(o) \/ Update(o)
      PROVE  PresentInv(w)' /\ AbsorbedInv(w)'
  <2>1. exists \subseteq exists' /\ aibom' = aibom
    BY <1>3 DEF Create, Update, cluster
  <2>2. w \in exists' /\ w \notin exists /\ KindOf[w] \in Supervised => KindOf[w] \in present
    BY <1>3 DEF Create, Update, cluster
  <2>3. AbsorbedInv(w)'
    BY <1>2, <1>3, <2>1, OwnerStays, AbsorbedFramed
  <2>4. QED
    BY <1>2, <1>3, <2>2, <2>3 DEF PresentInv
<1>4. ASSUME NEW o \in Objects, Delete(o)
      PROVE  PresentInv(w)' /\ AbsorbedInv(w)'
  <2>1. exists' = exists \ {o}
    BY <1>4 DEF Delete, Gone
  <2>2. w \in exists' => aibom'[w] = aibom[w]
    BY <1>4, <2>1 DEF Delete, Gone
  <2>5. ASSUME w \in exists', NEW i \in 1..Len(Owners[w]), Intact(w, i)
        PROVE  Intact(w, i)'
    <3>1. SUFFICES ASSUME NEW j \in 1..i PROVE Owners[w][j] \in exists'
      BY DEF Intact
    <3>2. Owners[w][j] \in exists
      BY <2>5 DEF Intact
    <3>3. Len(Owners[w]) \in Nat
      BY <1>1, OwnerFacts
    <3>4. j \in 1..Len(Owners[w]) /\ j \in Nat /\ (j # 1 => j - 1 \in 1..i)
      BY <3>3
    <3>5. OwnerRef[IF j = 1 THEN w ELSE Owners[w][j - 1]] = Owners[w][j]
      BY <1>1, <3>4, OwnersOfOwners DEF Suffix
    <3>6. (IF j = 1 THEN w ELSE Owners[w][j - 1]) \in exists
      BY <2>1, <2>5, <3>4 DEF Intact
    <3>7. Owners[w][j] # o
      BY <1>4, <3>5, <3>6 DEF Delete
    <3>8. QED
      BY <2>1, <3>2, <3>7
  <2>6. \A i : Absorbs(w, i) => Absorbs(w, i)'
    BY <1>2, <1>4 DEF Absorbs, Owns, Has
  <2>7. w \in exists' /\ OwnerThere(w) => OwnerThere(w)'
    BY <1>2, <1>4, <2>5, <2>6 DEF OwnerThere
  <2>8. AbsorbedInv(w)'
    BY <1>2, <1>4, <2>1, <2>2, <2>7, AbsorbedFramed
  <2>9. QED
    BY <1>2, <1>4, <2>1, <2>8 DEF PresentInv
<1>5. ASSUME NEW k \in Supervised, RemoveCRD(k)
      PROVE  PresentInv(w)' /\ AbsorbedInv(w)'
  <2>1. /\ rec' = rec /\ queue' = queue /\ missed' = missed /\ cached' = cached
        /\ fanoutReq' = fanoutReq /\ waiting' = waiting /\ fanout' = fanout
        /\ allow' = allow /\ tracked' = tracked /\ running' = running
        /\ exists' = exists \ OfKind(k) /\ present' = present \ {k}
    BY <1>5 DEF RemoveCRD, Gone, fanoutVars
  <2>2. /\ replaced' = IF k \in tracked THEN replaced \cup {k} ELSE replaced
        /\ unnoticed' = IF k \in tracked THEN unnoticed
                        ELSE unnoticed \cup Below(OfKind(k) \cap exists)
    BY <1>5 DEF RemoveCRD
  <2>3. w \in exists' => aibom'[w] = aibom[w] /\ KindOf[w] # k
    BY <1>5, <2>1 DEF RemoveCRD, Gone, OfKind
  <2>4. w \in exists' /\ Owed(w) => Owed(w)'
    BY <2>1 DEF Owed, Unseen
  <2>5. Served(KindOf[w])' = Served(KindOf[w])
    BY <2>1 DEF Served
  <2>6. \A i : Absorbs(w, i) => Absorbs(w, i)'
    BY <2>1 DEF Absorbs, Owns, Has
  <2>7. ASSUME w \notin unnoticed', NEW i \in 1..Len(Owners[w]), Intact(w, i)
        PROVE  \/ Intact(w, i)'
               \/ \E j \in 1..Len(Owners[w]) : KindOf[Owners[w][j]] \in replaced'
    <3>1. Len(Owners[w]) \in Nat
      BY <1>1, OwnerFacts
    <3>2. \A j \in 1..i : j \in 1..Len(Owners[w]) /\ Owners[w][j] \in exists
      BY <2>7, <3>1 DEF Intact
    <3>3. CASE \E j \in 1..i : Owners[w][j] \in OfKind(k)
      <4>1. PICK j \in 1..i : Owners[w][j] \in OfKind(k)
        BY <3>3
      <4>2. j \in 1..Len(Owners[w]) /\ Owners[w][j] \in OfKind(k) \cap exists
        BY <3>2, <4>1
      <4>3. w \in Below(OfKind(k) \cap exists)
        BY <4>2 DEF Below
      <4>4. k \in tracked
        BY <2>2, <2>7, <4>3
      <4>5. KindOf[Owners[w][j]] \in replaced'
        BY <2>2, <4>1, <4>4 DEF OfKind
      <4>6. QED
        BY <4>2, <4>5
    <3>4. CASE \A j \in 1..i : Owners[w][j] \notin OfKind(k)
      BY <2>1, <3>2, <3>4 DEF Intact
    <3>5. QED
      BY <3>3, <3>4
  <2>8. replaced \subseteq replaced' /\ unnoticed \subseteq unnoticed'
    BY <2>2
  <2>9. w \notin unnoticed' /\ OwnerThere(w) => OwnerThere(w)'
    BY <2>6, <2>7, <2>8 DEF OwnerThere
  <2>10. AbsorbedInv(w)'
    BY <2>1, <2>3, <2>4, <2>5, <2>8, <2>9, AbsorbedFramed
  <2>11. PresentInv(w)'
    BY <2>1, <2>3 DEF PresentInv
  <2>12. QED
    BY <2>10, <2>11
<1>6. ASSUME NEW k \in Supervised, InstallCRD(k) \/ Outage(k)
      PROVE  PresentInv(w)' /\ AbsorbedInv(w)'
  <2>1. /\ exists' = exists /\ rec' = rec /\ aibom' = aibom /\ queue' = queue /\ cached' = cached
        /\ missed' = missed /\ fanoutReq' = fanoutReq /\ waiting' = waiting /\ fanout' = fanout
        /\ allow' = allow /\ tracked' = tracked /\ running' = running
        /\ replaced' = replaced /\ unnoticed' = unnoticed /\ present \subseteq present'
    BY <1>6 DEF InstallCRD, Outage, fanoutVars, work
  <2>2. Owed(w) => Owed(w)'
    BY <2>1 DEF Owed, Unseen
  <2>3. Served(KindOf[w])' = Served(KindOf[w])
    BY <2>1 DEF Served
  <2>4. AbsorbedInv(w)'
    BY <2>1, <2>2, <2>3, OwnerStays, AbsorbedFramed
  <2>5. QED
    BY <2>1, <2>4 DEF PresentInv
<1>7. ASSUME NEW kinds \in SUBSET Reporting, Swap(kinds)
      PROVE  PresentInv(w)' /\ AbsorbedInv(w)'
  <2> DEFINE t == [allowed |-> kinds, by |-> "store"]
  <2>1. t \in waiting' /\ t.allowed = allow'
    BY <1>7 DEF Swap
  <2> HIDE DEF t
  <2>2. Owed(w)'
    BY <2>1 DEF Owed
  <2>3. PresentInv(w)'
    BY <1>7 DEF Swap, PresentInv, cluster
  <2>4. QED
    BY <2>2, <2>3 DEF AbsorbedInv
<1>8. QED
  BY <1>3, <1>4, <1>5, <1>6, <1>7, FanoutAbsorbed DEF Cluster

LEMMA AbsorptionInit == Init => AbsorptionInv
<1> SUFFICES ASSUME Init PROVE AbsorptionInv
  OBVIOUS
<1>1. ASSUME NEW w \in Workloads
      PROVE  PresentInv(w) /\ AbsorbedInv(w)
  <2>1. PresentInv(w)
    BY <1>1 DEF Init, PresentInv
  <2>2. w \in exists /\ Served(KindOf[w]) => w \in queue
    BY <1>1 DEF Init, Served
  <2>3. QED
    BY <2>1, <2>2 DEF AbsorbedInv, Owed
<1>2. QED
  BY <1>1, RollupInvInit DEF AbsorptionInv

LEMMA AbsorptionNext == AbsorptionInv /\ [Next]_vars => AbsorptionInv'
<1> SUFFICES ASSUME AbsorptionInv, [Next]_vars PROVE AbsorptionInv'
  OBVIOUS
<1>1. RollupInv /\ RollupInv'
  BY RollupInvNext DEF AbsorptionInv
<1>2. ASSUME NEW w \in Workloads
      PROVE  PresentInv(w)' /\ AbsorbedInv(w)'
  <2>1. PresentInv(w) /\ AbsorbedInv(w)
    BY DEF AbsorptionInv
  <2>2. CASE Controller
    BY <1>1, <2>1, <2>2, SupervisorAbsorbed, ReconcilesAbsorbed, ObserveAbsorbed,
       FanoutAbsorbed DEF Controller
  <2>3. CASE Cluster
    BY <1>1, <2>1, <2>3, ClusterAbsorbed
  <2>4. CASE UNCHANGED vars
    <3>1. /\ exists' = exists /\ rec' = rec /\ aibom' = aibom /\ queue' = queue /\ cached' = cached
          /\ missed' = missed /\ fanoutReq' = fanoutReq /\ waiting' = waiting
          /\ fanout' = fanout /\ allow' = allow /\ tracked' = tracked /\ running' = running
          /\ replaced' = replaced /\ unnoticed' = unnoticed /\ present' = present
      BY <2>4 DEF vars, cluster, fanoutVars, work
    <3>2. Owed(w) => Owed(w)'
      BY <3>1 DEF Owed, Unseen
    <3>3. Served(KindOf[w])' = Served(KindOf[w])
      BY <3>1 DEF Served
    <3>4. AbsorbedInv(w)'
      BY <2>1, <3>1, <3>2, <3>3, OwnerStays, AbsorbedFramed
    <3>5. QED
      BY <2>1, <3>1, <3>4 DEF PresentInv
  <2>5. QED
    BY <2>2, <2>3, <2>4 DEF Next
<1>3. QED
  BY <1>1, <1>2 DEF AbsorptionInv

\* A workload that is served, allowed and owed nothing, and has no document, has
\* an owner above it that absorbs it, or one of the CRDs on the way has just been
\* replaced.
THEOREM AbsorptionInvariant == Spec => []AbsorptionInv
BY AbsorptionInit, AbsorptionNext, PTL DEF Spec

\* At rest, what has no document has an owner that is there and absorbs it.
LEMMA RestAbsorbed ==
  ASSUME AbsorptionInv, Rest, NEW v \in Workloads, v \in exists,
         v \notin missed \cup unnoticed \cup queue, Served(KindOf[v]), KindOf[v] \in allow,
         aibom[v] = Nil
  PROVE  \E i \in 1..Len(Owners[v]) : Absorbs(v, i) /\ Intact(v, i)
<1>1. /\ Unseen = {} /\ rec[v].pc = "idle" /\ ~fanoutReq /\ waiting = {} /\ fanout = NoFanout
      /\ replaced = {}
  BY RestShows DEF Rest, AbsorptionInv, RollupInv
<1>2. ~Owed(v)
  BY <1>1, IdleTypes DEF Owed
<1>3. OwnerThere(v)
  BY <1>1, <1>2 DEF AbsorptionInv, AbsorbedInv
<1>4. QED
  BY <1>1, <1>3 DEF OwnerThere

\* At rest, an owner that absorbs is itself watched, unless its kind cannot be
\* read and never could.
LEMMA RestOwnerServed ==
  ASSUME AbsorptionInv, Rest, NEW o \in Objects, o \in exists, Owns(KindOf[o]),
         KindOf[o] \notin broken \ running
  PROVE  o \in Workloads /\ Served(KindOf[o]) /\ KindOf[o] \in allow
<1>1. KindOf[o] \in Reporting /\ KindOf[o] \in allow
  BY DEF Owns, Has, AbsorptionInv, RollupInv, RollupTypeOK
<1>2. o \in Workloads
  BY <1>1 DEF Workloads
<1>3. CASE KindOf[o] \in Managed
  BY <1>1, <1>2, <1>3 DEF Served
<1>4. CASE KindOf[o] \in Supervised
  <2>1. KindOf[o] \in present
    BY <1>2, <1>4 DEF AbsorptionInv, PresentInv
  <2>2. running \ broken = (present \cap allow) \ broken
    BY DEF Rest
  <2>3. KindOf[o] \in running
    BY <1>1, <2>1, <2>2
  <2>4. QED
    BY <1>1, <1>2, <2>3 DEF Served
<1>5. QED
  BY <1>1, <1>3, <1>4, KindFacts

\* The i-th of w's chain, w itself for zero, is one that absorbs and can be reached.
At(w, i) == IF i = 0 THEN w ELSE Owners[w][i]
Reached(w, i) == Intact(w, i) /\ (i # 0 => Absorbs(w, i))

\* Above one without a document there is another that absorbs.
LEMMA OneFurtherUp ==
  ASSUME NEW w \in Workloads, NEW i \in 0..Len(Owners[w]), Reached(w, i),
         NEW j \in 1..Len(Owners[At(w, i)]), Absorbs(At(w, i), j), Intact(At(w, i), j)
  PROVE  i + j \in 0..Len(Owners[w]) /\ Reached(w, i + j)
<1>1. w \in Objects /\ Len(Owners[w]) \in Nat /\ i \in Nat
  BY KindFacts, OwnerFacts
<1>2. CASE i = 0
  <2>1. At(w, i) = w
    BY <1>2 DEF At
  <2>2. j \in 1..Len(Owners[w]) /\ Absorbs(w, j) /\ Intact(w, j)
    BY <2>1
  <2>3. i + j = j /\ j \in 0..Len(Owners[w])
    BY <1>1, <1>2, <2>2
  <2>4. QED
    BY <2>2, <2>3 DEF Reached
<1>3. CASE i # 0
  <2>1. i \in 1..Len(Owners[w]) /\ At(w, i) = Owners[w][i]
    BY <1>1, <1>3 DEF At
  <2> DEFINE v == Owners[w][i]
  <2>2. v \in Objects /\ j \in 1..Len(Owners[v])
    BY <1>1, <2>1, OwnerFacts
  <2>3. Suffix(w, i)
    BY <1>1, <2>1, OwnersOfOwners
  <2>4. /\ Len(Owners[w]) = i + Len(Owners[v])
        /\ \A m \in 1..Len(Owners[v]) : Owners[w][i + m] = Owners[v][m]
    BY <2>3 DEF Suffix
  <2>5. Absorbs(v, j) /\ \A m \in 1..j : Owners[v][m] \in exists
    BY <2>1 DEF Intact
  <2> HIDE DEF v
  <2>6. Len(Owners[v]) \in Nat
    BY <2>2, OwnerFacts
  <2>7. i + j \in 1..Len(Owners[w]) /\ i + j \in 0..Len(Owners[w]) /\ i + j # 0
    BY <1>1, <2>1, <2>2, <2>4, <2>6
  <2>8. Absorbs(w, i + j)
    BY <2>2, <2>4, <2>5 DEF Absorbs
  <2>9. ASSUME NEW m \in 1..(i + j)
        PROVE  Owners[w][m] \in exists
    <3>1. CASE m \in 1..i
      BY <3>1 DEF Reached, Intact
    <3>2. CASE m \notin 1..i
      <4>1. m - i \in 1..j /\ m - i \in 1..Len(Owners[v]) /\ i + (m - i) = m
        BY <1>1, <2>1, <2>2, <2>6, <3>2
      <4>2. Owners[w][i + (m - i)] = Owners[v][m - i]
        BY <2>4, <4>1
      <4>3. QED
        BY <2>5, <4>1, <4>2
    <3>3. QED
      BY <3>1, <3>2
  <2>10. QED
    BY <2>7, <2>8, <2>9 DEF Reached, Intact
<1>4. QED
  BY <1>2, <1>3

\* Nothing silently disappears: when the system has come to rest, a workload that
\* is allowed and watched has a document, or one of the owners it can be walked
\* up to has.  The uppermost of its chain that absorbs has the document: without
\* one there would be another above it (reconcileWorkload, resolveTrackedOwner).
THEOREM NothingIsLost == Spec => []NothingDisappears
<1>1. AbsorptionInv => NothingDisappears
  <2>1. SUFFICES ASSUME AbsorptionInv, Rest, NEW w \in Workloads \cap exists,
                        KindOf[w] \in allow, Served(KindOf[w]),
                        \A o \in Chain(w) : o \notin missed \cup unnoticed \cup queue
                                              /\ KindOf[o] \notin broken \ running,
                        \A o \in Chain(w) \cap Workloads : aibom[o] = Nil
                 PROVE  FALSE
    BY DEF NothingDisappears
  <2>2. w \in Workloads /\ w \in exists /\ w \in Objects /\ Len(Owners[w]) \in Nat
    BY KindFacts, OwnerFacts
  <2> DEFINE n == Len(Owners[w])
             Depths == {n - i : i \in {i \in 0..n : Reached(w, i)}}
  <2>3. Depths \in SUBSET Nat
    BY <2>2
  <2>4. Reached(w, 0)
    BY DEF Reached, Intact
  <2>5. n - 0 \in Depths
    BY <2>2, <2>4
  <2>6. PICK d \in Depths : \A e \in Depths : d <= e
    BY <2>3, <2>5, LeastPosition
  <2>7. PICK i \in 0..n : Reached(w, i) /\ d = n - i
    BY <2>6
  <2> DEFINE v == At(w, i)
  <2>8. v \in Chain(w) /\ v \in exists /\ v \in Workloads /\ Served(KindOf[v]) /\ KindOf[v] \in allow
    <3>1. CASE i = 0
      BY <2>1, <2>2, <3>1 DEF At, Chain
    <3>2. CASE i # 0
      <4>1. i \in 1..n /\ i \in 1..i
        BY <2>2, <2>7, <3>2
      <4>2. v = Owners[w][i] /\ v \in Objects /\ v \in exists /\ Owns(KindOf[v])
        BY <2>2, <2>7, <3>2, <4>1, OwnerFacts DEF At, Reached, Intact, Absorbs
      <4>3. i \in Through(w, exists)
        BY <2>7, <4>1 DEF Through, Reached, Intact
      <4>4. v \in Chain(w)
        BY <4>2, <4>3 DEF Chain
      <4>5. QED
        BY <2>1, <4>2, <4>4, RestOwnerServed
    <3>3. QED
      BY <3>1, <3>2
  <2>9. v \notin missed \cup unnoticed \cup queue /\ aibom[v] = Nil
    BY <2>1, <2>8
  <2>10. \E j \in 1..Len(Owners[v]) : Absorbs(v, j) /\ Intact(v, j)
    BY <2>1, <2>8, <2>9, RestAbsorbed
  <2>11. PICK j \in 1..Len(Owners[v]) : Absorbs(v, j) /\ Intact(v, j)
    BY <2>10
  <2>12. i + j \in 0..n /\ Reached(w, i + j)
    BY <2>2, <2>7, <2>11, OneFurtherUp
  <2>13. v \in Objects /\ Len(Owners[v]) \in Nat
    BY <2>8, KindFacts, OwnerFacts
  <2>14. n - (i + j) \in Depths
    BY <2>12
  <2>15. n - i <= n - (i + j)
    BY <2>6, <2>7, <2>14
  <2> HIDE DEF v, Depths
  <2>16. QED
    BY <2>2, <2>7, <2>12, <2>13, <2>15
<1>2. QED
  BY <1>1, AbsorptionInvariant, PTL

-----------------------------------------------------------------------------
(* A document knows its pods *)

\* The document records every pod the code can follow up to w.
RecordsAll(document, w) ==
  \A p \in Pods \cap exists : \A i \in 1..Len(Owners[p]) :
    Owners[p][i] = w /\ Intact(p, i) /\ Follows(p, i) => Records(document, p, i)

\* What a reconcile that will not be repeated has read, and what it left behind,
\* is complete unless a list failed or lagged.
PodsInv(w) ==
  w \in exists /\ ~Owed(w) /\ KindOf[w] \in Managed \cup allow
    /\ ReconcilerOf(KindOf[w]).descends =>
    /\ rec[w].pc # "idle" /\ ~rec[w].partial => RecordsAll(rec[w], w)
    /\ rec[w].pc = "idle" /\ aibom[w] # Nil /\ ~aibom[w].partial => RecordsAll(aibom[w], w)

FollowInv == RollupInv /\ \A w \in Workloads : PodsInv(w)

\* Pods are not listed as owners, and a reconciler that descends takes the pods
\* of everything it finds below.
LEMMA DescendsFacts ==
  ASSUME NEW k \in Reporting, ReconcilerOf(k).descends
  PROVE  ReconcilerOf(k).podOwner # "ReplicaSet"
<1>1. k \in ReportingKinds
  BY DEF Reporting
<1>2. PICK r \in Reconcilers : r.kind = k
  BY <1>1 DEF ReportingKinds
<1>3. ReconcilerOf(k) \in Reconcilers
  BY <1>2 DEF ReconcilerOf
<1>4. \A s \in Reconcilers : s.descends => s.podOwner # "ReplicaSet"
  BY DEF Reconcilers, DeploymentReconciler, StatefulSetReconciler,
         DaemonSetReconciler, JobReconciler, CronJobReconciler,
         KServeInferenceServiceReconciler, DynamoGraphDeploymentReconciler,
         DynamoComponentDeploymentReconciler, NIMServiceReconciler, LeaderWorkerSetReconciler,
         DisaggregatedSetReconciler, managed, supervisedRoot
<1>5. QED
  BY <1>3, <1>4

LEMMA PodsAreNotListed == \A T : "Pod" \notin ListedKinds(T)
BY DEF ListedKinds, intermediateKinds

\* What is between a pod and w, on a way the code follows, is found on the way
\* down from w.
LEMMA FoundBelow ==
  ASSUME exists \subseteq Objects, NEW p \in Pods \cap exists, NEW i \in 1..Len(Owners[p]),
         Intact(p, i), Follows(p, i), ~ListsFail, ~ListsLag(Owners[p][i]), NEW j \in 1..(i - 1)
  PROVE  Owners[p][j] \in Descendants(Owners[p][i])
<1> DEFINE nodes == {o \in Shown : KindOf[o] \in ListedKinds(tracked) \ broken}
           o == Owners[p][j]
<1>1. p \in Objects /\ Len(Owners[p]) \in Nat
  BY OwnerFacts DEF Pods
<1>2. i \in Nat /\ j \in Nat /\ j \in 1..Len(Owners[p]) /\ i - j \in Nat
  BY <1>1
<1>3. ASSUME NEW m \in 1..(i - 1)
      PROVE  Owners[p][m] \in nodes
  <2> DEFINE q == Owners[p][m]
  <2>1. m \in 1..i /\ m \in Nat /\ m \in 1..Len(Owners[p]) /\ i - m \in Nat
    BY <1>1, <1>2
  <2>2. q \in exists /\ q \in Objects
    BY <1>1, <2>1, OwnerFacts DEF Intact
  <2>3. KindOf[q] \in ListedKinds(tracked)
    BY DEF Follows
  <2>4. /\ Len(Owners[p]) = m + Len(Owners[q])
        /\ \A n \in 1..Len(Owners[q]) : Owners[p][m + n] = Owners[q][n]
    BY <1>1, <2>1, OwnersOfOwners DEF Suffix
  <2> HIDE DEF q
  <2>5. Len(Owners[q]) \in Nat
    BY <2>2, OwnerFacts
  <2>6. i - m \in 1..Len(Owners[q]) /\ m + (i - m) = i
    BY <1>1, <1>2, <2>1, <2>4, <2>5
  <2>7. Owners[q][i - m] = Owners[p][i]
    BY <2>4, <2>6
  <2>8. q \in Shown
    BY <2>2, <2>3, <2>6, <2>7, NotShown DEF ListsLag
  <2>9. QED
    BY <2>3, <2>8 DEF ListsFail, q
<1>4. /\ Len(Owners[p]) = j + Len(Owners[o])
      /\ \A m \in 1..Len(Owners[o]) : Owners[p][j + m] = Owners[o][m]
  BY <1>1, <1>2, OwnersOfOwners DEF Suffix
<1>5. o \in nodes
  BY <1>3
<1>6. o \in Objects
  BY <1>1, <1>2, OwnerFacts
<1>7. Len(Owners[o]) \in Nat
  BY <1>6, OwnerFacts
<1>8. i - j \in 1..Len(Owners[o]) /\ j + (i - j) = i
  BY <1>1, <1>2, <1>4, <1>7
<1>9. Owners[o][i - j] = Owners[p][i]
  BY <1>4, <1>8
<1>10. ASSUME NEW m \in 1..((i - j) - 1)
       PROVE  Owners[o][m] \in nodes
  <2>1. m \in 1..Len(Owners[o]) /\ j + m \in 1..(i - 1)
    BY <1>2, <1>7, <1>8
  <2>2. QED
    BY <1>3, <1>4, <2>1
<1> HIDE DEF o, nodes
<1>11. o \in {x \in nodes : \E m \in 1..Len(Owners[x]) :
                Owners[x][m] = Owners[p][i] /\ \A n \in 1..(m - 1) : Owners[x][n] \in nodes}
  BY <1>5, <1>8, <1>9, <1>10
<1>12. QED
  BY <1>11 DEF Descendants, o, nodes

\* A reconcile whose lists all succeed and show what is there reads a complete
\* document.
LEMMA ReadsRecordAll ==
  ASSUME exists \subseteq Objects, NEW w \in Workloads, ReconcilerOf(KindOf[w]).descends,
         ~ListsFail, ~ListsLag(w),
         NEW document, document.pods = PodsOf(w), document.owned = OwnedWorkloads(w)
  PROVE  RecordsAll(document, w)
<1>1. SUFFICES ASSUME NEW p \in Pods \cap exists, NEW i \in 1..Len(Owners[p]),
                      Owners[p][i] = w, Intact(p, i), Follows(p, i)
               PROVE  Records(document, p, i)
  BY DEF RecordsAll
<1>2. p \in Objects /\ Len(Owners[p]) \in Nat
  BY OwnerFacts DEF Pods
<1>3. \A j \in 1..(i - 1) : Owners[p][j] \in Descendants(w)
  BY <1>1, FoundBelow
<1>4. OwnerRef[p] \in {w} \cup Descendants(w)
  <2>1. Owners[p] # <<>>
    BY <1>2
  <2>2. Owners[p][1] = OwnerRef[p]
    BY <1>2, <2>1, OneHop
  <2>3. CASE i = 1
    BY <1>1, <2>2, <2>3
  <2>4. CASE i # 1
    <3>1. 1 \in 1..(i - 1)
      BY <1>2, <2>4
    <3>2. QED
      BY <1>3, <2>2, <3>1
  <2>5. QED
    BY <2>3, <2>4
<1>5. ReconcilerOf(KindOf[w]).podOwner # "ReplicaSet"
  BY KindFacts, DescendsFacts
<1>6. PodsOf(w) = filterPodsOwnedBy({w} \cup Descendants(w))
  BY <1>5 DEF PodsOf
<1>7. p \in PodsOf(w)
  BY <1>4, <1>6 DEF filterPodsOwnedBy
<1>8. QED
  BY <1>3, <1>7 DEF Records, OwnedWorkloads
\* A step that changes neither the tracked kinds nor what w's reconcile and
\* document say, and that makes no way from a pod to w unless it owes w a visit.
LEMMA FollowFramed ==
  ASSUME NEW w \in Workloads, PodsInv(w), IdleInv(w),
         allow' = allow, tracked' = tracked, rec'[w] = rec[w],
         w \in exists' => aibom'[w] = aibom[w],
         w \in exists' /\ Served(KindOf[w]) /\ KindOf[w] \in Managed \cup allow
           /\ ReconcilerOf(KindOf[w]).descends /\ ~Owed(w)' =>
             /\ w \in exists /\ ~Owed(w)
             /\ \A p \in Pods \cap exists' : \A i \in 1..Len(Owners[p]) :
                  Owners[p][i] = w /\ Intact(p, i)' /\ Follows(p, i) =>
                    p \in exists /\ Intact(p, i)
  PROVE  PodsInv(w)'
<1>1. SUFFICES ASSUME w \in exists', ~Owed(w)', KindOf[w] \in Managed \cup allow,
                      ReconcilerOf(KindOf[w]).descends
               PROVE  /\ (rec[w].pc # "idle" /\ ~rec[w].partial => RecordsAll(rec[w], w))'
                      /\ (rec[w].pc = "idle" /\ aibom[w] # Nil /\ ~aibom[w].partial
                            => RecordsAll(aibom[w], w))'
  BY DEF PodsInv
<1>2. CASE ~Served(KindOf[w])
  BY <1>1, <1>2 DEF IdleInv
<1>3. CASE Served(KindOf[w])
  <2>1. /\ w \in exists /\ ~Owed(w) /\ aibom'[w] = aibom[w] /\ rec'[w] = rec[w]
        /\ \A p \in Pods \cap exists' : \A i \in 1..Len(Owners[p]) :
             Owners[p][i] = w /\ Intact(p, i)' /\ Follows(p, i) => p \in exists /\ Intact(p, i)
    BY <1>1, <1>3
  <2>2. /\ rec[w].pc # "idle" /\ ~rec[w].partial => RecordsAll(rec[w], w)
        /\ rec[w].pc = "idle" /\ aibom[w] # Nil /\ ~aibom[w].partial => RecordsAll(aibom[w], w)
    BY <1>1, <2>1 DEF PodsInv
  <2>3. \A p, i : (Follows(p, i)' <=> Follows(p, i))
    BY DEF Follows
  <2>4. RecordsAll(rec[w], w) => RecordsAll(rec[w], w)'
    BY <2>1, <2>3 DEF RecordsAll, Records, Has
  <2>5. RecordsAll(aibom[w], w) => RecordsAll(aibom[w], w)'
    BY <2>1, <2>3 DEF RecordsAll, Records, Has
  <2>6. QED
    BY <2>1, <2>2, <2>4, <2>5
<1>4. QED
  BY <1>2, <1>3

\* The supervisor: a kind that is tracked or retired changes the ways, and makes
\* it request a fan-out.
LEMMA SupervisorFollow ==
  ASSUME RollupTypeOK, NEW w \in Workloads, PodsInv(w), IdleInv(w),
         NEW k \in Supervised, Supervisor(k)
  PROVE  PodsInv(w)'
<1>1. CASE activate(k)
  <2>1. Owed(w)'
    BY <1>1 DEF activate, Owed
  <2>2. QED
    BY <2>1 DEF PodsInv
<1>2. CASE StartRunner(k)
  <2>1. Owed(w) => Owed(w)'
    BY <1>2 DEF StartRunner, Owed, Unseen, cluster, fanoutVars
  <2>2. exists' = exists /\ rec' = rec /\ aibom' = aibom /\ allow' = allow /\ tracked' = tracked
    BY <1>2 DEF StartRunner, cluster
  <2>3. \A p, i : Intact(p, i)' => Intact(p, i)
    BY <2>2 DEF Intact
  <2>4. QED
    BY <2>1, <2>2, <2>3, FollowFramed
<1>3. CASE StopExcluded(k)
  <2>1. StopAndSweep(k) /\ allow' = allow /\ tracked' = tracked /\ exists' = exists
    BY <1>3 DEF StopExcluded, cluster
  <2>2. CASE KindOf[w] = k
    <3>1. rec'[w].pc = "idle" /\ aibom'[w] = Nil
      BY <2>1, <2>2, IdleTypes DEF StopAndSweep
    <3>2. QED
      BY <3>1 DEF PodsInv
  <2>3. CASE KindOf[w] # k
    <3>1. rec'[w] = rec[w] /\ aibom'[w] = aibom[w]
      BY <2>1, <2>3 DEF StopAndSweep
    <3>2. Owed(w) => Owed(w)'
      BY <1>3, <2>1, <2>3 DEF StopExcluded, StopAndSweep, Owed, Unseen, OfKind, cluster, fanoutVars
    <3>3. \A p, i : Intact(p, i)' => Intact(p, i)
      BY <2>1 DEF Intact
    <3>4. QED
      BY <2>1, <3>1, <3>2, <3>3, FollowFramed
  <2>4. QED
    BY <2>2, <2>3
<1>4. CASE retire(k)
  <2>1. Owed(w)'
    BY <1>4 DEF retire, Owed
  <2>2. QED
    BY <2>1 DEF PodsInv
<1>5. QED
  BY <1>1, <1>2, <1>3, <1>4 DEF Supervisor

\* A reconcile reads what is there when it begins, and carries it to the document.
LEMMA ReconcilesFollow ==
  ASSUME RollupTypeOK, NEW w \in Workloads, PodsInv(w), IdleInv(w),
         NEW v \in Workloads, Reconciles(v)
  PROVE  PodsInv(w)'
<1>1. /\ rec \in [Workloads -> reconcile] /\ aibom \in [Workloads -> Document \cup {Nil}]
      /\ exists \subseteq Objects /\ cached \subseteq Objects
  BY DEF RollupTypeOK
<1>2. /\ allow' = allow /\ tracked' = tracked /\ exists' = exists /\ cached' = cached
      /\ fanoutReq' = fanoutReq /\ waiting' = waiting /\ fanout' = fanout
  BY DEF Reconciles, Begin, Resolve, Finish, cluster, fanoutVars
<1>3. \A p, i : (Intact(p, i)' <=> Intact(p, i)) /\ (Follows(p, i)' <=> Follows(p, i))
  BY <1>2 DEF Intact, Follows
<1>4. CASE v # w
  <2>1. rec'[w] = rec[w] /\ aibom'[w] = aibom[w]
    BY <1>1, <1>4 DEF Reconciles, Begin, Resolve, Finish
  <2>2. Owed(w) => Owed(w)'
    BY <1>2, <1>4 DEF Reconciles, Begin, Resolve, Finish, Owed, Unseen, fanoutVars
  <2>3. QED
    BY <1>2, <1>3, <2>1, <2>2, FollowFramed
<1>5. CASE v = w /\ Begin(w)
  <2>1. CASE w \notin Shown
    <3>1. w \in exists' => Owed(w)'
      BY <1>2, <2>1, NotShown DEF Owed, Unseen
    <3>2. QED
      BY <3>1 DEF PodsInv
  <2>2. CASE ~ReconcilerOf(KindOf[w]).descends
    BY <2>2 DEF PodsInv
  <2>3. CASE w \in Shown /\ ReconcilerOf(KindOf[w]).descends
    <3>1. /\ rec'[w].pc = "begun" /\ rec'[w].pods = PodsOf(w)
          /\ rec'[w].owned = OwnedWorkloads(w)
      BY <1>1, <1>5, <2>3 DEF Begin, NoReconcile
    <3>2. rec'[w].partial = (ReconcilerOf(KindOf[w]).descends /\ (ListsFail \/ ListsLag(w)))
      BY <1>1, <1>5, <2>3 DEF Begin, NoReconcile
    <3>3. ~ListsFail /\ ~ListsLag(w) => RecordsAll(rec'[w], w)
      BY <1>1, <2>3, <3>1, ReadsRecordAll
    <3>4. RecordsAll(rec'[w], w) => RecordsAll(rec[w], w)'
      BY <1>2, <1>3 DEF RecordsAll, Records, Has
    <3>5. ~rec'[w].partial => ~ListsFail /\ ~ListsLag(w)
      BY <2>3, <3>2
    <3>6. QED
      BY <3>1, <3>3, <3>4, <3>5 DEF PodsInv
  <2>4. QED
    BY <2>1, <2>2, <2>3
<1>6. CASE v = w /\ Resolve(w)
  <2>1. rec[w].pc = "begun" /\ (Owed(w) => Owed(w)')
    BY <1>2, <1>6 DEF Resolve, Owed, Unseen, fanoutVars
  <2>2. rec[w] \in reconcile
    BY <1>1
  <2>3. /\ rec'[w].pc = "resolved" /\ rec'[w].pods = rec[w].pods
        /\ rec'[w].owned = rec[w].owned /\ rec'[w].partial = rec[w].partial
    BY <1>1, <1>6, <2>2 DEF Resolve, reconcile
  <2>4. RecordsAll(rec[w], w) => RecordsAll(rec[w], w)'
    BY <1>2, <1>3, <2>3 DEF RecordsAll, Records, Has
  <2>5. QED
    BY <1>2, <2>1, <2>3, <2>4 DEF PodsInv
<1>7. CASE v = w /\ Finish(w)
  <2>1. rec[w].pc = "resolved" /\ (Owed(w) => Owed(w)')
    BY <1>2, <1>7 DEF Finish, Owed, Unseen, fanoutVars
  <2>2. rec'[w].pc = "idle"
    BY <1>1, <1>7, IdleTypes DEF Finish
  <2>3. aibom'[w] = IF ~rec[w].allowed \/ rec[w].found = "tracked" \/ w \notin exists THEN Nil
                    ELSE [owned |-> rec[w].owned, pods |-> rec[w].pods, found |-> rec[w].found,
                          partial |-> rec[w].partial]
    BY <1>1, <1>7 DEF Finish
  <2>4. aibom'[w] # Nil => /\ aibom'[w].pods = rec[w].pods /\ aibom'[w].owned = rec[w].owned
                           /\ aibom'[w].partial = rec[w].partial
    BY <2>3
  <2>5. RecordsAll(rec[w], w) /\ aibom'[w] # Nil => RecordsAll(aibom[w], w)'
    BY <1>2, <1>3, <2>4 DEF RecordsAll, Records, Has
  <2>6. QED
    BY <1>2, <2>1, <2>2, <2>4, <2>5 DEF PodsInv
<1>8. QED
  BY <1>4, <1>5, <1>6, <1>7 DEF Reconciles

\* The fan-out makes no way.
LEMMA FanoutFollow ==
  ASSUME RollupTypeOK, NEW w \in Workloads, PodsInv(w), IdleInv(w),
         FanoutStep \/ FanoutTimesOut \/ \E k \in Reporting : fanOutKindFails(k)
  PROVE  PodsInv(w)'
<1>1. /\ allow' = allow /\ tracked' = tracked /\ exists' = exists /\ rec' = rec /\ aibom' = aibom
  BY FanoutFrame
<1>2. \A p, i : Intact(p, i)' => Intact(p, i)
  BY <1>1 DEF Intact
<1>3. w \in exists /\ Served(KindOf[w]) /\ KindOf[w] \in Managed \cup allow /\ Owed(w) => Owed(w)'
  BY FanoutOwes
<1>4. QED
  BY <1>1, <1>2, <1>3, FollowFramed

\* An object that appears below what is already there owns nothing yet: it
\* makes no way from a pod that was there before.
LEMMA CreateMakesNoWay ==
  ASSUME exists \subseteq Objects, NEW o \in Objects, Create(o), NEW p \in Objects, p \in exists,
         NEW i \in 1..Len(Owners[p]), Intact(p, i)'
  PROVE  Intact(p, i)
<1> DEFINE New == {j \in 1..i : Owners[p][j] = o}
<1>1. /\ exists' = exists \cup {o} /\ o \notin exists
      /\ \A c \in exists : OwnerRef[c] # o
  BY DEF Create
<1>2. Len(Owners[p]) \in Nat /\ i \in Nat
  BY OwnerFacts
<1>3. SUFFICES ASSUME New # {} PROVE FALSE
  BY <1>1 DEF Intact
<1>4. New \in SUBSET Nat
  BY <1>2
<1>5. PICK j \in New : \A y \in New : j <= y
  BY <1>3, <1>4, LeastPosition
<1>6. j \in 1..i /\ j \in 1..Len(Owners[p]) /\ j \in Nat /\ Owners[p][j] = o
  BY <1>2, <1>5
<1>7. OwnerRef[IF j = 1 THEN p ELSE Owners[p][j - 1]] = o
  BY <1>6, OwnersOfOwners DEF Suffix
<1>8. CASE j = 1
  BY <1>1, <1>7, <1>8
<1>9. CASE j # 1
  <2>1. j - 1 \in 1..i /\ ~(j <= j - 1)
    BY <1>2, <1>6, <1>9
  <2>2. j - 1 \notin New
    BY <1>5, <2>1
  <2> HIDE DEF New
  <2>3. Owners[p][j - 1] \in exists' /\ Owners[p][j - 1] # o
    BY <2>1, <2>2 DEF Intact, New
  <2>4. QED
    BY <1>1, <1>7, <1>9, <2>3
<1>10. QED
  BY <1>8, <1>9

\* A pod that appears wakes the workloads whose documents are to record it, or
\* misses them because their chain cannot be read.
LEMMA NewPodWakes ==
  ASSUME exists \subseteq Objects, NEW p \in Pods, Create(p), NEW w \in Workloads,
         NEW i \in 1..Len(Owners[p]), Owners[p][i] = w, Intact(p, i)', Follows(p, i),
         Served(KindOf[w]), ReconcilerOf(KindOf[w]).descends
  PROVE  w \in queue' \cup missed'
<1>1. /\ exists' = exists \cup {p} /\ Changed(p)
  BY NotCached DEF Create, Event, Pods
<1>2. p \in Objects /\ Len(Owners[p]) \in Nat /\ i \in Nat /\ w \in Objects /\ w # p
      /\ KindOf[w] \in Reporting /\ KindOf[p] = "Pod"
  BY KindFacts, OwnerFacts, PodsAreNoWorkloads DEF Pods
<1>3. \A j \in 1..(i - 1) : /\ KindOf[Owners[p][j]] \in ListedKinds(tracked)
                            /\ KindOf[Owners[p][j]] # KindOf[w]
  BY DEF Follows
<1>4. ASSUME NEW j \in 1..i
      PROVE  Owners[p][j] \in exists
  <2>1. CASE j = i
    BY <1>1, <1>2, <2>1 DEF Intact
  <2>2. CASE j # i
    <3>1. j \in 1..(i - 1)
      BY <1>2, <2>2
    <3>2. Owners[p][j] # p
      BY <1>2, <1>3, <3>1, PodsAreNotListed
    <3>3. QED
      BY <1>1, <3>2 DEF Intact
  <2>3. QED
    BY <2>1, <2>2
<1>5. CASE broken = {}
  <2>1. \A j \in 1..(i - 1) : Readable(Owners[p][j])
    BY <1>2, <1>4, <1>5 DEF Readable
  <2>2. i <= rollupMaxDepth
    BY DEF Follows
  <2>3. w \in EnqueueRootForPod(p, KindOf[w])
    BY <1>3, <2>1, <2>2 DEF EnqueueRootForPod
  <2>4. w \in Requests(p)
    BY <1>2, <2>3 DEF Requests
  <2>5. QED
    BY <1>1, <2>4 DEF Changed
<1>6. CASE broken # {}
  <2>1. i \in Through(p, exists)
    BY <1>4 DEF Through
  <2>2. w \in Chain(p)
    BY <2>1 DEF Chain
  <2>3. QED
    BY <1>1, <1>6, <2>2 DEF Changed
<1>7. QED
  BY <1>5, <1>6

LEMMA ObserveFollow ==
  ASSUME NEW w \in Workloads, PodsInv(w), IdleInv(w), NEW o \in Objects, Observe(o)
  PROVE  PodsInv(w)'
<1>1. w \in exists' /\ Served(KindOf[w]) /\ (Owed(w) \/ w \notin exists) => Owed(w)'
  BY ObjectOwes
<1>2. \A p, i : Intact(p, i)' => Intact(p, i)
  BY ObserveFrame DEF Intact
<1>3. QED
  BY <1>1, <1>2, ObjectFrame, ObserveFrame, FollowFramed

\* The cluster and the operator: only an object that appears makes a way, and
\* then w is owed a visit; a swap owes one to every workload.
LEMMA ClusterFollow ==
  ASSUME RollupTypeOK, NEW w \in Workloads, PodsInv(w), IdleInv(w), Cluster
  PROVE  PodsInv(w)'
<1>1. exists \subseteq Objects
  BY DEF RollupTypeOK
<1>2. ASSUME NEW o \in Objects, Create(o) \/ Update(o) \/ Delete(o)
      PROVE  /\ w \in exists' /\ Served(KindOf[w]) /\ (Owed(w) \/ w \notin exists) => Owed(w)'
             /\ allow' = allow /\ tracked' = tracked /\ rec' = rec
  BY <1>2, ObjectOwes, ObjectFrame
<1>3. ASSUME NEW objects, Gone(objects)
      PROVE  /\ w \in exists' => w \in exists /\ aibom'[w] = aibom[w]
             /\ \A p, i : Intact(p, i)' => Intact(p, i)
             /\ exists' \subseteq exists
  BY <1>3 DEF Gone, Intact
<1>4. ASSUME NEW o \in Objects, Create(o)
      PROVE  PodsInv(w)'
  <2>1. exists' = exists \cup {o} /\ aibom' = aibom
    BY <1>4 DEF Create
  <2>2. ASSUME Served(KindOf[w]), ReconcilerOf(KindOf[w]).descends, ~Owed(w)',
               NEW p \in Pods \cap exists', NEW i \in 1..Len(Owners[p]), Owners[p][i] = w,
               Intact(p, i)', Follows(p, i)
        PROVE  p \in exists /\ Intact(p, i)
    <3>1. p \in Objects
      BY DEF Pods
    <3>2. CASE p \in exists
      BY <1>1, <1>4, <2>2, <3>1, <3>2, CreateMakesNoWay
    <3>3. CASE p \notin exists
      <4>1. p = o
        BY <2>1, <3>3
      <4>2. Create(p)
        BY <1>4, <4>1
      <4>3. w \in queue' \cup missed'
        BY <1>1, <2>2, <4>2, NewPodWakes
      <4>4. QED
        BY <2>2, <4>3 DEF Owed
    <3>4. QED
      BY <3>2, <3>3
  <2>3. QED
    BY <1>2, <1>4, <2>1, <2>2, FollowFramed
<1>5. ASSUME NEW o \in Objects, Update(o)
      PROVE  PodsInv(w)'
  <2>1. exists' = exists /\ aibom' = aibom
    BY <1>5 DEF Update, cluster
  <2>2. \A p, i : Intact(p, i)' => Intact(p, i)
    BY <2>1 DEF Intact
  <2>3. QED
    BY <1>2, <1>5, <2>1, <2>2, FollowFramed
<1>6. ASSUME NEW o \in Objects, Delete(o)
      PROVE  PodsInv(w)'
  <2>1. Gone({o})
    BY <1>6 DEF Delete
  <2>2. QED
    BY <1>2, <1>3, <1>6, <2>1, FollowFramed
<1>7. ASSUME NEW k \in Supervised, RemoveCRD(k)
      PROVE  PodsInv(w)'
  <2>1. /\ Gone(OfKind(k)) /\ rec' = rec /\ queue' = queue /\ missed' = missed /\ cached' = cached
        /\ fanoutReq' = fanoutReq /\ waiting' = waiting /\ fanout' = fanout
        /\ allow' = allow /\ tracked' = tracked
    BY <1>7 DEF RemoveCRD, fanoutVars
  <2>2. w \in exists' /\ Owed(w) => Owed(w)'
    BY <2>1 DEF Owed, Unseen
  <2>3. QED
    BY <1>3, <2>1, <2>2, FollowFramed
<1>8. ASSUME NEW k \in Supervised, InstallCRD(k) \/ Outage(k)
      PROVE  PodsInv(w)'
  <2>1. /\ exists' = exists /\ rec' = rec /\ aibom' = aibom /\ queue' = queue /\ cached' = cached
        /\ missed' = missed /\ fanoutReq' = fanoutReq /\ waiting' = waiting /\ fanout' = fanout
        /\ allow' = allow /\ tracked' = tracked
    BY <1>8 DEF InstallCRD, Outage, fanoutVars, work
  <2>2. Owed(w) => Owed(w)'
    BY <2>1 DEF Owed, Unseen
  <2>3. \A p, i : Intact(p, i)' => Intact(p, i)
    BY <2>1 DEF Intact
  <2>4. QED
    BY <2>1, <2>2, <2>3, FollowFramed
<1>9. ASSUME NEW kinds \in SUBSET Reporting, Swap(kinds)
      PROVE  PodsInv(w)'
  <2> DEFINE t == [allowed |-> kinds, by |-> "store"]
  <2>1. t \in waiting' /\ t.allowed = allow'
    BY <1>9 DEF Swap
  <2> HIDE DEF t
  <2>2. Owed(w)'
    BY <2>1 DEF Owed
  <2>3. QED
    BY <2>2 DEF PodsInv
<1>10. QED
  BY <1>4, <1>5, <1>6, <1>7, <1>8, <1>9, FanoutFollow DEF Cluster

LEMMA FollowInit == Init => FollowInv
<1> SUFFICES ASSUME Init PROVE FollowInv
  OBVIOUS
<1>1. ASSUME NEW w \in Workloads
      PROVE  rec[w].pc = "idle" /\ aibom[w] = Nil
  BY IdleTypes DEF Init
<1>2. QED
  BY <1>1, RollupInvInit DEF FollowInv, PodsInv

LEMMA FollowNext == FollowInv /\ [Next]_vars => FollowInv'
<1> SUFFICES ASSUME FollowInv, [Next]_vars PROVE FollowInv'
  OBVIOUS
<1>1. RollupInv'
  BY RollupInvNext DEF FollowInv
<1>2. ASSUME NEW w \in Workloads
      PROVE  PodsInv(w)'
  <2>1. RollupTypeOK /\ IdleInv(w) /\ PodsInv(w)
    BY DEF FollowInv, RollupInv
  <2>2. CASE Controller
    BY <2>1, <2>2, SupervisorFollow, ReconcilesFollow, ObserveFollow, FanoutFollow
      DEF Controller
  <2>3. CASE Cluster
    BY <2>1, <2>3, ClusterFollow
  <2>4. CASE UNCHANGED vars
    <3>1. /\ exists' = exists /\ rec' = rec /\ aibom' = aibom /\ queue' = queue /\ cached' = cached
          /\ missed' = missed /\ fanoutReq' = fanoutReq /\ waiting' = waiting
          /\ fanout' = fanout /\ allow' = allow /\ tracked' = tracked
      BY <2>4 DEF vars, cluster, fanoutVars, work
    <3>2. Owed(w) => Owed(w)'
      BY <3>1 DEF Owed, Unseen
    <3>3. \A p, i : Intact(p, i)' => Intact(p, i)
      BY <3>1 DEF Intact
    <3>4. QED
      BY <2>1, <3>1, <3>2, <3>3, FollowFramed
  <2>5. QED
    BY <2>2, <2>3, <2>4 DEF Next
<1>3. QED
  BY <1>1, <1>2 DEF FollowInv

\* What a reconcile that will not be repeated holds in its hands, and the document
\* it left, record every pod that can be followed up to the workload and the
\* tracked workloads on the way, unless a list failed, or came from an informer
\* cache that did not show yet an object below the workload (rootDescendants,
\* EnqueueRootForPod).
THEOREM FollowInvariant == Spec => []FollowInv
BY FollowInit, FollowNext, PTL DEF Spec

\* A document knows its pods and what it absorbed: when the system has come to
\* rest, whatever the order of pods, owners, tracked kinds, swaps and outages was,
\* the document of a workload that descends records every pod whose nearest owner
\* of that kind it is, within the depth and the kinds the code follows, and every
\* tracked workload between the two, unless a list failed or lagged when it was
\* made (rootDescendants, EnqueueRootForPod).
THEOREM DocumentsKnowPods == Spec => []DocumentsFollowPods
<1>1. FollowInv => DocumentsFollowPods
  <2>1. SUFFICES ASSUME FollowInv, Rest, NEW w \in Workloads, w \notin missed,
                        KindOf[w] \notin broken, ReconcilerOf(KindOf[w]).descends,
                        aibom[w] # Nil, ~aibom[w].partial,
                        NEW p \in Pods \cap exists, NEW i \in Through(p, exists),
                        Owners[p][i] = w, Follows(p, i)
                 PROVE  Records(aibom[w], p, i)
    BY DEF DocumentsFollowPods
  <2>2. w \in exists /\ RollupInv
    BY <2>1 DEF FollowInv, RollupInv, IdleInv
  <2>3. ~Owed(w) /\ KindOf[w] \in Managed \cup allow /\ rec[w].pc = "idle"
    BY <2>1, <2>2, RestOwesNothing
  <2>4. RecordsAll(aibom[w], w)
    BY <2>1, <2>2, <2>3 DEF FollowInv, PodsInv
  <2>5. i \in 1..Len(Owners[p]) /\ Intact(p, i)
    BY DEF Through, Intact
  <2>6. QED
    BY <2>1, <2>4, <2>5 DEF RecordsAll
<1>2. QED
  BY <1>1, FollowInvariant, PTL
=============================================================================
