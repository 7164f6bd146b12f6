----------------------- MODULE WatchSupervisorProofs -----------------------
(***************************************************************************)
(* Proofs about WatchSupervisor, for every set of kinds and all bounds.    *)
(*                                                                         *)
(* apply() is one goroutine, so what may be out of step concerns the kind  *)
(* it is at, and the stage it is in says how.  Two chains carry the        *)
(* argument: a generation apply() acted on is one discovery published, so  *)
(* evidence against it holds for good; and an observation or an allowlist  *)
(* not acted on yet has a kick, a worker about to kick, or its kind still  *)
(* before it in the pass.                                                  *)
(***************************************************************************)
EXTENDS WatchSupervisor, CRDDiscoveryProofs

Stages == {"retire", "retireSweep", "retired", "adopt", "unserve", "allow", "exclude", "sweep"}

\* apply() is at kind k, in one of these stages.
At(k, pcs) == sup.kind = k /\ sup.pc \in pcs

\* The generation apply() acted on is one discovery published, activated and
\* tracked go with its presence; between Retire and FinishRetire the kind has
\* left TrackedKinds already.
LifeInv(k) ==
  /\ Present(life[k]) => life[k].uid # 0 /\ life[k].uid <= worker[k].uid
  /\ ~Present(life[k]) => life[k].uid = 0
  /\ k \in activated <=> Present(life[k])
  /\ k \in tracked <=> Present(life[k]) /\ ~At(k, {"retireSweep", "retired"})

\* A runner is the runner of a Ready generation, or is being waited for; only
\* a runner that is being waited for is cancelled.
RunnerInv(k) ==
  /\ ~Running(k) => ~runner[k].cancelled /\ ~runner[k].synced
  /\ Running(k) => life[k].state = "Ready" \/ At(k, {"unserve"})
  /\ Running(k) => ~At(k, {"retireSweep", "retired", "sweep"})
  /\ runner[k].cancelled => At(k, {"retire", "unserve", "exclude"})

\* A healthy kind is present; one that owes WatchStarted has not synced, and
\* its runner is there or apply() is about to start it.
HealthInv(k) ==
  /\ health[k].healthy => Present(life[k]) /\ ~At(k, {"retireSweep", "retired"})
  /\ k \in pendingStart =>
       /\ life[k].uid > boot[k] /\ ~health[k].healthy /\ ~runner[k].synced
       /\ Running(k) \/ (At(k, {"allow"}) /\ life[k].state = "Ready" /\ Allowed(k))

\* The observation o has been acted on.
Acted(o, l) ==
  /\ o.state = "Ready" => l = [state |-> "Ready", uid |-> o.uid]
  /\ o.state = "Unservable" /\ o.uid = l.uid => l.state = "Unservable"

\* apply() will still read the observation of k.
ToCome(k) ==
  \/ kick \/ worker[k].pc \in {"kick", "kickMore"}
  \/ sup.pc = "wake" \/ k \in sup.todo

ObserveInv(k) ==
  ~ToCome(k) =>
    IF At(k, {"retire", "retireSweep", "retired", "adopt"})
    THEN sup.seen.state = obs[k].state /\ sup.seen.uid = obs[k].uid
    ELSE Acted(obs[k], life[k])

\* Exactly the Ready and allowed kinds run: of the allowlist of this pass for
\* the kinds behind apply(), of the live one when it rests.
ServeInv(k) ==
  /\ sup.pc \notin {"idle", "wake"} /\ k \notin sup.todo /\ ~At(k, Stages) =>
       (Running(k) <=> (life[k].state = "Ready" /\ Allowed(k)))
  /\ sup.pc = "idle" /\ ~cfgKick /\ ~kick =>
       (Running(k) <=> (life[k].state = "Ready" /\ k \in desired))

\* What apply() holds about the kind it is at.
StageInv(k) ==
  /\ sup.pc \in {"retire", "retireSweep", "retired"} =>
       Present(life[k]) /\ Gone(crd[k], life[k].uid)
  /\ sup.pc \in {"exclude", "sweep"} => ~Allowed(k)
  /\ sup.pc = "unserve" => life[k].state = "Unservable"
  /\ sup.pc = "adopt" => ~Retires(sup.seen, life[k])
  /\ sup.pc \in Stages =>
       /\ k \notin sup.todo
       /\ sup.seen.uid <= worker[k].uid
       /\ sup.seen.state # "Unknown" => sup.seen.uid # 0
       /\ sup.seen.late => sup.seen.uid > boot[k]

PassInv ==
  /\ sup.pc \in {"idle", "wake"} => sup.todo = {}
  /\ sup.pc \notin {"idle", "wake"} /\ ~cfgKick /\ ~kick => sup.allowed = desired

KindOK(k) == LifeInv(k) /\ RunnerInv(k) /\ HealthInv(k) /\ ObserveInv(k) /\ ServeInv(k)

\* The inductive invariant.
SupervisorInv ==
  /\ TypeOK
  /\ DiscoveryInv
  /\ \A k \in Kinds : KindOK(k)
  /\ StageInv(sup.kind)
  /\ PassInv
-----------------------------------------------------------------------------
(* Records *)

\* A WatchStatus, and what each method of the registry leaves in it.
LEMMA Statuses ==
  ASSUME NEW h \in WatchStatus
  PROVE  /\ Register(h) \in WatchStatus /\ (Register(h).healthy => h.healthy)
         /\ MarkHealthy(h) \in WatchStatus
         /\ MarkUnhealthy(h) \in WatchStatus /\ ~MarkUnhealthy(h).healthy
         /\ MarkStarting(h) \in WatchStatus /\ ~MarkStarting(h).healthy
         /\ \A r \in DisabledReason : MarkDisabled(h, r) \in WatchStatus /\ ~MarkDisabled(h, r).healthy
         /\ h.healthy \in BOOLEAN
<1>1. NoStatus \in WatchStatus /\ ~NoStatus.healthy  BY DEF NoStatus, WatchStatus, DisabledReason
<1>2. [NoStatus EXCEPT !.known = TRUE] \in WatchStatus /\ ~[NoStatus EXCEPT !.known = TRUE].healthy
  BY DEF NoStatus, WatchStatus, DisabledReason
<1>3. Register(h) \in WatchStatus /\ (Register(h).healthy => h.healthy)  BY <1>2 DEF Register
<1>4. MarkHealthy(h) \in WatchStatus  BY DEF MarkHealthy, WatchStatus, DisabledReason
<1>5. MarkUnhealthy(h) \in WatchStatus /\ ~MarkUnhealthy(h).healthy
  BY DEF MarkUnhealthy, WatchStatus, DisabledReason
<1>6. MarkStarting(h) \in WatchStatus /\ ~MarkStarting(h).healthy
  BY DEF MarkStarting, WatchStatus, DisabledReason
<1>7. \A r \in DisabledReason : MarkDisabled(h, r) \in WatchStatus /\ ~MarkDisabled(h, r).healthy
  BY DEF MarkDisabled, WatchStatus
<1>8. h.healthy \in BOOLEAN  BY DEF WatchStatus
<1> QED  BY <1>3, <1>4, <1>5, <1>6, <1>7, <1>8

\* The local variables of apply(), field by field.
LEMMA SupFields ==
  ASSUME NEW x \in supState
  PROVE  /\ x.pc \in {"idle", "wake", "pass"} \cup Stages /\ x.kind \in Kinds
         /\ x.todo \subseteq Kinds /\ x.allowed \subseteq Kinds /\ x.seen \in crdObservation
  BY DEF supState, Stages

\* Stage moves the goroutine on and keeps what a later stage reads.
LEMMA StageFields ==
  ASSUME sup \in supState, NEW pc \in {"idle", "wake", "pass"} \cup Stages, Stage(pc)
  PROVE  /\ sup' \in supState /\ sup'.pc = pc /\ sup'.kind = sup.kind /\ sup'.todo = sup.todo
         /\ pc # "idle" => sup'.allowed = sup.allowed
         /\ pc \in Stages => sup'.seen = sup.seen
<1>1. NoObservation \in crdObservation
  BY Members DEF NoObservation, crdObservation
<1>2. PICK o, a : /\ o = IF pc \in {"pass", "idle"} THEN NoObservation ELSE sup.seen
                  /\ a = IF pc = "idle" THEN {} ELSE sup.allowed
  OBVIOUS
<1>3. sup' = [sup EXCEPT !.pc = pc, !.seen = o, !.allowed = a]  BY <1>2 DEF Stage
<1>4. o \in crdObservation /\ a \subseteq Kinds  BY <1>1, <1>2, SupFields
<1>5. /\ sup' \in supState /\ sup'.pc = pc /\ sup'.kind = sup.kind /\ sup'.todo = sup.todo
      /\ sup'.allowed = a /\ sup'.seen = o
  BY <1>3, <1>4 DEF supState, Stages
<1>6. pc \in Stages => pc \notin {"pass", "idle"}  BY DEF Stages
<1> QED  BY <1>2, <1>5, <1>6

\* A runner, field by field.
LEMMA RunnerFields ==
  /\ NoRunner \in watchRunner /\ NoRunner.pc = "none" /\ ~NoRunner.cancelled /\ ~NoRunner.synced
  /\ \A r \in watchRunner :
       /\ r.pc \in {"none", "probe", "watch", "backoff", "done"}
       /\ r.cancelled \in BOOLEAN /\ r.synced \in BOOLEAN
  BY DEF NoRunner, watchRunner

\* The updates of a runner.
LEMMA RunnerUpdates ==
  ASSUME NEW r \in watchRunner
  PROVE  /\ [r EXCEPT !.cancelled = TRUE] \in watchRunner
         /\ [r EXCEPT !.cancelled = TRUE].pc = r.pc /\ [r EXCEPT !.cancelled = TRUE].synced = r.synced
         /\ [r EXCEPT !.synced = TRUE] \in watchRunner /\ [r EXCEPT !.synced = TRUE].pc = r.pc
         /\ [r EXCEPT !.synced = TRUE].cancelled = r.cancelled
         /\ [r EXCEPT !.pc = "watch", !.synced = FALSE] \in watchRunner
         /\ [r EXCEPT !.pc = "watch", !.synced = FALSE].pc = "watch"
         /\ [r EXCEPT !.pc = "watch", !.synced = FALSE].cancelled = r.cancelled
         /\ ~[r EXCEPT !.pc = "watch", !.synced = FALSE].synced
  BY DEF watchRunner

\* A runner that goes on at pc.
LEMMA RunnerAt ==
  ASSUME NEW r \in watchRunner, NEW pc \in {"probe", "watch", "backoff", "done"},
         NEW s, s = [r EXCEPT !.pc = pc]
  PROVE  s \in watchRunner /\ s.pc = pc /\ s.cancelled = r.cancelled /\ s.synced = r.synced
  BY DEF watchRunner

\* The runner apply() starts.
LEMMA NewRunner ==
  /\ [NoRunner EXCEPT !.pc = "probe"] \in watchRunner
  /\ [NoRunner EXCEPT !.pc = "probe"].pc = "probe"
  /\ ~[NoRunner EXCEPT !.pc = "probe"].cancelled /\ ~[NoRunner EXCEPT !.pc = "probe"].synced
  BY DEF NoRunner, watchRunner

\* stopRunner, first half.
LEMMA CancelFacts ==
  ASSUME runner \in [Kinds -> watchRunner], NEW k \in Kinds, Cancel(k)
  PROVE  /\ runner' \in [Kinds -> watchRunner]
         /\ \A j \in Kinds : runner'[j].pc = runner[j].pc /\ runner'[j].synced = runner[j].synced
         /\ \A j \in Kinds \ {k} : runner'[j] = runner[j]
         /\ ~Running(k) => runner'[k] = runner[k]
<1>1. CASE Running(k)
  <2>1. PICK r : r = [runner[k] EXCEPT !.cancelled = TRUE]  OBVIOUS
  <2>2. runner' = [runner EXCEPT ![k] = r]  BY <1>1, <2>1 DEF Cancel
  <2>3. r \in watchRunner /\ r.pc = runner[k].pc /\ r.synced = runner[k].synced
    BY <2>1, RunnerUpdates
  <2> QED  BY <1>1, <2>2, <2>3
<1>2. CASE ~Running(k)
  <2>1. runner' = runner  BY <1>2 DEF Cancel
  <2> QED  BY <2>1
<1> QED  BY <1>1, <1>2

\* stopRunner, second half: the kind has no runner and owes nothing.
LEMMA StoppedFacts ==
  ASSUME runner \in [Kinds -> watchRunner], NEW k \in Kinds, Stopped(k), pendingStart \subseteq Kinds
  PROVE  /\ runner' \in [Kinds -> watchRunner]
         /\ runner'[k] = NoRunner /\ \A j \in Kinds \ {k} : runner'[j] = runner[j]
         /\ pendingStart' \subseteq Kinds
         /\ \A j \in Kinds \ {k} : j \in pendingStart' <=> j \in pendingStart
         /\ k \in pendingStart' => k \in pendingStart /\ ~Running(k)
  BY RunnerFields DEF Stopped

\* A generation of a kind, field by field.
LEMMA LifeFields ==
  /\ \A l \in kindLife : l.state \in crdState /\ l.uid \in Nat
  /\ \A s \in crdState, u \in Nat :
       /\ [state |-> s, uid |-> u] \in kindLife
       /\ [state |-> s, uid |-> u].state = s /\ [state |-> s, uid |-> u].uid = u
  /\ \A l \in kindLife : \A s \in crdState :
       /\ [l EXCEPT !.state = s] \in kindLife
       /\ [l EXCEPT !.state = s].state = s /\ [l EXCEPT !.state = s].uid = l.uid
  BY DEF kindLife

\* A Ready life with this UID.
LEMMA LifeIs ==
  ASSUME NEW l \in kindLife, NEW u \in Nat
  PROVE  l = [state |-> "Ready", uid |-> u] <=> l.state = "Ready" /\ l.uid = u
  BY DEF kindLife

\* An observation, field by field.
LEMMA ObservationFields ==
  ASSUME NEW o \in crdObservation
  PROVE  o.state \in crdState /\ o.uid \in Nat /\ o.late \in BOOLEAN /\ o.lagErr \in BOOLEAN
         /\ o.lagSeq \in Nat
  BY DEF crdObservation
\* What is left of the bounds.
LEMMA Spending ==
  ASSUME NEW s \in [flips : Nat, faults : Nat, writes : Nat]
  PROVE  /\ [s EXCEPT !.flips = s.flips + 1] \in [flips : Nat, faults : Nat, writes : Nat]
         /\ [s EXCEPT !.faults = s.faults + 1] \in [flips : Nat, faults : Nat, writes : Nat]
         /\ [s EXCEPT !.writes = s.writes + 1] \in [flips : Nat, faults : Nat, writes : Nat]
  OBVIOUS
-----------------------------------------------------------------------------
(* What the supervisor relies on in discovery *)

\* A worker remembers newer generations only, changes its observation only on
\* its way to a kick, and does kick.
LEMMA WorkerEffects ==
  ASSUME DiscoveryInv, NEW k \in Kinds, WorkerNext(k)
  PROVE  /\ worker'[k].uid >= worker[k].uid
         /\ \/ worker'[k].state = worker[k].state /\ worker'[k].uid = worker[k].uid
            \/ worker'[k].pc \in {"kick", "kickMore"}
         /\ worker[k].pc \in {"kick", "kickMore"} => kick'
         /\ kick => kick'
<1>1. DiscoveryTypeOK /\ MemoryInv(k) /\ ReadInv(k)  BY DEF DiscoveryInv, KindInv
<1>2. worker[k] \in crdWorker /\ worker[k].uid \in Nat /\ worker[k].got.uid \in Nat
      /\ {"idle", "kick", "classify", "kickMore"} \subseteq workerPC
      /\ "kick" \in {"kick", "kickMore"} /\ "kickMore" \in {"kick", "kickMore"}
  BY <1>1, WorkerFields, Members DEF DiscoveryTypeOK
<1>3. \A w : SetWorker(k, w) => worker'[k] = w  BY <1>1 DEF SetWorker, DiscoveryTypeOK
<1>4. CASE ReadCRD(k)
  <2>1. PICK w : /\ w = [worker[k] EXCEPT !.pc = "classify", !.got = crd[k], !.retry = FALSE,
                        !.firstUID = IF @ = 0 THEN crd[k].uid ELSE @]
                 /\ SetWorker(k, w) /\ worker[k].pc = "idle" /\ kick' = kick
    BY <1>4 DEF ReadCRD
  <2>2. w.state = worker[k].state /\ w.uid = worker[k].uid  BY <1>2, <2>1 DEF crdWorker
  <2>3. worker'[k] = w  BY <1>3, <2>1
  <2>4. worker'[k].state = worker[k].state /\ worker'[k].uid = worker[k].uid  BY <2>2, <2>3
  <2>5. worker[k].pc \notin {"kick", "kickMore"} /\ kick' = kick  BY <2>1
  <2> QED  BY <1>2, <2>4, <2>5
<1>5. CASE ReadFails(k)
  <2>1. PICK w : /\ w = [worker[k] EXCEPT !.retry = TRUE]
                 /\ SetWorker(k, w) /\ worker[k].pc = "idle" /\ kick' = kick
    BY <1>5 DEF ReadFails
  <2>2. w.state = worker[k].state /\ w.uid = worker[k].uid  BY <1>2, <2>1 DEF crdWorker
  <2>3. worker'[k] = w  BY <1>3, <2>1
  <2>4. worker'[k].state = worker[k].state /\ worker'[k].uid = worker[k].uid  BY <2>2, <2>3
  <2>5. worker[k].pc \notin {"kick", "kickMore"} /\ kick' = kick  BY <2>1
  <2> QED  BY <1>2, <2>4, <2>5
<1>6. CASE KickApply(k)
  <2>1. PICK w : /\ w = [worker[k] EXCEPT !.pc = IF @ = "kick" THEN "idle" ELSE "classify"]
                 /\ SetWorker(k, w) /\ kick'
    BY <1>6 DEF KickApply
  <2>2. w.state = worker[k].state /\ w.uid = worker[k].uid  BY <1>2, <2>1 DEF crdWorker
  <2>3. worker'[k] = w /\ kick'  BY <1>3, <2>1
  <2>4. worker'[k].state = worker[k].state /\ worker'[k].uid = worker[k].uid  BY <2>2, <2>3
  <2> QED  BY <1>2, <2>3, <2>4
<1>7. Classify(k) => worker[k].pc = "classify" /\ kick' = kick
  BY DEF Classify, ClassifyAbsent, ClassifyReplaced, ClassifyDeleting, ClassifyNotReady,
     ClassifyStillReady, ClassifyBecomesReady, ClassifyNoMatch, Current
<1>8. ASSUME NEW pc \in {"kick", "kickMore"}, removeObserved(k, pc)
      PROVE  worker'[k].uid = worker[k].uid /\ worker'[k].pc \in {"kick", "kickMore"}
  BY <1>1, <1>8, RemoveFields
<1>9. SetWorker(k, Goto(worker[k], "idle")) =>
        worker'[k].uid = worker[k].uid /\ worker'[k].state = worker[k].state
  BY <1>1, RestFields
<1>10. CASE ClassifyAbsent(k)
  <2>1. CASE removeObserved(k, "kick")  BY <1>2, <1>7, <1>8, <1>10, <2>1 DEF Classify
  <2>2. CASE SetWorker(k, [Goto(worker[k], "idle") EXCEPT !.sawAbsent = TRUE])
    <3>1. PICK g : g = Goto(worker[k], "idle")  OBVIOUS
    <3>2. g \in crdWorker /\ g.uid = worker[k].uid /\ g.state = worker[k].state
      BY <1>2, <3>1, GotoFields
    <3>3. [g EXCEPT !.sawAbsent = TRUE].uid = g.uid /\ [g EXCEPT !.sawAbsent = TRUE].state = g.state
      BY <3>2 DEF crdWorker
    <3>4. worker'[k] = [g EXCEPT !.sawAbsent = TRUE]  BY <1>3, <2>2, <3>1
    <3>5. worker'[k].uid = worker[k].uid /\ worker'[k].state = worker[k].state  BY <3>2, <3>3, <3>4
    <3>6. worker[k].pc = "classify" /\ kick' = kick  BY <1>7, <1>10 DEF Classify
    <3> QED  BY <1>2, <3>5, <3>6
  <2> QED  BY <1>10, <2>1, <2>2 DEF ClassifyAbsent
<1>11. CASE ClassifyReplaced(k)
  BY <1>2, <1>7, <1>8, <1>11 DEF Classify, ClassifyReplaced
<1>12. CASE ClassifyDeleting(k)
  BY <1>2, <1>7, <1>8, <1>9, <1>12 DEF Classify, ClassifyDeleting
<1>13. CASE ClassifyNotReady(k)
  <2>1. CASE SetWorker(k, [Goto(worker[k], "kick") EXCEPT !.state = "Unservable"])
    <3>1. PICK g : g = Goto(worker[k], "kick")  OBVIOUS
    <3>2. g \in crdWorker /\ g.uid = worker[k].uid /\ g.pc = "kick"  BY <1>2, <3>1, GotoFields
    <3>3. [g EXCEPT !.state = "Unservable"].uid = g.uid /\ [g EXCEPT !.state = "Unservable"].pc = g.pc
      BY <3>2 DEF crdWorker
    <3>4. worker'[k] = [g EXCEPT !.state = "Unservable"]  BY <1>3, <2>1, <3>1
    <3>5. worker'[k].uid = worker[k].uid /\ worker'[k].pc = "kick"  BY <3>2, <3>3, <3>4
    <3>6. worker[k].pc = "classify" /\ kick' = kick  BY <1>7, <1>13 DEF Classify
    <3> QED  BY <1>2, <3>5, <3>6
  <2>2. CASE SetWorker(k, Goto(worker[k], "idle"))  BY <1>2, <1>7, <1>9, <1>13, <2>2 DEF Classify
  <2> QED  BY <1>13, <2>1, <2>2 DEF ClassifyNotReady
<1>14. CASE ClassifyStillReady(k)
  BY <1>2, <1>7, <1>9, <1>14 DEF Classify, ClassifyStillReady
<1>15. CASE ClassifyBecomesReady(k)
  <2>1. PICK g : g = Goto(worker[k], "kick")  OBVIOUS
  <2>2. g \in crdWorker /\ g.pc = "kick"  BY <1>2, <2>1, GotoFields
  <2>3. PICK w : w = [g EXCEPT !.state = "Ready", !.uid = worker[k].got.uid, !.lag = "no"]  OBVIOUS
  <2>4. w.uid = worker[k].got.uid /\ w.pc = "kick"  BY <2>2, <2>3 DEF crdWorker
  <2>5. SetWorker(k, w)  BY <1>15, <2>1, <2>3 DEF ClassifyBecomesReady
  <2>6. worker[k].got.uid >= worker[k].uid
    BY <1>1, <1>15 DEF ClassifyBecomesReady, Current, ReadInv, HasRead
  <2> QED  BY <1>2, <1>3, <1>7, <1>15, <2>4, <2>5, <2>6 DEF Classify
<1>16. CASE ClassifyNoMatch(k)
  <2>1. CASE SetWorker(k, [Goto(worker[k], "idle") EXCEPT !.retry = TRUE,
                            !.lag = IF @ = "no" THEN "since" ELSE @])
    <3>1. PICK g, l : /\ g = Goto(worker[k], "idle") /\ l = IF g.lag = "no" THEN "since" ELSE g.lag
      OBVIOUS
    <3>2. g \in crdWorker /\ g.uid = worker[k].uid /\ g.state = worker[k].state
      BY <1>2, <3>1, GotoFields
    <3>3. worker'[k] = [g EXCEPT !.retry = TRUE, !.lag = l]  BY <1>3, <2>1, <3>1
    <3>4. worker'[k].uid = g.uid /\ worker'[k].state = g.state  BY <3>2, <3>3, LagFields
    <3> QED  BY <1>2, <1>7, <1>16, <3>2, <3>4 DEF Classify
  <2>2. CASE SetWorker(k, [Goto(worker[k], "kick") EXCEPT !.retry = TRUE,
                            !.lag = "reported", !.lagSeq = @ + 1])
    <3>1. PICK g, n : g = Goto(worker[k], "kick") /\ n = g.lagSeq + 1  OBVIOUS
    <3>2. g \in crdWorker /\ g.uid = worker[k].uid /\ g.pc = "kick"  BY <1>2, <3>1, GotoFields
    <3>3. worker'[k] = [g EXCEPT !.retry = TRUE, !.lag = "reported", !.lagSeq = n]
      BY <1>3, <2>2, <3>1
    <3>4. worker'[k].uid = g.uid /\ worker'[k].pc = g.pc  BY <3>2, <3>3, LagFields
    <3> QED  BY <1>2, <1>7, <1>16, <3>2, <3>4 DEF Classify
  <2> QED  BY <1>16, <2>1, <2>2 DEF ClassifyNoMatch
<1> QED
  BY <1>4, <1>5, <1>6, <1>10, <1>11, <1>12, <1>13, <1>14, <1>15, <1>16 DEF WorkerNext, Classify

\* A step of discovery, as apply() may notice it.
DiscoveryMoves ==
  /\ DiscoveryInv'
  /\ boot' = boot
  /\ kick => kick'
  /\ \A k \in Kinds :
       /\ worker'[k].uid >= worker[k].uid
       /\ \A u \in Nat : u # 0 /\ u <= top[k] /\ Gone(crd[k], u) => Gone(crd'[k], u)
       /\ \/ obs'[k].state = obs[k].state /\ obs'[k].uid = obs[k].uid
          \/ worker'[k].pc \in {"kick", "kickMore"}
       /\ worker[k].pc \in {"kick", "kickMore"} => kick' \/ worker'[k].pc \in {"kick", "kickMore"}

\* The API server and the workers move in this way.
LEMMA DiscoveryStepFacts ==
  ASSUME DiscoveryInv, NEW j \in Kinds, ServerNext(j) \/ WorkerNext(j)
  PROVE  DiscoveryMoves
<1>1. DiscoveryInv' /\ DiscoveryTypeOK /\ \A k \in Kinds : KindInv(k) /\ KindInv(k)'
  BY InvNext DEF DiscoveryNext, DiscoveryInv
<1>2. \A k \in Kinds : worker[k].uid \in Nat /\ worker'[k].uid \in Nat
  <2>1. worker \in [Kinds -> crdWorker] /\ worker' \in [Kinds -> crdWorker]
    BY <1>1 DEF DiscoveryInv, DiscoveryTypeOK
  <2> QED  BY <2>1, WorkerFields
<1>3. \A k \in Kinds : /\ obs[k].state = worker[k].state /\ obs[k].uid = worker[k].uid
                        /\ obs'[k].state = worker'[k].state /\ obs'[k].uid = worker'[k].uid
  BY <1>1 DEF KindInv, MemoryInv
<1>4. CASE ServerNext(j)
  <2>1. /\ UNCHANGED <<boot, worker, obs>>
        /\ \A u \in Nat : u # 0 /\ u <= top[j] /\ Gone(crd[j], u) => Gone(crd'[j], u)
        /\ \A k \in Kinds \ {j} : crd'[k] = crd[k]
    BY <1>1, <1>4, ServerStepFacts DEF KindInv
  <2>2. kick' = kick
    BY <1>4 DEF ServerNext, InstallCRD, EditCRD, BeginDeleteCRD, FinishDeleteCRD, ServerChange
  <2>3. ASSUME NEW k \in Kinds
        PROVE  \A u \in Nat : u # 0 /\ u <= top[k] /\ Gone(crd[k], u) => Gone(crd'[k], u)
    <3>1. CASE k = j  BY <2>1, <3>1
    <3>2. CASE k # j  BY <2>1, <3>2
    <3> QED  BY <3>1, <3>2
  <2> QED  BY <1>1, <1>2, <2>1, <2>2, <2>3 DEF DiscoveryMoves
<1>5. CASE WorkerNext(j)
  <2>1. UNCHANGED <<crd, top, boot>> /\ \A k \in Kinds \ {j} : worker'[k] = worker[k] /\ obs'[k] = obs[k]
    BY <1>1, <1>5, WorkerOthers DEF crdVars
  <2>2. /\ worker'[j].uid >= worker[j].uid
        /\ \/ worker'[j].state = worker[j].state /\ worker'[j].uid = worker[j].uid
           \/ worker'[j].pc \in {"kick", "kickMore"}
        /\ worker[j].pc \in {"kick", "kickMore"} => kick'
        /\ kick => kick'
    BY <1>5, WorkerEffects
  <2>3. ASSUME NEW k \in Kinds
        PROVE  /\ worker'[k].uid >= worker[k].uid
               /\ \/ obs'[k].state = obs[k].state /\ obs'[k].uid = obs[k].uid
                  \/ worker'[k].pc \in {"kick", "kickMore"}
               /\ worker[k].pc \in {"kick", "kickMore"} => kick' \/ worker'[k].pc \in {"kick", "kickMore"}
    <3>1. CASE k = j  BY <1>3, <2>2, <3>1
    <3>2. CASE k # j  BY <1>2, <2>1, <3>2
    <3> QED  BY <3>1, <3>2
  <2> QED  BY <1>1, <2>1, <2>2, <2>3 DEF DiscoveryMoves
<1> QED  BY <1>4, <1>5

\* Poking a worker, or no step of discovery at all, moves nothing of it.
LEMMA DiscoveryStays ==
  ASSUME DiscoveryInv, UNCHANGED dvars \/ \E j \in Kinds : PokeWorker(j)
  PROVE  DiscoveryMoves /\ UNCHANGED <<crd, top, boot, worker, obs, kick>>
<1>1. DiscoveryInv'  BY InvNext DEF DiscoveryNext
<1>2. UNCHANGED <<crd, top, boot, worker, obs, kick>>  BY DEF dvars, PokeWorker, crdVars
<1>3. \A k \in Kinds : worker[k].uid \in Nat
  BY WorkerFields DEF DiscoveryInv, DiscoveryTypeOK
<1> QED  BY <1>1, <1>2, <1>3 DEF DiscoveryMoves
-----------------------------------------------------------------------------
(* The steps of apply() at one kind *)

\* What the invariant says of one kind, with the types its parts need.
LEMMA Here ==
  ASSUME SupervisorInv, NEW k \in Kinds
  PROVE  /\ TypeOK /\ DiscoveryInv /\ KindOK(k) /\ PassInv /\ (sup.kind = k => StageInv(k))
         /\ sup \in supState /\ life[k] \in kindLife /\ life[k].uid \in Nat /\ life[k].state \in crdState
         /\ runner[k] \in watchRunner /\ health[k] \in WatchStatus
         /\ worker[k].uid \in Nat /\ boot[k] \in Nat /\ top[k] \in Nat
         /\ obs[k] \in crdObservation /\ obs[k].uid \in Nat
         /\ sup.seen \in crdObservation /\ sup.seen.uid \in Nat
         /\ sup.allowed \subseteq Kinds /\ sup.todo \subseteq Kinds
<1>1. TypeOK /\ DiscoveryInv /\ KindOK(k) /\ PassInv /\ (sup.kind = k => StageInv(k))
  BY DEF SupervisorInv
<1>2. /\ sup \in supState /\ life[k] \in kindLife /\ runner[k] \in watchRunner
      /\ health[k] \in WatchStatus /\ worker[k] \in crdWorker /\ boot[k] \in Nat /\ top[k] \in Nat
      /\ obs[k] \in crdObservation
  BY <1>1 DEF TypeOK, DiscoveryTypeOK
<1>3. worker[k].uid \in Nat  BY <1>2, WorkerFields
<1>4. life[k].uid \in Nat /\ life[k].state \in crdState  BY <1>2, LifeFields
<1>5. sup.seen \in crdObservation /\ sup.allowed \subseteq Kinds /\ sup.todo \subseteq Kinds
  BY <1>2, SupFields
<1>6. obs[k].uid \in Nat /\ sup.seen.uid \in Nat  BY <1>2, <1>5, ObservationFields
<1> QED  BY <1>1, <1>2, <1>3, <1>4, <1>5, <1>6

\* A step of apply() at kind k leaves the other kinds, discovery and the
\* allowlist alone.
ApplyFrame(k) ==
  /\ UNCHANGED <<dvars, desired, cfgKick>>
  /\ sup.pc \in {"pass"} \cup Stages /\ (sup.pc \in Stages => sup.kind = k)
  /\ sup'.pc \in {"pass"} \cup Stages /\ sup'.kind = k /\ sup'.allowed = sup.allowed
  /\ k \notin sup'.todo
  /\ \A j \in Kinds \ {k} :
       /\ j \in sup'.todo <=> j \in sup.todo
       /\ life'[j] = life[j] /\ runner'[j] = runner[j] /\ health'[j] = health[j]
       /\ j \in activated' <=> j \in activated
       /\ j \in tracked' <=> j \in tracked
       /\ j \in pendingStart' <=> j \in pendingStart

\* Such a step is right when it is right for k: the kinds before and behind
\* apply() stay as they were.
LEMMA ApplyKept ==
  ASSUME SupervisorInv, NEW k \in Kinds, ApplyFrame(k), TypeOK', KindOK(k)', StageInv(k)'
  PROVE  SupervisorInv'
<1>1. DiscoveryInv'  BY InvNext DEF SupervisorInv, ApplyFrame
<1>2. UNCHANGED <<crd, top, boot, worker, obs, kick, desired, cfgKick>>  BY DEF ApplyFrame, dvars
<1>3. sup.pc \notin {"idle", "wake"} /\ sup'.pc \notin {"idle", "wake"}  BY DEF ApplyFrame, Stages
<1>4. ASSUME NEW j \in Kinds, j # k  PROVE KindOK(j)'
  <2>1. KindOK(j)  BY DEF SupervisorInv
  <2>2. \A S \in SUBSET Stages : ~At(j, S) /\ ~At(j, S)'  BY <1>4 DEF ApplyFrame, At
  <2>3. /\ {"retireSweep", "retired"} \in SUBSET Stages
        /\ {"unserve"} \in SUBSET Stages
        /\ {"retireSweep", "retired", "sweep"} \in SUBSET Stages
        /\ {"retire", "unserve", "exclude"} \in SUBSET Stages
        /\ {"allow"} \in SUBSET Stages
        /\ {"retire", "retireSweep", "retired", "adopt"} \in SUBSET Stages
        /\ Stages \in SUBSET Stages
    BY DEF Stages
  <2>4. /\ life'[j] = life[j] /\ runner'[j] = runner[j] /\ health'[j] = health[j]
        /\ j \in activated' <=> j \in activated
        /\ j \in tracked' <=> j \in tracked
        /\ j \in pendingStart' <=> j \in pendingStart
        /\ j \in sup'.todo <=> j \in sup.todo
        /\ sup'.allowed = sup.allowed
    BY <1>4 DEF ApplyFrame
  <2>5. LifeInv(j)'
    <3>1. LifeInv(j)  BY <2>1 DEF KindOK
    <3> QED  BY <1>2, <2>2, <2>3, <2>4, <3>1 DEF LifeInv, Present
  <2>6. RunnerInv(j)'
    <3>1. RunnerInv(j)  BY <2>1 DEF KindOK
    <3> QED  BY <1>2, <2>2, <2>3, <2>4, <3>1 DEF RunnerInv, Running
  <2>7. HealthInv(j)'
    <3>1. HealthInv(j)  BY <2>1 DEF KindOK
    <3> QED  BY <1>2, <2>2, <2>3, <2>4, <3>1 DEF HealthInv, Present, Running, Allowed
  <2>8. ObserveInv(j)'
    <3>1. ObserveInv(j)  BY <2>1 DEF KindOK
    <3>2. ToCome(j)' <=> ToCome(j)  BY <1>2, <1>3, <2>4 DEF ToCome
    <3> QED  BY <1>2, <2>2, <2>3, <2>4, <3>1, <3>2 DEF ObserveInv, Acted
  <2>9. ServeInv(j)'
    <3>1. ServeInv(j)  BY <2>1 DEF KindOK
    <3> QED  BY <1>2, <1>3, <2>2, <2>3, <2>4, <3>1 DEF ServeInv, Running, Allowed
  <2> QED  BY <2>5, <2>6, <2>7, <2>8, <2>9 DEF KindOK
<1>5. PassInv'
  <2>1. PassInv /\ sup'.allowed = sup.allowed  BY DEF SupervisorInv, ApplyFrame
  <2> QED  BY <1>2, <1>3, <2>1 DEF PassInv
<1>6. StageInv(sup.kind)'  BY DEF ApplyFrame
<1> QED  BY <1>1, <1>4, <1>5, <1>6 DEF SupervisorInv

\* A move from one stage of kind k to another, or on to the next kind.
LEMMA StageAt ==
  ASSUME SupervisorInv, NEW k \in Kinds, sup.kind = k, sup.pc \in Stages,
         NEW pc \in {"pass"} \cup Stages, Stage(pc)
  PROVE  /\ sup' \in supState /\ sup'.pc = pc /\ sup'.kind = k /\ sup'.todo = sup.todo
         /\ sup'.allowed = sup.allowed /\ (pc \in Stages => sup'.seen = sup.seen)
         /\ k \notin sup.todo /\ k \notin sup'.todo
<1>1. sup \in supState /\ StageInv(k)  BY Here
<1>2. pc \in {"idle", "wake", "pass"} \cup Stages /\ pc # "idle"  BY DEF Stages
<1>3. /\ sup' \in supState /\ sup'.pc = pc /\ sup'.kind = k /\ sup'.todo = sup.todo
      /\ sup'.allowed = sup.allowed /\ (pc \in Stages => sup'.seen = sup.seen)
  BY <1>1, <1>2, StageFields
<1>4. k \notin sup.todo  BY <1>1 DEF StageInv
<1> QED  BY <1>3, <1>4

\* The top of the loop: apply() retires a generation only when discovery saw
\* it removed, or saw a younger one, and either means it is gone.
LEMMA ObserveStep ==
  ASSUME SupervisorInv, NEW k \in Kinds, Observe(k)
  PROVE  SupervisorInv'
<1>1. /\ TypeOK /\ KindOK(k) /\ sup \in supState /\ runner \in [Kinds -> watchRunner]
      /\ health \in [Kinds -> WatchStatus] /\ lagReported \in [Kinds -> Nat]
      /\ life[k] \in kindLife /\ life[k].uid \in Nat /\ worker[k].uid \in Nat /\ top[k] \in Nat
      /\ obs[k] \in crdObservation /\ obs[k].uid \in Nat /\ boot[k] \in Nat /\ KindInv(k)
  BY Here DEF TypeOK, DiscoveryInv
<1>2. sup.pc = "pass" /\ k \in sup.todo /\ UNCHANGED <<dvars, desired, cfgKick, life, activated, tracked,
        pendingStart, absent, callback, bomVars, spent>>
  BY DEF Observe
<1>3. UNCHANGED <<crd, top, boot, worker, obs, kick>>  BY <1>2 DEF dvars
<1>4. PICK o, pc : /\ sup' = [sup EXCEPT !.kind = k, !.todo = sup.todo \ {k}, !.seen = o, !.pc = pc]
                   /\ o = IF obs[k].state = "Unknown" /\ life[k].state = "Unknown"
                          THEN NoObservation ELSE obs[k]
                   /\ pc = IF obs[k].state = "Unknown" /\ life[k].state = "Unknown" THEN "pass"
                           ELSE IF Retires(obs[k], life[k]) THEN "retire" ELSE "adopt"
  BY DEF Observe
<1>5. NoObservation \in crdObservation  BY Members DEF NoObservation, crdObservation
<1>6. /\ sup' \in supState /\ sup'.kind = k /\ sup'.todo = sup.todo \ {k}
      /\ sup'.seen = o /\ sup'.pc = pc /\ sup'.allowed = sup.allowed
  <2>1. o \in crdObservation /\ pc \in {"pass", "retire", "adopt"} /\ sup.todo \ {k} \subseteq Kinds
    BY <1>1, <1>4, <1>5, SupFields
  <2> QED  BY <1>1, <1>4, <2>1 DEF supState
<1>7. /\ runner' \in [Kinds -> watchRunner]
      /\ \A j \in Kinds : runner'[j].pc = runner[j].pc /\ runner'[j].synced = runner[j].synced
      /\ \A j \in Kinds \ {k} : runner'[j] = runner[j]
      /\ ~Retires(obs[k], life[k]) => runner' = runner
      /\ ~Running(k) => runner'[k] = runner[k]
  <2>1. CASE Retires(obs[k], life[k])
    <3>1. Cancel(k)  BY <2>1 DEF Observe
    <3> QED  BY <1>1, <2>1, <3>1, CancelFacts
  <2>2. CASE ~Retires(obs[k], life[k])
    <3>1. runner' = runner  BY <2>2 DEF Observe
    <3> QED  BY <1>1, <2>2, <3>1
  <2> QED  BY <2>1, <2>2
<1>8. /\ health' \in [Kinds -> WatchStatus] /\ lagReported' \in [Kinds -> Nat]
      /\ health'[k].healthy => health[k].healthy
      /\ \A j \in Kinds \ {k} : health'[j] = health[j]
  <2>1. PICK h, n : h = MarkUnhealthy(Register(health[k])) /\ n = obs[k].lagSeq  OBVIOUS
  <2>2. h \in WatchStatus /\ ~h.healthy /\ n \in Nat  BY <1>1, <2>1, Statuses, ObservationFields
  <2>3. /\ health' = health \/ health' = [health EXCEPT ![k] = h]
        /\ lagReported' = lagReported \/ lagReported' = [lagReported EXCEPT ![k] = n]
    BY <2>1 DEF Observe
  <2> QED  BY <1>1, <2>2, <2>3
<1>9. TypeOK'
  BY <1>1, <1>2, <1>6, <1>7, <1>8 DEF TypeOK, DiscoveryTypeOK, dvars, bomVars
<1>10. pc \in {"pass", "retire", "adopt"} /\ "retire" \in Stages /\ "adopt" \in Stages /\ "pass" \notin Stages
  BY <1>4 DEF Stages
<1>11. ApplyFrame(k)
  BY <1>2, <1>6, <1>7, <1>8, <1>10 DEF ApplyFrame
<1>12. /\ ~(sup.pc \in Stages) /\ \A S \in SUBSET Stages : ~At(k, S)
  BY <1>2, <1>10 DEF At
<1>13. /\ LifeInv(k) /\ RunnerInv(k) /\ HealthInv(k) /\ ServeInv(k)  BY <1>1 DEF KindOK
<1>14. /\ ~runner[k].cancelled /\ (Running(k) => life[k].state = "Ready")
       /\ (k \in tracked <=> Present(life[k])) /\ (k \in pendingStart => Running(k))
  BY <1>2, <1>13 DEF LifeInv, RunnerInv, HealthInv, At
<1>15. LifeInv(k)'
  BY <1>2, <1>3, <1>4, <1>6, <1>10, <1>13, <1>14 DEF LifeInv, At, Present
<1>16. RunnerInv(k)'
  BY <1>2, <1>4, <1>6, <1>7, <1>10, <1>13, <1>14 DEF RunnerInv, Running, At
<1>17. HealthInv(k)'
  BY <1>2, <1>3, <1>4, <1>6, <1>7, <1>8, <1>10, <1>13, <1>14 DEF HealthInv, Running, At, Present
<1>18. ObserveInv(k)'
  <2>1. CASE pc = "pass"
    <3>1. obs[k].state = "Unknown"  BY <1>4, <2>1
    <3>2. Acted(obs[k], life[k])'  BY <1>2, <1>3, <3>1 DEF Acted
    <3> QED  BY <1>6, <2>1, <3>2 DEF ObserveInv, At
  <2>2. CASE pc # "pass"
    <3>1. o = obs[k]  BY <1>4, <2>2
    <3> QED  BY <1>3, <1>6, <1>10, <2>2, <3>1 DEF ObserveInv, At
  <2> QED  BY <2>1, <2>2
<1>19. ServeInv(k)'
  <2>1. CASE pc = "pass"
    <3>1. life[k].state = "Unknown" /\ ~Running(k)  BY <1>4, <1>14, <2>1
    <3> QED  BY <1>2, <1>6, <1>7, <2>1, <3>1 DEF ServeInv, Running
  <2>2. CASE pc # "pass"  BY <1>6, <1>10, <2>2 DEF ServeInv, At
  <2> QED  BY <2>1, <2>2
<1>20. StageInv(k)'
  <2>1. /\ worker[k].state = "Unknown" <=> worker[k].uid = 0
        /\ obs[k].state = worker[k].state /\ obs[k].uid = worker[k].uid
        /\ worker[k].uid # 0 => worker[k].uid <= top[k]
        /\ crd[k].uid \in {0, top[k]}
        /\ worker[k].state = "Removed" => Gone(crd[k], worker[k].uid)
        /\ obs[k].late => obs[k].uid > boot[k]
    BY <1>1 DEF KindInv, ServerInv, MemoryInv, AbsenceInv, Issued
  <2>2. pc = "retire" => Present(life[k]) /\ Gone(crd[k], life[k].uid)
    <3>1. SUFFICES ASSUME pc = "retire"  PROVE Present(life[k]) /\ Gone(crd[k], life[k].uid)
      OBVIOUS
    <3>2. Retires(obs[k], life[k]) /\ Present(life[k])  BY <1>4, <3>1 DEF Retires
    <3>3. life[k].uid # 0 /\ life[k].uid <= worker[k].uid  BY <1>13, <3>2 DEF LifeInv
    <3>4. CASE obs[k].state = "Removed" /\ obs[k].uid = life[k].uid  BY <2>1, <3>2, <3>4
    <3>5. CASE obs[k].state = "Ready" /\ obs[k].uid # life[k].uid
      <4>1. crd[k].uid # life[k].uid  BY <1>1, <2>1, <3>3, <3>5
      <4> QED  BY <3>2, <4>1, GoneDef
    <3> QED  BY <3>2, <3>4, <3>5 DEF Retires
  <2>3. pc = "adopt" => ~Retires(o, life[k])  BY <1>4
  <2>4. pc \in Stages => o = obs[k]  BY <1>4, <1>10
  <2>5. pc \notin {"retireSweep", "retired", "exclude", "sweep", "unserve"}  BY <1>10
  <2>6. pc \in {"retire", "retireSweep", "retired"} => pc = "retire"  BY <1>10
  <2> QED
    BY <1>1, <1>2, <1>3, <1>6, <2>1, <2>2, <2>3, <2>4, <2>5, <2>6 DEF StageInv, Present, Retires
<1>21. KindOK(k)'  BY <1>15, <1>16, <1>17, <1>18, <1>19 DEF KindOK
<1> QED  BY <1>9, <1>11, <1>20, <1>21, ApplyKept

\* disable marks the kind and goes on to the sweep, or past it.
LEMMA DisableFacts ==
  ASSUME health \in [Kinds -> WatchStatus], NEW k \in Kinds, NEW r \in DisabledReason,
         NEW p, NEW q, disable(k, r, p, q)
  PROVE  /\ health' \in [Kinds -> WatchStatus] /\ ~health'[k].healthy
         /\ \A j \in Kinds \ {k} : health'[j] = health[j]
         /\ Stage(p) \/ Stage(q)
<1>1. PICK h : h = MarkDisabled(health[k], r)  OBVIOUS
<1>2. h \in WatchStatus /\ ~h.healthy  BY <1>1, Statuses
<1>3. health' = [health EXCEPT ![k] = h]  BY <1>1 DEF disable
<1>4. Stage(p) \/ Stage(q)  BY DEF disable
<1> QED  BY <1>2, <1>3, <1>4

\* retire: the runner has returned, the kind leaves TrackedKinds.
LEMMA RetireStep ==
  ASSUME SupervisorInv, NEW k \in Kinds, Retire(k)
  PROVE  SupervisorInv'
<1>1. /\ TypeOK /\ KindOK(k) /\ sup \in supState /\ runner \in [Kinds -> watchRunner]
      /\ health \in [Kinds -> WatchStatus] /\ pendingStart \subseteq Kinds /\ tracked \subseteq Kinds
  BY Here DEF TypeOK
<1>2. /\ sup.pc = "retire" /\ sup.kind = k /\ Stopped(k) /\ tracked' = tracked \ {k}
      /\ disable(k, "crd-removed", "retireSweep", "retired")
      /\ UNCHANGED <<dvars, desired, cfgKick, life, activated, lagReported,
                     absent, callback, bomVars, spent>>
  BY DEF Retire
<1>3. UNCHANGED <<crd, top, boot, worker, obs, kick>>  BY <1>2 DEF dvars
<1>4. /\ health' \in [Kinds -> WatchStatus] /\ ~health'[k].healthy
      /\ \A j \in Kinds \ {k} : health'[j] = health[j]
      /\ Stage("retireSweep") \/ Stage("retired")
  BY <1>1, <1>2, DisableFacts DEF DisabledReason
<1>5. PICK pc \in {"retireSweep", "retired"} : Stage(pc)  BY <1>4
<1>6. pc \in Stages /\ sup.pc \in Stages /\ StageInv(k)  BY <1>2, <1>5, Here DEF Stages
<1>7. /\ sup' \in supState /\ sup'.pc = pc /\ sup'.kind = k /\ sup'.todo = sup.todo
      /\ sup'.allowed = sup.allowed /\ sup'.seen = sup.seen /\ k \notin sup.todo
  BY <1>2, <1>5, <1>6, StageAt
<1>8. /\ runner' \in [Kinds -> watchRunner]
      /\ runner'[k] = NoRunner /\ \A j \in Kinds \ {k} : runner'[j] = runner[j]
      /\ pendingStart' \subseteq Kinds
      /\ \A j \in Kinds \ {k} : j \in pendingStart' <=> j \in pendingStart
      /\ k \in pendingStart' => k \in pendingStart /\ ~Running(k)
  BY <1>1, <1>2, StoppedFacts
<1>9. TypeOK'
  BY <1>1, <1>2, <1>4, <1>7, <1>8 DEF TypeOK, DiscoveryTypeOK, dvars, bomVars
<1>10. ApplyFrame(k)  BY <1>2, <1>4, <1>6, <1>7, <1>8 DEF ApplyFrame
<1>11. LifeInv(k) /\ HealthInv(k) /\ ObserveInv(k)  BY <1>1 DEF KindOK
<1>12. k \notin pendingStart'  BY <1>2, <1>8, <1>11 DEF HealthInv, At
<1>13. LifeInv(k)'  BY <1>2, <1>3, <1>5, <1>7, <1>11 DEF LifeInv, At, Present
<1>14. RunnerInv(k)'  BY <1>8, RunnerFields DEF RunnerInv, Running
<1>15. HealthInv(k)'  BY <1>4, <1>12 DEF HealthInv
<1>16. ObserveInv(k)'  BY <1>2, <1>3, <1>5, <1>7, <1>11 DEF ObserveInv, ToCome, At, Acted
<1>17. ServeInv(k)'  BY <1>5, <1>6, <1>7 DEF ServeInv, At
<1>18. StageInv(k)'  BY <1>2, <1>3, <1>5, <1>6, <1>7 DEF StageInv, Present, Retires
<1> QED  BY <1>9, <1>10, <1>13, <1>14, <1>15, <1>16, <1>17, <1>18, ApplyKept DEF KindOK

\* The generation is forgotten; its AIBOMs have been swept.
LEMMA FinishRetireStep ==
  ASSUME SupervisorInv, NEW k \in Kinds, FinishRetire(k)
  PROVE  SupervisorInv'
<1>1. /\ TypeOK /\ KindOK(k) /\ sup \in supState /\ life \in [Kinds -> kindLife]
      /\ activated \subseteq Kinds
  BY Here DEF TypeOK
<1>2. /\ sup.pc = "retired" /\ sup.kind = k /\ activated' = activated \ {k} /\ Stage("adopt")
      /\ UNCHANGED <<dvars, desired, cfgKick, tracked, lagReported, pendingStart, health,
                     runVars, bomVars, spent>>
  BY DEF FinishRetire
<1>3. PICK l : l = [state |-> "Removed", uid |-> 0]  OBVIOUS
<1>4. l \in kindLife /\ l.state = "Removed" /\ l.uid = 0 /\ ~Present(l)
  BY <1>3, Members, LifeFields DEF Present
<1>5. life' = [life EXCEPT ![k] = l]  BY <1>3 DEF FinishRetire
<1>6. life' \in [Kinds -> kindLife] /\ life'[k] = l /\ \A j \in Kinds \ {k} : life'[j] = life[j]
  BY <1>1, <1>4, <1>5
<1>7. UNCHANGED <<crd, top, boot, worker, obs, kick, runner>>  BY <1>2 DEF dvars, runVars
<1>8. "adopt" \in Stages /\ sup.pc \in Stages /\ StageInv(k)  BY <1>2, Here DEF Stages
<1>9. /\ sup' \in supState /\ sup'.pc = "adopt" /\ sup'.kind = k /\ sup'.todo = sup.todo
      /\ sup'.allowed = sup.allowed /\ sup'.seen = sup.seen /\ k \notin sup.todo
  BY <1>2, <1>8, StageAt
<1>10. TypeOK'
  BY <1>1, <1>2, <1>6, <1>9 DEF TypeOK, DiscoveryTypeOK, dvars, runVars, bomVars
<1>11. ApplyFrame(k)  BY <1>2, <1>6, <1>7, <1>8, <1>9 DEF ApplyFrame
<1>12. LifeInv(k) /\ RunnerInv(k) /\ HealthInv(k) /\ ObserveInv(k)  BY <1>1 DEF KindOK
<1>13. /\ ~Running(k) /\ ~health[k].healthy /\ k \notin pendingStart /\ k \notin tracked
  BY <1>2, <1>12 DEF LifeInv, RunnerInv, HealthInv, At
<1>14. LifeInv(k)'  BY <1>2, <1>4, <1>6, <1>13 DEF LifeInv
<1>15. RunnerInv(k)'  BY <1>2, <1>7, <1>12, <1>13 DEF RunnerInv, Running, At
<1>16. HealthInv(k)'  BY <1>2, <1>13 DEF HealthInv
<1>17. ObserveInv(k)'  BY <1>2, <1>7, <1>9, <1>12 DEF ObserveInv, ToCome, At
<1>18. ServeInv(k)'  BY <1>8, <1>9 DEF ServeInv, At
<1>19. StageInv(k)'  BY <1>2, <1>4, <1>6, <1>7, <1>8, <1>9 DEF StageInv, Retires
<1> QED  BY <1>10, <1>11, <1>14, <1>15, <1>16, <1>17, <1>18, <1>19, ApplyKept DEF KindOK

\* sweepAIBOMs runs without a runner of the kind.
LEMMA SweepStep ==
  ASSUME SupervisorInv, NEW k \in Kinds, Sweep(k)
  PROVE  SupervisorInv'
<1>1. TypeOK /\ KindOK(k) /\ sup \in supState /\ aibom \subseteq Kinds  BY Here DEF TypeOK
<1>2. /\ sup.pc \in {"retireSweep", "sweep"} /\ sup.kind = k
      /\ UNCHANGED <<dvars, desired, cfgKick, lifeVars, pendingStart, health, runVars, cached, inflight>>
  BY DEF Sweep
<1>3. PICK pc : pc = (IF sup.pc = "sweep" THEN "pass" ELSE "retired") /\ Stage(pc)  BY DEF Sweep
<1>4. UNCHANGED <<crd, top, boot, worker, obs, kick, life, activated, lagReported, tracked,
                  runner, absent, callback>>
  BY <1>2 DEF dvars, lifeVars, runVars
<1>5. pc \in {"pass"} \cup Stages /\ sup.pc \in Stages /\ StageInv(k)  BY <1>2, <1>3, Here DEF Stages
<1>6. /\ sup' \in supState /\ sup'.pc = pc /\ sup'.kind = k /\ sup'.todo = sup.todo
      /\ sup'.allowed = sup.allowed /\ (pc \in Stages => sup'.seen = sup.seen) /\ k \notin sup.todo
  BY <1>2, <1>3, <1>5, StageAt
<1>7. aibom' \subseteq Kinds /\ spent' \in [flips : Nat, faults : Nat, writes : Nat]
  BY <1>1 DEF Sweep, Fault, TypeOK
<1>8. TypeOK'
  BY <1>1, <1>2, <1>4, <1>6, <1>7 DEF TypeOK, DiscoveryTypeOK, dvars
<1>9. ApplyFrame(k)  BY <1>2, <1>4, <1>5, <1>6 DEF ApplyFrame
<1>10. LifeInv(k) /\ RunnerInv(k) /\ HealthInv(k) /\ ObserveInv(k)  BY <1>1 DEF KindOK
<1>11. ~Running(k) /\ k \notin pendingStart  BY <1>2, <1>10 DEF RunnerInv, HealthInv, At
<1>12. CASE sup.pc = "sweep"
  <2>1. pc = "pass" /\ "pass" \notin Stages  BY <1>3, <1>12 DEF Stages
  <2>2. LifeInv(k)'  BY <1>4, <1>6, <1>10, <1>12, <2>1 DEF LifeInv, At, Present
  <2>3. RunnerInv(k)'  BY <1>4, <1>10, <1>11, <1>12, <1>2 DEF RunnerInv, Running, At
  <2>4. HealthInv(k)'  BY <1>2, <1>4, <1>6, <1>10, <1>11, <1>12, <2>1 DEF HealthInv, At, Present
  <2>5. ObserveInv(k)'  BY <1>2, <1>4, <1>6, <1>10, <1>12, <2>1 DEF ObserveInv, ToCome, At, Acted
  <2>6. ServeInv(k)'  BY <1>4, <1>5, <1>6, <1>11, <1>12, <2>1 DEF ServeInv, StageInv, Running, Allowed
  <2>7. StageInv(k)'  BY <1>6, <2>1 DEF StageInv
  <2> QED  BY <1>8, <1>9, <2>2, <2>3, <2>4, <2>5, <2>6, <2>7, ApplyKept DEF KindOK
<1>13. CASE sup.pc = "retireSweep"
  <2>1. pc = "retired" /\ pc \in Stages  BY <1>3, <1>13 DEF Stages
  <2>2. LifeInv(k)'  BY <1>2, <1>4, <1>6, <1>10, <1>13, <2>1 DEF LifeInv, At, Present
  <2>3. RunnerInv(k)'  BY <1>4, <1>10, <1>11, <1>13, <1>2 DEF RunnerInv, Running, At
  <2>4. HealthInv(k)'  BY <1>2, <1>4, <1>6, <1>10, <1>11, <1>13, <2>1 DEF HealthInv, At, Present
  <2>5. ObserveInv(k)'  BY <1>2, <1>4, <1>6, <1>10, <1>13, <2>1 DEF ObserveInv, ToCome, At, Acted
  <2>6. ServeInv(k)'  BY <1>6, <2>1 DEF ServeInv, At
  <2>7. StageInv(k)'  BY <1>2, <1>4, <1>5, <1>6, <1>13, <2>1 DEF StageInv, Present
  <2> QED  BY <1>8, <1>9, <2>2, <2>3, <2>4, <2>5, <2>6, <2>7, ApplyKept DEF KindOK
<1> QED  BY <1>2, <1>12, <1>13

\* activate: a generation newly Ready.  The kind was not activated, was not
\* healthy and has no runner, so it starts from nothing.
LEMMA AdoptReadyStep ==
  ASSUME SupervisorInv, NEW k \in Kinds, AdoptReady(k)
  PROVE  SupervisorInv'
<1>1. /\ TypeOK /\ KindOK(k) /\ sup \in supState /\ life \in [Kinds -> kindLife]
      /\ activated \subseteq Kinds /\ tracked \subseteq Kinds /\ pendingStart \subseteq Kinds
      /\ health \in [Kinds -> WatchStatus] /\ sup.seen.uid \in Nat /\ health[k] \in WatchStatus
      /\ worker[k].uid \in Nat /\ boot[k] \in Nat
  BY Here DEF TypeOK
<1>2. /\ sup.pc = "adopt" /\ sup.kind = k /\ sup.seen.state = "Ready" /\ ~Present(life[k]) /\ Stage("allow")
      /\ UNCHANGED <<dvars, desired, cfgKick, lagReported, runVars, bomVars, spent>>
  BY DEF AdoptReady
<1>3. LifeInv(k) /\ RunnerInv(k) /\ HealthInv(k) /\ ObserveInv(k)  BY <1>1 DEF KindOK
<1>4. /\ k \notin activated /\ k \notin tracked /\ ~health[k].healthy /\ ~Running(k) /\ k \notin pendingStart
  BY <1>2, <1>3 DEF LifeInv, RunnerInv, HealthInv, At, Present
<1>5. PICK l, h : l = [state |-> "Ready", uid |-> sup.seen.uid] /\ h = Register(health[k])  OBVIOUS
<1>6. /\ l \in kindLife /\ l.state = "Ready" /\ l.uid = sup.seen.uid /\ Present(l)
      /\ h \in WatchStatus /\ ~h.healthy
  BY <1>1, <1>4, <1>5, Members, LifeFields, Statuses DEF Present
<1>7. /\ life' = [life EXCEPT ![k] = l] /\ health' = [health EXCEPT ![k] = h]
      /\ activated' = activated \cup {k} /\ tracked' = tracked \cup {k}
      /\ pendingStart' = IF Allowed(k) /\ sup.seen.late THEN pendingStart \cup {k} ELSE pendingStart
  BY <1>4, <1>5 DEF AdoptReady
<1>8. /\ life' \in [Kinds -> kindLife] /\ life'[k] = l /\ health' \in [Kinds -> WatchStatus]
      /\ health'[k] = h /\ pendingStart' \subseteq Kinds
      /\ \A j \in Kinds \ {k} : life'[j] = life[j] /\ health'[j] = health[j]
                                /\ (j \in pendingStart' <=> j \in pendingStart)
  BY <1>1, <1>6, <1>7
<1>9. UNCHANGED <<crd, top, boot, worker, obs, kick, runner>>  BY <1>2 DEF dvars, runVars
<1>10. "allow" \in Stages /\ sup.pc \in Stages /\ StageInv(k)  BY <1>2, Here DEF Stages
<1>11. /\ sup' \in supState /\ sup'.pc = "allow" /\ sup'.kind = k /\ sup'.todo = sup.todo
       /\ sup'.allowed = sup.allowed /\ sup'.seen = sup.seen /\ k \notin sup.todo
  BY <1>2, <1>10, StageAt
<1>12. TypeOK'
  BY <1>1, <1>2, <1>7, <1>8, <1>11 DEF TypeOK, DiscoveryTypeOK, dvars, runVars, bomVars
<1>13. ApplyFrame(k)  BY <1>2, <1>7, <1>8, <1>9, <1>10, <1>11 DEF ApplyFrame
<1>14. LifeInv(k)'
  BY <1>1, <1>2, <1>6, <1>7, <1>8, <1>9, <1>10, <1>11 DEF LifeInv, StageInv, At
<1>15. RunnerInv(k)'  BY <1>3, <1>4, <1>9, <1>2 DEF RunnerInv, Running, At
<1>16. HealthInv(k)'
  BY <1>3, <1>4, <1>6, <1>7, <1>8, <1>9, <1>10, <1>11 DEF HealthInv, RunnerInv, StageInv, Running, Allowed, At
<1>17. ObserveInv(k)'
  BY <1>2, <1>3, <1>5, <1>8, <1>9, <1>11 DEF ObserveInv, ToCome, At, Acted
<1>18. ServeInv(k)'  BY <1>10, <1>11 DEF ServeInv, At
<1>19. StageInv(k)'  BY <1>2, <1>9, <1>10, <1>11 DEF StageInv
<1> QED  BY <1>12, <1>13, <1>14, <1>15, <1>16, <1>17, <1>18, <1>19, ApplyKept DEF KindOK

\* The same generation is Ready again.
LEMMA AdoptRecoveredStep ==
  ASSUME SupervisorInv, NEW k \in Kinds, AdoptRecovered(k)
  PROVE  SupervisorInv'
<1>1. /\ TypeOK /\ KindOK(k) /\ sup \in supState /\ life \in [Kinds -> kindLife] /\ life[k] \in kindLife
      /\ sup.seen.uid \in Nat /\ life[k].uid \in Nat
  BY Here DEF TypeOK
<1>2. /\ sup.pc = "adopt" /\ sup.kind = k /\ sup.seen.state = "Ready" /\ life[k].state = "Unservable"
      /\ Stage("allow")
      /\ UNCHANGED <<dvars, desired, cfgKick, activated, tracked, lagReported, pendingStart,
                     health, runVars, bomVars, spent>>
  BY DEF AdoptRecovered
<1>3. LifeInv(k) /\ RunnerInv(k) /\ HealthInv(k) /\ ObserveInv(k)  BY <1>1 DEF KindOK
<1>4. PICK l : l = [life[k] EXCEPT !.state = "Ready"]  OBVIOUS
<1>5. l \in kindLife /\ l.state = "Ready" /\ l.uid = life[k].uid /\ Present(l) /\ Present(life[k])
  BY <1>1, <1>2, <1>4, Members, LifeFields DEF Present
<1>6. life' = [life EXCEPT ![k] = l]  BY <1>4 DEF AdoptRecovered
<1>7. life' \in [Kinds -> kindLife] /\ life'[k] = l /\ \A j \in Kinds \ {k} : life'[j] = life[j]
  BY <1>1, <1>5, <1>6
<1>8. UNCHANGED <<crd, top, boot, worker, obs, kick, runner>>  BY <1>2 DEF dvars, runVars
<1>9. "allow" \in Stages /\ sup.pc \in Stages /\ StageInv(k)  BY <1>2, Here DEF Stages
<1>10. /\ sup' \in supState /\ sup'.pc = "allow" /\ sup'.kind = k /\ sup'.todo = sup.todo
       /\ sup'.allowed = sup.allowed /\ sup'.seen = sup.seen /\ k \notin sup.todo
  BY <1>2, <1>9, StageAt
<1>11. TypeOK'
  BY <1>1, <1>2, <1>7, <1>10 DEF TypeOK, DiscoveryTypeOK, dvars, runVars, bomVars
<1>12. ApplyFrame(k)  BY <1>2, <1>7, <1>8, <1>9, <1>10 DEF ApplyFrame
<1>13. ~Running(k) /\ k \notin pendingStart  BY <1>2, <1>3 DEF RunnerInv, HealthInv, At
<1>14. LifeInv(k)'  BY <1>2, <1>3, <1>5, <1>7, <1>8, <1>10 DEF LifeInv, At
<1>15. RunnerInv(k)'  BY <1>2, <1>3, <1>8, <1>13 DEF RunnerInv, Running, At
<1>16. HealthInv(k)'  BY <1>2, <1>5, <1>7, <1>10, <1>13 DEF HealthInv, At
<1>17. ObserveInv(k)'
  <2>1. sup.seen.uid = life[k].uid  BY <1>2, <1>5, <1>9 DEF StageInv, Retires
  <2>2. life'[k] = [state |-> "Ready", uid |-> sup.seen.uid]
    BY <1>1, <1>5, <1>7, <2>1, LifeIs
  <2> QED  BY <1>2, <1>3, <1>8, <1>10, <2>2 DEF ObserveInv, ToCome, At, Acted
<1>18. ServeInv(k)'  BY <1>9, <1>10 DEF ServeInv, At
<1>19. StageInv(k)'  BY <1>2, <1>8, <1>9, <1>10 DEF StageInv
<1> QED  BY <1>11, <1>12, <1>14, <1>15, <1>16, <1>17, <1>18, <1>19, ApplyKept DEF KindOK

\* The generation is no longer Ready: its runner is told to stop.
LEMMA AdoptUnservableStep ==
  ASSUME SupervisorInv, NEW k \in Kinds, AdoptUnservable(k)
  PROVE  SupervisorInv'
<1>1. /\ TypeOK /\ KindOK(k) /\ sup \in supState /\ life \in [Kinds -> kindLife] /\ life[k] \in kindLife
      /\ runner \in [Kinds -> watchRunner] /\ sup.seen.uid \in Nat /\ life[k].uid \in Nat
  BY Here DEF TypeOK
<1>2. /\ sup.pc = "adopt" /\ sup.kind = k /\ sup.seen.state = "Unservable" /\ life[k].state = "Ready"
      /\ sup.seen.uid = life[k].uid /\ Cancel(k) /\ Stage("unserve")
      /\ UNCHANGED <<dvars, desired, cfgKick, activated, tracked, lagReported, pendingStart,
                     health, absent, callback, bomVars, spent>>
  BY DEF AdoptUnservable, BecomesUnservable
<1>3. LifeInv(k) /\ RunnerInv(k) /\ HealthInv(k) /\ ObserveInv(k)  BY <1>1 DEF KindOK
<1>4. PICK l : l = [life[k] EXCEPT !.state = "Unservable"]  OBVIOUS
<1>5. l \in kindLife /\ l.state = "Unservable" /\ l.uid = life[k].uid /\ Present(l) /\ Present(life[k])
  BY <1>1, <1>2, <1>4, Members, LifeFields DEF Present
<1>6. life' = [life EXCEPT ![k] = l]  BY <1>4 DEF AdoptUnservable
<1>7. life' \in [Kinds -> kindLife] /\ life'[k] = l /\ \A j \in Kinds \ {k} : life'[j] = life[j]
  BY <1>1, <1>5, <1>6
<1>8. UNCHANGED <<crd, top, boot, worker, obs, kick>>  BY <1>2 DEF dvars
<1>9. /\ runner' \in [Kinds -> watchRunner]
      /\ runner'[k].pc = runner[k].pc /\ runner'[k].synced = runner[k].synced
      /\ \A j \in Kinds \ {k} : runner'[j] = runner[j]
      /\ ~Running(k) => runner'[k] = runner[k]
  BY <1>1, <1>2, CancelFacts
<1>10. "unserve" \in Stages /\ sup.pc \in Stages /\ StageInv(k)  BY <1>2, Here DEF Stages
<1>11. /\ sup' \in supState /\ sup'.pc = "unserve" /\ sup'.kind = k /\ sup'.todo = sup.todo
       /\ sup'.allowed = sup.allowed /\ sup'.seen = sup.seen /\ k \notin sup.todo
  BY <1>2, <1>10, StageAt
<1>12. TypeOK'
  BY <1>1, <1>2, <1>7, <1>9, <1>11 DEF TypeOK, DiscoveryTypeOK, dvars, bomVars
<1>13. ApplyFrame(k)  BY <1>2, <1>7, <1>9, <1>10, <1>11 DEF ApplyFrame
<1>14. LifeInv(k)'  BY <1>2, <1>3, <1>5, <1>7, <1>8, <1>11 DEF LifeInv, At
<1>15. RunnerInv(k)'  BY <1>3, <1>9, <1>11 DEF RunnerInv, Running, At
<1>16. HealthInv(k)'
  BY <1>2, <1>3, <1>5, <1>7, <1>8, <1>9, <1>11 DEF HealthInv, Running, At
<1>17. ObserveInv(k)'
  BY <1>2, <1>3, <1>5, <1>7, <1>8, <1>11 DEF ObserveInv, ToCome, At, Acted
<1>18. ServeInv(k)'  BY <1>10, <1>11 DEF ServeInv, At
<1>19. StageInv(k)'  BY <1>2, <1>5, <1>7, <1>8, <1>10, <1>11 DEF StageInv
<1> QED  BY <1>12, <1>13, <1>14, <1>15, <1>16, <1>17, <1>18, <1>19, ApplyKept DEF KindOK

\* Nothing to adopt: the observation has been acted on already.
LEMMA AdoptNothingStep ==
  ASSUME SupervisorInv, NEW k \in Kinds, AdoptNothing(k)
  PROVE  SupervisorInv'
<1>1. /\ TypeOK /\ KindOK(k) /\ sup \in supState /\ life[k] \in kindLife /\ life[k].state \in crdState
      /\ sup.seen.uid \in Nat /\ life[k].uid \in Nat
  BY Here DEF TypeOK
<1>2. /\ sup.pc = "adopt" /\ sup.kind = k /\ Stage("allow")
      /\ ~(sup.seen.state = "Ready" /\ life[k].state # "Ready")
      /\ ~(sup.seen.state = "Unservable" /\ life[k].state = "Ready" /\ sup.seen.uid = life[k].uid)
      /\ UNCHANGED <<dvars, desired, cfgKick, lifeVars, pendingStart, health, runVars, bomVars, spent>>
  BY DEF AdoptNothing, BecomesUnservable
<1>3. LifeInv(k) /\ RunnerInv(k) /\ HealthInv(k) /\ ObserveInv(k)  BY <1>1 DEF KindOK
<1>4. UNCHANGED <<crd, top, boot, worker, obs, kick, runner, life, activated, tracked, lagReported>>
  BY <1>2 DEF dvars, runVars, lifeVars
<1>5. "allow" \in Stages /\ sup.pc \in Stages /\ StageInv(k)  BY <1>2, Here DEF Stages
<1>6. /\ sup' \in supState /\ sup'.pc = "allow" /\ sup'.kind = k /\ sup'.todo = sup.todo
      /\ sup'.allowed = sup.allowed /\ sup'.seen = sup.seen /\ k \notin sup.todo
  BY <1>2, <1>5, StageAt
<1>7. TypeOK'
  BY <1>1, <1>2, <1>4, <1>6 DEF TypeOK, DiscoveryTypeOK, dvars, runVars, bomVars
<1>8. ApplyFrame(k)  BY <1>2, <1>4, <1>5, <1>6 DEF ApplyFrame
<1>9. LifeInv(k)'  BY <1>2, <1>3, <1>4, <1>6 DEF LifeInv, At, Present
<1>10. RunnerInv(k)'  BY <1>2, <1>3, <1>4, <1>6 DEF RunnerInv, Running, At
<1>11. HealthInv(k)'  BY <1>2, <1>3, <1>4, <1>6 DEF HealthInv, Running, At, Present
<1>12. ObserveInv(k)'
  <2>1. sup.seen.state = "Ready" => life[k] = [state |-> "Ready", uid |-> sup.seen.uid]
    <3>1. SUFFICES ASSUME sup.seen.state = "Ready" PROVE life[k] = [state |-> "Ready", uid |-> sup.seen.uid]
      OBVIOUS
    <3>2. life[k].state = "Ready"  BY <1>2, <3>1
    <3>3. life[k].uid = sup.seen.uid  BY <1>2, <1>5, <3>1, <3>2 DEF StageInv, Retires, Present
    <3> QED  BY <1>1, <3>2, <3>3, LifeIs
  <2>2. sup.seen.state = "Unservable" /\ sup.seen.uid = life[k].uid => life[k].state = "Unservable"
    BY <1>2, <1>3, <1>5 DEF StageInv, LifeInv, Present
  <2> QED  BY <1>2, <1>3, <1>4, <1>6, <2>1, <2>2 DEF ObserveInv, ToCome, At, Acted
<1>13. ServeInv(k)'  BY <1>5, <1>6 DEF ServeInv, At
<1>14. StageInv(k)'  BY <1>2, <1>4, <1>5, <1>6 DEF StageInv
<1> QED  BY <1>7, <1>8, <1>9, <1>10, <1>11, <1>12, <1>13, <1>14, ApplyKept DEF KindOK

\* The runner of an Unservable generation has returned.
LEMMA UnserveStep ==
  ASSUME SupervisorInv, NEW k \in Kinds, Unserve(k)
  PROVE  SupervisorInv'
<1>1. /\ TypeOK /\ KindOK(k) /\ sup \in supState /\ runner \in [Kinds -> watchRunner]
      /\ health \in [Kinds -> WatchStatus] /\ health[k] \in WatchStatus /\ pendingStart \subseteq Kinds
  BY Here DEF TypeOK
<1>2. /\ sup.pc = "unserve" /\ sup.kind = k /\ Stopped(k) /\ Stage("allow")
      /\ UNCHANGED <<dvars, desired, cfgKick, lifeVars, absent, callback, bomVars, spent>>
  BY DEF Unserve
<1>3. LifeInv(k) /\ RunnerInv(k) /\ HealthInv(k) /\ ObserveInv(k)  BY <1>1 DEF KindOK
<1>4. UNCHANGED <<crd, top, boot, worker, obs, kick, life, activated, tracked, lagReported>>
  BY <1>2 DEF dvars, lifeVars
<1>5. /\ health' \in [Kinds -> WatchStatus] /\ (health'[k].healthy => health[k].healthy)
      /\ \A j \in Kinds \ {k} : health'[j] = health[j]
  <2>1. PICK h : h = MarkUnhealthy(health[k])  OBVIOUS
  <2>2. h \in WatchStatus /\ ~h.healthy  BY <1>1, <2>1, Statuses
  <2>3. health' = health \/ health' = [health EXCEPT ![k] = h]  BY <2>1 DEF Unserve
  <2> QED  BY <1>1, <2>2, <2>3
<1>6. "allow" \in Stages /\ sup.pc \in Stages /\ StageInv(k)  BY <1>2, Here DEF Stages
<1>7. /\ sup' \in supState /\ sup'.pc = "allow" /\ sup'.kind = k /\ sup'.todo = sup.todo
      /\ sup'.allowed = sup.allowed /\ sup'.seen = sup.seen /\ k \notin sup.todo
  BY <1>2, <1>6, StageAt
<1>8. /\ runner' \in [Kinds -> watchRunner]
      /\ runner'[k] = NoRunner /\ \A j \in Kinds \ {k} : runner'[j] = runner[j]
      /\ pendingStart' \subseteq Kinds
      /\ \A j \in Kinds \ {k} : j \in pendingStart' <=> j \in pendingStart
      /\ k \in pendingStart' => k \in pendingStart /\ ~Running(k)
  BY <1>1, <1>2, StoppedFacts
<1>9. TypeOK'
  BY <1>1, <1>2, <1>4, <1>5, <1>7, <1>8 DEF TypeOK, DiscoveryTypeOK, dvars, bomVars
<1>10. ApplyFrame(k)  BY <1>2, <1>4, <1>5, <1>6, <1>7, <1>8 DEF ApplyFrame
<1>11. k \notin pendingStart'  BY <1>2, <1>3, <1>8 DEF HealthInv, At
<1>12. LifeInv(k)'  BY <1>2, <1>3, <1>4, <1>7 DEF LifeInv, At, Present
<1>13. RunnerInv(k)'  BY <1>8, RunnerFields DEF RunnerInv, Running
<1>14. HealthInv(k)'  BY <1>2, <1>3, <1>4, <1>5, <1>7, <1>11 DEF HealthInv, At, Present
<1>15. ObserveInv(k)'  BY <1>2, <1>3, <1>4, <1>7 DEF ObserveInv, ToCome, At, Acted
<1>16. ServeInv(k)'  BY <1>6, <1>7 DEF ServeInv, At
<1>17. StageInv(k)'  BY <1>2, <1>4, <1>6, <1>7 DEF StageInv
<1> QED  BY <1>9, <1>10, <1>12, <1>13, <1>14, <1>15, <1>16, <1>17, ApplyKept DEF KindOK

\* applyAllowlist starts the kind's runner: there was none.
LEMMA StartRunnerStep ==
  ASSUME SupervisorInv, NEW k \in Kinds, StartRunner(k)
  PROVE  SupervisorInv'
<1>1. /\ TypeOK /\ KindOK(k) /\ sup \in supState /\ runner \in [Kinds -> watchRunner]
      /\ health \in [Kinds -> WatchStatus] /\ health[k] \in WatchStatus
  BY Here DEF TypeOK
<1>2. /\ sup.pc = "allow" /\ sup.kind = k /\ life[k].state = "Ready" /\ Allowed(k) /\ ~Running(k)
      /\ Stage("pass")
      /\ UNCHANGED <<dvars, desired, cfgKick, lifeVars, pendingStart, absent, callback, bomVars, spent>>
  BY DEF StartRunner
<1>3. LifeInv(k) /\ RunnerInv(k) /\ HealthInv(k) /\ ObserveInv(k)  BY <1>1 DEF KindOK
<1>4. UNCHANGED <<crd, top, boot, worker, obs, kick, life, activated, tracked, lagReported>>
  BY <1>2 DEF dvars, lifeVars
<1>5. PICK h, r : h = MarkStarting(health[k]) /\ r = [NoRunner EXCEPT !.pc = "probe"]  OBVIOUS
<1>6. /\ h \in WatchStatus /\ ~h.healthy
      /\ r \in watchRunner /\ r.pc = "probe" /\ ~r.cancelled /\ ~r.synced
  BY <1>1, <1>5, Statuses, NewRunner
<1>7. health' = [health EXCEPT ![k] = h] /\ runner' = [runner EXCEPT ![k] = r]
  BY <1>5 DEF StartRunner
<1>8. /\ health' \in [Kinds -> WatchStatus] /\ runner' \in [Kinds -> watchRunner]
      /\ health'[k] = h /\ runner'[k] = r
      /\ \A j \in Kinds \ {k} : health'[j] = health[j] /\ runner'[j] = runner[j]
  BY <1>1, <1>6, <1>7
<1>9. "pass" \notin Stages /\ sup.pc \in Stages /\ StageInv(k)  BY <1>2, Here DEF Stages
<1>10. /\ sup' \in supState /\ sup'.pc = "pass" /\ sup'.kind = k /\ sup'.todo = sup.todo
       /\ sup'.allowed = sup.allowed /\ k \notin sup.todo
  BY <1>2, <1>9, StageAt
<1>11. TypeOK'
  BY <1>1, <1>2, <1>4, <1>8, <1>10 DEF TypeOK, DiscoveryTypeOK, dvars, bomVars
<1>12. ApplyFrame(k)  BY <1>2, <1>4, <1>8, <1>9, <1>10 DEF ApplyFrame
<1>13. LifeInv(k)'  BY <1>2, <1>3, <1>4, <1>10 DEF LifeInv, At, Present
<1>14. RunnerInv(k)'  BY <1>2, <1>4, <1>6, <1>8, <1>10 DEF RunnerInv, Running, At
<1>15. HealthInv(k)'  BY <1>2, <1>3, <1>4, <1>6, <1>8 DEF HealthInv, Running
<1>16. ObserveInv(k)'  BY <1>2, <1>3, <1>4, <1>10 DEF ObserveInv, ToCome, At, Acted
<1>17. ServeInv(k)'  BY <1>2, <1>4, <1>6, <1>8, <1>10 DEF ServeInv, Running, Allowed
<1>18. StageInv(k)'  BY <1>9, <1>10 DEF StageInv
<1> QED  BY <1>11, <1>12, <1>13, <1>14, <1>15, <1>16, <1>17, <1>18, ApplyKept DEF KindOK

\* applyAllowlist tells the runner of an excluded kind to stop.
LEMMA StopExcludedStep ==
  ASSUME SupervisorInv, NEW k \in Kinds, StopExcluded(k)
  PROVE  SupervisorInv'
<1>1. TypeOK /\ KindOK(k) /\ sup \in supState /\ runner \in [Kinds -> watchRunner]
  BY Here DEF TypeOK
<1>2. /\ sup.pc = "allow" /\ sup.kind = k /\ life[k].state = "Ready" /\ ~Allowed(k) /\ Running(k)
      /\ Cancel(k) /\ Stage("exclude")
      /\ UNCHANGED <<dvars, desired, cfgKick, lifeVars, pendingStart, health, absent, callback,
                     bomVars, spent>>
  BY DEF StopExcluded
<1>3. LifeInv(k) /\ RunnerInv(k) /\ HealthInv(k) /\ ObserveInv(k)  BY <1>1 DEF KindOK
<1>4. UNCHANGED <<crd, top, boot, worker, obs, kick, life, activated, tracked, lagReported>>
  BY <1>2 DEF dvars, lifeVars
<1>5. /\ runner' \in [Kinds -> watchRunner]
      /\ runner'[k].pc = runner[k].pc /\ runner'[k].synced = runner[k].synced
      /\ \A j \in Kinds \ {k} : runner'[j] = runner[j]
  BY <1>1, <1>2, CancelFacts
<1>6. "exclude" \in Stages /\ sup.pc \in Stages /\ StageInv(k)  BY <1>2, Here DEF Stages
<1>7. /\ sup' \in supState /\ sup'.pc = "exclude" /\ sup'.kind = k /\ sup'.todo = sup.todo
      /\ sup'.allowed = sup.allowed /\ sup'.seen = sup.seen /\ k \notin sup.todo
  BY <1>2, <1>6, StageAt
<1>8. TypeOK'
  BY <1>1, <1>2, <1>4, <1>5, <1>7 DEF TypeOK, DiscoveryTypeOK, dvars, bomVars
<1>9. ApplyFrame(k)  BY <1>2, <1>4, <1>5, <1>6, <1>7 DEF ApplyFrame
<1>10. LifeInv(k)'  BY <1>2, <1>3, <1>4, <1>7 DEF LifeInv, At, Present
<1>11. RunnerInv(k)'  BY <1>2, <1>3, <1>4, <1>5, <1>7 DEF RunnerInv, Running, At
<1>12. HealthInv(k)'  BY <1>2, <1>3, <1>4, <1>5, <1>7 DEF HealthInv, Running, At, Present
<1>13. ObserveInv(k)'  BY <1>2, <1>3, <1>4, <1>7 DEF ObserveInv, ToCome, At, Acted
<1>14. ServeInv(k)'  BY <1>6, <1>7 DEF ServeInv, At
<1>15. StageInv(k)'  BY <1>2, <1>4, <1>6, <1>7 DEF StageInv, Allowed
<1> QED  BY <1>8, <1>9, <1>10, <1>11, <1>12, <1>13, <1>14, <1>15, ApplyKept DEF KindOK

\* A kind that is excluded, has no runner and owes nothing is behind apply(),
\* with or without a sweep first.
LEMMA ExcludedFacts ==
  ASSUME SupervisorInv, NEW k \in Kinds, sup.kind = k, sup.pc \in {"allow", "exclude"}, ~Allowed(k),
         NEW pc \in {"sweep", "pass"}, sup'.pc = pc, sup'.kind = k, sup'.todo = sup.todo,
         sup'.allowed = sup.allowed, pc = "sweep" => sup'.seen = sup.seen,
         UNCHANGED <<crd, boot, worker, obs, kick, life, activated, tracked, desired, cfgKick>>,
         runner'[k].pc = "none", ~runner'[k].cancelled, ~runner'[k].synced,
         ~health'[k].healthy, k \notin pendingStart'
  PROVE  KindOK(k)' /\ StageInv(k)'
<1>1. LifeInv(k) /\ ObserveInv(k) /\ StageInv(k)  BY Here DEF KindOK
<1>2. sup.pc \in Stages /\ (pc = "pass" => pc \notin Stages) /\ (pc = "sweep" => pc \in Stages)
  BY DEF Stages
<1>3. LifeInv(k)'  BY <1>1 DEF LifeInv, At, Present
<1>4. RunnerInv(k)'  BY DEF RunnerInv, Running
<1>5. HealthInv(k)'  BY DEF HealthInv
<1>6. ObserveInv(k)'  BY <1>1 DEF ObserveInv, ToCome, At, Acted
<1>7. ServeInv(k)'  BY DEF ServeInv, Running, Allowed
<1>8. StageInv(k)'
  <2>1. CASE pc = "pass"  BY <1>2, <2>1 DEF StageInv
  <2>2. CASE pc = "sweep"  BY <1>1, <1>2, <2>2 DEF StageInv, Allowed
  <2> QED  BY <2>1, <2>2
<1> QED  BY <1>3, <1>4, <1>5, <1>6, <1>7, <1>8 DEF KindOK

\* The runner of the excluded kind has returned.
LEMMA ExcludeStep ==
  ASSUME SupervisorInv, NEW k \in Kinds, Exclude(k)
  PROVE  SupervisorInv'
<1>1. /\ TypeOK /\ KindOK(k) /\ sup \in supState /\ runner \in [Kinds -> watchRunner]
      /\ health \in [Kinds -> WatchStatus] /\ pendingStart \subseteq Kinds
  BY Here DEF TypeOK
<1>2. /\ sup.pc = "exclude" /\ sup.kind = k /\ Stopped(k) /\ disable(k, "config", "sweep", "pass")
      /\ UNCHANGED <<dvars, desired, cfgKick, lifeVars, absent, callback, bomVars, spent>>
  BY DEF Exclude
<1>3. UNCHANGED <<crd, top, boot, worker, obs, kick, life, activated, tracked, lagReported>>
  BY <1>2 DEF dvars, lifeVars
<1>4. /\ health' \in [Kinds -> WatchStatus] /\ ~health'[k].healthy
      /\ \A j \in Kinds \ {k} : health'[j] = health[j]
      /\ Stage("sweep") \/ Stage("pass")
  BY <1>1, <1>2, DisableFacts DEF DisabledReason
<1>5. PICK pc \in {"sweep", "pass"} : Stage(pc)  BY <1>4
<1>6. /\ pc \in {"pass"} \cup Stages /\ sup.pc \in Stages /\ StageInv(k) /\ (pc = "sweep" => pc \in Stages)
  BY <1>2, <1>5, Here DEF Stages
<1>7. /\ sup' \in supState /\ sup'.pc = pc /\ sup'.kind = k /\ sup'.todo = sup.todo
      /\ sup'.allowed = sup.allowed /\ (pc \in Stages => sup'.seen = sup.seen) /\ k \notin sup.todo
  BY <1>2, <1>5, <1>6, StageAt
<1>8. /\ runner' \in [Kinds -> watchRunner]
      /\ runner'[k] = NoRunner /\ \A j \in Kinds \ {k} : runner'[j] = runner[j]
      /\ pendingStart' \subseteq Kinds
      /\ \A j \in Kinds \ {k} : j \in pendingStart' <=> j \in pendingStart
      /\ k \in pendingStart' => k \in pendingStart /\ ~Running(k)
  BY <1>1, <1>2, StoppedFacts
<1>9. TypeOK'
  BY <1>1, <1>2, <1>3, <1>4, <1>7, <1>8 DEF TypeOK, DiscoveryTypeOK, dvars, bomVars
<1>10. ApplyFrame(k)  BY <1>2, <1>3, <1>4, <1>6, <1>7, <1>8 DEF ApplyFrame
<1>11. k \notin pendingStart'  BY <1>1, <1>2, <1>8 DEF KindOK, HealthInv, At
<1>12. ~Allowed(k)  BY <1>2, <1>6 DEF StageInv
<1>13. runner'[k].pc = "none" /\ ~runner'[k].cancelled /\ ~runner'[k].synced  BY <1>8, RunnerFields
<1>14. KindOK(k)' /\ StageInv(k)'
  BY <1>2, <1>3, <1>4, <1>5, <1>6, <1>7, <1>11, <1>12, <1>13, ExcludedFacts
<1> QED  BY <1>9, <1>10, <1>14, ApplyKept

\* An excluded kind that has no runner is disabled.
LEMMA DisableExcludedStep ==
  ASSUME SupervisorInv, NEW k \in Kinds, DisableExcluded(k)
  PROVE  SupervisorInv'
<1>1. /\ TypeOK /\ KindOK(k) /\ sup \in supState /\ health \in [Kinds -> WatchStatus]
  BY Here DEF TypeOK
<1>2. /\ sup.pc = "allow" /\ sup.kind = k /\ ~Allowed(k) /\ (life[k].state = "Ready" => ~Running(k))
      /\ Present(life[k]) /\ disable(k, "config", "sweep", "pass")
      /\ UNCHANGED <<dvars, desired, cfgKick, lifeVars, pendingStart, runVars, bomVars, spent>>
  BY DEF DisableExcluded
<1>3. UNCHANGED <<crd, top, boot, worker, obs, kick, life, activated, tracked, lagReported, runner>>
  BY <1>2 DEF dvars, lifeVars, runVars
<1>4. /\ health' \in [Kinds -> WatchStatus] /\ ~health'[k].healthy
      /\ \A j \in Kinds \ {k} : health'[j] = health[j]
      /\ Stage("sweep") \/ Stage("pass")
  BY <1>1, <1>2, DisableFacts DEF DisabledReason
<1>5. PICK pc \in {"sweep", "pass"} : Stage(pc)  BY <1>4
<1>6. /\ pc \in {"pass"} \cup Stages /\ sup.pc \in Stages /\ (pc = "sweep" => pc \in Stages)
  BY <1>2, <1>5 DEF Stages
<1>7. /\ sup' \in supState /\ sup'.pc = pc /\ sup'.kind = k /\ sup'.todo = sup.todo
      /\ sup'.allowed = sup.allowed /\ (pc \in Stages => sup'.seen = sup.seen) /\ k \notin sup.todo
  BY <1>2, <1>5, <1>6, StageAt
<1>8. TypeOK'
  BY <1>1, <1>2, <1>3, <1>4, <1>7 DEF TypeOK, DiscoveryTypeOK, dvars, runVars, bomVars
<1>9. ApplyFrame(k)  BY <1>2, <1>3, <1>4, <1>6, <1>7 DEF ApplyFrame
<1>10. RunnerInv(k) /\ HealthInv(k)  BY <1>1 DEF KindOK
<1>11. ~Running(k)  BY <1>2, <1>10 DEF RunnerInv, At
<1>12. k \notin pendingStart  BY <1>2, <1>10, <1>11 DEF HealthInv
<1>13. runner'[k].pc = "none" /\ ~runner'[k].cancelled /\ ~runner'[k].synced
  BY <1>3, <1>10, <1>11 DEF RunnerInv, Running
<1>14. KindOK(k)' /\ StageInv(k)'
  BY <1>2, <1>3, <1>4, <1>5, <1>6, <1>7, <1>12, <1>13, ExcludedFacts
<1> QED  BY <1>8, <1>9, <1>14, ApplyKept

\* Nothing to start or stop.
LEMMA LeaveAloneStep ==
  ASSUME SupervisorInv, NEW k \in Kinds, LeaveAlone(k)
  PROVE  SupervisorInv'
<1>1. /\ TypeOK /\ KindOK(k) /\ sup \in supState /\ health \in [Kinds -> WatchStatus]
      /\ health[k] \in WatchStatus
  BY Here DEF TypeOK
<1>2. /\ sup.pc = "allow" /\ sup.kind = k /\ Stage("pass")
      /\ \/ life[k].state = "Ready" /\ Allowed(k) /\ Running(k)
         \/ life[k].state = "Unservable" /\ Allowed(k)
         \/ ~Present(life[k])
      /\ UNCHANGED <<dvars, desired, cfgKick, lifeVars, pendingStart, runVars, bomVars, spent>>
  BY DEF LeaveAlone
<1>3. LifeInv(k) /\ RunnerInv(k) /\ HealthInv(k) /\ ObserveInv(k)  BY <1>1 DEF KindOK
<1>4. UNCHANGED <<crd, top, boot, worker, obs, kick, life, activated, tracked, lagReported, runner>>
  BY <1>2 DEF dvars, lifeVars, runVars
<1>5. /\ health' \in [Kinds -> WatchStatus] /\ (health'[k].healthy => health[k].healthy)
      /\ \A j \in Kinds \ {k} : health'[j] = health[j]
  <2>1. PICK h : h = MarkUnhealthy(health[k])  OBVIOUS
  <2>2. h \in WatchStatus /\ ~h.healthy  BY <1>1, <2>1, Statuses
  <2>3. health' = health \/ health' = [health EXCEPT ![k] = h]  BY <2>1 DEF LeaveAlone
  <2> QED  BY <1>1, <2>2, <2>3
<1>6. "pass" \notin Stages /\ sup.pc \in Stages /\ StageInv(k)  BY <1>2, Here DEF Stages
<1>7. /\ sup' \in supState /\ sup'.pc = "pass" /\ sup'.kind = k /\ sup'.todo = sup.todo
      /\ sup'.allowed = sup.allowed /\ k \notin sup.todo
  BY <1>2, <1>6, StageAt
<1>8. TypeOK'
  BY <1>1, <1>2, <1>4, <1>5, <1>7 DEF TypeOK, DiscoveryTypeOK, dvars, runVars, bomVars
<1>9. ApplyFrame(k)  BY <1>2, <1>4, <1>5, <1>6, <1>7 DEF ApplyFrame
<1>10. Running(k) <=> (life[k].state = "Ready" /\ Allowed(k))
  BY <1>2, <1>3 DEF RunnerInv, At, Present
<1>11. LifeInv(k)'  BY <1>2, <1>3, <1>4, <1>7 DEF LifeInv, At, Present
<1>12. RunnerInv(k)'  BY <1>2, <1>3, <1>4, <1>7 DEF RunnerInv, Running, At
<1>13. HealthInv(k)'  BY <1>2, <1>3, <1>4, <1>5, <1>7, <1>10 DEF HealthInv, Running, At, Present
<1>14. ObserveInv(k)'  BY <1>2, <1>3, <1>4, <1>7 DEF ObserveInv, ToCome, At, Acted
<1>15. ServeInv(k)'  BY <1>4, <1>7, <1>10 DEF ServeInv, Running, Allowed
<1>16. StageInv(k)'  BY <1>6, <1>7 DEF StageInv
<1> QED  BY <1>8, <1>9, <1>11, <1>12, <1>13, <1>14, <1>15, <1>16, ApplyKept DEF KindOK
-----------------------------------------------------------------------------
(* The other steps *)

\* Between two kinds nothing is half done: a step of the pass itself keeps
\* what is said of a kind's generation, runner and health.
LEMMA BetweenKinds ==
  ASSUME SupervisorInv, NEW k \in Kinds, sup.pc \notin Stages, sup'.pc \notin Stages,
         UNCHANGED <<boot, worker, lifeVars, pendingStart, health, runVars>>
  PROVE  LifeInv(k)' /\ RunnerInv(k)' /\ HealthInv(k)'
<1>1. LifeInv(k) /\ RunnerInv(k) /\ HealthInv(k)  BY Here DEF KindOK
<1>2. /\ UNCHANGED <<life, activated, tracked, runner, health, pendingStart, boot, worker>>
  BY DEF lifeVars, runVars
<1>3. \A S \in SUBSET Stages : ~At(k, S) /\ ~At(k, S)'  BY DEF At
<1>4. /\ {"retireSweep", "retired"} \in SUBSET Stages /\ {"unserve"} \in SUBSET Stages
      /\ {"retireSweep", "retired", "sweep"} \in SUBSET Stages
      /\ {"retire", "unserve", "exclude"} \in SUBSET Stages /\ {"allow"} \in SUBSET Stages
  BY DEF Stages
<1>5. LifeInv(k)'  BY <1>1, <1>2, <1>3, <1>4 DEF LifeInv, Present
<1>6. RunnerInv(k)'  BY <1>1, <1>2, <1>3, <1>4 DEF RunnerInv, Running
<1>7. HealthInv(k)'  BY <1>1, <1>2, <1>3, <1>4 DEF HealthInv, Running, Present
<1> QED  BY <1>5, <1>6, <1>7

\* apply() takes the kick before it reads anything, so what is kicked for
\* later is not missed.
LEMMA TakeKickStep == ASSUME SupervisorInv, TakeKick PROVE SupervisorInv'
<1>1. /\ TypeOK /\ DiscoveryInv /\ PassInv /\ sup \in supState  BY DEF SupervisorInv, TypeOK
<1>2. /\ sup.pc = "idle" /\ Stage("wake") /\ SetKick(FALSE)
      /\ UNCHANGED <<desired, cfgKick, lifeVars, pendingStart, health, runVars, bomVars, spent>>
  BY DEF TakeKick
<1>3. /\ sup' \in supState /\ sup'.pc = "wake" /\ sup'.todo = sup.todo  BY <1>1, <1>2, StageFields
<1>4. sup.pc \notin Stages /\ sup'.pc \notin Stages  BY <1>2, <1>3 DEF Stages
<1>5. DiscoveryInv' /\ UNCHANGED <<boot, worker>>
  BY <1>1, <1>2, InvNext DEF DiscoveryNext, SetKick, crdVars
<1>6. TypeOK'
  BY <1>1, <1>2, <1>3, <1>5 DEF TypeOK, DiscoveryInv, lifeVars, runVars, bomVars
<1>7. ASSUME NEW k \in Kinds PROVE KindOK(k)'
  <2>1. LifeInv(k)' /\ RunnerInv(k)' /\ HealthInv(k)'  BY <1>2, <1>4, <1>5, BetweenKinds
  <2>2. ObserveInv(k)' /\ ServeInv(k)'  BY <1>3 DEF ObserveInv, ToCome, ServeInv
  <2> QED  BY <2>1, <2>2 DEF KindOK
<1>8. StageInv(sup.kind)'  BY <1>3, <1>4 DEF StageInv
<1>9. PassInv'  BY <1>1, <1>2, <1>3 DEF PassInv
<1> QED  BY <1>5, <1>6, <1>7, <1>8, <1>9 DEF SupervisorInv

\* A pass begins: every kind is before it, under the allowlist of now.
LEMMA BeginPassStep == ASSUME SupervisorInv, BeginPass PROVE SupervisorInv'
<1>1. /\ TypeOK /\ DiscoveryInv /\ PassInv /\ sup \in supState /\ desired \subseteq Kinds
  BY DEF SupervisorInv, TypeOK
<1>2. /\ sup.pc = "wake" /\ sup' = [sup EXCEPT !.pc = "pass", !.todo = Kinds, !.allowed = desired]
      /\ UNCHANGED <<dvars, desired, cfgKick, lifeVars, pendingStart, health, runVars, bomVars, spent>>
  BY DEF BeginPass
<1>3. /\ sup' \in supState /\ sup'.pc = "pass" /\ sup'.todo = Kinds /\ sup'.allowed = desired
  BY <1>1, <1>2 DEF supState
<1>4. sup.pc \notin Stages /\ sup'.pc \notin Stages  BY <1>2, <1>3 DEF Stages
<1>5. DiscoveryInv' /\ UNCHANGED <<boot, worker>>  BY <1>1, <1>2, InvNext DEF dvars
<1>6. TypeOK'
  BY <1>1, <1>2, <1>3, <1>5 DEF TypeOK, DiscoveryInv, lifeVars, runVars, bomVars
<1>7. ASSUME NEW k \in Kinds PROVE KindOK(k)'
  <2>1. LifeInv(k)' /\ RunnerInv(k)' /\ HealthInv(k)'  BY <1>2, <1>4, <1>5, BetweenKinds
  <2>2. ObserveInv(k)' /\ ServeInv(k)'  BY <1>3 DEF ObserveInv, ToCome, ServeInv
  <2> QED  BY <2>1, <2>2 DEF KindOK
<1>8. StageInv(sup.kind)'  BY <1>3, <1>4 DEF StageInv
<1>9. PassInv'  BY <1>2, <1>3 DEF PassInv
<1> QED  BY <1>5, <1>6, <1>7, <1>8, <1>9 DEF SupervisorInv

\* A pass ends: unless a kick is due, its allowlist is the live one.
LEMMA EndPassStep == ASSUME SupervisorInv, EndPass PROVE SupervisorInv'
<1>1. /\ TypeOK /\ DiscoveryInv /\ PassInv /\ sup \in supState  BY DEF SupervisorInv, TypeOK
<1>2. /\ sup.pc = "pass" /\ sup.todo = {} /\ Stage("idle")
      /\ UNCHANGED <<dvars, desired, cfgKick, lifeVars, pendingStart, health, runVars, bomVars, spent>>
  BY DEF EndPass
<1>3. /\ sup' \in supState /\ sup'.pc = "idle" /\ sup'.todo = {}  BY <1>1, <1>2, StageFields
<1>4. sup.pc \notin Stages /\ sup'.pc \notin Stages  BY <1>2, <1>3 DEF Stages
<1>5. DiscoveryInv' /\ UNCHANGED <<boot, worker, obs, kick, life, runner>>
  BY <1>1, <1>2, InvNext DEF dvars, lifeVars, runVars
<1>6. TypeOK'
  BY <1>1, <1>2, <1>3, <1>5 DEF TypeOK, DiscoveryInv, lifeVars, runVars, bomVars
<1>7. ASSUME NEW k \in Kinds PROVE KindOK(k)'
  <2>1. LifeInv(k)' /\ RunnerInv(k)' /\ HealthInv(k)'  BY <1>2, <1>4, <1>5, BetweenKinds
  <2>2. ObserveInv(k) /\ ServeInv(k)  BY Here DEF KindOK
  <2>3. ObserveInv(k)'  BY <1>2, <1>3, <1>5, <2>2 DEF ObserveInv, ToCome, At, Acted
  <2>4. Running(k) <=> (life[k].state = "Ready" /\ Allowed(k))
    BY <1>2, <1>4, <2>2 DEF ServeInv, At
  <2>5. ~cfgKick /\ ~kick => sup.allowed = desired  BY <1>1, <1>2 DEF PassInv
  <2>6. ServeInv(k)'  BY <1>2, <1>3, <1>5, <2>4, <2>5 DEF ServeInv, Running, Allowed
  <2> QED  BY <2>1, <2>3, <2>6 DEF KindOK
<1>8. StageInv(sup.kind)'  BY <1>3, <1>4 DEF StageInv
<1>9. PassInv'  BY <1>3 DEF PassInv
<1> QED  BY <1>5, <1>6, <1>7, <1>8, <1>9 DEF SupervisorInv

\* The allowlist changes, or its subscriber kicks: either way a kick is due.
LEMMA ConfigStep == ASSUME SupervisorInv, ConfigNext PROVE SupervisorInv'
<1>1. /\ TypeOK /\ DiscoveryInv /\ PassInv /\ desired \subseteq Kinds  BY DEF SupervisorInv, TypeOK
<1>2. /\ UNCHANGED <<sup, lifeVars, pendingStart, health, runVars, bomVars>>
      /\ \/ cfgKick' = TRUE /\ UNCHANGED dvars
         \/ cfgKick' = FALSE /\ SetKick(TRUE) /\ desired' = desired
  BY DEF ConfigNext, SetDesired, KickDesired
<1>3. cfgKick' = TRUE \/ kick' = TRUE  BY <1>2 DEF SetKick
<1>4. kick => kick'  BY <1>2 DEF SetKick, dvars
<1>5. DiscoveryInv' /\ UNCHANGED <<crd, boot, worker, obs>>
  BY <1>1, <1>2, InvNext DEF DiscoveryNext, SetKick, crdVars, dvars
<1>6. desired' \subseteq Kinds /\ spent' \in [flips : Nat, faults : Nat, writes : Nat]
  <2>1. desired' \subseteq Kinds  BY <1>1 DEF ConfigNext, SetDesired, KickDesired
  <2>2. spent' = spent \/ spent' = [spent EXCEPT !.flips = spent.flips + 1]
    BY DEF ConfigNext, SetDesired, KickDesired
  <2> QED  BY <1>1, <2>1, <2>2, Spending DEF TypeOK
<1>7. TypeOK'
  BY <1>1, <1>2, <1>5, <1>6 DEF TypeOK, DiscoveryInv, lifeVars, runVars, bomVars
<1>8. UNCHANGED <<life, activated, tracked, runner>>  BY <1>2 DEF lifeVars, runVars
<1>9. ASSUME NEW k \in Kinds PROVE KindOK(k)'
  <2>1. LifeInv(k) /\ RunnerInv(k) /\ HealthInv(k) /\ ObserveInv(k) /\ ServeInv(k)  BY Here DEF KindOK
  <2>2. LifeInv(k)'  BY <1>2, <1>5, <1>8, <2>1 DEF LifeInv, At, Present
  <2>3. RunnerInv(k)'  BY <1>2, <1>8, <2>1 DEF RunnerInv, Running, At
  <2>4. HealthInv(k)'  BY <1>2, <1>5, <1>8, <2>1 DEF HealthInv, Running, At, Present, Allowed
  <2>5. ObserveInv(k)'
    <3>1. ToCome(k) => ToCome(k)'  BY <1>2, <1>4, <1>5 DEF ToCome
    <3> QED  BY <1>2, <1>5, <1>8, <2>1, <3>1 DEF ObserveInv, At, Acted
  <2>6. ServeInv(k)'  BY <1>2, <1>3, <1>8, <2>1 DEF ServeInv, Running, Allowed, At
  <2> QED  BY <2>2, <2>3, <2>4, <2>5, <2>6 DEF KindOK
<1>10. StageInv(sup.kind)'
  <2>1. StageInv(sup.kind)  BY DEF SupervisorInv
  <2> QED  BY <1>2, <1>5, <1>8, <2>1 DEF StageInv, Present, Retires, Allowed, Gone, L!Gone
<1>11. PassInv'  BY <1>1, <1>2, <1>3 DEF PassInv
<1> QED  BY <1>5, <1>7, <1>9, <1>10, <1>11 DEF SupervisorInv

\* No runner comes, goes or is cancelled.
RunnersStay ==
  /\ runner' \in [Kinds -> watchRunner]
  /\ \A j \in Kinds : /\ runner'[j].pc = "none" <=> runner[j].pc = "none"
                      /\ runner'[j].cancelled = runner[j].cancelled
                      /\ runner[j].pc = "none" => ~runner'[j].synced

\* ... and none syncs.
RunnersGoOn == RunnersStay /\ \A j \in Kinds : runner'[j].synced => runner[j].synced

\* Everybody but apply() and the configuration: discovery moves, a runner
\* goes on, comes and goes for nobody, and marks only a running kind healthy.
LEMMA BesideApply ==
  ASSUME SupervisorInv, DiscoveryMoves, TypeOK',
         UNCHANGED <<desired, cfgKick, sup, life, activated, tracked>>,
         RunnersStay,
         \A k \in Kinds :
           /\ health'[k].healthy => health[k].healthy \/ Running(k)
           /\ k \in pendingStart' => k \in pendingStart /\ ~health'[k].healthy /\ ~runner'[k].synced
  PROVE  SupervisorInv'
<1>1. DiscoveryInv' /\ boot' = boot /\ (kick => kick')  BY DEF DiscoveryMoves
<1>2. ASSUME NEW k \in Kinds PROVE KindOK(k)'
  <2>1. /\ LifeInv(k) /\ RunnerInv(k) /\ HealthInv(k) /\ ObserveInv(k) /\ ServeInv(k)
        /\ worker[k].uid \in Nat /\ life[k].uid \in Nat /\ (sup.kind = k => StageInv(k))
    BY Here DEF KindOK
  <2>2. /\ worker'[k].uid >= worker[k].uid
        /\ \/ obs'[k].state = obs[k].state /\ obs'[k].uid = obs[k].uid
           \/ worker'[k].pc \in {"kick", "kickMore"}
        /\ worker[k].pc \in {"kick", "kickMore"} => kick' \/ worker'[k].pc \in {"kick", "kickMore"}
    BY DEF DiscoveryMoves
  <2>3. worker'[k].uid \in Nat
    <3>1. worker'[k] \in crdWorker  BY DEF TypeOK, DiscoveryTypeOK
    <3> QED  BY <3>1, WorkerFields
  <2>4. LifeInv(k)'  BY <2>1, <2>2, <2>3 DEF LifeInv, At, Present
  <2>5. RunnerInv(k)'  BY <2>1 DEF RunnerInv, Running, At, RunnersStay
  <2>6. HealthInv(k)'
    <3>1. Running(k) => Present(life[k]) /\ ~At(k, {"retireSweep", "retired"})
      BY <2>1 DEF RunnerInv, StageInv, Present, At
    <3> QED  BY <1>1, <2>1, <3>1 DEF HealthInv, Running, At, Present, Allowed, RunnersStay
  <2>7. ObserveInv(k)'
    <3>1. ToCome(k) => ToCome(k)'  BY <1>1, <2>2 DEF ToCome
    <3>2. ~ToCome(k)' => obs'[k].state = obs[k].state /\ obs'[k].uid = obs[k].uid
      BY <2>2 DEF ToCome
    <3> QED  BY <2>1, <3>1, <3>2 DEF ObserveInv, At, Acted
  <2>8. ServeInv(k)'  BY <1>1, <2>1 DEF ServeInv, Running, Allowed, At, RunnersStay
  <2> QED  BY <2>4, <2>5, <2>6, <2>7, <2>8 DEF KindOK
<1>3. StageInv(sup.kind)'
  <2>1. PICK k \in Kinds : k = sup.kind  BY SupFields DEF SupervisorInv, TypeOK
  <2>2. StageInv(k) /\ LifeInv(k) /\ KindInv(k) /\ worker[k].uid \in Nat /\ life[k].uid \in Nat
        /\ sup.seen.uid \in Nat /\ top[k] \in Nat
    BY <2>1, Here DEF KindOK, DiscoveryInv
  <2>3. worker'[k].uid >= worker[k].uid /\ worker'[k].uid \in Nat
    <3>1. worker'[k] \in crdWorker  BY DEF TypeOK, DiscoveryTypeOK
    <3> QED  BY <3>1, WorkerFields DEF DiscoveryMoves
  <2>4. Present(life[k]) => life[k].uid # 0 /\ life[k].uid <= top[k]
    BY <2>2 DEF LifeInv, KindInv, MemoryInv, Issued
  <2>5. Present(life[k]) /\ Gone(crd[k], life[k].uid) => Gone(crd'[k], life[k].uid)
    BY <2>2, <2>4 DEF DiscoveryMoves
  <2>6. Gone(crd[k], life[k].uid)' <=> Gone(crd'[k], life[k].uid)  BY DEF Gone, L!Gone
  <2>7. StageInv(k)'
    <3>1. CASE sup.pc \in {"retire", "retireSweep", "retired"}
      BY <1>1, <2>2, <2>3, <2>5, <2>6, <3>1 DEF StageInv, Present, Allowed, Retires
    <3>2. CASE sup.pc \notin {"retire", "retireSweep", "retired"}
      BY <1>1, <2>2, <2>3, <3>2 DEF StageInv, Present, Allowed, Retires
    <3> QED  BY <3>1, <3>2
  <2> QED  BY <2>1, <2>7
<1>4. PassInv'
  <2>1. PassInv  BY DEF SupervisorInv
  <2> QED  BY <1>1, <2>1 DEF PassInv
<1> QED  BY <1>1, <1>2, <1>3, <1>4 DEF SupervisorInv

\* runnerError may poke discovery, and marks nobody healthy.
LEMMA RunnerErrorFacts ==
  ASSUME SupervisorInv, NEW k \in Kinds, NEW e, runnerError(k, e)
  PROVE  /\ UNCHANGED dvars \/ PokeWorker(k)
         /\ absent' \subseteq Kinds /\ health' \in [Kinds -> WatchStatus]
         /\ \A j \in Kinds : health'[j].healthy => health[j].healthy
<1>1. absent \subseteq Kinds /\ health \in [Kinds -> WatchStatus] /\ health[k] \in WatchStatus
  BY Here DEF TypeOK
<1>2. PICK h : h = MarkUnhealthy(health[k])  OBVIOUS
<1>3. h \in WatchStatus /\ ~h.healthy  BY <1>1, <1>2, Statuses
<1>4. health' = health \/ health' = [health EXCEPT ![k] = h]  BY <1>2 DEF runnerError
<1>5. UNCHANGED dvars \/ PokeWorker(k)  BY DEF runnerError
<1>6. absent' \subseteq Kinds  BY <1>1 DEF runnerError
<1> QED  BY <1>1, <1>3, <1>4, <1>5, <1>6

\* A runner moves on and stays the runner it was.
LEMMA RunnerMoves ==
  ASSUME SupervisorInv, NEW k \in Kinds, Running(k),
         NEW r \in watchRunner, r.pc # "none", r.cancelled = runner[k].cancelled,
         runner' = [runner EXCEPT ![k] = r]
  PROVE  RunnersStay /\ ((r.synced => runner[k].synced) => RunnersGoOn)
<1>1. runner \in [Kinds -> watchRunner]  BY Here DEF TypeOK
<1>2. runner' \in [Kinds -> watchRunner] /\ runner'[k] = r /\ \A j \in Kinds \ {k} : runner'[j] = runner[j]
  BY <1>1
<1>3. \A j \in Kinds : ~Running(j) => ~runner[j].synced  BY Here DEF KindOK, RunnerInv
<1>4. RunnersStay  BY <1>2, <1>3 DEF Running, RunnersStay
<1> QED  BY <1>2, <1>4 DEF RunnersGoOn

\* A runner stays where it is.
LEMMA RunnerRests ==
  ASSUME SupervisorInv, runner' = runner
  PROVE  RunnersStay /\ RunnersGoOn
<1>1. runner \in [Kinds -> watchRunner]  BY DEF SupervisorInv, TypeOK
<1>2. \A j \in Kinds : ~Running(j) => ~runner[j].synced  BY Here DEF KindOK, RunnerInv
<1> QED  BY <1>1, <1>2 DEF Running, RunnersStay, RunnersGoOn

\* A step of a runner that marks nobody healthy and loses no WatchStarted.
LEMMA QuietRunner ==
  ASSUME SupervisorInv, UNCHANGED dvars \/ \E k \in Kinds : PokeWorker(k),
         UNCHANGED <<supVars, pendingStart>>, aibom' \subseteq Kinds, cached' \subseteq Kinds,
         inflight' \subseteq Kinds, spent' \in [flips : Nat, faults : Nat, writes : Nat],
         absent' \subseteq Kinds, health' \in [Kinds -> WatchStatus],
         callback' \in [Kinds -> {"none", "absence", "other"}],
         \A j \in Kinds : health'[j].healthy => health[j].healthy,
         RunnersGoOn
  PROVE  SupervisorInv'
<1>1. TypeOK /\ DiscoveryInv  BY DEF SupervisorInv
<1>2. DiscoveryMoves  BY <1>1, DiscoveryStays
<1>3. DiscoveryTypeOK'  BY <1>2 DEF DiscoveryMoves, DiscoveryInv
<1>4. UNCHANGED <<desired, cfgKick, sup, life, activated, tracked, lagReported>>  BY DEF supVars, lifeVars
<1>5. TypeOK'  BY <1>1, <1>3, <1>4 DEF TypeOK, RunnersGoOn, RunnersStay
<1>6. \A k \in Kinds : k \in pendingStart => ~health[k].healthy /\ ~runner[k].synced
  BY Here DEF KindOK, HealthInv
<1>7. \A k \in Kinds :
        /\ health'[k].healthy => health[k].healthy \/ Running(k)
        /\ k \in pendingStart' => k \in pendingStart /\ ~health'[k].healthy /\ ~runner'[k].synced
  BY <1>6 DEF RunnersGoOn
<1>8. RunnersStay  BY DEF RunnersGoOn
<1> QED  BY <1>2, <1>4, <1>5, <1>7, <1>8, BesideApply

\* A probe or a watch that fails, a runner that goes on, waits or returns:
\* each step of run but the two that mark the kind healthy.
LEMMA RunnerStep ==
  ASSUME SupervisorInv, NEW k \in Kinds,
         \/ ProbeOk(k) \/ ProbeFails(k) \/ BackoffEnds(k) \/ TickFails(k) \/ ControllerStops(k)
         \/ RunnerReturns(k) \/ ReflectorFails(k) \/ WatchErrorHandler(k)
  PROVE  SupervisorInv'
<1>1. /\ aibom \subseteq Kinds /\ cached \subseteq Kinds /\ inflight \subseteq Kinds
      /\ spent \in [flips : Nat, faults : Nat, writes : Nat] /\ absent \subseteq Kinds
      /\ health \in [Kinds -> WatchStatus] /\ callback \in [Kinds -> {"none", "absence", "other"}]
      /\ runner[k] \in watchRunner /\ runner \in [Kinds -> watchRunner]
  BY Here DEF TypeOK
<1>2. UNCHANGED <<supVars, pendingStart, aibom, cached, inflight>>
  BY DEF ProbeOk, ProbeFails, BackoffEnds, TickFails, ControllerStops, RunnerReturns,
     ReflectorFails, WatchErrorHandler, bomVars
<1>3. spent' \in [flips : Nat, faults : Nat, writes : Nat]
  <2>1. spent' = spent \/ spent' = [spent EXCEPT !.faults = spent.faults + 1]
    BY DEF ProbeOk, ProbeFails, BackoffEnds, TickFails, ControllerStops, RunnerReturns,
       ReflectorFails, WatchErrorHandler, ProbeError, Fault
  <2> QED  BY <1>1, <2>1, Spending
<1>4. callback' \in [Kinds -> {"none", "absence", "other"}]
  <2>1. callback' = callback \/ \E e \in {"none", "absence", "other"} : callback' = [callback EXCEPT ![k] = e]
    BY DEF ProbeOk, ProbeFails, BackoffEnds, TickFails, ControllerStops, RunnerReturns,
       ReflectorFails, WatchErrorHandler
  <2> QED  BY <1>1, <2>1
<1>5. \/ UNCHANGED <<dvars, health, absent>>
      \/ \E e : runnerError(k, e)
  BY DEF ProbeOk, ProbeFails, BackoffEnds, TickFails, ControllerStops, RunnerReturns,
     ReflectorFails, WatchErrorHandler, ProbeError
<1>6. /\ UNCHANGED dvars \/ \E j \in Kinds : PokeWorker(j)
      /\ absent' \subseteq Kinds /\ health' \in [Kinds -> WatchStatus]
      /\ \A j \in Kinds : health'[j].healthy => health[j].healthy
  BY <1>1, <1>5, RunnerErrorFacts
<1>7. \/ runner' = runner
      \/ Running(k) /\ \E pc \in {"probe", "backoff", "done"} : RunnerGoto(k, pc)
      \/ Running(k) /\ runner' = [runner EXCEPT ![k] = [runner[k] EXCEPT !.pc = "watch", !.synced = FALSE]]
  <2>1. CASE ProbeOk(k)
    <3>1. PICK r : r = [runner[k] EXCEPT !.pc = "watch", !.synced = FALSE]  OBVIOUS
    <3>2. runner' = [runner EXCEPT ![k] = r]  BY <1>1, <2>1, <3>1 DEF ProbeOk
    <3> QED  BY <2>1, <3>1, <3>2 DEF ProbeOk, Running
  <2>2. CASE ~ProbeOk(k)
    BY <2>2 DEF ProbeFails, BackoffEnds, TickFails, ControllerStops, RunnerReturns,
       ReflectorFails, WatchErrorHandler, Running
  <2> QED  BY <2>1, <2>2
<1>8. RunnersGoOn
  <2>1. CASE runner' = runner  BY <2>1, RunnerRests
  <2>2. ASSUME Running(k), NEW pc \in {"probe", "backoff", "done"}, RunnerGoto(k, pc)
        PROVE  RunnersGoOn
    <3>1. PICK r : r = [runner[k] EXCEPT !.pc = pc]  OBVIOUS
    <3>2. r \in watchRunner /\ r.pc = pc /\ r.cancelled = runner[k].cancelled /\ r.synced = runner[k].synced
      BY <1>1, <3>1, RunnerAt
    <3>3. runner' = [runner EXCEPT ![k] = r]  BY <2>2, <3>1 DEF RunnerGoto
    <3>4. pc # "none"  OBVIOUS
    <3> QED  BY <2>2, <3>2, <3>3, <3>4, RunnerMoves
  <2>3. ASSUME Running(k), runner' = [runner EXCEPT ![k] = [runner[k] EXCEPT !.pc = "watch", !.synced = FALSE]]
        PROVE  RunnersGoOn
    <3>1. PICK r : r = [runner[k] EXCEPT !.pc = "watch", !.synced = FALSE]  OBVIOUS
    <3>2. r \in watchRunner /\ r.pc = "watch" /\ r.cancelled = runner[k].cancelled /\ ~r.synced
      BY <1>1, <3>1, RunnerUpdates
    <3>3. runner' = [runner EXCEPT ![k] = r]  BY <2>3, <3>1
    <3> QED  BY <2>3, <3>2, <3>3, RunnerMoves
  <2> QED  BY <1>7, <2>1, <2>2, <2>3
<1> QED  BY <1>1, <1>2, <1>3, <1>4, <1>6, <1>8, QuietRunner

\* The sync and the periodic probe mark a running kind healthy, and only the
\* sync one that owes WatchStarted.
LEMMA HealthyStep ==
  ASSUME SupervisorInv, NEW k \in Kinds, Synced(k) \/ TickOk(k)
  PROVE  SupervisorInv'
<1>1. /\ TypeOK /\ DiscoveryInv /\ health \in [Kinds -> WatchStatus] /\ health[k] \in WatchStatus
      /\ pendingStart \subseteq Kinds /\ absent \subseteq Kinds /\ runner[k] \in watchRunner
      /\ runner \in [Kinds -> watchRunner]
  BY Here DEF TypeOK
<1>2. /\ UNCHANGED <<dvars, supVars, callback, bomVars, spent>> /\ absent' = absent \ {k} /\ Running(k)
  BY DEF Synced, TickOk, Running
<1>3. DiscoveryMoves  BY <1>1, <1>2, DiscoveryStays
<1>4. UNCHANGED <<desired, cfgKick, sup, life, activated, tracked, lagReported, aibom, cached, inflight>>
  BY <1>2 DEF supVars, lifeVars, bomVars
<1>5. PICK h : h = MarkHealthy(health[k])  OBVIOUS
<1>6. h \in WatchStatus  BY <1>1, <1>5, Statuses
<1>7. \A j \in Kinds : j \in pendingStart => ~health[j].healthy /\ ~runner[j].synced
  BY Here DEF KindOK, HealthInv
<1>8. DiscoveryTypeOK'  BY <1>3 DEF DiscoveryMoves, DiscoveryInv
<1>9. CASE Synced(k)
  <2>1. PICK r : r = [runner[k] EXCEPT !.synced = TRUE]  OBVIOUS
  <2>2. r \in watchRunner /\ r.pc = runner[k].pc /\ r.cancelled = runner[k].cancelled
    BY <1>1, <2>1, RunnerUpdates
  <2>3. /\ runner' = [runner EXCEPT ![k] = r] /\ health' = [health EXCEPT ![k] = h]
        /\ pendingStart' = pendingStart \ {k}
    BY <1>5, <1>9, <2>1 DEF Synced
  <2>4. RunnersStay
    <3>1. r.pc # "none"  BY <1>2, <2>2 DEF Running
    <3> QED  BY <1>2, <2>2, <2>3, <3>1, RunnerMoves
  <2>5. /\ health' \in [Kinds -> WatchStatus] /\ pendingStart' \subseteq Kinds
        /\ \A j \in Kinds \ {k} : health'[j] = health[j] /\ runner'[j] = runner[j]
    BY <1>1, <1>6, <2>3
  <2>6. \A j \in Kinds : health'[j].healthy => health[j].healthy \/ Running(j)  BY <1>2, <2>5
  <2>7. \A j \in Kinds : j \in pendingStart' => j \in pendingStart /\ ~health'[j].healthy /\ ~runner'[j].synced
    BY <1>7, <2>3, <2>5
  <2>8. TypeOK'  BY <1>1, <1>2, <1>4, <1>8, <2>4, <2>5 DEF TypeOK, RunnersStay
  <2> QED  BY <1>3, <1>4, <2>4, <2>6, <2>7, <2>8, BesideApply
<1>10. CASE TickOk(k)
  <2>1. /\ runner' = runner /\ pendingStart' = pendingStart
        /\ health' = health \/ (health' = [health EXCEPT ![k] = h] /\ (runner[k].synced \/ k \notin pendingStart))
    BY <1>5, <1>10 DEF TickOk
  <2>2. /\ health' \in [Kinds -> WatchStatus] /\ \A j \in Kinds \ {k} : health'[j] = health[j]
        /\ health'[k] = health[k] \/ k \notin pendingStart
    BY <1>1, <1>6, <1>7, <2>1
  <2>3. RunnersStay  BY <2>1, RunnerRests
  <2>4. \A j \in Kinds : health'[j].healthy => health[j].healthy \/ Running(j)  BY <1>2, <2>2
  <2>5. \A j \in Kinds : j \in pendingStart' => j \in pendingStart /\ ~health'[j].healthy /\ ~runner'[j].synced
    BY <1>7, <2>1, <2>2
  <2>6. TypeOK'  BY <1>1, <1>2, <1>4, <1>8, <2>1, <2>2 DEF TypeOK
  <2> QED  BY <1>3, <1>4, <2>3, <2>4, <2>5, <2>6, BesideApply
<1> QED  BY <1>9, <1>10

\* Reconciles and the shared cache touch AIBOMs only.
LEMMA ReconcileStep == ASSUME SupervisorInv, ReconcileNext PROVE SupervisorInv'
<1>1. TypeOK  BY DEF SupervisorInv
<1>2. UNCHANGED <<dvars, supVars, pendingStart, health, runner, absent, callback>>
  BY DEF ReconcileNext, CacheCatchesUp, ReconcileSends, WriteLands, runVars
<1>3. aibom' \subseteq Kinds /\ cached' \subseteq Kinds /\ inflight' \subseteq Kinds
  BY <1>1 DEF TypeOK, ReconcileNext, CacheCatchesUp, ReconcileSends, WriteLands
<1>4. spent' \in [flips : Nat, faults : Nat, writes : Nat]
  <2>1. spent' = spent \/ spent' = [spent EXCEPT !.writes = spent.writes + 1]
    BY DEF ReconcileNext, CacheCatchesUp, ReconcileSends, WriteLands
  <2> QED  BY <1>1, <2>1, Spending DEF TypeOK
<1>5. RunnersGoOn  BY <1>2, RunnerRests
<1>6. /\ absent' \subseteq Kinds /\ health' \in [Kinds -> WatchStatus]
      /\ callback' \in [Kinds -> {"none", "absence", "other"}]
  BY <1>1, <1>2 DEF TypeOK
<1> QED  BY <1>2, <1>3, <1>4, <1>5, <1>6, QuietRunner

\* The API server and the workers move beside apply().
LEMMA DiscoveryBeside == ASSUME SupervisorInv, DiscoveryStep PROVE SupervisorInv'
<1>1. TypeOK /\ DiscoveryInv  BY DEF SupervisorInv
<1>2. DiscoveryMoves  BY <1>1, DiscoveryStepFacts DEF DiscoveryStep
<1>3. UNCHANGED <<desired, cfgKick, sup, life, activated, lagReported, pendingStart, tracked,
                  health, runner, absent, callback, aibom, cached, inflight, spent>>
  BY DEF DiscoveryStep, svars
<1>4. DiscoveryTypeOK'  BY <1>2 DEF DiscoveryMoves, DiscoveryInv
<1>5. TypeOK'  BY <1>1, <1>3, <1>4 DEF TypeOK
<1>6. RunnersStay  BY <1>3, RunnerRests
<1>7. \A j \in Kinds : j \in pendingStart => ~health[j].healthy /\ ~runner[j].synced
  BY Here DEF KindOK, HealthInv
<1> QED  BY <1>2, <1>3, <1>5, <1>6, <1>7, BesideApply
-----------------------------------------------------------------------------
(* Theorems *)

\* The invariant holds when the supervisor starts.
LEMMA SupervisorInitInv == Init => SupervisorInv
<1>1. SUFFICES ASSUME Init PROVE SupervisorInv  OBVIOUS
<1>2. DiscoveryInv /\ DiscoveryTypeOK  BY <1>1, InitInv DEF Init, DiscoveryInv
<1>3. PICK l : l = [state |-> "Unknown", uid |-> 0]  OBVIOUS
<1>4. l \in kindLife /\ l.state = "Unknown" /\ l.uid = 0  BY <1>3, LifeFields, Members
<1>5. life = [k \in Kinds |-> l]  BY <1>1, <1>3 DEF Init
<1>6. NoStatus \in WatchStatus /\ ~NoStatus.healthy  BY DEF NoStatus, WatchStatus, DisabledReason
<1>7. NoObservation \in crdObservation  BY Members DEF NoObservation, crdObservation
<1>8. sup \in supState /\ sup.pc = "wake" /\ sup.todo = {}
  <2>1. sup \in [pc : {"wake"}, kind : Kinds, todo : {{}}, allowed : {{}}, seen : {NoObservation}]
    BY <1>1 DEF Init
  <2> QED  BY <1>7, <2>1 DEF supState
<1>9. TypeOK
  <2>1. desired \subseteq Kinds /\ aibom \subseteq Kinds /\ cached = aibom /\ inflight = {}
        /\ cfgKick = FALSE /\ activated = {} /\ pendingStart = {} /\ tracked = {} /\ absent = {}
    BY <1>1 DEF Init
  <2>2. /\ lagReported \in [Kinds -> Nat] /\ callback \in [Kinds -> {"none", "absence", "other"}]
        /\ spent \in [flips : Nat, faults : Nat, writes : Nat]
    BY <1>1 DEF Init
  <2>3. life \in [Kinds -> kindLife]  BY <1>4, <1>5
  <2>4. health \in [Kinds -> WatchStatus]  BY <1>1, <1>6 DEF Init
  <2>5. runner \in [Kinds -> watchRunner]  BY <1>1, RunnerFields DEF Init
  <2> QED  BY <1>2, <1>8, <2>1, <2>2, <2>3, <2>4, <2>5 DEF TypeOK
<1>10. ASSUME NEW k \in Kinds PROVE KindOK(k)
  <2>1. /\ life[k] = l /\ ~Present(life[k]) /\ life[k].uid = 0
        /\ runner[k] = NoRunner /\ health[k] = NoStatus
        /\ activated = {} /\ tracked = {} /\ pendingStart = {}
    BY <1>1, <1>4, <1>5 DEF Init, Present
  <2>2. LifeInv(k)  BY <2>1 DEF LifeInv
  <2>3. RunnerInv(k)  BY <2>1, RunnerFields DEF RunnerInv, Running
  <2>4. HealthInv(k)  BY <1>6, <2>1 DEF HealthInv
  <2>5. ObserveInv(k) /\ ServeInv(k)  BY <1>8 DEF ObserveInv, ToCome, ServeInv
  <2> QED  BY <2>2, <2>3, <2>4, <2>5 DEF KindOK
<1>11. StageInv(sup.kind) /\ PassInv  BY <1>8 DEF StageInv, PassInv, Stages
<1> QED  BY <1>2, <1>9, <1>10, <1>11 DEF SupervisorInv

\* Every step keeps the invariant.
LEMMA SupervisorNextInv == SupervisorInv /\ [Next]_vars => SupervisorInv'
<1> SUFFICES ASSUME SupervisorInv, [Next]_vars PROVE SupervisorInv'
  OBVIOUS
<1>1. CASE DiscoveryStep  BY <1>1, DiscoveryBeside
<1>2. CASE ConfigNext  BY <1>2, ConfigStep
<1>3. CASE ApplyNext
  <2>1. ASSUME NEW k \in Kinds, ApplyKind(k)  PROVE SupervisorInv'
    BY <2>1, ObserveStep, RetireStep, FinishRetireStep, SweepStep, AdoptReadyStep, AdoptRecoveredStep,
       AdoptUnservableStep, AdoptNothingStep, UnserveStep, StartRunnerStep, StopExcludedStep,
       ExcludeStep, DisableExcludedStep, LeaveAloneStep
       DEF ApplyKind
  <2> QED  BY <1>3, <2>1, TakeKickStep, BeginPassStep, EndPassStep DEF ApplyNext
<1>4. CASE \E k \in Kinds : RunnerNext(k)  BY <1>4, RunnerStep, HealthyStep DEF RunnerNext
<1>5. CASE ReconcileNext  BY <1>5, ReconcileStep
<1>6. CASE UNCHANGED vars
  <2>1. UNCHANGED <<dvars, svars>>  BY <1>6 DEF vars
  <2>2. UNCHANGED <<dvars, supVars, pendingStart, health, runner, absent, callback, aibom, cached,
                    inflight, spent>>
    BY <2>1 DEF svars, supVars, lifeVars
  <2>3. TypeOK  BY DEF SupervisorInv
  <2>4. RunnersGoOn  BY <2>2, RunnerRests
  <2>5. /\ absent' \subseteq Kinds /\ health' \in [Kinds -> WatchStatus]
        /\ callback' \in [Kinds -> {"none", "absence", "other"}]
        /\ aibom' \subseteq Kinds /\ cached' \subseteq Kinds /\ inflight' \subseteq Kinds
        /\ spent' \in [flips : Nat, faults : Nat, writes : Nat]
    BY <2>2, <2>3 DEF TypeOK
  <2> QED  BY <2>2, <2>4, <2>5, QuietRunner
<1> QED  BY <1>1, <1>2, <1>3, <1>4, <1>5, <1>6 DEF Next

\* The supervisor, its runners and discovery keep the inductive invariant in
\* every interleaving, for every number of kinds and all bounds.
THEOREM SupervisorInvariant == Spec => []SupervisorInv
  BY SupervisorInitInv, SupervisorNextInv, PTL DEF Spec

\* Every variable of the supervisor keeps its type.
THEOREM SupervisorTypeCorrect == Spec => []TypeOK
<1>1. SupervisorInv => TypeOK  BY DEF SupervisorInv
<1> QED  BY <1>1, SupervisorInvariant, PTL

\* The sweep of a kind's AIBOMs (sweepAIBOMs) always has its evidence: the
\* kind is excluded by the allowlist of this pass, or its generation is gone
\* from the API server, whatever happens to the CRD meanwhile.
THEOREM SweepHasEvidence == Spec => []SweepNeedsEvidence
<1>1. SupervisorInv => SweepNeedsEvidence  BY DEF SupervisorInv, StageInv, SweepNeedsEvidence
<1> QED  BY <1>1, SupervisorInvariant, PTL

\* stopRunner has waited: nothing is swept or forgotten beside a runner.
THEOREM SweepHasNoRunner == Spec => []SweepWithoutRunner
<1>1. SupervisorInv => SweepWithoutRunner
  <2>1. SUFFICES ASSUME SupervisorInv PROVE SweepWithoutRunner  OBVIOUS
  <2>2. PICK k \in Kinds : k = sup.kind  BY <2>1, SupFields DEF SupervisorInv, TypeOK
  <2>3. RunnerInv(k)  BY <2>1, Here DEF KindOK
  <2> QED  BY <2>2, <2>3 DEF RunnerInv, At, SweepWithoutRunner
<1> QED  BY <1>1, SupervisorInvariant, PTL

\* Between two kinds of a pass TrackedKinds holds exactly the kinds that
\* are present, whatever their health and the allowlist.
THEOREM MembershipIsPresence == Spec => []MembershipFollowsPresence
<1>1. SupervisorInv => MembershipFollowsPresence
  <2>1. SUFFICES ASSUME SupervisorInv, sup.pc \in {"idle", "wake", "pass"}
                 PROVE  tracked = {k \in Kinds : Present(life[k])}
    BY DEF MembershipFollowsPresence
  <2>2. tracked \subseteq Kinds  BY <2>1 DEF SupervisorInv, TypeOK
  <2>3. \A k \in Kinds : LifeInv(k)  BY <2>1, Here DEF KindOK
  <2>4. \A k \in Kinds : k \in tracked <=> Present(life[k])  BY <2>1, <2>3 DEF LifeInv, At
  <2> QED  BY <2>2, <2>4
<1> QED  BY <1>1, SupervisorInvariant, PTL

\* A kind that owes WatchStarted was installed after the start and is not
\* healthy, so the sync that announces it makes it healthy first.
THEOREM StartIsOwed == Spec => []WatchStartedOwed
<1>1. SupervisorInv => WatchStartedOwed
  <2>1. SUFFICES ASSUME SupervisorInv, NEW k \in pendingStart
                 PROVE  life[k].uid > boot[k] /\ ~health[k].healthy
    BY DEF WatchStartedOwed
  <2>2. k \in Kinds  BY <2>1 DEF SupervisorInv, TypeOK
  <2>3. HealthInv(k)  BY <2>1, <2>2, Here DEF KindOK
  <2> QED  BY <2>1, <2>3 DEF HealthInv
<1> QED  BY <1>1, SupervisorInvariant, PTL

\* No wake-up of apply() is lost between the kicks of the workers, of the
\* configuration and the passes: at rest everything has been acted on.
THEOREM RestIsApplied == Spec => []RestMeansApplied
<1>1. SupervisorInv => RestMeansApplied
  <2>1. SUFFICES ASSUME SupervisorInv, Settled, NEW k \in Kinds
                 PROVE  /\ obs[k].state = "Ready" => life[k] = [state |-> "Ready", uid |-> obs[k].uid]
                        /\ obs[k].state = "Unservable" /\ obs[k].uid = life[k].uid => life[k].state = "Unservable"
                        /\ Running(k) <=> (life[k].state = "Ready" /\ k \in desired)
                        /\ ~runner[k].cancelled
    BY DEF RestMeansApplied
  <2>2. /\ sup.pc = "idle" /\ ~kick /\ ~cfgKick /\ worker[k].pc \notin {"kick", "kickMore"}
    BY <2>1 DEF Settled
  <2>3. RunnerInv(k) /\ ObserveInv(k) /\ ServeInv(k) /\ PassInv  BY <2>1, Here DEF KindOK
  <2>4. ~ToCome(k)  BY <2>2, <2>3 DEF ToCome, PassInv
  <2>5. Acted(obs[k], life[k])  BY <2>2, <2>3, <2>4 DEF ObserveInv, At
  <2>6. ~runner[k].cancelled  BY <2>2, <2>3 DEF RunnerInv, At
  <2>7. Running(k) <=> (life[k].state = "Ready" /\ k \in desired)  BY <2>2, <2>3 DEF ServeInv
  <2> QED  BY <2>5, <2>6, <2>7 DEF Acted
<1> QED  BY <1>1, SupervisorInvariant, PTL
-----------------------------------------------------------------------------
(* Discovery inside the supervisor *)

\* Every step of the supervisor is a step of discovery's environment, so the
\* composition keeps all that is proved of discovery alone.
THEOREM SupervisorIncludesDiscovery == Spec => DiscoverySpec
<1>1. Init => DiscoveryInit  BY DEF Init
<1>2. [Next]_vars => [DiscoveryNext]_dvars
  <2> SUFFICES ASSUME [Next]_vars PROVE [DiscoveryNext]_dvars
    OBVIOUS
  <2>1. CASE DiscoveryStep  BY <2>1 DEF DiscoveryStep, DiscoveryNext
  <2>2. CASE ConfigNext  BY <2>2 DEF ConfigNext, SetDesired, KickDesired, DiscoveryNext
  <2>3. CASE ApplyNext
    <3>1. CASE TakeKick  BY <3>1 DEF TakeKick, DiscoveryNext
    <3>2. CASE BeginPass \/ EndPass  BY <3>2 DEF BeginPass, EndPass
    <3>3. ASSUME NEW k \in Kinds, ApplyKind(k) PROVE UNCHANGED dvars
      BY <3>3 DEF ApplyKind, Observe, Retire, FinishRetire, Sweep, AdoptReady, AdoptRecovered,
         AdoptUnservable, AdoptNothing, Unserve, StartRunner, StopExcluded, Exclude, DisableExcluded,
         LeaveAlone
    <3> QED  BY <2>3, <3>1, <3>2, <3>3 DEF ApplyNext
  <2>4. ASSUME NEW k \in Kinds, RunnerNext(k) PROVE UNCHANGED dvars \/ PokeWorker(k)
    BY <2>4 DEF RunnerNext, ProbeOk, ProbeFails, BackoffEnds, Synced, TickOk, TickFails, ControllerStops,
       RunnerReturns, ReflectorFails, WatchErrorHandler, ProbeError, runnerError
  <2>5. CASE ReconcileNext
    BY <2>5 DEF ReconcileNext, CacheCatchesUp, ReconcileSends, WriteLands
  <2>6. CASE UNCHANGED vars  BY <2>6 DEF vars
  <2> QED  BY <2>1, <2>2, <2>3, <2>4, <2>5, <2>6 DEF Next, DiscoveryNext
<1> QED  BY <1>1, <1>2, PTL DEF Spec, DiscoverySpec

\* Discovery beside the supervisor still follows the state machine of
\* Design 004 A1.
THEOREM SupervisorKeepsLifecycle == Spec => ImplementsLifecycle
  BY SupervisorIncludesDiscovery, DiscoveryImplementsLifecycle, PTL

\* From the API server to the runner: when apply() and the worker of a kind
\* have nothing to do, a Ready and allowed CRD has a runner of that very
\* generation, and nobody is stopping it.
ServedAtRest ==
  \A k \in Kinds :
    Settled /\ worker[k].pc = "idle" /\ ~poked[k] /\ ~worker[k].retry /\ k \in desired
        /\ crd[k].uid # 0 /\ crd[k].ready /\ ~crd[k].deleting
      => life[k] = [state |-> "Ready", uid |-> crd[k].uid] /\ Running(k) /\ ~runner[k].cancelled

\* Neither the informer events nor the kicks of apply() lose a Ready CRD on
\* their way: what rests is served.
THEOREM ReadyAtRestIsServed == Spec => []ServedAtRest
<1>1. TypeOK /\ RestingWorkerIsCurrent /\ RestMeansApplied => ServedAtRest
  <2>1. SUFFICES ASSUME TypeOK, RestingWorkerIsCurrent, RestMeansApplied, NEW k \in Kinds,
                        Settled, worker[k].pc = "idle", ~poked[k], ~worker[k].retry,
                        crd[k].uid # 0, crd[k].ready, ~crd[k].deleting, k \in desired
                 PROVE  /\ life[k] = [state |-> "Ready", uid |-> crd[k].uid]
                        /\ Running(k) /\ ~runner[k].cancelled
    BY DEF ServedAtRest
  <2>2. obs[k].state = "Ready" /\ obs[k].uid = crd[k].uid  BY <2>1 DEF RestingWorkerIsCurrent
  <2>3. life[k] = [state |-> "Ready", uid |-> crd[k].uid]  BY <2>1, <2>2 DEF RestMeansApplied
  <2>4. life[k].state = "Ready"  BY <2>3
  <2> QED  BY <2>1, <2>3, <2>4 DEF RestMeansApplied
<1> QED
  BY <1>1, SupervisorIncludesDiscovery, RestingIsCurrent, RestIsApplied, SupervisorTypeCorrect, PTL
=============================================================================
