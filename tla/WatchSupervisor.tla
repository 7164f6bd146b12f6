-------------------------- MODULE WatchSupervisor --------------------------
(***************************************************************************)
(* The WatchSupervisor (internal/controller/watch_supervisor.go): the      *)
(* serialized apply loop that reconciles the running watches of the        *)
(* third-party kinds with what discovery published about their CRDs and    *)
(* with the allowlist, the runner goroutine of each kind, the watch-error  *)
(* callback its informer may still have under way when the runner is gone, *)
(* and the AIBOM sweep of a kind that is disabled.                         *)
(*                                                                         *)
(* apply() is one goroutine; the places where it waits or does I/O (a      *)
(* runner to return, a sweep) are where a step ends, so that workers,      *)
(* runners, callbacks, reconciles and configuration changes interleave     *)
(* there.  One AIBOM stands for all AIBOMs of a kind.                      *)
(***************************************************************************)
EXTENDS CRDDiscovery, WatchHealth

CONSTANTS MaxFlips,   \* bound: changes of the allowlist
          MaxFaults,  \* bound: failures of probes, watches, controllers, sweeps
          MaxWrites,  \* bound: AIBOM writes of reconciles
          MaxDisturbances  \* bound: changes and failures taken together

ASSUME SupervisorBounds == {MaxFlips, MaxFaults, MaxWrites, MaxDisturbances} \subseteq Nat

VARIABLES
  desired,      \* s.desired.set: the allowed candidate kinds
  cfgKick,      \* the configuration subscriber has still to kick
  sup,          \* the Start goroutine: where it is and its local variables
  life,         \* s.life[k]: the generation apply() last acted on
  activated,    \* s.activated: kinds whose health entry and membership exist
  lagReported,  \* s.lagReported[k]
  pendingStart, \* s.pendingStart.kinds
  tracked,      \* members of TrackedKinds among the candidates
  health,       \* health[k]: the WatchHealth entry
  runner,       \* runner[k]: the watchRunner and its goroutine
  absent,       \* the kinds that have an entry in s.absentSince
  callback,     \* callback[k]: a watch error whose handler has still to run
  aibom,        \* the API server holds an AIBOM of kind k
  cached,       \* the manager's shared cache holds an AIBOM of kind k
  inflight,     \* a reconcile of k has sent its AIBOM write
  spent         \* how much of the bounds above has been used

lifeVars == <<life, activated, lagReported, tracked>>
runVars == <<runner, absent, callback>>
bomVars == <<aibom, cached, inflight>>
svars == <<desired, cfgKick, sup, life, activated, lagReported, pendingStart,
           tracked, health, runner, absent, callback, aibom, cached, inflight, spent>>
vars == <<dvars, svars>>

kindLife == [state : crdState, uid : Nat]

\* pc "done": the goroutine has returned, its entry is still in s.runners.
watchRunner ==
  [pc : {"none", "probe", "watch", "backoff", "done"}, cancelled : BOOLEAN, synced : BOOLEAN]
NoRunner == [pc |-> "none", cancelled |-> FALSE, synced |-> FALSE]

\* wake: about to read the desired set; pass: between two kinds; the others
\* are stages of the current kind.  seen is the observation apply() read.
supState ==
  [pc : {"idle", "wake", "pass", "retire", "retireSweep", "retired", "adopt",
         "unserve", "allow", "exclude", "sweep"},
   kind : Kinds, todo : SUBSET Kinds, allowed : SUBSET Kinds, seen : crdObservation]

TypeOK ==
  /\ DiscoveryTypeOK
  /\ desired \subseteq Kinds
  /\ cfgKick \in BOOLEAN
  /\ sup \in supState
  /\ life \in [Kinds -> kindLife]
  /\ activated \subseteq Kinds
  /\ lagReported \in [Kinds -> Nat]
  /\ pendingStart \subseteq Kinds
  /\ tracked \subseteq Kinds
  /\ health \in [Kinds -> WatchStatus]
  /\ runner \in [Kinds -> watchRunner]
  /\ absent \subseteq Kinds
  /\ callback \in [Kinds -> {"none", "absence", "other"}]
  /\ aibom \subseteq Kinds /\ cached \subseteq Kinds /\ inflight \subseteq Kinds
  /\ spent \in [flips : Nat, faults : Nat, writes : Nat]

\* A start or a restart: AIBOMs of an earlier leader may exist, and the
\* shared cache has synced before any leader-elected runnable starts.
Init ==
  /\ DiscoveryInit
  /\ desired \in SUBSET Kinds
  /\ cfgKick = FALSE
  /\ sup \in [pc : {"wake"}, kind : Kinds, todo : {{}}, allowed : {{}}, seen : {NoObservation}]
  /\ life = [k \in Kinds |-> [state |-> "Unknown", uid |-> 0]]
  /\ activated = {} /\ pendingStart = {} /\ tracked = {}
  /\ lagReported = [k \in Kinds |-> 0]
  /\ health = [k \in Kinds |-> NoStatus]
  /\ runner = [k \in Kinds |-> NoRunner]
  /\ absent = {}
  /\ callback = [k \in Kinds |-> "none"]
  /\ aibom \in SUBSET Kinds /\ cached = aibom /\ inflight = {}
  /\ spent = [flips |-> 0, faults |-> 0, writes |-> 0]

Present(l) == l.state \in {"Ready", "Unservable"}
Running(k) == runner[k].pc # "none"

BudgetLeft == spent.flips + spent.faults < MaxDisturbances

\* Every failure the environment injects is paid for from one budget.
Fault ==
  /\ spent.faults < MaxFaults /\ BudgetLeft
  /\ spent' = [spent EXCEPT !.faults = @ + 1]

-----------------------------------------------------------------------------
(* The allowlist: the store's subscriber records the set, then kicks. *)

SetDesired(S) ==
  /\ ~cfgKick /\ S # desired /\ spent.flips < MaxFlips /\ BudgetLeft
  /\ spent' = [spent EXCEPT !.flips = @ + 1]
  /\ desired' = S
  /\ cfgKick' = TRUE
  /\ UNCHANGED <<dvars, sup, lifeVars, pendingStart, health, runVars, bomVars>>

\* Mutant: the subscriber records the set and kicks nobody.
KickDesiredLost ==
  /\ cfgKick
  /\ cfgKick' = FALSE
  /\ UNCHANGED <<dvars, desired, sup, lifeVars, pendingStart, health, runVars, bomVars, spent>>

KickDesired ==
  /\ cfgKick
  /\ cfgKick' = FALSE
  /\ SetKick(TRUE)
  /\ UNCHANGED <<desired, sup, lifeVars, pendingStart, health, runVars, bomVars, spent>>

ConfigNext == KickDesired \/ \E S \in SUBSET Kinds : SetDesired(S)

-----------------------------------------------------------------------------
(* apply(), one pass over the kinds for each kick. *)

\* The Start goroutine goes on at pc; locals no later step reads are forgotten.
Stage(pc) ==
  sup' = [sup EXCEPT !.pc = pc,
            !.seen = IF pc \in {"pass", "idle"} THEN NoObservation ELSE @,
            !.allowed = IF pc = "idle" THEN {} ELSE @]
Allowed(k) == k \in sup.allowed

\* stopRunner, first half: cancel the runner's context, if there is a runner.
Cancel(k) ==
  runner' = IF Running(k) THEN [runner EXCEPT ![k].cancelled = TRUE] ELSE runner

\* Mutant: stopRunner does not wait for the goroutine.
StoppedUnawaited(k) ==
  /\ UNCHANGED runner
  /\ pendingStart' = IF Running(k) THEN pendingStart \ {k} ELSE pendingStart

\* stopRunner, second half: the goroutine has returned (or there was none).
Stopped(k) ==
  /\ runner[k].pc \in {"none", "done"}
  /\ runner' = [runner EXCEPT ![k] = NoRunner]
  /\ pendingStart' = IF Running(k) THEN pendingStart \ {k} ELSE pendingStart

\* disable: the sweep runs on the entry into the disabled state only.
disable(k, reason, sweepPc, donePc) ==
  /\ health' = [health EXCEPT ![k] = MarkDisabled(@, reason)]
  /\ Stage(IF EntersDisabled(health[k]) THEN sweepPc ELSE donePc)

\* Mutant: the UID of a Ready generation is not compared.
RetiresAnyReady(o, l) ==
  /\ Present(l)
  /\ \/ o.state = "Removed" /\ o.uid = l.uid
     \/ o.state = "Ready"

\* A removal of the current generation, or Ready under another UID.
Retires(o, l) ==
  /\ Present(l)
  /\ \/ o.state = "Removed" /\ o.uid = l.uid
     \/ o.state = "Ready" /\ o.uid # l.uid

TakeKick ==
  /\ sup.pc = "idle" /\ kick
  /\ Stage("wake")
  /\ SetKick(FALSE)
  /\ UNCHANGED <<desired, cfgKick, lifeVars, pendingStart, health, runVars, bomVars, spent>>

BeginPass ==
  /\ sup.pc = "wake"
  /\ sup' = [sup EXCEPT !.pc = "pass", !.todo = Kinds, !.allowed = desired]
  /\ UNCHANGED <<dvars, desired, cfgKick, lifeVars, pendingStart, health, runVars, bomVars, spent>>

EndPass ==
  /\ sup.pc = "pass" /\ sup.todo = {}
  /\ Stage("idle")
  /\ UNCHANGED <<dvars, desired, cfgKick, lifeVars, pendingStart, health, runVars, bomVars, spent>>

\* The top of the loop: read the observation, report mapping lag, skip a
\* kind nothing is known about, and find out whether to retire first.
Observe(k) ==
  /\ sup.pc = "pass" /\ k \in sup.todo
  /\ LET lags == obs[k].lagErr /\ obs[k].lagSeq > lagReported[k] IN
       /\ lagReported' = IF lags THEN [lagReported EXCEPT ![k] = obs[k].lagSeq] ELSE lagReported
       /\ health' = IF lags THEN [health EXCEPT ![k] = MarkUnhealthy(Register(@))] ELSE health
  /\ LET skip == obs[k].state = "Unknown" /\ life[k].state = "Unknown"
         retires == Retires(obs[k], life[k])
     IN /\ sup' = [sup EXCEPT !.kind = k, !.todo = @ \ {k},
                     !.seen = IF skip THEN NoObservation ELSE obs[k],
                     !.pc = IF skip THEN "pass" ELSE IF retires THEN "retire" ELSE "adopt"]
        /\ IF retires THEN Cancel(k) ELSE UNCHANGED runner
  /\ UNCHANGED <<dvars, desired, cfgKick, life, activated, tracked, pendingStart,
                 absent, callback, bomVars, spent>>

\* Mutant: the retired kind stays in TrackedKinds.
RetireTracked(k) ==
  /\ sup.pc = "retire" /\ sup.kind = k
  /\ Stopped(k)
  /\ disable(k, "crd-removed", "retireSweep", "retired")
  /\ UNCHANGED <<dvars, desired, cfgKick, life, activated, tracked, lagReported,
                 absent, callback, bomVars, spent>>

\* Mutant: a reason the registry does not have.
RetireReason(k) ==
  /\ sup.pc = "retire" /\ sup.kind = k
  /\ Stopped(k)
  /\ tracked' = tracked \ {k}
  /\ disable(k, "removed", "retireSweep", "retired")
  /\ UNCHANGED <<dvars, desired, cfgKick, life, activated, lagReported,
                 absent, callback, bomVars, spent>>

\* retire, once its runner has returned.
Retire(k) ==
  /\ sup.pc = "retire" /\ sup.kind = k
  /\ Stopped(k)
  /\ tracked' = tracked \ {k}
  /\ disable(k, "crd-removed", "retireSweep", "retired")
  /\ UNCHANGED <<dvars, desired, cfgKick, life, activated, lagReported,
                 absent, callback, bomVars, spent>>

FinishRetire(k) ==
  /\ sup.pc = "retired" /\ sup.kind = k
  /\ activated' = activated \ {k}
  /\ life' = [life EXCEPT ![k] = [state |-> "Removed", uid |-> 0]]
  /\ Stage("adopt")
  /\ UNCHANGED <<dvars, desired, cfgKick, tracked, lagReported, pendingStart, health,
                 runVars, bomVars, spent>>

\* sweepAIBOMs lists the shared cache and deletes what it finds there; on an
\* error it gives up, and disable only logs it.
Sweep(k) ==
  /\ sup.pc \in {"retireSweep", "sweep"} /\ sup.kind = k
  /\ Stage(IF sup.pc = "sweep" THEN "pass" ELSE "retired")
  /\ \/ aibom' = aibom \ (cached \cap {k}) /\ UNCHANGED spent
     \/ Fault /\ UNCHANGED aibom
  /\ UNCHANGED <<dvars, desired, cfgKick, lifeVars, pendingStart, health, runVars, cached, inflight>>

\* Rows 2-3: a generation newly Ready (activate).
AdoptReady(k) ==
  /\ sup.pc = "adopt" /\ sup.kind = k
  /\ sup.seen.state = "Ready" /\ ~Present(life[k])
  /\ life' = [life EXCEPT ![k] = [state |-> "Ready", uid |-> sup.seen.uid]]
  /\ LET first == k \notin activated IN
       /\ activated' = activated \cup {k}
       /\ health' = IF first THEN [health EXCEPT ![k] = Register(@)] ELSE health
       /\ tracked' = IF first THEN tracked \cup {k} ELSE tracked
       /\ pendingStart' = IF Allowed(k) /\ first /\ sup.seen.late
                          THEN pendingStart \cup {k} ELSE pendingStart
  /\ Stage("allow")
  /\ UNCHANGED <<dvars, desired, cfgKick, lagReported, runVars, bomVars, spent>>

\* Row 6: the same generation is Ready again.
AdoptRecovered(k) ==
  /\ sup.pc = "adopt" /\ sup.kind = k
  /\ sup.seen.state = "Ready" /\ life[k].state = "Unservable"
  /\ life' = [life EXCEPT ![k].state = "Ready"]
  /\ Stage("allow")
  /\ UNCHANGED <<dvars, desired, cfgKick, activated, tracked, lagReported, pendingStart,
                 health, runVars, bomVars, spent>>

BecomesUnservable(o, l) == o.state = "Unservable" /\ l.state = "Ready" /\ o.uid = l.uid

\* Row 5: stop the watch; Unserve follows when the runner has returned.
AdoptUnservable(k) ==
  /\ sup.pc = "adopt" /\ sup.kind = k
  /\ BecomesUnservable(sup.seen, life[k])
  /\ life' = [life EXCEPT ![k].state = "Unservable"]
  /\ Cancel(k)
  /\ Stage("unserve")
  /\ UNCHANGED <<dvars, desired, cfgKick, activated, tracked, lagReported, pendingStart,
                 health, absent, callback, bomVars, spent>>

AdoptNothing(k) ==
  /\ sup.pc = "adopt" /\ sup.kind = k
  /\ ~(sup.seen.state = "Ready" /\ life[k].state # "Ready")
  /\ ~BecomesUnservable(sup.seen, life[k])
  /\ Stage("allow")
  /\ UNCHANGED <<dvars, desired, cfgKick, lifeVars, pendingStart, health, runVars, bomVars, spent>>

Unserve(k) ==
  /\ sup.pc = "unserve" /\ sup.kind = k
  /\ Stopped(k)
  /\ health' = IF Allowed(k) THEN [health EXCEPT ![k] = MarkUnhealthy(@)] ELSE health
  /\ Stage("allow")
  /\ UNCHANGED <<dvars, desired, cfgKick, lifeVars, absent, callback, bomVars, spent>>

\* applyAllowlist for a Ready kind: start it.
StartRunner(k) ==
  /\ sup.pc = "allow" /\ sup.kind = k
  /\ life[k].state = "Ready" /\ Allowed(k) /\ ~Running(k)
  /\ health' = [health EXCEPT ![k] = MarkStarting(@)]
  /\ runner' = [runner EXCEPT ![k] = [NoRunner EXCEPT !.pc = "probe"]]
  /\ Stage("pass")
  /\ UNCHANGED <<dvars, desired, cfgKick, lifeVars, pendingStart, absent, callback, bomVars, spent>>

\* ... stop it: Exclude follows when the runner has returned.
StopExcluded(k) ==
  /\ sup.pc = "allow" /\ sup.kind = k
  /\ life[k].state = "Ready" /\ ~Allowed(k) /\ Running(k)
  /\ Cancel(k)
  /\ Stage("exclude")
  /\ UNCHANGED <<dvars, desired, cfgKick, lifeVars, pendingStart, health, absent, callback, bomVars, spent>>

Exclude(k) ==
  /\ sup.pc = "exclude" /\ sup.kind = k
  /\ Stopped(k)
  /\ disable(k, "config", "sweep", "pass")
  /\ UNCHANGED <<dvars, desired, cfgKick, lifeVars, absent, callback, bomVars, spent>>

\* ... or disable it; an Unservable kind has no runner and is disabled too.
DisableExcluded(k) ==
  /\ sup.pc = "allow" /\ sup.kind = k
  /\ ~Allowed(k)
  /\ life[k].state = "Ready" => ~Running(k)
  /\ Present(life[k])
  /\ disable(k, "config", "sweep", "pass")
  /\ UNCHANGED <<dvars, desired, cfgKick, lifeVars, pendingStart, runVars, bomVars, spent>>

\* An Unservable kind that is allowed again is Degraded; all else stays.
LeaveAlone(k) ==
  /\ sup.pc = "allow" /\ sup.kind = k
  /\ \/ life[k].state = "Ready" /\ Allowed(k) /\ Running(k)
     \/ life[k].state = "Unservable" /\ Allowed(k)
     \/ ~Present(life[k])
  /\ health' = IF life[k].state = "Unservable" /\ health[k].disabled # "no"
               THEN [health EXCEPT ![k] = MarkUnhealthy(@)] ELSE health
  /\ Stage("pass")
  /\ UNCHANGED <<dvars, desired, cfgKick, lifeVars, pendingStart, runVars, bomVars, spent>>

ApplyKind(k) ==
  \/ Observe(k) \/ Retire(k) \/ FinishRetire(k) \/ Sweep(k)
  \/ AdoptReady(k) \/ AdoptRecovered(k) \/ AdoptUnservable(k) \/ AdoptNothing(k)
  \/ Unserve(k) \/ StartRunner(k) \/ StopExcluded(k) \/ Exclude(k)
  \/ DisableExcluded(k) \/ LeaveAlone(k)

ApplyNext == TakeKick \/ BeginPass \/ EndPass \/ \E k \in Kinds : ApplyKind(k)

-----------------------------------------------------------------------------
(* The runner goroutine of a kind (run, probe, runOnce). *)

\* runnerError.  An absence-shaped error wakes discovery and is recorded
\* only when its streak has outlasted CacheSyncTimeout, which is time's
\* choice; any other error ends the streak and is recorded at once.
runnerError(k, e) ==
  \/ /\ e = "absence"
     /\ PokeWorker(k)
     /\ \/ /\ absent' = absent \cup {k}
           /\ UNCHANGED health
        \/ /\ k \in absent
           /\ health' = [health EXCEPT ![k] = MarkUnhealthy(@)]
           /\ UNCHANGED absent
  \/ /\ e = "other"
     /\ absent' = absent \ {k}
     /\ health' = [health EXCEPT ![k] = MarkUnhealthy(@)]
     /\ UNCHANGED dvars

supVars == <<desired, cfgKick, sup, lifeVars>>

RunnerGoto(k, pc) == runner' = [runner EXCEPT ![k].pc = pc]

\* A probe fails: the API server's answer (a fault), or the runner's own
\* context was cancelled under it.
ProbeError(k, e) ==
  /\ \/ Fault
     \/ runner[k].cancelled /\ e = "other" /\ UNCHANGED spent
  /\ runnerError(k, e)

ProbeOk(k) ==
  /\ runner[k].pc = "probe"
  /\ runner' = [runner EXCEPT ![k].pc = "watch", ![k].synced = FALSE]
  /\ UNCHANGED <<dvars, supVars, pendingStart, health, absent, callback, bomVars, spent>>

ProbeFails(k) ==
  /\ runner[k].pc = "probe"
  /\ \E e \in {"absence", "other"} : ProbeError(k, e)
  /\ RunnerGoto(k, "backoff")
  /\ UNCHANGED <<supVars, pendingStart, callback, bomVars>>

BackoffEnds(k) ==
  /\ runner[k].pc = "backoff" /\ ~runner[k].cancelled
  /\ RunnerGoto(k, "probe")
  /\ UNCHANGED <<dvars, supVars, pendingStart, health, absent, callback, bomVars, spent>>

\* The kind's informer has synced: WatchStarted when it is owed.
Synced(k) ==
  /\ runner[k].pc = "watch" /\ ~runner[k].synced
  /\ runner' = [runner EXCEPT ![k].synced = TRUE]
  /\ absent' = absent \ {k}
  /\ pendingStart' = pendingStart \ {k}
  /\ health' = [health EXCEPT ![k] = MarkHealthy(@)]
  /\ UNCHANGED <<dvars, supVars, callback, bomVars, spent>>

\* Mutant: any probe that succeeds marks the kind healthy.
TickOkAlways(k) ==
  /\ runner[k].pc = "watch"
  /\ absent' = absent \ {k}
  /\ health' = [health EXCEPT ![k] = MarkHealthy(@)]
  /\ UNCHANGED <<dvars, supVars, pendingStart, runner, callback, bomVars, spent>>

\* The periodic probe: only the sync may mark a kind healthy that still owes
\* its WatchStarted.
TickOk(k) ==
  /\ runner[k].pc = "watch"
  /\ absent' = absent \ {k}
  /\ health' = IF ~runner[k].synced /\ k \in pendingStart THEN health
               ELSE [health EXCEPT ![k] = MarkHealthy(@)]
  /\ UNCHANGED <<dvars, supVars, pendingStart, runner, callback, bomVars, spent>>

TickFails(k) ==
  /\ runner[k].pc = "watch"
  /\ \E e \in {"absence", "other"} : ProbeError(k, e)
  /\ UNCHANGED <<supVars, pendingStart, runner, callback, bomVars>>

\* The watch cannot be set up or the controller returns (sync timeout, start
\* error): recorded unless the watch-error handler has recorded the cause;
\* the watch is rebuilt.
ControllerStops(k) ==
  /\ runner[k].pc = "watch" /\ ~runner[k].cancelled
  /\ Fault
  /\ IF Degraded(health[k]) THEN UNCHANGED <<dvars, health, absent>>
                            ELSE \E e \in {"absence", "other"} : runnerError(k, e)
  /\ RunnerGoto(k, "backoff")
  /\ UNCHANGED <<supVars, pendingStart, callback, bomVars>>

\* The goroutine sees its cancelled context and returns.
RunnerReturns(k) ==
  /\ runner[k].pc \in {"watch", "backoff"} /\ runner[k].cancelled
  /\ RunnerGoto(k, "done")
  /\ UNCHANGED <<dvars, supVars, pendingStart, health, absent, callback, bomVars, spent>>

\* The reflector of the kind's cache fails a list or watch; its handler runs
\* in the reflector's goroutine, which nobody waits for.
ReflectorFails(k) ==
  /\ runner[k].pc = "watch" /\ ~runner[k].cancelled /\ callback[k] = "none"
  /\ Fault
  /\ \E e \in {"absence", "other"} : callback' = [callback EXCEPT ![k] = e]
  /\ UNCHANGED <<dvars, supVars, pendingStart, health, runner, absent, bomVars>>

WatchErrorHandler(k) ==
  /\ callback[k] # "none"
  /\ runnerError(k, callback[k])
  /\ callback' = [callback EXCEPT ![k] = "none"]
  /\ UNCHANGED <<supVars, pendingStart, runner, bomVars, spent>>

RunnerNext(k) ==
  \/ ProbeOk(k) \/ ProbeFails(k) \/ BackoffEnds(k) \/ Synced(k) \/ TickOk(k)
  \/ TickFails(k) \/ ControllerStops(k) \/ RunnerReturns(k) \/ ReflectorFails(k)
  \/ WatchErrorHandler(k)

-----------------------------------------------------------------------------
(* Reconciles of the kind's controller, and the shared AIBOM cache. *)

\* A reconcile checks the allowlist, then sends its AIBOM write.  The runner
\* does not wait for the controller it started.
ReconcileSends(k) ==
  /\ runner[k].pc = "watch" /\ runner[k].synced /\ ~runner[k].cancelled
  /\ k \in desired /\ k \notin inflight /\ spent.writes < MaxWrites
  /\ spent' = [spent EXCEPT !.writes = @ + 1]
  /\ inflight' = inflight \cup {k}
  /\ UNCHANGED <<dvars, supVars, pendingStart, health, runVars, aibom, cached>>

\* The API server carries the write out, or the cancelled call was in time.
WriteLands(k) ==
  /\ k \in inflight
  /\ inflight' = inflight \ {k}
  /\ aibom' \in {aibom, aibom \cup {k}}
  /\ UNCHANGED <<dvars, supVars, pendingStart, health, runVars, cached, spent>>

CacheCatchesUp ==
  /\ cached # aibom
  /\ cached' = aibom
  /\ UNCHANGED <<dvars, supVars, pendingStart, health, runVars, aibom, inflight, spent>>

ReconcileNext == CacheCatchesUp \/ \E k \in Kinds : ReconcileSends(k) \/ WriteLands(k)

-----------------------------------------------------------------------------

DiscoveryStep == (\E k \in Kinds : ServerNext(k) \/ WorkerNext(k)) /\ UNCHANGED svars

Next ==
  \/ DiscoveryStep
  \/ ConfigNext
  \/ ApplyNext
  \/ \E k \in Kinds : RunnerNext(k)
  \/ ReconcileNext

Spec == Init /\ [][Next]_vars

\* Goroutines that can run do run: Go schedules every runnable goroutine,
\* every select here has an enabled case, reads and probes have timeouts.
\* Nothing is assumed of the API server, the configuration or the failures.
WorkerFairness(k) ==
  /\ WF_vars(ReadCRD(k) /\ UNCHANGED svars)
  /\ WF_vars(Classify(k) /\ UNCHANGED svars)
  /\ WF_vars(KickApply(k) /\ UNCHANGED svars)

RunnerFairness(k) ==
  /\ WF_vars(ProbeOk(k) \/ ProbeFails(k))
  /\ WF_vars(BackoffEnds(k))
  /\ WF_vars(Synced(k))
  /\ WF_vars(RunnerReturns(k))

Fairness ==
  /\ WF_vars(ApplyNext) /\ WF_vars(KickDesired)
  /\ \A k \in Kinds : WorkerFairness(k) /\ RunnerFairness(k)

FairSpec == Spec /\ Fairness

-----------------------------------------------------------------------------
(* Properties *)

\* Nothing is left for apply() to do, and nobody is about to wake it.
Settled ==
  /\ sup.pc = "idle" /\ ~kick /\ ~cfgKick
  /\ \A k \in Kinds : worker[k].pc \notin {"kick", "kickMore"}

\* The destructive path needs evidence (Design 004 A1): while AIBOMs of a
\* kind are being swept, the kind is excluded by the allowlist of this pass,
\* or the generation the supervisor acted on is really gone from the API
\* server, whatever was re-installed, edited or misread meanwhile.
SweepNeedsEvidence ==
  sup.pc \in {"retireSweep", "sweep"} =>
    \/ ~Allowed(sup.kind)
    \/ Gone(crd[sup.kind], life[sup.kind].uid)

\* stopRunner waits: no goroutine of a kind's runner is alive while its
\* AIBOMs are swept or its generation is forgotten, so no second runner can
\* start beside it.
SweepWithoutRunner ==
  sup.pc \in {"retireSweep", "retired", "sweep"} => ~Running(sup.kind)

\* No wake-up is lost: when apply() rests and nobody is about to kick it, it
\* has acted on the live allowlist and on the last observation of each kind.
\* A Ready generation is the one it runs, an Unservable one is not run, and
\* exactly the Ready and allowed kinds have a runner, not being stopped.
RestMeansApplied ==
  Settled =>
    \A k \in Kinds :
      /\ obs[k].state = "Ready" => life[k] = [state |-> "Ready", uid |-> obs[k].uid]
      /\ obs[k].state = "Unservable" /\ obs[k].uid = life[k].uid => life[k].state = "Unservable"
      /\ Running(k) <=> (life[k].state = "Ready" /\ k \in desired)
      /\ ~runner[k].cancelled

\* TrackedKinds membership follows the CRD's presence, not health or the
\* allowlist (Design 004 A2), between any two kinds of a pass.
MembershipFollowsPresence ==
  sup.pc \in {"idle", "wake", "pass"} => tracked = {k \in Kinds : Present(life[k])}

\* A kind that owes WatchStarted was installed after the supervisor started
\* and is not healthy: its first healthy transition is the sync that
\* announces it, never a probe (Design 004 A4).
WatchStartedOwed ==
  \A k \in pendingStart : life[k].uid > boot[k] /\ ~health[k].healthy

\* The informer of the kind has synced and runs, or its failure is on record.
WatchedOrDegraded(k) ==
  \/ runner[k].pc = "watch" /\ runner[k].synced
  \/ Degraded(health[k])

\* A CRD that stays Ready and allowed gets its watch: the supervisor ends up
\* on that very generation with a runner that is not being stopped and that
\* synced, or whose failure the health registry shows, however often the CRD
\* was re-created before (apply, runOnce, runnerError).
ReadyIsServed ==
  \A k \in Kinds :
    <>[](crd[k].uid # 0 /\ crd[k].ready /\ ~crd[k].deleting /\ k \in desired)
      => <>[](/\ life[k] = [state |-> "Ready", uid |-> crd[k].uid]
              /\ Running(k) /\ ~runner[k].cancelled
              /\ WatchedOrDegraded(k))

-----------------------------------------------------------------------------
(* Statements of the documentation the code does not keep. *)

\* "a removal, or a new UID, retires the current generation before anything
\* else" (apply); "Rapid flips collapse to the latest state" (A5): at rest,
\* no generation is kept alive that discovery knows to be removed.
RemovedIsRetired ==
  Settled => \A k \in Kinds : obs[k].state = "Removed" => ~Present(life[k])

\* A kind without an informer by decision: its CRD was removed, or the
\* allowlist excludes it.
DisabledByDecision(k) == life[k].state = "Removed" \/ (Present(life[k]) /\ k \notin desired)

\* "Disabled is true while the kind has no informer by decision ... Never
\* Degraded" (WatchStatus); "Stopped and marked disabled; Degraded clears for
\* that kind" (Design 006): whatever the stopped runner still reports.
DisabledIsNeverDegraded ==
  Settled => \A k \in Kinds : DisabledByDecision(k) => ~Degraded(health[k])

\* "A kind not in the list gets no documents and its existing ones are
\* deleted" (README): once the allowlist is applied, every write has landed
\* and the cache shows it, no AIBOM of an excluded kind is left.
ExcludedIsSwept ==
  Settled /\ inflight = {} /\ cached = aibom =>
    \A k \in Kinds : Present(life[k]) /\ k \notin desired => k \notin aibom
=============================================================================
