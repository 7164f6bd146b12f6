---------------------------- MODULE CRDDiscovery ----------------------------
(***************************************************************************)
(* Discovery of the third-party CRDs                                       *)
(* (internal/controller/watch_discovery.go): one worker goroutine per      *)
(* candidate kind, woken by a one-slot channel, reads the full CRD by      *)
(* name, classifies it against what it last published and publishes an     *)
(* observation for the supervisor's apply loop, which it then wakes        *)
(* through another one-slot channel.  The read, the classification and     *)
(* the wake-up are separate steps: the CRD may change, be deleted and be   *)
(* re-created between any two of them.                                     *)
(*                                                                         *)
(* The CRD informer is represented by the fact that every change of a CRD  *)
(* pokes its worker: the event may only add a read, never skip one.        *)
(***************************************************************************)
EXTENDS Integers

CONSTANTS Kinds,      \* the compiled-in candidate kinds
          MaxUid,     \* bound: CRD generations per kind
          MaxEdits,   \* bound: edits of a CRD that change whether it is Ready
          MaxLag,     \* bound: NoMatch answers of the RESTMapper
          MaxErrors   \* bound: failed reads of a CRD

ASSUME DiscoveryBounds ==
  /\ MaxUid \in Nat /\ MaxEdits \in Nat /\ MaxLag \in Nat /\ MaxErrors \in Nat

VARIABLES
  crd,      \* crd[k]: the CRD object in the API server
  top,      \* top[k]: the newest UID the API server has given to k's CRD
  boot,     \* boot[k]: top[k] when the supervisor started (never changes)
  worker,   \* worker[k]: the crdWorker and the program counter of its goroutine
  poked,    \* poked[k]: the worker's kick channel holds a token
  obs,      \* obs[k]: the observation last published for k (s.crd.obs)
  kick,     \* the supervisor's kick channel holds a token
  used      \* how much of each bound above has been used

crdVars == <<crd, top, boot>>
dvars == <<crd, top, boot, worker, poked, obs, kick, used>>

L == INSTANCE CRDLifecycle
       WITH pub <- [k \in Kinds |-> [state |-> obs[k].state, uid |-> obs[k].uid]]

CRDObject == L!CRDObject
NoCRD == L!NoCRD
crdState == L!crdState
Gone(c, u) == L!Gone(c, u)

\* lag: the CRD is Ready but not mapped: since a while, or already reported.
\* got: the CRD object the last read returned, used by the classification.
\* retry: the worker's backoff timer is armed.
workerPC == {"idle", "classify", "kick", "kickMore"}
crdWorker ==
  [pc : workerPC, got : CRDObject, state : crdState,
   uid : Nat, sawAbsent : BOOLEAN, firstUID : Nat, lag : {"no", "since", "reported"},
   lagSeq : Nat, retry : BOOLEAN]

crdObservation ==
  [state : crdState, uid : Nat, late : BOOLEAN, lagErr : BOOLEAN, lagSeq : Nat]

NoObservation ==
  [state |-> "Unknown", uid |-> 0, late |-> FALSE, lagErr |-> FALSE, lagSeq |-> 0]

DiscoveryTypeOK ==
  /\ crd \in [Kinds -> CRDObject]
  /\ top \in [Kinds -> Nat]
  /\ boot \in [Kinds -> Nat]
  /\ worker \in [Kinds -> crdWorker]
  /\ poked \in [Kinds -> BOOLEAN]
  /\ obs \in [Kinds -> crdObservation]
  /\ kick \in BOOLEAN
  /\ used \in [edits : Nat, lag : Nat, errors : Nat]

\* The supervisor starts (on winning the lease) in any cluster: the CRD may
\* be absent, present and not Ready, Ready, or being deleted.
DiscoveryInit ==
  /\ crd \in [Kinds -> {NoCRD} \cup [uid : {1}, ready : BOOLEAN, deleting : BOOLEAN]]
  /\ top = [k \in Kinds |-> crd[k].uid]
  /\ boot = top
  /\ worker = [k \in Kinds |->
       [pc |-> "idle", got |-> NoCRD, state |-> "Unknown", uid |-> 0, sawAbsent |-> FALSE,
        firstUID |-> 0, lag |-> "no", lagSeq |-> 0, retry |-> FALSE]]
  /\ poked = [k \in Kinds |-> TRUE]       \* the startup read
  /\ obs = [k \in Kinds |-> NoObservation]
  /\ kick = TRUE                          \* Start's setDesired
  /\ used = [edits |-> 0, lag |-> 0, errors |-> 0]

-----------------------------------------------------------------------------
(* The API server.  Each change reaches the worker as an informer event. *)

ServerChange(k, c) ==
  /\ crd' = [crd EXCEPT ![k] = c]
  /\ poked' = [poked EXCEPT ![k] = TRUE]
  /\ UNCHANGED <<boot, worker, obs, kick>>

InstallCRD(k) ==
  /\ crd[k].uid = 0 /\ top[k] < MaxUid
  /\ top' = [top EXCEPT ![k] = @ + 1]
  /\ \E r \in BOOLEAN :
       ServerChange(k, [uid |-> top[k] + 1, ready |-> r, deleting |-> FALSE])
  /\ UNCHANGED used

\* Served versions, scope, names or the Established condition change.
EditCRD(k) ==
  /\ crd[k].uid # 0 /\ used.edits < MaxEdits
  /\ ServerChange(k, [crd[k] EXCEPT !.ready = ~@])
  /\ used' = [used EXCEPT !.edits = @ + 1]
  /\ UNCHANGED top

BeginDeleteCRD(k) ==
  /\ crd[k].uid # 0 /\ ~crd[k].deleting
  /\ ServerChange(k, [crd[k] EXCEPT !.deleting = TRUE])
  /\ UNCHANGED <<top, used>>

FinishDeleteCRD(k) ==
  /\ crd[k].deleting
  /\ ServerChange(k, NoCRD)
  /\ UNCHANGED <<top, used>>

ServerNext(k) == InstallCRD(k) \/ EditCRD(k) \/ BeginDeleteCRD(k) \/ FinishDeleteCRD(k)

-----------------------------------------------------------------------------
(* One worker goroutine per kind (runCRDWorker, readCRD). *)

\* The worker tracks a generation it published as Ready or Unservable.
Tracks(w) == w.state \in {"Ready", "Unservable"}

\* isLate: only this supervisor's own successful reads count as evidence
\* that the generation was installed after the supervisor started.
isLate(w, uid) == w.sawAbsent \/ (w.firstUID # 0 /\ w.firstUID # uid)

\* The call of readCRD goes on at pc; what the GET returned is forgotten
\* unless it is still to be classified.
Goto(w, pc) == [w EXCEPT !.pc = pc, !.got = IF pc = "kickMore" THEN @ ELSE NoCRD]
SetWorker(k, w) == worker' = [worker EXCEPT ![k] = w]

\* publish: the observation is recorded now, the kick follows as a step of
\* its own.
publish(k, state, uid, late) ==
  obs' = [obs EXCEPT ![k] = [state |-> state, uid |-> uid, late |-> late,
                             lagErr |-> FALSE, lagSeq |-> worker[k].lagSeq]]

\* The worker wakes up (kick or retry timer) and its GET answers.
ReadCRD(k) ==
  /\ worker[k].pc = "idle" /\ (poked[k] \/ worker[k].retry)
  /\ poked' = [poked EXCEPT ![k] = FALSE]
  /\ SetWorker(k, [worker[k] EXCEPT !.pc = "classify", !.got = crd[k], !.retry = FALSE,
                     !.firstUID = IF @ = 0 THEN crd[k].uid ELSE @])
  /\ UNCHANGED <<crdVars, obs, kick, used>>

\* Mutant: any failed GET counts as an absence.
ReadFailsIsAbsence(k) ==
  /\ worker[k].pc = "idle" /\ (poked[k] \/ worker[k].retry)
  /\ used.errors < MaxErrors
  /\ used' = [used EXCEPT !.errors = @ + 1]
  /\ poked' = [poked EXCEPT ![k] = FALSE]
  /\ SetWorker(k, [worker[k] EXCEPT !.retry = TRUE, !.sawAbsent = TRUE])
  /\ UNCHANGED <<crdVars, obs, kick>>

\* Mutant: a failed GET is not retried.
ReadFailsUnretried(k) ==
  /\ worker[k].pc = "idle" /\ (poked[k] \/ worker[k].retry)
  /\ used.errors < MaxErrors
  /\ used' = [used EXCEPT !.errors = @ + 1]
  /\ poked' = [poked EXCEPT ![k] = FALSE]
  /\ SetWorker(k, [worker[k] EXCEPT !.retry = FALSE])
  /\ UNCHANGED <<crdVars, obs, kick>>

\* The GET fails with anything but NotFound: no evidence, retried.
ReadFails(k) ==
  /\ worker[k].pc = "idle" /\ (poked[k] \/ worker[k].retry)
  /\ used.errors < MaxErrors
  /\ used' = [used EXCEPT !.errors = @ + 1]
  /\ poked' = [poked EXCEPT ![k] = FALSE]
  /\ SetWorker(k, [worker[k] EXCEPT !.retry = TRUE])
  /\ UNCHANGED <<crdVars, obs, kick>>

\* Mutant: the removal names the object just read.
removeRead(k, pc) ==
  /\ publish(k, "Removed", worker[k].got.uid, FALSE)
  /\ SetWorker(k, [Goto(worker[k], pc) EXCEPT !.state = "Removed",
                     !.sawAbsent = TRUE, !.lag = "no"])

\* Mutant: the removal is published under a state of its own.
removeDeleting(k, pc) ==
  /\ publish(k, "Deleting", worker[k].uid, FALSE)
  /\ SetWorker(k, [Goto(worker[k], pc) EXCEPT !.state = "Removed",
                     !.sawAbsent = TRUE, !.lag = "no"])

\* removeObserved: publish the removal of the tracked generation, forget it.
removeObserved(k, pc) ==
  /\ publish(k, "Removed", worker[k].uid, FALSE)
  /\ SetWorker(k, [Goto(worker[k], pc) EXCEPT !.state = "Removed",
                     !.sawAbsent = TRUE, !.lag = "no"])

\* The rest of readCRD, on what the GET returned.
ClassifyAbsent(k) ==
  /\ worker[k].pc = "classify" /\ worker[k].got.uid = 0
  /\ \/ Tracks(worker[k]) /\ removeObserved(k, "kick")
     \/ /\ ~Tracks(worker[k])
        /\ SetWorker(k, [Goto(worker[k], "idle") EXCEPT !.sawAbsent = TRUE])
        /\ UNCHANGED obs
  /\ UNCHANGED <<crdVars, poked, kick, used>>

\* Mutant: the old generation is forgotten without a word.
ClassifyReplacedSilently(k) ==
  /\ worker[k].pc = "classify" /\ worker[k].got.uid # 0
  /\ Tracks(worker[k]) /\ worker[k].got.uid # worker[k].uid
  /\ SetWorker(k, [worker[k] EXCEPT !.state = "Removed"])
  /\ UNCHANGED <<crdVars, poked, obs, kick, used>>

\* Another UID under the same name: the tracked generation is published as
\* Removed, and the same call goes on to classify the new one.
ClassifyReplaced(k) ==
  /\ worker[k].pc = "classify" /\ worker[k].got.uid # 0
  /\ Tracks(worker[k]) /\ worker[k].got.uid # worker[k].uid
  /\ removeObserved(k, "kickMore")
  /\ UNCHANGED <<crdVars, poked, kick, used>>

\* The object is the tracked generation, or no generation is tracked.
Current(k) ==
  /\ worker[k].pc = "classify" /\ worker[k].got.uid # 0
  /\ Tracks(worker[k]) => worker[k].got.uid = worker[k].uid

ClassifyDeleting(k) ==
  /\ Current(k) /\ worker[k].got.deleting
  /\ \/ Tracks(worker[k]) /\ removeObserved(k, "kick")
     \/ /\ ~Tracks(worker[k])
        /\ SetWorker(k, Goto(worker[k], "idle"))
        /\ UNCHANGED obs
  /\ UNCHANGED <<crdVars, poked, kick, used>>

ClassifyNotReady(k) ==
  /\ Current(k) /\ ~worker[k].got.deleting /\ ~worker[k].got.ready
  /\ \/ /\ worker[k].state = "Ready"
        /\ publish(k, "Unservable", worker[k].got.uid, FALSE)
        /\ SetWorker(k, [Goto(worker[k], "kick") EXCEPT !.state = "Unservable"])
     \/ /\ worker[k].state # "Ready"
        /\ SetWorker(k, Goto(worker[k], "idle"))
        /\ UNCHANGED obs
  /\ UNCHANGED <<crdVars, poked, kick, used>>

ClassifyStillReady(k) ==
  /\ Current(k) /\ ~worker[k].got.deleting /\ worker[k].got.ready
  /\ worker[k].state = "Ready"
  /\ SetWorker(k, Goto(worker[k], "idle"))
  /\ UNCHANGED <<crdVars, poked, obs, kick, used>>

ClassifyBecomesReady(k) ==
  /\ Current(k) /\ ~worker[k].got.deleting /\ worker[k].got.ready
  /\ worker[k].state # "Ready"
  /\ publish(k, "Ready", worker[k].got.uid,
             worker[k].state # "Unservable" /\ isLate(worker[k], worker[k].got.uid))
  /\ SetWorker(k, [Goto(worker[k], "kick") EXCEPT !.state = "Ready",
                     !.uid = worker[k].got.uid, !.lag = "no"])
  /\ UNCHANGED <<crdVars, poked, kick, used>>

\* The RESTMapper does not resolve the kind yet: retried, and reported once
\* when it has lasted longer than CacheSyncTimeout, which is time's choice.
ClassifyNoMatch(k) ==
  /\ Current(k) /\ ~worker[k].got.deleting /\ worker[k].got.ready
  /\ worker[k].state # "Ready" /\ used.lag < MaxLag
  /\ used' = [used EXCEPT !.lag = @ + 1]
  /\ \/ /\ SetWorker(k, [Goto(worker[k], "idle") EXCEPT !.retry = TRUE,
                        !.lag = IF @ = "no" THEN "since" ELSE @])
        /\ UNCHANGED obs
     \/ /\ worker[k].lag = "since"
        /\ SetWorker(k, [Goto(worker[k], "kick") EXCEPT !.retry = TRUE,
                        !.lag = "reported", !.lagSeq = @ + 1])
        /\ obs' = [obs EXCEPT ![k] = [@ EXCEPT !.lagErr = TRUE, !.lagSeq = worker[k].lagSeq + 1]]
  /\ UNCHANGED <<crdVars, poked, kick>>

\* Mutant: the observation is recorded and apply() not woken.
KickNobody(k) ==
  /\ worker[k].pc \in {"kick", "kickMore"}
  /\ SetWorker(k, [worker[k] EXCEPT !.pc = IF @ = "kick" THEN "idle" ELSE "classify"])
  /\ UNCHANGED <<crdVars, poked, obs, kick, used>>

\* The second half of publish: wake apply(), whose channel has one slot.
KickApply(k) ==
  /\ worker[k].pc \in {"kick", "kickMore"}
  /\ kick' = TRUE
  /\ SetWorker(k, [worker[k] EXCEPT !.pc = IF @ = "kick" THEN "idle" ELSE "classify"])
  /\ UNCHANGED <<crdVars, poked, obs, used>>

Classify(k) ==
  \/ ClassifyAbsent(k) \/ ClassifyReplaced(k) \/ ClassifyDeleting(k)
  \/ ClassifyNotReady(k) \/ ClassifyStillReady(k) \/ ClassifyBecomesReady(k)
  \/ ClassifyNoMatch(k)

WorkerNext(k) == ReadCRD(k) \/ ReadFails(k) \/ Classify(k) \/ KickApply(k)

-----------------------------------------------------------------------------
(* What the rest of the supervisor does to discovery's state. *)

\* A runner that meets an absence-shaped error asks for a read.
PokeWorker(k) ==
  /\ poked' = [poked EXCEPT ![k] = TRUE]
  /\ UNCHANGED <<crdVars, worker, obs, kick, used>>

\* apply() is woken, and the configuration subscriber wakes it too.
SetKick(b) ==
  /\ kick' = b
  /\ UNCHANGED <<crdVars, worker, poked, obs, used>>

DiscoveryNext ==
  \/ \E k \in Kinds : ServerNext(k) \/ WorkerNext(k) \/ PokeWorker(k)
  \/ \E b \in BOOLEAN : SetKick(b)

DiscoverySpec == DiscoveryInit /\ [][DiscoveryNext]_dvars

-----------------------------------------------------------------------------
(* Properties *)

\* A generation published as Removed is really gone from the API server and
\* never comes back, however long ago the read was made (readCRD: "Row 8:
\* confirmed by a full read").  This is what makes the sweep safe.
RemovedIsGone ==
  \A k \in Kinds : obs[k].state = "Removed" => Gone(crd[k], obs[k].uid)

\* WatchStarted is promised only for a generation installed after the
\* supervisor started: a CRD that was there at start is never late, whatever
\* reads failed and whatever was re-created (isLate).
LateIsAfterStart ==
  \A k \in Kinds : obs[k].late => obs[k].uid > boot[k]

\* The observation apply() reads is the worker's own state as soon as the
\* worker rests, and it agrees with the CRD in the API server when no read
\* is due: no informer event, lag or failed read is lost.
RestingWorkerIsCurrent ==
  \A k \in Kinds :
    worker[k].pc = "idle" /\ ~poked[k] /\ ~worker[k].retry =>
      LET live == crd[k].uid # 0 /\ ~crd[k].deleting IN
      /\ live /\ crd[k].ready => obs[k].state = "Ready" /\ obs[k].uid = crd[k].uid
      /\ live /\ ~crd[k].ready =>
           obs[k].state \in {"Unknown", "Removed"}
             \/ (obs[k].state = "Unservable" /\ obs[k].uid = crd[k].uid)
      /\ ~live => obs[k].state \in {"Unknown", "Removed"}

\* Discovery publishes exactly the transitions of the A1 state machine.
ImplementsLifecycle == L!LSpec
=============================================================================
