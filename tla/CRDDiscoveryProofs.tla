------------------------- MODULE CRDDiscoveryProofs -------------------------
(***************************************************************************)
(* Proofs about CRDDiscovery, for every set of kinds and all bounds.       *)
(*                                                                         *)
(* The argument is about UIDs: the API server holds the newest UID it has  *)
(* given out or none, so a generation that is gone, and not younger than   *)
(* the newest one, stays gone.  A read may be arbitrarily old when it is   *)
(* classified, but "gone" read then is still gone now.                     *)
(***************************************************************************)
EXTENDS CRDDiscovery, TLAPS

\* The worker is between its GET and the end of the classification.
HasRead(k) == worker[k].pc \in {"classify", "kickMore"}

\* A UID the API server has given out.
Issued(k, u) == u # 0 /\ u <= top[k]

\* The API server holds the newest generation or none.
ServerInv(k) ==
  /\ crd[k].uid \in {0, top[k]}
  /\ boot[k] <= top[k]

\* What the worker remembers are UIDs given out since the start, and obs is
\* the worker's own state.
MemoryInv(k) ==
  /\ worker[k].uid # 0 => Issued(k, worker[k].uid) /\ worker[k].uid >= boot[k]
  /\ worker[k].firstUID # 0 => Issued(k, worker[k].firstUID) /\ worker[k].firstUID >= boot[k]
  /\ worker[k].state = "Unknown" <=> worker[k].uid = 0
  /\ obs[k].state = worker[k].state /\ obs[k].uid = worker[k].uid

\* What was gone when the CRD was read is gone now.
ReadInv(k) ==
  HasRead(k) =>
    /\ \A u \in {worker[k].uid, worker[k].got.uid, boot[k]} :
         u # 0 /\ Gone(worker[k].got, u) => Gone(crd[k], u)
    /\ worker[k].got.uid # 0 =>
         /\ Issued(k, worker[k].got.uid)
         /\ worker[k].got.uid >= worker[k].uid
         /\ worker[k].got.uid >= boot[k]
         /\ worker[k].firstUID # 0 /\ worker[k].firstUID <= worker[k].got.uid
         /\ ~worker[k].got.deleting =>
              /\ worker[k].state = "Removed" => worker[k].got.uid # worker[k].uid
              /\ worker[k].sawAbsent => worker[k].got.uid > boot[k]
    /\ worker[k].pc = "kickMore" =>
         worker[k].state = "Removed" /\ worker[k].got.uid # 0

AbsenceInv(k) ==
  /\ worker[k].state = "Removed" => Gone(crd[k], worker[k].uid)
  /\ worker[k].sawAbsent => boot[k] = 0 \/ Gone(crd[k], boot[k])
  /\ obs[k].late => obs[k].uid > boot[k]

KindInv(k) == ServerInv(k) /\ MemoryInv(k) /\ ReadInv(k) /\ AbsenceInv(k)

DiscoveryInv == DiscoveryTypeOK /\ \A k \in Kinds : KindInv(k)
-----------------------------------------------------------------------------
(* Type correctness *)

\* The members of the enumerations and of CRDObject; their definitions stay
\* folded where records are updated.
LEMMA Members ==
  /\ NoCRD \in CRDObject /\ NoCRD.uid = 0 /\ ~NoCRD.deleting
  /\ \A c \in CRDObject : c.uid \in Nat /\ c.ready \in BOOLEAN /\ c.deleting \in BOOLEAN
  /\ crdState = {"Unknown", "Ready", "Unservable", "Removed"}
  /\ workerPC = {"idle", "classify", "kick", "kickMore"}
  BY DEF NoCRD, CRDObject, crdState, workerPC, L!NoCRD, L!CRDObject, L!crdState

\* InstallCRD creates an object of the type, with the next UID.
LEMMA NewObject ==
  ASSUME NEW u \in Nat, NEW r \in BOOLEAN, NEW d \in BOOLEAN
  PROVE  [uid |-> u, ready |-> r, deleting |-> d] \in CRDObject
  BY DEF CRDObject, L!CRDObject

\* The state the supervisor starts in has its type.
LEMMA TypeInit == DiscoveryInit => DiscoveryTypeOK
<1> SUFFICES ASSUME DiscoveryInit PROVE DiscoveryTypeOK  OBVIOUS
<1>1. crd \in [Kinds -> CRDObject]
  BY Members, NewObject DEF DiscoveryInit, CRDObject, L!CRDObject
<1>2. top \in [Kinds -> Nat] /\ boot \in [Kinds -> Nat]
  BY <1>1, Members DEF DiscoveryInit
<1>3. worker \in [Kinds -> crdWorker]
  BY Members DEF DiscoveryInit, crdWorker
<1>4. obs \in [Kinds -> crdObservation]
  BY Members DEF DiscoveryInit, crdObservation, NoObservation
<1> QED  BY <1>1, <1>2, <1>3, <1>4 DEF DiscoveryInit, DiscoveryTypeOK

\* The updates the worker makes to its own record and to the observation.
LEMMA WorkerUpdates ==
  ASSUME NEW w \in crdWorker
  PROVE  /\ \A pc \in workerPC : Goto(w, pc) \in crdWorker
         /\ \A c \in CRDObject, u \in Nat :
              [w EXCEPT !.pc = "classify", !.got = c, !.retry = FALSE, !.firstUID = u] \in crdWorker
         /\ [w EXCEPT !.retry = TRUE] \in crdWorker
         /\ [w EXCEPT !.state = "Removed", !.sawAbsent = TRUE, !.lag = "no"] \in crdWorker
         /\ [w EXCEPT !.sawAbsent = TRUE] \in crdWorker
         /\ [w EXCEPT !.state = "Unservable"] \in crdWorker
         /\ \A u \in Nat : [w EXCEPT !.state = "Ready", !.uid = u, !.lag = "no"] \in crdWorker
         /\ \A l \in {"no", "since", "reported"} : [w EXCEPT !.retry = TRUE, !.lag = l] \in crdWorker
         /\ \A n \in Nat : [w EXCEPT !.retry = TRUE, !.lag = "reported", !.lagSeq = n] \in crdWorker
         /\ \A pc \in workerPC : [w EXCEPT !.pc = pc] \in crdWorker
<1>1. NoCRD \in CRDObject /\ "classify" \in workerPC
      /\ {"Removed", "Unservable", "Ready"} \subseteq crdState  BY Members
<1>2. \A pc \in workerPC : Goto(w, pc) \in crdWorker  BY <1>1 DEF crdWorker, Goto
<1>3. \A c \in CRDObject, u \in Nat :
        [w EXCEPT !.pc = "classify", !.got = c, !.retry = FALSE, !.firstUID = u] \in crdWorker
  BY <1>1 DEF crdWorker
<1>4. [w EXCEPT !.retry = TRUE] \in crdWorker  BY DEF crdWorker
<1>5. [w EXCEPT !.state = "Removed", !.sawAbsent = TRUE, !.lag = "no"] \in crdWorker
  BY <1>1 DEF crdWorker
<1>6. [w EXCEPT !.sawAbsent = TRUE] \in crdWorker  BY DEF crdWorker
<1>7. [w EXCEPT !.state = "Unservable"] \in crdWorker  BY <1>1 DEF crdWorker
<1>8. \A u \in Nat : [w EXCEPT !.state = "Ready", !.uid = u, !.lag = "no"] \in crdWorker
  BY <1>1 DEF crdWorker
<1>9. \A l \in {"no", "since", "reported"} : [w EXCEPT !.retry = TRUE, !.lag = l] \in crdWorker
  BY DEF crdWorker
<1>10. \A n \in Nat : [w EXCEPT !.retry = TRUE, !.lag = "reported", !.lagSeq = n] \in crdWorker
  BY DEF crdWorker
<1>11. \A pc \in workerPC : [w EXCEPT !.pc = pc] \in crdWorker  BY DEF crdWorker
<1> QED  BY <1>2, <1>3, <1>4, <1>5, <1>6, <1>7, <1>8, <1>9, <1>10, <1>11

\* The type of a crdWorker, field by field.
LEMMA WorkerFields ==
  ASSUME NEW w \in crdWorker
  PROVE  /\ w.pc \in workerPC /\ w.got \in CRDObject /\ w.state \in crdState /\ w.uid \in Nat
         /\ w.sawAbsent \in BOOLEAN /\ w.firstUID \in Nat
         /\ w.lag \in {"no", "since", "reported"} /\ w.lagSeq \in Nat
         /\ w.retry \in BOOLEAN
  BY DEF crdWorker

\* What publish and a lag report record is an observation.
LEMMA ObservationUpdates ==
  /\ \A s \in crdState, u \in Nat, l \in BOOLEAN, n \in Nat :
       [state |-> s, uid |-> u, late |-> l, lagErr |-> FALSE, lagSeq |-> n] \in crdObservation
  /\ \A o \in crdObservation, n \in Nat :
       [o EXCEPT !.lagErr = TRUE, !.lagSeq = n] \in crdObservation
  BY DEF crdObservation

\* A change of the API server keeps the types.
LEMMA TypeServer ==
  ASSUME DiscoveryTypeOK, NEW k \in Kinds, ServerNext(k)
  PROVE  DiscoveryTypeOK'
<1>1. \A c \in CRDObject : ServerChange(k, c) =>
        /\ crd' \in [Kinds -> CRDObject] /\ poked' \in [Kinds -> BOOLEAN]
        /\ UNCHANGED <<boot, worker, obs, kick>>
  BY DEF ServerChange, DiscoveryTypeOK
<1>2. crd[k] \in CRDObject  BY DEF DiscoveryTypeOK
<1>3. \A r, d \in BOOLEAN : top[k] + 1 \in Nat
        /\ [uid |-> top[k] + 1, ready |-> r, deleting |-> d] \in CRDObject
  BY NewObject DEF DiscoveryTypeOK
<1>4. [crd[k] EXCEPT !.ready = ~@] \in CRDObject /\ [crd[k] EXCEPT !.deleting = TRUE] \in CRDObject
  BY <1>2 DEF CRDObject, L!CRDObject
<1>5. CASE InstallCRD(k)
  <2>1. crd' \in [Kinds -> CRDObject] /\ poked' \in [Kinds -> BOOLEAN]
        /\ UNCHANGED <<boot, worker, obs, kick>>
    BY <1>1, <1>3, <1>5 DEF InstallCRD
  <2> QED  BY <1>3, <1>5, <2>1 DEF InstallCRD, DiscoveryTypeOK
<1>6. CASE EditCRD(k)  BY <1>1, <1>4, <1>6 DEF EditCRD, DiscoveryTypeOK
<1>7. CASE BeginDeleteCRD(k)  BY <1>1, <1>4, <1>7 DEF BeginDeleteCRD, DiscoveryTypeOK
<1>8. CASE FinishDeleteCRD(k)  BY <1>1, <1>8, Members DEF FinishDeleteCRD, DiscoveryTypeOK
<1> QED  BY <1>5, <1>6, <1>7, <1>8 DEF ServerNext

\* A step of a worker (runCRDWorker, readCRD) keeps the types.
LEMMA TypeWorker ==
  ASSUME DiscoveryTypeOK, NEW k \in Kinds, WorkerNext(k)
  PROVE  DiscoveryTypeOK'
<1> DEFINE w == worker[k]
<1>1. w \in crdWorker /\ obs[k] \in crdObservation /\ crd[k] \in CRDObject  BY DEF DiscoveryTypeOK
<1>2. w.got.uid \in Nat /\ crd[k].uid \in Nat  BY <1>1, WorkerFields, Members
<1>3. \A v \in crdWorker : SetWorker(k, v) => worker' \in [Kinds -> crdWorker]
  BY DEF SetWorker, DiscoveryTypeOK
<1>4. \A s \in crdState, u \in Nat, l \in BOOLEAN : publish(k, s, u, l) => obs' \in [Kinds -> crdObservation]
  <2>1. \A o \in crdObservation : obs' = [obs EXCEPT ![k] = o] => obs' \in [Kinds -> crdObservation]
    BY DEF DiscoveryTypeOK
  <2>2. w.lagSeq \in Nat  BY <1>1, WorkerFields
  <2> QED  BY <2>1, <2>2, ObservationUpdates DEF publish
<1>5. \A pc \in {"idle", "kick", "kickMore"} : Goto(w, pc) \in crdWorker
  BY <1>1, WorkerUpdates, Members
<1>6. \A pc \in {"kick", "kickMore"} : removeObserved(k, pc) =>
        worker' \in [Kinds -> crdWorker] /\ obs' \in [Kinds -> crdObservation]
  BY <1>1, <1>3, <1>4, <1>5, WorkerUpdates, WorkerFields, Members DEF removeObserved
<1> HIDE DEF w
<1>7. worker' \in [Kinds -> crdWorker] /\ obs' \in [Kinds -> crdObservation]
  <2>1. CASE ReadCRD(k)
    BY <1>1, <1>2, <1>3, <2>1, WorkerUpdates, WorkerFields DEF ReadCRD, DiscoveryTypeOK, w
  <2>2. CASE ReadFails(k)
    BY <1>1, <1>3, <2>2, WorkerUpdates DEF ReadFails, DiscoveryTypeOK, w
  <2>3. CASE ClassifyAbsent(k)
    BY <1>3, <1>5, <1>6, <2>3, WorkerUpdates DEF ClassifyAbsent, DiscoveryTypeOK, w
  <2>4. CASE ClassifyReplaced(k)  BY <1>6, <2>4 DEF ClassifyReplaced
  <2>5. CASE ClassifyDeleting(k)
    BY <1>3, <1>5, <1>6, <2>5 DEF ClassifyDeleting, DiscoveryTypeOK, w
  <2>6. CASE ClassifyNotReady(k)
    BY <1>2, <1>3, <1>4, <1>5, <2>6, WorkerUpdates, Members DEF ClassifyNotReady, DiscoveryTypeOK, w
  <2>7. CASE ClassifyStillReady(k)
    BY <1>3, <1>5, <2>7 DEF ClassifyStillReady, DiscoveryTypeOK, w
  <2>8. CASE ClassifyBecomesReady(k)
    <3>1. (w.state # "Unservable" /\ isLate(w, w.got.uid)) \in BOOLEAN
      BY <1>1, WorkerFields DEF isLate
    <3> QED
      BY <1>2, <1>3, <1>4, <1>5, <2>8, <3>1, WorkerUpdates, Members DEF ClassifyBecomesReady, w
  <2>9. CASE ClassifyNoMatch(k)
    <3>1. \A pc \in {"idle", "kick"} : Goto(w, pc).lag = w.lag /\ Goto(w, pc).lagSeq = w.lagSeq
      BY <1>1 DEF Goto, crdWorker
    <3>2. w.lag \in {"no", "since", "reported"} /\ w.lagSeq + 1 \in Nat
      BY <1>1, WorkerFields
    <3>3. CASE /\ SetWorker(k, [Goto(w, "idle") EXCEPT !.retry = TRUE,
                        !.lag = IF @ = "no" THEN "since" ELSE @])
               /\ UNCHANGED obs
      BY <1>2, <1>3, <1>5, <3>1, <3>2, <3>3, WorkerUpdates DEF DiscoveryTypeOK
    <3>4. CASE /\ SetWorker(k, [Goto(w, "kick") EXCEPT !.retry = TRUE,
                        !.lag = "reported", !.lagSeq = @ + 1])
               /\ obs' = [obs EXCEPT ![k] = [@ EXCEPT !.lagErr = TRUE, !.lagSeq = w.lagSeq + 1]]
      <4>1. worker' \in [Kinds -> crdWorker]
        BY <1>3, <1>5, <3>1, <3>2, <3>4, WorkerUpdates
      <4>2. obs' \in [Kinds -> crdObservation]
        BY <1>1, <3>2, <3>4, ObservationUpdates DEF DiscoveryTypeOK
      <4> QED  BY <4>1, <4>2
    <3> QED  BY <2>9, <3>3, <3>4 DEF ClassifyNoMatch, w
  <2>10. CASE KickApply(k)
    BY <1>1, <1>3, <2>10, WorkerUpdates, Members DEF KickApply, DiscoveryTypeOK, w
  <2> QED
    BY <2>1, <2>2, <2>3, <2>4, <2>5, <2>6, <2>7, <2>8, <2>9, <2>10 DEF WorkerNext, Classify
<1>8. /\ UNCHANGED crdVars
      /\ poked' \in [Kinds -> BOOLEAN] /\ kick' \in BOOLEAN
      /\ used' \in [edits : Nat, lag : Nat, errors : Nat]
  <2>1. [used EXCEPT !.errors = @ + 1] \in [edits : Nat, lag : Nat, errors : Nat]
        /\ [used EXCEPT !.lag = @ + 1] \in [edits : Nat, lag : Nat, errors : Nat]
    BY DEF DiscoveryTypeOK
  <2>2. used' \in {used, [used EXCEPT !.errors = @ + 1], [used EXCEPT !.lag = @ + 1]}
        /\ UNCHANGED crdVars /\ kick' \in {kick, TRUE} /\ poked' \in {poked, [poked EXCEPT ![k] = FALSE]}
    BY DEF WorkerNext, Classify, ReadCRD, ReadFails, ClassifyAbsent, ClassifyReplaced,
       ClassifyDeleting, ClassifyNotReady, ClassifyStillReady, ClassifyBecomesReady,
       ClassifyNoMatch, KickApply
  <2> QED  BY <2>1, <2>2 DEF DiscoveryTypeOK
<1> QED  BY <1>7, <1>8 DEF DiscoveryTypeOK, crdVars

\* Every step keeps the types.
LEMMA TypeNext == DiscoveryTypeOK /\ [DiscoveryNext]_dvars => DiscoveryTypeOK'
<1> SUFFICES ASSUME DiscoveryTypeOK, [DiscoveryNext]_dvars PROVE DiscoveryTypeOK'
  OBVIOUS
<1>1. CASE \E k \in Kinds : ServerNext(k)  BY <1>1, TypeServer
<1>2. CASE \E k \in Kinds : WorkerNext(k)  BY <1>2, TypeWorker
<1>3. CASE \E k \in Kinds : PokeWorker(k)
  BY <1>3 DEF PokeWorker, DiscoveryTypeOK, crdVars
<1>4. CASE \E b \in BOOLEAN : SetKick(b)
  BY <1>4 DEF SetKick, DiscoveryTypeOK, crdVars
<1>5. CASE UNCHANGED dvars  BY <1>5 DEF dvars, DiscoveryTypeOK
<1> QED  BY <1>1, <1>2, <1>3, <1>4, <1>5 DEF DiscoveryNext

\* Type correctness of discovery's state, for any number of kinds.
THEOREM DiscoveryTypeCorrect == DiscoverySpec => []DiscoveryTypeOK
<1>1. DiscoveryInit => DiscoveryTypeOK  BY TypeInit
<1>2. DiscoveryTypeOK /\ [DiscoveryNext]_dvars => DiscoveryTypeOK'  BY TypeNext
<1> QED  BY <1>1, <1>2, PTL DEF DiscoverySpec

-----------------------------------------------------------------------------
(* The inductive invariant *)

\* Gone without the detour through the instance of CRDLifecycle.
LEMMA GoneDef == \A c, u : Gone(c, u) <=> (c.uid # u \/ c.deleting)
  BY DEF Gone, L!Gone

\* The inductive invariant holds when the supervisor starts.
LEMMA InitInv == DiscoveryInit => DiscoveryInv
<1> SUFFICES ASSUME DiscoveryInit, NEW k \in Kinds PROVE KindInv(k)
  BY TypeInit DEF DiscoveryInv
<1>1. crd[k].uid \in Nat /\ top[k] = crd[k].uid /\ boot[k] = top[k]
  BY TypeInit, Members DEF DiscoveryInit, DiscoveryTypeOK
<1>2. /\ worker[k].pc = "idle" /\ worker[k].state = "Unknown" /\ worker[k].uid = 0
      /\ worker[k].sawAbsent = FALSE /\ worker[k].firstUID = 0
      /\ obs[k].state = "Unknown" /\ obs[k].uid = 0 /\ obs[k].late = FALSE
  BY DEF DiscoveryInit, NoObservation
<1> QED
  BY <1>1, <1>2 DEF KindInv, ServerInv, MemoryInv, ReadInv, AbsenceInv, HasRead

\* A step of one kind leaves what the invariant says of another kind.
LEMMA OtherKind ==
  ASSUME NEW j \in Kinds, KindInv(j),
         crd'[j] = crd[j], top'[j] = top[j], boot'[j] = boot[j],
         worker'[j] = worker[j], obs'[j] = obs[j]
  PROVE  KindInv(j)'
  BY DEF KindInv, ServerInv, MemoryInv, ReadInv, AbsenceInv, HasRead, Issued, Gone, L!Gone

\* A change in the API server: UIDs only grow, and what is gone stays gone.
LEMMA ServerStepFacts ==
  ASSUME DiscoveryTypeOK, NEW k \in Kinds, ServerInv(k), ServerNext(k)
  PROVE  /\ top'[k] >= top[k] /\ crd'[k].uid \in {0, top'[k]}
         /\ UNCHANGED <<boot, worker, obs>>
         /\ \A u \in Nat : u # 0 /\ u <= top[k] /\ Gone(crd[k], u) => Gone(crd'[k], u)
         /\ \A j \in Kinds \ {k} : crd'[j] = crd[j] /\ top'[j] = top[j]
<1>1. crd[k] \in CRDObject /\ top[k] \in Nat /\ crd[k].uid \in Nat /\ crd[k].uid \in {0, top[k]}
  BY Members DEF DiscoveryTypeOK, ServerInv
<1>2. CASE InstallCRD(k)  BY <1>1, <1>2, GoneDef DEF InstallCRD, DiscoveryTypeOK, ServerChange
<1>3. CASE EditCRD(k)
  <2>1. [crd[k] EXCEPT !.ready = ~@].uid = crd[k].uid /\ [crd[k] EXCEPT !.ready = ~@].deleting = crd[k].deleting
    BY <1>1 DEF CRDObject, L!CRDObject
  <2>2. crd'[k] = [crd[k] EXCEPT !.ready = ~@]  BY <1>3 DEF EditCRD, DiscoveryTypeOK, ServerChange
  <2>5. top' = top /\ UNCHANGED <<boot, worker, obs>> /\ \A j \in Kinds \ {k} : crd'[j] = crd[j]
    BY <1>3 DEF EditCRD, DiscoveryTypeOK, ServerChange
  <2>3. crd'[k].uid = crd[k].uid /\ (crd[k].deleting => crd'[k].deleting)  BY <2>1, <2>2
  <2>4. \A u : Gone(crd[k], u) => Gone(crd'[k], u)  BY <2>3, GoneDef
  <2> QED  BY <1>1, <2>3, <2>4, <2>5
<1>4. CASE BeginDeleteCRD(k)
  <2>1. [crd[k] EXCEPT !.deleting = TRUE].uid = crd[k].uid /\ [crd[k] EXCEPT !.deleting = TRUE].deleting
    BY <1>1 DEF CRDObject, L!CRDObject
  <2>2. crd'[k] = [crd[k] EXCEPT !.deleting = TRUE]  BY <1>4 DEF BeginDeleteCRD, DiscoveryTypeOK, ServerChange
  <2>5. top' = top /\ UNCHANGED <<boot, worker, obs>> /\ \A j \in Kinds \ {k} : crd'[j] = crd[j]
    BY <1>4 DEF BeginDeleteCRD, DiscoveryTypeOK, ServerChange
  <2>3. crd'[k].uid = crd[k].uid /\ (crd[k].deleting => crd'[k].deleting)  BY <2>1, <2>2
  <2>4. \A u : Gone(crd[k], u) => Gone(crd'[k], u)  BY <2>3, GoneDef
  <2> QED  BY <1>1, <2>3, <2>4, <2>5
<1>5. CASE FinishDeleteCRD(k)  BY <1>1, <1>5, GoneDef, Members DEF FinishDeleteCRD, DiscoveryTypeOK, ServerChange
<1> QED  BY <1>2, <1>3, <1>4, <1>5 DEF ServerNext

\* A change of the API server keeps the invariant: UIDs only grow, and
\* a deletion is never undone.
LEMMA ServerInvStep ==
  ASSUME DiscoveryInv, NEW k \in Kinds, ServerNext(k), NEW j \in Kinds
  PROVE  KindInv(j)'
<1>1. DiscoveryTypeOK /\ KindInv(j) /\ KindInv(k)  BY DEF DiscoveryInv
<1>2. CASE j # k  BY <1>1, <1>2, ServerStepFacts, OtherKind DEF KindInv
<1>3. CASE j = k
  <2>1. /\ worker[k] \in crdWorker /\ top[k] \in Nat /\ top'[k] \in Nat /\ boot[k] \in Nat
        /\ worker[k].uid \in Nat /\ worker[k].firstUID \in Nat /\ worker[k].got.uid \in Nat
    BY <1>1, TypeServer, WorkerFields, Members DEF DiscoveryTypeOK
  <2>2. /\ top'[k] >= top[k] /\ crd'[k].uid \in {0, top'[k]}
        /\ worker' = worker /\ obs' = obs /\ boot' = boot
        /\ \A u \in Nat : u # 0 /\ u <= top[k] /\ Gone(crd[k], u) => Gone(crd'[k], u)
    BY <1>1, ServerStepFacts DEF KindInv
  <2>3. ServerInv(k)' /\ MemoryInv(k)'
    BY <1>1, <2>1, <2>2 DEF KindInv, ServerInv, MemoryInv, Issued
  <2>4. ReadInv(k)'
    BY <1>1, <2>1, <2>2 DEF KindInv, ServerInv, MemoryInv, ReadInv, HasRead, Issued
  <2>5. AbsenceInv(k)'
    BY <1>1, <2>1, <2>2, Members DEF KindInv, ServerInv, MemoryInv, AbsenceInv, Issued
  <2> QED  BY <1>3, <2>3, <2>4, <2>5 DEF KindInv
<1> QED  BY <1>2, <1>3

\* The record a worker step leaves behind, field by field.
LEMMA GotoFields ==
  ASSUME NEW w \in crdWorker, NEW pc \in workerPC
  PROVE  LET v == Goto(w, pc) IN
         /\ v \in crdWorker /\ v.pc = pc /\ v.got = IF pc = "kickMore" THEN w.got ELSE NoCRD
         /\ v.state = w.state /\ v.uid = w.uid /\ v.sawAbsent = w.sawAbsent
         /\ v.firstUID = w.firstUID
<1>1. Goto(w, pc) \in crdWorker  BY WorkerUpdates
<1> QED  BY <1>1 DEF Goto, crdWorker

\* What removeObserved leaves in the worker and publishes.
LEMMA RemoveFields ==
  ASSUME DiscoveryTypeOK, NEW k \in Kinds, NEW pc \in {"kick", "kickMore"}, removeObserved(k, pc)
  PROVE  /\ worker'[k].pc = pc /\ (pc = "kickMore" => worker'[k].got = worker[k].got)
         /\ worker'[k].state = "Removed" /\ worker'[k].uid = worker[k].uid
         /\ worker'[k].sawAbsent = TRUE /\ worker'[k].firstUID = worker[k].firstUID
         /\ obs'[k].state = "Removed" /\ obs'[k].uid = worker[k].uid /\ obs'[k].late = FALSE
         /\ \A j \in Kinds \ {k} : worker'[j] = worker[j] /\ obs'[j] = obs[j]
<1> DEFINE g == Goto(worker[k], pc)
<1>1. worker[k] \in crdWorker /\ pc \in workerPC  BY Members DEF DiscoveryTypeOK
<1>2. /\ g \in crdWorker /\ g.pc = pc /\ g.got = IF pc = "kickMore" THEN worker[k].got ELSE NoCRD
      /\ g.uid = worker[k].uid /\ g.firstUID = worker[k].firstUID
  BY <1>1, GotoFields
<1>3. worker'[k] = [g EXCEPT !.state = "Removed", !.sawAbsent = TRUE, !.lag = "no"]
      /\ \A j \in Kinds \ {k} : worker'[j] = worker[j]
  BY DEF removeObserved, SetWorker, DiscoveryTypeOK
<1>4. /\ obs'[k].state = "Removed" /\ obs'[k].uid = worker[k].uid /\ obs'[k].late = FALSE
      /\ \A j \in Kinds \ {k} : obs'[j] = obs[j]
  BY DEF removeObserved, publish, DiscoveryTypeOK
<1> HIDE DEF g
<1> QED  BY <1>2, <1>3, <1>4 DEF crdWorker

\* Steps that only leave the classification: nothing is published.
LEMMA RestFields ==
  ASSUME DiscoveryTypeOK, NEW k \in Kinds, SetWorker(k, Goto(worker[k], "idle"))
  PROVE  /\ worker'[k].pc = "idle" /\ worker'[k].state = worker[k].state
         /\ worker'[k].uid = worker[k].uid /\ worker'[k].sawAbsent = worker[k].sawAbsent
         /\ worker'[k].firstUID = worker[k].firstUID
         /\ \A j \in Kinds \ {k} : worker'[j] = worker[j]
<1>1. worker[k] \in crdWorker /\ "idle" \in workerPC  BY Members DEF DiscoveryTypeOK
<1>2. worker'[k] = Goto(worker[k], "idle") /\ \A j \in Kinds \ {k} : worker'[j] = worker[j]
  BY DEF SetWorker, DiscoveryTypeOK
<1> QED  BY <1>1, <1>2, GotoFields

\* The acting kind's part of the invariant, from the fields of its record
\* after a step that ends the classification.
LEMMA LeaveInv ==
  ASSUME NEW k \in Kinds, DiscoveryTypeOK, KindInv(k), UNCHANGED crdVars,
         ~HasRead(k)', MemoryInv(k)', AbsenceInv(k)'
  PROVE  KindInv(k)'
  BY DEF KindInv, ServerInv, ReadInv, crdVars

\* Publishing a removal: the tracked generation is gone, and with it the
\* generation the supervisor found at its start.
LEMMA RemoveInv ==
  ASSUME NEW k \in Kinds, DiscoveryTypeOK, KindInv(k), UNCHANGED crdVars,
         Tracks(worker[k]), Gone(crd[k], worker[k].uid),
         NEW pc \in {"kick", "kickMore"}, removeObserved(k, pc),
         pc = "kickMore" => /\ HasRead(k) /\ worker[k].got.uid # 0
                            /\ worker[k].got.uid # worker[k].uid
  PROVE  KindInv(k)'
<1>1. /\ worker'[k].pc = pc /\ (pc = "kickMore" => worker'[k].got = worker[k].got)
      /\ worker'[k].state = "Removed" /\ worker'[k].uid = worker[k].uid
      /\ worker'[k].sawAbsent = TRUE /\ worker'[k].firstUID = worker[k].firstUID
      /\ obs'[k].state = "Removed" /\ obs'[k].uid = worker[k].uid /\ obs'[k].late = FALSE
  BY RemoveFields
<1>2. crd' = crd /\ top' = top /\ boot' = boot  BY DEF crdVars
<1>3. /\ top[k] \in Nat /\ boot[k] \in Nat /\ worker[k].uid \in Nat /\ worker[k].firstUID \in Nat
      /\ worker[k].got.uid \in Nat
  BY WorkerFields, Members DEF DiscoveryTypeOK
<1>4. worker[k].uid # 0 /\ worker[k].uid <= top[k] /\ worker[k].uid >= boot[k]
  BY DEF KindInv, MemoryInv, Issued, Tracks
<1>5. boot[k] = 0 \/ Gone(crd[k], boot[k])
  BY <1>3, <1>4, GoneDef DEF KindInv, ServerInv
<1>6. MemoryInv(k)'
  BY <1>1, <1>2, <1>4 DEF KindInv, MemoryInv, Issued
<1>7. AbsenceInv(k)'
  BY <1>1, <1>2, <1>5 DEF AbsenceInv
<1>8. CASE pc = "kick"
  BY <1>1, <1>6, <1>7, <1>8, LeaveInv DEF HasRead
<1>9. CASE pc = "kickMore"
  <2>1. ReadInv(k)
    BY DEF KindInv
  <2>2. ReadInv(k)'
    BY <1>1, <1>2, <1>3, <1>4, <1>9, <2>1 DEF ReadInv, HasRead, Issued
  <2> QED  BY <1>2, <1>6, <1>7, <2>2 DEF KindInv, ServerInv
<1> QED  BY <1>8, <1>9

\* The lag fields are no part of the invariant.
LEMMA LagFields ==
  ASSUME NEW g \in crdWorker
  PROVE  /\ \A l : LET v == [g EXCEPT !.retry = TRUE, !.lag = l] IN
              /\ v.pc = g.pc /\ v.state = g.state /\ v.uid = g.uid
              /\ v.sawAbsent = g.sawAbsent /\ v.firstUID = g.firstUID
         /\ \A l, n : LET v == [g EXCEPT !.retry = TRUE, !.lag = l, !.lagSeq = n] IN
              /\ v.pc = g.pc /\ v.state = g.state /\ v.uid = g.uid
              /\ v.sawAbsent = g.sawAbsent /\ v.firstUID = g.firstUID
  BY DEF crdWorker

\* A step of a worker keeps the invariant, one case for each branch of
\* readCRD.
LEMMA WorkerInvStep ==
  ASSUME DiscoveryInv, NEW k \in Kinds, WorkerNext(k)
  PROVE  KindInv(k)'
<1>1. DiscoveryTypeOK /\ KindInv(k)  BY DEF DiscoveryInv
<1>2. /\ worker[k] \in crdWorker /\ top[k] \in Nat /\ boot[k] \in Nat /\ crd[k].uid \in Nat
      /\ worker[k].uid \in Nat /\ worker[k].firstUID \in Nat /\ worker[k].got.uid \in Nat
      /\ worker[k].state \in crdState /\ worker[k].sawAbsent \in BOOLEAN
  BY <1>1, WorkerFields, Members DEF DiscoveryTypeOK
<1>3. ServerInv(k) /\ MemoryInv(k) /\ ReadInv(k) /\ AbsenceInv(k)  BY <1>1 DEF KindInv
<1>4. CASE ReadCRD(k)
  <2>1. worker'[k] = [worker[k] EXCEPT !.pc = "classify", !.got = crd[k], !.retry = FALSE,
                        !.firstUID = IF @ = 0 THEN crd[k].uid ELSE @]
    BY <1>1, <1>4 DEF ReadCRD, SetWorker, DiscoveryTypeOK
  <2>2. /\ worker'[k].pc = "classify" /\ worker'[k].got = crd[k]
        /\ worker'[k].firstUID = (IF worker[k].firstUID = 0 THEN crd[k].uid ELSE worker[k].firstUID)
        /\ worker'[k].state = worker[k].state /\ worker'[k].uid = worker[k].uid
        /\ worker'[k].sawAbsent = worker[k].sawAbsent
    BY <1>2, <2>1 DEF crdWorker
  <2>3. crd' = crd /\ top' = top /\ boot' = boot /\ obs' = obs  BY <1>4 DEF ReadCRD, crdVars
  <2>4. MemoryInv(k)' /\ AbsenceInv(k)' /\ ServerInv(k)'
    BY <1>2, <1>3, <2>2, <2>3 DEF MemoryInv, AbsenceInv, ServerInv, Issued
  <2>5. ReadInv(k)'
    BY <1>2, <1>3, <2>2, <2>3, GoneDef, Members DEF ReadInv, ServerInv, MemoryInv, AbsenceInv, HasRead, Issued
  <2> QED  BY <2>4, <2>5 DEF KindInv
<1>5. CASE ReadFails(k)
  <2>1. worker'[k] = [worker[k] EXCEPT !.retry = TRUE]
    BY <1>1, <1>5 DEF ReadFails, SetWorker, DiscoveryTypeOK
  <2>2. /\ worker'[k].pc = worker[k].pc /\ worker'[k].got = worker[k].got
        /\ worker'[k].firstUID = worker[k].firstUID /\ worker'[k].state = worker[k].state
        /\ worker'[k].uid = worker[k].uid /\ worker'[k].sawAbsent = worker[k].sawAbsent
    BY <1>2, <2>1 DEF crdWorker
  <2>3. crd' = crd /\ top' = top /\ boot' = boot /\ obs' = obs  BY <1>5 DEF ReadFails, crdVars
  <2> QED
    BY <1>3, <2>2, <2>3 DEF KindInv, MemoryInv, AbsenceInv, ServerInv, ReadInv, HasRead, Issued
<1>6. CASE ClassifyAbsent(k)
  <2>1. HasRead(k) /\ worker[k].got.uid = 0  BY <1>6 DEF ClassifyAbsent, HasRead
  <2>2. UNCHANGED crdVars  BY <1>6 DEF ClassifyAbsent
  <2>3. CASE Tracks(worker[k])
    <3>1. removeObserved(k, "kick")  BY <1>6, <2>3 DEF ClassifyAbsent
    <3>2. Gone(crd[k], worker[k].uid)
      BY <1>3, <2>1, <2>3, GoneDef DEF ReadInv, MemoryInv, Tracks
    <3> QED  BY <1>1, <2>2, <2>3, <3>1, <3>2, RemoveInv
  <2>4. CASE ~Tracks(worker[k])
    <3> DEFINE g == Goto(worker[k], "idle")
    <3>1. worker'[k] = [g EXCEPT !.sawAbsent = TRUE] /\ obs' = obs
      BY <1>1, <1>6, <2>4 DEF ClassifyAbsent, SetWorker, DiscoveryTypeOK
    <3>2. g \in crdWorker /\ g.pc = "idle" /\ g.state = worker[k].state /\ g.uid = worker[k].uid
          /\ g.firstUID = worker[k].firstUID
      BY <1>2, GotoFields, Members
    <3> HIDE DEF g
    <3>3. worker'[k].pc = "idle" /\ worker'[k].state = worker[k].state /\ worker'[k].uid = worker[k].uid
          /\ worker'[k].firstUID = worker[k].firstUID /\ worker'[k].sawAbsent = TRUE
      BY <3>1, <3>2 DEF crdWorker
    <3>4. boot[k] = 0 \/ Gone(crd[k], boot[k])
      BY <1>3, <2>1, GoneDef DEF ReadInv
    <3>5. MemoryInv(k)' /\ AbsenceInv(k)' /\ ~HasRead(k)'
      BY <1>3, <2>2, <3>1, <3>3, <3>4 DEF MemoryInv, AbsenceInv, HasRead, Issued, crdVars
    <3> QED  BY <1>1, <2>2, <3>5, LeaveInv
  <2> QED  BY <2>3, <2>4
<1>7. CASE ClassifyReplaced(k)
  <2>1. /\ HasRead(k) /\ worker[k].got.uid # 0 /\ worker[k].got.uid # worker[k].uid
        /\ Tracks(worker[k]) /\ removeObserved(k, "kickMore") /\ UNCHANGED crdVars
    BY <1>7 DEF ClassifyReplaced, HasRead
  <2>2. Gone(crd[k], worker[k].uid)
    BY <1>3, <2>1, GoneDef DEF ReadInv, MemoryInv, Tracks
  <2> QED  BY <1>1, <2>1, <2>2, RemoveInv
<1>8. CASE ClassifyDeleting(k)
  <2>1. /\ HasRead(k) /\ worker[k].got.uid # 0 /\ worker[k].got.deleting
        /\ (Tracks(worker[k]) => worker[k].got.uid = worker[k].uid)
        /\ UNCHANGED crdVars
    BY <1>8 DEF ClassifyDeleting, Current, HasRead
  <2>2. CASE Tracks(worker[k])
    <3>1. Gone(crd[k], worker[k].uid)
      BY <1>3, <2>1, <2>2, GoneDef DEF ReadInv, MemoryInv, Tracks
    <3>2. removeObserved(k, "kick")  BY <1>8, <2>2 DEF ClassifyDeleting
    <3> QED  BY <1>1, <2>1, <2>2, <3>1, <3>2, RemoveInv
  <2>3. CASE ~Tracks(worker[k])
    <3>1. SetWorker(k, Goto(worker[k], "idle")) /\ obs' = obs
      BY <1>8, <2>3 DEF ClassifyDeleting
    <3> QED  BY <1>1, <1>3, <2>1, <3>1, RestFields, LeaveInv
        DEF MemoryInv, AbsenceInv, HasRead, Issued, crdVars
  <2> QED  BY <2>2, <2>3
<1>9. CASE ClassifyNotReady(k)
  <2>1. HasRead(k) /\ worker[k].got.uid # 0 /\ UNCHANGED crdVars
        /\ (Tracks(worker[k]) => worker[k].got.uid = worker[k].uid)
    BY <1>9 DEF ClassifyNotReady, Current, HasRead
  <2>2. CASE worker[k].state = "Ready"
    <3> DEFINE g == Goto(worker[k], "kick")
    <3>1. worker'[k] = [g EXCEPT !.state = "Unservable"]
      BY <1>1, <1>9, <2>2 DEF ClassifyNotReady, SetWorker, DiscoveryTypeOK
    <3>2. g \in crdWorker /\ g.pc = "kick" /\ g.sawAbsent = worker[k].sawAbsent /\ g.uid = worker[k].uid
          /\ g.firstUID = worker[k].firstUID
      BY <1>2, GotoFields, Members
    <3> HIDE DEF g
    <3>3. worker'[k].pc = "kick" /\ worker'[k].state = "Unservable" /\ worker'[k].uid = worker[k].uid
          /\ worker'[k].firstUID = worker[k].firstUID /\ worker'[k].sawAbsent = worker[k].sawAbsent
      BY <3>1, <3>2 DEF crdWorker
    <3>4. obs'[k].state = "Unservable" /\ obs'[k].uid = worker[k].uid /\ obs'[k].late = FALSE
      BY <1>1, <1>9, <2>1, <2>2 DEF ClassifyNotReady, publish, DiscoveryTypeOK, Tracks
    <3>5. MemoryInv(k)' /\ AbsenceInv(k)' /\ ~HasRead(k)'
      BY <1>3, <2>1, <2>2, <3>3, <3>4 DEF MemoryInv, AbsenceInv, HasRead, Issued, crdVars
    <3> QED  BY <1>1, <2>1, <3>5, LeaveInv
  <2>3. CASE worker[k].state # "Ready"
    <3>1. SetWorker(k, Goto(worker[k], "idle")) /\ obs' = obs
      BY <1>9, <2>3 DEF ClassifyNotReady
    <3> QED  BY <1>1, <1>3, <2>1, <3>1, RestFields, LeaveInv
        DEF MemoryInv, AbsenceInv, HasRead, Issued, crdVars
  <2> QED  BY <2>2, <2>3
<1>10. CASE ClassifyStillReady(k)
  <2>1. SetWorker(k, Goto(worker[k], "idle")) /\ obs' = obs /\ UNCHANGED crdVars
    BY <1>10 DEF ClassifyStillReady
  <2> QED  BY <1>1, <1>3, <2>1, RestFields, LeaveInv
      DEF MemoryInv, AbsenceInv, HasRead, Issued, crdVars
<1>11. CASE ClassifyBecomesReady(k)
  <2>1. /\ HasRead(k) /\ worker[k].got.uid # 0 /\ ~worker[k].got.deleting /\ UNCHANGED crdVars
        /\ (Tracks(worker[k]) => worker[k].got.uid = worker[k].uid)
    BY <1>11 DEF ClassifyBecomesReady, Current, HasRead
  <2> DEFINE g == Goto(worker[k], "kick")
             late == worker[k].state # "Unservable" /\ isLate(worker[k], worker[k].got.uid)
  <2>2. worker'[k] = [g EXCEPT !.state = "Ready", !.uid = worker[k].got.uid, !.lag = "no"]
    BY <1>1, <1>11 DEF ClassifyBecomesReady, SetWorker, DiscoveryTypeOK
  <2>3. obs'[k].state = "Ready" /\ obs'[k].uid = worker[k].got.uid /\ obs'[k].late = late
    BY <1>1, <1>11 DEF ClassifyBecomesReady, publish, DiscoveryTypeOK
  <2>4. g \in crdWorker /\ g.pc = "kick" /\ g.sawAbsent = worker[k].sawAbsent
        /\ g.firstUID = worker[k].firstUID
    BY <1>2, GotoFields, Members
  <2>5. late => worker[k].got.uid > boot[k]
    BY <1>2, <1>3, <2>1 DEF isLate, ReadInv, MemoryInv
  <2> HIDE DEF g, late
  <2>6. worker'[k].pc = "kick" /\ worker'[k].state = "Ready" /\ worker'[k].uid = worker[k].got.uid
        /\ worker'[k].firstUID = worker[k].firstUID /\ worker'[k].sawAbsent = worker[k].sawAbsent
    BY <2>2, <2>4 DEF crdWorker
  <2>7. MemoryInv(k)' /\ AbsenceInv(k)' /\ ~HasRead(k)'
    BY <1>2, <1>3, <2>1, <2>3, <2>5, <2>6 DEF MemoryInv, AbsenceInv, ReadInv, HasRead, Issued, crdVars
  <2> QED  BY <1>1, <2>1, <2>7, LeaveInv
<1>12. CASE ClassifyNoMatch(k)
  <2>1. UNCHANGED crdVars  BY <1>12 DEF ClassifyNoMatch
  <2>2. /\ worker'[k].pc \in {"idle", "kick"} /\ worker'[k].state = worker[k].state
        /\ worker'[k].uid = worker[k].uid /\ worker'[k].sawAbsent = worker[k].sawAbsent
        /\ worker'[k].firstUID = worker[k].firstUID
    <3>1. \A pc \in {"idle", "kick"} :
            LET g == Goto(worker[k], pc) IN
            /\ g \in crdWorker /\ g.pc = pc /\ g.state = worker[k].state /\ g.uid = worker[k].uid
            /\ g.sawAbsent = worker[k].sawAbsent /\ g.firstUID = worker[k].firstUID
      BY <1>2, GotoFields, Members
    <3>2. CASE SetWorker(k, [Goto(worker[k], "idle") EXCEPT !.retry = TRUE,
                        !.lag = IF @ = "no" THEN "since" ELSE @])
      <4> DEFINE g == Goto(worker[k], "idle")
      <4>1. worker'[k] = [g EXCEPT !.retry = TRUE, !.lag = IF g.lag = "no" THEN "since" ELSE g.lag]
        BY <1>1, <3>2 DEF SetWorker, DiscoveryTypeOK
      <4> HIDE DEF g
      <4>2. g \in crdWorker /\ g.pc = "idle" /\ g.state = worker[k].state /\ g.uid = worker[k].uid
            /\ g.sawAbsent = worker[k].sawAbsent /\ g.firstUID = worker[k].firstUID
        BY <3>1 DEF g
      <4> QED  BY <4>1, <4>2, LagFields
    <3>3. CASE SetWorker(k, [Goto(worker[k], "kick") EXCEPT !.retry = TRUE,
                        !.lag = "reported", !.lagSeq = @ + 1])
      <4> DEFINE g == Goto(worker[k], "kick")
      <4>1. worker'[k] = [g EXCEPT !.retry = TRUE, !.lag = "reported", !.lagSeq = g.lagSeq + 1]
        BY <1>1, <3>3 DEF SetWorker, DiscoveryTypeOK
      <4> HIDE DEF g
      <4>2. g \in crdWorker /\ g.pc = "kick" /\ g.state = worker[k].state /\ g.uid = worker[k].uid
            /\ g.sawAbsent = worker[k].sawAbsent /\ g.firstUID = worker[k].firstUID
        BY <3>1 DEF g
      <4> QED  BY <4>1, <4>2, LagFields
    <3> QED  BY <1>12, <3>2, <3>3 DEF ClassifyNoMatch
  <2>3. obs'[k].state = obs[k].state /\ obs'[k].uid = obs[k].uid /\ obs'[k].late = obs[k].late
    <3>1. obs[k] \in crdObservation  BY <1>1 DEF DiscoveryTypeOK
    <3>2. obs'[k] = obs[k] \/ obs'[k] = [obs[k] EXCEPT !.lagErr = TRUE, !.lagSeq = worker[k].lagSeq + 1]
      BY <1>1, <1>12 DEF ClassifyNoMatch, DiscoveryTypeOK
    <3> QED  BY <3>1, <3>2 DEF crdObservation
  <2>4. MemoryInv(k)' /\ AbsenceInv(k)' /\ ~HasRead(k)'
    BY <1>3, <2>1, <2>2, <2>3 DEF MemoryInv, AbsenceInv, HasRead, Issued, crdVars
  <2> QED  BY <1>1, <2>1, <2>4, LeaveInv
<1>13. CASE KickApply(k)
  <2>1. worker'[k] = [worker[k] EXCEPT !.pc = IF @ = "kick" THEN "idle" ELSE "classify"]
    BY <1>1, <1>13 DEF KickApply, SetWorker, DiscoveryTypeOK
  <2>2. /\ worker'[k].pc = (IF worker[k].pc = "kick" THEN "idle" ELSE "classify")
        /\ worker'[k].got = worker[k].got /\ worker'[k].firstUID = worker[k].firstUID
        /\ worker'[k].state = worker[k].state /\ worker'[k].uid = worker[k].uid
        /\ worker'[k].sawAbsent = worker[k].sawAbsent
    BY <1>2, <2>1 DEF crdWorker
  <2>3. crd' = crd /\ top' = top /\ boot' = boot /\ obs' = obs  BY <1>13 DEF KickApply, crdVars
  <2> QED
    BY <1>3, <1>13, <2>2, <2>3 DEF KickApply, KindInv, MemoryInv, AbsenceInv, ServerInv, ReadInv, HasRead, Issued
<1> QED
  BY <1>4, <1>5, <1>6, <1>7, <1>8, <1>9, <1>10, <1>11, <1>12, <1>13 DEF WorkerNext, Classify

\* A worker writes its own record and its own observation only.
LEMMA WorkerOthers ==
  ASSUME DiscoveryTypeOK, NEW k \in Kinds, WorkerNext(k)
  PROVE  /\ UNCHANGED crdVars
         /\ \A j \in Kinds \ {k} : worker'[j] = worker[j] /\ obs'[j] = obs[j]
<1>1. \A w : SetWorker(k, w) => \A j \in Kinds \ {k} : worker'[j] = worker[j]
  BY DEF SetWorker, DiscoveryTypeOK
<1>2. \A o : obs' = [obs EXCEPT ![k] = o] => \A j \in Kinds \ {k} : obs'[j] = obs[j]
  BY DEF DiscoveryTypeOK
<1>3. \A s, u, l : publish(k, s, u, l) => \A j \in Kinds \ {k} : obs'[j] = obs[j]
  BY <1>2 DEF publish
<1>4. CASE ReadCRD(k) \/ ReadFails(k) \/ KickApply(k)
  BY <1>1, <1>4 DEF ReadCRD, ReadFails, KickApply
<1>5. CASE ClassifyAbsent(k) \/ ClassifyReplaced(k) \/ ClassifyDeleting(k)
  BY <1>1, <1>3, <1>5 DEF ClassifyAbsent, ClassifyReplaced, ClassifyDeleting, removeObserved
<1>6. CASE ClassifyNotReady(k) \/ ClassifyStillReady(k) \/ ClassifyBecomesReady(k)
  BY <1>1, <1>3, <1>6 DEF ClassifyNotReady, ClassifyStillReady, ClassifyBecomesReady
<1>7. CASE ClassifyNoMatch(k)
  BY <1>1, <1>2, <1>7 DEF ClassifyNoMatch
<1> QED  BY <1>4, <1>5, <1>6, <1>7 DEF WorkerNext, Classify

\* The invariant is inductive.
LEMMA InvNext == DiscoveryInv /\ [DiscoveryNext]_dvars => DiscoveryInv'
<1> SUFFICES ASSUME DiscoveryInv, [DiscoveryNext]_dvars, NEW j \in Kinds PROVE KindInv(j)'
  BY TypeNext DEF DiscoveryInv
<1>1. DiscoveryTypeOK /\ KindInv(j)  BY DEF DiscoveryInv
<1>2. CASE \E k \in Kinds : ServerNext(k)  BY <1>2, ServerInvStep
<1>3. ASSUME NEW k \in Kinds, WorkerNext(k) PROVE KindInv(j)'
  <2>1. CASE j = k  BY <1>3, <2>1, WorkerInvStep
  <2>2. CASE j # k  BY <1>1, <1>3, <2>2, WorkerOthers, OtherKind DEF crdVars
  <2> QED  BY <2>1, <2>2
<1>4. CASE \/ \E k \in Kinds : PokeWorker(k)
           \/ \E b \in BOOLEAN : SetKick(b)
           \/ UNCHANGED dvars
  BY <1>1, <1>4, OtherKind DEF PokeWorker, SetKick, dvars, crdVars
<1> QED  BY <1>2, <1>3, <1>4 DEF DiscoveryNext

\* The inductive invariant holds in every reachable state.
THEOREM DiscoveryInvariant == DiscoverySpec => []DiscoveryInv
<1> QED  BY InitInv, InvNext, PTL DEF DiscoverySpec

\* A generation published as Removed is gone from the API server, for good,
\* however old the read behind it (readCRD, removeObserved).
THEOREM RemovedStaysGone == DiscoverySpec => []RemovedIsGone
<1>1. DiscoveryInv => RemovedIsGone
  BY DEF DiscoveryInv, KindInv, MemoryInv, AbsenceInv, RemovedIsGone
<1> QED  BY <1>1, DiscoveryInvariant, PTL

\* WatchStarted is promised only for a CRD generation installed after the
\* supervisor started (isLate).
THEOREM LateMeansAfterStart == DiscoverySpec => []LateIsAfterStart
<1>1. DiscoveryInv => LateIsAfterStart
  BY DEF DiscoveryInv, KindInv, AbsenceInv, LateIsAfterStart
<1> QED  BY <1>1, DiscoveryInvariant, PTL

-----------------------------------------------------------------------------
(* No event is lost: a worker with nothing to do is up to date *)

\* What a worker that has classified the CRD object c remembers.
Reflects(w, c) ==
  LET live == c.uid # 0 /\ ~c.deleting IN
  /\ live /\ c.ready => w.state = "Ready" /\ w.uid = c.uid
  /\ live /\ ~c.ready => w.state \in {"Unknown", "Removed"} \/ (w.state = "Unservable" /\ w.uid = c.uid)
  /\ ~live => w.state \in {"Unknown", "Removed"}

\* A worker that is not poked holds the CRD as it is now, is going to retry,
\* or has classified the CRD as it is now.
FreshInv(k) ==
  ~poked[k] =>
    /\ HasRead(k) => worker[k].got = crd[k]
    /\ ~HasRead(k) => worker[k].retry \/ Reflects(worker[k], crd[k])

\* A step that ends the classification of what was read.
LEMMA FreshEnds ==
  ASSUME NEW k \in Kinds, FreshInv(k), HasRead(k), UNCHANGED crdVars, poked' = poked,
         worker'[k].pc \in {"idle", "kick"},
         worker'[k].retry \/ Reflects(worker'[k], worker[k].got)
  PROVE  FreshInv(k)'
<1>1. crd' = crd /\ ~HasRead(k)'  BY DEF crdVars, HasRead
<1>2. Reflects(worker'[k], crd[k]) <=> Reflects(worker[k], crd[k])'  BY <1>1 DEF Reflects
<1> QED  BY <1>1, <1>2 DEF FreshInv

\* Each branch of readCRD leaves a worker that reflects what it read.
LEMMA FreshWorker ==
  ASSUME DiscoveryTypeOK, NEW k \in Kinds, FreshInv(k), WorkerNext(k)
  PROVE  FreshInv(k)'
<1>1. /\ worker[k] \in crdWorker /\ worker[k].state \in crdState
      /\ {"idle", "kick"} \subseteq workerPC /\ {"idle", "kick"} \subseteq {"idle", "kick", "kickMore"}
      /\ crdState = {"Unknown", "Ready", "Unservable", "Removed"}
  BY WorkerFields, Members DEF DiscoveryTypeOK, crdState, L!crdState
<1>2. \A w : SetWorker(k, w) => worker'[k] = w  BY DEF SetWorker, DiscoveryTypeOK
<1>3. CASE ReadCRD(k)
  <2>1. PICK w : /\ w = [worker[k] EXCEPT !.pc = "classify", !.got = crd[k], !.retry = FALSE,
                        !.firstUID = IF @ = 0 THEN crd[k].uid ELSE @]
                 /\ SetWorker(k, w) /\ UNCHANGED crdVars
    BY <1>3 DEF ReadCRD
  <2>2. w.pc = "classify" /\ w.got = crd[k]  BY <1>1, <2>1 DEF crdWorker
  <2>3. worker'[k] = w /\ crd' = crd  BY <1>2, <2>1 DEF crdVars
  <2> QED  BY <2>2, <2>3 DEF FreshInv, HasRead
<1>4. CASE ReadFails(k)
  <2>1. PICK w : /\ w = [worker[k] EXCEPT !.retry = TRUE]
                 /\ SetWorker(k, w) /\ worker[k].pc = "idle"
    BY <1>4 DEF ReadFails
  <2>2. w.pc = worker[k].pc /\ w.retry  BY <1>1, <2>1 DEF crdWorker
  <2>3. worker'[k] = w  BY <1>2, <2>1
  <2>4. worker'[k].pc = "idle" /\ worker'[k].retry  BY <2>1, <2>2, <2>3
  <2> QED  BY <2>4 DEF FreshInv, HasRead
<1>5. CASE KickApply(k)
  <2>1. PICK pc, w : /\ pc = (IF worker[k].pc = "kick" THEN "idle" ELSE "classify")
                     /\ w = [worker[k] EXCEPT !.pc = pc]
                     /\ SetWorker(k, w) /\ UNCHANGED <<crdVars, poked>>
                     /\ worker[k].pc \in {"kick", "kickMore"}
    BY <1>5 DEF KickApply
  <2>2. /\ w.pc = pc /\ w.got = worker[k].got /\ w.retry = worker[k].retry
        /\ w.state = worker[k].state /\ w.uid = worker[k].uid
    BY <1>1, <2>1 DEF crdWorker
  <2>3. worker'[k] = w /\ crd' = crd /\ poked' = poked  BY <1>2, <2>1 DEF crdVars
  <2>4. HasRead(k)' <=> HasRead(k)  BY <2>1, <2>2, <2>3 DEF HasRead
  <2>5. Reflects(worker[k], crd[k])' <=> Reflects(worker[k], crd[k])  BY <2>2, <2>3 DEF Reflects
  <2> QED  BY <2>2, <2>3, <2>4, <2>5 DEF FreshInv
<1>6. Classify(k) => worker[k].pc = "classify" /\ HasRead(k) /\ UNCHANGED <<crdVars, poked>>
  BY DEF Classify, ClassifyAbsent, ClassifyReplaced, ClassifyDeleting, ClassifyNotReady,
     ClassifyStillReady, ClassifyBecomesReady, ClassifyNoMatch, Current, HasRead
<1>7. ASSUME removeObserved(k, "kick")
      PROVE  worker'[k].pc = "kick" /\ worker'[k].state = "Removed"
  BY <1>7, RemoveFields
<1>8. ASSUME SetWorker(k, Goto(worker[k], "idle"))
      PROVE  worker'[k].pc = "idle" /\ worker'[k].state = worker[k].state /\ worker'[k].uid = worker[k].uid
  BY <1>8, RestFields
<1>9. CASE ClassifyAbsent(k)
  <2>1. worker[k].got.uid = 0 /\ HasRead(k) /\ UNCHANGED <<crdVars, poked>>
    BY <1>6, <1>9 DEF Classify, ClassifyAbsent
  <2>2. worker'[k].pc \in {"idle", "kick"} /\ worker'[k].state \in {"Unknown", "Removed"}
    <3>1. CASE Tracks(worker[k])
      <4>1. removeObserved(k, "kick")  BY <1>9, <3>1 DEF ClassifyAbsent
      <4> QED  BY <1>7, <4>1
    <3>2. CASE ~Tracks(worker[k])
      <4>1. PICK g, w : /\ g = Goto(worker[k], "idle") /\ w = [g EXCEPT !.sawAbsent = TRUE]
                        /\ SetWorker(k, w)
        BY <1>9, <3>2 DEF ClassifyAbsent
      <4>2. g \in crdWorker /\ g.pc = "idle" /\ g.state = worker[k].state  BY <1>1, <4>1, GotoFields
      <4>3. w.pc = g.pc /\ w.state = g.state  BY <4>1, <4>2 DEF crdWorker
      <4>4. worker'[k] = w  BY <1>2, <4>1
      <4>5. worker[k].state \in {"Unknown", "Removed"}  BY <1>1, <3>2 DEF Tracks
      <4> QED  BY <4>2, <4>3, <4>4, <4>5
    <3> QED  BY <3>1, <3>2
  <2> QED  BY <2>1, <2>2, FreshEnds DEF Reflects
<1>10. CASE ClassifyReplaced(k)
  <2>1. removeObserved(k, "kickMore") /\ HasRead(k) /\ UNCHANGED <<crdVars, poked>>
    BY <1>6, <1>10 DEF Classify, ClassifyReplaced
  <2>2. worker'[k].pc = "kickMore" /\ worker'[k].got = worker[k].got  BY <2>1, RemoveFields
  <2> QED  BY <2>1, <2>2 DEF FreshInv, HasRead, crdVars
<1>11. CASE ClassifyDeleting(k)
  <2>1. worker[k].got.deleting /\ HasRead(k) /\ UNCHANGED <<crdVars, poked>>
    BY <1>6, <1>11 DEF Classify, ClassifyDeleting
  <2>2. CASE Tracks(worker[k])
    <3>1. removeObserved(k, "kick")  BY <1>11, <2>2 DEF ClassifyDeleting
    <3> QED  BY <1>7, <2>1, <3>1, FreshEnds DEF Reflects
  <2>3. CASE ~Tracks(worker[k])
    <3>1. SetWorker(k, Goto(worker[k], "idle"))  BY <1>11, <2>3 DEF ClassifyDeleting
    <3>2. worker[k].state \in {"Unknown", "Removed"}  BY <1>1, <2>3 DEF Tracks
    <3> QED  BY <1>8, <2>1, <3>1, <3>2, FreshEnds DEF Reflects
  <2> QED  BY <2>2, <2>3
<1>12. CASE ClassifyNotReady(k)
  <2>1. /\ ~worker[k].got.deleting /\ ~worker[k].got.ready /\ worker[k].got.uid # 0
        /\ (Tracks(worker[k]) => worker[k].got.uid = worker[k].uid)
        /\ HasRead(k) /\ UNCHANGED <<crdVars, poked>>
    BY <1>6, <1>12 DEF Classify, ClassifyNotReady, Current
  <2>2. CASE worker[k].state = "Ready"
    <3>1. PICK g, w : /\ g = Goto(worker[k], "kick") /\ w = [g EXCEPT !.state = "Unservable"]
                      /\ SetWorker(k, w)
      BY <1>12, <2>2 DEF ClassifyNotReady
    <3>2. g \in crdWorker /\ g.pc = "kick" /\ g.uid = worker[k].uid  BY <1>1, <3>1, GotoFields
    <3>3. w.pc = g.pc /\ w.uid = g.uid /\ w.state = "Unservable"  BY <3>1, <3>2 DEF crdWorker
    <3>4. worker'[k] = w  BY <1>2, <3>1
    <3>5. worker[k].got.uid = worker[k].uid  BY <2>1, <2>2 DEF Tracks
    <3> QED  BY <2>1, <3>2, <3>3, <3>4, <3>5, FreshEnds DEF Reflects
  <2>3. CASE worker[k].state # "Ready"
    <3>1. SetWorker(k, Goto(worker[k], "idle"))  BY <1>12, <2>3 DEF ClassifyNotReady
    <3>2. worker[k].state \in {"Unknown", "Removed"} \/ (worker[k].state = "Unservable" /\ worker[k].uid = worker[k].got.uid)
      BY <1>1, <2>1, <2>3 DEF Tracks
    <3> QED  BY <1>8, <2>1, <3>1, <3>2, FreshEnds DEF Reflects
  <2> QED  BY <2>2, <2>3
<1>13. CASE ClassifyStillReady(k)
  <2>1. /\ ~worker[k].got.deleting /\ worker[k].got.ready /\ worker[k].got.uid # 0
        /\ worker[k].state = "Ready" /\ worker[k].got.uid = worker[k].uid
        /\ SetWorker(k, Goto(worker[k], "idle")) /\ HasRead(k) /\ UNCHANGED <<crdVars, poked>>
    BY <1>6, <1>13 DEF Classify, ClassifyStillReady, Current, Tracks
  <2> QED  BY <1>8, <2>1, FreshEnds DEF Reflects
<1>14. CASE ClassifyBecomesReady(k)
  <2>1. /\ ~worker[k].got.deleting /\ worker[k].got.ready /\ HasRead(k) /\ UNCHANGED <<crdVars, poked>>
    BY <1>6, <1>14 DEF Classify, ClassifyBecomesReady
  <2>2. PICK g, w : /\ g = Goto(worker[k], "kick")
                    /\ w = [g EXCEPT !.state = "Ready", !.uid = worker[k].got.uid, !.lag = "no"]
                    /\ SetWorker(k, w)
    BY <1>14 DEF ClassifyBecomesReady
  <2>3. g \in crdWorker /\ g.pc = "kick"  BY <1>1, <2>2, GotoFields
  <2>4. w.pc = "kick" /\ w.uid = worker[k].got.uid /\ w.state = "Ready"  BY <2>2, <2>3 DEF crdWorker
  <2>5. worker'[k] = w /\ worker[k].got.uid # 0  BY <1>2, <1>14, <2>2 DEF ClassifyBecomesReady, Current
  <2> QED  BY <2>1, <2>4, <2>5, FreshEnds DEF Reflects
<1>15. CASE ClassifyNoMatch(k)
  <2>1. HasRead(k) /\ UNCHANGED <<crdVars, poked>>  BY <1>6, <1>15 DEF Classify
  <2>2. \/ SetWorker(k, [Goto(worker[k], "idle") EXCEPT !.retry = TRUE,
                        !.lag = IF @ = "no" THEN "since" ELSE @])
        \/ SetWorker(k, [Goto(worker[k], "kick") EXCEPT !.retry = TRUE,
                        !.lag = "reported", !.lagSeq = @ + 1])
    BY <1>15 DEF ClassifyNoMatch
  <2>3. PICK g, h, l, n : /\ g = Goto(worker[k], "idle") /\ h = Goto(worker[k], "kick")
                          /\ l = (IF g.lag = "no" THEN "since" ELSE g.lag) /\ n = h.lagSeq + 1
    OBVIOUS
  <2>4. g \in crdWorker /\ g.pc = "idle" /\ h \in crdWorker /\ h.pc = "kick"  BY <1>1, <2>3, GotoFields
  <2>5. \/ worker'[k] = [g EXCEPT !.retry = TRUE, !.lag = l]
        \/ worker'[k] = [h EXCEPT !.retry = TRUE, !.lag = "reported", !.lagSeq = n]
    BY <1>2, <2>2, <2>3
  <2>6. worker'[k].pc \in {"idle", "kick"} /\ worker'[k].retry  BY <2>4, <2>5 DEF crdWorker
  <2> QED  BY <2>1, <2>6, FreshEnds
<1> QED
  BY <1>3, <1>4, <1>5, <1>9, <1>10, <1>11, <1>12, <1>13, <1>14, <1>15 DEF WorkerNext, Classify

\* Every step keeps it: a change in the API server pokes the worker, and the
\* token it leaves is taken before the read, never after it.
LEMMA FreshNext ==
  DiscoveryInv /\ (\A k \in Kinds : FreshInv(k)) /\ [DiscoveryNext]_dvars => \A k \in Kinds : FreshInv(k)'
<1> SUFFICES ASSUME DiscoveryInv, \A k \in Kinds : FreshInv(k), [DiscoveryNext]_dvars, NEW j \in Kinds
             PROVE  FreshInv(j)'
  OBVIOUS
<1>1. DiscoveryTypeOK /\ FreshInv(j)  BY DEF DiscoveryInv
<1>2. ASSUME crd'[j] = crd[j], worker'[j] = worker[j], poked'[j] = poked[j]  PROVE FreshInv(j)'
  BY <1>1, <1>2 DEF FreshInv, HasRead, Reflects
<1>3. ASSUME NEW k \in Kinds, ServerNext(k) PROVE FreshInv(j)'
  <2>1. PICK c : ServerChange(k, c)
    BY <1>3 DEF ServerNext, InstallCRD, EditCRD, BeginDeleteCRD, FinishDeleteCRD
  <2>2. CASE j = k
    <3>1. poked'[j] = TRUE  BY <1>1, <2>1, <2>2 DEF ServerChange, DiscoveryTypeOK
    <3> QED  BY <3>1 DEF FreshInv
  <2>3. CASE j # k  BY <1>1, <1>2, <2>1, <2>3 DEF ServerChange, DiscoveryTypeOK
  <2> QED  BY <2>2, <2>3
<1>4. ASSUME NEW k \in Kinds, WorkerNext(k) PROVE FreshInv(j)'
  <2>1. CASE j = k  BY <1>1, <1>4, <2>1, FreshWorker
  <2>2. CASE j # k
    <3>1. UNCHANGED crdVars /\ worker'[j] = worker[j]  BY <1>1, <1>4, <2>2, WorkerOthers
    <3>2. poked' = poked \/ poked' = [poked EXCEPT ![k] = FALSE]
      BY <1>4 DEF WorkerNext, ReadCRD, ReadFails, KickApply, Classify, ClassifyAbsent, ClassifyReplaced,
         ClassifyDeleting, ClassifyNotReady, ClassifyStillReady, ClassifyBecomesReady, ClassifyNoMatch
    <3>3. poked'[j] = poked[j]  BY <1>1, <2>2, <3>2 DEF DiscoveryTypeOK
    <3> QED  BY <1>2, <3>1, <3>3 DEF crdVars
  <2> QED  BY <2>1, <2>2
<1>5. ASSUME NEW k \in Kinds, PokeWorker(k) PROVE FreshInv(j)'
  <2>1. CASE j = k
    <3>1. poked'[j] = TRUE  BY <1>1, <1>5, <2>1 DEF PokeWorker, DiscoveryTypeOK
    <3> QED  BY <3>1 DEF FreshInv
  <2>2. CASE j # k  BY <1>1, <1>2, <1>5, <2>2 DEF PokeWorker, DiscoveryTypeOK, crdVars
  <2> QED  BY <2>1, <2>2
<1>6. CASE (\E b \in BOOLEAN : SetKick(b)) \/ UNCHANGED dvars
  BY <1>2, <1>6 DEF SetKick, dvars, crdVars
<1> QED  BY <1>3, <1>4, <1>5, <1>6 DEF DiscoveryNext

\* A worker that rests, without a token and without a retry, has published
\* the CRD as it is: no informer event, mapping lag or failed read is lost.
THEOREM RestingIsCurrent == DiscoverySpec => []RestingWorkerIsCurrent
<1> DEFINE Fresh == \A k \in Kinds : FreshInv(k)
<1>1. DiscoveryInit => Fresh  BY DEF DiscoveryInit, FreshInv
<1>2. DiscoveryInv /\ Fresh /\ [DiscoveryNext]_dvars => Fresh'  BY FreshNext
<1>3. DiscoveryInv /\ Fresh => RestingWorkerIsCurrent
  <2>1. SUFFICES ASSUME DiscoveryInv, Fresh, NEW k \in Kinds,
                        worker[k].pc = "idle", ~poked[k], ~worker[k].retry
                 PROVE  LET live == crd[k].uid # 0 /\ ~crd[k].deleting IN
                        /\ live /\ crd[k].ready => obs[k].state = "Ready" /\ obs[k].uid = crd[k].uid
                        /\ live /\ ~crd[k].ready =>
                             obs[k].state \in {"Unknown", "Removed"}
                               \/ (obs[k].state = "Unservable" /\ obs[k].uid = crd[k].uid)
                        /\ ~live => obs[k].state \in {"Unknown", "Removed"}
    BY DEF RestingWorkerIsCurrent
  <2>2. Reflects(worker[k], crd[k])  BY <2>1 DEF FreshInv, HasRead
  <2>3. obs[k].state = worker[k].state /\ obs[k].uid = worker[k].uid
    BY <2>1 DEF DiscoveryInv, KindInv, MemoryInv
  <2> QED  BY <2>2, <2>3 DEF Reflects
<1> HIDE DEF Fresh
<1> QED  BY <1>1, <1>2, <1>3, DiscoveryInvariant, PTL DEF DiscoverySpec

-----------------------------------------------------------------------------
(* Refinement: discovery implements the state machine of CRDLifecycle *)

Pub == [k \in Kinds |-> [state |-> obs[k].state, uid |-> obs[k].uid]]

\* The abstract worker steps in terms of the observations.
LEMMA AbstractSteps ==
  ASSUME NEW k \in Kinds
  PROVE  /\ \A u : /\ obs[k].state \in {"Unknown", "Removed"} /\ u > obs[k].uid
                   /\ Pub' = [Pub EXCEPT ![k] = [state |-> "Ready", uid |-> u]]
                   => L!BecomeReady(k)
         /\ /\ obs[k].state = "Ready"
            /\ Pub' = [Pub EXCEPT ![k] = [state |-> "Unservable", uid |-> obs[k].uid]]
            => L!BecomeUnservable(k)
         /\ /\ obs[k].state = "Unservable"
            /\ Pub' = [Pub EXCEPT ![k] = [state |-> "Ready", uid |-> obs[k].uid]]
            => L!Recover(k)
         /\ /\ obs[k].state \in {"Ready", "Unservable"} /\ Gone(crd[k], obs[k].uid)
            /\ Pub' = [Pub EXCEPT ![k] = [state |-> "Removed", uid |-> obs[k].uid]]
            => L!BecomeRemoved(k)
<1>1. ASSUME NEW u, obs[k].state \in {"Unknown", "Removed"}, u > obs[k].uid,
             Pub' = [Pub EXCEPT ![k] = [state |-> "Ready", uid |-> u]]
      PROVE  L!BecomeReady(k)
  <2>1. Pub'[k].uid = u  BY <1>1 DEF Pub
  <2> QED  BY <1>1, <2>1 DEF L!BecomeReady, L!Publish, Pub
<1>2. /\ obs[k].state = "Ready"
      /\ Pub' = [Pub EXCEPT ![k] = [state |-> "Unservable", uid |-> obs[k].uid]]
      => L!BecomeUnservable(k)
  BY DEF L!BecomeUnservable, L!Publish, Pub
<1>3. /\ obs[k].state = "Unservable"
      /\ Pub' = [Pub EXCEPT ![k] = [state |-> "Ready", uid |-> obs[k].uid]]
      => L!Recover(k)
  BY DEF L!Recover, L!Publish, Pub
<1>4. /\ obs[k].state \in {"Ready", "Unservable"} /\ Gone(crd[k], obs[k].uid)
      /\ Pub' = [Pub EXCEPT ![k] = [state |-> "Removed", uid |-> obs[k].uid]]
      => L!BecomeRemoved(k)
  BY DEF L!BecomeRemoved, L!Publish, Pub, Gone
<1> QED  BY <1>1, <1>2, <1>3, <1>4

\* A published observation is a Publish of the abstract specification.
LEMMA PubUpdate ==
  ASSUME NEW k \in Kinds, NEW s, NEW u,
         obs'[k].state = s, obs'[k].uid = u,
         \A j \in Kinds \ {k} : obs'[j] = obs[j]
  PROVE  Pub' = [Pub EXCEPT ![k] = [state |-> s, uid |-> u]]
  BY DEF Pub

\* The initial states are initial states of CRDLifecycle.
LEMMA RefineInit == DiscoveryInit => L!LInit
  BY TypeInit DEF DiscoveryInit, DiscoveryTypeOK, L!LInit, NoObservation, CRDObject

\* A change of the API server is a ServerStep of CRDLifecycle.
LEMMA RefineServer ==
  ASSUME DiscoveryInv, NEW k \in Kinds, ServerNext(k)
  PROVE  L!ServerStep
<1>1. DiscoveryTypeOK /\ DiscoveryTypeOK'  BY TypeServer DEF DiscoveryInv
<1>2. crd' \in [Kinds -> CRDObject]  BY <1>1 DEF DiscoveryTypeOK
<1>3. obs' = obs  BY <1>1, ServerStepFacts DEF DiscoveryInv, KindInv
<1>4. ASSUME NEW j \in Kinds, obs[j].uid # 0, Gone(crd[j], obs[j].uid)
      PROVE  Gone(crd'[j], obs[j].uid)
  <2>1. obs[j].uid \in Nat /\ obs[j].uid <= top[j]
    BY <1>1, <1>4 DEF DiscoveryInv, KindInv, MemoryInv, Issued, DiscoveryTypeOK, crdObservation
  <2>2. CASE j = k  BY <1>1, <1>4, <2>1, <2>2, ServerStepFacts DEF DiscoveryInv, KindInv
  <2>3. CASE j # k  BY <1>1, <1>4, <2>3, ServerStepFacts DEF DiscoveryInv, KindInv
  <2> QED  BY <2>2, <2>3
<1> QED  BY <1>2, <1>3, <1>4 DEF L!ServerStep, CRDObject, Gone

\* removeObserved is BecomeRemoved: the published generation is gone.
LEMMA RefineRemoved ==
  ASSUME DiscoveryInv, NEW k \in Kinds, NEW pc \in {"kick", "kickMore"},
         Tracks(worker[k]), Gone(crd[k], worker[k].uid), removeObserved(k, pc)
  PROVE  L!BecomeRemoved(k)
<1>1. DiscoveryTypeOK /\ obs[k].state = worker[k].state /\ obs[k].uid = worker[k].uid
  BY DEF DiscoveryInv, KindInv, MemoryInv
<1>2. obs'[k].state = "Removed" /\ obs'[k].uid = obs[k].uid /\ \A j \in Kinds \ {k} : obs'[j] = obs[j]
  BY <1>1, RemoveFields
<1>3. Pub' = [Pub EXCEPT ![k] = [state |-> "Removed", uid |-> obs[k].uid]]
  BY <1>2, PubUpdate
<1> QED  BY <1>1, <1>3, AbstractSteps DEF Tracks

\* What the classification finds in a read, whatever happened since.
LEMMA RefineClassify ==
  ASSUME DiscoveryInv, NEW k \in Kinds, Classify(k)
  PROVE  L!WorkerStep \/ UNCHANGED <<crd, Pub>>
<1> DEFINE w == worker[k]
<1>1. DiscoveryTypeOK /\ MemoryInv(k) /\ ReadInv(k)  BY DEF DiscoveryInv, KindInv
<1>2. UNCHANGED crd /\ \A j \in Kinds \ {k} : obs'[j] = obs[j]
  BY <1>1, WorkerOthers DEF WorkerNext, crdVars
<1>3. w.uid \in Nat /\ w.got.uid \in Nat /\ w.state \in {"Unknown", "Ready", "Unservable", "Removed"}
  BY <1>1, WorkerFields, Members DEF DiscoveryTypeOK
<1>4. obs[k].state = w.state /\ obs[k].uid = w.uid  BY <1>1 DEF MemoryInv
<1>5. (\E pc \in {"kick", "kickMore"} : removeObserved(k, pc)) /\ Tracks(w) /\ Gone(crd[k], w.uid)
        => L!WorkerStep
  BY <1>2, RefineRemoved DEF L!WorkerStep
<1>6. UNCHANGED obs => UNCHANGED <<crd, Pub>>  BY <1>2 DEF Pub
<1>7. CASE ClassifyAbsent(k)
  <2>1. CASE Tracks(w)
    <3>1. Gone(crd[k], w.uid)
      BY <1>1, <1>7, <2>1, GoneDef DEF ClassifyAbsent, HasRead, ReadInv, MemoryInv, Tracks
    <3> QED  BY <1>5, <1>7, <2>1, <3>1 DEF ClassifyAbsent
  <2>2. CASE ~Tracks(w)  BY <1>6, <1>7, <2>2 DEF ClassifyAbsent
  <2> QED  BY <2>1, <2>2
<1>8. CASE ClassifyReplaced(k)
  <2>1. Gone(crd[k], w.uid)
    BY <1>1, <1>8, GoneDef DEF ClassifyReplaced, HasRead, ReadInv, MemoryInv, Tracks
  <2> QED  BY <1>5, <1>8, <2>1 DEF ClassifyReplaced
<1>9. CASE ClassifyDeleting(k)
  <2>1. CASE Tracks(w)
    <3>1. Gone(crd[k], w.uid)
      BY <1>1, <1>9, <2>1, GoneDef DEF ClassifyDeleting, Current, HasRead, ReadInv, MemoryInv, Tracks
    <3> QED  BY <1>5, <1>9, <2>1, <3>1 DEF ClassifyDeleting
  <2>2. CASE ~Tracks(w)  BY <1>6, <1>9, <2>2 DEF ClassifyDeleting
  <2> QED  BY <2>1, <2>2
<1>10. CASE ClassifyNotReady(k)
  <2>1. CASE w.state = "Ready"
    <3>1. obs'[k].state = "Unservable" /\ obs'[k].uid = obs[k].uid
      BY <1>1, <1>4, <1>10, <2>1 DEF ClassifyNotReady, Current, Tracks, publish, DiscoveryTypeOK
    <3>2. Pub' = [Pub EXCEPT ![k] = [state |-> "Unservable", uid |-> obs[k].uid]]
      BY <1>2, <3>1, PubUpdate
    <3> QED  BY <1>2, <1>4, <2>1, <3>2, AbstractSteps DEF L!WorkerStep
  <2>2. CASE w.state # "Ready"  BY <1>6, <1>10, <2>2 DEF ClassifyNotReady
  <2> QED  BY <2>1, <2>2
<1>11. CASE ClassifyStillReady(k)  BY <1>6, <1>11 DEF ClassifyStillReady
<1>12. CASE ClassifyBecomesReady(k)
  <2>1. obs'[k].state = "Ready" /\ obs'[k].uid = w.got.uid
    BY <1>1, <1>12 DEF ClassifyBecomesReady, publish, DiscoveryTypeOK
  <2>2. Pub' = [Pub EXCEPT ![k] = [state |-> "Ready", uid |-> w.got.uid]]
    BY <1>2, <2>1, PubUpdate
  <2>3. /\ w.got.uid # 0 /\ ~w.got.deleting /\ HasRead(k) /\ w.state # "Ready"
        /\ Tracks(w) => w.got.uid = w.uid
    BY <1>12 DEF ClassifyBecomesReady, Current, HasRead
  <2>4. CASE w.state = "Unservable"
    BY <1>2, <1>4, <2>2, <2>3, <2>4, AbstractSteps DEF L!WorkerStep, Tracks
  <2>5. CASE w.state \in {"Unknown", "Removed"}
    <3>1. w.got.uid > obs[k].uid
      BY <1>1, <1>3, <1>4, <2>3, <2>5 DEF ReadInv, MemoryInv
    <3> QED  BY <1>2, <1>4, <2>2, <2>5, <3>1, AbstractSteps DEF L!WorkerStep
  <2> QED  BY <1>3, <2>3, <2>4, <2>5
<1>13. CASE ClassifyNoMatch(k)
  <2>1. obs[k] \in crdObservation  BY <1>1 DEF DiscoveryTypeOK
  <2>2. obs'[k] = obs[k] \/ obs'[k] = [obs[k] EXCEPT !.lagErr = TRUE, !.lagSeq = w.lagSeq + 1]
    BY <1>1, <1>13 DEF ClassifyNoMatch, DiscoveryTypeOK
  <2>3. obs'[k].state = obs[k].state /\ obs'[k].uid = obs[k].uid
    BY <2>1, <2>2 DEF crdObservation
  <2> QED  BY <1>2, <2>3 DEF Pub
<1> QED
  BY <1>7, <1>8, <1>9, <1>10, <1>11, <1>12, <1>13 DEF Classify

\* Every step is a step of CRDLifecycle or leaves it alone.
LEMMA RefineNext == DiscoveryInv /\ [DiscoveryNext]_dvars => [L!LNext]_(L!lvars)
<1> SUFFICES ASSUME DiscoveryInv, [DiscoveryNext]_dvars PROVE L!LNext \/ UNCHANGED <<crd, Pub>>
  BY DEF L!lvars, Pub
<1>1. CASE \E k \in Kinds : ServerNext(k)  BY <1>1, RefineServer DEF L!LNext
<1>2. CASE \E k \in Kinds : Classify(k)  BY <1>2, RefineClassify DEF L!LNext
<1>3. CASE \/ \E k \in Kinds : ReadCRD(k) \/ ReadFails(k) \/ KickApply(k) \/ PokeWorker(k)
           \/ \E b \in BOOLEAN : SetKick(b)
           \/ UNCHANGED dvars
  BY <1>3 DEF ReadCRD, ReadFails, KickApply, PokeWorker, SetKick, dvars, crdVars, Pub
<1> QED  BY <1>1, <1>2, <1>3 DEF DiscoveryNext, WorkerNext

\* Discovery implements the state machine of Design 004 A1: every published
\* transition is one of Ready, Unservable, recovery and Removed of one
\* generation, and only what is gone is published as Removed.
THEOREM DiscoveryImplementsLifecycle == DiscoverySpec => ImplementsLifecycle
<1> QED
  BY RefineInit, RefineNext, DiscoveryInvariant, PTL DEF DiscoverySpec, ImplementsLifecycle, L!LSpec
=============================================================================
