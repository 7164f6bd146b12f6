------------------------- MODULE SinkDeliveryProofs -------------------------
(***************************************************************************)
(* Proofs about SinkDelivery, for any sinks of the snapshot, any numbers   *)
(* of attempts and any number of emissions.                                *)
(*                                                                         *)
(* The status is written once all Emit calls of a round have returned, and *)
(* nothing but the next round changes them after that: what a call says of *)
(* its destination when it returns is what the status repeats.             *)
(***************************************************************************)
EXTENDS SinkDelivery, TLAPS

\* An Emit call has an attempt left until it returns, belongs to a round that
\* was begun, and returns nil only when the destination has the document.
CallInv(s) ==
  /\ emits[s].pc # "done" => emits[s].attempt < MaxAttempts[s] /\ round # 0
  /\ emits[s].attempt <= MaxAttempts[s]
  /\ emits[s].result = "ok" => emits[s].pc = "done" /\ round \in arrived[s]

\* A status of this round was written when every call had returned.
StatusInv ==
  docStatus.round = round => AllDone

\* The inductive invariant.
DeliveryInv ==
  /\ DeliveryTypeOK
  /\ \A s \in Configured : CallInv(s)
  /\ docStatus.round <= round
  /\ StatusInv
  /\ ReportedIsDelivered
-----------------------------------------------------------------------------
(* The updates of an Emit call *)

\* The limits of both sinks are positive.
LEMMA Limits ==
  /\ \A s \in Configured : MaxAttempts[s] \in Nat /\ MaxAttempts[s] > 0
  /\ \A s \in Configured : s \in {"gcs", "webhook"}
  /\ WriteOnly["gcs"] = FALSE /\ WriteOnly["webhook"] = TRUE
  /\ MaxRounds \in Nat
  BY DeliveryConstants DEF MaxAttempts, WriteOnly

\* The type of an Emit call, field by field.
LEMMA EmitFields ==
  ASSUME NEW e \in EmitCall
  PROVE  /\ e.pc \in {"send", "backoff", "done"} /\ e.attempt \in Nat /\ e.alive \in BOOLEAN
         /\ e.last \in Failure /\ e.result \in Failure \cup {"ok"}
  BY DEF EmitCall

\* Emit returns.
LEMMA EndedFields ==
  ASSUME NEW e \in EmitCall, NEW r \in Failure \cup {"ok"}
  PROVE  /\ Ended(e, r) \in EmitCall
         /\ Ended(e, r).pc = "done" /\ Ended(e, r).result = r /\ Ended(e, r).attempt = e.attempt
  BY DEF Ended, EmitCall

\* An attempt failed: the call pauses with an attempt left, or returns the
\* failure, and it never counts past the limit.
LEMMA FailedFields ==
  ASSUME NEW e \in EmitCall, NEW s \in Configured, NEW f \in Failure,
         e.attempt < MaxAttempts[s]
  PROVE  /\ Failed(e, s, f) \in EmitCall
         /\ Failed(e, s, f).pc # "done" => Failed(e, s, f).attempt < MaxAttempts[s]
         /\ Failed(e, s, f).attempt <= MaxAttempts[s]
         /\ Failed(e, s, f).result \in {e.result, f}
<1> DEFINE g == [e EXCEPT !.attempt = @ + 1, !.last = f]
<1>0. e.attempt \in Nat /\ e.attempt + 1 \in Nat  BY EmitFields
<1>1. g \in EmitCall /\ g.attempt = e.attempt + 1 /\ g.result = e.result
  <2>1. \A n \in Nat : [e EXCEPT !.attempt = n, !.last = f] \in EmitCall  BY DEF EmitCall
  <2>2. \A n : /\ [e EXCEPT !.attempt = n, !.last = f].attempt = n
               /\ [e EXCEPT !.attempt = n, !.last = f].result = e.result
    BY DEF EmitCall
  <2> QED  BY <1>0, <2>1, <2>2
<1>2. [g EXCEPT !.pc = "backoff"] \in EmitCall /\ [g EXCEPT !.pc = "backoff"].attempt = g.attempt
      /\ [g EXCEPT !.pc = "backoff"].result = g.result
  BY <1>1 DEF EmitCall
<1>3. Ended(g, f) \in EmitCall /\ Ended(g, f).pc = "done" /\ Ended(g, f).result = f
      /\ Ended(g, f).attempt = g.attempt
  BY <1>1, EndedFields
<1>4. Failed(e, s, f) = IF g.attempt < MaxAttempts[s] THEN [g EXCEPT !.pc = "backoff"] ELSE Ended(g, f)
  BY DEF Failed
<1>5. MaxAttempts[s] \in Nat /\ e.attempt \in Nat  BY Limits, EmitFields
<1> HIDE DEF g
<1>6. CASE g.attempt < MaxAttempts[s]  BY <1>1, <1>2, <1>4, <1>5, <1>6
<1>7. CASE ~(g.attempt < MaxAttempts[s])  BY <1>1, <1>3, <1>4, <1>5, <1>7
<1> QED  BY <1>6, <1>7

\* A new call, and the small updates of a call under way.
LEMMA CallUpdates ==
  /\ NewEmit \in EmitCall /\ NewEmit.pc = "send" /\ NewEmit.attempt = 0 /\ NewEmit.result = "none"
  /\ \A e \in EmitCall :
       /\ [e EXCEPT !.alive = FALSE] \in EmitCall
       /\ [e EXCEPT !.alive = FALSE].pc = e.pc /\ [e EXCEPT !.alive = FALSE].attempt = e.attempt
       /\ [e EXCEPT !.alive = FALSE].result = e.result
       /\ [e EXCEPT !.pc = "send"] \in EmitCall
       /\ [e EXCEPT !.pc = "send"].pc = "send" /\ [e EXCEPT !.pc = "send"].attempt = e.attempt
       /\ [e EXCEPT !.pc = "send"].result = e.result
  BY DEF NewEmit, EmitCall, Failure
-----------------------------------------------------------------------------
(* The steps of the system *)

\* Nothing has been emitted yet.
LEMMA DeliveryInitInv == DeliveryInit => DeliveryInv
<1> SUFFICES ASSUME DeliveryInit PROVE DeliveryInv  OBVIOUS
<1>1. /\ [NewEmit EXCEPT !.pc = "done"] \in EmitCall
      /\ [NewEmit EXCEPT !.pc = "done"].pc = "done"
      /\ [NewEmit EXCEPT !.pc = "done"].attempt = 0
      /\ [NewEmit EXCEPT !.pc = "done"].result = "none"
  BY DEF NewEmit, EmitCall, Failure
<1>2. \A s \in Configured :
        emits[s] \in EmitCall /\ emits[s].pc = "done" /\ emits[s].attempt = 0
        /\ emits[s].result = "none"
  BY <1>1 DEF DeliveryInit
<1>3. docStatus \in DocStatus /\ docStatus.round = 0 /\ docStatus.external = "none"
      /\ ~docStatus.synced /\ ~docStatus.truncated
  BY DEF DeliveryInit, DocStatus
<1>4. DeliveryTypeOK
  <2>1. emits \in [Configured -> EmitCall]  BY <1>1 DEF DeliveryInit
  <2> QED  BY <2>1, <1>2, <1>3, Limits DEF DeliveryInit, DeliveryTypeOK
<1>5. \A s \in Configured : CallInv(s)  BY <1>2, Limits DEF CallInv
<1>6. AllDone  BY <1>2 DEF AllDone
<1>7. ReportedIsDelivered  BY <1>3 DEF ReportedIsDelivered
<1> QED  BY <1>3, <1>4, <1>5, <1>6, <1>7 DEF DeliveryInv, StatusInv, DeliveryInit

\* A step of a call that has not returned: the others and the status are not
\* touched, and no status of this round exists yet.
LEMMA CallStep ==
  ASSUME DeliveryInv, NEW s \in Configured, NEW e \in EmitCall,
         emits[s].pc # "done",
         emits' = [emits EXCEPT ![s] = e],
         MayArrive(s),
         UNCHANGED <<round, docStatus>>,
         e.pc # "done" => e.attempt < MaxAttempts[s],
         e.attempt <= MaxAttempts[s],
         e.result = "ok" => e.pc = "done" /\ round \in arrived'[s]
  PROVE  DeliveryInv'
<1>1. round # 0 /\ docStatus.round # round
  BY DEF DeliveryInv, CallInv, StatusInv, AllDone
<1>2. arrived' \in [Configured -> SUBSET (1..MaxRounds)]
      /\ \A t \in Configured : arrived[t] \subseteq arrived'[t]
  <2>1. arrived \in [Configured -> SUBSET (1..MaxRounds)] /\ round \in 1..MaxRounds
    BY <1>1, Limits DEF DeliveryInv, DeliveryTypeOK
  <2> QED  BY <2>1 DEF MayArrive, Arrives
<1>3. emits' \in [Configured -> EmitCall] /\ emits'[s] = e
      /\ \A t \in Configured \ {s} : emits'[t] = emits[t]
  BY DEF DeliveryInv, DeliveryTypeOK
<1>4. \A t \in Configured : CallInv(t)'
  <2> TAKE t \in Configured
  <2>1. CASE t = s  BY <2>1, <1>1, <1>3 DEF CallInv
  <2>2. CASE t # s
    <3>1. CallInv(t) /\ emits'[t] = emits[t] /\ round' = round /\ arrived[t] \subseteq arrived'[t]
      BY <2>2, <1>2, <1>3 DEF DeliveryInv
    <3> QED  BY <3>1 DEF CallInv
  <2> QED  BY <2>1, <2>2
<1>5. DeliveryTypeOK'
  <2>1. \A t \in Configured : emits'[t].attempt <= MaxAttempts[t]  BY <1>4 DEF CallInv
  <2> QED  BY <1>2, <1>3, <2>1 DEF DeliveryInv, DeliveryTypeOK
<1>6. StatusInv' /\ ReportedIsDelivered'  BY <1>1 DEF StatusInv, ReportedIsDelivered
<1> QED  BY <1>4, <1>5, <1>6 DEF DeliveryInv

\* A call returns a failure: nothing is claimed of the destination.
LEMMA FailureStep ==
  ASSUME DeliveryInv, NEW s \in Configured, NEW r \in Failure, emits[s].pc # "done",
         emits' = [emits EXCEPT ![s] = Ended(emits[s], r)],
         MayArrive(s), UNCHANGED <<round, docStatus>>
  PROVE  DeliveryInv'
<1>1. emits[s] \in EmitCall /\ emits[s].attempt <= MaxAttempts[s]
  BY DEF DeliveryInv, DeliveryTypeOK, CallInv
<1>2. r \in Failure \cup {"ok"} /\ r # "ok"  BY DEF Failure
<1>3. /\ Ended(emits[s], r) \in EmitCall
      /\ Ended(emits[s], r).pc = "done" /\ Ended(emits[s], r).result = r
      /\ Ended(emits[s], r).attempt = emits[s].attempt
  BY <1>1, <1>2, EndedFields
<1> QED  BY <1>1, <1>2, <1>3, CallStep

\* A webhook's answer, by its class.
LEMMA PostStep ==
  ASSUME DeliveryInv, "webhook" \in Configured, NEW code \in {"2xx", "3xx", "4xx", "5xx"}, Post(code)
  PROVE  DeliveryInv'
<1> DEFINE e == Answered(emits["webhook"], "webhook", code)
<1>1. emits["webhook"] \in EmitCall /\ emits["webhook"].pc # "done"
      /\ emits["webhook"].attempt < MaxAttempts["webhook"] /\ emits["webhook"].result # "ok"
      /\ emits["webhook"].attempt <= MaxAttempts["webhook"]
  BY DEF DeliveryInv, DeliveryTypeOK, CallInv, Post, Sending
<1>2. emits' = [emits EXCEPT !["webhook"] = e] /\ UNCHANGED <<round, docStatus>>
  BY DEF Post
<1>3. MayArrive("webhook") /\ (code = "2xx" => Arrives("webhook"))  BY DEF Post, MayArrive
<1>4. CASE code = "2xx"
  <2>1. e = Ended(emits["webhook"], "ok")  BY <1>4 DEF Answered
  <2>2. round \in arrived'["webhook"]
    BY <1>3, <1>4 DEF Arrives, DeliveryInv, DeliveryTypeOK
  <2> QED  BY <2>1, <2>2, <1>1, <1>2, <1>3, EndedFields, CallStep
<1>5. CASE code \in {"3xx", "4xx"}
  <2>1. e = Ended(emits["webhook"], "refused")  BY <1>5 DEF Answered
  <2>2. "refused" \in Failure  BY DEF Failure
  <2> QED  BY <2>1, <2>2, <1>1, <1>2, <1>3, FailureStep
<1>6. CASE code = "5xx"
  <2>1. e = Failed(emits["webhook"], "webhook", "server")  BY <1>6 DEF Answered
  <2>2. "server" \in Failure  BY DEF Failure
  <2> QED  BY <2>1, <2>2, <1>1, <1>2, <1>3, FailedFields, CallStep
<1> QED  BY <1>4, <1>5, <1>6

\* A write to the bucket under the DoesNotExist precondition.
LEMMA WriteStep ==
  ASSUME DeliveryInv, "gcs" \in Configured, Write
  PROVE  DeliveryInv'
<1>1. emits["gcs"] \in EmitCall /\ emits["gcs"].pc # "done"
      /\ emits["gcs"].attempt <= MaxAttempts["gcs"]
  BY DEF DeliveryInv, DeliveryTypeOK, CallInv, Write, Sending
<1>2. PICK r \in {"exists", "ok", "refused"} :
        /\ emits' = [emits EXCEPT !["gcs"] = Ended(emits["gcs"], r)]
        /\ r = "ok" => Arrives("gcs")
        /\ MayArrive("gcs")
  BY DEF Write, MayArrive
<1>3. r \in Failure \cup {"ok"}  BY DEF Failure
<1>4. r = "ok" => round \in arrived'["gcs"]
  BY <1>2 DEF Arrives, DeliveryInv, DeliveryTypeOK
<1>5. UNCHANGED <<round, docStatus>>  BY DEF Write
<1> QED  BY <1>1, <1>2, <1>3, <1>4, <1>5, EndedFields, CallStep

\* The steps both sinks share: a lost answer, an attempt cut short by the end
\* of the context, the pause between two attempts, the end of the context.
LEMMA SharedSteps ==
  ASSUME DeliveryInv, NEW s \in Configured,
         NoAnswer(s) \/ CutShort(s) \/ Backoff(s) \/ ContextEnds(s)
  PROVE  DeliveryInv'
<1>1. emits[s] \in EmitCall /\ emits[s].pc # "done"
      /\ emits[s].attempt < MaxAttempts[s] /\ emits[s].result # "ok"
      /\ emits[s].attempt <= MaxAttempts[s] /\ emits[s].last \in Failure
  <2>1. emits[s] \in EmitCall /\ CallInv(s)  BY DEF DeliveryInv, DeliveryTypeOK
  <2>2. emits[s].pc # "done"  BY DEF NoAnswer, CutShort, Backoff, ContextEnds, Sending
  <2> QED  BY <2>1, <2>2, EmitFields DEF CallInv
<1>2. {"network", "context", "none"} \subseteq Failure /\ "ok" \notin Failure  BY DEF Failure
<1>3. UNCHANGED <<round, docStatus>> /\ MayArrive(s)
  BY DEF NoAnswer, CutShort, Backoff, ContextEnds, MayArrive
<1>4. CASE NoAnswer(s)
  <2>1. emits' = [emits EXCEPT ![s] = Failed(emits[s], s, "network")]  BY <1>4 DEF NoAnswer
  <2> QED  BY <2>1, <1>1, <1>2, <1>3, FailedFields, CallStep
<1>5. CASE CutShort(s)
  <2>1. emits' = [emits EXCEPT ![s] = CutShortEmit(emits[s], s)]  BY <1>5 DEF CutShort
  <2>2. CASE emits[s].last # "none"
    <3>1. CutShortEmit(emits[s], s) = Ended(emits[s], emits[s].last)  BY <2>2 DEF CutShortEmit
    <3> QED  BY <2>1, <3>1, <1>1, <1>3, FailureStep
  <2>3. CASE emits[s].last = "none"
    <3>1. CutShortEmit(emits[s], s) = Failed(emits[s], s, "context")  BY <2>3 DEF CutShortEmit
    <3> QED  BY <2>1, <3>1, <1>1, <1>2, <1>3, FailedFields, CallStep
  <2> QED  BY <2>2, <2>3
<1>6. CASE Backoff(s)
  <2>1. CASE emits' = [emits EXCEPT ![s].pc = "send"]
    <3>1. emits' = [emits EXCEPT ![s] = [emits[s] EXCEPT !.pc = "send"]]  BY <2>1
    <3> QED  BY <3>1, <1>1, <1>3, CallUpdates, CallStep
  <2>2. CASE emits' = [emits EXCEPT ![s] = Ended(emits[s], emits[s].last)]
    BY <2>2, <1>1, <1>3, FailureStep
  <2> QED  BY <1>6, <2>1, <2>2 DEF Backoff
<1>7. CASE ContextEnds(s)
  <2>1. emits' = [emits EXCEPT ![s] = [emits[s] EXCEPT !.alive = FALSE]]  BY <1>7 DEF ContextEnds
  <2> QED  BY <2>1, <1>1, <1>3, CallUpdates, CallStep
<1> QED  BY <1>4, <1>5, <1>6, <1>7

\* The status names a sink that confirmed the document, one that can be read
\* from before one that cannot.
LEMMA ExternalRefIs ==
  /\ ExternalRef # "none" => ExternalRef \in Configured /\ emits[ExternalRef].result = "ok"
  /\ ExternalRef = "webhook" => "gcs" \notin Configured \/ emits["gcs"].result # "ok"
  /\ ExternalRef = "none" => \A s \in Configured : emits[s].result # "ok"
<1>1. \A b \in BOOLEAN : Successful(b) # {} =>
        (CHOOSE s \in Successful(b) : TRUE) \in Successful(b)
  OBVIOUS
<1>2. \A b \in BOOLEAN : \A s \in Successful(b) :
        s \in Configured /\ emits[s].result = "ok" /\ WriteOnly[s] = b
  BY DEF Successful
<1>3. \A s \in Configured : emits[s].result = "ok" => s \in Successful(FALSE) \/ s \in Successful(TRUE)
  BY Limits DEF Successful
<1>4. "gcs" \in Configured /\ emits["gcs"].result = "ok" => "gcs" \in Successful(FALSE)
  BY Limits DEF Successful
<1>5. CASE Successful(FALSE) # {}
  <2>1. ExternalRef \in Successful(FALSE)  BY <1>1, <1>5 DEF ExternalRef
  <2> QED  BY <2>1, <1>2, Limits
<1>6. CASE Successful(FALSE) = {} /\ Successful(TRUE) # {}
  <2>1. ExternalRef \in Successful(TRUE)  BY <1>1, <1>6 DEF ExternalRef
  <2> QED  BY <2>1, <1>2, <1>4, <1>6, Limits
<1>7. CASE Successful(FALSE) = {} /\ Successful(TRUE) = {}
  <2>1. ExternalRef = "none"  BY <1>7 DEF ExternalRef
  <2> QED  BY <2>1, <1>3, <1>7
<1> QED  BY <1>5, <1>6, <1>7

\* wg.Wait has returned and the status is written.
LEMMA ReportStep ==
  ASSUME DeliveryInv, NEW small \in BOOLEAN, Report(small)
  PROVE  DeliveryInv'
<1> DEFINE ref == IF small THEN "none" ELSE ExternalRef
           synced == \A s \in Configured : emits[s].result = "ok"
<1>1. AllDone /\ UNCHANGED <<round, emits, arrived>>  BY DEF Report
<1>2. ref \in Configured \cup {"none"}  BY ExternalRefIs
<1>3. docStatus' \in DocStatus
      /\ docStatus'.round = round /\ docStatus'.external = ref
      /\ docStatus'.truncated = (~small /\ ExternalRef = "none") /\ docStatus'.synced = synced
  <2>1. docStatus' = [round |-> round, inline |-> small, external |-> ref,
                      truncated |-> ~small /\ ExternalRef = "none", synced |-> synced]
    BY DEF Report
  <2>2. round \in Nat  BY Limits DEF DeliveryInv, DeliveryTypeOK
  <2> HIDE DEF ref, synced
  <2>3. (~small /\ ExternalRef = "none") \in BOOLEAN /\ synced \in BOOLEAN  BY DEF synced
  <2> QED  BY <2>1, <2>2, <2>3, <1>2 DEF DocStatus
<1>4. \A s \in Configured : CallInv(s)'  BY <1>1 DEF DeliveryInv, CallInv
<1>5. DeliveryTypeOK' /\ docStatus'.round <= round'
  BY <1>1, <1>3, Limits DEF DeliveryInv, DeliveryTypeOK
<1>6. StatusInv'  BY <1>1 DEF StatusInv, AllDone
<1>7. ReportedIsDelivered'
  <2>1. \A s \in Configured : emits[s].result = "ok" => round \in arrived[s]
    BY DEF DeliveryInv, CallInv
  <2>2. ref # "none" => ref = ExternalRef  OBVIOUS
  <2>3. ref # "none" => round' \in arrived'[ref]  BY <1>1, <2>1, <2>2, ExternalRefIs
  <2>4. ref = "webhook" => "gcs" \notin Configured \/ emits'["gcs"].result # "ok"
    BY <1>1, <2>2, ExternalRefIs
  <2>5. docStatus'.truncated => \A s \in Configured : emits'[s].result # "ok"
    BY <1>1, <1>3, ExternalRefIs
  <2>6. docStatus'.synced => \A s \in Configured : round' \in arrived'[s]
    BY <1>1, <1>3, <2>1
  <2> QED  BY <1>3, <2>3, <2>4, <2>5, <2>6 DEF ReportedIsDelivered
<1> QED  BY <1>4, <1>5, <1>6, <1>7 DEF DeliveryInv

\* The next emission starts with new calls and under a new object name.
LEMMA EmitRoundStep ==
  ASSUME DeliveryInv, EmitRound
  PROVE  DeliveryInv'
<1>1. round' = round + 1 /\ round < MaxRounds /\ round \in 0..MaxRounds
      /\ docStatus' = docStatus /\ docStatus.round = round /\ arrived' = arrived
  BY DEF EmitRound, DeliveryInv, DeliveryTypeOK
<1>2. round' \in 1..MaxRounds /\ docStatus'.round # round' /\ docStatus'.round <= round'
      /\ round' # 0
  BY <1>1, Limits
<1>3. emits' \in [Configured -> EmitCall] /\ \A s \in Configured : emits'[s] = NewEmit
  BY CallUpdates DEF EmitRound
<1>4. \A s \in Configured : CallInv(s)'  BY <1>2, <1>3, CallUpdates, Limits DEF CallInv
<1>5. DeliveryTypeOK'  BY <1>1, <1>2, <1>3, <1>4 DEF DeliveryInv, DeliveryTypeOK, CallInv
<1> QED  BY <1>2, <1>4, <1>5 DEF DeliveryInv, StatusInv, ReportedIsDelivered

\* Every step keeps the invariant.
LEMMA DeliveryInvNext == DeliveryInv /\ [DeliveryNext]_deliveryVars => DeliveryInv'
<1> SUFFICES ASSUME DeliveryInv, [DeliveryNext]_deliveryVars PROVE DeliveryInv'  OBVIOUS
<1>1. CASE \E s \in Configured : SinkStep(s)
  BY <1>1, PostStep, WriteStep, SharedSteps DEF SinkStep
<1>2. CASE \E small \in BOOLEAN : Report(small)  BY <1>2, ReportStep
<1>3. CASE EmitRound  BY <1>3, EmitRoundStep
<1>4. CASE \E s \in Configured : ContextEnds(s)  BY <1>4, SharedSteps
<1>5. CASE UNCHANGED deliveryVars
  BY <1>5 DEF deliveryVars, DeliveryInv, DeliveryTypeOK, CallInv, StatusInv, AllDone, ReportedIsDelivered
<1> QED  BY <1>1, <1>2, <1>3, <1>4, <1>5 DEF DeliveryNext, DeliveryStep

\* Emissions keep their types, and no sink is tried more often than its limit
\* (Emit of webhook.go and gcs.go), whatever the limits are.
THEOREM DeliveryTypeCorrect == DeliverySpec => []DeliveryTypeOK
<1>1. DeliveryInv => DeliveryTypeOK  BY DEF DeliveryInv
<1> QED  BY <1>1, DeliveryInitInv, DeliveryInvNext, PTL DEF DeliverySpec

\* What the status says was delivered is at the destinations, for any sinks,
\* numbers of attempts, lost answers and ended contexts (emitToExternalSinks,
\* buildBOMDocumentRef, buildConditions).
THEOREM ReportsAreTrue == DeliverySpec => []ReportedIsDelivered
<1>1. DeliveryInv => ReportedIsDelivered  BY DEF DeliveryInv
<1> QED  BY <1>1, DeliveryInitInv, DeliveryInvNext, PTL DEF DeliverySpec
=============================================================================
