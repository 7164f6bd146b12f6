---------------------------- MODULE SinkDelivery ----------------------------
(***************************************************************************)
(* One emission of a document to the external sinks: the parallel fan-out  *)
(* of emitToExternalSinks (internal/controller/workload_reconciler.go), a  *)
(* webhook with its own retries (internal/sink/webhook.go), a bucket with  *)
(* the storage library's (internal/sink/gcs.go), and what the AIBOM then   *)
(* says of it (buildBOMDocumentRef and buildConditions of status.go).  An  *)
(* answer may be lost after the document arrived, and the context of a     *)
(* sink may end at any time.  A round that failed is repeated, under       *)
(* another object name in the bucket.                                      *)
(***************************************************************************)
EXTENDS Integers, FiniteSets

CONSTANTS
  Configured,      \* the sinks of the snapshot, of {"gcs", "webhook"}
  gcsMaxAttempts,  \* 4 in the code
  webhookAttempts, \* len(WebhookRetryBackoffs) + 1, 4 in the code
  MaxRounds        \* bound: reconciles that emit

ASSUME DeliveryConstants ==
  /\ Configured \subseteq {"gcs", "webhook"}
  /\ gcsMaxAttempts \in Nat \ {0} /\ webhookAttempts \in Nat \ {0} /\ MaxRounds \in Nat

VARIABLES
  round,     \* the number of the emission; its object name in the bucket
  emits,     \* emits[s]: the Emit call of sink s
  arrived,   \* arrived[s]: the rounds whose document is at the destination
  docStatus  \* what the status says, and of which round

deliveryVars == <<round, emits, arrived, docStatus>>

WriteOnly == [gcs |-> FALSE, webhook |-> TRUE]
MaxAttempts == [gcs |-> gcsMaxAttempts, webhook |-> webhookAttempts]

\* last is lastErr; result is nil ("ok") or the error returned, "none" before.
Failure == {"none", "refused", "exists", "server", "network", "context"}
EmitCall ==
  [pc : {"send", "backoff", "done"}, attempt : Nat, alive : BOOLEAN,
   last : Failure, result : Failure \cup {"ok"}]
NewEmit == [pc |-> "send", attempt |-> 0, alive |-> TRUE, last |-> "none", result |-> "none"]
DocStatus == [round : Nat, inline : BOOLEAN, external : Configured \cup {"none"},
              truncated : BOOLEAN, synced : BOOLEAN]

DeliveryTypeOK ==
  /\ round \in 0..MaxRounds
  /\ emits \in [Configured -> EmitCall]
  /\ \A s \in Configured : emits[s].attempt <= MaxAttempts[s]
  /\ arrived \in [Configured -> SUBSET (1..MaxRounds)]
  /\ docStatus \in DocStatus

DeliveryInit ==
  /\ round = 0
  /\ emits = [s \in Configured |-> [NewEmit EXCEPT !.pc = "done"]]
  /\ arrived = [s \in Configured |-> {}]
  /\ docStatus = [round |-> 0, inline |-> FALSE, external |-> "none",
                  truncated |-> FALSE, synced |-> FALSE]

-----------------------------------------------------------------------------
(* Emit *)

Ended(e, result) == [e EXCEPT !.pc = "done", !.result = result]

\* Mistake: the attempts are not counted.
FailedUncounted(e, s, failure) == [e EXCEPT !.pc = "backoff", !.last = failure]
\* Mistake: one attempt too many.
FailedOnceMore(e, s, failure) ==
  LET f == [e EXCEPT !.attempt = @ + 1, !.last = failure]
  IN IF f.attempt <= MaxAttempts[s] THEN [f EXCEPT !.pc = "backoff"] ELSE Ended(f, failure)
\* The attempt failed: another one after a pause, or the end.
Failed(e, s, failure) ==
  LET f == [e EXCEPT !.attempt = @ + 1, !.last = failure]
  IN IF f.attempt < MaxAttempts[s] THEN [f EXCEPT !.pc = "backoff"] ELSE Ended(f, failure)

Arrives(s) == arrived' = [arrived EXCEPT ![s] = @ \cup {round}]
MayArrive(s) == Arrives(s) \/ UNCHANGED arrived

\* Mistake: a redirect, which is not followed, counts as success.
AnsweredRedirected(e, s, code) ==
  CASE code \in {"2xx", "3xx"} -> Ended(e, "ok")
    [] code = "4xx" -> Ended(e, "refused")
    [] OTHER -> Failed(e, s, "server")
\* deliver, by the class of the answer: 3xx and 4xx are final, 5xx is tried again.
Answered(e, s, code) ==
  CASE code = "2xx" -> Ended(e, "ok")
    [] code \in {"3xx", "4xx"} -> Ended(e, "refused")
    [] OTHER -> Failed(e, s, "server")

Sending(s) == emits[s].pc = "send" /\ emits[s].alive

Post(code) ==
  /\ Sending("webhook")
  /\ emits' = [emits EXCEPT !["webhook"] = Answered(@, "webhook", code)]
  /\ CASE code = "2xx" -> Arrives("webhook")
       [] code = "5xx" -> MayArrive("webhook")
       [] OTHER -> UNCHANGED arrived
  /\ UNCHANGED <<round, docStatus>>

\* A write under the DoesNotExist precondition: an object that is there, also one
\* that an attempt with a lost answer wrote, is not written again.
Write ==
  /\ Sending("gcs")
  /\ IF round \in arrived["gcs"]
     THEN emits' = [emits EXCEPT !["gcs"] = Ended(@, "exists")]
          /\ UNCHANGED arrived
     ELSE \/ emits' = [emits EXCEPT !["gcs"] = Ended(@, "ok")] /\ Arrives("gcs")
          \/ emits' = [emits EXCEPT !["gcs"] = Ended(@, "refused")]
             /\ UNCHANGED arrived
  /\ UNCHANGED <<round, docStatus>>

\* No answer, though the document may have arrived.
NoAnswer(s) ==
  /\ Sending(s)
  /\ emits' = [emits EXCEPT ![s] = Failed(@, s, "network")]
  /\ MayArrive(s)
  /\ UNCHANGED <<round, docStatus>>

\* The sink's 30 s are over, or the reconcile's context ends.
ContextEnds(s) ==
  /\ emits[s].pc # "done" /\ emits[s].alive
  /\ emits' = [emits EXCEPT ![s].alive = FALSE]
  /\ UNCHANGED <<round, arrived, docStatus>>

\* The end of the context cuts an attempt short: the previous failure is kept.
CutShortEmit(e, s) == IF e.last # "none" THEN Ended(e, e.last) ELSE Failed(e, s, "context")
CutShort(s) ==
  /\ emits[s].pc = "send" /\ ~emits[s].alive
  /\ emits' = [emits EXCEPT ![s] = CutShortEmit(@, s)]
  /\ MayArrive(s)
  /\ UNCHANGED <<round, docStatus>>

\* The pause is over; retriesStopped when the context ended meanwhile.  When both
\* happen, either may be chosen.
Backoff(s) ==
  /\ emits[s].pc = "backoff"
  /\ \/ emits' = [emits EXCEPT ![s].pc = "send"]
     \/ ~emits[s].alive /\ emits' = [emits EXCEPT ![s] = Ended(@, emits[s].last)]
  /\ UNCHANGED <<round, arrived, docStatus>>

-----------------------------------------------------------------------------
(* The status *)

Successful(writeOnly) ==
  {s \in Configured : emits[s].result = "ok" /\ WriteOnly[s] = writeOnly}
\* buildBOMDocumentRef: a destination that can be read before one that cannot.
ExternalRef ==
  CASE Successful(FALSE) # {} -> CHOOSE s \in Successful(FALSE) : TRUE
    [] Successful(FALSE) = {} /\ Successful(TRUE) # {} -> CHOOSE s \in Successful(TRUE) : TRUE
    [] OTHER -> "none"

AllDone == \A s \in Configured : emits[s].pc = "done"

\* wg.Wait returned; a document under the threshold is also kept inline.
Report(small) ==
  /\ AllDone /\ docStatus.round # round
  /\ docStatus' =
       [round |-> round, inline |-> small,
        external |-> IF small THEN "none" ELSE ExternalRef,
        truncated |-> ~small /\ ExternalRef = "none",
        synced |-> \A s \in Configured : emits[s].result = "ok"]
  /\ UNCHANGED <<round, emits, arrived>>

\* A new document is emitted.  After a round that failed, SinkRetryRequeueAfter: the
\* input hash was not kept, so everything is sent again.
EmitRound ==
  /\ docStatus.round = round /\ ~docStatus.synced /\ round < MaxRounds
  /\ round' = round + 1
  /\ emits' = [s \in Configured |-> NewEmit]
  /\ UNCHANGED <<arrived, docStatus>>

SinkStep(s) ==
  \/ s = "webhook" /\ \E code \in {"2xx", "3xx", "4xx", "5xx"} : Post(code)
  \/ s = "gcs" /\ Write
  \/ NoAnswer(s) \/ CutShort(s) \/ Backoff(s)
DeliveryStep ==
  \/ \E s \in Configured : SinkStep(s)
  \/ \E small \in BOOLEAN : Report(small)
DeliveryNext == DeliveryStep \/ EmitRound \/ \E s \in Configured : ContextEnds(s)
DeliverySpec == DeliveryInit /\ [][DeliveryNext]_deliveryVars

-----------------------------------------------------------------------------

\* What the status says is true at the destinations: the external reference names
\* a sink that has the document of this very emission, preferably one it can be
\* read from; Synced means every sink has it; truncated means none confirmed it
\* (deliver, Emit, buildBOMDocumentRef, buildConditions).
ReportedIsDelivered ==
  docStatus.round = round =>
    /\ docStatus.external # "none" => round \in arrived[docStatus.external]
    /\ docStatus.synced => \A s \in Configured : round \in arrived[s]
    /\ docStatus.truncated => \A s \in Configured : emits[s].result # "ok"
    /\ docStatus.external = "webhook" => "gcs" \notin Configured \/ emits["gcs"].result # "ok"

\* An emission ends and is reported, however the destinations behave.
EmissionEnds == docStatus.round # round ~> docStatus.round = round
=============================================================================
