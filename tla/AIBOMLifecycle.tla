--------------------------- MODULE AIBOMLifecycle ---------------------------
(***************************************************************************)
(* What the reconcile of a workload promises about its document: the AIBOM *)
(* and its status as a reader of the API server and of the external sinks  *)
(* sees them (api/v1beta1/aibom_types.go, internal/controller/status.go).  *)
(* No cache, no queue, no reconcile in progress, no lost answer and no     *)
(* restart shows here: every write of a status is one step from the        *)
(* document as it is at that moment.  WorkloadReconcile implements this    *)
(* specification.                                                          *)
(***************************************************************************)
EXTENDS Integers

CONSTANTS Inputs,          \* contents of BOMInputs that differ in their hash
          Sinks,           \* the external sinks that may be configured
          NoHash,          \* the empty InputHash
          StaleThreshold   \* errors in a row that make a document stale

VARIABLES
  uid, gen,     \* the workload: its incarnation (0: there is none) and generation
  last,         \* the last incarnation so far: a UID is never used again
  doc,          \* the AIBOM: the incarnation that owns it (0: none) and its status
  delivered     \* delivered[s]: the contents sink s has accepted

lvars == <<uid, gen, last, doc, delivered>>

\* gen is the generation observed, of the incarnation it was observed of.
NoStatus ==
  [reconciled |-> FALSE, hash |-> NoHash, of |-> 0, gen |-> 0, ready |-> FALSE,
   sinkFailed |-> FALSE, errors |-> 0, stale |-> FALSE, sinks |-> {}]
NoDoc == [owner |-> 0, st |-> NoStatus]

LInit ==
  /\ uid = last
  /\ doc = NoDoc
  /\ delivered = [s \in Sinks |-> {}]

-----------------------------------------------------------------------------
(* The workload is changed, deleted and created again. *)

WorkloadStep ==
  /\ \/ uid' = uid /\ gen' >= gen /\ last' = last
     \/ uid' = 0 /\ last' = last
     \/ uid = 0 /\ uid' > last /\ last' = uid'
  /\ UNCHANGED <<doc, delivered>>

Create(u) ==
  /\ doc = NoDoc /\ u > 0 /\ u <= last
  /\ doc' = [owner |-> u, st |-> NoStatus]
  /\ UNCHANGED <<uid, gen, last, delivered>>

\* A document left by an earlier incarnation is taken over as it is, by a
\* later one and never the other way.
Adopt(u) ==
  /\ doc.owner # 0 /\ doc.owner < u /\ u <= last
  /\ doc' = [doc EXCEPT !.owner = u]
  /\ UNCHANGED <<uid, gen, last, delivered>>

Delete ==
  /\ doc' = NoDoc
  /\ UNCHANGED <<uid, gen, last, delivered>>

Deliver(h, S) ==
  /\ delivered' = [s \in Sinks |-> IF s \in S THEN delivered[s] \cup {h} ELSE delivered[s]]
  /\ UNCHANGED <<uid, gen, last, doc>>

-----------------------------------------------------------------------------
(* The writes of the status. *)

\* What a document has observed never goes back, to an earlier incarnation
\* or to an earlier generation of the same one, nor ahead of the workload.
Observed(st) ==
  /\ doc.st.of <= st.of /\ st.of <= last
  /\ st.of = doc.st.of => doc.st.gen <= st.gen
  /\ st.of = uid => st.gen <= gen

\* One more error in a row, counted up to the threshold.
OneMore(n) == IF n < StaleThreshold THEN n + 1 ELSE n

\* The input is the same: the document stands, and the errors of this cycle
\* count from the ones it carries.
Refreshed(st, to, errs) ==
  LET n == OneMore(st.errors)
      touched == [st EXCEPT !.reconciled = TRUE, !.of = to.of, !.gen = to.gen] IN
  IF errs
  THEN [touched EXCEPT !.errors = n, !.stale = @ \/ n = StaleThreshold]
  ELSE [touched EXCEPT !.errors = 0, !.stale = FALSE]

Refresh(errs) ==
  /\ doc.owner # 0 /\ doc.st.hash # NoHash
  /\ Observed(doc'.st)
  /\ doc' = [doc EXCEPT !.st = Refreshed(doc.st, doc'.st, errs)]
  /\ UNCHANGED <<uid, gen, last, delivered>>

\* A document built and offered to the sinks: with a hash when, and only
\* when, every one of them has accepted it.
Published(st) ==
  /\ st.reconciled /\ st.ready
  /\ st.sinkFailed <=> st.hash = NoHash
  /\ st.hash # NoHash => st.hash \in Inputs /\ \A s \in st.sinks : st.hash \in delivered[s]
  /\ st.stale <=> st.errors = StaleThreshold

\* It is written only to the document of the incarnation it was built for.
Publish ==
  /\ doc.owner # 0 /\ doc'.owner = doc.owner /\ doc'.st.of = doc.owner
  /\ Published(doc'.st)
  /\ Observed(doc'.st)
  /\ UNCHANGED <<uid, gen, last, delivered>>

\* A failed scrape or build changes nothing else in the document.
Failed(st) == [st EXCEPT !.ready = FALSE, !.errors = OneMore(@)]

MarkFailed ==
  /\ doc.owner # 0
  /\ doc' = [doc EXCEPT !.st = Failed(@)]
  /\ UNCHANGED <<uid, gen, last, delivered>>

LNext ==
  \/ WorkloadStep
  \/ Create(doc'.owner) \/ Adopt(doc'.owner) \/ Delete
  \/ \E h \in Inputs, S \in SUBSET Sinks : Deliver(h, S)
  \/ \E errs \in BOOLEAN : Refresh(errs)
  \/ Publish \/ MarkFailed

LSpec == LInit /\ [][LNext]_lvars
=============================================================================
