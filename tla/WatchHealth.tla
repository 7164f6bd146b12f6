---------------------------- MODULE WatchHealth ----------------------------
(***************************************************************************)
(* The per-kind entry of the WatchHealth registry                          *)
(* (internal/controller/watch_health.go).  Each method of the registry     *)
(* runs under one mutex, so it is an operator from the old entry to the    *)
(* new one; the modules that use the registry prime the variable that      *)
(* holds it.  Timestamps, failure counts and metric gauges are left out:   *)
(* no decision of the controller reads them.                               *)
(***************************************************************************)

\* Why a kind has no informer by decision; "no" when it is not disabled.
DisabledReason == {"no", "config", "crd-removed"}

\* A WatchStatus.  known is FALSE while the registry has no entry.
WatchStatus ==
  [known : BOOLEAN, healthy : BOOLEAN, err : BOOLEAN, disabled : DisabledReason]

NoStatus == [known |-> FALSE, healthy |-> FALSE, err |-> FALSE, disabled |-> "no"]

\* A kind that recorded an error and has not recovered.
Degraded(h) == ~h.healthy /\ h.err

\* Register: a new entry is "starting"; an existing one is left alone.
Register(h) == IF h.known THEN h ELSE [NoStatus EXCEPT !.known = TRUE]

\* MarkHealthy and MarkStarted make the same state change.
MarkHealthy(h) == [known |-> TRUE, healthy |-> TRUE, err |-> FALSE, disabled |-> "no"]

MarkUnhealthy(h) == [known |-> TRUE, healthy |-> FALSE, err |-> TRUE, disabled |-> "no"]

\* MarkDisabled overwrites everything but reports only the entry into the
\* disabled state, which is what the AIBOM sweep hangs on.
MarkDisabled(h, reason) ==
  [known |-> TRUE, healthy |-> FALSE, err |-> FALSE, disabled |-> reason]
EntersDisabled(h) == h.disabled = "no"

MarkStarting(h) == [known |-> TRUE, healthy |-> FALSE, err |-> FALSE, disabled |-> "no"]
=============================================================================
