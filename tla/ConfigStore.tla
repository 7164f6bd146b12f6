---------------------------- MODULE ConfigStore ----------------------------
(***************************************************************************)
(* What the configuration store promises those who load a Snapshot from it *)
(* (Store and MarkAsLastKnownGood, internal/config/snapshot.go, and the    *)
(* swap in Reconcile, internal/controller/                                 *)
(* aibomcontrollerconfig_reconciler.go).  A Snapshot is replaced as a      *)
(* whole, by one loaded from the AIBOMControllerConfig as the controller   *)
(* sees it, by itself under another label, or by the defaults when there   *)
(* is no AIBOMControllerConfig; its sinks are open while it is in effect   *)
(* and while a delivery that began in that time lasts.  No work queue, no  *)
(* load, no condition, no timer and no clock shows here.  Configuration    *)
(* implements this specification.                                          *)
(***************************************************************************)
EXTENDS Integers

CONSTANTS
  Snapshots,  \* the snapshots: their source, generation, list of sinks, and the rest
  Default     \* the compiled defaults, without sinks (0)

VARIABLES
  seen,    \* the AIBOMControllerConfig in the controller's cache: is there one, its generation
  active,  \* the snapshot in effect
  open,    \* the lists of sinks that are open
  inUse,   \* the list of a delivery that began while it was in effect (0: none)
  fresh    \* the process has not yet told what it found since it started

svars == <<seen, active, open, inUse, fresh>>

SInit == active = Default /\ open = {} /\ inUse = 0 /\ fresh = TRUE

-----------------------------------------------------------------------------
(* The AIBOMControllerConfig is changed, or what was found of it told; or   *)
(* the process starts again.                                               *)

Told == fresh' => fresh

Observe == Told /\ UNCHANGED <<active, open, inUse>>

RestartProcess == active' = Default /\ open' = {} /\ inUse' = 0 /\ fresh' = TRUE

-----------------------------------------------------------------------------
(* Swaps.  The sinks of a new snapshot are open when it comes into effect. *)

Accept ==
  /\ seen.exists
  /\ active' \in Snapshots /\ active'.source = "config-cr" /\ active'.gen = seen.gen
  /\ active'.batch \notin open
  /\ open' = open \cup ({active'.batch} \ {0})
  /\ Told /\ UNCHANGED <<seen, inUse>>

\* An invalid spec: what is in effect stays, under the label that says so.
Retain ==
  /\ seen.exists /\ active.source = "config-cr"
  /\ active' = [active EXCEPT !.source = "last-known-good"]
  /\ Told /\ UNCHANGED <<seen, open, inUse>>

\* Only the deletion of the AIBOMControllerConfig brings the defaults back.
Revert ==
  /\ ~seen.exists
  /\ active' = Default
  /\ Told /\ UNCHANGED <<seen, open, inUse>>

-----------------------------------------------------------------------------
(* Deliveries through the sinks, and the closing of those that were replaced. *)

BeginDelivery ==
  /\ inUse = 0 /\ active.batch # 0
  /\ inUse' = active.batch
  /\ UNCHANGED <<seen, active, open, fresh>>

EndDelivery == inUse' = 0 /\ UNCHANGED <<seen, active, open, fresh>>

Close ==
  /\ \E b \in open \ {active.batch, inUse} : open' = open \ {b}
  /\ UNCHANGED <<seen, active, inUse, fresh>>

SNext ==
  \/ Observe \/ RestartProcess
  \/ Accept \/ Retain \/ Revert
  \/ BeginDelivery \/ EndDelivery \/ Close

SSpec == SInit /\ [][SNext]_svars

-----------------------------------------------------------------------------
\* The sinks of the snapshot in effect and those a delivery uses are open, and
\* the defaults are in effect as they were compiled in, or not at all.
Usable ==
  /\ active.batch # 0 => active.batch \in open
  /\ inUse # 0 => inUse \in open
  /\ active.source = "compiled-defaults" => active = Default
=============================================================================
