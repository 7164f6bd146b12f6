---------------------------- MODULE CRDLifecycle ----------------------------
(***************************************************************************)
(* What CRD discovery promises the supervisor about one candidate CRD: the *)
(* state machine of Design 004 amendment A1 (the crdState constants of     *)
(* internal/controller/watch_discovery.go), over the CRD object the API    *)
(* server really holds.  A state is published about one generation (UID)   *)
(* of the CRD; only a generation that is really gone is ever published as  *)
(* Removed, and a generation published as Removed never comes back.        *)
(* CRDDiscovery implements this specification.                             *)
(***************************************************************************)
EXTENDS Naturals

CONSTANT Kinds      \* the compiled-in candidate kinds

VARIABLES crd,      \* crd[k]: the CRD object in the API server
          pub       \* pub[k]: the state last published for k

lvars == <<crd, pub>>

\* crd.uid = 0 when the API server has no such CRD.  UIDs are never used
\* again, so they are numbered in the order of creation.
CRDObject == [uid : Nat, ready : BOOLEAN, deleting : BOOLEAN]
NoCRD == [uid |-> 0, ready |-> FALSE, deleting |-> FALSE]

crdState == {"Unknown", "Ready", "Unservable", "Removed"}

\* Generation u is gone for good: never there again, or being deleted, which
\* cannot be undone.
Gone(c, u) == c.uid # u \/ c.deleting

LInit ==
  /\ crd \in [Kinds -> CRDObject]
  /\ pub = [k \in Kinds |-> [state |-> "Unknown", uid |-> 0]]

Publish(k, s, u) == pub' = [pub EXCEPT ![k] = [state |-> s, uid |-> u]]

\* The first Ready of a generation, later than every generation before it.
BecomeReady(k) ==
  /\ pub[k].state \in {"Unknown", "Removed"}
  /\ pub'[k].uid > pub[k].uid
  /\ Publish(k, "Ready", pub'[k].uid)

BecomeUnservable(k) ==
  /\ pub[k].state = "Ready"
  /\ Publish(k, "Unservable", pub[k].uid)

Recover(k) ==
  /\ pub[k].state = "Unservable"
  /\ Publish(k, "Ready", pub[k].uid)

BecomeRemoved(k) ==
  /\ pub[k].state \in {"Ready", "Unservable"}
  /\ Gone(crd[k], pub[k].uid)
  /\ Publish(k, "Removed", pub[k].uid)

\* The API server changes the object: a published generation that is gone
\* stays gone.
ServerStep ==
  /\ crd' \in [Kinds -> CRDObject]
  /\ \A k \in Kinds :
       pub[k].uid # 0 /\ Gone(crd[k], pub[k].uid) => Gone(crd'[k], pub[k].uid)
  /\ UNCHANGED pub

WorkerStep ==
  /\ \E k \in Kinds : BecomeReady(k) \/ BecomeUnservable(k) \/ Recover(k) \/ BecomeRemoved(k)
  /\ UNCHANGED crd

LNext == ServerStep \/ WorkerStep

LSpec == LInit /\ [][LNext]_lvars
=============================================================================
