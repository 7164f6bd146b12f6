------------------------- MODULE NamespaceObserver -------------------------
(***************************************************************************)
(* The event that tells the owner of an opted-in namespace how many of its *)
(* workloads were considered and matched                                   *)
(* (internal/controller/namespace_observer.go): one timer for each         *)
(* namespace, pushed back by each new workload up to a limit, racing with  *)
(* reconciles that hold an older read of the namespace, with its deletion  *)
(* and re-creation and with its opting out.                                *)
(*                                                                         *)
(* One namespace name; its objects are numbered (UIDs).  Time is counted   *)
(* in units of the settle period.                                          *)
(***************************************************************************)
EXTENDS Integers, FiniteSets

CONSTANTS
  NsWorkloads,     \* workloads of the namespace
  settle, maxWait, \* DefaultNamespaceObservationSettle and ...MaxWait
  NoObs,           \* no observation: a model value
  MaxNsUid,        \* bound: how often the namespace is created
  MaxNow,          \* bound: the clock
  MaxOptOuts       \* bound: changes of the namespace's opt-in

ASSUME ObserverConstants ==
  /\ IsFiniteSet(NsWorkloads)
  /\ settle \in Nat \ {0} /\ maxWait \in Nat /\ settle <= maxWait
  /\ MaxNsUid \in Nat \ {0} /\ MaxNow \in Nat /\ MaxOptOuts \in Nat

VARIABLES
  ns,        \* the namespace in the API server: its UID and whether it is opted in
  held,      \* held[w]: the UID a reconcile of w has read, 0 when none is under way
  nsObs,     \* o.namespaces[name]
  passes,    \* how many observations there have been
  announces, \* announce calls of timers that fired: the UID and the pass of each
  nsEvents,  \* NamespaceObserved events
  now,       \* the clock
  optOuts    \* changes of the opt-in so far

observerVars == <<ns, held, nsObs, passes, announces, nsEvents, now, optOuts>>

Uid == 1..MaxNsUid
Never == MaxNow + maxWait + 1
\* No workload was considered yet.
NoMatches == [w \in {} |-> FALSE]
\* matched maps the workloads considered to whether they matched; pass numbers
\* the observation.
namespaceObservation ==
  [uid : Uid, pass : Nat, first : Nat, timer : Nat, announced : BOOLEAN,
   matched : UNION {[W -> BOOLEAN] : W \in SUBSET NsWorkloads}]
ObserverTypeOK ==
  /\ ns \in [uid : Uid, optedIn : BOOLEAN]
  /\ held \in [NsWorkloads -> Uid \cup {0}]
  /\ nsObs = NoObs \/ nsObs \in namespaceObservation
  /\ passes \in Nat /\ now \in 0..MaxNow /\ optOuts \in 0..MaxOptOuts
  /\ announces \subseteq [uid : Uid, pass : 1..passes]
  /\ nsEvents \subseteq [uid : Uid, pass : 1..passes, considered : Nat, matched : Nat, nth : Nat]

ObserverInit ==
  /\ ns = [uid |-> 1, optedIn |-> TRUE]
  /\ held = [w \in NsWorkloads |-> 0]
  /\ nsObs = NoObs /\ passes = 0 /\ announces = {} /\ nsEvents = {}
  /\ now = 0 /\ optOuts = 0

\* Forget: a timer that has fired already is not stopped by it.
Forget == nsObs' = NoObs

\* A reconcile of w reads the namespace; one that is not opted in is forgotten.
LookUp(w) ==
  /\ held[w] = 0
  /\ IF ns.optedIn
     THEN held' = [held EXCEPT ![w] = ns.uid] /\ UNCHANGED nsObs
     ELSE Forget /\ UNCHANGED held
  /\ UNCHANGED <<ns, passes, announces, nsEvents, now, optOuts>>

\* Mistake: every new workload waits a whole settle period.
WaitUnlimited(first) == settle
\* The wait of Reset, never past maxWait from the first workload.
ResetWait(first) ==
  LET remaining == first + maxWait - now
  IN IF remaining < settle THEN (IF remaining > 0 THEN remaining ELSE 0) ELSE settle

\* The observation after Considered: started over for another UID, left alone
\* once announced, its timer reset by a workload not seen before.
Considered(uid, w, matched) ==
  LET new == nsObs = NoObs \/ nsObs.uid # uid
      obs == IF new
             THEN [uid |-> uid, pass |-> passes + 1, first |-> now, timer |-> now + settle,
                   announced |-> FALSE, matched |-> NoMatches]
             ELSE nsObs
      seen == w \in DOMAIN obs.matched
  IN /\ passes' = IF new THEN passes + 1 ELSE passes
     /\ nsObs' =
          IF obs.announced THEN obs
          ELSE [obs EXCEPT
                  !.matched = [v \in DOMAIN @ \cup {w} |-> IF v = w THEN matched ELSE @[v]],
                  !.timer = IF seen THEN @ ELSE now + ResetWait(obs.first)]

\* The reconcile reaches detection with the namespace it read.
Consider(w) ==
  /\ held[w] # 0
  /\ \E matched \in BOOLEAN : Considered(held[w], w, matched)
  /\ held' = [held EXCEPT ![w] = 0]
  /\ UNCHANGED <<ns, announces, nsEvents, now, optOuts>>

\* The reconcile ends before detection (rolled up, excluded, an error).
Abandon(w) ==
  /\ held[w] # 0
  /\ held' = [held EXCEPT ![w] = 0]
  /\ UNCHANGED <<ns, nsObs, passes, announces, nsEvents, now, optOuts>>

TimerDue == nsObs # NoObs /\ nsObs.timer <= now
\* time.AfterFunc: the timer fires and a goroutine will call announce.
Fire ==
  /\ TimerDue
  /\ announces' = announces \cup {[uid |-> nsObs.uid, pass |-> nsObs.pass]}
  /\ nsObs' = [nsObs EXCEPT !.timer = Never]
  /\ UNCHANGED <<ns, held, passes, nsEvents, now, optOuts>>

\* The guard of announce.  Mistake: an observation is announced again.
AnnounceAgain(uid) == nsObs # NoObs /\ nsObs.uid = uid
AnnounceDue(uid) == nsObs # NoObs /\ nsObs.uid = uid /\ ~nsObs.announced
announce(a) ==
  /\ a \in announces
  /\ announces' = announces \ {a}
  /\ IF AnnounceDue(a.uid)
     THEN /\ nsObs' = [nsObs EXCEPT !.announced = TRUE, !.matched = NoMatches]
          /\ nsEvents' = nsEvents \cup
               {[uid |-> a.uid, pass |-> nsObs.pass,
                 considered |-> Cardinality(DOMAIN nsObs.matched),
                 matched |-> Cardinality({w \in DOMAIN nsObs.matched : nsObs.matched[w]}),
                 nth |-> Cardinality(nsEvents) + 1]}
     ELSE UNCHANGED <<nsObs, nsEvents>>
  /\ UNCHANGED <<ns, held, passes, now, optOuts>>

\* The clock moves when no timer is due.
Tick ==
  /\ now < MaxNow /\ ~TimerDue
  /\ now' = now + 1
  /\ UNCHANGED <<ns, held, nsObs, passes, announces, nsEvents, optOuts>>

Recreate ==
  /\ ns.uid < MaxNsUid
  /\ ns' = [ns EXCEPT !.uid = @ + 1]
  /\ UNCHANGED <<held, nsObs, passes, announces, nsEvents, now, optOuts>>

Relabel ==
  /\ optOuts < MaxOptOuts /\ optOuts' = optOuts + 1
  /\ ns' = [ns EXCEPT !.optedIn = ~@]
  /\ UNCHANGED <<held, nsObs, passes, announces, nsEvents, now>>

ObserverNext ==
  \/ \E w \in NsWorkloads : LookUp(w) \/ Consider(w) \/ Abandon(w)
  \/ Fire \/ Tick \/ Recreate \/ Relabel
  \/ \E a \in announces : announce(a)
ObserverSpec == ObserverInit /\ [][ObserverNext]_observerVars

-----------------------------------------------------------------------------

\* The namespace is not left waiting: an observation that was not announced has
\* a timer ahead, due within maxWait of its first workload, or a timer of its UID
\* has fired and its announce is still to come (Considered, Reset, Forget).
AnnouncementAhead ==
  nsObs # NoObs /\ ~nsObs.announced =>
    \/ nsObs.timer <= nsObs.first + maxWait
    \/ \E a \in announces : a.uid = nsObs.uid

\* "once": a pass over the namespace is announced at most once, however many
\* timers fired, were reset after they fired or outlived a Forget, and the counts
\* of the event are of workloads that pass considered.
AnnouncedOnce ==
  \A e \in nsEvents :
    /\ e.matched <= e.considered
    /\ e.considered > 0
    /\ \A f \in nsEvents : e.pass = f.pass => e = f
=============================================================================
