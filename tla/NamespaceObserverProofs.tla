---------------------- MODULE NamespaceObserverProofs ----------------------
(***************************************************************************)
(* Proofs about NamespaceObserver, for any workloads, settle period, limit *)
(* and bounds.                                                             *)
(*                                                                         *)
(* An observation that was not announced has a number no event has, and a  *)
(* clock that has not passed its timer; so a timer reset late is either    *)
(* due at the limit exactly or one that fired before has its announce to   *)
(* come.                                                                   *)
(***************************************************************************)
EXTENDS NamespaceObserver, FiniteSetTheorems, TLAPS

\* Whether each of a set of workloads matched.
Matches == UNION {[W -> BOOLEAN] : W \in SUBSET NsWorkloads}

\* The observation o, if there is one: its number was given out, its timer is
\* not overdue, and unless announced it counts a workload and no event has
\* its number.
ObsInv(o) ==
  /\ o.pass \in 1..passes
  /\ now <= o.timer
  /\ ~o.announced => DOMAIN o.matched # {} /\ \A e \in nsEvents : e.pass # o.pass

\* The inductive invariant.
ObserverInv ==
  /\ ObserverTypeOK
  /\ nsObs # NoObs => ObsInv(nsObs)
  /\ IsFiniteSet(nsEvents)
  /\ AnnouncementAhead
  /\ AnnouncedOnce
-----------------------------------------------------------------------------
(* Facts about the constants, the observations and the counts *)

\* The constants.
LEMMA Periods ==
  /\ settle \in Nat /\ settle > 0 /\ maxWait \in Nat /\ settle <= maxWait
  /\ MaxNsUid \in Nat /\ MaxNow \in Nat /\ MaxOptOuts \in Nat /\ 1 \in Uid /\ 0 \notin Uid
  /\ IsFiniteSet(NsWorkloads) /\ Never \in Nat /\ Never > MaxNow
  BY ObserverConstants DEF Uid, Never

\* The sets of workloads an observation may count, and one workload more.
LEMMA MatchesFacts ==
  /\ NoMatches \in Matches /\ DOMAIN NoMatches = {}
  /\ \A m \in Matches : DOMAIN m \subseteq NsWorkloads
  /\ \A m \in Matches : \A w \in NsWorkloads : \A b \in BOOLEAN :
       [v \in DOMAIN m \cup {w} |-> IF v = w THEN b ELSE m[v]] \in Matches
<1>1. NoMatches \in [{} -> BOOLEAN]  BY DEF NoMatches
<1>2. NoMatches \in Matches /\ DOMAIN NoMatches = {}  BY <1>1 DEF Matches
<1>3. ASSUME NEW m \in Matches
      PROVE  /\ DOMAIN m \subseteq NsWorkloads
             /\ \A w \in NsWorkloads : \A b \in BOOLEAN :
                  [v \in DOMAIN m \cup {w} |-> IF v = w THEN b ELSE m[v]] \in Matches
  <2>1. PICK W \in SUBSET NsWorkloads : m \in [W -> BOOLEAN]  BY DEF Matches
  <2>2. DOMAIN m = W  BY <2>1
  <2>3. ASSUME NEW w \in NsWorkloads, NEW b \in BOOLEAN
        PROVE  [v \in DOMAIN m \cup {w} |-> IF v = w THEN b ELSE m[v]] \in Matches
    <3>1. [v \in DOMAIN m \cup {w} |-> IF v = w THEN b ELSE m[v]] \in [W \cup {w} -> BOOLEAN]
      BY <2>1, <2>2
    <3>2. W \cup {w} \in SUBSET NsWorkloads  OBVIOUS
    <3> QED  BY <3>1, <3>2 DEF Matches
  <2> QED  BY <2>2, <2>3
<1> QED  BY <1>2, <1>3

\* The type of an observation, field by field.
LEMMA ObsFields ==
  ASSUME NEW o \in namespaceObservation
  PROVE  /\ o.uid \in Uid /\ o.pass \in Nat /\ o.first \in Nat /\ o.timer \in Nat
         /\ o.announced \in BOOLEAN /\ o.matched \in Matches
  BY DEF namespaceObservation, Matches

\* Considered begins an observation.
LEMMA BegunFields ==
  ASSUME NEW u \in Uid, NEW p \in Nat, NEW f \in Nat, NEW t \in Nat
  PROVE  [uid |-> u, pass |-> p, first |-> f, timer |-> t, announced |-> FALSE,
          matched |-> NoMatches] \in namespaceObservation
<1>1. NoMatches \in Matches  BY MatchesFacts
<1>2. namespaceObservation = [uid : Uid, pass : Nat, first : Nat, timer : Nat,
                              announced : BOOLEAN, matched : Matches]
  BY DEF namespaceObservation, Matches
<1> QED  BY <1>1, <1>2

\* A workload not seen before resets the timer; one seen before is recorded.
Counted(o, m, t) == [o EXCEPT !.matched = m, !.timer = t]
LEMMA CountedFields ==
  ASSUME NEW o \in namespaceObservation, NEW m \in Matches, NEW t \in Nat
  PROVE  /\ Counted(o, m, t) \in namespaceObservation
         /\ Counted(o, m, t).uid = o.uid /\ Counted(o, m, t).pass = o.pass
         /\ Counted(o, m, t).first = o.first /\ Counted(o, m, t).announced = o.announced
         /\ Counted(o, m, t).timer = t /\ Counted(o, m, t).matched = m
  BY DEF Counted, namespaceObservation, Matches

\* The timer fires.
LEMMA FiredFields ==
  ASSUME NEW o \in namespaceObservation
  PROVE  /\ [o EXCEPT !.timer = Never] \in namespaceObservation
         /\ [o EXCEPT !.timer = Never].uid = o.uid /\ [o EXCEPT !.timer = Never].pass = o.pass
         /\ [o EXCEPT !.timer = Never].announced = o.announced
         /\ [o EXCEPT !.timer = Never].matched = o.matched
         /\ [o EXCEPT !.timer = Never].timer = Never
  BY Periods DEF namespaceObservation

\* The observation is announced.
Announced(o) == [o EXCEPT !.announced = TRUE, !.matched = NoMatches]
LEMMA AnnouncedFields ==
  ASSUME NEW o \in namespaceObservation
  PROVE  /\ Announced(o) \in namespaceObservation /\ Announced(o).announced
         /\ Announced(o).pass = o.pass /\ Announced(o).timer = o.timer
  <1>1. NoMatches \in Matches  BY MatchesFacts
  <1> QED  BY <1>1 DEF Announced, namespaceObservation, Matches

\* The wait of Reset: never negative, at most a settle period, and never past
\* the limit while the limit is ahead.
LEMMA ResetWaitIs ==
  ASSUME now \in Nat, NEW first \in Nat
  PROVE  /\ ResetWait(first) \in Nat /\ ResetWait(first) <= settle
         /\ now <= first + maxWait => now + ResetWait(first) <= first + maxWait
  BY Periods DEF ResetWait

\* The counts of an event: of workloads considered, and among these of those
\* that matched.
LEMMA Counts ==
  ASSUME NEW m \in Matches
  PROVE  /\ Cardinality(DOMAIN m) \in Nat
         /\ Cardinality({w \in DOMAIN m : m[w]}) \in Nat
         /\ Cardinality({w \in DOMAIN m : m[w]}) <= Cardinality(DOMAIN m)
         /\ DOMAIN m # {} => Cardinality(DOMAIN m) > 0
<1>1. IsFiniteSet(DOMAIN m)  BY MatchesFacts, Periods, FS_Subset
<1>2. {w \in DOMAIN m : m[w]} \subseteq DOMAIN m  OBVIOUS
<1>3. /\ IsFiniteSet({w \in DOMAIN m : m[w]})
      /\ Cardinality({w \in DOMAIN m : m[w]}) <= Cardinality(DOMAIN m)
  BY <1>1, <1>2, FS_Subset
<1>4. Cardinality(DOMAIN m) \in Nat /\ Cardinality({w \in DOMAIN m : m[w]}) \in Nat
  BY <1>1, <1>3, FS_CardinalityType
<1>5. DOMAIN m # {} => Cardinality(DOMAIN m) # 0  BY <1>1, FS_EmptySet
<1> QED  BY <1>3, <1>4, <1>5
-----------------------------------------------------------------------------
(* The steps of the system *)

\* Nothing was observed yet.
LEMMA ObserverInitInv == ObserverInit => ObserverInv
<1> SUFFICES ASSUME ObserverInit PROVE ObserverInv  OBVIOUS
<1>1. ObserverTypeOK  BY Periods DEF ObserverInit, ObserverTypeOK
<1>2. nsObs = NoObs /\ nsEvents = {}  BY DEF ObserverInit
<1>3. IsFiniteSet(nsEvents)  BY <1>2, FS_EmptySet
<1> QED  BY <1>1, <1>2, <1>3 DEF ObserverInv, AnnouncementAhead, AnnouncedOnce

\* A step that changes neither the observation, the events nor the clock, or
\* that forgets the observation.
LEMMA QuietObserverStep ==
  ASSUME ObserverInv, ns' \in [uid : Uid, optedIn : BOOLEAN], held' \in [NsWorkloads -> Uid \cup {0}],
         optOuts' \in 0..MaxOptOuts, nsObs' = nsObs \/ nsObs' = NoObs,
         UNCHANGED <<passes, announces, nsEvents, now>>
  PROVE  ObserverInv'
<1>1. ObserverTypeOK'  BY DEF ObserverInv, ObserverTypeOK
<1>2. nsObs' # NoObs => ObsInv(nsObs)'  BY DEF ObserverInv, ObsInv
<1>3. AnnouncementAhead'  BY DEF ObserverInv, AnnouncementAhead
<1> QED  BY <1>1, <1>2, <1>3 DEF ObserverInv, AnnouncedOnce

\* Considered records the workload in the observation of this namespace
\* object, begun when there is none, unless that was announced.
LEMMA ConsideredStep ==
  ASSUME ObserverInv, NEW uid \in Uid, NEW w \in NsWorkloads, NEW matched \in BOOLEAN,
         Considered(uid, w, matched), held' \in [NsWorkloads -> Uid \cup {0}],
         UNCHANGED <<ns, announces, nsEvents, now, optOuts>>
  PROVE  ObserverInv'
<1> DEFINE new == nsObs = NoObs \/ nsObs.uid # uid
           begun == [uid |-> uid, pass |-> passes + 1, first |-> now, timer |-> now + settle,
                     announced |-> FALSE, matched |-> NoMatches]
<1>1. now \in Nat /\ now <= MaxNow /\ passes \in Nat
  BY Periods DEF ObserverInv, ObserverTypeOK
<1>2. begun \in namespaceObservation
  <2>1. passes + 1 \in Nat /\ now + settle \in Nat  BY <1>1, Periods
  <2> QED  BY <1>1, <2>1, BegunFields
<1>3. PICK o : o = IF new THEN begun ELSE nsObs  OBVIOUS
<1>4. passes' = IF new THEN passes + 1 ELSE passes  BY DEF Considered
<1>5. /\ o \in namespaceObservation /\ o.uid = uid
      /\ new => /\ o.pass = passes + 1 /\ o.first = now /\ ~o.announced
                /\ o.matched = NoMatches
      /\ ~new => o = nsObs /\ nsObs # NoObs
  BY <1>2, <1>3 DEF ObserverInv, ObserverTypeOK
<1>6. nsObs' = IF o.announced THEN o
               ELSE Counted(o, [v \in DOMAIN o.matched \cup {w} |-> IF v = w THEN matched ELSE o.matched[v]],
                            IF w \in DOMAIN o.matched THEN o.timer ELSE now + ResetWait(o.first))
  BY <1>3 DEF Considered, Counted
<1> HIDE DEF new, begun
<1>7. passes' \in Nat /\ passes' >= passes /\ o.pass \in 1..passes'
  BY <1>1, <1>4, <1>5 DEF ObserverInv, ObsInv
<1>8. \A e \in nsEvents : e.pass \in 1..passes /\ e \in
        [uid : Uid, pass : 1..passes', considered : Nat, matched : Nat, nth : Nat]
  BY <1>1, <1>7 DEF ObserverInv, ObserverTypeOK
<1>9. ~o.announced => \A e \in nsEvents : e.pass # o.pass
  BY <1>1, <1>5, <1>8 DEF ObserverInv, ObsInv
<1>10. announces' \subseteq [uid : Uid, pass : 1..passes']
  BY <1>1, <1>7 DEF ObserverInv, ObserverTypeOK
<1>11. CASE o.announced
  <2>1. nsObs' = nsObs /\ nsObs # NoObs /\ ~new /\ nsObs.announced  BY <1>5, <1>6, <1>11
  <2>2. ObsInv(nsObs)'
    BY <2>1, <1>5, <1>7 DEF ObserverInv, ObsInv
  <2>3. ObserverTypeOK'
    BY <2>1, <1>7, <1>8, <1>10 DEF ObserverInv, ObserverTypeOK
  <2> QED  BY <2>1, <2>2, <2>3 DEF ObserverInv, AnnouncementAhead, AnnouncedOnce
<1>12. CASE ~o.announced
  <2>1. PICK m, t :
          /\ m = [v \in DOMAIN o.matched \cup {w} |-> IF v = w THEN matched ELSE o.matched[v]]
          /\ t = IF w \in DOMAIN o.matched THEN o.timer ELSE now + ResetWait(o.first)
    OBVIOUS
  <2>2. nsObs' = Counted(o, m, t)  BY <1>6, <1>12, <2>1
  <2>3. m \in Matches /\ DOMAIN m # {}
    <3>1. o.matched \in Matches  BY <1>5, ObsFields
    <3>2. w \in DOMAIN m  BY <2>1
    <3> QED  BY <3>1, <3>2, <2>1, MatchesFacts
  <2>4. o.first \in Nat /\ o.timer \in Nat  BY <1>5, ObsFields
  <2>5. /\ ResetWait(o.first) \in Nat
        /\ now <= o.first + maxWait => now + ResetWait(o.first) <= o.first + maxWait
    BY <1>1, <2>4, ResetWaitIs
  <2>6. new => w \notin DOMAIN o.matched  BY <1>5, MatchesFacts
  <2>7. ~new => now <= o.timer  BY <1>5 DEF ObserverInv, ObsInv
  <2>8. t \in Nat /\ now <= t  BY <1>1, <2>1, <2>4, <2>5, <2>6, <2>7
  <2>9. /\ nsObs' \in namespaceObservation /\ nsObs'.uid = o.uid /\ nsObs'.pass = o.pass
        /\ nsObs'.first = o.first /\ nsObs'.announced = o.announced
        /\ nsObs'.timer = t /\ nsObs'.matched = m
    BY <1>5, <2>2, <2>3, <2>8, CountedFields
  <2>10. ObsInv(nsObs)'  BY <1>7, <1>9, <2>3, <2>8, <2>9 DEF ObsInv
  <2>11. ObserverTypeOK'
    BY <1>7, <1>8, <1>10, <2>9 DEF ObserverInv, ObserverTypeOK
  <2>12. t <= o.first + maxWait \/ \E a \in announces : a.uid = uid
    <3>1. CASE new
      BY <1>1, <1>5, <2>1, <2>5, <2>6, <3>1, Periods
    <3>2. CASE ~new
      <4>1. o.timer <= o.first + maxWait \/ \E a \in announces : a.uid = uid
        BY <1>5, <1>12, <3>2 DEF ObserverInv, AnnouncementAhead
      <4>2. now <= o.timer  BY <2>7, <3>2
      <4> QED  BY <1>1, <2>1, <2>4, <2>5, <4>1, <4>2, Periods
    <3> QED  BY <3>1, <3>2
  <2>13. AnnouncementAhead'  BY <1>5, <2>9, <2>12 DEF AnnouncementAhead
  <2> QED  BY <2>10, <2>11, <2>13 DEF ObserverInv, AnnouncedOnce
<1> QED  BY <1>11, <1>12

\* The timer fires: its announce is on the way.
LEMMA FireStep ==
  ASSUME ObserverInv, Fire
  PROVE  ObserverInv'
<1>1. nsObs # NoObs /\ nsObs \in namespaceObservation /\ ObsInv(nsObs)
  BY DEF Fire, TimerDue, ObserverInv, ObserverTypeOK
<1>2. nsObs' = [nsObs EXCEPT !.timer = Never]
      /\ announces' = announces \cup {[uid |-> nsObs.uid, pass |-> nsObs.pass]}
      /\ UNCHANGED <<ns, held, passes, nsEvents, now, optOuts>>
  BY DEF Fire
<1>3. /\ nsObs' \in namespaceObservation
      /\ nsObs'.uid = nsObs.uid /\ nsObs'.pass = nsObs.pass
      /\ nsObs'.announced = nsObs.announced /\ nsObs'.matched = nsObs.matched
      /\ nsObs'.timer = Never
  BY <1>1, <1>2, FiredFields
<1>4. PICK a : a = [uid |-> nsObs.uid, pass |-> nsObs.pass]  OBVIOUS
<1>5. a \in [uid : Uid, pass : 1..passes] /\ a.uid = nsObs.uid
  BY <1>1, <1>4, ObsFields DEF ObsInv
<1>6. now \in Nat /\ now <= Never  BY Periods DEF ObserverInv, ObserverTypeOK
<1>7. ObserverTypeOK'
  BY <1>2, <1>3, <1>4, <1>5 DEF ObserverInv, ObserverTypeOK
<1>8. ObsInv(nsObs)'  BY <1>1, <1>2, <1>3, <1>6 DEF ObsInv
<1>9. AnnouncementAhead'  BY <1>2, <1>3, <1>4, <1>5 DEF AnnouncementAhead
<1> QED  BY <1>2, <1>7, <1>8, <1>9 DEF ObserverInv, AnnouncedOnce

\* announce writes the event of an observation that is still due, with a
\* number no other event has.
LEMMA AnnounceStep ==
  ASSUME ObserverInv, NEW a \in announces, announce(a)
  PROVE  ObserverInv'
<1>1. announces' = announces \ {a} /\ UNCHANGED <<ns, held, passes, now, optOuts>>
  BY DEF announce
<1>2. CASE ~AnnounceDue(a.uid)
  <2>1. UNCHANGED <<nsObs, nsEvents>>  BY <1>2 DEF announce
  <2>2. ObserverTypeOK'  BY <1>1, <2>1 DEF ObserverInv, ObserverTypeOK
  <2>3. nsObs' # NoObs => ObsInv(nsObs)'  BY <1>1, <2>1 DEF ObserverInv, ObsInv
  <2>4. AnnouncementAhead'
    BY <1>1, <1>2, <2>1 DEF ObserverInv, AnnouncementAhead, AnnounceDue
  <2> QED  BY <2>1, <2>2, <2>3, <2>4 DEF ObserverInv, AnnouncedOnce
<1>3. CASE AnnounceDue(a.uid)
  <2>1. nsObs # NoObs /\ nsObs \in namespaceObservation /\ ObsInv(nsObs) /\ ~nsObs.announced
    BY <1>3 DEF AnnounceDue, ObserverInv, ObserverTypeOK
  <2>2. nsObs.matched \in Matches /\ DOMAIN nsObs.matched # {} /\ nsObs.pass \in 1..passes
        /\ \A e \in nsEvents : e.pass # nsObs.pass
    BY <2>1, ObsFields DEF ObsInv
  <2>3. PICK i, j, n : /\ i = Cardinality(DOMAIN nsObs.matched)
                       /\ j = Cardinality({w \in DOMAIN nsObs.matched : nsObs.matched[w]})
                       /\ n = Cardinality(nsEvents) + 1
    OBVIOUS
  <2>4. i \in Nat /\ j \in Nat /\ j <= i /\ i > 0  BY <2>2, <2>3, Counts
  <2>5. n \in Nat  BY <2>3, FS_CardinalityType DEF ObserverInv
  <2>6. PICK e : e = [uid |-> a.uid, pass |-> nsObs.pass, considered |-> i, matched |-> j, nth |-> n]
    OBVIOUS
  <2>7. nsEvents' = nsEvents \cup {e} /\ nsObs' = Announced(nsObs)
    BY <1>3, <2>3, <2>6 DEF announce, Announced
  <2>8. a.uid \in Uid  BY DEF ObserverInv, ObserverTypeOK
  <2>9. e \in [uid : Uid, pass : 1..passes, considered : Nat, matched : Nat, nth : Nat]
        /\ e.pass = nsObs.pass /\ e.considered = i /\ e.matched = j
    BY <2>2, <2>4, <2>5, <2>6, <2>8
  <2>10. /\ nsObs' \in namespaceObservation /\ nsObs'.announced
         /\ nsObs'.pass = nsObs.pass /\ nsObs'.timer = nsObs.timer
    BY <2>1, <2>7, AnnouncedFields
  <2>11. ObserverTypeOK'
    BY <1>1, <2>7, <2>9, <2>10 DEF ObserverInv, ObserverTypeOK
  <2>12. ObsInv(nsObs)'  BY <1>1, <2>1, <2>10 DEF ObsInv
  <2>13. IsFiniteSet(nsEvents')  BY <2>7, FS_AddElement DEF ObserverInv
  <2>14. AnnouncementAhead'  BY <2>10 DEF AnnouncementAhead
  <2>15. AnnouncedOnce'
    <3>1. \A f \in nsEvents : f.matched <= f.considered /\ f.considered > 0 /\ f.pass # e.pass
      BY <2>2, <2>9 DEF ObserverInv, AnnouncedOnce
    <3>2. \A f, g \in nsEvents : f.pass = g.pass => f = g  BY DEF ObserverInv, AnnouncedOnce
    <3> QED  BY <2>4, <2>7, <2>9, <3>1, <3>2 DEF AnnouncedOnce
  <2> QED  BY <2>11, <2>12, <2>13, <2>14, <2>15 DEF ObserverInv
<1> QED  BY <1>2, <1>3

\* Time passes only up to the timer.
LEMMA TickStep ==
  ASSUME ObserverInv, Tick
  PROVE  ObserverInv'
<1>1. now \in 0..MaxNow /\ now < MaxNow /\ now' = now + 1
      /\ UNCHANGED <<ns, held, nsObs, passes, announces, nsEvents, optOuts>>
  BY DEF Tick, ObserverInv, ObserverTypeOK
<1>2. ObserverTypeOK'  BY <1>1, Periods DEF ObserverInv, ObserverTypeOK
<1>3. nsObs' # NoObs => ObsInv(nsObs)'
  <2> SUFFICES ASSUME nsObs # NoObs PROVE ObsInv(nsObs)'  BY <1>1
  <2>1. ObsInv(nsObs) /\ nsObs.timer \in Nat  BY ObsFields DEF ObserverInv, ObserverTypeOK
  <2>2. ~(nsObs.timer <= now)  BY DEF Tick, TimerDue
  <2>3. now + 1 <= nsObs.timer  BY <1>1, <2>1, <2>2, Periods
  <2> QED  BY <1>1, <2>1, <2>3 DEF ObsInv
<1>4. AnnouncementAhead'  BY <1>1 DEF ObserverInv, AnnouncementAhead
<1> QED  BY <1>1, <1>2, <1>3, <1>4 DEF ObserverInv, AnnouncedOnce

\* Every step keeps the invariant.
LEMMA ObserverInvNext == ObserverInv /\ [ObserverNext]_observerVars => ObserverInv'
<1> SUFFICES ASSUME ObserverInv, [ObserverNext]_observerVars PROVE ObserverInv'  OBVIOUS
<1>1. /\ ns \in [uid : Uid, optedIn : BOOLEAN] /\ ns.uid \in Uid /\ ns.optedIn \in BOOLEAN
      /\ held \in [NsWorkloads -> Uid \cup {0}] /\ optOuts \in 0..MaxOptOuts
  BY DEF ObserverInv, ObserverTypeOK
<1>2. ASSUME NEW w \in NsWorkloads, LookUp(w) PROVE ObserverInv'
  <2>1. held' \in [NsWorkloads -> Uid \cup {0}]  BY <1>1, <1>2 DEF LookUp
  <2>2. nsObs' = nsObs \/ nsObs' = NoObs  BY <1>2 DEF LookUp, Forget
  <2>3. UNCHANGED <<ns, passes, announces, nsEvents, now, optOuts>>  BY <1>2 DEF LookUp
  <2> QED  BY <1>1, <2>1, <2>2, <2>3, QuietObserverStep
<1>3. ASSUME NEW w \in NsWorkloads, Consider(w) PROVE ObserverInv'
  <2>1. held[w] \in Uid /\ held' \in [NsWorkloads -> Uid \cup {0}]  BY <1>1, <1>3 DEF Consider
  <2>2. PICK matched \in BOOLEAN : Considered(held[w], w, matched)  BY <1>3 DEF Consider
  <2>3. UNCHANGED <<ns, announces, nsEvents, now, optOuts>>  BY <1>3 DEF Consider
  <2> QED  BY <2>1, <2>2, <2>3, ConsideredStep
<1>4. ASSUME NEW w \in NsWorkloads, Abandon(w) PROVE ObserverInv'
  <2>1. held' \in [NsWorkloads -> Uid \cup {0}]  BY <1>1, <1>4 DEF Abandon
  <2>2. UNCHANGED <<ns, nsObs, passes, announces, nsEvents, now, optOuts>>  BY <1>4 DEF Abandon
  <2> QED  BY <1>1, <2>1, <2>2, QuietObserverStep
<1>5. CASE Fire  BY <1>5, FireStep
<1>6. CASE Tick  BY <1>6, TickStep
<1>7. CASE Recreate
  <2>1. ns.uid + 1 \in Uid  BY <1>1, <1>7, Periods DEF Recreate, Uid
  <2>2. ns' \in [uid : Uid, optedIn : BOOLEAN]  BY <1>1, <1>7, <2>1 DEF Recreate
  <2>3. UNCHANGED <<held, nsObs, passes, announces, nsEvents, now, optOuts>>  BY <1>7 DEF Recreate
  <2> QED  BY <1>1, <2>2, <2>3, QuietObserverStep
<1>8. CASE Relabel
  <2>1. ns' \in [uid : Uid, optedIn : BOOLEAN]  BY <1>1, <1>8 DEF Relabel
  <2>2. optOuts' \in 0..MaxOptOuts  BY <1>1, <1>8, Periods DEF Relabel
  <2>3. UNCHANGED <<held, nsObs, passes, announces, nsEvents, now>>  BY <1>8 DEF Relabel
  <2> QED  BY <1>1, <2>1, <2>2, <2>3, QuietObserverStep
<1>9. CASE \E a \in announces : announce(a)  BY <1>9, AnnounceStep
<1>10. CASE UNCHANGED observerVars
  <2>1. UNCHANGED <<ns, held, nsObs, passes, announces, nsEvents, now, optOuts>>
    BY <1>10 DEF observerVars
  <2> QED  BY <1>1, <2>1, QuietObserverStep
<1> QED  BY <1>2, <1>3, <1>4, <1>5, <1>6, <1>7, <1>8, <1>9, <1>10 DEF ObserverNext

\* The observer keeps its types, for any namespaces, workloads and periods.
THEOREM ObserverTypeCorrect == ObserverSpec => []ObserverTypeOK
<1>1. ObserverInv => ObserverTypeOK  BY DEF ObserverInv
<1> QED  BY <1>1, ObserverInitInv, ObserverInvNext, PTL DEF ObserverSpec

\* No observation is forgotten by its timers, for any settle period up to any
\* limit: one is ahead within the limit, or its announce is on the way
\* (Considered, Reset, Forget).
THEOREM AnnouncementIsAhead == ObserverSpec => []AnnouncementAhead
<1>1. ObserverInv => AnnouncementAhead  BY DEF ObserverInv
<1> QED  BY <1>1, ObserverInitInv, ObserverInvNext, PTL DEF ObserverSpec

\* A pass over the namespace is announced at most once and with counts of
\* workloads it considered, whatever timers fired (announce).
THEOREM PassAnnouncedOnce == ObserverSpec => []AnnouncedOnce
<1>1. ObserverInv => AnnouncedOnce  BY DEF ObserverInv
<1> QED  BY <1>1, ObserverInitInv, ObserverInvNext, PTL DEF ObserverSpec
=============================================================================
