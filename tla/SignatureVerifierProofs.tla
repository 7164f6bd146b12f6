---------------------- MODULE SignatureVerifierProofs ----------------------
(***************************************************************************)
(* Proofs about SignatureVerifier, for any callers, claims, bundles,       *)
(* configurations and bounds.                                              *)
(*                                                                         *)
(* The number of a verifier stands for the configuration it was built      *)
(* from: a call that has a verifier, and the adapter, hold the             *)
(* configuration of its number, numbers only grow, and so a result found   *)
(* in the cache or waited for was reached under the caller's own           *)
(* configuration.                                                          *)
(***************************************************************************)
EXTENDS SignatureVerifier, FiniteSetTheorems, TLAPS

\* current has returned; trustedMaterial has, too.
HasVerifier(x) == x.pc \in {"built", "keyed", "leading", "published", "waiting"}
HasKey(x) == x.pc \in {"keyed", "leading", "published", "waiting"}

\* What the configuration p demands before a claim with this reference may be
\* called verified.
Earned(p, ref) ==
  Bundle[ref].chainValid /\ constrained(p) /\ identityMatches(p, Bundle[ref].signer)

\* Each call that has not gone through current yet may still build a verifier.
Loading == {c \in Callers : call[c].pc = "loaded"}
NumbersInv == adapter.verifier + Cardinality(Loading) <= calls

\* The adapter's number is the newest, and it stands for the adapter's policy.
AdapterInv(x) ==
  HasVerifier(x) =>
    /\ x.verifier <= adapter.verifier
    /\ x.verifier = adapter.verifier => x.policy = adapter.policy

\* A call keeps the key of its claim, and tells verified what its own
\* configuration admits.
CallerInv(x) ==
  /\ HasKey(x) => x.key.ref = x.claim.ref
  /\ x.pc \in {"published", "answered"} /\ x.result = "verified" => Earned(x.policy, x.claim.ref)

\* One number, one configuration.
SamePolicy(x, y) ==
  HasVerifier(x) /\ HasVerifier(y) /\ x.verifier = y.verifier => x.policy = y.policy

\* Who waits, waits for a call under way by the same verifier on the same key.
WaitInv(x) ==
  x.pc = "waiting" =>
    /\ x.leader \in Callers
    /\ call[x.leader].pc \in {"leading", "published"}
    /\ call[x.leader].verifier = x.verifier /\ call[x.leader].key = x.key

\* A cached verified is one for everybody who may find it.
EntryInv(e) ==
  /\ e.verifier <= adapter.verifier
  /\ e.result = "verified" =>
       /\ e.verifier = adapter.verifier => Earned(adapter.policy, e.key.ref)
       /\ \A c \in Callers : HasVerifier(call[c]) /\ call[c].verifier = e.verifier
            => Earned(call[c].policy, e.key.ref)

\* A call under way is its leader's.
FlightInv(i) ==
  /\ call[i.leader].pc = "leading"
  /\ call[i.leader].verifier = i.verifier /\ call[i.leader].key = i.key

\* The inductive invariant.
VerifierInv ==
  /\ VerifierTypeOK
  /\ NumbersInv
  /\ \A c \in Callers : AdapterInv(call[c]) /\ CallerInv(call[c]) /\ WaitInv(call[c])
  /\ \A c, d \in Callers : SamePolicy(call[c], call[d])
  /\ \A e \in entries : EntryInv(e)
  /\ \A i \in inflight : FlightInv(i)
  /\ OneVerificationAtATime
-----------------------------------------------------------------------------
(* The record of a call, and its updates *)

CallPC == {"idle", "loaded", "built", "keyed", "leading", "published", "waiting", "answered"}
Began(x, pc, claim, p, r) ==
  [x EXCEPT !.pc = pc, !.claim = claim, !.policy = p, !.result = r]
Built(x, v) == [x EXCEPT !.pc = "built", !.verifier = v]
Keyed(x, key) == [x EXCEPT !.pc = "keyed", !.key = key]
Told(x, pc, r) == [x EXCEPT !.pc = pc, !.result = r]
Waits(x, l) == [x EXCEPT !.pc = "waiting", !.leader = l]
Leads(x) == [x EXCEPT !.pc = "leading"]
Released(x, r) == [x EXCEPT !.pc = "answered", !.leader = NoResult, !.result = r]

\* The bounds and the sets the calls are made of.
LEMMA Constants ==
  /\ MaxCalls \in Nat /\ MaxSwaps \in Nat /\ MaxTroubles \in Nat
  /\ IsFiniteSet(Callers) /\ Claims # {} /\ Verifier = 0..MaxCalls
  BY VerifierConstants DEF Verifier

\* The type of a call, field by field.
LEMMA CallFields ==
  ASSUME NEW x \in verifyCall
  PROVE  /\ x.pc \in CallPC /\ x.claim \in Claims /\ x.policy \in Policies \cup {NoPolicy}
         /\ x.verifier \in Verifier /\ x.key \in Key /\ x.leader \in Callers \cup {NoResult}
         /\ x.result \in Result \cup {NoResult}
  BY DEF verifyCall, CallPC

\* A claim is asked for.
LEMMA BeganFields ==
  ASSUME NEW x \in verifyCall, NEW pc \in CallPC, NEW claim \in Claims,
         NEW p \in Policies \cup {NoPolicy}, NEW r \in Result \cup {NoResult}
  PROVE  /\ Began(x, pc, claim, p, r) \in verifyCall
         /\ Began(x, pc, claim, p, r).pc = pc /\ Began(x, pc, claim, p, r).result = r
  BY DEF Began, verifyCall, CallPC

\* current returned verifier v.
LEMMA BuiltFields ==
  ASSUME NEW x \in verifyCall, NEW v \in Verifier
  PROVE  /\ Built(x, v) \in verifyCall
         /\ Built(x, v).pc = "built" /\ Built(x, v).verifier = v /\ Built(x, v).policy = x.policy
  BY DEF Built, verifyCall, CallPC

\* trustedMaterial returned, and with it the key is known.
LEMMA KeyedFields ==
  ASSUME NEW x \in verifyCall, NEW key \in Key
  PROVE  /\ Keyed(x, key) \in verifyCall
         /\ Keyed(x, key).pc = "keyed" /\ Keyed(x, key).key = key
         /\ Keyed(x, key).verifier = x.verifier /\ Keyed(x, key).policy = x.policy
         /\ Keyed(x, key).claim = x.claim
  BY DEF Keyed, verifyCall, CallPC

\* A result is found in the cache, or was computed.
LEMMA ToldFields ==
  ASSUME NEW x \in verifyCall, NEW pc \in CallPC, NEW r \in Result
  PROVE  /\ Told(x, pc, r) \in verifyCall
         /\ Told(x, pc, r).pc = pc /\ Told(x, pc, r).result = r
         /\ Told(x, pc, r).verifier = x.verifier /\ Told(x, pc, r).policy = x.policy
         /\ Told(x, pc, r).claim = x.claim /\ Told(x, pc, r).key = x.key
  BY DEF Told, verifyCall, CallPC

\* A caller waits for another one's verification.
LEMMA WaitsFields ==
  ASSUME NEW x \in verifyCall, NEW l \in Callers
  PROVE  /\ Waits(x, l) \in verifyCall
         /\ Waits(x, l).pc = "waiting" /\ Waits(x, l).leader = l
         /\ Waits(x, l).verifier = x.verifier /\ Waits(x, l).policy = x.policy
         /\ Waits(x, l).claim = x.claim /\ Waits(x, l).key = x.key
  BY DEF Waits, verifyCall, CallPC

\* A caller becomes the one that verifies.
LEMMA LeadsFields ==
  ASSUME NEW x \in verifyCall
  PROVE  /\ Leads(x) \in verifyCall
         /\ Leads(x).pc = "leading"
         /\ Leads(x).verifier = x.verifier /\ Leads(x).policy = x.policy
         /\ Leads(x).claim = x.claim /\ Leads(x).key = x.key
  BY DEF Leads, verifyCall, CallPC

\* The leader and those who waited return.
LEMMA ReleasedFields ==
  ASSUME NEW x \in verifyCall, NEW r \in Result \cup {NoResult}
  PROVE  /\ Released(x, r) \in verifyCall
         /\ Released(x, r).pc = "answered" /\ Released(x, r).result = r
         /\ Released(x, r).policy = x.policy /\ Released(x, r).claim = x.claim
  BY DEF Released, verifyCall, CallPC

\* What decideOutcome calls verified, the configuration admits (outcome.go).
LEMMA OutcomeEarned ==
  ASSUME NEW p, NEW claim
  PROVE  /\ decideOutcome(p, claim, findings(claim)) \in Outcomes
         /\ decideOutcome(p, claim, findings(claim)) = "verified" => Earned(p, claim.ref)
  BY DEF decideOutcome, findings, Earned, Outcomes
-----------------------------------------------------------------------------
(* What a step of one caller leaves intact *)

\* One call changes, the others do not.
LEMMA OneCall ==
  ASSUME VerifierInv, NEW c \in Callers, NEW n \in verifyCall,
         call' = [call EXCEPT ![c] = n]
  PROVE  /\ call' \in [Callers -> verifyCall] /\ call'[c] = n
         /\ \A d \in Callers : d # c => call'[d] = call[d]
  BY DEF VerifierInv, VerifierTypeOK

\* A step that neither begins a call nor builds a verifier.
LEMMA KeepsNumbers ==
  ASSUME VerifierInv, UNCHANGED <<adapter, calls>>,
         \A d \in Callers : call'[d].pc = "loaded" <=> call[d].pc = "loaded"
  PROVE  NumbersInv'
<1>1. Loading' = Loading  BY DEF Loading
<1> QED  BY <1>1 DEF VerifierInv, NumbersInv

\* A step that builds no verifier and takes no other one into use.
LEMMA KeepsPolicies ==
  ASSUME VerifierInv, UNCHANGED adapter,
         \A d \in Callers : HasVerifier(call'[d]) =>
           /\ HasVerifier(call[d])
           /\ call'[d].verifier = call[d].verifier /\ call'[d].policy = call[d].policy
  PROVE  /\ \A d \in Callers : AdapterInv(call[d])'
         /\ \A b, d \in Callers : SamePolicy(call[b], call[d])'
         /\ \A e \in entries : EntryInv(e)'
<1>1. \A d \in Callers : AdapterInv(call[d])'  BY DEF VerifierInv, AdapterInv
<1>2. \A b, d \in Callers : SamePolicy(call[b], call[d])'  BY DEF VerifierInv, SamePolicy
<1>3. \A e \in entries : EntryInv(e)'  BY DEF VerifierInv, EntryInv
<1> QED  BY <1>1, <1>2, <1>3

\* Those who wait go on waiting for the same call when c takes a step that is
\* not its return, and c itself may begin to wait.
LEMMA KeepsWaiting ==
  ASSUME VerifierInv, NEW c \in Callers, NEW n \in verifyCall,
         call' = [call EXCEPT ![c] = n],
         call[c].pc \in {"leading", "published"} =>
           /\ n.pc \in {"leading", "published"}
           /\ n.verifier = call[c].verifier /\ n.key = call[c].key,
         n.pc = "waiting" =>
           /\ n.leader \in Callers \ {c}
           /\ call[n.leader].pc \in {"leading", "published"}
           /\ call[n.leader].verifier = n.verifier /\ call[n.leader].key = n.key
  PROVE  \A d \in Callers : WaitInv(call[d])'
<1>1. /\ call'[c] = n /\ \A d \in Callers : d # c => call'[d] = call[d]
      /\ \A d \in Callers : WaitInv(call[d])
  BY OneCall DEF VerifierInv
<1>2. ASSUME NEW d \in Callers PROVE WaitInv(call[d])'
  <2>1. CASE d = c  BY <1>1, <2>1 DEF WaitInv
  <2>2. CASE d # c /\ call[d].pc = "waiting"
    <3>1. call[d].leader \in Callers  BY <1>1, <2>2 DEF WaitInv
    <3>2. CASE call[d].leader = c  BY <1>1, <2>2, <3>1, <3>2 DEF WaitInv
    <3>3. CASE call[d].leader # c  BY <1>1, <2>2, <3>1, <3>3 DEF WaitInv
    <3> QED  BY <3>2, <3>3
  <2>3. CASE d # c /\ call[d].pc # "waiting"  BY <1>1, <2>3 DEF WaitInv
  <2> QED  BY <2>1, <2>2, <2>3
<1> QED  BY <1>2

\* The calls under way are not disturbed by a caller that leads none of them.
LEMMA KeepsFlights ==
  ASSUME VerifierInv, NEW c \in Callers, NEW n \in verifyCall,
         call' = [call EXCEPT ![c] = n]
  PROVE  \A i \in inflight : i.leader # c \/ call[c].pc # "leading" => FlightInv(i)'
<1> SUFFICES ASSUME NEW i \in inflight, i.leader # c \/ call[c].pc # "leading"
             PROVE  FlightInv(i)'
  OBVIOUS
<1>1. FlightInv(i) /\ i.leader \in Callers
  BY DEF VerifierInv, VerifierTypeOK
<1>2. i.leader # c  BY <1>1 DEF FlightInv
<1>3. call'[i.leader] = call[i.leader]  BY <1>1, <1>2, OneCall
<1> QED  BY <1>1, <1>3 DEF FlightInv

\* A step of one caller c from x to n that leaves the adapter alone.
LEMMA CallerStep ==
  ASSUME VerifierInv, NEW c \in Callers, NEW n \in verifyCall,
         call' = [call EXCEPT ![c] = n], UNCHANGED <<policy, adapter, calls, swaps>>,
         n.pc # "loaded", call[c].pc # "loaded",
         HasVerifier(n) => /\ HasVerifier(call[c])
                           /\ n.verifier = call[c].verifier /\ n.policy = call[c].policy,
         CallerInv(n),
         call[c].pc \in {"leading", "published"} =>
           /\ n.pc \in {"leading", "published"}
           /\ n.verifier = call[c].verifier /\ n.key = call[c].key,
         n.pc = "waiting" =>
           /\ n.leader \in Callers \ {c}
           /\ call[n.leader].pc \in {"leading", "published"}
           /\ call[n.leader].verifier = n.verifier /\ call[n.leader].key = n.key
  PROVE  /\ call' \in [Callers -> verifyCall]
         /\ NumbersInv'
         /\ \A d \in Callers : AdapterInv(call[d])' /\ CallerInv(call[d])' /\ WaitInv(call[d])'
         /\ \A b, d \in Callers : SamePolicy(call[b], call[d])'
         /\ \A e \in entries : EntryInv(e)'
<1>1. /\ call' \in [Callers -> verifyCall] /\ call'[c] = n
      /\ \A d \in Callers : d # c => call'[d] = call[d]
  BY OneCall
<1>2. \A d \in Callers : call'[d].pc = "loaded" <=> call[d].pc = "loaded"  BY <1>1
<1>3. \A d \in Callers : HasVerifier(call'[d]) =>
           /\ HasVerifier(call[d])
           /\ call'[d].verifier = call[d].verifier /\ call'[d].policy = call[d].policy
  BY <1>1
<1>4. NumbersInv'  BY <1>2, KeepsNumbers
<1>5. \A d \in Callers : CallerInv(call'[d])  BY <1>1 DEF VerifierInv
<1>6. \A d \in Callers : CallerInv(call[d])'  BY <1>5 DEF CallerInv
<1>7. \A d \in Callers : WaitInv(call[d])'  BY KeepsWaiting
<1> QED  BY <1>1, <1>3, <1>4, <1>6, <1>7, KeepsPolicies
-----------------------------------------------------------------------------
(* The steps of the system *)

\* No claim was looked at yet.
LEMMA VerifierInitInv == VerifierInit => VerifierInv
<1> SUFFICES ASSUME VerifierInit PROVE VerifierInv  OBVIOUS
<1>1. \A c \in Callers : call[c].pc = "idle"  BY DEF VerifierInit
<1>2. call \in [Callers -> verifyCall]
  <2>1. (CHOOSE c \in Claims : TRUE) \in Claims /\ (CHOOSE r \in Refs : TRUE) \in Refs
    BY Constants DEF Refs
  <2>2. [ref |-> CHOOSE r \in Refs : TRUE, epoch |-> FALSE] \in Key  BY <2>1 DEF Key
  <2>3. 0 \in Verifier  BY Constants
  <2>4. \A c \in Callers : call[c] \in verifyCall
    BY <2>1, <2>2, <2>3 DEF VerifierInit, verifyCall
  <2> QED  BY <2>4 DEF VerifierInit
<1>3. adapter \in [policy : Policies \cup {NoPolicy}, verifier : Verifier] /\ adapter.verifier = 0
  BY Constants DEF VerifierInit
<1>4. VerifierTypeOK  BY <1>2, <1>3, Constants DEF VerifierInit, VerifierTypeOK
<1>5. NumbersInv
  <2>1. Loading = {}  BY <1>1 DEF Loading
  <2> QED  BY <2>1, <1>3, FS_EmptySet DEF NumbersInv, VerifierInit
<1>6. \A c \in Callers : AdapterInv(call[c]) /\ CallerInv(call[c]) /\ WaitInv(call[c])
  BY <1>1 DEF AdapterInv, CallerInv, WaitInv, HasVerifier, HasKey
<1>7. \A c, d \in Callers : SamePolicy(call[c], call[d])  BY <1>1 DEF SamePolicy, HasVerifier
<1>8. entries = {} /\ inflight = {}  BY DEF VerifierInit
<1> QED  BY <1>4, <1>5, <1>6, <1>7, <1>8 DEF VerifierInv, OneVerificationAtATime

\* The callers about to go through current are finitely many; one that joins
\* or leaves them counts for one.
LEMMA LoadingCount ==
  ASSUME VerifierInv, NEW c \in Callers, NEW n \in verifyCall,
         call' = [call EXCEPT ![c] = n]
  PROVE  /\ Cardinality(Loading) \in Nat /\ Cardinality(Loading') \in Nat
         /\ call[c].pc # "loaded" /\ n.pc = "loaded" =>
              Cardinality(Loading') = Cardinality(Loading) + 1
         /\ call[c].pc = "loaded" /\ n.pc # "loaded" =>
              Cardinality(Loading') = Cardinality(Loading) - 1
         /\ (call[c].pc = "loaded" <=> n.pc = "loaded") =>
              Cardinality(Loading') = Cardinality(Loading)
<1>1. /\ call'[c] = n /\ \A d \in Callers : d # c => call'[d] = call[d]  BY OneCall
<1>2. IsFiniteSet(Loading) /\ IsFiniteSet(Loading')
  <2>1. Loading \subseteq Callers /\ Loading' \subseteq Callers  BY DEF Loading
  <2> QED  BY <2>1, Constants, FS_Subset
<1>3. Cardinality(Loading) \in Nat /\ Cardinality(Loading') \in Nat
  BY <1>2, FS_CardinalityType
<1>4. CASE call[c].pc # "loaded" /\ n.pc = "loaded"
  <2>1. Loading' = Loading \cup {c} /\ c \notin Loading  BY <1>1, <1>4 DEF Loading
  <2>2. Cardinality(Loading \cup {c}) = Cardinality(Loading) + 1
    BY <1>2, <2>1, FS_AddElement
  <2> QED  BY <1>3, <1>4, <2>1, <2>2
<1>5. CASE call[c].pc = "loaded" /\ n.pc # "loaded"
  <2>1. Loading' = Loading \ {c} /\ c \in Loading  BY <1>1, <1>5 DEF Loading
  <2>2. Cardinality(Loading \ {c}) = Cardinality(Loading) - 1
    BY <1>2, <2>1, FS_RemoveElement
  <2> QED  BY <1>3, <1>5, <2>1, <2>2
<1>6. CASE call[c].pc = "loaded" <=> n.pc = "loaded"
  <2>1. Loading' = Loading  BY <1>1, <1>6 DEF Loading
  <2> QED  BY <1>3, <1>6, <2>1
<1> QED  BY <1>4, <1>5, <1>6

\* applySignatures asks for a claim.
LEMMA LoadStep ==
  ASSUME VerifierInv, NEW c \in Callers, NEW claim \in Claims, Load(c, claim)
  PROVE  VerifierInv'
<1> DEFINE pc == IF policy = NoPolicy THEN "answered" ELSE "loaded"
           r == IF policy = NoPolicy THEN "claimed" ELSE NoResult
<1>1. pc \in CallPC /\ pc \in {"answered", "loaded"} /\ r \in Result \cup {NoResult}
      /\ (pc = "answered" => r # "verified")
  BY DEF CallPC, Result
<1>2. call[c] \in verifyCall /\ policy \in Policies \cup {NoPolicy}
      /\ call[c].pc \in {"idle", "answered"}
  BY DEF VerifierInv, VerifierTypeOK, Load
<1>3. PICK n : n = Began(call[c], pc, claim, policy, r)  OBVIOUS
<1>4. call' = [call EXCEPT ![c] = n]  BY <1>3 DEF Load, Began
<1> HIDE DEF pc, r
<1>5. n \in verifyCall /\ n.pc = pc /\ n.result = r  BY <1>1, <1>2, <1>3, BeganFields
<1>6. /\ call' \in [Callers -> verifyCall] /\ call'[c] = n
      /\ \A d \in Callers : d # c => call'[d] = call[d]
  BY <1>4, <1>5, OneCall
<1>7. ~HasVerifier(n) /\ CallerInv(n)
  BY <1>1, <1>5 DEF HasVerifier, HasKey, CallerInv
<1>8. UNCHANGED <<policy, adapter, trusted, entries, inflight, swaps, troubles>>
      /\ calls' = calls + 1 /\ calls < MaxCalls
  BY DEF Load
<1>9. VerifierTypeOK'
  BY <1>6, <1>8, Constants DEF VerifierInv, VerifierTypeOK
<1>10. NumbersInv'
  <2>1. Cardinality(Loading) \in Nat /\ Cardinality(Loading') \in Nat
        /\ Cardinality(Loading') <= Cardinality(Loading) + 1
    <3>1. Cardinality(Loading) \in Nat /\ Cardinality(Loading') \in Nat
      BY <1>4, <1>5, LoadingCount
    <3>2. n.pc = "loaded" => Cardinality(Loading') = Cardinality(Loading) + 1
      BY <1>2, <1>4, <1>5, LoadingCount
    <3>3. n.pc # "loaded" => Cardinality(Loading') = Cardinality(Loading)
      BY <1>2, <1>4, <1>5, LoadingCount
    <3> QED  BY <3>1, <3>2, <3>3
  <2>2. adapter.verifier \in Nat /\ calls \in Nat
    BY Constants DEF VerifierInv, VerifierTypeOK
  <2> QED  BY <1>8, <2>1, <2>2 DEF VerifierInv, NumbersInv
<1>11. /\ \A d \in Callers : AdapterInv(call[d])'
       /\ \A b, d \in Callers : SamePolicy(call[b], call[d])'
       /\ \A e \in entries : EntryInv(e)'
  BY <1>6, <1>7, <1>8, KeepsPolicies
<1>12. \A d \in Callers : CallerInv(call[d])'
  <2>1. \A d \in Callers : CallerInv(call'[d])  BY <1>6, <1>7 DEF VerifierInv
  <2> QED  BY <2>1 DEF CallerInv
<1>13. \A d \in Callers : WaitInv(call[d])'
  BY <1>1, <1>2, <1>4, <1>5, KeepsWaiting
<1>14. \A i \in inflight : FlightInv(i)'  BY <1>2, <1>4, <1>5, KeepsFlights
<1> QED  BY <1>8, <1>9, <1>10, <1>11, <1>12, <1>13, <1>14 DEF VerifierInv, OneVerificationAtATime

\* current builds a verifier with a number never used before, or finds the
\* one of this very configuration.
LEMMA CurrentStep ==
  ASSUME VerifierInv, NEW c \in Callers, current(c)
  PROVE  VerifierInv'
<1>1. call[c] \in verifyCall /\ call[c].pc = "loaded"
      /\ call[c].policy \in Policies \cup {NoPolicy}
  BY CallFields DEF VerifierInv, VerifierTypeOK, current
<1>2. adapter \in [policy : Policies \cup {NoPolicy}, verifier : Verifier]
      /\ adapter.verifier \in Nat /\ calls \in 0..MaxCalls /\ calls \in Nat
  BY Constants DEF VerifierInv, VerifierTypeOK
<1>3. adapter' = rebuilt(call[c].policy)
      /\ UNCHANGED <<policy, trusted, entries, inflight, calls, swaps, troubles>>
  BY DEF current
<1>4. /\ adapter'.policy = call[c].policy
      /\ adapter'.verifier \in {adapter.verifier, adapter.verifier + 1}
      /\ adapter'.verifier = adapter.verifier => adapter' = adapter
  BY <1>2, <1>3 DEF rebuilt
<1>5. PICK n : n = Built(call[c], adapter'.verifier)  OBVIOUS
<1>6. call' = [call EXCEPT ![c] = n]  BY <1>5 DEF current, Built
<1>7. n.pc = "built" /\ n.policy = call[c].policy /\ n.verifier = adapter'.verifier
  BY <1>1, <1>5 DEF Built, verifyCall
<1>8. adapter'.verifier \in Verifier /\ adapter'.verifier + Cardinality(Loading) - 1 <= calls
      /\ Cardinality(Loading) \in Nat
  <2>1. IsFiniteSet(Loading) /\ c \in Loading
    <3>1. Loading \subseteq Callers /\ c \in Loading  BY <1>1 DEF Loading
    <3> QED  BY <3>1, Constants, FS_Subset
  <2>2. Cardinality(Loading) \in Nat /\ Cardinality(Loading) # 0
    BY <2>1, FS_CardinalityType, FS_EmptySet
  <2>3. adapter.verifier + Cardinality(Loading) <= calls  BY DEF VerifierInv, NumbersInv
  <2> QED  BY <1>2, <1>4, <2>2, <2>3, Constants
<1>9. n \in verifyCall  BY <1>1, <1>5, <1>8, BuiltFields
<1>10. /\ call' \in [Callers -> verifyCall] /\ call'[c] = n
       /\ \A d \in Callers : d # c => call'[d] = call[d]
  BY <1>6, <1>9, OneCall
<1>11. VerifierTypeOK'
  <2>1. adapter' \in [policy : Policies \cup {NoPolicy}, verifier : Verifier]
    <3>1. CASE adapter' = adapter  BY <1>2, <3>1
    <3>2. CASE adapter' = [policy |-> call[c].policy, verifier |-> adapter.verifier + 1]
      BY <1>1, <1>8, <3>2
    <3> QED  BY <1>3, <3>1, <3>2 DEF rebuilt
  <2> QED  BY <1>3, <1>10, <2>1 DEF VerifierInv, VerifierTypeOK
<1>12. NumbersInv'
  <2>1. Cardinality(Loading') = Cardinality(Loading) - 1  BY <1>1, <1>6, <1>7, <1>9, LoadingCount
  <2>2. adapter'.verifier \in Nat  BY <1>2, <1>4
  <2> QED  BY <1>2, <1>3, <1>8, <2>1, <2>2 DEF NumbersInv
<1>13. ASSUME NEW d \in Callers, d # c, HasVerifier(call[d])
       PROVE  /\ call'[d] = call[d] /\ call[d].verifier \in Nat
              /\ call[d].verifier <= adapter.verifier
              /\ call[d].verifier <= adapter'.verifier
              /\ call[d].verifier = adapter'.verifier => call[d].policy = adapter'.policy
  <2>1. AdapterInv(call[d]) /\ call[d].verifier \in Nat
    BY CallFields, Constants DEF VerifierInv, VerifierTypeOK
  <2>2. CASE adapter' = adapter  BY <1>10, <1>13, <2>1, <2>2 DEF AdapterInv
  <2>3. CASE adapter'.verifier = adapter.verifier + 1
    BY <1>2, <1>10, <1>13, <2>1, <2>3 DEF AdapterInv
  <2> QED  BY <1>4, <2>2, <2>3
<1>14. ASSUME NEW d \in Callers PROVE AdapterInv(call[d])'
  <2>1. CASE d = c  BY <1>2, <1>4, <1>7, <1>10, <2>1 DEF AdapterInv
  <2>2. CASE d # c  BY <1>10, <1>13, <2>2 DEF AdapterInv
  <2> QED  BY <2>1, <2>2
<1>15. ASSUME NEW b \in Callers, NEW d \in Callers PROVE SamePolicy(call[b], call[d])'
  <2>1. CASE b # c /\ d # c  BY <1>10, <2>1 DEF VerifierInv, SamePolicy
  <2>2. CASE b = c /\ d # c  BY <1>4, <1>7, <1>10, <1>13, <2>2 DEF SamePolicy
  <2>3. CASE b # c /\ d = c  BY <1>4, <1>7, <1>10, <1>13, <2>3 DEF SamePolicy
  <2>4. CASE b = c /\ d = c  BY <2>4 DEF SamePolicy
  <2> QED  BY <2>1, <2>2, <2>3, <2>4
<1>16. ASSUME NEW e \in entries PROVE EntryInv(e)'
  <2>1. EntryInv(e) /\ e.verifier \in Nat
    BY Constants DEF VerifierInv, VerifierTypeOK
  <2>2. CASE adapter' = adapter
    BY <1>4, <1>7, <1>10, <2>1, <2>2 DEF EntryInv
  <2>3. CASE adapter'.verifier = adapter.verifier + 1
    <3>1. e.verifier <= adapter'.verifier /\ e.verifier # adapter'.verifier
      BY <1>2, <2>1, <2>3 DEF EntryInv
    <3> QED  BY <1>7, <1>10, <2>1, <3>1 DEF EntryInv
  <2> QED  BY <1>4, <2>2, <2>3
<1>17. \A d \in Callers : CallerInv(call[d])'
  <2>1. CallerInv(n)  BY <1>7 DEF CallerInv, HasKey
  <2>2. \A d \in Callers : CallerInv(call'[d])  BY <1>10, <2>1 DEF VerifierInv
  <2> QED  BY <2>2 DEF CallerInv
<1>18. \A d \in Callers : WaitInv(call[d])'  BY <1>1, <1>6, <1>7, <1>9, KeepsWaiting
<1>19. \A i \in inflight : FlightInv(i)'  BY <1>1, <1>6, <1>9, KeepsFlights
<1> QED
  BY <1>3, <1>11, <1>12, <1>14, <1>15, <1>16, <1>17, <1>18, <1>19 DEF VerifierInv, OneVerificationAtATime

\* trustedMaterial, whether it resolves the trust root or not.
LEMMA TrustedStep ==
  ASSUME VerifierInv, NEW c \in Callers, trustedMaterial(c)
  PROVE  VerifierInv'
<1>1. call[c] \in verifyCall /\ call[c].pc = "built" /\ call[c].claim \in Claims
      /\ call[c].verifier \in Verifier
  BY CallFields DEF VerifierInv, VerifierTypeOK, trustedMaterial
<1>2. PICK resolved \in BOOLEAN :
        /\ call' = [call EXCEPT ![c].pc = "keyed",
                      ![c].key = [ref |-> call[c].claim.ref, epoch |-> resolved]]
        /\ trusted' \in {trusted, trusted \cup {call[c].verifier}}
        /\ troubles' = troubles \/ Trouble
  BY DEF trustedMaterial
<1>3. PICK key : key = [ref |-> call[c].claim.ref, epoch |-> resolved]  OBVIOUS
<1>4. key \in Key /\ key.ref = call[c].claim.ref  BY <1>1, <1>3 DEF Key, Refs
<1>5. PICK n : n = Keyed(call[c], key)  OBVIOUS
<1>6. call' = [call EXCEPT ![c] = n]  BY <1>2, <1>3, <1>5 DEF Keyed
<1>7. /\ n \in verifyCall /\ n.pc = "keyed" /\ n.key = key /\ n.claim = call[c].claim
      /\ n.verifier = call[c].verifier /\ n.policy = call[c].policy
  BY <1>1, <1>4, <1>5, KeyedFields
<1>8. HasVerifier(call[c]) /\ CallerInv(n)  BY <1>1, <1>4, <1>7 DEF HasVerifier, CallerInv
<1>9. UNCHANGED <<policy, adapter, entries, inflight, calls, swaps>>  BY DEF trustedMaterial
<1>10. /\ call' \in [Callers -> verifyCall]
       /\ NumbersInv'
       /\ \A d \in Callers : AdapterInv(call[d])' /\ CallerInv(call[d])' /\ WaitInv(call[d])'
       /\ \A b, d \in Callers : SamePolicy(call[b], call[d])'
       /\ \A e \in entries : EntryInv(e)'
  BY <1>1, <1>6, <1>7, <1>8, <1>9, CallerStep
<1>11. \A i \in inflight : FlightInv(i)'  BY <1>1, <1>6, <1>7, KeepsFlights
<1>12. VerifierTypeOK'
  BY <1>1, <1>2, <1>9, <1>10, Constants DEF VerifierInv, VerifierTypeOK, Trouble
<1> QED  BY <1>9, <1>10, <1>11, <1>12 DEF VerifierInv, OneVerificationAtATime

\* do, under the lock: the cached result, a call to wait for, or the lead.
LEMMA EnterStep ==
  ASSUME VerifierInv, NEW c \in Callers, Enter(c)
  PROVE  VerifierInv'
<1>1. call[c] \in verifyCall /\ call[c].pc = "keyed" /\ HasVerifier(call[c]) /\ HasKey(call[c])
      /\ call[c].verifier \in Verifier /\ call[c].key \in Key
  BY CallFields DEF VerifierInv, VerifierTypeOK, Enter, HasVerifier, HasKey
<1>2. call[c].key.ref = call[c].claim.ref  BY <1>1 DEF VerifierInv, CallerInv
<1>3. UNCHANGED <<policy, adapter, trusted, entries, calls, swaps, troubles>>  BY DEF Enter
<1>4. CASE Hit(c) # {}
  <2>1. PICK e \in Hit(c) : e = (CHOOSE f \in Hit(c) : TRUE)  BY <1>4
  <2>2. /\ e \in entries /\ e.verifier = call[c].verifier /\ e.key = call[c].key
        /\ e.result \in Outcomes /\ e.result \in Result /\ EntryInv(e)
    BY <2>1 DEF Hit, VerifierInv, VerifierTypeOK, Result
  <2>3. PICK n : n = Told(call[c], "answered", e.result)  OBVIOUS
  <2>4. call' = [call EXCEPT ![c] = n] /\ UNCHANGED inflight
    BY <1>4, <2>1, <2>3 DEF Enter, Told
  <2>5. "answered" \in CallPC  BY DEF CallPC
  <2>6. /\ n \in verifyCall /\ n.pc = "answered" /\ n.result = e.result
        /\ n.policy = call[c].policy /\ n.claim = call[c].claim
    BY <1>1, <2>2, <2>3, <2>5, ToldFields
  <2>7. CallerInv(n)
    <3>1. e.result = "verified" => Earned(call[c].policy, call[c].claim.ref)
      BY <1>1, <1>2, <2>2 DEF EntryInv
    <3> QED  BY <3>1, <2>6 DEF CallerInv, HasKey
  <2>8. ~HasVerifier(n)  BY <2>6 DEF HasVerifier
  <2>9. /\ call' \in [Callers -> verifyCall]
        /\ NumbersInv'
        /\ \A d \in Callers : AdapterInv(call[d])' /\ CallerInv(call[d])' /\ WaitInv(call[d])'
        /\ \A b, d \in Callers : SamePolicy(call[b], call[d])'
        /\ \A f \in entries : EntryInv(f)'
    BY <1>1, <1>3, <2>4, <2>6, <2>7, <2>8, CallerStep
  <2>10. \A i \in inflight : FlightInv(i)'  BY <1>1, <2>4, <2>6, KeepsFlights
  <2>11. VerifierTypeOK'  BY <1>3, <2>4, <2>9 DEF VerifierInv, VerifierTypeOK
  <2> QED  BY <1>3, <2>4, <2>9, <2>10, <2>11 DEF VerifierInv, OneVerificationAtATime
<1>5. CASE Hit(c) = {} /\ Leading(c) # {}
  <2>1. PICK i \in Leading(c) : i = (CHOOSE j \in Leading(c) : TRUE)  BY <1>5
  <2>2. /\ i \in inflight /\ i.verifier = call[c].verifier /\ i.key = call[c].key
        /\ i.leader \in Callers /\ FlightInv(i)
    BY <2>1 DEF Leading, VerifierInv, VerifierTypeOK
  <2>3. /\ call[i.leader].pc = "leading" /\ i.leader # c
        /\ call[i.leader].verifier = call[c].verifier /\ call[i.leader].key = call[c].key
    BY <1>1, <2>2 DEF FlightInv
  <2>4. PICK n : n = Waits(call[c], i.leader)  OBVIOUS
  <2>5. call' = [call EXCEPT ![c] = n] /\ UNCHANGED inflight
    BY <1>5, <2>1, <2>4 DEF Enter, Waits
  <2>6. /\ n \in verifyCall /\ n.pc = "waiting" /\ n.leader = i.leader
        /\ n.verifier = call[c].verifier /\ n.policy = call[c].policy
        /\ n.claim = call[c].claim /\ n.key = call[c].key
    BY <1>1, <2>2, <2>4, WaitsFields
  <2>7. CallerInv(n)  BY <1>2, <2>6 DEF CallerInv
  <2>8. /\ call' \in [Callers -> verifyCall]
        /\ NumbersInv'
        /\ \A d \in Callers : AdapterInv(call[d])' /\ CallerInv(call[d])' /\ WaitInv(call[d])'
        /\ \A b, d \in Callers : SamePolicy(call[b], call[d])'
        /\ \A f \in entries : EntryInv(f)'
    BY <1>1, <1>3, <2>2, <2>3, <2>5, <2>6, <2>7, CallerStep
  <2>9. \A j \in inflight : FlightInv(j)'  BY <1>1, <2>5, <2>6, KeepsFlights
  <2>10. VerifierTypeOK'  BY <1>3, <2>5, <2>8 DEF VerifierInv, VerifierTypeOK
  <2> QED  BY <1>3, <2>5, <2>8, <2>9, <2>10 DEF VerifierInv, OneVerificationAtATime
<1>6. CASE Hit(c) = {} /\ Leading(c) = {}
  <2>1. PICK i : i = [verifier |-> call[c].verifier, key |-> call[c].key, leader |-> c]  OBVIOUS
  <2>2. /\ i \in [verifier : Verifier, key : Key, leader : Callers]
        /\ i.verifier = call[c].verifier /\ i.key = call[c].key /\ i.leader = c
    BY <1>1, <2>1
  <2>3. PICK n : n = Leads(call[c])  OBVIOUS
  <2>4. call' = [call EXCEPT ![c] = n] /\ inflight' = inflight \cup {i}
    BY <1>6, <2>1, <2>3 DEF Enter, Leads
  <2>5. /\ n \in verifyCall /\ n.pc = "leading"
        /\ n.verifier = call[c].verifier /\ n.policy = call[c].policy
        /\ n.claim = call[c].claim /\ n.key = call[c].key
    BY <1>1, <2>3, LeadsFields
  <2>6. CallerInv(n)  BY <1>2, <2>5 DEF CallerInv
  <2>7. /\ call' \in [Callers -> verifyCall]
        /\ NumbersInv'
        /\ \A d \in Callers : AdapterInv(call[d])' /\ CallerInv(call[d])' /\ WaitInv(call[d])'
        /\ \A b, d \in Callers : SamePolicy(call[b], call[d])'
        /\ \A f \in entries : EntryInv(f)'
    BY <1>1, <1>3, <2>4, <2>5, <2>6, CallerStep
  <2>8. \A j \in inflight : FlightInv(j)'  BY <1>1, <2>4, <2>5, KeepsFlights
  <2>9. FlightInv(i)'  BY <2>2, <2>4, <2>5, OneCall DEF FlightInv
  <2>10. VerifierTypeOK'  BY <1>3, <2>2, <2>4, <2>7 DEF VerifierInv, VerifierTypeOK
  <2>11. OneVerificationAtATime'
    <3>1. \A j \in inflight : ~(j.verifier = i.verifier /\ j.key = i.key)
      BY <1>6, <2>2 DEF Leading
    <3> QED  BY <2>4, <3>1 DEF VerifierInv, OneVerificationAtATime
  <2> QED  BY <1>3, <2>4, <2>7, <2>8, <2>9, <2>10, <2>11 DEF VerifierInv
<1> QED  BY <1>4, <1>5, <1>6

\* fn ran: its result replaces the call under way.
LEMMA PublishStep ==
  ASSUME VerifierInv, NEW c \in Callers, NEW r \in Outcomes, call[c].pc = "leading",
         Publish(c, r), troubles' \in 0..MaxTroubles,
         r = "verified" => Earned(call[c].policy, call[c].claim.ref)
  PROVE  VerifierInv'
<1>1. call[c] \in verifyCall /\ HasVerifier(call[c]) /\ HasKey(call[c])
      /\ call[c].verifier \in Verifier /\ call[c].key \in Key /\ r \in Result
      /\ "published" \in CallPC
  BY CallFields DEF VerifierInv, VerifierTypeOK, HasVerifier, HasKey, Result, CallPC
<1>2. call[c].key.ref = call[c].claim.ref  BY <1>1 DEF VerifierInv, CallerInv
<1>3. UNCHANGED <<policy, adapter, trusted, calls, swaps>>  BY DEF Publish
<1>4. PICK n : n = Told(call[c], "published", r)  OBVIOUS
<1>5. call' = [call EXCEPT ![c] = n]  BY <1>4 DEF Publish, Told
<1>6. /\ n \in verifyCall /\ n.pc = "published" /\ n.result = r
      /\ n.verifier = call[c].verifier /\ n.policy = call[c].policy
      /\ n.claim = call[c].claim /\ n.key = call[c].key
  BY <1>1, <1>4, ToldFields
<1>7. CallerInv(n)  BY <1>2, <1>6 DEF CallerInv
<1>8. /\ call' \in [Callers -> verifyCall]
      /\ NumbersInv'
      /\ \A d \in Callers : AdapterInv(call[d])' /\ CallerInv(call[d])' /\ WaitInv(call[d])'
      /\ \A b, d \in Callers : SamePolicy(call[b], call[d])'
      /\ \A f \in entries : EntryInv(f)'
  BY <1>1, <1>3, <1>5, <1>6, <1>7, CallerStep
<1>9. PICK e : e = [verifier |-> call[c].verifier, key |-> call[c].key, result |-> r]  OBVIOUS
<1>10. /\ e \in [verifier : Verifier, key : Key, result : Outcomes]
       /\ e.verifier = call[c].verifier /\ e.key = call[c].key /\ e.result = r
  BY <1>1, <1>9
<1>11. entries' = (entries \ Hit(c)) \cup {e} /\ inflight' = {i \in inflight : i.leader # c}
  BY <1>9 DEF Publish
<1>12. EntryInv(e)'
  <2>1. call'[c] = n /\ AdapterInv(call[c])' /\ \A d \in Callers : SamePolicy(call[c], call[d])'
    BY <1>5, <1>6, <1>8, OneCall
  <2>2. HasVerifier(n)  BY <1>6 DEF HasVerifier
  <2>3. e.verifier <= adapter'.verifier /\ (e.verifier = adapter'.verifier => n.policy = adapter'.policy)
    BY <1>6, <1>10, <2>1, <2>2 DEF AdapterInv
  <2>4. \A d \in Callers : HasVerifier(call'[d]) /\ call'[d].verifier = e.verifier
          => call'[d].policy = n.policy
    BY <1>6, <1>10, <2>1, <2>2 DEF SamePolicy
  <2>5. r = "verified" => Earned(n.policy, e.key.ref)  BY <1>2, <1>6, <1>10
  <2> QED  BY <1>10, <2>3, <2>4, <2>5 DEF EntryInv
<1>13. \A i \in inflight' : FlightInv(i)'  BY <1>5, <1>6, <1>11, KeepsFlights
<1>14. VerifierTypeOK'
  BY <1>3, <1>8, <1>10, <1>11 DEF VerifierInv, VerifierTypeOK
<1>15. OneVerificationAtATime'  BY <1>11 DEF VerifierInv, OneVerificationAtATime
<1> QED  BY <1>3, <1>8, <1>11, <1>12, <1>13, <1>14, <1>15 DEF VerifierInv

\* The leader verifies, or fails to.
LEMMA VerifyActionStep ==
  ASSUME VerifierInv, NEW c \in Callers, Verify(c)
  PROVE  VerifierInv'
<1>1. troubles \in 0..MaxTroubles  BY DEF VerifierInv, VerifierTypeOK
<1>2. PICK r : /\ Publish(c, r) /\ (troubles' = troubles \/ Trouble)
               /\ r \in {"error", decideOutcome(call[c].policy, call[c].claim, findings(call[c].claim))}
  BY DEF Verify
<1>3. r \in Outcomes /\ (r = "verified" => Earned(call[c].policy, call[c].claim.ref))
  <2>1. "error" \in Outcomes /\ "error" # "verified"  BY DEF Outcomes
  <2> QED  BY <1>2, <2>1, OutcomeEarned
<1>4. troubles' \in 0..MaxTroubles  BY <1>1, <1>2, Constants DEF Trouble
<1>5. call[c].pc = "leading"  BY DEF Verify
<1> QED  BY <1>2, <1>3, <1>4, <1>5, PublishStep

\* close(call.done): everyone who waited is told the leader's result, which
\* was reached for the same reference under the same configuration.
LEMMA CloseStep ==
  ASSUME VerifierInv, NEW c \in Callers, Close(c)
  PROVE  VerifierInv'
<1> DEFINE R == {c} \cup Waiters(c)
<1>1. \A d \in Callers : call[d] \in verifyCall  BY DEF VerifierInv, VerifierTypeOK
<1>2. call[c].pc = "published" /\ HasVerifier(call[c]) /\ HasKey(call[c])
      /\ call[c].result \in Result \cup {NoResult}
  BY <1>1, CallFields DEF Close, HasVerifier, HasKey
<1>3. call' = [d \in Callers |-> IF d \in R THEN Released(call[d], call[c].result) ELSE call[d]]
  BY DEF Close, Closed, Released
<1>4. UNCHANGED <<policy, adapter, trusted, entries, inflight, calls, swaps, troubles>>
  BY DEF Close
<1>5. \A d \in Callers : d \in R => d = c \/ (call[d].pc = "waiting" /\ call[d].leader = c)
  BY DEF Waiters
<1>6. \A d \in Callers : d \notin R => d # c /\ ~(call[d].pc = "waiting" /\ call[d].leader = c)
  BY DEF Waiters
<1> HIDE DEF R
<1>7. \A d \in Callers : d \notin R => call'[d] = call[d]  BY <1>3
<1>8. \A d \in Callers : d \in R =>
        /\ call'[d] \in verifyCall /\ call'[d].pc = "answered" /\ call'[d].result = call[c].result
        /\ call'[d].policy = call[d].policy /\ call'[d].claim = call[d].claim
  BY <1>1, <1>2, <1>3, ReleasedFields
<1>9. call' \in [Callers -> verifyCall]
  <2>1. \A d \in Callers : call'[d] \in verifyCall  BY <1>1, <1>7, <1>8
  <2> QED  BY <1>3, <2>1
<1>10. NumbersInv'
  <2>1. \A d \in Callers : call'[d].pc = "loaded" <=> call[d].pc = "loaded"
    BY <1>2, <1>5, <1>7, <1>8
  <2> QED  BY <1>4, <2>1, KeepsNumbers
<1>11. /\ \A d \in Callers : AdapterInv(call[d])'
       /\ \A b, d \in Callers : SamePolicy(call[b], call[d])'
       /\ \A e \in entries : EntryInv(e)'
  <2>1. \A d \in Callers : HasVerifier(call'[d]) => call'[d] = call[d]
    BY <1>7, <1>8 DEF HasVerifier
  <2> QED  BY <1>4, <2>1, KeepsPolicies
<1>12. ASSUME NEW d \in Callers PROVE CallerInv(call[d])'
  <2>1. CASE d \notin R  BY <1>7, <2>1 DEF VerifierInv, CallerInv
  <2>2. CASE d \in R
    <3>1. call[d].policy = call[c].policy /\ call[d].claim.ref = call[c].claim.ref
      <4>1. CASE d = c  BY <4>1
      <4>2. CASE call[d].pc = "waiting" /\ call[d].leader = c
        <5>1. call[c].verifier = call[d].verifier /\ call[c].key = call[d].key
          BY <4>2 DEF VerifierInv, WaitInv
        <5>2. HasVerifier(call[d]) /\ HasKey(call[d])  BY <4>2 DEF HasVerifier, HasKey
        <5>3. call[d].policy = call[c].policy  BY <1>2, <5>1, <5>2 DEF VerifierInv, SamePolicy
        <5>4. call[d].key.ref = call[d].claim.ref /\ call[c].key.ref = call[c].claim.ref
          BY <1>2, <5>2 DEF VerifierInv, CallerInv
        <5> QED  BY <5>1, <5>3, <5>4
      <4> QED  BY <1>5, <2>2, <4>1, <4>2
    <3>2. call[c].result = "verified" => Earned(call[c].policy, call[c].claim.ref)
      BY <1>2 DEF VerifierInv, CallerInv
    <3> QED  BY <1>8, <2>2, <3>1, <3>2 DEF CallerInv, HasKey
  <2> QED  BY <2>1, <2>2
<1>13. ASSUME NEW d \in Callers PROVE WaitInv(call[d])'
  <2>1. CASE d \in R  BY <1>8, <2>1 DEF WaitInv
  <2>2. CASE d \notin R /\ call[d].pc # "waiting"  BY <1>7, <2>2 DEF WaitInv
  <2>3. CASE d \notin R /\ call[d].pc = "waiting"
    <3>1. WaitInv(call[d]) /\ call[d].leader # c  BY <1>6, <2>3 DEF VerifierInv
    <3>2. call[d].leader \in Callers /\ call[call[d].leader].pc \in {"leading", "published"}
      BY <2>3, <3>1 DEF WaitInv
    <3>3. call[d].leader \notin R  BY <1>5, <3>1, <3>2
    <3>4. call'[call[d].leader] = call[call[d].leader] /\ call'[d] = call[d]
      BY <1>7, <2>3, <3>2, <3>3
    <3> QED  BY <2>3, <3>1, <3>4 DEF WaitInv
  <2> QED  BY <2>1, <2>2, <2>3
<1>14. ASSUME NEW i \in inflight PROVE FlightInv(i)'
  <2>1. FlightInv(i) /\ i.leader \in Callers  BY DEF VerifierInv, VerifierTypeOK
  <2>2. i.leader \notin R  BY <1>2, <1>5, <2>1 DEF FlightInv
  <2>3. call'[i.leader] = call[i.leader]  BY <1>7, <2>1, <2>2
  <2> QED  BY <2>1, <2>3 DEF FlightInv
<1>15. VerifierTypeOK'  BY <1>4, <1>9 DEF VerifierInv, VerifierTypeOK
<1> QED
  BY <1>4, <1>10, <1>11, <1>12, <1>13, <1>14, <1>15 DEF VerifierInv, OneVerificationAtATime

\* An entry expires, the configuration is swapped, or nothing happens: the
\* calls and the adapter are as they were.
LEMMA QuietStep ==
  ASSUME VerifierInv, UNCHANGED <<adapter, trusted, inflight, call, calls, troubles>>,
         entries' \subseteq entries,
         policy' \in Policies \cup {NoPolicy}, swaps' \in 0..MaxSwaps
  PROVE  VerifierInv'
<1>1. VerifierTypeOK'  BY DEF VerifierInv, VerifierTypeOK
<1>2. NumbersInv'  BY KeepsNumbers
<1>3. /\ \A d \in Callers : AdapterInv(call[d])'
      /\ \A b, d \in Callers : SamePolicy(call[b], call[d])'
      /\ \A e \in entries : EntryInv(e)'
  BY KeepsPolicies
<1>4. \A d \in Callers : CallerInv(call[d])' /\ WaitInv(call[d])'
  BY DEF VerifierInv, CallerInv, WaitInv
<1>5. \A i \in inflight : FlightInv(i)'  BY DEF VerifierInv, FlightInv
<1> QED  BY <1>1, <1>2, <1>3, <1>4, <1>5 DEF VerifierInv, OneVerificationAtATime

\* Every step keeps the invariant.
LEMMA VerifierInvNext == VerifierInv /\ [VerifierNext]_verifierVars => VerifierInv'
<1> SUFFICES ASSUME VerifierInv, [VerifierNext]_verifierVars PROVE VerifierInv'  OBVIOUS
<1>1. policy \in Policies \cup {NoPolicy} /\ swaps \in 0..MaxSwaps
  BY DEF VerifierInv, VerifierTypeOK
<1>2. CASE \E c \in Callers : VerifyStep(c)
  BY <1>2, CurrentStep, TrustedStep, EnterStep, VerifyActionStep, CloseStep DEF VerifyStep
<1>3. CASE \E c \in Callers : \E claim \in Claims : Load(c, claim)  BY <1>3, LoadStep
<1>4. CASE \E e \in entries : Expire(e)
  <2>1. entries' \subseteq entries /\ UNCHANGED <<policy, adapter, trusted, inflight, call, calls, swaps, troubles>>
    BY <1>4 DEF Expire
  <2> QED  BY <1>1, <2>1, QuietStep
<1>5. CASE \E p \in Policies \cup {NoPolicy} : SwapPolicy(p)
  <2>1. policy' \in Policies \cup {NoPolicy} /\ swaps' \in 0..MaxSwaps
    BY <1>1, <1>5, Constants DEF SwapPolicy
  <2>2. UNCHANGED <<adapter, trusted, entries, inflight, call, calls, troubles>>
    BY <1>5 DEF SwapPolicy
  <2> QED  BY <2>1, <2>2, QuietStep
<1>6. CASE UNCHANGED verifierVars
  <2>1. UNCHANGED <<policy, adapter, trusted, entries, inflight, call, calls, swaps, troubles>>
    BY <1>6 DEF verifierVars
  <2> QED  BY <1>1, <2>1, QuietStep
<1> QED  BY <1>2, <1>3, <1>4, <1>5, <1>6 DEF VerifierNext

\* The adapter, the cache and every caller's state keep their types; no more
\* verifiers are built than claims were asked for (current).
THEOREM VerifierTypeCorrect == VerifierSpec => []VerifierTypeOK
<1>1. VerifierInv => VerifierTypeOK  BY DEF VerifierInv
<1> QED  BY <1>1, VerifierInitInv, VerifierInvNext, PTL DEF VerifierSpec

\* Nobody is told verified for what the configuration of the call does not
\* admit, for any callers, claims, configurations and swaps between them
\* (Adapter.Verify, current, resultCache.do).
THEOREM VerifiedEarned == VerifierSpec => []VerifiedIsEarned
<1>1. VerifierInv => VerifiedIsEarned
  BY DEF VerifierInv, CallerInv, Earned, VerifiedIsEarned
<1> QED  BY <1>1, VerifierInitInv, VerifierInvNext, PTL DEF VerifierSpec

\* No key is verified twice at a time by one verifier, for any number of
\* concurrent callers (resultCache.do).
THEOREM OneAtATime == VerifierSpec => []OneVerificationAtATime
<1>1. VerifierInv => OneVerificationAtATime  BY DEF VerifierInv
<1> QED  BY <1>1, VerifierInitInv, VerifierInvNext, PTL DEF VerifierSpec
=============================================================================
