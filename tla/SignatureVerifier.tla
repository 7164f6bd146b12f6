------------------------- MODULE SignatureVerifier -------------------------
(***************************************************************************)
(* Verification of signature claims: the adapter that follows the          *)
(* configuration (internal/sigverify/adapter.go), the verifier with its    *)
(* trust root (verifier/rekor.go, fetch.go), the binding rules             *)
(* (outcome.go) and the result cache with its in-flight deduplication      *)
(* (cache.go), called concurrently by the scrapers                         *)
(* (internal/scraper/signature_apply.go).                                  *)
(*                                                                         *)
(* What a reference resolves to is a constant: a bundle and what its chain *)
(* says.  Sigstore is external: it finds a chain valid or not.  The TTL of *)
(* an entry is an action that drops it.                                    *)
(***************************************************************************)
EXTENDS Integers, FiniteSets

CONSTANTS
  Callers,      \* concurrent reconciles
  Claims,       \* claims: [ref, identity, digest]; digest NoDigest when none is declared
  Bundle,       \* Bundle[ref]: [chainValid, signer, subject, digest]
  Policies,     \* configurations: [public, identities]; NoPolicy when disabled
  NoPolicy, NoDigest, NoResult,
  MaxSwaps,     \* bound: changes of spec.verification
  MaxTroubles,  \* bound: failures of the trust root or of a fetch
  MaxCalls      \* bound: claims looked at, by all callers

ASSUME VerifierConstants ==
  /\ IsFiniteSet(Callers) /\ Claims # {}
  /\ \A p \in Policies : p.public \in BOOLEAN
  /\ NoPolicy \notin Policies
  /\ MaxSwaps \in Nat /\ MaxTroubles \in Nat /\ MaxCalls \in Nat

VARIABLES
  policy,    \* spec.verification of the stored snapshot
  adapter,   \* the adapter's verifier: its configuration and its number, 0 for none
  trusted,   \* the verifiers whose trust root is resolved
  entries,   \* cache entries: [verifier, key, result]
  inflight,  \* calls under way: [verifier, key, leader]
  call,      \* call[c]: the call of Adapter.Verify by c
  calls, swaps, troubles

verifierVars == <<policy, adapter, trusted, entries, inflight, call, calls, swaps, troubles>>

Refs == {claim.ref : claim \in Claims}
Outcomes == {"verified", "signature-valid-unconstrained", "failed", "identity-mismatch",
             "subject-name-mismatch", "digest-mismatch", "error"}
\* claimed: verification is disabled and nothing was looked at.
Result == {"claimed"} \cup Outcomes
\* The key of the cache: the reference, and the trust root's epoch once there is one.
Key == [ref : Refs, epoch : BOOLEAN]
Verifier == 0..MaxCalls
verifyCall ==
  [pc : {"idle", "loaded", "built", "keyed", "leading", "published", "waiting", "answered"},
   claim : Claims, policy : Policies \cup {NoPolicy}, verifier : Verifier,
   key : Key, leader : Callers \cup {NoResult}, result : Result \cup {NoResult}]

VerifierTypeOK ==
  /\ policy \in Policies \cup {NoPolicy}
  /\ adapter \in [policy : Policies \cup {NoPolicy}, verifier : Verifier]
  /\ trusted \subseteq Verifier
  /\ entries \subseteq [verifier : Verifier, key : Key, result : Outcomes]
  /\ inflight \subseteq [verifier : Verifier, key : Key, leader : Callers]
  /\ call \in [Callers -> verifyCall]
  /\ calls \in 0..MaxCalls /\ swaps \in 0..MaxSwaps /\ troubles \in 0..MaxTroubles

VerifierInit ==
  /\ policy \in Policies \cup {NoPolicy}
  /\ adapter = [policy |-> NoPolicy, verifier |-> 0]
  /\ trusted = {} /\ entries = {} /\ inflight = {}
  /\ call \in [Callers -> [pc : {"idle"}, claim : {CHOOSE c \in Claims : TRUE},
                           policy : {NoPolicy}, verifier : {0},
                           key : {[ref |-> CHOOSE r \in Refs : TRUE, epoch |-> FALSE]},
                           leader : {NoResult}, result : {NoResult}]]
  /\ calls = 0 /\ swaps = 0 /\ troubles = 0

Trouble == troubles < MaxTroubles /\ troubles' = troubles + 1

-----------------------------------------------------------------------------
(* Binding rules *)

\* A trust root that is not public constrains the signer by itself.
constrained(cfg) == ~cfg.public \/ cfg.identities # {}
identityMatches(cfg, signer) == cfg.identities = {} \/ signer \in cfg.identities

\* decideOutcome, on the findings of a fetch that worked.
decideOutcome(cfg, claim, f) ==
  CASE ~f.chainValid -> "failed"
    [] f.chainValid /\ ~identityMatches(cfg, f.signer) -> "identity-mismatch"
    [] f.chainValid /\ identityMatches(cfg, f.signer) /\ ~constrained(cfg) ->
         "signature-valid-unconstrained"
    [] OTHER ->
         CASE claim.digest # NoDigest /\ claim.digest # f.digest -> "digest-mismatch"
           [] claim.digest = NoDigest /\ claim.identity # f.subject -> "subject-name-mismatch"
           [] OTHER -> "verified"

\* gatherFindings: a fetch that fails or times out is no evidence about the claim.
findings(claim) == Bundle[claim.ref]

-----------------------------------------------------------------------------
(* Adapter.Verify *)

\* applySignatures asks for a claim; the adapter loads the snapshot.
Load(c, claim) ==
  /\ call[c].pc \in {"idle", "answered"} /\ calls < MaxCalls
  /\ calls' = calls + 1
  /\ call' = [call EXCEPT ![c] =
       [@ EXCEPT !.pc = IF policy = NoPolicy THEN "answered" ELSE "loaded",
                 !.claim = claim, !.policy = policy,
                 !.result = IF policy = NoPolicy THEN "claimed" ELSE NoResult]]
  /\ UNCHANGED <<policy, adapter, trusted, entries, inflight, swaps, troubles>>

\* Mistake: the verifier built first is kept.
rebuiltOnce(cfg) == IF adapter.verifier # 0 THEN adapter ELSE [policy |-> cfg, verifier |-> 1]
\* current: another configuration gets a new verifier with a new cache.
rebuilt(cfg) ==
  IF adapter.verifier # 0 /\ adapter.policy = cfg THEN adapter
  ELSE [policy |-> cfg, verifier |-> adapter.verifier + 1]
current(c) ==
  /\ call[c].pc = "loaded"
  /\ adapter' = rebuilt(call[c].policy)
  /\ call' = [call EXCEPT ![c].pc = "built", ![c].verifier = adapter'.verifier]
  /\ UNCHANGED <<policy, trusted, entries, inflight, calls, swaps, troubles>>

\* trustedMaterial: resolved once, and kept; until then a call may fail to.
trustedMaterial(c) ==
  /\ call[c].pc = "built"
  /\ LET v == call[c].verifier
         Keyed(resolved) == call' = [call EXCEPT ![c].pc = "keyed",
                              ![c].key = [ref |-> call[c].claim.ref, epoch |-> resolved]]
     IN \/ trusted' = trusted \cup {v} /\ Keyed(TRUE) /\ UNCHANGED troubles
        \/ v \notin trusted /\ Trouble /\ Keyed(FALSE) /\ UNCHANGED trusted
  /\ UNCHANGED <<policy, adapter, entries, inflight, calls, swaps>>

-----------------------------------------------------------------------------
(* resultCache.do *)

Hit(c) == {e \in entries : e.verifier = call[c].verifier /\ e.key = call[c].key}
\* Mistake: nobody waits for a call under way.
LeadingIgnored(c) == {}
Leading(c) == {i \in inflight : i.verifier = call[c].verifier /\ i.key = call[c].key}

\* Under the lock: a cached result, a call to wait for, or the lead.
Enter(c) ==
  /\ call[c].pc = "keyed"
  /\ IF Hit(c) # {}
     THEN /\ call' = [call EXCEPT ![c].pc = "answered",
                                  ![c].result = (CHOOSE e \in Hit(c) : TRUE).result]
          /\ UNCHANGED inflight
     ELSE IF Leading(c) # {}
     THEN /\ call' = [call EXCEPT ![c].pc = "waiting",
                                  ![c].leader = (CHOOSE i \in Leading(c) : TRUE).leader]
          /\ UNCHANGED inflight
     ELSE /\ call' = [call EXCEPT ![c].pc = "leading"]
          /\ inflight' = inflight \cup
               {[verifier |-> call[c].verifier, key |-> call[c].key, leader |-> c]}
  /\ UNCHANGED <<policy, adapter, trusted, entries, calls, swaps, troubles>>

\* fn ran: the entry replaces the call under way.
Publish(c, result) ==
  /\ entries' = (entries \ Hit(c)) \cup
       {[verifier |-> call[c].verifier, key |-> call[c].key, result |-> result]}
  /\ inflight' = {i \in inflight : i.leader # c}
  /\ call' = [call EXCEPT ![c].pc = "published", ![c].result = result]
  /\ UNCHANGED <<policy, adapter, trusted, calls, swaps>>

Verify(c) ==
  /\ call[c].pc = "leading"
  /\ \/ /\ call[c].key.epoch
        /\ Publish(c, decideOutcome(call[c].policy, call[c].claim, findings(call[c].claim)))
        /\ UNCHANGED troubles
     \/ call[c].key.epoch /\ Trouble /\ Publish(c, "error")
     \/ ~call[c].key.epoch /\ Publish(c, "error") /\ UNCHANGED troubles

\* Those that wait for c's call.
Waiters(c) == {w \in Callers : call[w].pc = "waiting" /\ call[w].leader = c}
\* Mistake: the leader returns without closing done.
Unclosed(c) == {}
Closed(c) == Waiters(c)
\* close(call.done): the leader returns, and so does everyone who waited.
Close(c) ==
  /\ call[c].pc = "published"
  /\ call' = [w \in Callers |->
       IF w \in {c} \cup Closed(c)
       THEN [call[w] EXCEPT !.pc = "answered", !.leader = NoResult, !.result = call[c].result]
       ELSE call[w]]
  /\ UNCHANGED <<policy, adapter, trusted, entries, inflight, calls, swaps, troubles>>

-----------------------------------------------------------------------------

\* The TTL of an entry is over.
Expire(e) ==
  /\ e \in entries
  /\ entries' = entries \ {e}
  /\ UNCHANGED <<policy, adapter, trusted, inflight, call, calls, swaps, troubles>>

SwapPolicy(p) ==
  /\ p # policy /\ swaps < MaxSwaps
  /\ policy' = p /\ swaps' = swaps + 1
  /\ UNCHANGED <<adapter, trusted, entries, inflight, call, troubles, calls>>

VerifyStep(c) ==
  current(c) \/ trustedMaterial(c) \/ Enter(c) \/ Verify(c) \/ Close(c)
VerifierNext ==
  \/ \E c \in Callers : VerifyStep(c) \/ \E claim \in Claims : Load(c, claim)
  \/ \E e \in entries : Expire(e)
  \/ \E p \in Policies \cup {NoPolicy} : SwapPolicy(p)
VerifierSpec == VerifierInit /\ [][VerifierNext]_verifierVars

-----------------------------------------------------------------------------

\* "A trust-policy change must not reuse results computed under the previous
\* policy": who is told verified gets it for a valid chain whose signer the
\* configuration this call loaded constrains and admits, whatever was swapped,
\* rebuilt, cached or waited for meanwhile (current, do).
VerifiedIsEarned ==
  \A c \in Callers :
    call[c].pc = "answered" /\ call[c].result = "verified" =>
      /\ Bundle[call[c].claim.ref].chainValid
      /\ constrained(call[c].policy)
      /\ identityMatches(call[c].policy, Bundle[call[c].claim.ref].signer)

\* "exactly once per key across concurrent callers": no two verifications of one
\* key by one verifier are under way (do).
OneVerificationAtATime ==
  \A i, j \in inflight : i.verifier = j.verifier /\ i.key = j.key => i = j

\* Every claim is answered: no caller waits for ever on another's verification.
EveryClaimIsAnswered ==
  \A c \in Callers : call[c].pc # "idle" ~> call[c].pc = "answered"

\* Verified is told of the claim that was made: "no declared binding
\* contradicted" (verifier/verifier.go), so a declared digest equals the signed
\* one, and without a digest the names agree.
VerifiedMeansBound ==
  \A c \in Callers :
    call[c].pc = "answered" /\ call[c].result = "verified" =>
      decideOutcome(call[c].policy, call[c].claim, findings(call[c].claim)) = "verified"
=============================================================================
