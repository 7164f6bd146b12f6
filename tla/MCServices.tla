----------------------------- MODULE MCServices -----------------------------
(***************************************************************************)
(* The services a workload's reconcile calls, each alone: the namespace    *)
(* observer, the signature verifier, the delivery to the sinks and the     *)
(* pipeline from workload to document.  They share no state; a behaviour   *)
(* is about the one named by topic, and the others rest.                   *)
(***************************************************************************)
EXTENDS NamespaceObserver, SignatureVerifier, SinkDelivery, BOMPipeline

VARIABLE topic

-----------------------------------------------------------------------------
(* Claims that share a signature and differ in the digest they declare *)

MCClaims == {[ref |-> "r", identity |-> "m", digest |-> d] : d \in {"d1", "d2"}}
MCBundle == [r |-> [chainValid |-> TRUE, signer |-> "s", subject |-> "m", digest |-> "d1"]]
MCPolicies == {[public |-> TRUE, identities |-> {"s"}], [public |-> TRUE, identities |-> {"t"}]}

-----------------------------------------------------------------------------
(* Workloads that show the signals of several scrapers at once *)

Secret(n) == [id |-> n, secrets |-> {"token"}]
Image(name, tag, digest, patterns) ==
  [name |-> name, tag |-> Plain(tag), digest |-> digest, patterns |-> patterns]
Container(name, image, init, env, claim, arg, mounts, path) ==
  [name |-> name, image |-> image, init |-> init, env |-> env, claim |-> claim, arg |-> arg,
   mounts |-> mounts, path |-> path]
Template(containers, annotations, model) ==
  [ok |-> TRUE, containers |-> containers, annotations |-> annotations, signature |-> 0,
   outer |-> 0, model |-> model, revision |-> Empty, name |-> Empty, type |-> Empty]
Workload(kind, templates, runtime, annotations, signature, pods) ==
  [kind |-> kind, templates |-> templates, runtime |-> runtime, version |-> Empty, said |-> {},
   runtimeSaid |-> {}, annotations |-> annotations, signature |-> signature, pods |-> pods]

Variants(n) ==
  {Container(n, Image(1, 1, 0, {}), FALSE, {}, Empty, Empty, {}, Empty),
   Container(n, Image(1, 2, 0, {"runtime"}), FALSE, {}, Empty, Plain(1), {"models"}, Secret(4)),
   Container(n, Image(2, 1, 0, {"vectordb"}), FALSE, {"apiKey"}, Empty, Empty, {}, Empty),
   Container(n, Image(1, 1, 3, {"agent"}), FALSE, {"model", "agent", "apiKeyRef"}, Secret(2),
             Empty, {}, Empty),
   Container(n, Image(1, 1, 0, {}), TRUE, {"model"}, Plain(1), Empty, {}, Empty),
   Container(n, Image(1, 1, 0, {}), FALSE, {"apiKeyRef"}, Empty, Empty, {}, Empty),
   Container(n, [Image(1, 1, 0, {}) EXCEPT !.tag = Secret(1)], FALSE, {"apiKeyRef"}, Empty,
             Secret(1), {}, Empty)}
Lists == {<<a>> : a \in Variants(1)} \cup {<<a, b>> : a \in Variants(1), b \in Variants(2)}

Annotation(key, value) == [key |-> key, value |-> value]
Annotated == {{}, {Annotation(1, Plain(1)), Annotation(2, Plain(1))}}

\* What a pod reports of container 1: one of two digests, or none, of an image.
Pod(digest, image) == {[container |-> 1, init |-> FALSE, image |-> image, digest |-> digest]}
PodLists == {<<>>, <<Pod(0, 1)>>, <<Pod(1, 1), Pod(2, 0)>>,
             <<Pod(2, 1), Pod(1, 1), Pod(2, 1)>>, <<Pod(1, 7), Pod(2, 1)>>}

MCWorkloads ==
  {Workload("apps", <<Template(cs, {}, Empty)>>, Empty, a, 0, p) :
     cs \in Lists, a \in Annotated, p \in PodLists} \cup
  {Workload("batch", <<Template(<<Container(1, Image(1, 1, 0, tables), FALSE, env, Empty, Empty,
                                            mounts, Secret(4))>>, {}, Empty)>>, Empty, {}, 0, <<>>) :
     tables \in SUBSET {"training", "eval"}, env \in SUBSET {"training"},
     mounts \in SUBSET {"dataset"}} \cup
  {Workload("lws", <<Template(<<a>>, {Annotation(3, Plain(3))}, Empty),
                     [Template(<<b>>, {}, Empty) EXCEPT !.ok = ok, !.signature = 1]>>, Empty, {}, 0, p) :
     a \in Variants(1), b \in Variants(1), ok \in BOOLEAN, p \in PodLists} \cup
  {Workload("disaggregatedset",
            <<[Template(<<a>>, {}, Empty) EXCEPT !.ok = ok, !.outer = 1],
              [Template(<<b>>, {}, Empty) EXCEPT !.signature = 2, !.outer = 3]>>, Empty, {}, s, p) :
     a \in Variants(1), b \in Variants(2), ok \in BOOLEAN, s \in {0, 4},
     p \in {<<>>, <<Pod(1, 1), Pod(2, 0)>>}} \cup
  {[Workload("kserve", <<Template(<<>>, {}, m)>>, r, a, 1, <<>>)
      EXCEPT !.version = v, !.said = {Plain(2)}, !.runtimeSaid = {v}] :
     m \in {Empty, Secret(5)}, r \in {Empty, Plain(1)}, v \in {Empty, Secret(3)},
     a \in Annotated} \cup
  {Workload("dynamo", <<[Template(<<c>>, {}, m) EXCEPT !.revision = v, !.name = name,
                                                       !.type = Plain(1)]>>, r, {}, 0, p) :
     c \in Variants(1), m \in {Empty, Plain(5)}, v \in {Empty, Secret(6)},
     name \in {Empty, Secret(2)}, r \in {Empty, Plain(1)}, p \in PodLists} \cup
  {[Workload("nim", <<Template(<<Container(1, Image(name, 1, 0, {"nim"}), FALSE, env, claim, arg,
                                           {}, Empty)>>, {}, Empty)>>, Empty, a, 0, <<>>)
      EXCEPT !.said = {Secret(6)}] :
     name \in {0, 1}, env \in SUBSET {"model"}, claim \in {Empty, Plain(1)},
     arg \in {Empty, Plain(1)}, a \in Annotated}

Resting == Workload("kserve", <<>>, Empty, {}, 0, <<>>)

-----------------------------------------------------------------------------

vars == <<observerVars, verifierVars, deliveryVars, pipelineVars, topic>>

Init ==
  /\ topic \in {"observer", "verifier", "delivery", "pipeline"}
  /\ ObserverInit /\ DeliveryInit
  /\ VerifierInit /\ (topic # "verifier" => policy = NoPolicy)
  /\ wl \in IF topic = "pipeline" THEN Workloads ELSE {Resting}
  /\ NothingBuilt

ObserverAlone ==
  topic = "observer" /\ ObserverNext /\ UNCHANGED <<topic, verifierVars, deliveryVars, pipelineVars>>
VerifierAlone ==
  topic = "verifier" /\ VerifierNext /\ UNCHANGED <<topic, observerVars, deliveryVars, pipelineVars>>
DeliveryAlone ==
  topic = "delivery" /\ DeliveryNext /\ UNCHANGED <<topic, observerVars, verifierVars, pipelineVars>>
PipelineAlone ==
  topic = "pipeline" /\ PipelineNext /\ UNCHANGED <<topic, observerVars, verifierVars, deliveryVars>>
Next == ObserverAlone \/ VerifierAlone \/ DeliveryAlone \/ PipelineAlone

\* A reconcile that entered the verifier runs on, and so does an emission: their waits
\* are bounded by a context (Design 002, sink timeouts), but for the fetch of the
\* trusted root, which takes none and is bounded by the TUF client (trustedMaterial).
Fairness == (\A c \in Callers : WF_verifierVars(VerifyStep(c))) /\ WF_deliveryVars(DeliveryStep)
Spec == Init /\ [][Next]_vars
FairSpec == Spec /\ Fairness

\* Every service keeps its types.
ServicesTypeOK == ObserverTypeOK /\ VerifierTypeOK /\ DeliveryTypeOK /\ PipelineTypeOK
=============================================================================
