---------------------------- MODULE ConfigLoader ----------------------------
(***************************************************************************)
(* internal/config: how an AIBOMControllerConfig spec becomes a Snapshot.  *)
(* The loader parses each part of the spec, collects every error, builds   *)
(* the external sinks when the sink list is well shaped, and keeps the     *)
(* result only when nothing failed: an invalid spec gives the compiled     *)
(* defaults, and closes the sinks it had built.                            *)
(*                                                                         *)
(* Only what decides is kept of the data: whether a pattern compiles, the  *)
(* parts of a Group/Kind entry, which bodies of a sink are set, what a     *)
(* Secret key holds.  Errors are tags with an index; their texts are not   *)
(* modelled.  The module has no state of its own.                          *)
(***************************************************************************)
EXTENDS Integers, Sequences, FiniteSets, SequencesExt

CONSTANTS
  KnownWorkloadKinds,  \* the compiled-in set of [group, kind]
  SecretRefs,          \* the SecretKeyRefs a spec may name
  Nil                  \* a nil pointer or an unset field

ASSUME NilIsNoSelector == Nil \notin {"malformed", "empty"}

-----------------------------------------------------------------------------
(* The spec, api/v1beta1/aibomcontrollerconfig_types.go *)

\* What the Secret key behind a reference holds, as the API reader finds it.
SecretState == {"missing", "nokey", "empty", "blank", "garbage", "good"}

OptionalRef == SecretRefs \cup {Nil}

GCSSinkSpec == [bucket : {"", "set"}, credentialsSecretRef : OptionalRef]
MTLSAuth == [cert : SecretRefs, key : SecretRefs, ca : OptionalRef]
WebhookAuth == [bearerToken : OptionalRef, mtls : MTLSAuth \cup {Nil}]
\* The endpoint by what the code asks of it: its scheme, and a host it refuses.
WebhookSinkSpec ==
  [endpoint : {"", "unparsable", "ftp", "http", "https", "loopback"},
   auth : WebhookAuth \cup {Nil}]
SinkConfig ==
  [name : STRING, type : {"GCS", "Webhook", "unknown"},
   gcs : GCSSinkSpec \cup {Nil}, webhook : WebhookSinkSpec \cup {Nil}]

\* mirror, bundle: the URL and the path are set.
VerificationConfig ==
  [enabled : BOOLEAN, mode : STRING, mirror : BOOLEAN, bundle : BOOLEAN,
   identities : Seq(BOOLEAN)]
AIBOMControllerConfigSpec ==
  [selector : {Nil, "malformed", "empty", "optin", "team"}, patterns : Seq(BOOLEAN),
   workloadKinds : Seq(Seq(STRING)), sinks : Seq(SinkConfig),
   verification : VerificationConfig \cup {Nil}, inline : Int, stale : Int]

-----------------------------------------------------------------------------
(* spec.discovery.workloadKinds, internal/config/workloadkinds.go *)

\* WorkloadKindSet: the zero value allows everything.
AllWorkloadKinds == [restricted |-> FALSE, kinds |-> {}]
NewWorkloadKindSet(kinds) == [restricted |-> TRUE, kinds |-> kinds]
Allows(s, gk) == ~s.restricted \/ gk \in s.kinds
EqualKinds(s, o) ==
  /\ s.restricted = o.restricted
  /\ s.restricted => Cardinality(s.kinds) = Cardinality(o.kinds) /\ s.kinds \subseteq o.kinds

\* An entry is the sequence of its parts around "/"; " " stands for a part
\* that contains white space.
FormatWorkloadKind(gk) == <<IF gk.group = "" THEN "core" ELSE gk.group, gk.kind>>
Malformed(entry) ==
  Len(entry) # 2 \/ entry[1] = "" \/ entry[2] = "" \/ \E i \in DOMAIN entry : entry[i] = " "
ParseWorkloadKind(entry) ==
  [group |-> IF entry[1] = "core" THEN "" ELSE entry[1], kind |-> entry[2]]

\* The error of entry i, if any.  An entry that failed is not in "seen".
EntryError(entries, i) ==
  LET gk(j) == ParseWorkloadKind(entries[j])
      good(j) == ~Malformed(entries[j]) /\ gk(j) \in KnownWorkloadKinds
  IN CASE Malformed(entries[i]) -> <<"malformed", i>>
       [] ~Malformed(entries[i]) /\ gk(i) \notin KnownWorkloadKinds -> <<"unknown", i>>
       [] good(i) /\ \E j \in 1..(i - 1) : good(j) /\ gk(j) = gk(i) -> <<"duplicate", i>>
       [] OTHER -> <<>>
parseWorkloadKinds(entries) ==
  LET errs == {EntryError(entries, i) : i \in DOMAIN entries} \ {<<>>}
  IN IF entries = <<>> \/ errs # {}
     THEN [set |-> AllWorkloadKinds, errs |-> errs]
     ELSE [set |-> NewWorkloadKindSet({ParseWorkloadKind(e) : e \in ToSet(entries)}),
           errs |-> {}]

-----------------------------------------------------------------------------
(* The other parts, internal/config/loader.go *)

DefaultInlineThresholdBytes == 262144
MinInlineThresholdBytes == 1024
MaxInlineThresholdBytes == 1048576
DefaultStaleThresholdReconciles == 3

resolveInlineThreshold(v) ==
  CASE v <= 0 -> DefaultInlineThresholdBytes
    [] v > 0 /\ v < MinInlineThresholdBytes -> MinInlineThresholdBytes
    [] v > MaxInlineThresholdBytes -> MaxInlineThresholdBytes
    [] OTHER -> v
\* Mistake: an unset threshold is taken as it is.
staleThresholdAsGiven(v) == v
resolveStaleThreshold(v) == IF v <= 0 THEN DefaultStaleThresholdReconciles ELSE v

\* Selectors are named by what they match: the opt-in label, everything, or a
\* label of the operator's own ("team"); "malformed" does not materialize.
DefaultNamespaceSelector == "optin"
parseNamespaceSelector(sel) ==
  CASE sel = Nil -> [selector |-> DefaultNamespaceSelector, errs |-> {}]
    [] sel = "malformed" -> [selector |-> Nil, errs |-> {<<"namespaceSelector", 0>>}]
    [] sel = "empty" -> [selector |-> "everything", errs |-> {}]
    [] OTHER -> [selector |-> sel, errs |-> {}]

\* A pattern is TRUE when it compiles.  Those that do are kept, by position; no
\* pattern is the compiled-in list.
parsePatterns(specs) ==
  [patterns |-> {i \in DOMAIN specs : specs[i]},
   errs |-> {<<"pattern", i>> : i \in {j \in DOMAIN specs : ~specs[j]}}]

Err(failed, tag) == IF failed THEN {<<tag, 0>>} ELSE {}

\* identities: TRUE when the subject pattern is empty or compiles.
VerificationErrors(in) ==
  Err(in.mode \notin {"", "public", "tufMirror", "staticBundle"}, "trustRootMode")
    \cup Err(in.mode = "tufMirror" /\ ~in.mirror, "tufMirrorURL")
    \cup Err(in.mode = "staticBundle" /\ ~in.bundle, "staticBundlePath")
    \cup {<<"identities", i>> : i \in {j \in DOMAIN in.identities : ~in.identities[j]}}
parseVerification(in) ==
  CASE in = Nil \/ (in # Nil /\ ~in.enabled) -> [config |-> Nil, errs |-> {}]
    [] OTHER -> [config |-> IF VerificationErrors(in) # {} THEN Nil
                            ELSE IF in.mode = "" THEN "public" ELSE in.mode,
                 errs |-> VerificationErrors(in)]

-----------------------------------------------------------------------------
(* The sinks: their shape, internal/config/loader.go, and their construction, *)
(* internal/config/client_factory.go                                           *)

ShapeErrors(sinks, i) ==
  LET s == sinks[i] IN
  Err(\E j \in 1..(i - 1) : sinks[j].name = s.name, "duplicateName")
    \cup Err(s.type = "GCS" /\ s.gcs = Nil, "missingBody")
    \cup Err(s.type = "GCS" /\ s.webhook # Nil, "extraBody")
    \cup Err(s.type = "Webhook" /\ s.webhook = Nil, "missingBody")
    \cup Err(s.type = "Webhook" /\ s.gcs # Nil, "extraBody")
    \cup Err(/\ s.type = "Webhook" /\ s.webhook # Nil
             /\ s.webhook.auth # Nil /\ s.webhook.endpoint = "http", "authOverCleartext")
    \cup Err(s.type = "unknown", "unknownType")
validateSinkShapes(sinks) ==
  UNION {{<<e[1], i>> : e \in ShapeErrors(sinks, i)} : i \in DOMAIN sinks}

\* Whether readSecretKey returns data.  A failed read of the Secret ("error")
\* is a LoadError like a missing one.
readSecretKey(secrets, ref) == secrets[ref] \in {"blank", "garbage", "good"}

\* sink.NewGCSSink and sink.NewWebhookSink, on the data the Secrets gave.
NewGCSSink(secrets, g) ==
  /\ g.bucket # ""
  /\ g.credentialsSecretRef # Nil => secrets[g.credentialsSecretRef] = "good"
NewWebhookSink(secrets, w) ==
  /\ w.endpoint \in {"http", "https"}
  /\ w.auth # Nil =>
       /\ w.auth.bearerToken # Nil => secrets[w.auth.bearerToken] # "blank"
       /\ w.auth.mtls # Nil =>
            /\ secrets[w.auth.mtls.cert] = "good" /\ secrets[w.auth.mtls.key] = "good"
            /\ w.auth.mtls.ca # Nil => secrets[w.auth.mtls.ca] = "good"

RefsOf(auth) ==
  (IF auth = Nil THEN {}
   ELSE {auth.bearerToken} \cup
        (IF auth.mtls = Nil THEN {} ELSE {auth.mtls.cert, auth.mtls.key, auth.mtls.ca})) \ {Nil}
buildGCSSink(secrets, s) ==
  /\ \A ref \in {s.gcs.credentialsSecretRef} \ {Nil} : readSecretKey(secrets, ref)
  /\ NewGCSSink(secrets, s.gcs)
buildWebhookSink(secrets, s) ==
  LET auth == s.webhook.auth IN
  /\ ~(auth # Nil /\ auth.bearerToken # Nil /\ auth.mtls # Nil)
  /\ \A ref \in RefsOf(auth) : readSecretKey(secrets, ref)
  /\ NewWebhookSink(secrets, s.webhook)

\* Every sink is tried: those that can be built are, the others are errors.
BuildSinks(secrets, sinks) ==
  LET Built(s) == CASE s.type = "GCS" -> buildGCSSink(secrets, s)
                    [] s.type = "Webhook" -> buildWebhookSink(secrets, s)
                    [] OTHER -> FALSE
  IN [sinks |-> {s \in ToSet(sinks) : Built(s)},
      errs |-> {<<"sink", i>> : i \in {j \in DOMAIN sinks : ~Built(sinks[j])}}]

-----------------------------------------------------------------------------
(* Load *)

\* batch: the Snapshot's list of sinks, which are objects of the running process
\* and which it names; 0 is the empty list.
DefaultSnapshot ==
  [source |-> "compiled-defaults", gen |-> 0, selector |-> DefaultNamespaceSelector,
   kinds |-> AllWorkloadKinds, patterns |-> {}, verification |-> Nil,
   inline |-> DefaultInlineThresholdBytes, stale |-> DefaultStaleThresholdReconciles,
   batch |-> 0]

\* sinks: those that are open after the call; a rejected spec closes what it built.
parseSpec(spec, gen, secrets) ==
  LET ns == parseNamespaceSelector(spec.selector)
      pat == parsePatterns(spec.patterns)
      wk == parseWorkloadKinds(spec.workloadKinds)
      ver == parseVerification(spec.verification)
      shape == validateSinkShapes(spec.sinks)
      snk == IF shape = {} THEN BuildSinks(secrets, spec.sinks) ELSE [sinks |-> {}, errs |-> {}]
      errs == ns.errs \cup pat.errs \cup wk.errs \cup ver.errs \cup shape \cup snk.errs
  IN IF errs # {}
     THEN [snapshot |-> DefaultSnapshot, errs |-> errs, sinks |-> {}]
     ELSE [snapshot |-> [source |-> "config-cr", gen |-> gen, selector |-> ns.selector,
                         kinds |-> wk.set, patterns |-> pat.patterns,
                         verification |-> ver.config,
                         inline |-> resolveInlineThreshold(spec.inline),
                         stale |-> resolveStaleThreshold(spec.stale), batch |-> 0],
           errs |-> {}, sinks |-> snk.sinks]

-----------------------------------------------------------------------------
(* The served schema, internal/controller/schema_skew.go *)

\* A field is <<name>> or <<parent, name>>; <<parent, "*">> marks a parent
\* whose children the served schema describes.
servedSpecFields(tree) ==
  {<<p>> : p \in DOMAIN tree} \cup
  UNION {{<<p, c>> : c \in tree[p] \cup {"*"}} : p \in {q \in DOMAIN tree : tree[q] # Nil}}
missingFields(expected, served) ==
  {f \in expected : /\ Len(f) = 2 => <<f[1], "*">> \in served
                    /\ f \notin served}
=============================================================================
