------------------------------ MODULE Scrapers ------------------------------
(***************************************************************************)
(* What the scrapers of internal/scraper read from a workload: components  *)
(* with the place each was found at and the confidence it deserves.        *)
(*                                                                         *)
(* A text is an identity, 0 when empty, with the kinds of credential that  *)
(* redact.go would find in it.  A locator is a text whose identity encodes *)
(* template, container and field.  Go ranges over a map in any order: up   *)
(* says in which of two this scrape does, for every map of at most two     *)
(* entries.                                                                *)
(***************************************************************************)
EXTENDS Integers, Sequences, SequencesExt

CONSTANT MaxComponentsPerDocument  \* 256 in the code
ASSUME CapAssumption == MaxComponentsPerDocument \in Nat \ {0}

Plain(n) == [id |-> n, secrets |-> {}]
Empty == Plain(0)
Locator(t, c, field) == Plain(100 * t + 10 * c + field)
WorkloadLevel == 9  \* the template of what is declared outside every template

-----------------------------------------------------------------------------
(* inference_config.go and the pattern tables: an image is a name, a tag,  *)
(* a digest or 0, and the tables a pattern of which it matches             *)

looksSemverTag(tag) == tag.id = 2
Matches(c, table) == table \in c.image.patterns

\* props are the values of the properties, keys the texts that went into a property's
\* key.  No scraper sets a PURL.
Component(type, name, version, source, locator, confidence, hash, runtime, props) ==
  [type |-> type, name |-> name, version |-> version, source |-> source,
   locator |-> locator, confidence |-> confidence, hash |-> hash, runtime |-> runtime,
   props |-> props, keys |-> {}, purl |-> Empty, role |-> 0, signed |-> 0]

Model(value, source, locator, confidence) ==
  Component("model", value, Empty, source, locator, confidence, 0, FALSE, {})
Application(name, version, source, locator, confidence, runtime, props) ==
  Component("application", Plain(name), version, source, locator, confidence, 0, runtime, props)
\* The property image.reference: name and tag.
ImageReference(c) == [c.image.tag EXCEPT !.id = c.image.name]

\* The entries of a map, by their numbers, in the order this scrape meets them.
Ranged(S, up) == SetToSortSeq(S, LAMBDA a, b : IF up THEN a < b ELSE a > b)

-----------------------------------------------------------------------------
(* inference_extract.go *)

\* The digests the pods report for container c, one entry per pod; a container of
\* the same name that runs another image does not count.
Statuses(c, pods) ==
  {<<p, s>> \in (DOMAIN pods) \X UNION {pods[p] : p \in DOMAIN pods} :
     /\ s \in pods[p] /\ s.container = c.name /\ s.init = c.init
     /\ s.image \in {0, c.image.name} /\ s.digest # 0}
Count(c, pods, d) == Cardinality({x \in Statuses(c, pods) : x[2].digest = d})

\* Mistake: the first digest met.
firstDigest(c, pods, up) ==
  LET ds == Ranged({x[2].digest : x \in Statuses(c, pods)}, up)
  IN IF ds = <<>> THEN 0 ELSE ds[1]
\* The digest most pods report, the lowest of those that tie, 0 if there is none.
resolveContainerDigest(c, pods, up) ==
  FoldLeft(LAMBDA best, d :
             IF \/ best = 0
                \/ Count(c, pods, d) > Count(c, pods, best)
                \/ Count(c, pods, d) = Count(c, pods, best) /\ d < best
             THEN d ELSE best,
           0, Ranged({x[2].digest : x \in Statuses(c, pods)}, up))

\* The status of a container is found by name, whatever the template.
StatusLocator(c) == Plain(1000 + 10 * c.name + IF c.init THEN 1 ELSE 0)

extractContainerComponentAt(t, i, c, pods, up) ==
  LET running == IF c.image.digest = 0 THEN resolveContainerDigest(c, pods, up) ELSE 0
      digest == IF c.image.digest # 0 THEN c.image.digest ELSE running
      container ==
        Component("container", Plain(c.image.name), c.image.tag,
                  IF running # 0 THEN "pod_status" ELSE "image_reference",
                  IF running # 0 THEN StatusLocator(c) ELSE Locator(t, i, 1),
                  IF digest # 0 THEN "declared" ELSE "unresolved",
                  digest, FALSE, {ImageReference(c)})
      version == IF looksSemverTag(c.image.tag) THEN c.image.tag ELSE Empty
  IN <<container>> \o
     (IF Matches(c, "runtime")
      THEN <<Application(1, version, "image_pattern", Locator(t, i, 2), "inferred", TRUE,
                         {c.image.tag})>>
      ELSE <<>>)

\* A name of the allowlist with a literal value.
envVarModels(t, i, c) ==
  IF "model" \in c.env /\ c.claim # Empty
  THEN <<Model(c.claim, "env_var", Locator(t, i, 3), "inferred")>> ELSE <<>>
\* --flag value or --flag=value, the value not itself a flag.
argModels(t, i, c) ==
  IF c.arg # Empty THEN <<Model(c.arg, "container_arg", Locator(t, i, 4), "declared")>> ELSE <<>>
\* The locator names the path of the mount.
extractVolumeMountModelsAt(t, i, c) ==
  IF "models" \in c.mounts
  THEN <<Component("data", Plain(5), Empty, "volume_source",
                   [id |-> Locator(t, i, 5).id, secrets |-> c.path.secrets],
                   "inferred", 0, FALSE, {c.path})>>
  ELSE <<>>

\* Every key under the prefix but the two of a signature claim, with a value.
extractAnnotationModels(annotations, source, t, up) ==
  LET claims == {a \in annotations : a.value # Empty}
      At(k) == CHOOSE a \in claims : a.key = k
      keys == Ranged({a.key : a \in claims}, up)
  IN [n \in DOMAIN keys |->
        Model(At(keys[n]).value, source, Locator(t, 9, keys[n]), "declared")]

scrapePodSpecAt(t, template, pods, up) ==
  FlattenSeq([i \in DOMAIN template.containers |->
    LET c == template.containers[i] IN
    extractContainerComponentAt(t, i, c, pods, up) \o
      (IF c.init THEN <<>>
       ELSE envVarModels(t, i, c) \o argModels(t, i, c) \o extractVolumeMountModelsAt(t, i, c))])
  \o extractAnnotationModels(template.annotations, "pod_template_annotation", t, up)

-----------------------------------------------------------------------------
(* What ends the scrape of every serving kind: signatures, order, cap and  *)
(* confidence                                                              *)

\* applySignatures: the first annotations that name a signature; every model of the
\* workload claims it.
applySignatures(cs, refs) ==
  LET named == SelectSeq(refs, LAMBDA r : r # 0)
  IN [n \in DOMAIN cs |->
        IF cs[n].type = "model" /\ named # <<>> THEN [cs[n] EXCEPT !.signed = named[1]] ELSE cs[n]]

TypeOrder == [application |-> 1, container |-> 2, data |-> 3, model |-> 4]
Before(a, b) ==
  \/ TypeOrder[a.type] < TypeOrder[b.type]
  \/ a.type = b.type /\ a.name.id < b.name.id
  \/ a.type = b.type /\ a.name.id = b.name.id /\ a.locator.id < b.locator.id
\* A stable sort: each component goes behind those it is not before.
sortComponents(cs) ==
  FoldLeft(LAMBDA sorted, c :
             LET n == Cardinality({k \in DOMAIN sorted : ~Before(c, sorted[k])})
             IN InsertAt(sorted, n + 1, c),
           <<>>, cs)

\* Containers, data and what is unresolved do not count.
aggregateConfidence(cs) ==
  LET counted == {c.confidence : c \in {d \in ToSet(cs) : d.type \in {"application", "model"}}}
  IN CASE "inferred" \in counted -> "inferred"
       [] "inferred" \notin counted /\ "declared" \in counted -> "declared"
       [] OTHER -> "unresolved"

\* BOMInputs.  found is what the scraper saw before its cap.
Inputs(category, confidence, cs, truncated, found) ==
  [category |-> category, confidence |-> confidence, components |-> cs,
   truncated |-> truncated, found |-> found]

Capped(cs) ==
  IF Len(cs) > MaxComponentsPerDocument THEN SubSeq(cs, 1, MaxComponentsPerDocument) ELSE cs
Over(cs) == IF Len(cs) > MaxComponentsPerDocument THEN Len(cs) - MaxComponentsPerDocument ELSE 0

Serving(category, cs) ==
  LET sorted == sortComponents(cs)
  IN Inputs(category, aggregateConfidence(Capped(sorted)), Capped(sorted), Over(sorted), ToSet(cs))

-----------------------------------------------------------------------------
(* One scraper per kind *)

PerTemplate(w, Of(_)) == FlattenSeq([t \in DOMAIN w.templates |-> Of(t)])
\* What is said of everything a template holds: the role or graph component it is of.
Part(template) == {template.name, template.type} \ {Empty}
\* A template that is not an object, or not a pod template, is skipped.  Its
\* components say which part of the workload they belong to.
TemplateComponents(w, t, up) ==
  LET cs == scrapePodSpecAt(t, w.templates[t], w.pods, up)
  IN IF w.templates[t].ok
     THEN [n \in DOMAIN cs |-> [cs[n] EXCEPT !.role = t, !.props = @ \cup Part(w.templates[t])]]
     ELSE <<>>
TemplateRefs(w) ==
  [t \in DOMAIN w.templates |-> IF w.templates[t].ok THEN w.templates[t].signature ELSE 0]
WorkloadModels(w, up) ==
  extractAnnotationModels(w.annotations, "workload_annotation", WorkloadLevel, up)
\* The runtime a CR declares.  said are facts of the runtime and of every model,
\* runtimeSaid those of the runtime alone.
DeclaredRuntime(w, keys) ==
  IF w.runtime # Empty
  THEN <<[Component("application", w.runtime, w.version, "crd_field", Locator(WorkloadLevel, 0, 1),
                    "declared", 0, TRUE, {w.runtime} \cup w.said \cup w.runtimeSaid)
            EXCEPT !.keys = keys]>>
  ELSE <<>>
DeclaredModel(t, template, props) ==
  IF template.model # Empty
  THEN <<[Model(template.model, "crd_field", Locator(t, 0, 2), "declared")
            EXCEPT !.version = template.revision, !.props = props]>>
  ELSE <<>>

\* The pod templates of a workload and its own annotations, whose signature wins.
ServingTemplates(w, refs, up) ==
  Serving("inference",
    applySignatures(PerTemplate(w, LAMBDA t : TemplateComponents(w, t, up)) \o WorkloadModels(w, up),
                    <<w.signature>> \o refs))
\* Deployment, StatefulSet and DaemonSet have one template.
ScrapePodTemplates(w, up) == ServingTemplates(w, TemplateRefs(w), up)
\* A LeaderWorkerSet has two.
ScrapeLWS(w, up) == ServingTemplates(w, TemplateRefs(w), up)
\* A DisaggregatedSet has those of a LeaderWorkerSet in every role, behind the
\* annotations of the role.
ScrapeDisaggregatedSet(w, up) ==
  ServingTemplates(w,
    PerTemplate(w, LAMBDA t : <<w.templates[t].outer, TemplateRefs(w)[t]>>), up)

\* The service account is said of both, the runtime's reference of the runtime.
extractPredictor(w) ==
  DeclaredRuntime(w, {}) \o PerTemplate(w, LAMBDA t : DeclaredModel(t, w.templates[t], w.said))
ScrapeKServe(w, up) ==
  Serving("none", applySignatures(WorkloadModels(w, up) \o extractPredictor(w), <<w.signature>>))

\* The runtime has a property for each graph component with a name and a type, and
\* the name is part of its key.
GraphComponents(w) == {c \in ToSet(w.templates) : c.name # Empty /\ c.type # Empty}
DynamoRuntime(w) ==
  DeclaredRuntime([w EXCEPT !.runtimeSaid = {c.type : c \in GraphComponents(w)}],
                  {c.name : c \in GraphComponents(w)})
DynamoModel(t, template) ==
  DeclaredModel(t, template, Part(template) \cup ({template.revision} \ {Empty}))
ScrapeDynamo(w, up) ==
  Serving("inference",
    applySignatures(DynamoRuntime(w) \o
                      PerTemplate(w, LAMBDA t : DynamoModel(t, w.templates[t]) \o
                                                TemplateComponents(w, t, up)) \o
                      WorkloadModels(w, up),
                    <<w.signature>>))

\* An image under nvcr.io/nim/ is one model.
nimModelFromImagePath(c) ==
  IF Matches(c, "nim")
  THEN <<Model(Plain(c.image.name), "image_reference", Locator(1, 1, 6), "inferred")>> ELSE <<>>
\* Where the weights are loaded from, said of the runtime and of every model.
nimStorageProps(w, cs) ==
  [n \in DOMAIN cs |->
     IF cs[n].type = "model" THEN [cs[n] EXCEPT !.props = @ \cup w.said] ELSE cs[n]]
\* A NIMService has no pod template: image, env and args are its own, no pod is
\* looked at, and an image path names a model only when nothing else does.
ScrapeNIM(w, up) ==
  LET c == w.templates[1].containers[1]
      runtime == DeclaredRuntime([w EXCEPT !.runtime = Plain(2)], {})
      image == IF c.image.name = 0 THEN <<>>
               ELSE <<Component("container", Plain(c.image.name), c.image.tag, "image_reference",
                                Locator(1, 1, 1),
                                IF c.image.digest # 0 THEN "declared" ELSE "unresolved",
                                c.image.digest, FALSE, {ImageReference(c), c.image.tag})>>
      declared == envVarModels(1, 1, c) \o argModels(1, 1, c) \o WorkloadModels(w, up)
      models == IF declared = <<>> THEN nimModelFromImagePath(c) ELSE declared
  IN Serving("inference",
       applySignatures(nimStorageProps(w, runtime \o image \o models), <<w.signature>>))

Framework(i, c, table, name) ==
  IF Matches(c, table)
  THEN <<Application(name, Empty, "image_pattern", Locator(1, i, 1), "inferred", TRUE, {})>> ELSE <<>>
PerContainer(w, Of(_, _)) ==
  LET cs == w.templates[1].containers
  IN FlattenSeq([i \in DOMAIN cs |-> IF cs[i].init THEN <<>> ELSE Of(i, cs[i])])
\* The scrapers of a framework report inferred facts of regular containers, under a
\* category when a framework was recognized, and nothing resolved otherwise.
Inferred(category, cs, resolved) ==
  Inputs(category, IF resolved THEN "inferred" ELSE "unresolved", cs, 0, ToSet(cs))

ScrapeVectorDB(w) ==
  LET cs == PerContainer(w, LAMBDA i, c : Framework(i, c, "vectordb", 3))
  IN Inferred(IF cs # <<>> THEN "vectordb" ELSE "none", cs, cs # <<>>)

\* The key of a remote API names a model it calls, unresolved when it is a reference.
RemoteAPI(i, c) ==
  (IF "apiKey" \in c.env
   THEN <<Model(Plain(7), "env_var_name_present", Locator(1, i, 7), "inferred")>> ELSE <<>>) \o
  (IF "apiKeyRef" \in c.env
   THEN <<Model(Plain(8), "env_var_name_present", Locator(1, i, 8), "unresolved")>> ELSE <<>>)
AgentFramework(i, c) ==
  Framework(i, c, "agent", 4) \o
  (IF "agent" \in c.env
   THEN <<Application(9, Empty, "env_var_name_present", Locator(1, i, 9), "inferred", TRUE, {})>> ELSE <<>>)
ScrapeAgent(w) ==
  LET cs == PerContainer(w, LAMBDA i, c : AgentFramework(i, c) \o RemoteAPI(i, c))
      framework == PerContainer(w, AgentFramework) # <<>>
  IN Inferred(IF framework THEN "agent" ELSE "none", cs, cs # <<>>)

\* Training and evaluation report their datasets alike.
datasetMountComponents(i, c) ==
  IF "dataset" \in c.mounts
  THEN <<Component("data", Plain(6), Empty, "volume_source", Locator(1, i, 5), "inferred",
                   0, FALSE, {c.path})>>
  ELSE <<>>
TrainingFramework(i, c) ==
  Framework(i, c, "training", 5) \o
  (IF "training" \in c.env
   THEN <<Application(8, Empty, "env_var_name_present", Locator(1, i, 8), "inferred", FALSE, {})>> ELSE <<>>)
ScrapeTraining(w) ==
  LET training == PerContainer(w, TrainingFramework) # <<>>
  IN Inferred(IF training THEN "training" ELSE "none",
              PerContainer(w, LAMBDA i, c : TrainingFramework(i, c) \o datasetMountComponents(i, c)),
              training)
ScrapeEval(w) ==
  LET eval == PerContainer(w, LAMBDA i, c : Framework(i, c, "eval", 6)) # <<>>
  IN Inferred(IF eval THEN "evaluation" ELSE "none",
              PerContainer(w, LAMBDA i, c : Framework(i, c, "eval", 6) \o datasetMountComponents(i, c)),
              eval)
=============================================================================
