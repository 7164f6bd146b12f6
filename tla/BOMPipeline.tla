---------------------------- MODULE BOMPipeline ----------------------------
(***************************************************************************)
(* From a workload to its document: the scrapers of its kind, merged       *)
(* (internal/scraper/multi.go), the CycloneDX document with its            *)
(* redactions (internal/bom) and the summary of the AIBOM                  *)
(* (internal/controller/summary.go).  The pods come from the informer      *)
(* cache in no fixed order, and every reconcile lists them again.          *)
(***************************************************************************)
EXTENDS Scrapers

CONSTANTS
  Workloads,   \* the workloads to scrape
  NoDocument   \* nothing was built: an unresolved workload has no AIBOM

VARIABLES
  wl,        \* the workload as the caches hold it
  document,  \* the document of the last reconcile
  summary    \* and its summary

pipelineVars == <<wl, document, summary>>

-----------------------------------------------------------------------------
(* MultiScraper.Scrape *)

categoryPriority ==
  [none |-> 0, inference |-> 1, notebook |-> 2, pipeline |-> 3, vectordb |-> 4,
   evaluation |-> 5, training |-> 6, agent |-> 7]

SameComponent(a, b) ==
  /\ a.type = b.type /\ a.name = b.name /\ a.version = b.version
  /\ a.source = b.source /\ a.locator = b.locator
deduplicateComponents(cs) ==
  FoldLeft(LAMBDA kept, c : IF \E k \in DOMAIN kept : SameComponent(kept[k], c)
                            THEN kept ELSE Append(kept, c),
           <<>>, cs)

containerComponents(cs) == SelectSeq(cs, LAMBDA c : c.type = "container")

\* Mistake: the first scraper's confidence stands.
WeakerKept(a, b) == a
Weaker(a, b) == IF b = "inferred" THEN "inferred" ELSE a
HigherPriority(a, b) == IF categoryPriority[b] > categoryPriority[a] THEN b ELSE a

Merge(a, b) ==
  Inputs(HigherPriority(a.category, b.category), Weaker(a.confidence, b.confidence),
         a.components \o b.components, a.truncated + b.truncated, a.found \cup b.found)

Resolved(r) == r.confidence # "unresolved"
\* A result without a signal of its own contributes its containers, when it has any.
Carries(r) == ~Resolved(r) /\ containerComponents(r.components) # <<>>

\* Mistake: what the scrapers cut themselves is forgotten.
CutAtMergeOnly(inputs, over) == over
\* The components cut by the scrapers' own caps and by the document's.
CutInAll(inputs, over) == inputs.truncated + over

NothingFound == Inputs("none", "unresolved", <<>>, 0, {})

multiScrape(results) ==
  LET resolved == SelectSeq(results, Resolved)
      carrying == SelectSeq(results, Carries)
      carried == FlattenSeq([n \in DOMAIN carrying |-> containerComponents(carrying[n].components)])
      cut == FoldLeft(LAMBDA n, r : n + r.truncated, 0, carrying)
      all == FoldLeft(Merge, resolved[1], Tail(resolved))
      withCarried == Inputs(all.category, all.confidence, carried \o all.components,
                            all.truncated + cut,
                            all.found \cup UNION {r.found : r \in ToSet(carrying)})
      listed == IF Len(resolved) > 1 \/ carried # <<>>
                THEN deduplicateComponents(withCarried.components) ELSE withCarried.components
  IN IF resolved = <<>> THEN NothingFound
     ELSE [withCarried EXCEPT !.components = Capped(listed),
                              !.truncated = CutInAll(withCarried, Over(listed))]

Scrape(w, up) ==
  CASE w.kind = "apps" -> multiScrape(<<ScrapePodTemplates(w, up), ScrapeVectorDB(w), ScrapeAgent(w)>>)
    [] w.kind = "batch" -> multiScrape(<<ScrapeTraining(w), ScrapeEval(w)>>)
    [] w.kind = "kserve" -> ScrapeKServe(w, up)
    [] w.kind = "dynamo" -> ScrapeDynamo(w, up)
    [] w.kind = "lws" -> ScrapeLWS(w, up)
    [] w.kind = "disaggregatedset" -> ScrapeDisaggregatedSet(w, up)
    [] w.kind = "nim" -> ScrapeNIM(w, up)

-----------------------------------------------------------------------------
(* Builder.Build *)

redactString(s) == [s EXCEPT !.secrets = {}]
\* Mistake: the locator is emitted as it is.
redactLocator(c) == c.locator
RedactedLocator(c) == redactString(c.locator)
\* The component without credentials, and the kinds of credential removed.  The keys
\* of its properties stay as they are.
redactComponent(c) ==
  [c EXCEPT !.name = redactString(c.name), !.version = redactString(c.version),
            !.purl = redactString(c.purl), !.locator = RedactedLocator(c),
            !.props = {redactString(p) : p \in c.props}]
Texts(c) == {c.name, c.version, c.purl, c.locator} \cup c.props
RedactionClasses(c) == UNION {s.secrets : s \in Texts(c)}

\* The reference carries the position and the redacted name.
componentBOMRef(n, redacted) == <<n, redacted.type, redacted.name>>
toCDXComponent(n, c) ==
  [component |-> redactComponent(c), ref |-> componentBOMRef(n, redactComponent(c)),
   redacted |-> RedactionClasses(c)]

Build(inputs) ==
  [category |-> inputs.category, confidence |-> inputs.confidence, truncated |-> inputs.truncated,
   components |-> [n \in DOMAIN inputs.components |-> toCDXComponent(n, inputs.components[n])]]

\* buildSummary: the first runtime, and the models that are resolved.
buildSummary(doc) ==
  LET runtimes == SelectSeq(doc.components, LAMBDA c : c.component.runtime)
      models == SelectSeq(doc.components, LAMBDA c : /\ c.component.type = "model"
                                                     /\ c.component.confidence # "unresolved")
  IN [confidence |-> doc.confidence,
      runtime |-> IF runtimes = <<>> THEN {}
                  ELSE {runtimes[1].component.name, runtimes[1].component.version},
      models |-> [n \in DOMAIN models |-> [identity |-> models[n].component.name,
                                           confidence |-> models[n].component.confidence,
                                           signed |-> models[n].component.signed]]]

-----------------------------------------------------------------------------

NothingBuilt == document = NoDocument /\ summary = NoDocument
PipelineInit == wl \in Workloads /\ NothingBuilt

\* One reconcile of the workload.
BuildDocument(up) ==
  LET inputs == Scrape(wl, up) IN
  /\ IF Resolved(inputs)
     THEN document' = Build(inputs) /\ summary' = buildSummary(Build(inputs))
     ELSE document' = NoDocument /\ summary' = NoDocument
  /\ UNCHANGED wl

\* The next list returns the same pods in another order.
Relist ==
  /\ Len(wl.pods) > 1
  /\ wl' = [wl EXCEPT !.pods = Tail(@) \o <<Head(@)>>]
  /\ UNCHANGED <<document, summary>>

PipelineNext == (\E up \in BOOLEAN : BuildDocument(up)) \/ Relist

-----------------------------------------------------------------------------

PipelineTypeOK ==
  document # NoDocument =>
    /\ document.confidence \in {"declared", "inferred"}
    /\ document.category \in DOMAIN categoryPriority
    /\ document.truncated \in Nat
    /\ Len(document.components) <= MaxComponentsPerDocument

\* The results that contribute to the document of w.
Contributing(w) ==
  LET results == CASE w.kind = "apps" -> {ScrapePodTemplates(w, TRUE), ScrapeVectorDB(w), ScrapeAgent(w)}
                   [] w.kind = "batch" -> {ScrapeTraining(w), ScrapeEval(w)}
                   [] OTHER -> {Scrape(w, TRUE)}
  IN {r \in results : Resolved(r) \/ Carries(r)}
\* The components of w that its document owes: of a result without a signal of its
\* own only the containers and what its cap cut.
Owed(w) ==
  UNION {IF Resolved(r) THEN r.found
         ELSE {c \in r.found : c.type = "container" \/ c \notin ToSet(r.components)} :
           r \in Contributing(w)}

\* Nothing is dropped silently: the components of the document and the number it
\* declares as dropped are together what the contributing scrapers found, copies
\* of one fact counted once.  A scraper may have cut its list before the merge cut
\* it again (MultiScraper.Scrape, MaxComponentsPerDocument).
NothingSilentlyDropped ==
  document # NoDocument =>
    Len(document.components) + document.truncated =
      Cardinality({<<c.type, c.name, c.version, c.source, c.locator, c.role>> : c \in Owed(wl)})

\* A document, and its summary, never claims more confidence than the weakest of its
\* applications and models that are resolved, and is declared only if one of them is,
\* although scrapers of different confidence contribute and containers are carried
\* over from a result without any (MultiScraper.Scrape, aggregateConfidence,
\* buildSummary).  What is unresolved does not count and is not summarized.
ConfidenceNotOverstated ==
  document # NoDocument =>
    LET claims == {c \in {document.components[n].component : n \in DOMAIN document.components} :
                     c.type \in {"application", "model"} /\ c.confidence # "unresolved"}
    IN /\ \A c \in claims : c.confidence = "inferred" => document.confidence = "inferred"
       /\ document.confidence = "declared" => \E c \in claims : c.confidence = "declared"
       /\ summary.confidence = document.confidence
       /\ \A n \in DOMAIN summary.models : summary.models[n].confidence # "unresolved"

\* No credential leaves in the name, version, PURL, locator or property values of a
\* component, in its reference or in the summary; references stay unique, and every
\* component that had a credential says so (toCDXComponent, redactComponent).  The
\* keys of properties are not redacted: see KeysAreRedacted.
RedactionComplete ==
  document # NoDocument =>
    /\ \A n \in DOMAIN document.components :
         LET d == document.components[n]
         IN /\ \A s \in Texts(d.component) \cup {d.ref[3]} : s.secrets = {}
            /\ \A k \in DOMAIN document.components : k # n => document.components[k].ref # d.ref
    /\ \A s \in summary.runtime : s.secrets = {}
    /\ \A n \in DOMAIN summary.models : summary.models[n].identity.secrets = {}
    /\ \A c \in Owed(wl) :
         RedactionClasses(c) # {} /\ document.truncated = 0 =>
           \E n \in DOMAIN document.components :
             /\ document.components[n].component.locator.id = c.locator.id
             /\ document.components[n].redacted = RedactionClasses(c)

\* The document is a function of the workload and of what its pods report, not of
\* the order in which pods are listed or Go ranges over a map: an unchanged
\* workload keeps its input hash and is not emitted again (resolveContainerDigest,
\* sortComponents).
DocumentIsStable == [][document # NoDocument => document' = document]_pipelineVars

-----------------------------------------------------------------------------
(* Statements of comments the code does not keep. *)

\* "Every string that reaches an emitted document passes through redactString"
\* (redact.go): the key of a property that names a graph component does not.
KeysAreRedacted ==
  document # NoDocument =>
    \A n \in DOMAIN document.components :
      \A s \in document.components[n].component.keys : s.secrets = {}

\* "If every attribute is Unresolved, the workload is Unresolved"
\* (aggregateConfidence): an API key that is a reference makes an agent inferred.
OnlyResolvedIsReported ==
  document # NoDocument =>
    \E n \in DOMAIN document.components :
      /\ document.components[n].component.type \in {"application", "model"}
      /\ document.components[n].component.confidence # "unresolved"
=============================================================================
