------------------------ MODULE ConfigurationProofs ------------------------
(***************************************************************************)
(* Proofs about Configuration: that a resting reconciler has told the      *)
(* truth (QuietMeansCurrent), that the open sinks are those of the         *)
(* snapshot in effect and outlive the deliveries through them, that only a *)
(* deletion of the CR brings the defaults back, and that all this          *)
(* implements ConfigStore.                                                 *)
(***************************************************************************)
EXTENDS Configuration, TLAPS

-----------------------------------------------------------------------------
(* The inductive invariant *)

\* The versions of the CR from the one in the cache, c, through the ones the watch
\* has still to deliver, f.
Version(c, f, i) == IF i = 0 THEN c ELSE f[i]

\* The singleton's predicates let the change of a to b through.
Reloads(a, b) ==
  \/ a.exists # b.exists
  \/ a.exists /\ b.exists /\ configChangeReloads(a, b)

\* They differ in their status at most.
SameConfig(a, b) ==
  /\ a.exists = b.exists
  /\ a.exists => a.gen = b.gen /\ a.spec = b.spec

\* A version after the i-th will queue a reconcile when it is delivered.
ReloadAhead(c, f, i) ==
  \E j \in (i + 1)..Len(f) : Reloads(Version(c, f, j - 1), Version(c, f, j))

\* The versions lead to the one in the server, o, and the predicates miss no
\* change of the configuration on the way.
LeadsTo(c, f, o) ==
  /\ Version(c, f, Len(f)) = o
  /\ \A j \in 1..Len(f) :
       \/ Reloads(Version(c, f, j - 1), Version(c, f, j))
       \/ SameConfig(Version(c, f, j - 1), Version(c, f, j))
  /\ \A i \in 0..Len(f) : ReloadAhead(c, f, i) \/ SameConfig(Version(c, f, i), o)
FeedInv == LeadsTo(cached, feed, cr)

\* The store holds what the last load made of the configuration in the cache.
InEffect ==
  IF cached.exists
  THEN /\ rec.state \in {"valid", "invalid"}
       /\ (rec.state = "valid") = (store.source = "config-cr")
       /\ rec.state = "valid" =>
            /\ store.gen = cached.gen
            /\ store.kinds = parseWorkloadKinds(cached.spec.workloadKinds).set
  ELSE store = DefaultSnapshot
LoadInv == ~pending => InEffect

\* The conditions that are true now of the configuration in the cache.
TrueStatus(status) ==
  /\ status.gen = cached.gen
  /\ status.ready = (rec.state = "valid")
  /\ status.degraded = DegradedReason
  /\ rec.listFailed \/ status.optedIn = optedInNamespaces(store)

\* What is about to be written is true, unless it will conflict or is to be
\* computed again.
ReadInv ==
  rec.pc = "read" /\ ~rec.conflict =>
    /\ feed = <<>> /\ cached.exists
    /\ ~pending /\ ~healthEvents => TrueStatus(rec.status)

\* Between reconciles the CR in the server says what is true.
RestInv ==
  rec.pc = "idle" /\ ~pending /\ ~healthEvents /\ ~ReloadAhead(cached, feed, 0)
    /\ cr.exists
    => TrueStatus(cr.status)

\* One timer for each list of sinks that was replaced, and none for another.
SinkInv ==
  /\ SinksFollowSnapshot
  /\ \A d \in drains : d.batch \in open
  /\ \A d, e \in drains : d.batch = e.batch => d = e

\* The timer of a list that a delivery uses has more time left than the delivery.
EmitInv ==
  /\ emit.pc # "idle" => emit.batch # 0
  /\ emit.left <= Ticks(DefaultExternalSinkTimeout)
  /\ emit.pc = "emitting" /\ ~emit.late =>
       \/ emit.batch = store.batch
       \/ \E d \in drains : d.batch = emit.batch /\ d.left > emit.left

ConfigInv ==
  ConfigTypeOK /\ FeedInv /\ LoadInv /\ ReadInv /\ RestInv /\ SinkInv /\ EmitInv

-----------------------------------------------------------------------------
(* What a load returns *)

\* The assumptions on the constants, and the two delays in ticks.
LEMMA ConfigConstants ==
  /\ Specs \subseteq AIBOMControllerConfigSpec
  /\ TickSeconds \in Nat /\ TickSeconds # 0 /\ MaxDisturbances \in Nat
  /\ MaxBatches \in Nat /\ MaxBatches # 0
  /\ Ticks(SinkCloseDelay) \in Nat /\ Ticks(DefaultExternalSinkTimeout) \in Nat
  /\ Ticks(SinkCloseDelay) > Ticks(DefaultExternalSinkTimeout)
<1>1. /\ Specs \subseteq AIBOMControllerConfigSpec
      /\ TickSeconds \in Nat /\ TickSeconds # 0 /\ MaxDisturbances \in Nat
      /\ MaxBatches \in Nat /\ MaxBatches # 0
  BY ConfigurationBounds
<1>2. Ticks(SinkCloseDelay) > Ticks(DefaultExternalSinkTimeout)
  BY ClockResolution DEF SinkCloseDelay, DefaultExternalSinkTimeout
<1>3. \A n \in Nat : Ticks(n) \in Nat
  BY <1>1, SMT DEF Ticks
<1>4. Ticks(SinkCloseDelay) \in Nat /\ Ticks(DefaultExternalSinkTimeout) \in Nat
  BY <1>3, SMT DEF SinkCloseDelay, DefaultExternalSinkTimeout
<1>5. QED
  BY <1>1, <1>2, <1>4

\* A number between two others is in their interval.
LEMMA Between ==
  ASSUME NEW a \in Int, NEW b \in Int, NEW c \in Int, a <= b, b <= c
  PROVE  b \in a..c
OBVIOUS

\* The bounds of the inline threshold, and the default between them.
LEMMA InlineBounds ==
  /\ MinInlineThresholdBytes \in Int /\ MaxInlineThresholdBytes \in Int
  /\ DefaultInlineThresholdBytes \in MinInlineThresholdBytes..MaxInlineThresholdBytes
<1>1. /\ MinInlineThresholdBytes \in Int /\ MaxInlineThresholdBytes \in Int
      /\ DefaultInlineThresholdBytes \in Int
      /\ MinInlineThresholdBytes <= DefaultInlineThresholdBytes
      /\ DefaultInlineThresholdBytes <= MaxInlineThresholdBytes
  BY SMT DEF DefaultInlineThresholdBytes, MinInlineThresholdBytes, MaxInlineThresholdBytes
<1>2. QED
  BY <1>1, Between

\* The defaults are a snapshot without sinks.
LEMMA DefaultIsSnapshot ==
  /\ DefaultSnapshot \in Snapshots
  /\ DefaultSnapshot.source = "compiled-defaults" /\ DefaultSnapshot.batch = 0
  /\ WithSinks(DefaultSnapshot, 0) = DefaultSnapshot
<1>1. DefaultSnapshot.source = "compiled-defaults" /\ DefaultSnapshot.batch = 0
  BY DEF DefaultSnapshot
<1>2. WithSinks(DefaultSnapshot, 0) = DefaultSnapshot
  BY DEF DefaultSnapshot, WithSinks
<1>3. /\ DefaultInlineThresholdBytes \in MinInlineThresholdBytes..MaxInlineThresholdBytes
      /\ DefaultStaleThresholdReconciles \in Nat \ {0}
  BY InlineBounds, SMT DEF DefaultStaleThresholdReconciles
<1>4. AllWorkloadKinds \in [restricted : BOOLEAN, kinds : SUBSET KnownWorkloadKinds]
  BY DEF AllWorkloadKinds
<1>5. DefaultNamespaceSelector \in {"optin", "team", "everything"}
  BY DEF DefaultNamespaceSelector
<1>6. {} \in SUBSET Nat
  OBVIOUS
<1>9. MaxBatches \in Nat
  BY ConfigConstants
<1>10. 0 \in 0..MaxBatches /\ 0 \in Nat
  BY <1>9
<1>7. DefaultSnapshot \in Snapshots
  BY <1>3, <1>4, <1>5, <1>6, <1>10 DEF DefaultSnapshot, Snapshots
<1>8. QED
  BY <1>1, <1>2, <1>7

\* parseWorkloadKinds returns a set of known kinds: an entry that is malformed or
\* unknown is an error, and then the set is the one that allows everything.
LEMMA ParsedKinds ==
  ASSUME NEW entries \in Seq(Seq(STRING))
  PROVE  parseWorkloadKinds(entries).set
           \in [restricted : BOOLEAN, kinds : SUBSET KnownWorkloadKinds]
<1> DEFINE errs == {EntryError(entries, i) : i \in DOMAIN entries} \ {<<>>}
           kinds == {ParseWorkloadKind(e) : e \in ToSet(entries)}
           pick == IF entries = <<>> \/ errs # {} THEN AllWorkloadKinds
                   ELSE NewWorkloadKindSet(kinds)
<1>1. parseWorkloadKinds(entries).set = pick
  BY DEF parseWorkloadKinds
<1>2. AllWorkloadKinds \in [restricted : BOOLEAN, kinds : SUBSET KnownWorkloadKinds]
  BY DEF AllWorkloadKinds
<1>3. ASSUME errs = {}, NEW e \in ToSet(entries)
      PROVE  ParseWorkloadKind(e) \in KnownWorkloadKinds
  <2>1. PICK i \in DOMAIN entries : e = entries[i]
    BY <1>3 DEF ToSet
  <2>2. EntryError(entries, i) = <<>>
    BY <1>3
  <2>3. <<"malformed", i>> # <<>> /\ <<"unknown", i>> # <<>>
    OBVIOUS
  <2>4. ~Malformed(entries[i])
    BY <2>2, <2>3 DEF EntryError
  <2>5. ParseWorkloadKind(entries[i]) \in KnownWorkloadKinds
    BY <2>2, <2>3, <2>4 DEF EntryError
  <2>6. QED
    BY <2>1, <2>5
<1>4. errs = {} => NewWorkloadKindSet(kinds) \in [restricted : BOOLEAN, kinds : SUBSET KnownWorkloadKinds]
  BY <1>3 DEF NewWorkloadKindSet
<1>5. pick \in [restricted : BOOLEAN, kinds : SUBSET KnownWorkloadKinds]
  BY <1>2, <1>4
<1>6. QED
  BY <1>1, <1>5

\* The other parts of a snapshot: the two thresholds are brought into their
\* ranges, an unset selector is the default, a verification that is off is Nil.
LEMMA ParsedThresholds ==
  ASSUME NEW v \in Int
  PROVE  /\ resolveInlineThreshold(v) \in MinInlineThresholdBytes..MaxInlineThresholdBytes
         /\ resolveStaleThreshold(v) \in Nat \ {0}
<1>1. resolveInlineThreshold(v) \in MinInlineThresholdBytes..MaxInlineThresholdBytes
  <2>1. /\ resolveInlineThreshold(v) \in Int
        /\ MinInlineThresholdBytes <= resolveInlineThreshold(v)
        /\ resolveInlineThreshold(v) <= MaxInlineThresholdBytes
    BY SMT DEF resolveInlineThreshold, DefaultInlineThresholdBytes, MinInlineThresholdBytes,
               MaxInlineThresholdBytes
  <2>2. QED
    BY <2>1, InlineBounds, Between
<1>2. resolveStaleThreshold(v) \in Nat \ {0}
  BY SMT DEF resolveStaleThreshold, DefaultStaleThresholdReconciles
<1>3. QED
  BY <1>1, <1>2

LEMMA ParsedSelector ==
  ASSUME NEW sel \in {Nil, "malformed", "empty", "optin", "team"},
         parseNamespaceSelector(sel).errs = {}
  PROVE  parseNamespaceSelector(sel).selector \in {"optin", "team", "everything"}
<1>1. CASE sel = Nil
  <2>1. parseNamespaceSelector(sel) = [selector |-> DefaultNamespaceSelector, errs |-> {}]
    <3>1. Nil # "malformed" /\ Nil # "empty"
      BY NilIsNoSelector
    <3>2. QED
      BY <1>1, <3>1 DEF parseNamespaceSelector
  <2>2. QED
    BY <2>1 DEF DefaultNamespaceSelector
<1>2. CASE sel # Nil /\ sel = "malformed"
  BY <1>2 DEF parseNamespaceSelector
<1>3. CASE sel # Nil /\ sel = "empty"
  BY <1>3 DEF parseNamespaceSelector
<1>4. CASE sel # Nil /\ sel \in {"optin", "team"}
  BY <1>4 DEF parseNamespaceSelector
<1>5. QED
  BY <1>1, <1>2, <1>3, <1>4

LEMMA ParsedVerification ==
  ASSUME NEW in
  PROVE  parseVerification(in).config \in {Nil, "public", "tufMirror", "staticBundle"}
<1>1. CASE in = Nil \/ (in # Nil /\ ~in.enabled)
  BY <1>1 DEF parseVerification
<1>2. CASE ~(in = Nil \/ (in # Nil /\ ~in.enabled))
  <2>1. parseVerification(in).config
          = IF VerificationErrors(in) # {} THEN Nil
            ELSE IF in.mode = "" THEN "public" ELSE in.mode
    BY <1>2 DEF parseVerification
  <2>2. VerificationErrors(in) = {} => in.mode \in {"", "public", "tufMirror", "staticBundle"}
    BY DEF VerificationErrors, Err
  <2>3. QED
    BY <2>1, <2>2
<1>3. QED
  BY <1>1, <1>2

\* parseSpec: a spec with an error gives the defaults and leaves no sink open, a
\* spec without one gives a snapshot of its own.
LEMMA ParsedSpec ==
  ASSUME NEW spec \in AIBOMControllerConfigSpec, NEW gen \in Nat, NEW read
  PROVE  /\ parseSpec(spec, gen, read).errs # {} =>
              /\ parseSpec(spec, gen, read).snapshot = DefaultSnapshot
              /\ parseSpec(spec, gen, read).sinks = {}
         /\ parseSpec(spec, gen, read).errs = {} =>
              /\ parseSpec(spec, gen, read).snapshot \in Snapshots
              /\ parseSpec(spec, gen, read).snapshot.source = "config-cr"
              /\ parseSpec(spec, gen, read).snapshot.gen = gen
              /\ parseSpec(spec, gen, read).snapshot.kinds
                   = parseWorkloadKinds(spec.workloadKinds).set
<1> DEFINE ns == parseNamespaceSelector(spec.selector)
           pat == parsePatterns(spec.patterns)
           wk == parseWorkloadKinds(spec.workloadKinds)
           ver == parseVerification(spec.verification)
           shape == validateSinkShapes(spec.sinks)
           snk == IF shape = {} THEN BuildSinks(read, spec.sinks) ELSE [sinks |-> {}, errs |-> {}]
           errs == ns.errs \cup pat.errs \cup wk.errs \cup ver.errs \cup shape \cup snk.errs
           good == [source |-> "config-cr", gen |-> gen, selector |-> ns.selector,
                    kinds |-> wk.set, patterns |-> pat.patterns, verification |-> ver.config,
                    inline |-> resolveInlineThreshold(spec.inline),
                    stale |-> resolveStaleThreshold(spec.stale), batch |-> 0]
<1>1. parseSpec(spec, gen, read)
        = IF errs # {} THEN [snapshot |-> DefaultSnapshot, errs |-> errs, sinks |-> {}]
          ELSE [snapshot |-> good, errs |-> {}, sinks |-> snk.sinks]
  BY DEF parseSpec
<1>2. /\ spec.selector \in {Nil, "malformed", "empty", "optin", "team"}
      /\ spec.patterns \in Seq(BOOLEAN) /\ spec.workloadKinds \in Seq(Seq(STRING))
      /\ spec.inline \in Int /\ spec.stale \in Int
  BY DEF AIBOMControllerConfigSpec
<1>3. errs = {} => ns.errs = {}
  OBVIOUS
<1>4. errs = {} => ns.selector \in {"optin", "team", "everything"}
  BY <1>2, <1>3, ParsedSelector
<1>5. wk.set \in [restricted : BOOLEAN, kinds : SUBSET KnownWorkloadKinds]
  BY <1>2, ParsedKinds
<1>6. pat.patterns \in SUBSET Nat
  <2>1. DOMAIN spec.patterns \subseteq Nat
    BY <1>2
  <2>2. QED
    BY <2>1 DEF parsePatterns
<1>7. ver.config \in {Nil, "public", "tufMirror", "staticBundle"}
  BY ParsedVerification
<1>8. /\ resolveInlineThreshold(spec.inline) \in MinInlineThresholdBytes..MaxInlineThresholdBytes
      /\ resolveStaleThreshold(spec.stale) \in Nat \ {0}
  BY <1>2, ParsedThresholds
<1>9. MaxBatches \in Nat
  BY ConfigConstants
<1>10. 0 \in 0..MaxBatches
  BY <1>9
<1> HIDE DEF ns, pat, wk, ver, snk, errs
<1>11. errs = {} => good \in Snapshots
  BY <1>4, <1>5, <1>6, <1>7, <1>8, <1>10 DEF Snapshots
<1>12. good.source = "config-cr" /\ good.gen = gen /\ good.kinds = wk.set
  OBVIOUS
<1> HIDE DEF good
<1>13. CASE errs # {}
  BY <1>1, <1>13
<1>14. CASE errs = {}
  BY <1>1, <1>11, <1>12, <1>14 DEF wk
<1>15. QED
  BY <1>13, <1>14

\* The list of sinks of a snapshot is the only thing WithSinks sets, its source
\* the only thing MarkAsLastKnownGood sets.
LEMMA SnapshotEdits ==
  ASSUME NEW snapshot \in Snapshots, NEW batch \in 0..MaxBatches
  PROVE  /\ WithSinks(snapshot, batch) \in Snapshots
         /\ WithSinks(snapshot, batch).source = snapshot.source
         /\ WithSinks(snapshot, batch).gen = snapshot.gen
         /\ WithSinks(snapshot, batch).kinds = snapshot.kinds
         /\ WithSinks(snapshot, batch).batch = batch
         /\ MarkAsLastKnownGood(snapshot) \in Snapshots
         /\ MarkAsLastKnownGood(snapshot).source = "last-known-good"
         /\ MarkAsLastKnownGood(snapshot).batch = snapshot.batch
         /\ snapshot.source = "last-known-good" => MarkAsLastKnownGood(snapshot) = snapshot
         /\ snapshot.batch \in 0..MaxBatches
         /\ snapshot.source \in {"config-cr", "compiled-defaults", "last-known-good"}
<1>1. /\ WithSinks(snapshot, batch).source = snapshot.source
      /\ WithSinks(snapshot, batch).gen = snapshot.gen
      /\ WithSinks(snapshot, batch).kinds = snapshot.kinds
      /\ WithSinks(snapshot, batch).batch = batch
  BY DEF WithSinks, Snapshots
<1>2. WithSinks(snapshot, batch) \in Snapshots
  BY DEF WithSinks, Snapshots
<1>3. /\ MarkAsLastKnownGood(snapshot).source = "last-known-good"
      /\ MarkAsLastKnownGood(snapshot).batch = snapshot.batch
  BY DEF MarkAsLastKnownGood, Snapshots
<1>4. MarkAsLastKnownGood(snapshot) \in Snapshots
  BY DEF MarkAsLastKnownGood, Snapshots
<1>5. snapshot.source = "last-known-good" => MarkAsLastKnownGood(snapshot) = snapshot
  BY DEF MarkAsLastKnownGood, Snapshots
<1>6. /\ snapshot.batch \in 0..MaxBatches
      /\ snapshot.source \in {"config-cr", "compiled-defaults", "last-known-good"}
  BY DEF Snapshots
<1>7. QED
  BY <1>1, <1>2, <1>3, <1>4, <1>5, <1>6

\* A version of the CR has the fields of one; one that exists has a spec.
LEMMA ObjectFields ==
  ASSUME NEW o \in Objects
  PROVE  /\ o.exists \in BOOLEAN /\ o.gen \in Nat /\ o.touch \in Nat /\ o.status \in Status
         /\ o.exists => o.spec \in Specs
         /\ o.exists => o \in [exists : {TRUE}, gen : Nat, touch : Nat, spec : Specs,
                               status : Status]
         /\ ~o.exists => o = Absent
<1>1. NoStatus \in Status
  BY DEF NoStatus, Status
<1>2. CASE o = Absent
  BY <1>1, <1>2 DEF Absent
<1>3. CASE o \in [exists : {TRUE}, gen : Nat, touch : Nat, spec : Specs, status : Status]
  BY <1>3
<1>4. QED
  BY <1>2, <1>3 DEF Objects

-----------------------------------------------------------------------------
(* Reconcile, up to the swap *)

\* What SnapshotToStore keeps of the store when the spec is invalid.
Keeps ==
  \/ store.source = "config-cr" /\ store' = MarkAsLastKnownGood(store)
  \/ store.source = "last-known-good" /\ store' = store
  \/ store.source = "compiled-defaults" /\ store' = DefaultSnapshot

\* The three outcomes of a load and what is stored in each.
Stores(state, batch) ==
  \/ /\ state = "missing" /\ ~cached.exists /\ batch = 0
     /\ store' = DefaultSnapshot
  \/ /\ state = "valid" /\ cached.exists
     /\ store' \in Snapshots /\ store'.source = "config-cr" /\ store'.batch = batch
     /\ store'.gen = cached.gen
     /\ store'.kinds = parseWorkloadKinds(cached.spec.workloadKinds).set
  \/ /\ state = "invalid" /\ cached.exists /\ batch = 0
     /\ Keeps

\* LoadAndStore with its load put in one of these words.
Swaps(state, batch, skew) ==
  /\ pending /\ pending' = FALSE
  /\ rec.pc = "idle"
  /\ batch # 0 => batch \in Fresh
  /\ Stores(state, batch)
  /\ drains' = drains \cup CloseOldSinks(store')
  /\ open' = open \cup ({batch} \ {0})
  /\ configInvalid' = IF lastObserved = state THEN configInvalid ELSE state = "invalid"
  /\ rec' = [NoReconcile EXCEPT !.pc = IF state = "missing" THEN "idle" ELSE "stored",
                                !.state = state, !.skew = skew]
  /\ lastObserved' = IF state = "missing" THEN state ELSE lastObserved
  /\ UNCHANGED <<server, world, healthEvents, emit>>

\* A reconcile up to its swap is one of the three, whatever the Secrets say.
LEMMA LoadAndStoreSwaps ==
  ASSUME ConfigTypeOK, NEW read, NEW skew, LoadAndStore(read, skew)
  PROVE  \E state \in {"missing", "valid", "invalid"}, batch \in 0..MaxBatches :
           Swaps(state, batch, skew)
<1> DEFINE result == Load(read)
           state == classify(result)
           batch == IF result.sinks = {} THEN 0 ELSE CHOOSE b \in Fresh : TRUE
           next == SnapshotToStore(state, WithSinks(result.snapshot, batch))
<1>1. /\ pending /\ pending' = FALSE
      /\ rec.pc = "idle"
      /\ result.sinks # {} => Fresh # {}
      /\ store' = next
      /\ drains' = drains \cup CloseOldSinks(next)
      /\ open' = open \cup ({batch} \ {0})
      /\ emitTransitionEvent(lastObserved, state)
      /\ rec' = [NoReconcile EXCEPT !.pc = IF state = "missing" THEN "idle" ELSE "stored",
                                    !.state = state, !.skew = skew]
      /\ lastObserved' = IF state = "missing" THEN state ELSE lastObserved
      /\ UNCHANGED <<server, world, healthEvents, emit>>
  BY DEF LoadAndStore
<1>2. /\ cached.exists => cached.spec \in AIBOMControllerConfigSpec
      /\ cached.gen \in Nat
  BY ObjectFields, ConfigConstants DEF ConfigTypeOK
<1>3. store \in Snapshots
  BY DEF ConfigTypeOK
<1>4. store.source \in {"config-cr", "compiled-defaults", "last-known-good"}
  BY <1>3 DEF Snapshots
<1>5. /\ batch \in 0..MaxBatches
      /\ batch # 0 => batch \in Fresh
      /\ result.sinks = {} => batch = 0
  <2>1. MaxBatches \in Nat
    BY ConfigConstants
  <2>2. 0 \in 0..MaxBatches /\ Batches \subseteq 0..MaxBatches
    BY <2>1 DEF Batches
  <2>3. Fresh # {} => (CHOOSE b \in Fresh : TRUE) \in Fresh
    OBVIOUS
  <2>4. Fresh \subseteq 0..MaxBatches
    BY <2>2 DEF Fresh
  <2>5. QED
    BY <1>1, <2>2, <2>3, <2>4
<1>6. CASE ~cached.exists
  <2>1. result = [snapshot |-> DefaultSnapshot, errs |-> {}, sinks |-> {}]
    BY <1>6 DEF Load
  <2>2. state = "missing"
    BY <2>1, DefaultIsSnapshot DEF classify
  <2>3. batch = 0
    BY <2>1
  <2>4. next = DefaultSnapshot
    BY <2>1, <2>2, <2>3, DefaultIsSnapshot DEF SnapshotToStore
  <2>5. Stores(state, batch)
    BY <1>1, <1>6, <2>2, <2>3, <2>4 DEF Stores
  <2>6. QED
    BY <1>1, <1>5, <2>2, <2>5 DEF Swaps, emitTransitionEvent
<1>7. CASE cached.exists /\ result.errs = {}
  <2>1. result = parseSpec(cached.spec, cached.gen, read)
    BY <1>7 DEF Load
  <2>2. /\ result.snapshot \in Snapshots /\ result.snapshot.source = "config-cr"
        /\ result.snapshot.gen = cached.gen
        /\ result.snapshot.kinds = parseWorkloadKinds(cached.spec.workloadKinds).set
    BY <1>2, <1>7, <2>1, ParsedSpec
  <2>3. state = "valid"
    BY <1>7, <2>2 DEF classify
  <2>4. next = WithSinks(result.snapshot, batch)
    BY <2>3 DEF SnapshotToStore
  <2> HIDE DEF result, state, batch, next
  <2>5. /\ next \in Snapshots /\ next.source = "config-cr" /\ next.batch = batch
        /\ next.gen = cached.gen
        /\ next.kinds = parseWorkloadKinds(cached.spec.workloadKinds).set
    BY <1>5, <2>2, <2>4, SnapshotEdits
  <2>6. Stores(state, batch)
    BY <1>1, <1>7, <2>3, <2>5 DEF Stores
  <2>7. QED
    BY <1>1, <1>5, <2>3, <2>6 DEF Swaps, emitTransitionEvent
<1>8. CASE cached.exists /\ result.errs # {}
  <2>1. result = parseSpec(cached.spec, cached.gen, read)
    BY <1>8 DEF Load
  <2>2. result.snapshot = DefaultSnapshot /\ result.sinks = {}
    BY <1>2, <1>8, <2>1, ParsedSpec
  <2>3. state = "invalid"
    BY <1>8 DEF classify
  <2>4. batch = 0
    BY <1>5, <2>2
  <2>5. next = CASE store.source = "config-cr" -> MarkAsLastKnownGood(store)
                 [] store.source = "last-known-good" -> store
                 [] OTHER -> DefaultSnapshot
    BY <2>2, <2>3, <2>4, DefaultIsSnapshot DEF SnapshotToStore
  <2> HIDE DEF result, state, batch, next
  <2>6. Keeps
    BY <1>1, <1>4, <2>5 DEF Keeps
  <2>7. Stores(state, batch)
    BY <1>8, <2>3, <2>4, <2>6 DEF Stores
  <2>8. QED
    BY <1>1, <1>5, <2>3, <2>7 DEF Swaps, emitTransitionEvent
<1>9. QED
  BY <1>6, <1>7, <1>8

-----------------------------------------------------------------------------
(* Type correctness *)

\* Writing a version of the CR, and what the versions that are written are.
LEMMA WriteType ==
  ASSUME NEW object \in Objects, feed \in Seq(Objects), Write(object)
  PROVE  cr' \in Objects /\ feed' \in Seq(Objects)
BY DEF Write

LEMMA ObjectEdits ==
  ASSUME NEW o \in Objects, NEW spec \in Specs, NEW status \in Status
  PROVE  /\ Absent \in Objects
         /\ [Absent EXCEPT !.exists = TRUE, !.gen = 1, !.spec = spec] \in Objects
         /\ o.exists => [o EXCEPT !.gen = @ + 1, !.spec = spec] \in Objects
         /\ o.exists => [o EXCEPT !.touch = @ + 1] \in Objects
         /\ o.exists => [o EXCEPT !.status = status] \in Objects
<1>1. NoStatus \in Status
  BY DEF NoStatus, Status
<1>2. [Absent EXCEPT !.exists = TRUE, !.gen = 1, !.spec = spec]
        \in [exists : {TRUE}, gen : Nat, touch : Nat, spec : Specs, status : Status]
  BY <1>1 DEF Absent
<1>3. ASSUME o.exists
      PROVE  /\ [o EXCEPT !.gen = @ + 1, !.spec = spec] \in Objects
             /\ [o EXCEPT !.touch = @ + 1] \in Objects
             /\ [o EXCEPT !.status = status] \in Objects
  <2>1. o \in [exists : {TRUE}, gen : Nat, touch : Nat, spec : Specs, status : Status]
    BY <1>3, ObjectFields
  <2>2. o.gen \in Nat /\ o.touch \in Nat
    BY <2>1
  <2>3. o.gen + 1 \in Nat /\ o.touch + 1 \in Nat
    BY <2>2
  <2>4. [o EXCEPT !.gen = @ + 1, !.spec = spec]
          \in [exists : {TRUE}, gen : Nat, touch : Nat, spec : Specs, status : Status]
    BY <2>1, <2>3
  <2>5. [o EXCEPT !.touch = @ + 1]
          \in [exists : {TRUE}, gen : Nat, touch : Nat, spec : Specs, status : Status]
    BY <2>1, <2>3
  <2>6. [o EXCEPT !.status = status]
          \in [exists : {TRUE}, gen : Nat, touch : Nat, spec : Specs, status : Status]
    BY <2>1, <2>3
  <2>7. QED
    BY <2>4, <2>5, <2>6 DEF Objects
<1>4. QED
  BY <1>2, <1>3 DEF Objects

\* A reconcile over, started again, or with a new word on conflicts.
LEMMA RecEdits ==
  ASSUME rec \in reconcile, NEW c \in BOOLEAN
  PROVE  /\ Done \in reconcile /\ NoReconcile \in reconcile
         /\ [rec EXCEPT !.conflict = c] \in reconcile
<1>1. NoStatus \in Status
  BY DEF NoStatus, Status
<1>2. QED
  BY <1>1 DEF reconcile, Done, NoReconcile, observedState

\* The process starts with well-formed state.
LEMMA ProcessTypes ==
  /\ NoReconcile \in reconcile /\ NoDelivery \in delivery
  /\ "unknown" \in observedState
<1>1. NoStatus \in Status
  BY DEF NoStatus, Status
<1>2. MaxBatches \in Nat
  BY ConfigConstants
<1>3. QED
  BY <1>1, <1>2 DEF reconcile, NoReconcile, observedState, delivery, NoDelivery

LEMMA TypeInit == Init => ConfigTypeOK
<1> SUFFICES ASSUME Init PROVE ConfigTypeOK
  OBVIOUS
<1>1. PICK spec \in Specs :
        cr \in {Absent, [Absent EXCEPT !.exists = TRUE, !.gen = 1, !.spec = spec]}
  BY DEF Init
<1>2. NoStatus \in Status
  BY DEF NoStatus, Status
<1>3. Absent \in Objects
  BY DEF Objects
<1>4. cr \in Objects
  BY <1>1, <1>2, <1>3, ObjectEdits
<1>5. secrets \in [SecretRefs -> SecretState]
  BY DEF Init, SecretState
<1>6. 0 \in 0..MaxDisturbances
  BY ConfigConstants
<1>7. feed \in Seq(Objects)
  BY DEF Init
<1>8. QED
  BY <1>4, <1>5, <1>6, <1>7, ProcessTypes, DefaultIsSnapshot DEF Init, ProcessInit, ConfigTypeOK

\* The disturbances are counted up to their bound.
LEMMA SpendType ==
  ASSUME NEW what, Spend(what), spent \in 0..MaxDisturbances
  PROVE  spent' \in 0..MaxDisturbances
BY ConfigConstants DEF Spend

LEMMA SwapsType ==
  ASSUME ConfigTypeOK, NEW state \in {"missing", "valid", "invalid"}, NEW batch \in 0..MaxBatches,
         NEW skew \in SUBSET ExpectedFields, Swaps(state, batch, skew),
         spent' \in 0..MaxDisturbances
  PROVE  ConfigTypeOK'
<1>1. store \in Snapshots /\ rec \in reconcile /\ lastObserved \in observedState
  BY DEF ConfigTypeOK
<1>2. store' \in Snapshots
  BY <1>1, SnapshotEdits, DefaultIsSnapshot DEF Swaps, Stores, Keeps
<1>3. rec' \in reconcile
  <2>1. NoStatus \in Status
    BY DEF NoStatus, Status
  <2>2. QED
    BY <2>1 DEF Swaps, reconcile, NoReconcile, observedState
<1>4. lastObserved' \in observedState /\ configInvalid' \in BOOLEAN /\ pending' \in BOOLEAN
  BY <1>1 DEF Swaps, observedState, ConfigTypeOK
<1>5. MaxBatches \in Nat /\ Ticks(SinkCloseDelay) \in Nat
  BY ConfigConstants
<1>6. open' \subseteq Batches
  BY <1>5 DEF Swaps, ConfigTypeOK, Fresh, Batches
<1>7. CloseOldSinks(store') \subseteq [batch : Batches, left : 0..Ticks(SinkCloseDelay)]
  <2>1. store.batch # 0 => store.batch \in Batches
    BY <1>1, <1>5, SnapshotEdits DEF Batches
  <2>2. Ticks(SinkCloseDelay) \in 0..Ticks(SinkCloseDelay)
    BY <1>5
  <2>3. QED
    BY <2>1, <2>2 DEF CloseOldSinks
<1>8. drains' \subseteq [batch : Batches, left : 0..Ticks(SinkCloseDelay)]
  BY <1>7 DEF Swaps, ConfigTypeOK
<1>9. QED
  BY <1>2, <1>3, <1>4, <1>6, <1>8 DEF Swaps, ConfigTypeOK, server, world

LEMMA ReadConditionsType ==
  ASSUME ConfigTypeOK, NEW listed \in BOOLEAN, ReadConditions(listed),
         spent' \in 0..MaxDisturbances
  PROVE  ConfigTypeOK'
<1>1. rec \in reconcile /\ cached \in Objects /\ lastObserved \in observedState
  BY DEF ConfigTypeOK
<1>2. rec.state \in observedState
  BY <1>1 DEF reconcile
<1>3. CASE ~cached.exists
  <2>1. rec' \in reconcile /\ lastObserved' \in observedState
    BY <1>1, <1>2, <1>3, RecEdits DEF ReadConditions
  <2>2. QED
    BY <2>1 DEF ReadConditions, ConfigTypeOK, server, world, stored
<1>4. CASE cached.exists
  <2> DEFINE status == [ready |-> rec.state = "valid", degraded |-> DegradedReason,
                        optedIn |-> IF listed THEN optedInNamespaces(store)
                                    ELSE cached.status.optedIn,
                        gen |-> cached.gen]
  <2>1. cached.gen \in Nat /\ cached.status \in Status
    BY <1>1, ObjectFields
  <2>2. cached.status.optedIn \in BOOLEAN \cup {Nil}
    BY <2>1 DEF Status
  <2>3. DegradedReason \in {Nil, "no", "SchemaPredatesController", "ThirdPartyWatchUnhealthy",
                            "RunningOnDefaults", "RunningOnLastKnownGood"}
    BY DEF DegradedReason
  <2>4. optedInNamespaces(store) \in BOOLEAN
    BY DEF optedInNamespaces
  <2>5. status \in Status
    BY <2>1, <2>2, <2>3, <2>4 DEF Status
  <2>6. rec' = [rec EXCEPT !.pc = "read", !.status = status, !.conflict = feed # <<>>,
                           !.listFailed = ~listed]
    BY <1>4 DEF ReadConditions
  <2> HIDE DEF status
  <2>7. rec' \in reconcile
    BY <1>1, <2>5, <2>6 DEF reconcile
  <2>8. QED
    BY <1>4, <2>7 DEF ReadConditions, ConfigTypeOK, server, world, stored
<1>5. QED
  BY <1>3, <1>4

\* Every step leaves the state well formed.
LEMMA TypeNext == ConfigTypeOK /\ [Next]_vars => ConfigTypeOK'
<1> SUFFICES ASSUME ConfigTypeOK, [Next]_vars PROVE ConfigTypeOK'
  OBVIOUS
<1>1. /\ cr \in Objects /\ cached \in Objects /\ feed \in Seq(Objects)
      /\ secrets \in [SecretRefs -> SecretState] /\ rec \in reconcile
      /\ spent \in 0..MaxDisturbances /\ pending \in BOOLEAN
  BY DEF ConfigTypeOK
<1>2. rec.state \in observedState /\ rec.status \in Status /\ rec.conflict \in BOOLEAN
  BY <1>1 DEF reconcile
<1>3. Done \in reconcile
  BY <1>1, <1>2, RecEdits
<1>4. CASE Operator
  <2>1. spent' \in 0..MaxDisturbances
    BY <1>1, <1>4, SpendType DEF Operator
  <2>2. rec' \in reconcile
    <3>1. (rec.conflict \/ rec.pc = "read") \in BOOLEAN
      OBVIOUS
    <3>2. QED
      BY <1>1, <1>4, <3>1, RecEdits DEF Operator
  <2>3. cr' \in Objects /\ feed' \in Seq(Objects)
    <3>1. CASE \E spec \in Specs :
                 \/ ~cr.exists /\ Write([Absent EXCEPT !.exists = TRUE, !.gen = 1, !.spec = spec])
                 \/ cr.exists /\ cr.spec # spec /\ Write([cr EXCEPT !.gen = @ + 1, !.spec = spec])
      BY <1>1, <1>2, <3>1, ObjectEdits, WriteType
    <3>2. CASE cr.exists /\ Write([cr EXCEPT !.touch = @ + 1])
      <4>1. cr.spec \in Specs
        BY <1>1, <3>2, ObjectFields
      <4>2. QED
        BY <1>1, <1>2, <3>2, <4>1, ObjectEdits, WriteType
    <3>3. CASE cr.exists /\ Write(Absent)
      <4>1. Absent \in Objects
        BY DEF Objects
      <4>2. QED
        BY <1>1, <3>3, <4>1, WriteType
    <3>4. QED
      BY <1>4, <3>1, <3>2, <3>3 DEF Operator
  <2>4. QED
    BY <1>4, <2>1, <2>2, <2>3 DEF Operator, ConfigTypeOK, world, stored
<1>5. CASE SecretChanges
  <2>1. spent' \in 0..MaxDisturbances
    BY <1>1, <1>5, SpendType DEF SecretChanges
  <2>2. secrets' \in [SecretRefs -> SecretState]
    BY <1>1, <1>5 DEF SecretChanges, SecretState
  <2>3. QED
    BY <1>5, <2>1, <2>2 DEF SecretChanges, ConfigTypeOK, server, stored
<1>6. CASE SchemaChanges \/ NamespaceChanges \/ HealthChanges
  <2>1. spent' \in 0..MaxDisturbances
    BY <1>1, <1>6, SpendType DEF SchemaChanges, NamespaceChanges, HealthChanges
  <2>2. CASE SchemaChanges
    BY <2>1, <2>2 DEF SchemaChanges, ConfigTypeOK, server, stored
  <2>3. CASE NamespaceChanges
    BY <2>1, <2>3 DEF NamespaceChanges, ConfigTypeOK, server, stored
  <2>4. CASE HealthChanges
    BY <2>1, <2>4 DEF HealthChanges, ConfigTypeOK, server, stored
  <2>5. QED
    BY <1>6, <2>2, <2>3, <2>4
<1>7. CASE HealthSource
  BY <1>7 DEF HealthSource, ConfigTypeOK, server, world, stored
<1>8. CASE DeliverCR
  <2>1. cached' \in Objects /\ feed' \in Seq(Objects)
    BY <1>1, <1>8 DEF DeliverCR
  <2>2. pending' \in BOOLEAN
    BY <1>1, <1>8 DEF DeliverCR
  <2>3. QED
    BY <1>8, <2>1, <2>2 DEF DeliverCR, ConfigTypeOK, world, stored
<1>9. ASSUME NEW read, NEW skew \in SUBSET ExpectedFields, LoadAndStore(read, skew),
             spent' \in 0..MaxDisturbances
      PROVE  ConfigTypeOK'
  BY <1>9, LoadAndStoreSwaps, SwapsType
<1>10. detectSchemaSkew \in SUBSET ExpectedFields /\ {} \in SUBSET ExpectedFields
  BY DEF detectSchemaSkew, missingFields
<1>11. CASE Reconcile
  BY <1>1, <1>9, <1>10, <1>11 DEF Reconcile
<1>12. CASE ReconcileUnchecked
  BY <1>1, <1>9, <1>10, <1>12, SpendType DEF ReconcileUnchecked
<1>13. CASE ReconcileSecretError
  <2>1. PICK r \in SecretRefs : LoadAndStore([secrets EXCEPT ![r] = "error"], detectSchemaSkew)
    BY <1>13 DEF ReconcileSecretError
  <2>2. spent' \in 0..MaxDisturbances
    BY <1>1, <1>13, SpendType DEF ReconcileSecretError
  <2>3. QED
    BY <1>9, <1>10, <2>1, <2>2
<1>14. CASE ReconcileLoadError
  <2>1. spent' \in 0..MaxDisturbances
    BY <1>1, <1>14, SpendType DEF ReconcileLoadError
  <2>2. QED
    BY <1>14, <2>1 DEF ReconcileLoadError, ConfigTypeOK, server, world, stored
<1>15. CASE updateConditions
  BY <1>1, <1>15, ReadConditionsType DEF updateConditions
<1>16. CASE updateConditionsUnlisted
  BY <1>1, <1>16, ReadConditionsType, SpendType DEF updateConditionsUnlisted
<1>17. CASE UpdateStatus
  <2>1. cr.spec \in Specs
    BY <1>1, <1>17, ObjectFields DEF UpdateStatus
  <2>2. cr' \in Objects /\ feed' \in Seq(Objects)
    BY <1>1, <1>2, <1>17, <2>1, ObjectEdits, WriteType DEF UpdateStatus
  <2>3. QED
    BY <1>2, <1>3, <1>17, <2>2 DEF UpdateStatus, ConfigTypeOK, world, stored
<1>18. CASE UpdateNotFound
  BY <1>2, <1>3, <1>18 DEF UpdateNotFound, ConfigTypeOK, server, world, stored
<1>19. CASE UpdateConflict
  BY <1>3, <1>19 DEF UpdateConflict, Requeue, ConfigTypeOK, server, world, stored
<1>20. CASE UpdateError
  <2>1. spent' \in 0..MaxDisturbances
    BY <1>1, <1>20, SpendType DEF UpdateError
  <2>2. QED
    BY <1>3, <1>20, <2>1 DEF UpdateError, Requeue, ConfigTypeOK, server, world, stored
<1>21. CASE WorkloadLoads
  <2>1. spent' \in 0..MaxDisturbances
    BY <1>1, <1>21, SpendType DEF WorkloadLoads
  <2>2. store.batch \in 0..MaxBatches
    BY DEF ConfigTypeOK, Snapshots
  <2>3. emit' \in delivery
    BY <1>21, <2>2 DEF WorkloadLoads, NoDelivery, delivery
  <2>4. QED
    BY <1>21, <2>1, <2>3 DEF WorkloadLoads, ConfigTypeOK, server, world, stored
<1>22. CASE EmitBegins
  <2>1. Ticks(DefaultExternalSinkTimeout) \in Nat
    BY ConfigConstants
  <2>2. emit \in delivery
    BY DEF ConfigTypeOK
  <2>3. emit' \in delivery
    BY <1>22, <2>1, <2>2 DEF EmitBegins, delivery
  <2>4. QED
    BY <1>22, <2>3 DEF EmitBegins, ConfigTypeOK, server, world, stored
<1>23. CASE EmitEnds
  BY <1>23, ProcessTypes DEF EmitEnds, ConfigTypeOK, server, world, stored
<1>24. CASE CloseSinks
  <2>1. drains' \subseteq drains /\ open' \subseteq open
    BY <1>24 DEF CloseSinks
  <2>2. QED
    BY <1>24, <2>1 DEF CloseSinks, ConfigTypeOK, server, world
<1>25. CASE Tick
  <2>1. emit \in delivery /\ drains \subseteq [batch : Batches, left : 0..Ticks(SinkCloseDelay)]
    BY DEF ConfigTypeOK
  <2>2. emit.left \in Nat
    BY <2>1 DEF delivery
  <2>3. emit.left - 1 \in Nat
    BY <1>25, <2>2 DEF Tick
  <2>4. emit' \in delivery
    BY <1>25, <2>1, <2>3 DEF Tick, delivery
  <2>5. Ticks(SinkCloseDelay) \in Nat
    BY ConfigConstants
  <2>6. ASSUME NEW d \in drains
        PROVE  [d EXCEPT !.left = IF @ > 0 THEN @ - 1 ELSE 0]
                 \in [batch : Batches, left : 0..Ticks(SinkCloseDelay)]
    <3>1. d \in [batch : Batches, left : 0..Ticks(SinkCloseDelay)]
      BY <2>1
    <3>2. (IF d.left > 0 THEN d.left - 1 ELSE 0) \in 0..Ticks(SinkCloseDelay)
      BY <2>5, <3>1
    <3>3. QED
      BY <3>1, <3>2
  <2>7. drains' \subseteq [batch : Batches, left : 0..Ticks(SinkCloseDelay)]
    BY <1>25, <2>6 DEF Tick
  <2>8. QED
    BY <1>25, <2>4, <2>7 DEF Tick, ConfigTypeOK, server, world
<1>26. CASE Restart
  <2>1. spent' \in 0..MaxDisturbances
    BY <1>1, <1>26, SpendType DEF Restart
  <2>2. feed' \in Seq(Objects)
    BY <1>26 DEF Restart
  <2>3. QED
    BY <1>26, <2>1, <2>2, ProcessTypes, DefaultIsSnapshot DEF Restart, ConfigTypeOK
<1>27. CASE UNCHANGED vars
  BY <1>27 DEF vars, ConfigTypeOK, server, world, stored
<1>28. QED
  BY <1>4, <1>5, <1>6, <1>7, <1>8, <1>11, <1>12, <1>13, <1>14, <1>15, <1>16, <1>17, <1>18,
     <1>19, <1>20, <1>21, <1>22, <1>23, <1>24, <1>25, <1>26, <1>27
     DEF Next, Controller, Process, Faults, Environment

\* The configuration reconciler, its store and its sinks keep their types: in
\* particular a snapshot always has thresholds in their ranges and a set of kinds
\* the binary knows (Loader.Load, parseWorkloadKinds, Store).
THEOREM ConfigTypeCorrect == Spec => []ConfigTypeOK
BY TypeInit, TypeNext, PTL DEF Spec

-----------------------------------------------------------------------------
(* The watch: no change of the configuration is lost on the way *)

\* The cache and an empty feed, as after a list.
LEMMA Listed ==
  ASSUME NEW o
  PROVE  LeadsTo(o, <<>>, o)
<1>1. Len(<<>>) = 0
  OBVIOUS
<1>2. SameConfig(o, o)
  BY DEF SameConfig
<1>3. QED
  BY <1>1, <1>2 DEF LeadsTo, Version

\* A write of the CR adds a version.
LEMMA FeedGrows ==
  ASSUME NEW c \in Objects, NEW f \in Seq(Objects), NEW o \in Objects, LeadsTo(c, f, o),
         NEW object \in Objects, Reloads(o, object) \/ SameConfig(o, object)
  PROVE  /\ LeadsTo(c, Append(f, object), object)
         /\ Reloads(o, object) => ReloadAhead(c, Append(f, object), 0)
         /\ ReloadAhead(c, f, 0) => ReloadAhead(c, Append(f, object), 0)
<1> DEFINE n == Len(f)
           g == Append(f, object)
<1>1. n \in Nat /\ Len(g) = n + 1 /\ g[n + 1] = object
      /\ \A i \in 1..n : g[i] = f[i]
  OBVIOUS
<1>2. \A i \in 0..n : Version(c, g, i) = Version(c, f, i)
  BY <1>1 DEF Version
<1>3. Version(c, g, n + 1) = object
  BY <1>1 DEF Version
<1>4. Version(c, g, n) = o
  BY <1>1, <1>2 DEF LeadsTo
<1> HIDE DEF n, g
<1>5. \A i \in 0..n : Reloads(o, object) => ReloadAhead(c, g, i)
  <2> SUFFICES ASSUME NEW i \in 0..n, Reloads(o, object) PROVE ReloadAhead(c, g, i)
    OBVIOUS
  <2>1. n + 1 \in (i + 1)..Len(g) /\ (n + 1) - 1 = n
    BY <1>1
  <2>2. Reloads(Version(c, g, (n + 1) - 1), Version(c, g, n + 1))
    BY <1>3, <1>4, <2>1
  <2>3. QED
    BY <2>1, <2>2 DEF ReloadAhead
<1>6. \A i \in 0..n : ReloadAhead(c, f, i) => ReloadAhead(c, g, i)
  <2> SUFFICES ASSUME NEW i \in 0..n, ReloadAhead(c, f, i) PROVE ReloadAhead(c, g, i)
    OBVIOUS
  <2>1. PICK j \in (i + 1)..n : Reloads(Version(c, f, j - 1), Version(c, f, j))
    BY DEF ReloadAhead, n
  <2>2. j \in (i + 1)..Len(g) /\ j \in 0..n /\ j - 1 \in 0..n
    BY <1>1
  <2>3. Reloads(Version(c, g, j - 1), Version(c, g, j))
    BY <1>2, <2>1, <2>2
  <2>4. QED
    BY <2>2, <2>3 DEF ReloadAhead
<1>7. \A i \in 0..Len(g) : ReloadAhead(c, g, i) \/ SameConfig(Version(c, g, i), object)
  <2> SUFFICES ASSUME NEW i \in 0..Len(g), ~ReloadAhead(c, g, i)
               PROVE  SameConfig(Version(c, g, i), object)
    OBVIOUS
  <2>1. CASE i = n + 1
    BY <1>3, <2>1 DEF SameConfig
  <2>2. CASE i # n + 1
    <3>1. i \in 0..n
      BY <1>1, <2>2
    <3>2. SameConfig(o, object)
      BY <1>5, <3>1
    <3>3. SameConfig(Version(c, f, i), o)
      BY <1>6, <3>1 DEF LeadsTo, n
    <3>4. QED
      BY <1>2, <3>1, <3>2, <3>3 DEF SameConfig
  <2>3. QED
    BY <2>1, <2>2
<1>8. ASSUME NEW j \in 1..Len(g)
      PROVE  \/ Reloads(Version(c, g, j - 1), Version(c, g, j))
             \/ SameConfig(Version(c, g, j - 1), Version(c, g, j))
  <2>1. CASE j = n + 1
    <3>1. j - 1 = n
      BY <1>1, <2>1
    <3>2. QED
      BY <1>3, <1>4, <2>1, <3>1
  <2>2. CASE j # n + 1
    <3>1. j \in 1..n /\ j \in 0..n /\ j - 1 \in 0..n
      BY <1>1, <2>2
    <3>2. \/ Reloads(Version(c, f, j - 1), Version(c, f, j))
          \/ SameConfig(Version(c, f, j - 1), Version(c, f, j))
      BY <3>1 DEF LeadsTo, n
    <3>3. QED
      BY <1>2, <3>1, <3>2
  <2>3. QED
    BY <2>1, <2>2
<1>9. Version(c, g, Len(g)) = object
  BY <1>1, <1>3
<1>10. 0 \in 0..n
  BY <1>1
<1>11. LeadsTo(c, g, object)
  BY <1>7, <1>8, <1>9 DEF LeadsTo
<1>12. QED
  BY <1>5, <1>6, <1>10, <1>11 DEF g

\* A delivery takes the first version into the cache.
LEMMA FeedShrinks ==
  ASSUME NEW c \in Objects, NEW f \in Seq(Objects), f # <<>>, NEW o, LeadsTo(c, f, o)
  PROVE  /\ LeadsTo(Head(f), Tail(f), o)
         /\ Reloads(c, Head(f)) \/ SameConfig(c, Head(f))
         /\ ReloadAhead(c, f, 0) => Reloads(c, Head(f)) \/ ReloadAhead(Head(f), Tail(f), 0)
<1> DEFINE n == Len(f)
           g == Tail(f)
           h == Head(f)
<1>1. n \in Nat /\ n > 0 /\ Len(g) = n - 1 /\ h = f[1]
      /\ \A i \in 1..(n - 1) : g[i] = f[i + 1]
  OBVIOUS
<1>2. \A i \in 0..(n - 1) : Version(h, g, i) = Version(c, f, i + 1)
  BY <1>1 DEF Version
<1>3. Version(c, f, 0) = c /\ Version(c, f, 1) = h
  BY <1>1 DEF Version
<1> HIDE DEF n, g, h
<1>4. \A i \in 0..(n - 1) : ReloadAhead(c, f, i + 1) => ReloadAhead(h, g, i)
  <2> SUFFICES ASSUME NEW i \in 0..(n - 1), ReloadAhead(c, f, i + 1) PROVE ReloadAhead(h, g, i)
    OBVIOUS
  <2>1. PICK j \in ((i + 1) + 1)..n : Reloads(Version(c, f, j - 1), Version(c, f, j))
    BY DEF ReloadAhead, n
  <2>2. /\ j - 1 \in (i + 1)..Len(g) /\ j - 1 \in 0..(n - 1) /\ (j - 1) - 1 \in 0..(n - 1)
        /\ (j - 1) + 1 = j /\ ((j - 1) - 1) + 1 = j - 1
    BY <1>1
  <2>3. Reloads(Version(h, g, (j - 1) - 1), Version(h, g, j - 1))
    BY <1>2, <2>1, <2>2
  <2>4. QED
    BY <2>2, <2>3 DEF ReloadAhead
<1>5. \A i \in 0..Len(g) : ReloadAhead(h, g, i) \/ SameConfig(Version(h, g, i), o)
  <2> SUFFICES ASSUME NEW i \in 0..Len(g), ~ReloadAhead(h, g, i)
               PROVE  SameConfig(Version(h, g, i), o)
    OBVIOUS
  <2>1. i \in 0..(n - 1) /\ i + 1 \in 0..n
    BY <1>1
  <2>2. SameConfig(Version(c, f, i + 1), o)
    BY <1>4, <2>1 DEF LeadsTo, n
  <2>3. QED
    BY <1>2, <2>1, <2>2
<1>6. ASSUME NEW j \in 1..Len(g)
      PROVE  \/ Reloads(Version(h, g, j - 1), Version(h, g, j))
             \/ SameConfig(Version(h, g, j - 1), Version(h, g, j))
  <2>1. /\ j + 1 \in 1..n /\ j \in 0..(n - 1) /\ j - 1 \in 0..(n - 1)
        /\ (j + 1) - 1 = j /\ (j - 1) + 1 = j
    BY <1>1
  <2>2. \/ Reloads(Version(c, f, (j + 1) - 1), Version(c, f, j + 1))
        \/ SameConfig(Version(c, f, (j + 1) - 1), Version(c, f, j + 1))
    BY <2>1 DEF LeadsTo, n
  <2>3. QED
    BY <1>2, <2>1, <2>2
<1>7. Version(h, g, Len(g)) = o
  <2>1. n - 1 \in 0..(n - 1) /\ (n - 1) + 1 = n
    BY <1>1
  <2>2. QED
    BY <1>1, <1>2, <2>1 DEF LeadsTo, n
<1>8. LeadsTo(h, g, o)
  BY <1>5, <1>6, <1>7 DEF LeadsTo
<1>9. Reloads(c, h) \/ SameConfig(c, h)
  <2>1. 1 \in 1..n /\ 1 - 1 = 0
    BY <1>1
  <2>2. \/ Reloads(Version(c, f, 1 - 1), Version(c, f, 1))
        \/ SameConfig(Version(c, f, 1 - 1), Version(c, f, 1))
    BY <2>1 DEF LeadsTo, n
  <2>3. QED
    BY <1>3, <2>1, <2>2
<1>10. ASSUME ReloadAhead(c, f, 0), ~Reloads(c, h)
       PROVE  ReloadAhead(h, g, 0)
  <2>1. PICK j \in (0 + 1)..n : Reloads(Version(c, f, j - 1), Version(c, f, j))
    BY <1>10 DEF ReloadAhead, n
  <2>2. j # 1
    BY <1>3, <1>10, <2>1
  <2>3. j \in ((0 + 1) + 1)..n /\ 0 \in 0..(n - 1)
    BY <1>1, <2>2
  <2>4. ReloadAhead(c, f, 0 + 1)
    BY <2>1, <2>3 DEF ReloadAhead, n
  <2>5. QED
    BY <1>4, <2>3, <2>4
<1>11. QED
  BY <1>8, <1>9, <1>10 DEF g, h

-----------------------------------------------------------------------------
(* What the CR says is true *)

TruthInv == FeedInv /\ LoadInv /\ ReadInv /\ RestInv

\* What the conditions are computed from, and all that TruthInv speaks of.
judged == <<rec.state, rec.skew, rec.listFailed, store, namespace, degraded>>
truth == <<cr, feed, cached, namespace, degraded, healthEvents, pending, rec, store>>

LEMMA SameJudgement ==
  ASSUME UNCHANGED judged
  PROVE  /\ DegradedReason' = DegradedReason
         /\ optedInNamespaces(store)' = optedInNamespaces(store)
BY DEF judged, DegradedReason, optedInNamespaces

LEMMA SameTruth ==
  ASSUME TruthInv, UNCHANGED truth
  PROVE  TruthInv'
<1>1. UNCHANGED judged
  BY DEF truth, judged
<1>2. FeedInv'
  BY DEF TruthInv, truth, FeedInv
<1>3. LoadInv'
  BY DEF TruthInv, truth, LoadInv, InEffect
<1>4. ReadInv'
  BY <1>1, SameJudgement DEF TruthInv, truth, ReadInv, TrueStatus
<1>5. RestInv'
  BY <1>1, SameJudgement DEF TruthInv, truth, RestInv, TrueStatus
<1>6. QED
  BY <1>2, <1>3, <1>4, <1>5 DEF TruthInv

\* A reconcile that is over keeps what it found.
LEMMA DoneFields ==
  ASSUME rec \in reconcile
  PROVE  /\ Done.pc = "idle" /\ Done.state = rec.state /\ Done.skew = rec.skew
         /\ Done.listFailed = rec.listFailed
BY DEF reconcile, Done

\* With nothing ahead the cache has the configuration of the server.
LEMMA NothingAhead ==
  ASSUME FeedInv, feed \in Seq(Objects), ~ReloadAhead(cached, feed, 0)
  PROVE  SameConfig(cached, cr)
<1>1. Len(feed) \in Nat
  OBVIOUS
<1>2. 0 \in 0..Len(feed)
  BY <1>1
<1>3. ReloadAhead(cached, feed, 0) \/ SameConfig(Version(cached, feed, 0), cr)
  BY <1>2 DEF FeedInv, LeadsTo
<1>4. QED
  BY <1>3 DEF Version

\* Every write of the operator reloads; a write of the status does not.
LEMMA WritesReload ==
  ASSUME NEW o \in Objects, NEW spec \in Specs, NEW status \in Status
  PROVE  /\ ~o.exists => Reloads(o, [Absent EXCEPT !.exists = TRUE, !.gen = 1, !.spec = spec])
         /\ o.exists => Reloads(o, [o EXCEPT !.gen = @ + 1, !.spec = spec])
         /\ o.exists => Reloads(o, [o EXCEPT !.touch = @ + 1])
         /\ o.exists => Reloads(o, Absent)
         /\ o.exists => /\ SameConfig(o, [o EXCEPT !.status = status])
                        /\ [o EXCEPT !.status = status].status = status
<1>1. ~o.exists => Reloads(o, [Absent EXCEPT !.exists = TRUE, !.gen = 1, !.spec = spec])
  BY DEF Reloads, Absent
<1>2. o.exists => Reloads(o, Absent)
  BY DEF Reloads, Absent
<1>3. ASSUME o.exists
      PROVE  /\ Reloads(o, [o EXCEPT !.gen = @ + 1, !.spec = spec])
             /\ Reloads(o, [o EXCEPT !.touch = @ + 1])
             /\ SameConfig(o, [o EXCEPT !.status = status])
             /\ [o EXCEPT !.status = status].status = status
  <2>1. o \in [exists : {TRUE}, gen : Nat, touch : Nat, spec : Specs, status : Status]
    BY <1>3, ObjectFields
  <2>2. o.gen + 1 # o.gen /\ o.touch + 1 # o.touch
    BY <2>1
  <2>3. /\ [o EXCEPT !.gen = @ + 1, !.spec = spec].exists
        /\ [o EXCEPT !.gen = @ + 1, !.spec = spec].gen = o.gen + 1
    BY <1>3, <2>1
  <2>4. /\ [o EXCEPT !.touch = @ + 1].exists
        /\ [o EXCEPT !.touch = @ + 1].touch = o.touch + 1
    BY <1>3, <2>1
  <2>5. /\ [o EXCEPT !.status = status].exists
        /\ [o EXCEPT !.status = status].gen = o.gen
        /\ [o EXCEPT !.status = status].spec = o.spec
        /\ [o EXCEPT !.status = status].status = status
    BY <1>3, <2>1
  <2>6. Reloads(o, [o EXCEPT !.gen = @ + 1, !.spec = spec])
    BY <1>3, <2>2, <2>3 DEF Reloads, configChangeReloads
  <2>7. Reloads(o, [o EXCEPT !.touch = @ + 1])
    BY <1>3, <2>2, <2>4 DEF Reloads, configChangeReloads
  <2>8. SameConfig(o, [o EXCEPT !.status = status])
    BY <1>3, <2>5 DEF SameConfig
  <2>9. QED
    BY <2>5, <2>6, <2>7, <2>8
<1>4. QED
  BY <1>1, <1>2, <1>3

\* The operator changes the CR: the new version will queue a reconcile, and a
\* status that is about to be written will conflict.
LEMMA OperatorTruth ==
  ASSUME ConfigTypeOK, TruthInv, Operator
  PROVE  TruthInv'
<1>1. cr \in Objects /\ cached \in Objects /\ feed \in Seq(Objects) /\ rec \in reconcile
  BY DEF ConfigTypeOK
<1>2. cr.status \in Status
  BY <1>1, ObjectFields
<1>3. PICK object \in Objects : Write(object) /\ Reloads(cr, object)
  <2>1. CASE \E spec \in Specs :
               \/ ~cr.exists /\ Write([Absent EXCEPT !.exists = TRUE, !.gen = 1, !.spec = spec])
               \/ cr.exists /\ cr.spec # spec /\ Write([cr EXCEPT !.gen = @ + 1, !.spec = spec])
    BY <1>1, <1>2, <2>1, ObjectEdits, WritesReload
  <2>2. CASE cr.exists /\ Write([cr EXCEPT !.touch = @ + 1])
    <3>1. cr.spec \in Specs
      BY <1>1, <2>2, ObjectFields
    <3>2. QED
      BY <1>1, <1>2, <2>2, <3>1, ObjectEdits, WritesReload
  <2>3. CASE cr.exists /\ Write(Absent)
    <3>1. cr.spec \in Specs
      BY <1>1, <2>3, ObjectFields
    <3>2. QED
      BY <1>1, <1>2, <2>3, <3>1, ObjectEdits, WritesReload
  <2>4. QED
    BY <2>1, <2>2, <2>3 DEF Operator
<1>4. /\ LeadsTo(cached, Append(feed, object), object)
      /\ ReloadAhead(cached, Append(feed, object), 0)
  BY <1>1, <1>3, FeedGrows DEF TruthInv, FeedInv
<1>5. /\ cr' = object /\ feed' = Append(feed, object) /\ cached' = cached
      /\ pending' = pending /\ healthEvents' = healthEvents /\ store' = store
      /\ rec' = [rec EXCEPT !.conflict = @ \/ rec.pc = "read"]
  BY <1>3 DEF Operator, Write, stored
<1>6. /\ rec'.pc = rec.pc /\ rec'.state = rec.state
      /\ rec'.conflict = (rec.conflict \/ rec.pc = "read")
  BY <1>1, <1>5 DEF reconcile
<1>7. FeedInv'
  BY <1>4, <1>5 DEF FeedInv
<1>8. LoadInv'
  BY <1>5, <1>6 DEF TruthInv, LoadInv, InEffect
<1>9. ReadInv'
  BY <1>6 DEF ReadInv
<1>10. RestInv'
  BY <1>4, <1>5 DEF RestInv
<1>11. QED
  BY <1>7, <1>8, <1>9, <1>10 DEF TruthInv

\* The watch delivers a version: either it queues a reconcile, or it has the
\* configuration that was in the cache.
LEMMA DeliverTruth ==
  ASSUME ConfigTypeOK, TruthInv, DeliverCR
  PROVE  TruthInv'
<1> DEFINE new == Head(feed)
<1>1. /\ cr \in Objects /\ cached \in Objects /\ feed \in Seq(Objects) /\ feed # <<>>
      /\ pending \in BOOLEAN
  BY DEF ConfigTypeOK, DeliverCR
<1>2. /\ cached' = new /\ feed' = Tail(feed) /\ cr' = cr
      /\ rec' = rec /\ store' = store /\ namespace' = namespace /\ degraded' = degraded
      /\ healthEvents' = healthEvents
      /\ pending' = (pending \/ Reloads(cached, new))
  BY DEF DeliverCR, Reloads, world, stored
<1>3. /\ LeadsTo(new, Tail(feed), cr)
      /\ Reloads(cached, new) \/ SameConfig(cached, new)
      /\ ReloadAhead(cached, feed, 0) => Reloads(cached, new) \/ ReloadAhead(new, Tail(feed), 0)
  BY <1>1, FeedShrinks DEF TruthInv, FeedInv
<1> HIDE DEF new
<1>4. FeedInv'
  BY <1>2, <1>3 DEF FeedInv
<1>5. ReadInv'
  BY <1>1, <1>2 DEF TruthInv, ReadInv
<1>6. CASE Reloads(cached, new)
  BY <1>2, <1>4, <1>5, <1>6 DEF TruthInv, LoadInv, RestInv
<1>7. CASE ~Reloads(cached, new)
  <2>1. SameConfig(cached, new) /\ pending' = pending
    BY <1>1, <1>2, <1>3, <1>7
  <2>2. LoadInv'
    BY <1>2, <2>1 DEF TruthInv, LoadInv, InEffect, SameConfig
  <2>3. UNCHANGED judged
    BY <1>2 DEF judged
  <2>4. RestInv'
    <3> SUFFICES ASSUME rec.pc = "idle", ~pending, ~healthEvents,
                        ~ReloadAhead(new, Tail(feed), 0), cr.exists
                 PROVE  TrueStatus(cr.status)'
      BY <1>2, <2>1 DEF RestInv
    <3>1. ~ReloadAhead(cached, feed, 0)
      BY <1>3, <1>7
    <3>2. TrueStatus(cr.status)
      BY <3>1 DEF TruthInv, RestInv
    <3>3. SameConfig(cached, cr)
      BY <1>1, <3>1, NothingAhead DEF TruthInv
    <3>4. new.gen = cached.gen
      BY <2>1, <3>3 DEF SameConfig
    <3>5. QED
      BY <1>2, <2>3, <3>2, <3>4, SameJudgement DEF TrueStatus
  <2>5. QED
    BY <1>4, <1>5, <2>2, <2>4 DEF TruthInv
<1>8. QED
  BY <1>6, <1>7

\* A load and its swap: the store is what the cache says, and without a CR there
\* is nothing more to do.
LEMMA SwapsTruth ==
  ASSUME ConfigTypeOK, TruthInv, NEW state \in {"missing", "valid", "invalid"},
         NEW batch \in 0..MaxBatches, NEW skew, Swaps(state, batch, skew)
  PROVE  TruthInv'
<1>1. /\ cr' = cr /\ feed' = feed /\ cached' = cached
      /\ rec' = [NoReconcile EXCEPT !.pc = IF state = "missing" THEN "idle" ELSE "stored",
                                    !.state = state, !.skew = skew]
      /\ Stores(state, batch)
  BY DEF Swaps, server
<1>2. /\ rec'.pc = (IF state = "missing" THEN "idle" ELSE "stored")
      /\ rec'.state = state
  BY <1>1 DEF NoReconcile
<1>3. store \in Snapshots /\ feed \in Seq(Objects)
  BY DEF ConfigTypeOK
<1>4. FeedInv'
  BY <1>1 DEF TruthInv, FeedInv
<1>5. InEffect'
  <2>1. CASE state = "missing"
    BY <1>1, <2>1 DEF Stores, InEffect
  <2>2. CASE state = "valid"
    BY <1>1, <1>2, <2>2 DEF Stores, InEffect
  <2>3. CASE state = "invalid"
    <3>1. store'.source # "config-cr"
      BY <1>1, <1>3, <2>3, DefaultIsSnapshot, SnapshotEdits DEF Stores, Keeps
    <3>2. QED
      BY <1>1, <1>2, <2>3, <3>1 DEF Stores, InEffect
  <2>4. QED
    BY <2>1, <2>2, <2>3
<1>6. LoadInv'
  BY <1>5 DEF LoadInv
<1>7. ReadInv'
  BY <1>2 DEF ReadInv
<1>8. RestInv'
  <2> SUFFICES ASSUME rec'.pc = "idle", ~ReloadAhead(cached, feed, 0), cr.exists PROVE FALSE
    BY <1>1 DEF RestInv
  <2>1. state = "missing"
    BY <1>2
  <2>2. ~cached.exists
    BY <1>1, <2>1 DEF Stores
  <2>3. SameConfig(cached, cr)
    BY <1>3, NothingAhead DEF TruthInv
  <2>4. QED
    BY <2>2, <2>3 DEF SameConfig
<1>9. QED
  BY <1>4, <1>6, <1>7, <1>8 DEF TruthInv

\* updateConditions reads the CR from the cache: what it computes is true of it.
LEMMA ReadConditionsTruth ==
  ASSUME ConfigTypeOK, TruthInv, NEW listed \in BOOLEAN, ReadConditions(listed)
  PROVE  TruthInv'
<1>1. /\ cached \in Objects /\ feed \in Seq(Objects) /\ rec \in reconcile
  BY DEF ConfigTypeOK
<1>2. /\ cr' = cr /\ feed' = feed /\ cached' = cached /\ pending' = pending
      /\ healthEvents' = healthEvents /\ store' = store
      /\ namespace' = namespace /\ degraded' = degraded
  BY DEF ReadConditions, server, world, stored
<1>3. FeedInv'
  BY <1>2 DEF TruthInv, FeedInv
<1>4. CASE ~cached.exists
  <2>1. rec' = Done
    BY <1>4 DEF ReadConditions
  <2>2. rec'.pc = "idle" /\ rec'.state = rec.state
    BY <1>1, <2>1, DoneFields
  <2>3. LoadInv'
    BY <1>2, <2>2 DEF TruthInv, LoadInv, InEffect
  <2>4. ReadInv'
    BY <2>2 DEF ReadInv
  <2>5. RestInv'
    <3> SUFFICES ASSUME ~ReloadAhead(cached, feed, 0), cr.exists PROVE FALSE
      BY <1>2 DEF RestInv
    <3>1. SameConfig(cached, cr)
      BY <1>1, NothingAhead DEF TruthInv
    <3>2. QED
      BY <1>4, <3>1 DEF SameConfig
  <2>6. QED
    BY <1>3, <2>3, <2>4, <2>5 DEF TruthInv
<1>5. CASE cached.exists
  <2> DEFINE status == [ready |-> rec.state = "valid", degraded |-> DegradedReason,
                        optedIn |-> IF listed THEN optedInNamespaces(store)
                                    ELSE cached.status.optedIn,
                        gen |-> cached.gen]
  <2>1. rec' = [rec EXCEPT !.pc = "read", !.status = status, !.conflict = feed # <<>>,
                           !.listFailed = ~listed]
    BY <1>5 DEF ReadConditions
  <2>2. /\ status.ready = (rec.state = "valid") /\ status.degraded = DegradedReason
        /\ status.gen = cached.gen
        /\ listed => status.optedIn = optedInNamespaces(store)
    OBVIOUS
  <2> HIDE DEF status
  <2>3. /\ rec'.pc = "read" /\ rec'.state = rec.state /\ rec'.skew = rec.skew
        /\ rec'.status = status /\ rec'.conflict = (feed # <<>>) /\ rec'.listFailed = ~listed
    BY <1>1, <2>1 DEF reconcile
  <2>4. /\ DegradedReason' = DegradedReason
        /\ optedInNamespaces(store)' = optedInNamespaces(store)
    BY <1>2, <2>3 DEF DegradedReason, optedInNamespaces
  <2>5. LoadInv'
    BY <1>2, <2>3 DEF TruthInv, LoadInv, InEffect
  <2>6. ReadInv'
    BY <1>2, <1>5, <2>2, <2>3, <2>4 DEF ReadInv, TrueStatus
  <2>7. RestInv'
    BY <2>3 DEF RestInv
  <2>8. QED
    BY <1>3, <2>5, <2>6, <2>7 DEF TruthInv
<1>6. QED
  BY <1>4, <1>5

\* The status is written onto the version it was computed from.
LEMMA UpdateStatusTruth ==
  ASSUME ConfigTypeOK, TruthInv, UpdateStatus
  PROVE  TruthInv'
<1> DEFINE object == [cr EXCEPT !.status = rec.status]
<1>1. /\ cr \in Objects /\ cached \in Objects /\ feed \in Seq(Objects) /\ rec \in reconcile
      /\ rec.pc = "read" /\ ~rec.conflict /\ cr.exists
  BY DEF ConfigTypeOK, UpdateStatus
<1>2. rec.status \in Status /\ cr.spec \in Specs
  BY <1>1, ObjectFields DEF reconcile
<1>3. object \in Objects /\ SameConfig(cr, object) /\ object.status = rec.status
  BY <1>1, <1>2, ObjectEdits, WritesReload
<1>4. Write(object)
  BY DEF UpdateStatus
<1> HIDE DEF object
<1>5. /\ cr' = object /\ feed' = Append(feed, object) /\ cached' = cached
      /\ rec' = Done /\ store' = store /\ namespace' = namespace /\ degraded' = degraded
      /\ pending' = pending /\ healthEvents' = healthEvents
  BY <1>4 DEF UpdateStatus, Write, world, stored
<1>6. rec'.pc = "idle" /\ UNCHANGED judged
  BY <1>1, <1>5, DoneFields DEF judged
<1>7. FeedInv'
  BY <1>1, <1>3, <1>5, FeedGrows DEF TruthInv, FeedInv
<1>8. LoadInv'
  BY <1>5, <1>6 DEF judged, TruthInv, LoadInv, InEffect
<1>9. ReadInv'
  BY <1>6 DEF ReadInv
<1>10. RestInv'
  <2> SUFFICES ASSUME ~pending, ~healthEvents PROVE TrueStatus(cr.status)'
    BY <1>5 DEF RestInv
  <2>1. TrueStatus(rec.status)
    BY <1>1 DEF TruthInv, ReadInv
  <2>2. cr'.status = rec.status
    BY <1>3, <1>5
  <2>3. QED
    BY <1>5, <1>6, <2>1, <2>2, SameJudgement DEF TrueStatus, judged
<1>11. QED
  BY <1>7, <1>8, <1>9, <1>10 DEF TruthInv

\* Every step keeps the truth of what the CR says, or owes a reconcile.
LEMMA TruthNext ==
  ASSUME ConfigTypeOK, TruthInv, [Next]_vars
  PROVE  TruthInv'
<1>1. CASE Operator
  BY <1>1, OperatorTruth
<1>2. CASE DeliverCR
  BY <1>2, DeliverTruth
<1>3. CASE Reconcile \/ ReconcileUnchecked \/ ReconcileSecretError
  <2>1. PICK read, skew : LoadAndStore(read, skew)
    BY <1>3 DEF Reconcile, ReconcileUnchecked, ReconcileSecretError
  <2>2. QED
    BY <2>1, LoadAndStoreSwaps, SwapsTruth
<1>4. CASE updateConditions \/ updateConditionsUnlisted
  BY <1>4, ReadConditionsTruth DEF updateConditions, updateConditionsUnlisted
<1>5. CASE UpdateStatus
  BY <1>5, UpdateStatusTruth
<1>6. CASE UpdateNotFound \/ UpdateConflict \/ UpdateError
  <2>1. rec \in reconcile
    BY DEF ConfigTypeOK
  <2>2. /\ cr' = cr /\ feed' = feed /\ cached' = cached /\ rec' = Done /\ store' = store
        /\ healthEvents' = healthEvents
        /\ (pending' = pending /\ ~cr.exists) \/ pending' = TRUE
    BY <1>6 DEF UpdateNotFound, UpdateConflict, UpdateError, Requeue, server, stored
  <2>3. rec'.pc = "idle" /\ rec'.state = rec.state
    BY <2>1, <2>2, DoneFields
  <2>4. FeedInv'
    BY <2>2 DEF TruthInv, FeedInv
  <2>5. LoadInv'
    BY <2>2, <2>3 DEF TruthInv, LoadInv, InEffect
  <2>6. ReadInv' /\ RestInv'
    BY <2>2, <2>3 DEF ReadInv, RestInv
  <2>7. QED
    BY <2>4, <2>5, <2>6 DEF TruthInv
<1>7. CASE NamespaceChanges
  <2>1. /\ cr' = cr /\ feed' = feed /\ cached' = cached /\ rec' = rec /\ pending' = TRUE
    BY <1>7 DEF NamespaceChanges, server
  <2>2. QED
    BY <2>1 DEF TruthInv, FeedInv, LoadInv, ReadInv, RestInv
<1>8. CASE HealthChanges
  <2>1. /\ cr' = cr /\ feed' = feed /\ cached' = cached /\ rec' = rec /\ pending' = pending
        /\ store' = store /\ healthEvents' = TRUE
    BY <1>8 DEF HealthChanges, server, stored
  <2>2. QED
    BY <2>1 DEF TruthInv, FeedInv, LoadInv, InEffect, ReadInv, RestInv
<1>9. CASE HealthSource
  <2>1. /\ cr' = cr /\ feed' = feed /\ cached' = cached /\ rec' = rec /\ pending' = TRUE
    BY <1>9 DEF HealthSource, server
  <2>2. QED
    BY <2>1 DEF TruthInv, FeedInv, LoadInv, ReadInv, RestInv
<1>10. CASE Restart
  <2>1. /\ cr' = cr /\ feed' = <<>> /\ cached' = cr /\ rec' = NoReconcile /\ pending' = TRUE
    BY <1>10 DEF Restart
  <2>2. rec'.pc = "idle"
    BY <2>1 DEF NoReconcile
  <2>3. QED
    BY <2>1, <2>2, Listed DEF TruthInv, FeedInv, LoadInv, ReadInv, RestInv
<1>11. CASE SecretChanges \/ SchemaChanges \/ ReconcileLoadError \/ WorkloadLoads
  <2>1. UNCHANGED truth
    BY <1>11 DEF SecretChanges, SchemaChanges, ReconcileLoadError, WorkloadLoads, truth, server,
                 world, stored
  <2>2. QED
    BY <2>1, SameTruth
<1>12. CASE Process
  <2>1. UNCHANGED truth
    BY <1>12 DEF Process, EmitBegins, EmitEnds, CloseSinks, Tick, truth, server, world, stored
  <2>2. QED
    BY <2>1, SameTruth
<1>13. CASE UNCHANGED vars
  <2>1. UNCHANGED truth
    BY <1>13 DEF vars, truth, server, world, stored
  <2>2. QED
    BY <2>1, SameTruth
<1>14. QED
  BY <1>1, <1>2, <1>3, <1>4, <1>5, <1>6, <1>7, <1>8, <1>9, <1>10, <1>11, <1>12, <1>13
     DEF Next, Controller, Faults, Environment

LEMMA TruthInit == Init => TruthInv
<1> SUFFICES ASSUME Init PROVE TruthInv
  OBVIOUS
<1>1. feed = <<>> /\ cached = cr /\ pending = TRUE /\ rec = NoReconcile
  BY DEF Init, ProcessInit
<1>2. rec.pc = "idle"
  BY <1>1 DEF NoReconcile
<1>3. QED
  BY <1>1, <1>2, Listed DEF TruthInv, FeedInv, LoadInv, ReadInv, RestInv

\* At rest the truth is complete.
LEMMA TruthIsCurrent ==
  ASSUME ConfigTypeOK, TruthInv
  PROVE  QuietMeansCurrent
<1> SUFFICES ASSUME Quiet
             PROVE  IF cr.exists
                    THEN /\ cr.status.gen = cr.gen
                         /\ cr.status.ready = (store.source = "config-cr")
                         /\ store.source = "config-cr" =>
                              /\ store.gen = cr.gen
                              /\ EqualKinds(store.kinds, parseWorkloadKinds(cr.spec.workloadKinds).set)
                         /\ cr.status.degraded = DegradedReason
                         /\ rec.listFailed \/ cr.status.optedIn = optedInNamespaces(store)
                    ELSE store = DefaultSnapshot
  BY DEF QuietMeansCurrent
<1>1. ~pending /\ rec.pc = "idle" /\ feed = <<>> /\ ~healthEvents
  BY DEF Quiet
<1>2. Len(feed) = 0
  BY <1>1
<1>3. cached = cr
  BY <1>2 DEF TruthInv, FeedInv, LeadsTo, Version
<1>4. ~ReloadAhead(cached, feed, 0)
  <2>1. (0 + 1)..Len(feed) = {}
    BY <1>2
  <2>2. QED
    BY <2>1 DEF ReloadAhead
<1>5. InEffect
  BY <1>1 DEF TruthInv, LoadInv
<1>6. CASE cr.exists
  <2>1. TrueStatus(cr.status)
    BY <1>1, <1>4, <1>6 DEF TruthInv, RestInv
  <2>2. \A s : EqualKinds(s, s)
    BY DEF EqualKinds
  <2>3. QED
    BY <1>3, <1>5, <1>6, <2>1, <2>2 DEF InEffect, TrueStatus
<1>7. CASE ~cr.exists
  BY <1>3, <1>5, <1>7 DEF InEffect
<1>8. QED
  BY <1>6, <1>7

\* Whenever the reconciler rests, the conditions on the CR are those of the
\* snapshot in effect and the snapshot is that of the CR, whatever conflicts,
\* failed calls, restarts, edits and events came in between: the predicates, the
\* requeue after an error and the optimistic lock of the status update together
\* leave no interleaving in which a stale status stays (updateConditions,
\* Reconcile and SetupWithManager of the configuration reconciler).
THEOREM RestTellsTheTruth == Spec => []QuietMeansCurrent
<1>1. Init => ConfigTypeOK /\ TruthInv
  BY TypeInit, TruthInit
<1>2. (ConfigTypeOK /\ TruthInv) /\ [Next]_vars => (ConfigTypeOK /\ TruthInv)'
  BY TypeNext, TruthNext
<1>3. ConfigTypeOK /\ TruthInv => QuietMeansCurrent
  BY TruthIsCurrent
<1>4. QED
  BY <1>1, <1>2, <1>3, PTL DEF Spec

-----------------------------------------------------------------------------
(* The sinks and the deliveries through them *)

Closing == {d.batch : d \in drains}
sinks == <<store, open, drains, emit>>

\* The snapshot's list is open and not about to be closed, every other open list
\* is about to be closed.
LEMMA OpenSinks ==
  ASSUME SinkInv
  PROVE  /\ Closing \subseteq open
         /\ open = Closing \cup ({store.batch} \ {0})
         /\ store.batch # 0 => store.batch \in open /\ store.batch \notin Closing
BY DEF SinkInv, SinksFollowSnapshot, Closing

\* A swap closes the old list and takes a new one, or shares the old one, or
\* there was none.
LEMMA SwapsSinks ==
  ASSUME ConfigTypeOK, SinkInv, NEW state \in {"missing", "valid", "invalid"},
         NEW batch \in 0..MaxBatches, NEW skew, Swaps(state, batch, skew)
  PROVE  \/ CloseOldSinks(store') = {} /\ store'.batch = store.batch /\ batch = 0
         \/ CloseOldSinks(store') = {} /\ store.batch = 0 /\ store'.batch = batch
         \/ /\ CloseOldSinks(store') = {[batch |-> store.batch, left |-> Ticks(SinkCloseDelay)]}
            /\ store.batch # 0 /\ store'.batch = batch
<1>1. store \in Snapshots
  BY DEF ConfigTypeOK
<1>2. batch # 0 => batch \notin open
  BY DEF Swaps, Fresh
<1>3. batch # 0 /\ store.batch # 0 => batch # store.batch
  BY <1>2, OpenSinks
<1>4. CASE state \in {"missing", "valid"}
  <2>1. store'.batch = batch /\ store'.source # "last-known-good"
    BY <1>4, DefaultIsSnapshot DEF Swaps, Stores
  <2>2. store' = store => store.batch = 0
    BY <1>3, <2>1
  <2>3. QED
    BY <2>1, <2>2 DEF CloseOldSinks
<1>5. CASE state = "invalid"
  <2>1. batch = 0 /\ Keeps
    BY <1>5 DEF Swaps, Stores
  <2>2. CASE store' = MarkAsLastKnownGood(store)
    <3>1. store'.source = "last-known-good" /\ store'.batch = store.batch
      BY <1>1, <2>2, SnapshotEdits
    <3>2. QED
      BY <2>1, <3>1 DEF CloseOldSinks
  <2>3. CASE store' = store
    BY <2>1, <2>3 DEF CloseOldSinks
  <2>4. CASE store' = DefaultSnapshot
    <3>1. store'.batch = 0 /\ store'.source = "compiled-defaults"
      BY <2>4, DefaultIsSnapshot
    <3>2. store' = store => store.batch = 0
      BY <3>1
    <3>3. QED
      BY <2>1, <3>1, <3>2 DEF CloseOldSinks
  <2>5. QED
    BY <2>1, <2>2, <2>3, <2>4 DEF Keeps
<1>6. QED
  BY <1>4, <1>5

LEMMA SwapsKeepSinks ==
  ASSUME ConfigTypeOK, SinkInv, EmitInv, NEW state \in {"missing", "valid", "invalid"},
         NEW batch \in 0..MaxBatches, NEW skew, Swaps(state, batch, skew)
  PROVE  SinkInv' /\ EmitInv'
<1>1. /\ open' = open \cup ({batch} \ {0})
      /\ drains' = drains \cup CloseOldSinks(store')
      /\ emit' = emit
      /\ batch # 0 => batch \notin open
  BY DEF Swaps, Fresh
<1>2. /\ emit \in delivery
      /\ drains \subseteq [batch : Batches, left : 0..Ticks(SinkCloseDelay)]
  BY DEF ConfigTypeOK
<1>3. CASE CloseOldSinks(store') = {} /\ store'.batch = store.batch /\ batch = 0
  <2>1. open' = open /\ drains' = drains
    BY <1>1, <1>3
  <2>2. SinkInv'
    BY <1>3, <2>1 DEF SinkInv, SinksFollowSnapshot
  <2>3. EmitInv'
    BY <1>1, <1>3, <2>1 DEF EmitInv
  <2>4. QED
    BY <2>2, <2>3
<1>4. CASE CloseOldSinks(store') = {} /\ store.batch = 0 /\ store'.batch = batch
  <2>1. drains' = drains
    BY <1>1, <1>4
  <2>2. open = Closing
    BY <1>4, OpenSinks
  <2>3. open' \ Closing = {batch} \ {0}
    BY <1>1, <2>2
  <2>4. SinkInv'
    BY <1>1, <1>4, <2>1, <2>3 DEF SinkInv, SinksFollowSnapshot, Closing
  <2>5. EmitInv'
    BY <1>1, <1>4, <2>1 DEF EmitInv
  <2>6. QED
    BY <2>4, <2>5
<1>5. CASE /\ CloseOldSinks(store') = {[batch |-> store.batch, left |-> Ticks(SinkCloseDelay)]}
           /\ store.batch # 0 /\ store'.batch = batch
  <2> DEFINE new == [batch |-> store.batch, left |-> Ticks(SinkCloseDelay)]
  <2>1. new.batch = store.batch /\ new.left = Ticks(SinkCloseDelay)
    OBVIOUS
  <2>2. drains' = drains \cup {new}
    BY <1>1, <1>5
  <2> HIDE DEF new
  <2>3. Closing' = Closing \cup {store.batch}
    BY <2>1, <2>2 DEF Closing
  <2>4. open = Closing \cup {store.batch} /\ store.batch \notin Closing
    BY <1>5, OpenSinks
  <2>5. open' \ Closing' = {batch} \ {0}
    BY <1>1, <2>3, <2>4
  <2>6. SinksFollowSnapshot'
    BY <1>5, <2>5 DEF SinksFollowSnapshot, Closing
  <2>7. \A d \in drains' : d.batch \in open'
    BY <1>1, <2>1, <2>2, <2>4 DEF SinkInv
  <2>8. \A d, e \in drains' : d.batch = e.batch => d = e
    <3>1. \A d \in drains : d.batch # new.batch
      BY <2>1, <2>4 DEF Closing
    <3>2. QED
      BY <2>2, <3>1 DEF SinkInv
  <2>9. SinkInv'
    BY <2>6, <2>7, <2>8 DEF SinkInv
  <2>10. EmitInv'
    <3>1. emit.left \in Nat /\ emit.left <= Ticks(DefaultExternalSinkTimeout)
      BY <1>2 DEF EmitInv, delivery
    <3>2. Ticks(SinkCloseDelay) > emit.left
      BY <3>1, ConfigConstants
    <3>3. ASSUME emit.pc = "emitting", ~emit.late
          PROVE  \E d \in drains' : d.batch = emit.batch /\ d.left > emit.left
      BY <2>1, <2>2, <3>2, <3>3 DEF EmitInv
    <3>4. QED
      BY <1>1, <3>3 DEF EmitInv
  <2>11. QED
    BY <2>9, <2>10
<1>6. QED
  BY <1>3, <1>4, <1>5, SwapsSinks

\* A timer closes its own list and no other.
LEMMA CloseSinksKeeps ==
  ASSUME ConfigTypeOK, SinkInv, EmitInv, CloseSinks
  PROVE  SinkInv' /\ EmitInv'
<1>1. PICK d \in drains : /\ d.left = 0 \/ emit.pc # "emitting"
                          /\ drains' = drains \ {d}
                          /\ open' = open \ {d.batch}
  BY DEF CloseSinks
<1>2. store' = store /\ emit' = emit
  BY DEF CloseSinks
<1>3. \A e \in drains : e # d => e.batch # d.batch
  BY DEF SinkInv
<1>4. Closing' = Closing \ {d.batch}
  BY <1>1, <1>3 DEF Closing
<1>5. d.batch \in Closing
  BY DEF Closing
<1>6. open' \ Closing' = {store.batch} \ {0}
  BY <1>1, <1>4, <1>5, OpenSinks
<1>7. SinksFollowSnapshot'
  BY <1>2, <1>6 DEF SinksFollowSnapshot, Closing
<1>8. SinkInv'
  BY <1>1, <1>3, <1>7 DEF SinkInv
<1>9. EmitInv'
  <2>1. emit.left \in Nat
    BY DEF ConfigTypeOK, delivery
  <2>2. ASSUME emit.pc = "emitting", NEW e \in drains, e.left > emit.left
        PROVE  e \in drains'
    BY <1>1, <2>1, <2>2
  <2>3. QED
    BY <1>2, <2>2 DEF EmitInv
<1>10. QED
  BY <1>8, <1>9

\* Time passes for the delivery and for every timer alike.
LEMMA TickKeeps ==
  ASSUME ConfigTypeOK, SinkInv, EmitInv, Tick
  PROVE  SinkInv' /\ EmitInv'
<1> DEFINE down(d) == [d EXCEPT !.left = IF @ > 0 THEN @ - 1 ELSE 0]
<1>1. /\ emit \in delivery
      /\ drains \subseteq [batch : Batches, left : 0..Ticks(SinkCloseDelay)]
  BY DEF ConfigTypeOK
<1>2. /\ drains' = {down(d) : d \in drains} /\ store' = store /\ open' = open
      /\ emit' = [emit EXCEPT !.left = @ - 1] /\ emit.left > 0
  BY DEF Tick
<1>3. /\ emit'.pc = emit.pc /\ emit'.batch = emit.batch /\ emit'.late = emit.late
      /\ emit'.left = emit.left - 1 /\ emit.left \in Nat
  BY <1>1, <1>2 DEF delivery
<1>4. ASSUME NEW d \in drains
      PROVE  /\ down(d).batch = d.batch /\ d.left \in Nat
             /\ d.left > 0 => down(d).left = d.left - 1
  <2>1. d \in [batch : Batches, left : 0..Ticks(SinkCloseDelay)]
    BY <1>1
  <2>2. Ticks(SinkCloseDelay) \in Nat
    BY ConfigConstants
  <2>3. d.left \in Nat
    BY <2>1, <2>2
  <2>4. down(d).batch = d.batch /\ down(d).left = IF d.left > 0 THEN d.left - 1 ELSE 0
    BY <2>1
  <2>5. QED
    BY <2>3, <2>4
<1> HIDE DEF down
<1>5. Closing' = Closing
  BY <1>2, <1>4 DEF Closing
<1>6. SinksFollowSnapshot'
  BY <1>2, <1>5 DEF SinkInv, SinksFollowSnapshot, Closing
<1>7. \A d \in drains' : d.batch \in open'
  BY <1>2, <1>4 DEF SinkInv
<1>8. \A d, e \in drains' : d.batch = e.batch => d = e
  BY <1>2, <1>4 DEF SinkInv
<1>9. SinkInv'
  BY <1>6, <1>7, <1>8 DEF SinkInv
<1>10. EmitInv'
  <2>1. ASSUME NEW d \in drains, d.batch = emit.batch, d.left > emit.left
        PROVE  down(d) \in drains' /\ down(d).batch = emit'.batch /\ down(d).left > emit'.left
    <3>1. d.left > 0 /\ d.left \in Nat
      BY <1>3, <1>4, <2>1
    <3>2. down(d).left > emit.left - 1
      BY <1>3, <1>4, <2>1, <3>1
    <3>3. QED
      BY <1>2, <1>3, <1>4, <2>1, <3>2
  <2>2. Ticks(DefaultExternalSinkTimeout) \in Nat
    BY ConfigConstants
  <2>3. emit'.left <= Ticks(DefaultExternalSinkTimeout)
    BY <1>3, <2>2 DEF EmitInv
  <2>4. QED
    BY <1>2, <1>3, <2>1, <2>3 DEF EmitInv
<1>11. QED
  BY <1>9, <1>10

\* Every step keeps the books of the sinks.
LEMMA SinksNext ==
  ASSUME ConfigTypeOK, SinkInv, EmitInv, [Next]_vars
  PROVE  SinkInv' /\ EmitInv'
<1>1. CASE Reconcile \/ ReconcileUnchecked \/ ReconcileSecretError
  <2>1. PICK read, skew : LoadAndStore(read, skew)
    BY <1>1 DEF Reconcile, ReconcileUnchecked, ReconcileSecretError
  <2>2. QED
    BY <2>1, LoadAndStoreSwaps, SwapsKeepSinks
<1>2. CASE CloseSinks
  BY <1>2, CloseSinksKeeps
<1>3. CASE Tick
  BY <1>3, TickKeeps
<1>4. CASE WorkloadLoads
  <2>1. /\ store' = store /\ open' = open /\ drains' = drains /\ store.batch # 0
        /\ emit' = [NoDelivery EXCEPT !.pc = "loaded", !.batch = store.batch]
    BY <1>4 DEF WorkloadLoads, stored
  <2>2. emit'.pc = "loaded" /\ emit'.batch = store.batch /\ emit'.left = 0
    BY <2>1 DEF NoDelivery
  <2>3. Ticks(DefaultExternalSinkTimeout) \in Nat
    BY ConfigConstants
  <2>4. 0 <= Ticks(DefaultExternalSinkTimeout)
    BY <2>3
  <2>5. SinkInv'
    BY <2>1 DEF SinkInv, SinksFollowSnapshot
  <2>6. EmitInv'
    BY <2>1, <2>2, <2>4 DEF EmitInv
  <2>7. QED
    BY <2>5, <2>6
<1>5. CASE EmitBegins
  <2>1. /\ store' = store /\ open' = open /\ drains' = drains /\ emit.pc = "loaded"
        /\ emit' = [emit EXCEPT !.pc = "emitting", !.left = Ticks(DefaultExternalSinkTimeout),
                                !.late = emit.batch # store.batch]
    BY <1>5 DEF EmitBegins, stored
  <2>2. emit \in delivery
    BY DEF ConfigTypeOK
  <2>3. /\ emit'.batch = emit.batch /\ emit'.left = Ticks(DefaultExternalSinkTimeout)
        /\ emit'.late = (emit.batch # store.batch)
    BY <2>1, <2>2 DEF delivery
  <2>4. Ticks(DefaultExternalSinkTimeout) \in Nat
    BY ConfigConstants
  <2>5. Ticks(DefaultExternalSinkTimeout) <= Ticks(DefaultExternalSinkTimeout)
    BY <2>4
  <2>6. SinkInv'
    BY <2>1 DEF SinkInv, SinksFollowSnapshot
  <2>7. EmitInv'
    BY <2>1, <2>3, <2>5 DEF EmitInv
  <2>8. QED
    BY <2>6, <2>7
<1>6. CASE EmitEnds \/ Restart
  <2>1. emit' = NoDelivery
    BY <1>6 DEF EmitEnds, Restart
  <2>2. emit'.pc = "idle" /\ emit'.left = 0
    BY <2>1 DEF NoDelivery
  <2>3. Ticks(DefaultExternalSinkTimeout) \in Nat
    BY ConfigConstants
  <2>4. 0 <= Ticks(DefaultExternalSinkTimeout)
    BY <2>3
  <2>5. EmitInv'
    BY <2>2, <2>4 DEF EmitInv
  <2>6. SinkInv'
    <3>1. CASE EmitEnds
      BY <3>1 DEF EmitEnds, stored, SinkInv, SinksFollowSnapshot
    <3>2. CASE Restart
      BY <3>2, DefaultIsSnapshot DEF Restart, SinkInv, SinksFollowSnapshot
    <3>3. QED
      BY <1>6, <3>1, <3>2
  <2>7. QED
    BY <2>5, <2>6
<1>7. ASSUME UNCHANGED sinks
      PROVE  SinkInv' /\ EmitInv'
  BY <1>7 DEF sinks, SinkInv, SinksFollowSnapshot, EmitInv
<1>8. CASE Operator \/ SecretChanges \/ SchemaChanges \/ NamespaceChanges \/ HealthChanges
  BY <1>7, <1>8 DEF Operator, SecretChanges, SchemaChanges, NamespaceChanges, HealthChanges,
                    stored, sinks
<1>9. CASE HealthSource \/ DeliverCR \/ ReconcileLoadError
  BY <1>7, <1>9 DEF HealthSource, DeliverCR, ReconcileLoadError, stored, sinks
<1>10. CASE updateConditions \/ updateConditionsUnlisted
  BY <1>7, <1>10 DEF updateConditions, updateConditionsUnlisted, ReadConditions, stored, sinks
<1>11. CASE UpdateStatus \/ UpdateNotFound \/ UpdateConflict \/ UpdateError
  BY <1>7, <1>11 DEF UpdateStatus, UpdateNotFound, UpdateConflict, UpdateError, Requeue, stored,
                     sinks
<1>12. CASE UNCHANGED vars
  BY <1>7, <1>12 DEF vars, stored, sinks
<1>13. QED
  BY <1>1, <1>2, <1>3, <1>4, <1>5, <1>6, <1>8, <1>9, <1>10, <1>11, <1>12
     DEF Next, Controller, Process, Faults, Environment

LEMMA SinksInit == Init => SinkInv /\ EmitInv
<1> SUFFICES ASSUME Init PROVE SinkInv /\ EmitInv
  OBVIOUS
<1>1. store = DefaultSnapshot /\ open = {} /\ drains = {} /\ emit = NoDelivery
  BY DEF Init, ProcessInit
<1>2. emit.pc = "idle" /\ emit.left = 0
  BY <1>1 DEF NoDelivery
<1>3. Ticks(DefaultExternalSinkTimeout) \in Nat
  BY ConfigConstants
<1>4. 0 <= Ticks(DefaultExternalSinkTimeout)
  BY <1>3
<1>5. EmitInv
  BY <1>2, <1>4 DEF EmitInv
<1>6. SinkInv
  BY <1>1, DefaultIsSnapshot DEF SinkInv, SinksFollowSnapshot
<1>7. QED
  BY <1>5, <1>6

\* ConfigInv holds in every reachable state.
THEOREM ConfigInvariant == Spec => []ConfigInv
<1>1. Init => ConfigInv
  BY TypeInit, TruthInit, SinksInit DEF ConfigInv, TruthInv
<1>2. ConfigInv /\ [Next]_vars => ConfigInv'
  BY TypeNext, TruthNext, SinksNext DEF ConfigInv, TruthInv
<1>3. QED
  BY <1>1, <1>2, PTL DEF Spec

\* The lists of sinks that are open and not about to be closed are those of the
\* snapshot in effect: no swap, rejected spec or retained snapshot leaks a list or
\* closes one that is in use (parseSpec's close of discarded sinks, retainSinks
\* and CloseOldSinks in Reconcile).
THEOREM OpenSinksAreInUse == Spec => []SinksFollowSnapshot
<1>1. ConfigInv => SinksFollowSnapshot
  BY DEF ConfigInv, SinkInv
<1>2. QED
  BY <1>1, ConfigInvariant, PTL

\* A delivery that began on the current snapshot is over before its sinks are
\* closed, however often the snapshot is swapped while it runs, on every clock
\* that tells the sink timeout from the delay of the closing.
THEOREM DeliveryOutlivesSwap == Spec => []DeliverySurvivesSwap
<1>1. ConfigInv => DeliverySurvivesSwap
  <2> SUFFICES ASSUME ConfigInv, emit.pc = "emitting", ~emit.late PROVE emit.batch \in open
    BY DEF DeliverySurvivesSwap
  <2>1. SinkInv /\ EmitInv
    BY DEF ConfigInv
  <2>2. CASE emit.batch = store.batch
    BY <2>1, <2>2, OpenSinks DEF EmitInv
  <2>3. CASE \E d \in drains : d.batch = emit.batch /\ d.left > emit.left
    BY <2>1, <2>3 DEF SinkInv
  <2>4. QED
    BY <2>1, <2>2, <2>3 DEF EmitInv
<1>2. QED
  BY <1>1, ConfigInvariant, PTL

-----------------------------------------------------------------------------
(* What a step may do to the configuration in effect *)

\* The step property behind OnlyDeletionReverts.
Reverts ==
  lastObserved' # "unknown" =>
    /\ store.source # "compiled-defaults" /\ store'.source = "compiled-defaults"
         => ~cached.exists
    /\ store'.source = "last-known-good"
         => store' = [store EXCEPT !.source = "last-known-good"]

LEMMA StepReverts ==
  ASSUME ConfigTypeOK, [Next]_vars
  PROVE  Reverts
<1>1. store \in Snapshots
  BY DEF ConfigTypeOK
<1>2. store.source = "last-known-good" => store = [store EXCEPT !.source = "last-known-good"]
  BY <1>1 DEF Snapshots
<1>3. ASSUME store' = store PROVE Reverts
  BY <1>2, <1>3 DEF Reverts
<1>4. CASE Reconcile \/ ReconcileUnchecked \/ ReconcileSecretError
  <2>1. PICK read, skew : LoadAndStore(read, skew)
    BY <1>4 DEF Reconcile, ReconcileUnchecked, ReconcileSecretError
  <2>2. PICK state \in {"missing", "valid", "invalid"}, batch \in 0..MaxBatches :
          Swaps(state, batch, skew)
    BY <2>1, LoadAndStoreSwaps
  <2>3. Stores(state, batch)
    BY <2>2 DEF Swaps
  <2>4. CASE state = "missing"
    BY <2>3, <2>4, DefaultIsSnapshot DEF Stores, Reverts
  <2>5. CASE state = "valid"
    BY <2>3, <2>5 DEF Stores, Reverts
  <2>6. CASE state = "invalid"
    <3>1. Keeps
      BY <2>3, <2>6 DEF Stores
    <3>2. CASE store.source = "config-cr" /\ store' = MarkAsLastKnownGood(store)
      <4>1. store'.source = "last-known-good"
        BY <1>1, <2>2, <3>2, SnapshotEdits
      <4>2. QED
        BY <3>2, <4>1 DEF Reverts, MarkAsLastKnownGood
    <3>3. CASE store' = store
      BY <1>3, <3>3
    <3>4. CASE store.source = "compiled-defaults" /\ store' = DefaultSnapshot
      BY <3>4, DefaultIsSnapshot DEF Reverts
    <3>5. QED
      BY <3>1, <3>2, <3>3, <3>4 DEF Keeps
  <2>7. QED
    BY <2>4, <2>5, <2>6
<1>5. CASE Restart
  BY <1>5 DEF Restart, Reverts
<1>6. CASE Operator \/ SecretChanges \/ SchemaChanges \/ NamespaceChanges \/ HealthChanges
           \/ WorkloadLoads
  BY <1>3, <1>6 DEF Operator, SecretChanges, SchemaChanges, NamespaceChanges, HealthChanges,
                    WorkloadLoads, stored
<1>7. CASE HealthSource \/ DeliverCR \/ ReconcileLoadError
  BY <1>3, <1>7 DEF HealthSource, DeliverCR, ReconcileLoadError, stored
<1>8. CASE updateConditions \/ updateConditionsUnlisted
  BY <1>3, <1>8 DEF updateConditions, updateConditionsUnlisted, ReadConditions, stored
<1>9. CASE UpdateStatus \/ UpdateNotFound \/ UpdateConflict \/ UpdateError
  BY <1>3, <1>9 DEF UpdateStatus, UpdateNotFound, UpdateConflict, UpdateError, Requeue, stored
<1>10. CASE Process
  BY <1>3, <1>10 DEF Process, EmitBegins, EmitEnds, CloseSinks, Tick, stored
<1>11. CASE UNCHANGED vars
  BY <1>3, <1>11 DEF vars, stored
<1>12. QED
  BY <1>4, <1>5, <1>6, <1>7, <1>8, <1>9, <1>10, <1>11
     DEF Next, Controller, Faults, Environment

\* While the process lives only the deletion of the CR brings the defaults back,
\* and an invalid spec changes nothing but the label of the snapshot in effect
\* (SnapshotToStore and MarkAsLastKnownGood in Reconcile).
THEOREM OnlyDeletion == Spec => OnlyDeletionReverts
<1>1. ConfigTypeOK /\ [Next]_vars => [Reverts]_vars
  BY StepReverts
<1>2. QED
  BY <1>1, ConfigTypeCorrect, PTL DEF Spec, OnlyDeletionReverts, Reverts

-----------------------------------------------------------------------------
(* Refinement: the configuration implements ConfigStore.                    *)

\* The list of a delivery that began while it was in effect, as ConfigStore sees it.
InUse == IF emit.pc = "emitting" /\ ~emit.late THEN emit.batch ELSE 0
Seen == [exists |-> cached.exists, gen |-> cached.gen]

\* A store labelled as the defaults holds the defaults, and a reconcile that has
\* swapped knows the state it will record.
DefaultsInv ==
  /\ store.source = "compiled-defaults" => store = DefaultSnapshot
  /\ rec.pc # "idle" => rec.state # "unknown"

\* What a swap is to those who load the snapshot: it is the new spec's, with sinks
\* that were not open, the old one under the other label, the defaults for want of
\* a CR, or nothing new.
LEMMA SwapsRefine ==
  ASSUME ConfigInv, DefaultsInv, NEW state \in {"missing", "valid", "invalid"},
         NEW batch \in 0..MaxBatches, NEW skew, Swaps(state, batch, skew)
  PROVE  /\ S!Accept \/ S!Retain \/ S!Revert \/ UNCHANGED S!svars
         /\ DefaultsInv'
<1>1. store \in Snapshots
  BY DEF ConfigInv, ConfigTypeOK
<1>2. cached' = cached /\ emit' = emit
  BY DEF Swaps, server
<1>3. Seen' = Seen /\ InUse' = InUse
  BY <1>2 DEF Seen, InUse
<1>4. rec'.state # "unknown"
  <2>1. rec' = [NoReconcile EXCEPT !.pc = IF state = "missing" THEN "idle" ELSE "stored",
                                   !.state = state, !.skew = skew]
    BY DEF Swaps
  <2>2. rec'.state = state
    BY <2>1 DEF NoReconcile
  <2>3. QED
    BY <2>2
<1>5. /\ lastObserved' = "unknown" => lastObserved = "unknown"
      /\ state # "missing" => lastObserved' = lastObserved
  BY DEF Swaps
<1>6. Stores(state, batch) /\ open' = open \cup ({batch} \ {0}) /\ (batch # 0 => batch \notin open)
  BY DEF Swaps, Fresh
<1>7. CASE state = "missing"
  <2>1. ~Seen.exists /\ store' = DefaultSnapshot /\ open' = open
    BY <1>6, <1>7 DEF Stores, Seen
  <2>2. S!Revert
    BY <1>3, <1>5, <2>1 DEF S!Revert, S!Told, Seen, InUse
  <2>3. QED
    BY <1>4, <2>1, <2>2 DEF DefaultsInv
<1>8. CASE state = "valid"
  <2>1. /\ Seen.exists /\ store' \in Snapshots /\ store'.source = "config-cr"
        /\ store'.gen = Seen.gen /\ store'.batch = batch
    BY <1>6, <1>8 DEF Stores, Seen
  <2>2. 0 \notin open
    BY DEF ConfigInv, ConfigTypeOK, Batches
  <2>3. S!Accept
    BY <1>3, <1>5, <1>6, <2>1, <2>2 DEF S!Accept, S!Told, Seen, InUse
  <2>4. QED
    BY <1>4, <2>1, <2>3 DEF DefaultsInv
<1>9. CASE state = "invalid"
  <2>1. Keeps /\ Seen.exists /\ open' = open
    BY <1>6, <1>9 DEF Stores, Seen
  <2>2. CASE store.source = "config-cr" /\ store' = MarkAsLastKnownGood(store)
    <3>1. store' = [store EXCEPT !.source = "last-known-good"]
      BY <2>2 DEF MarkAsLastKnownGood
    <3>2. S!Retain
      BY <1>3, <1>5, <2>1, <2>2, <3>1 DEF S!Retain, S!Told, Seen, InUse
    <3>3. store'.source = "last-known-good"
      BY <1>1, <2>2, SnapshotEdits
    <3>4. QED
      BY <1>4, <3>2, <3>3 DEF DefaultsInv
  <2>3. CASE store' = store
    BY <1>3, <1>9, <1>4, <1>5, <2>1, <2>3 DEF S!svars, Seen, InUse, DefaultsInv
  <2>4. CASE store.source = "compiled-defaults" /\ store' = DefaultSnapshot
    BY <1>3, <1>9, <1>4, <1>5, <2>1, <2>4 DEF S!svars, Seen, InUse, DefaultsInv
  <2>5. QED
    BY <2>1, <2>2, <2>3, <2>4 DEF Keeps
<1>10. QED
  BY <1>7, <1>8, <1>9

\* A list that a timer closes is not in effect, and no delivery that began while
\* it was is under way: its timer would have time left.
LEMMA CloseRefines ==
  ASSUME ConfigInv, CloseSinks
  PROVE  S!Close
<1>1. PICK d \in drains : /\ d.left = 0 \/ emit.pc # "emitting"
                          /\ drains' = drains \ {d}
                          /\ open' = open \ {d.batch}
  BY DEF CloseSinks
<1>2. store' = store /\ emit' = emit /\ cached' = cached /\ lastObserved' = lastObserved
  BY DEF CloseSinks, server
<1>3. Seen' = Seen /\ InUse' = InUse
  BY <1>2 DEF Seen, InUse
<1>4. SinkInv /\ EmitInv /\ ConfigTypeOK
  BY DEF ConfigInv
<1>5. d.batch \in Closing /\ d.batch \in open /\ d.batch # 0
  BY <1>4 DEF Closing, SinkInv, ConfigTypeOK, Batches
<1>6. d.batch # store.batch
  BY <1>4, <1>5, OpenSinks
<1>7. d.batch # InUse
  <2>1. CASE emit.pc = "emitting" /\ ~emit.late
    <3>1. d.left = 0 /\ emit.left \in Nat
      BY <1>1, <1>4, <2>1 DEF ConfigTypeOK, delivery
    <3>2. \A e \in drains : e.batch = d.batch => e = d
      BY <1>4 DEF SinkInv
    <3>3. ~ \E e \in drains : e.batch = d.batch /\ e.left > emit.left
      BY <3>1, <3>2
    <3>4. d.batch # emit.batch
      BY <1>4, <1>6, <2>1, <3>3 DEF EmitInv
    <3>5. QED
      BY <2>1, <3>4 DEF InUse
  <2>2. QED
    BY <1>5, <2>1 DEF InUse
<1>8. QED
  BY <1>1, <1>2, <1>3, <1>5, <1>6, <1>7 DEF S!Close, Seen, InUse

\* A delivery begins on the snapshot in effect, or does not count.
LEMMA EmitBeginsRefines ==
  ASSUME ConfigInv, EmitBegins
  PROVE  S!BeginDelivery \/ UNCHANGED S!svars
<1>1. /\ store' = store /\ open' = open /\ cached' = cached /\ lastObserved' = lastObserved
      /\ emit.pc = "loaded"
      /\ emit' = [emit EXCEPT !.pc = "emitting", !.left = Ticks(DefaultExternalSinkTimeout),
                              !.late = emit.batch # store.batch]
  BY DEF EmitBegins, stored, server
<1>2. emit \in delivery /\ emit.batch # 0
  BY <1>1 DEF ConfigInv, ConfigTypeOK, EmitInv
<1>3. emit'.pc = "emitting" /\ emit'.batch = emit.batch /\ emit'.late = (emit.batch # store.batch)
  BY <1>1, <1>2 DEF delivery
<1>4. Seen' = Seen /\ InUse = 0
  BY <1>1 DEF Seen, InUse
<1>5. CASE emit.batch = store.batch
  <2>1. InUse' = store.batch
    BY <1>3, <1>5 DEF InUse
  <2>2. QED
    BY <1>1, <1>2, <1>4, <1>5, <2>1 DEF S!BeginDelivery, Seen, InUse
<1>6. CASE emit.batch # store.batch
  <2>1. InUse' = 0
    BY <1>3, <1>6 DEF InUse
  <2>2. QED
    BY <1>1, <1>4, <2>1 DEF S!svars, Seen, InUse
<1>7. QED
  BY <1>5, <1>6

\* Every step is a step of ConfigStore or leaves it alone.
LEMMA StoreNext ==
  ASSUME ConfigInv, DefaultsInv, [Next]_vars
  PROVE  [S!SNext]_(S!svars) /\ DefaultsInv'
<1>1. CASE Reconcile \/ ReconcileUnchecked \/ ReconcileSecretError
  <2>1. PICK read, skew : LoadAndStore(read, skew)
    BY <1>1 DEF Reconcile, ReconcileUnchecked, ReconcileSecretError
  <2>2. PICK state \in {"missing", "valid", "invalid"}, batch \in 0..MaxBatches :
          Swaps(state, batch, skew)
    BY <2>1, LoadAndStoreSwaps DEF ConfigInv
  <2>3. QED
    BY <2>2, SwapsRefine DEF S!SNext
<1>2. CASE CloseSinks
  <2>1. S!Close
    BY <1>2, CloseRefines
  <2>2. store' = store /\ rec' = rec
    BY <1>2 DEF CloseSinks
  <2>3. QED
    BY <2>1, <2>2 DEF S!SNext, DefaultsInv
<1>3. CASE EmitBegins
  <2>1. S!BeginDelivery \/ UNCHANGED S!svars
    BY <1>3, EmitBeginsRefines
  <2>2. store' = store /\ rec' = rec
    BY <1>3 DEF EmitBegins, stored
  <2>3. QED
    BY <2>1, <2>2 DEF S!SNext, DefaultsInv
<1>4. CASE EmitEnds
  <2>1. /\ store' = store /\ open' = open /\ cached' = cached /\ emit' = NoDelivery
        /\ rec' = rec /\ lastObserved' = lastObserved
    BY <1>4 DEF EmitEnds, stored, server
  <2>2. Seen' = Seen /\ InUse' = 0
    BY <2>1 DEF Seen, InUse, NoDelivery
  <2>3. S!EndDelivery
    BY <2>1, <2>2 DEF S!EndDelivery, Seen, InUse
  <2>4. QED
    BY <2>1, <2>3 DEF S!SNext, DefaultsInv
<1>5. CASE Restart
  <2>1. /\ store' = DefaultSnapshot /\ open' = {} /\ emit' = NoDelivery
        /\ rec' = NoReconcile /\ lastObserved' = "unknown"
    BY <1>5 DEF Restart
  <2>2. InUse' = 0 /\ rec'.pc = "idle"
    BY <2>1 DEF InUse, NoDelivery, NoReconcile
  <2>3. S!RestartProcess
    BY <2>1, <2>2 DEF S!RestartProcess, InUse
  <2>4. QED
    BY <2>1, <2>2, <2>3 DEF S!SNext, DefaultsInv
<1>6. ASSUME store' = store, open' = open, InUse' = InUse,
             lastObserved' = lastObserved \/ lastObserved' # "unknown",
             rec'.pc # "idle" => rec'.state # "unknown"
      PROVE  [S!SNext]_(S!svars) /\ DefaultsInv'
  <2>1. S!Observe
    BY <1>6 DEF S!Observe, S!Told, InUse
  <2>2. QED
    BY <1>6, <2>1 DEF S!SNext, DefaultsInv
<1>7. CASE WorkloadLoads
  <2>1. /\ store' = store /\ open' = open /\ emit.pc = "idle"
        /\ rec' = rec /\ lastObserved' = lastObserved
        /\ emit' = [NoDelivery EXCEPT !.pc = "loaded", !.batch = store.batch]
    BY <1>7 DEF WorkloadLoads, stored
  <2>2. emit'.pc = "loaded"
    BY <2>1 DEF NoDelivery
  <2>3. InUse' = InUse
    BY <2>1, <2>2 DEF InUse
  <2>4. QED
    BY <1>6, <2>1, <2>3 DEF DefaultsInv
<1>8. CASE Tick
  <2>1. /\ store' = store /\ open' = open /\ emit' = [emit EXCEPT !.left = @ - 1]
        /\ rec' = rec /\ lastObserved' = lastObserved
    BY <1>8 DEF Tick
  <2>2. emit \in delivery
    BY DEF ConfigInv, ConfigTypeOK
  <2>3. emit'.pc = emit.pc /\ emit'.late = emit.late /\ emit'.batch = emit.batch
    BY <2>1, <2>2 DEF delivery
  <2>4. InUse' = InUse
    BY <2>3 DEF InUse
  <2>5. QED
    BY <1>6, <2>1, <2>4 DEF DefaultsInv
<1>9. ASSUME UNCHANGED <<stored, emit>>,
             lastObserved' = lastObserved \/ lastObserved' # "unknown",
             rec'.pc # "idle" => rec'.state # "unknown"
      PROVE  [S!SNext]_(S!svars) /\ DefaultsInv'
  <2>1. store' = store /\ open' = open /\ InUse' = InUse
    BY <1>9 DEF stored, InUse
  <2>2. QED
    BY <1>6, <1>9, <2>1
<1>10. rec \in reconcile
  BY DEF ConfigInv, ConfigTypeOK
<1>11. CASE Operator
  <2>1. /\ rec' = [rec EXCEPT !.conflict = @ \/ rec.pc = "read"]
        /\ UNCHANGED <<stored, emit, lastObserved>>
    BY <1>11 DEF Operator
  <2>2. rec'.pc = rec.pc /\ rec'.state = rec.state
    BY <1>10, <2>1 DEF reconcile
  <2>3. QED
    BY <1>9, <2>1, <2>2 DEF DefaultsInv
<1>12. CASE UNCHANGED <<stored, emit, rec, lastObserved>>
  BY <1>9, <1>12 DEF DefaultsInv
<1>13. CASE SecretChanges \/ SchemaChanges \/ NamespaceChanges \/ HealthChanges
  BY <1>12, <1>13 DEF SecretChanges, SchemaChanges, NamespaceChanges, HealthChanges
<1>14. CASE HealthSource \/ DeliverCR \/ ReconcileLoadError
  BY <1>12, <1>14 DEF HealthSource, DeliverCR, ReconcileLoadError
<1>15. ASSUME rec.pc # "idle", rec' = Done, UNCHANGED <<stored, emit>>,
              lastObserved' \in {lastObserved, rec.state}
       PROVE  [S!SNext]_(S!svars) /\ DefaultsInv'
  <2>1. Done.pc = "idle"
    BY <1>10 DEF Done, reconcile
  <2>2. QED
    BY <1>9, <1>15, <2>1 DEF DefaultsInv
<1>16. CASE updateConditions \/ updateConditionsUnlisted
  <2>1. PICK listed \in BOOLEAN : ReadConditions(listed)
    BY <1>16 DEF updateConditions, updateConditionsUnlisted
  <2>2. rec.pc = "stored" /\ UNCHANGED <<stored, emit>>
    BY <2>1 DEF ReadConditions
  <2>3. CASE cached.exists
    <3>1. lastObserved' = lastObserved
      BY <2>1, <2>3 DEF ReadConditions
    <3>2. rec'.state = rec.state
      BY <1>10, <2>1, <2>3 DEF ReadConditions, reconcile
    <3>3. QED
      BY <1>9, <2>2, <3>1, <3>2 DEF DefaultsInv
  <2>4. CASE ~cached.exists
    BY <1>15, <2>1, <2>2, <2>4 DEF ReadConditions
  <2>5. QED
    BY <2>3, <2>4
<1>17. CASE UpdateStatus \/ UpdateNotFound \/ UpdateConflict \/ UpdateError
  BY <1>15, <1>17 DEF UpdateStatus, UpdateNotFound, UpdateConflict, UpdateError, Requeue
<1>18. CASE UNCHANGED vars
  BY <1>12, <1>18 DEF vars
<1>19. QED
  BY <1>1, <1>2, <1>3, <1>4, <1>5, <1>7, <1>8, <1>11, <1>13, <1>14, <1>16, <1>17, <1>18
     DEF Next, Controller, Process, Faults, Environment

LEMMA StoreInit == Init => S!SInit /\ DefaultsInv
<1> SUFFICES ASSUME Init PROVE S!SInit /\ DefaultsInv
  OBVIOUS
<1>1. /\ store = DefaultSnapshot /\ open = {} /\ emit = NoDelivery
      /\ rec = NoReconcile /\ lastObserved = "unknown"
  BY DEF Init, ProcessInit
<1>2. InUse = 0 /\ rec.pc = "idle"
  BY <1>1 DEF InUse, NoDelivery, NoReconcile
<1>3. QED
  BY <1>1, <1>2 DEF S!SInit, DefaultsInv, InUse

\* The configuration implements ConfigStore: whatever the queue, the conflicts,
\* the failed reads and the timers do, those who load a snapshot see it replaced
\* as a whole, by one the CR in the cache accounts for, and its sinks closed when
\* nobody who found it in effect delivers through them any more.
THEOREM ConfigurationImplementsStore == Spec => ImplementsStore
<1>1. ConfigInv /\ DefaultsInv /\ [Next]_vars => [S!SNext]_(S!svars) /\ DefaultsInv'
  BY StoreNext
<1>2. QED
  BY <1>1, StoreInit, ConfigInvariant, PTL DEF Spec, ImplementsStore, S!SSpec

\* What ConfigStore promises, whoever implements it: the sinks of the snapshot in
\* effect and those of a delivery that began on it are open, and the defaults in
\* effect are the compiled ones.
THEOREM StoreIsUsable == S!SSpec => []S!Usable
<1> DEFINE Safe == store \in Snapshots /\ S!Usable
<1>1. S!SInit => Safe
  BY DefaultIsSnapshot DEF S!SInit, S!Usable
<1>2. Safe /\ [S!SNext]_(S!svars) => Safe'
  <2> SUFFICES ASSUME Safe, [S!SNext]_(S!svars) PROVE Safe'
    OBVIOUS
  <2>1. CASE S!Observe \/ UNCHANGED S!svars
    BY <2>1 DEF S!Observe, S!svars, S!Usable
  <2>2. CASE S!RestartProcess \/ S!Revert
    BY <2>2, DefaultIsSnapshot DEF S!RestartProcess, S!Revert, S!Usable
  <2>3. CASE S!Accept
    BY <2>3 DEF S!Accept, S!Usable
  <2>4. CASE S!Retain
    <3>1. store' = MarkAsLastKnownGood(store) /\ open' = open
      BY <2>4 DEF S!Retain, MarkAsLastKnownGood
    <3>2. /\ store' \in Snapshots /\ store'.source = "last-known-good"
          /\ store'.batch = store.batch
      <4>1. MaxBatches \in Nat
        BY ConfigConstants
      <4>2. 0 \in 0..MaxBatches
        BY <4>1
      <4>3. QED
        BY <3>1, <4>2, SnapshotEdits
    <3>3. QED
      BY <2>4, <3>1, <3>2 DEF S!Retain, S!Usable
  <2>5. CASE S!BeginDelivery \/ S!EndDelivery
    BY <2>5 DEF S!BeginDelivery, S!EndDelivery, S!Usable
  <2>6. CASE S!Close
    BY <2>6 DEF S!Close, S!Usable
  <2>7. QED
    BY <2>1, <2>2, <2>3, <2>4, <2>5, <2>6 DEF S!SNext
<1>3. QED
  BY <1>1, <1>2, PTL DEF S!SSpec
=============================================================================
