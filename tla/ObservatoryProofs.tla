-------------------------- MODULE ObservatoryProofs --------------------------
(*****************************************************************************)
(* Theorems about the observatory engine, for every set of calls the         *)
(* environment may make.                                                     *)
(*****************************************************************************)
EXTENDS Observatory, FiniteSetTheorems, TLAPS

-----------------------------------------------------------------------------
(* Partial maps.                                                             *)

\* What m[k] = v does to a std::map: k is bound to v, all else stays.
LEMMA PutLookup ==
  ASSUME NEW m, NEW k, NEW v
  PROVE  /\ DOMAIN Put(m, k, v) = DOMAIN m \cup {k}
         /\ Put(m, k, v)[k] = v
         /\ \A x \in DOMAIN m : x # k => Put(m, k, v)[x] = m[x]
BY DEF Put

\* Binding a key of K to a value of V keeps a map from K to V one.
LEMMA PutType ==
  ASSUME NEW m, NEW K, NEW V, MapOf(m, K, V), NEW k \in K, NEW v \in V
  PROVE  MapOf(Put(m, k, v), K, V)
BY DEF MapOf, Put

\* The empty map has every map type.
LEMMA EmptyMap == \A K, V : MapOf(<<>>, K, V)
BY DEF MapOf

-----------------------------------------------------------------------------
(* The pure operators of compare().                                          *)

\* The number of samples a batch holds is a natural number.
LEMMA SampleCountType ==
  ASSUME NEW T, NEW batch \in Seq(T), NEW w, NEW kind
  PROVE  Cardinality(Samples(batch, w, kind)) \in Nat
<1>1. DOMAIN batch = 1..Len(batch) /\ Len(batch) \in Nat
  OBVIOUS
<1>2. IsFiniteSet(1..Len(batch))
  BY <1>1, FS_Interval
<1>3. Samples(batch, w, kind) \subseteq 1..Len(batch)
  BY <1>1 DEF Samples, OfWorkload
<1>4. QED
  BY <1>2, <1>3, FS_Subset, FS_CardinalityType

\* Aging a baseline gives a freshness.
LEMMA FreshnessType ==
  ASSUME NEW b \in Baseline, NEW now \in Int, NEW p \in Policy
  PROVE  FreshnessAt(b, now, p) \in Freshness
BY DEF FreshnessAt, Freshness, Baseline, Policy

\* A comparison takes its time from an integer timestamp.
LEMMA NowType == ASSUME NEW batch \in Seq(Observation) PROVE NowOf(batch) \in Int
<1>1. CASE batch = <<>>
  BY <1>1 DEF NowOf
<1>2. CASE batch # <<>>
  <2>1. batch[Len(batch)] \in Observation
    BY <1>2
  <2>2. QED
    BY <1>2, <2>1 DEF NowOf, Observation
<1>3. QED
  BY <1>1, <1>2

\* The confounders of a batch are confounders.
LEMMA UnresolvedType ==
  ASSUME NEW batch \in Seq(Observation), NEW w
  PROVE  Unresolved(batch, w) \in SUBSET Confounder
<1>1. \A i \in OfWorkload(batch, w) : batch[i] \in Observation
  BY DEF OfWorkload
<1>2. \A i \in OfWorkload(batch, w) : batch[i].confounders \subseteq Confounder
  BY <1>1 DEF Observation
<1>3. QED
  BY <1>2 DEF Unresolved

\* publish_baseline stores a baseline.
LEMMA AdmittedType == ASSUME NEW b \in Baseline PROVE Admitted(b) \in Baseline
<1>1. CASE b.freshness = "Unknown"
  <2>1. Admitted(b) = [b EXCEPT !.freshness = "Current"]
    BY <1>1 DEF Admitted
  <2>2. "Current" \in Freshness
    BY DEF Freshness
  <2>3. QED
    BY <2>1, <2>2 DEF Baseline
<1>2. CASE b.freshness # "Unknown"
  BY <1>2 DEF Admitted
<1>3. QED
  BY <1>1, <1>2

\* Only the freshness changes when a baseline has to be revalidated.
LEMMA RevalidatedType ==
  ASSUME NEW b \in Baseline
  PROVE  /\ Revalidated(b) \in Baseline
         /\ Revalidated(b) = [b EXCEPT !.freshness = Revalidated(b).freshness]
BY DEF Revalidated, Baseline, Freshness

\* What compare() stores has the type of a result.
LEMMA VerdictType ==
  ASSUME TypeOK, NEW c \in CompareCalls, NEW i \in DOMAIN baselines
  PROVE  Verdict(c, i) \in Result
<1> DEFINE b == baselines[i]
           S == Samples(c.batch, c.affected.id, b.metric_kind)
<1>1. b \in Baseline /\ i \in Id
  BY DEF TypeOK, MapOf
<1>2. /\ c.affected.id \in Id /\ c.associated \in Id
      /\ c.domain \in InterferenceDomain
      /\ c.batch \in Seq(Observation) /\ c.policy \in Policy
  BY CallTypes DEF WorkloadDescriptor
<1>3. Cardinality(S) \in Nat
  BY <1>2, SampleCountType
<1>4. FreshnessAt(b, NowOf(c.batch), c.policy) \in Freshness
  BY <1>1, <1>2, NowType, FreshnessType
<1>5. Unresolved(c.batch, c.affected.id) \in SUBSET Confounder
  BY <1>2, UnresolvedType
<1>6. \A ratio : classify_outcome(ratio, c.policy) \in Outcome
  BY DEF classify_outcome, Outcome
<1>7. \A o, h, r : Attribution(o, h, r) \in AttributionStrength
  BY DEF Attribution, AttributionStrength
<1>8. "NoInterferenceDetected" \in Outcome
  BY DEF Outcome
<1>9. epoch \in Nat
  BY DEF TypeOK
<1>10. QED
  BY <1>1, <1>2, <1>3, <1>4, <1>5, <1>6, <1>7, <1>8, <1>9 DEF Verdict, Result
-----------------------------------------------------------------------------
(* Type correctness.                                                         *)

\* The maps of struct Impl have their types when the engine is constructed.
LEMMA InitTypeOK == Init => TypeOK
BY EmptyMap DEF Init, TypeOK

\* A call keeps the maps of struct Impl within their types.
LEMMA NextTypeOK == TypeOK /\ [Next]_vars => TypeOK'
<1> SUFFICES ASSUME TypeOK, [Next]_vars PROVE TypeOK'
  OBVIOUS
<1> USE DEF registry, verdicts, Id
<1>1. ASSUME NEW c \in SourceCalls, register_source(c) PROVE TypeOK'
  <2>1. c.id \in Nat /\ c.generation \in Nat
    BY CallTypes
  <2>2. \A f \in Freshness : [generation |-> c.generation, freshness |-> f]
                              \in [generation : Nat, freshness : Freshness]
    BY <2>1
  <2>3. MapOf(sources', Nat, [generation : Nat, freshness : Freshness])
    <3>1. PICK f \in {"RevalidationRequired", "Current"} :
            sources' = Put(sources, c.id,
                           [generation |-> c.generation, freshness |-> f])
      BY <1>1 DEF register_source
    <3>2. f \in Freshness
      BY DEF Freshness
    <3>3. QED
      BY <2>1, <2>2, <3>1, <3>2, PutType, Zenon DEF TypeOK
  <2>4. QED
    BY <1>1, <2>3 DEF TypeOK, register_source
<1>2. ASSUME NEW c \in WorkerCalls, register_worker(c) PROVE TypeOK'
  <2>1. /\ c.id \in Nat
        /\ [boot |-> c.boot, connected |-> c.connected]
             \in [boot : Nat, connected : BOOLEAN]
    BY CallTypes
  <2>2. MapOf(workers', Nat, [boot : Nat, connected : BOOLEAN])
    BY <1>2, <2>1, PutType, Zenon DEF TypeOK, register_worker
  <2>3. QED
    BY <1>2, <2>2 DEF TypeOK, register_worker
<1>3. ASSUME NEW d \in WorkloadCalls, register_workload(d) PROVE TypeOK'
  <2>1. d \in WorkloadDescriptor /\ d.id \in Nat
    BY CallTypes DEF WorkloadDescriptor
  <2>2. MapOf(workloads', Nat, WorkloadDescriptor)
    BY <1>3, <2>1, PutType, Zenon DEF TypeOK, register_workload
  <2>3. QED
    BY <1>3, <2>2 DEF TypeOK, register_workload
<1>4. ASSUME NEW b \in BaselineCalls, publish_baseline(b) PROVE TypeOK'
  <2>1. Admitted(b) \in Baseline /\ b.id \in Nat
    <3>1. b \in Baseline
      BY CallTypes
    <3>2. b.id \in Nat
      BY <3>1 DEF Baseline
    <3>3. QED
      BY <3>1, <3>2, AdmittedType
  <2>2. MapOf(baselines', Nat, Baseline)
    BY <1>4, <2>1, PutType DEF TypeOK, publish_baseline
  <2>3. QED
    BY <1>4, <2>2 DEF TypeOK, publish_baseline
<1>5. ASSUME NEW o \in ObservationCalls, record_observation(o) PROVE TypeOK'
  <2>1. o \in Observation /\ o.id \in Nat
    BY CallTypes DEF Observation
  <2>2. MapOf(observations', Nat, Observation)
    BY <1>5, <2>1, PutType, Zenon DEF TypeOK, record_observation
  <2>3. QED
    BY <1>5, <2>2 DEF TypeOK, record_observation
<1>6. ASSUME NEW t \in RecoveryCalls, record_recovery(t) PROVE TypeOK'
  BY <1>6, CallTypes DEF TypeOK, record_recovery
<1>7. ASSUME NEW c \in CompareCalls, compare(c) PROVE TypeOK'
  <2>1. PICK i \in DOMAIN baselines : Record(Verdict(c, i))
    BY <1>7 DEF compare
  <2> DEFINE r == Verdict(c, i)
  <2>2. r \in Result
    BY VerdictType
  <2> HIDE DEF r
  <2>3. /\ CellKey(r) \in Nat \X Nat \X InterferenceDomain
        /\ ComparisonId(r) \in Nat \X Nat \X InterferenceDomain \X Nat \X Nat
        /\ EpisodeId(r) \in Nat \X InterferenceDomain \X Nat
    BY <2>2 DEF CellKey, ComparisonId, EpisodeId, Result
  <2>4. EpisodeOf(r) \in Episode
    BY <2>2 DEF EpisodeOf, Result, Episode
  <2>5. Record(r)
    BY <2>1 DEF r
  <2>6. MapOf(comparisons', Nat \X Nat \X InterferenceDomain \X Nat \X Nat,
              Result)
    BY <2>2, <2>3, <2>5, PutType DEF TypeOK, Record
  <2>7. MapOf(matrix', Nat \X Nat \X InterferenceDomain, Result)
    BY <2>2, <2>3, <2>5, PutType DEF TypeOK, Record
  <2>8. MapOf(episodes', Nat \X InterferenceDomain \X Nat, Episode)
    <3>1. CASE r.outcome \in Indicating
      BY <2>3, <2>4, <2>5, <3>1, PutType, Zenon DEF TypeOK, Record
    <3>2. CASE r.outcome \notin Indicating
      BY <2>5, <3>2 DEF TypeOK, Record
    <3>3. QED
      BY <3>1, <3>2
  <2>9. QED
    BY <1>7, <2>6, <2>7, <2>8 DEF TypeOK, compare
<1>8. ASSUME NEW e \in EpochCalls, set_coordinator_epoch(e) PROVE TypeOK'
  <2>1. epoch' \in Nat
    BY <1>8, CallTypes DEF set_coordinator_epoch
  <2>2. MapOf(baselines', Nat, Baseline)
    BY <1>8, RevalidatedType DEF TypeOK, MapOf, set_coordinator_epoch
  <2>3. MapOf(sources', Nat, [generation : Nat, freshness : Freshness])
    BY <1>8 DEF TypeOK, MapOf, set_coordinator_epoch, Freshness
  <2>4. MapOf(workers', Nat, [boot : Nat, connected : BOOLEAN])
    BY <1>8, Zenon DEF TypeOK, MapOf, set_coordinator_epoch
  <2>5. QED
    BY <1>8, <2>1, <2>2, <2>3, <2>4 DEF TypeOK, set_coordinator_epoch
<1>9. CASE UNCHANGED vars
  BY <1>9 DEF TypeOK, vars
<1>10. QED
  BY <1>1, <1>2, <1>3, <1>4, <1>5, <1>6, <1>7, <1>8, <1>9 DEF Next, Call

\* Type correctness of the engine: whatever calls are made in whatever order,
\* every map of struct Impl holds values of its declared types.
THEOREM TypeCorrect == Spec => []TypeOK
BY InitTypeOK, NextTypeOK, PTL DEF Spec

-----------------------------------------------------------------------------
(* Steps, by what they do to the evidence and the verdicts.                  *)

\* The evidence that counts in a comparison, and what comparisons produced.
evidence == <<epoch, baselines, recoveries, verdicts>>

\* Registrations and recorded observations leave the evidence alone.
LEMMA StepKinds ==
  ASSUME [Next]_vars
  PROVE  \/ \E b \in BaselineCalls : publish_baseline(b)
         \/ \E t \in RecoveryCalls : record_recovery(t)
         \/ \E c \in CompareCalls : compare(c)
         \/ \E e \in EpochCalls : set_coordinator_epoch(e)
         \/ UNCHANGED evidence
BY Zenon
DEF Next, Call, vars, evidence, registry, register_source, register_worker,
    register_workload, record_observation

\* compare() records the verdict on one baseline: a usable one of the victim.
LEMMA CompareStep ==
  ASSUME NEW c, compare(c)
  PROVE  \E i \in DOMAIN baselines :
           /\ Decides(c, i)
           /\ Record(Verdict(c, i))
           /\ baselines[i].workload_id = c.affected.id
           /\ baselines[i].sample_count > 0
           /\ baselines[i].freshness = "Current"
           /\ UNCHANGED <<epoch, baselines, recoveries>>
<1>1. PICK i \in DOMAIN baselines : Decides(c, i) /\ Record(Verdict(c, i))
  BY DEF compare
<1>2. i \in UsableFor(baselines, c.affected)
  BY <1>1 DEF Decides, Selected
<1>3. /\ baselines[i].workload_id = c.affected.id
      /\ baselines[i].sample_count > 0
  BY <1>2 DEF UsableFor, Matching, is_usable
<1>4. baselines[i].freshness = "Current"
  BY <1>1 DEF Decides, FreshnessAt
<1>5. UNCHANGED <<epoch, baselines, recoveries>>
  BY DEF compare
<1>6. QED
  BY <1>1, <1>3, <1>4, <1>5

\* What one call may do to the published baselines.
LEMMA BaselineStep ==
  ASSUME TypeOK, [Next]_vars, NEW i \in DOMAIN baselines
  PROVE  /\ i \in DOMAIN baselines'
         /\ baselines'[i] = [baselines[i] EXCEPT
                               !.freshness = baselines'[i].freshness]
         /\ baselines'[i].freshness = "Current"
              => baselines[i].freshness = "Current"
<1>1. baselines[i] \in Baseline
  BY DEF TypeOK, MapOf
<1>2. baselines[i] = [baselines[i] EXCEPT !.freshness = baselines[i].freshness]
  BY <1>1 DEF Baseline
<1>3. ASSUME NEW b \in BaselineCalls, publish_baseline(b)
      PROVE  i \in DOMAIN baselines' /\ baselines'[i] = baselines[i]
  BY <1>3 DEF publish_baseline, Stores, Put
<1>4. ASSUME NEW e \in EpochCalls, set_coordinator_epoch(e)
      PROVE  i \in DOMAIN baselines' /\ baselines'[i] = Revalidated(baselines[i])
  BY <1>4 DEF set_coordinator_epoch
<1>5. Revalidated(baselines[i]).freshness = "Current"
        => baselines[i].freshness = "Current"
  BY <1>1 DEF Revalidated, Baseline
<1>6. \/ baselines'[i] = baselines[i] /\ i \in DOMAIN baselines'
      \/ baselines'[i] = Revalidated(baselines[i]) /\ i \in DOMAIN baselines'
  <2>1. ASSUME NEW c \in CompareCalls, compare(c) PROVE baselines' = baselines
    BY <2>1 DEF compare
  <2>2. ASSUME NEW t \in RecoveryCalls, record_recovery(t)
        PROVE  baselines' = baselines
    BY <2>2 DEF record_recovery
  <2>3. QED
    BY StepKinds, <1>3, <1>4, <2>1, <2>2 DEF evidence
<1>7. QED
  BY <1>1, <1>2, <1>5, <1>6, RevalidatedType

\* Authority lost by an epoch change is never regained: no call alters or drops
\* a published baseline, and none makes it CURRENT again.
THEOREM RevocationTheorem == Spec => RevocationIsPermanent
<1>1. TypeOK /\ [Next]_vars =>
        [\A i \in DOMAIN baselines :
           /\ i \in DOMAIN baselines'
           /\ baselines'[i] = [baselines[i] EXCEPT
                                 !.freshness = baselines'[i].freshness]
           /\ baselines'[i].freshness = "Current"
                => baselines[i].freshness = "Current"]_vars
  BY BaselineStep
<1>2. QED
  BY <1>1, TypeCorrect, PTL DEF Spec, RevocationIsPermanent

\* register_source never trusts a generation in the call that brings it, and
\* an epoch change never restores trust in a source.
THEOREM RebornSourceTheorem == Spec => RebornSourceIsNotTrusted
<1> DEFINE Kept(s) ==
      /\ s \in DOMAIN sources'
      /\ sources'[s].freshness = "Current" =>
           /\ sources'[s].generation = sources[s].generation
           /\ epoch' = epoch
<1>1. ASSUME TypeOK, Next, NEW s \in DOMAIN sources PROVE Kept(s)
  <2>1. sources[s] \in [generation : Id, freshness : Freshness]
    BY <1>1 DEF TypeOK, MapOf
  <2>2. ASSUME NEW c \in SourceCalls, register_source(c) PROVE Kept(s)
    BY <2>2 DEF register_source, Put
  <2>3. ASSUME NEW e \in EpochCalls, set_coordinator_epoch(e) PROVE Kept(s)
    BY <2>1, <2>3 DEF set_coordinator_epoch
  <2>4. ASSUME UNCHANGED <<epoch, sources>> PROVE Kept(s)
    BY <2>4
  <2>5. QED
    BY <1>1, <2>2, <2>3, <2>4, Zenon
    DEF Next, Call, registry, register_worker, register_workload,
        publish_baseline, record_observation, record_recovery, compare
<1>2. TypeOK /\ [Next]_vars => [\A s \in DOMAIN sources : Kept(s)]_vars
  BY <1>1
<1>3. QED
  BY <1>2, TypeCorrect, PTL DEF Spec, RebornSourceIsNotTrusted

-----------------------------------------------------------------------------
(* Verdicts and the evidence behind them.                                    *)

\* The id of a comparison determines its cell and its baseline.
LEMMA ComparisonIdDetermines ==
  ASSUME NEW r, NEW q, ComparisonId(r) = ComparisonId(q)
  PROVE  CellKey(r) = CellKey(q) /\ r.baseline_id = q.baseline_id
BY DEF ComparisonId, CellKey

\* What recording a verdict does to the history of comparisons and the matrix.
LEMMA RecordLookup ==
  ASSUME NEW r, Record(r)
  PROVE  /\ ComparisonId(r) \in DOMAIN comparisons'
         /\ comparisons'[ComparisonId(r)] = r
         /\ DOMAIN comparisons \subseteq DOMAIN comparisons'
         /\ \A id \in DOMAIN comparisons' :
              id # ComparisonId(r) => /\ id \in DOMAIN comparisons
                                      /\ comparisons'[id] = comparisons[id]
         /\ CellKey(r) \in DOMAIN matrix'
         /\ matrix'[CellKey(r)] = r
         /\ DOMAIN matrix \subseteq DOMAIN matrix'
         /\ \A k \in DOMAIN matrix' :
              k # CellKey(r) => /\ k \in DOMAIN matrix
                                /\ matrix'[k] = matrix[k]
BY DEF Record, Put

\* The same for the episodes.
LEMMA RecordEpisodes ==
  ASSUME NEW r, Record(r), NEW e \in DOMAIN episodes'
  PROVE  \/ e \in DOMAIN episodes /\ episodes'[e] = episodes[e]
         \/ /\ r.outcome \in Indicating
            /\ e = EpisodeId(r)
            /\ episodes'[e] = EpisodeOf(r)
BY DEF Record, Put

\* A call keeps the matrix and the history of comparisons in step.
LEMMA MatrixStep == MatrixIsOnRecord /\ [Next]_vars => MatrixIsOnRecord'
<1> SUFFICES ASSUME MatrixIsOnRecord, [Next]_vars PROVE MatrixIsOnRecord'
  OBVIOUS
<1>1. ASSUME NEW c \in CompareCalls, compare(c) PROVE MatrixIsOnRecord'
  <2>1. PICK i : Record(Verdict(c, i))
    BY <1>1, CompareStep
  <2> DEFINE r == Verdict(c, i)
  <2>2. Record(r)
    BY <2>1
  <2> HIDE DEF r
  <2>3. ASSUME NEW k \in DOMAIN matrix'
        PROVE  /\ CellKey(matrix'[k]) = k
               /\ ComparisonId(matrix'[k]) \in DOMAIN comparisons'
               /\ comparisons'[ComparisonId(matrix'[k])] = matrix'[k]
    <3>1. CASE k = CellKey(r)
      BY <2>2, <2>3, <3>1, RecordLookup
    <3>2. CASE k # CellKey(r)
      <4>1. k \in DOMAIN matrix /\ matrix'[k] = matrix[k]
        BY <2>2, <2>3, <3>2, RecordLookup
      <4>2. CellKey(matrix[k]) = k
        BY <4>1 DEF MatrixIsOnRecord
      <4>3. ComparisonId(matrix[k]) # ComparisonId(r)
        BY <3>2, <4>2, ComparisonIdDetermines
      <4>4. /\ ComparisonId(matrix[k]) \in DOMAIN comparisons
            /\ comparisons[ComparisonId(matrix[k])] = matrix[k]
        BY <4>1 DEF MatrixIsOnRecord
      <4>5. QED
        BY <2>2, <4>1, <4>2, <4>3, <4>4, RecordLookup
    <3>3. QED
      BY <3>1, <3>2
  <2>4. ASSUME NEW id \in DOMAIN comparisons'
        PROVE  /\ ComparisonId(comparisons'[id]) = id
               /\ CellKey(comparisons'[id]) \in DOMAIN matrix'
    <3>1. CASE id = ComparisonId(r)
      BY <2>2, <2>4, <3>1, RecordLookup
    <3>2. CASE id # ComparisonId(r)
      <4>1. id \in DOMAIN comparisons /\ comparisons'[id] = comparisons[id]
        BY <2>2, <2>4, <3>2, RecordLookup
      <4>2. DOMAIN matrix \subseteq DOMAIN matrix'
        BY <2>2, RecordLookup
      <4>3. QED
        BY <4>1, <4>2 DEF MatrixIsOnRecord
    <3>3. QED
      BY <3>1, <3>2
  <2>5. QED
    BY <2>3, <2>4, Zenon DEF MatrixIsOnRecord, CellKey, ComparisonId
<1>2. ASSUME UNCHANGED verdicts PROVE MatrixIsOnRecord'
  BY <1>2 DEF verdicts, MatrixIsOnRecord, CellKey, ComparisonId
<1>3. QED
  BY <1>1, <1>2, StepKinds
  DEF evidence, publish_baseline, record_recovery, set_coordinator_epoch

\* A call leaves the baselines behind the recorded comparisons in place.
LEMMA PublishedStep ==
  TypeOK /\ EvidenceIsPublished /\ [Next]_vars => EvidenceIsPublished'
<1> SUFFICES ASSUME TypeOK, EvidenceIsPublished, [Next]_vars
             PROVE  EvidenceIsPublished'
  OBVIOUS
<1> DEFINE Published(r) == /\ r.baseline_id \in DOMAIN baselines
                           /\ baselines[r.baseline_id].workload_id = r.victim
                           /\ baselines[r.baseline_id].sample_count > 0
<1>1. ASSUME NEW r, Published(r) PROVE Published(r)'
  <2> DEFINE i == r.baseline_id
  <2>1. baselines[i] \in Baseline
    BY <1>1 DEF TypeOK, MapOf
  <2>2. /\ i \in DOMAIN baselines'
        /\ baselines'[i] = [baselines[i] EXCEPT
                              !.freshness = baselines'[i].freshness]
    BY <1>1, BaselineStep
  <2>3. /\ baselines'[i].workload_id = baselines[i].workload_id
        /\ baselines'[i].sample_count = baselines[i].sample_count
    BY <2>1, <2>2 DEF Baseline
  <2>4. QED
    BY <1>1, <2>2, <2>3
<1>2. ASSUME NEW c \in CompareCalls, compare(c) PROVE EvidenceIsPublished'
  <2>1. PICK i \in DOMAIN baselines :
          /\ Record(Verdict(c, i))
          /\ baselines[i].workload_id = c.affected.id
          /\ baselines[i].sample_count > 0
    BY <1>2, CompareStep
  <2> DEFINE r == Verdict(c, i)
  <2>2. r.baseline_id = i /\ r.victim = c.affected.id
    BY DEF Verdict
  <2>3. Published(r) /\ Record(r)
    BY <2>1, <2>2
  <2> HIDE DEF r, Published
  <2>4. ASSUME NEW id \in DOMAIN comparisons' PROVE Published(comparisons'[id])
    <3>1. CASE id = ComparisonId(r)
      BY <2>3, <2>4, <3>1, RecordLookup
    <3>2. CASE id # ComparisonId(r)
      <4>1. id \in DOMAIN comparisons /\ comparisons'[id] = comparisons[id]
        BY <2>3, <2>4, <3>2, RecordLookup
      <4>2. QED
        BY <4>1 DEF EvidenceIsPublished, Published
    <3>3. QED
      BY <3>1, <3>2
  <2>5. baselines' = baselines
    BY <1>2 DEF compare
  <2>6. QED
    BY <2>4, <2>5 DEF EvidenceIsPublished, Published
<1>3. ASSUME UNCHANGED comparisons PROVE EvidenceIsPublished'
  BY <1>1, <1>3 DEF EvidenceIsPublished
<1>4. QED
  BY <1>2, <1>3, StepKinds
  DEF evidence, verdicts, publish_baseline, record_recovery,
      set_coordinator_epoch

\* A call leaves every episode with a comparison it can be traced to.
LEMMA EpisodeStep ==
  MatrixIsOnRecord /\ EpisodeIsOnRecord /\ [Next]_vars => EpisodeIsOnRecord'
<1> SUFFICES ASSUME MatrixIsOnRecord, EpisodeIsOnRecord, [Next]_vars
             PROVE  EpisodeIsOnRecord'
  OBVIOUS
<1>1. ASSUME NEW c \in CompareCalls, compare(c) PROVE EpisodeIsOnRecord'
  <2>1. PICK i : Record(Verdict(c, i))
    BY <1>1, CompareStep
  <2> DEFINE r == Verdict(c, i)
  <2>2. Record(r)
    BY <2>1
  <2> HIDE DEF r
  <2> DEFINE Cell(ep) == <<ep.affected, ep.co_running, ep.domain>>
  <2>3. ASSUME NEW id \in DOMAIN comparisons
        PROVE  /\ id \in DOMAIN comparisons'
               /\ CellKey(comparisons'[id]) = CellKey(comparisons[id])
               /\ comparisons'[id].baseline_id = comparisons[id].baseline_id
    <3>1. CASE id = ComparisonId(r)
      <4>1. ComparisonId(comparisons[id]) = ComparisonId(r)
        BY <2>3, <3>1 DEF MatrixIsOnRecord
      <4>2. id \in DOMAIN comparisons' /\ comparisons'[id] = r
        BY <2>2, <3>1, RecordLookup
      <4>3. QED
        BY <4>1, <4>2, ComparisonIdDetermines
    <3>2. CASE id # ComparisonId(r)
      BY <2>2, <2>3, <3>2, RecordLookup
    <3>3. QED
      BY <3>1, <3>2
  <2>4. ASSUME NEW e \in DOMAIN episodes'
        PROVE  /\ e = <<episodes'[e].affected, episodes'[e].domain,
                        episodes'[e].baseline_id>>
               /\ \E id \in DOMAIN comparisons' :
                    /\ CellKey(comparisons'[id]) = Cell(episodes'[e])
                    /\ comparisons'[id].baseline_id = episodes'[e].baseline_id
    <3>1. CASE e \in DOMAIN episodes /\ episodes'[e] = episodes[e]
      <4>1. PICK id \in DOMAIN comparisons :
              /\ CellKey(comparisons[id]) = Cell(episodes[e])
              /\ comparisons[id].baseline_id = episodes[e].baseline_id
        BY <3>1 DEF EpisodeIsOnRecord
      <4>2. e = <<episodes[e].affected, episodes[e].domain,
                  episodes[e].baseline_id>>
        BY <3>1 DEF EpisodeIsOnRecord
      <4>3. QED
        BY <2>3, <3>1, <4>1, <4>2
    <3>2. CASE e = EpisodeId(r) /\ episodes'[e] = EpisodeOf(r)
      <4>1. /\ ComparisonId(r) \in DOMAIN comparisons'
            /\ comparisons'[ComparisonId(r)] = r
        BY <2>2, RecordLookup
      <4>2. /\ Cell(EpisodeOf(r)) = CellKey(r)
            /\ EpisodeOf(r).baseline_id = r.baseline_id
            /\ EpisodeId(r) = <<EpisodeOf(r).affected, EpisodeOf(r).domain,
                                EpisodeOf(r).baseline_id>>
        BY DEF EpisodeOf, CellKey, EpisodeId
      <4>3. QED
        BY <3>2, <4>1, <4>2
    <3>3. QED
      BY <2>2, <2>4, <3>1, <3>2, RecordEpisodes
  <2>5. QED
    BY <2>4 DEF EpisodeIsOnRecord, CellKey
<1>2. ASSUME UNCHANGED verdicts PROVE EpisodeIsOnRecord'
  BY <1>2 DEF verdicts, EpisodeIsOnRecord, CellKey
<1>3. QED
  BY <1>1, <1>2, StepKinds
  DEF evidence, publish_baseline, record_recovery, set_coordinator_epoch

\* The attribution ladder of compare(), rung by rung.
LEMMA AttributionLadder ==
  ASSUME NEW overlap \in BOOLEAN, NEW hard, NEW recovered \in BOOLEAN
  PROVE  LET a == Attribution(overlap, hard, recovered)
         IN  /\ a = "StrongCounterfactualEvidence" => recovered
             /\ hard # {} => a \in {"Unknown", "TemporallyAssociated",
                                    "Correlated"}
             /\ overlap => a # "Unknown"
             /\ a # "DirectResourceEvidence"
BY DEF Attribution

Earned(r) ==
  /\ r.attribution = "StrongCounterfactualEvidence" => CellKey(r) \in recoveries
  /\ r.unresolved \cap HardConfounder # {}
       => r.attribution \in {"Unknown", "TemporallyAssociated", "Correlated"}
  /\ r.outcome \in Indicating => r.attribution # "Unknown"
  /\ r.attribution # "DirectResourceEvidence"

EarnedEpisode(ep) ==
  /\ ep.classification \in Indicating
  /\ ep.strength # "Unknown"
  /\ ep.strength = "StrongCounterfactualEvidence"
       => <<ep.affected, ep.co_running, ep.domain>> \in recoveries

\* The verdict of a comparison claims no more than its evidence supports.
LEMMA VerdictEarned == ASSUME NEW c, NEW i PROVE Earned(Verdict(c, i))
<1> DEFINE r == Verdict(c, i)
           w == c.affected.id
           S == Samples(c.batch, w, baselines[i].metric_kind)
           overlap == Overlaps(c.batch, S, c.associated)
           hard == Unresolved(c.batch, w) \cap HardConfounder
           recovered == <<w, c.associated, c.domain>> \in recoveries
<1>1. overlap \in BOOLEAN /\ recovered \in BOOLEAN
  BY DEF Overlaps
<1>2. r.attribution = Attribution(overlap, hard, recovered)
  BY DEF Verdict
<1>3. CellKey(r) = <<w, c.associated, c.domain>>
  BY DEF Verdict, CellKey
<1>4. r.unresolved \cap HardConfounder = hard
  BY DEF Verdict
<1>5. r.outcome \in Indicating => overlap
  BY DEF Verdict, Indicating
<1> HIDE DEF r, overlap, hard
<1>6. QED
  BY <1>1, <1>2, <1>3, <1>4, <1>5, AttributionLadder, Zenon DEF Earned, r

\* The episode of an earned verdict is earned.
LEMMA EpisodeEarned ==
  ASSUME NEW r, Earned(r), r.outcome \in Indicating
  PROVE  EarnedEpisode(EpisodeOf(r))
BY DEF Earned, EarnedEpisode, EpisodeOf, CellKey

\* A call stores only what is earned, and recoveries are never withdrawn.
LEMMA AttributionStep ==
  AttributionIsEarned /\ [Next]_vars => AttributionIsEarned'
<1> SUFFICES ASSUME AttributionIsEarned, [Next]_vars PROVE AttributionIsEarned'
  OBVIOUS
<1>1. /\ \A id \in DOMAIN comparisons : Earned(comparisons[id])
      /\ \A e \in DOMAIN episodes : EarnedEpisode(episodes[e])
  BY DEF AttributionIsEarned, Earned, EarnedEpisode
<1>2. recoveries \subseteq recoveries'
  BY StepKinds
  DEF evidence, publish_baseline, record_recovery, compare,
      set_coordinator_epoch
<1>3. ASSUME \A id \in DOMAIN comparisons' : Earned(comparisons'[id]),
             \A e \in DOMAIN episodes' : EarnedEpisode(episodes'[e])
      PROVE  AttributionIsEarned'
  BY <1>2, <1>3 DEF AttributionIsEarned, Earned, EarnedEpisode, CellKey
<1>4. ASSUME NEW c \in CompareCalls, compare(c) PROVE AttributionIsEarned'
  <2>1. PICK i : Record(Verdict(c, i))
    BY <1>4, CompareStep
  <2> DEFINE r == Verdict(c, i)
  <2>2. Record(r) /\ Earned(r)
    BY <2>1, VerdictEarned
  <2> HIDE DEF r
  <2>3. ASSUME NEW id \in DOMAIN comparisons' PROVE Earned(comparisons'[id])
    <3>1. \/ comparisons'[id] = r
          \/ id \in DOMAIN comparisons /\ comparisons'[id] = comparisons[id]
      BY <2>2, <2>3, RecordLookup
    <3>2. QED
      BY <1>1, <2>2, <3>1
  <2>4. \A e \in DOMAIN episodes' : EarnedEpisode(episodes'[e])
    BY <1>1, <2>2, RecordEpisodes, EpisodeEarned
  <2>5. QED
    BY <1>3, <2>3, <2>4
<1>5. ASSUME UNCHANGED verdicts PROVE AttributionIsEarned'
  BY <1>1, <1>3, <1>5 DEF verdicts
<1>6. QED
  BY <1>4, <1>5, StepKinds
  DEF evidence, publish_baseline, record_recovery, set_coordinator_epoch

\* The inductive invariant: types, and the four relations between verdicts,
\* episodes and evidence.
Inv == /\ TypeOK
       /\ MatrixIsOnRecord
       /\ EvidenceIsPublished
       /\ EpisodeIsOnRecord
       /\ AttributionIsEarned

\* Nothing is on record when the engine is constructed.
LEMMA InitInv == Init => Inv
<1> SUFFICES ASSUME Init PROVE Inv
  OBVIOUS
<1>1. DOMAIN comparisons = {} /\ DOMAIN matrix = {} /\ DOMAIN episodes = {}
  BY DEF Init
<1>2. MatrixIsOnRecord /\ EvidenceIsPublished
  BY <1>1 DEF MatrixIsOnRecord, EvidenceIsPublished
<1>3. EpisodeIsOnRecord /\ AttributionIsEarned
  BY <1>1 DEF EpisodeIsOnRecord, AttributionIsEarned
<1>4. QED
  BY <1>2, <1>3, InitTypeOK DEF Inv

\* The invariant holds after every sequence of calls.
LEMMA Invariance == Spec => []Inv
<1>1. Inv /\ [Next]_vars => Inv'
  BY NextTypeOK, MatrixStep, PublishedStep, EpisodeStep, AttributionStep DEF Inv
<1>2. QED
  BY InitInv, <1>1, PTL DEF Spec

\* Every cell of the matrix is a comparison on record, under its own id.
THEOREM MatrixTheorem == Spec => []MatrixIsOnRecord
BY Invariance, PTL DEF Inv

\* Every comparison rests on a published, sampled baseline of the victim.
THEOREM PublishedTheorem == Spec => []EvidenceIsPublished
BY Invariance, PTL DEF Inv

\* Every episode can be traced to a comparison on record.
THEOREM EpisodeTheorem == Spec => []EpisodeIsOnRecord
BY Invariance, PTL DEF Inv

\* No stored verdict or episode claims more than its evidence supports.
THEOREM AttributionTheorem == Spec => []AttributionIsEarned
BY Invariance, PTL DEF Inv
=============================================================================
