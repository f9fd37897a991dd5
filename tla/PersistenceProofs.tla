-------------------------- MODULE PersistenceProofs --------------------------
(*****************************************************************************)
(* Theorems about the engine with its store: saves are atomic, and what the  *)
(* engine guarantees survives crashes and restarts.                          *)
(*****************************************************************************)
EXTENDS Persistence, AuthorityProofs

-----------------------------------------------------------------------------
(* save().                                                                   *)

\* After its write, save() holds the state of the engine in the temporary file.
WrittenIsImage == saving = "written" => tmp = Whole(Image)

\* No step, crashes and failures included, breaks this.
LEMMA WrittenStep == WrittenIsImage /\ [RestartNext]_storeVars => WrittenIsImage'
<1> SUFFICES ASSUME WrittenIsImage, [RestartNext]_storeVars PROVE WrittenIsImage'
  OBVIOUS
<1>1. CASE saving = "no" /\ AdvancingNext /\ UNCHANGED disk
  BY <1>1 DEF WrittenIsImage, disk
<1>2. CASE SaveWrite
  BY <1>2 DEF SaveWrite, WrittenIsImage, Whole, Image, vars, registry, verdicts
<1>3. CASE SaveOpen \/ SaveFails \/ SaveRename \/ Crash
  BY <1>3 DEF SaveOpen, SaveFails, SaveRename, Crash, WrittenIsImage
<1>4. CASE Init /\ load
  BY <1>4 DEF load, disk, WrittenIsImage
<1>5. CASE UNCHANGED storeVars
  BY <1>5 DEF storeVars, disk, vars, registry, verdicts, WrittenIsImage, Whole, Image
<1>6. QED
  BY <1>1, <1>2, <1>3, <1>4, <1>5 DEF RestartNext

\* Only the rename changes the file, and what it puts there is complete and is
\* the state of the engine at that moment.
LEMMA FileStep ==
  ASSUME WrittenIsImage, [RestartNext]_storeVars, file' # file
  PROVE  decodes(file') /\ file'.image = Image /\ UNCHANGED vars
<1>1. SaveRename
  BY DEF RestartNext, storeVars, disk, SaveOpen, SaveWrite, SaveFails, load, Crash
<1>2. file' = Whole(Image) /\ UNCHANGED vars
  BY <1>1 DEF SaveRename, WrittenIsImage
<1>3. QED
  BY <1>2 DEF Whole, decodes

\* save() replaces the file in one step, by the state it was called in, however
\* it fails and whenever the process dies.
THEOREM SaveTheorem == RestartSpec => SaveIsAtomic
<1>1. StoreInit => WrittenIsImage
  BY DEF StoreInit, WrittenIsImage
<1>2. WrittenIsImage /\ [RestartNext]_storeVars
        => [file' # file => decodes(file') /\ file'.image = Image]_storeVars
  BY FileStep
<1>3. QED
  BY <1>1, <1>2, WrittenStep, PTL DEF RestartSpec, SaveIsAtomic

-----------------------------------------------------------------------------
(* Comparisons and the matrix that load() rebuilds from them.                *)

ComparisonKey == Id \X Id \X InterferenceDomain \X Id \X Nat

\* The order in which load() walks the comparisons is that of numbers.
DigestIsNumber == \A id \in ComparisonKey : Digest(id) \in Int

\* Every non-empty set of ids in D has a last one in that order.
HasMaxima(D) ==
  \A S \in SUBSET D : S # {} => \E i \in S : \A j \in S : Digest(j) <= Digest(i)

\* One more comparison leaves this so.
LEMMA MaximaExtend ==
  ASSUME DigestIsNumber, NEW D \in SUBSET ComparisonKey, HasMaxima(D),
         NEW x \in ComparisonKey
  PROVE  HasMaxima(D \cup {x})
<1> SUFFICES ASSUME NEW S \in SUBSET (D \cup {x}), S # {}
             PROVE  \E i \in S : \A j \in S : Digest(j) <= Digest(i)
  BY DEF HasMaxima
<1>0. \A i \in S : Digest(i) \in Int
  BY DEF DigestIsNumber
<1>1. CASE S \subseteq D
  BY <1>1 DEF HasMaxima
<1>2. CASE S = {x}
  BY <1>0, <1>2
<1>3. CASE x \in S /\ S \ {x} # {}
  <2>1. PICK m \in S \ {x} : \A j \in S \ {x} : Digest(j) <= Digest(m)
    BY <1>3, Zenon DEF HasMaxima
  <2>2. CASE Digest(x) <= Digest(m)
    BY <2>1, <2>2
  <2>3. CASE ~(Digest(x) <= Digest(m))
    <3>1. \A j \in S : Digest(j) <= Digest(x)
      BY <1>0, <1>3, <2>1, <2>3
    <3>2. QED
      BY <1>3, <3>1
  <2>4. QED
    BY <2>2, <2>3
<1>4. QED
  BY <1>1, <1>2, <1>3

\* In a new engine, load() puts into each cell a comparison of that cell, and
\* every comparison has a cell.
LEMMA LoadedCells ==
  ASSUME NEW C, HasMaxima(DOMAIN C)
  PROVE  /\ \A k \in DOMAIN LoadedMatrix(<<>>, C) :
              \E id \in DOMAIN C : /\ CellKey(C[id]) = k
                                   /\ LoadedMatrix(<<>>, C)[k] = C[id]
         /\ \A id \in DOMAIN C : CellKey(C[id]) \in DOMAIN LoadedMatrix(<<>>, C)
<1> DEFINE Of(k) == {id \in DOMAIN C : CellKey(C[id]) = k}
           Last(k) == CHOOSE id \in Of(k) : \A j \in Of(k) : Digest(j) <= Digest(id)
           M == LoadedMatrix(<<>>, C)
<1>1. DOMAIN M = {CellKey(C[id]) : id \in DOMAIN C}
  BY DEF LoadedMatrix
<1>2. ASSUME NEW k \in DOMAIN M PROVE Of(k) # {} /\ M[k] = C[Last(k)]
  BY <1>1 DEF LoadedMatrix
<1>3. ASSUME NEW k \in DOMAIN M PROVE Last(k) \in Of(k)
  <2>1. \E id \in Of(k) : \A j \in Of(k) : Digest(j) <= Digest(id)
    BY <1>2, Zenon DEF HasMaxima
  <2>2. QED
    BY <2>1
<1>4. QED
  BY <1>1, <1>2, <1>3, Zenon

-----------------------------------------------------------------------------
(* The engine between two restarts.                                          *)

\* What CellsOfThisEpochStand says of the cells, for all comparisons: load()
\* may bring back any of them.
ComparisonsStand ==
  \A id \in DOMAIN comparisons :
    /\ comparisons[id].epoch <= epoch
    /\ comparisons[id].epoch = epoch
         => baselines[comparisons[id].baseline_id].freshness = "Current"

EngineInv == Inv /\ ComparisonsStand /\ HasMaxima(DOMAIN comparisons)

\* Cells are comparisons on record, so they stand when these do.
LEMMA CellsStand == EngineInv => CellsOfThisEpochStand
BY DEF EngineInv, Inv, MatrixIsOnRecord, EvidenceIsPublished, ComparisonsStand,
       CellsOfThisEpochStand

\* A new engine has no comparisons.
LEMMA InitEngine == Init => EngineInv
BY InitInv DEF Init, EngineInv, ComparisonsStand, HasMaxima

\* A call leaves comparisons of the current epoch on CURRENT baselines.
LEMMA ComparisonsStep ==
  Inv /\ ComparisonsStand /\ [AdvancingNext]_vars => ComparisonsStand'
<1> SUFFICES ASSUME Inv, ComparisonsStand, [AdvancingNext]_vars
             PROVE  ComparisonsStand'
  OBVIOUS
<1>1. /\ epoch \in Nat
      /\ \A id \in DOMAIN comparisons :
           /\ comparisons[id].epoch \in Nat
           /\ comparisons[id].baseline_id \in DOMAIN baselines
  BY DEF Inv, TypeOK, MapOf, Result, EvidenceIsPublished
<1>2. ASSUME NEW b \in BaselineCalls, publish_baseline(b) PROVE ComparisonsStand'
  <2>1. \A i \in DOMAIN baselines : baselines'[i] = baselines[i]
    BY <1>2 DEF publish_baseline, Stores, Put
  <2>2. UNCHANGED <<epoch, comparisons>>
    BY <1>2 DEF publish_baseline, verdicts
  <2>3. QED
    BY <1>1, <2>1, <2>2 DEF ComparisonsStand
<1>3. ASSUME NEW c \in CompareCalls, compare(c) PROVE ComparisonsStand'
  <2>1. PICK i \in DOMAIN baselines :
          /\ Record(Verdict(c, i))
          /\ baselines[i].freshness = "Current"
          /\ UNCHANGED <<epoch, baselines>>
    BY <1>3, CompareStep
  <2> DEFINE r == Verdict(c, i)
  <2>2. r.epoch = epoch /\ r.baseline_id = i
    BY DEF Verdict
  <2>3. Record(r)
    BY <2>1
  <2> HIDE DEF r
  <2>4. ASSUME NEW id \in DOMAIN comparisons'
        PROVE  \/ comparisons'[id] = r
               \/ id \in DOMAIN comparisons /\ comparisons'[id] = comparisons[id]
    BY <2>3, RecordLookup
  <2>5. QED
    BY <1>1, <2>1, <2>2, <2>4 DEF ComparisonsStand
<1>4. ASSUME NEW e \in EpochCalls, e > epoch, set_coordinator_epoch(e)
      PROVE  ComparisonsStand'
  <2>1. epoch' = e /\ e \in Nat /\ comparisons' = comparisons
    BY <1>4, CallTypes DEF set_coordinator_epoch, verdicts
  <2>2. \A id \in DOMAIN comparisons : comparisons[id].epoch < e
    BY <1>1, <1>4, <2>1 DEF ComparisonsStand
  <2>3. QED
    BY <1>1, <2>1, <2>2 DEF ComparisonsStand
<1>5. ASSUME UNCHANGED <<epoch, baselines, comparisons>> PROVE ComparisonsStand'
  BY <1>5 DEF ComparisonsStand
<1>6. QED
  BY <1>2, <1>3, <1>4, <1>5, Zenon
  DEF AdvancingNext, Call, vars, registry, verdicts, register_source,
      register_worker, register_workload, record_observation, record_recovery

\* Every call of the engine keeps EngineInv.
LEMMA EngineStep ==
  DigestIsNumber /\ EngineInv /\ [AdvancingNext]_vars => EngineInv'
<1> SUFFICES ASSUME DigestIsNumber, EngineInv, [AdvancingNext]_vars
             PROVE  EngineInv'
  OBVIOUS
<1>1. Inv'
  BY AdvancingStep, NextTypeOK, MatrixStep, PublishedStep, EpisodeStep,
     AttributionStep DEF EngineInv, Inv
<1>2. ComparisonsStand'
  BY ComparisonsStep DEF EngineInv
<1>3. HasMaxima(DOMAIN comparisons')
  <2>1. DOMAIN comparisons \in SUBSET ComparisonKey
        /\ DOMAIN comparisons' \in SUBSET ComparisonKey
    BY <1>1 DEF EngineInv, Inv, TypeOK, MapOf, ComparisonKey
  <2>2. ASSUME NEW c \in CompareCalls, compare(c)
        PROVE  \E x \in ComparisonKey :
                 DOMAIN comparisons' = DOMAIN comparisons \cup {x}
    <3>1. PICK i : Record(Verdict(c, i))
      BY <2>2, CompareStep
    <3>2. QED
      BY <2>1, <3>1 DEF Record, Put
  <2>3. \/ \E c \in CompareCalls : compare(c)
        \/ comparisons' = comparisons
    BY AdvancingStep, StepKinds
    DEF evidence, verdicts, publish_baseline, record_recovery,
        set_coordinator_epoch
  <2>4. QED
    BY <2>1, <2>2, <2>3, MaximaExtend, Zenon DEF EngineInv
<1>4. QED
  BY <1>1, <1>2, <1>3 DEF EngineInv

-----------------------------------------------------------------------------
(* Restarts.                                                                 *)

\* EngineInv without the matrix, said of a saved state.
Sound(im) ==
  /\ im.epoch \in Nat
  /\ MapOf(im.sources, Id, [generation : Id, freshness : Freshness])
  /\ MapOf(im.workers, Id, [boot : Id, connected : BOOLEAN])
  /\ MapOf(im.workloads, Id, WorkloadDescriptor)
  /\ MapOf(im.baselines, Id, Baseline)
  /\ MapOf(im.observations, Id, Observation)
  /\ im.recoveries \subseteq Id \X Id \X InterferenceDomain
  /\ MapOf(im.comparisons, ComparisonKey, Result)
  /\ MapOf(im.episodes, Id \X InterferenceDomain \X Id, Episode)
  /\ HasMaxima(DOMAIN im.comparisons)
  /\ \A id \in DOMAIN im.comparisons :
       LET r == im.comparisons[id]
       IN  /\ ComparisonId(r) = id
           /\ r.baseline_id \in DOMAIN im.baselines
           /\ im.baselines[r.baseline_id].workload_id = r.victim
           /\ im.baselines[r.baseline_id].sample_count > 0
           /\ r.epoch <= im.epoch
           /\ r.epoch = im.epoch
                => im.baselines[r.baseline_id].freshness = "Current"
           /\ r.attribution = "StrongCounterfactualEvidence"
                => CellKey(r) \in im.recoveries
           /\ r.unresolved \cap HardConfounder # {}
                => r.attribution \in {"Unknown", "TemporallyAssociated",
                                      "Correlated"}
           /\ r.outcome \in Indicating => r.attribution # "Unknown"
           /\ r.attribution # "DirectResourceEvidence"
  /\ \A e \in DOMAIN im.episodes :
       LET f == im.episodes[e]
       IN  /\ e = <<f.affected, f.domain, f.baseline_id>>
           /\ \E id \in DOMAIN im.comparisons :
                /\ CellKey(im.comparisons[id]) =
                     <<f.affected, f.co_running, f.domain>>
                /\ im.comparisons[id].baseline_id = f.baseline_id
           /\ f.classification \in Indicating
           /\ f.strength # "Unknown"
           /\ f.strength = "StrongCounterfactualEvidence"
                => <<f.affected, f.co_running, f.domain>> \in im.recoveries

\* What save() writes is sound when the engine is.
LEMMA ImageIsSound == EngineInv => Sound(Image)
<1> SUFFICES ASSUME EngineInv PROVE Sound(Image)
  OBVIOUS
<1>1. /\ Image.epoch = epoch /\ Image.sources = sources
      /\ Image.workers = workers /\ Image.workloads = workloads
      /\ Image.baselines = baselines /\ Image.observations = observations
      /\ Image.episodes = episodes /\ Image.comparisons = comparisons
      /\ Image.recoveries = recoveries
  BY DEF Image
<1> DEFINE im == Image
<1>2. /\ TypeOK /\ MatrixIsOnRecord /\ EvidenceIsPublished /\ EpisodeIsOnRecord
      /\ AttributionIsEarned /\ ComparisonsStand /\ HasMaxima(DOMAIN comparisons)
  BY DEF EngineInv, Inv
<1>3. \A id \in DOMAIN comparisons :
        LET r == comparisons[id]
        IN  /\ ComparisonId(r) = id
            /\ r.baseline_id \in DOMAIN baselines
            /\ baselines[r.baseline_id].workload_id = r.victim
            /\ baselines[r.baseline_id].sample_count > 0
            /\ r.epoch <= epoch
            /\ r.epoch = epoch
                 => baselines[r.baseline_id].freshness = "Current"
  BY <1>2 DEF MatrixIsOnRecord, EvidenceIsPublished, ComparisonsStand
<1> HIDE DEF im
<1>4. QED
  BY <1>1, <1>2, <1>3
  DEF Sound, TypeOK, ComparisonKey, EpisodeIsOnRecord, AttributionIsEarned

\* A new engine that loads a sound state is sound, with the matrix it rebuilds.
LEMMA LoadIsSound ==
  ASSUME NEW im, Sound(im), Adopt(im), matrix' = LoadedMatrix(<<>>, im.comparisons)
  PROVE  EngineInv'
<1> DEFINE C == im.comparisons
           M == LoadedMatrix(<<>>, C)
<1>1. /\ \A k \in DOMAIN M :
           \E id \in DOMAIN C : CellKey(C[id]) = k /\ M[k] = C[id]
      /\ \A id \in DOMAIN C : CellKey(C[id]) \in DOMAIN M
  BY LoadedCells DEF Sound
<1>2. comparisons' = C /\ matrix' = M
  BY DEF Adopt
<1>3. /\ MapOf(C, ComparisonKey, Result) /\ HasMaxima(DOMAIN C)
      /\ \A id \in DOMAIN C : ComparisonId(C[id]) = id
  BY DEF Sound
<1> HIDE DEF C, M
<1>4. MatrixIsOnRecord'
  BY <1>1, <1>2, <1>3 DEF MatrixIsOnRecord
<1>5. MapOf(M, Id \X Id \X InterferenceDomain, Result)
  <2>1. ASSUME NEW k \in DOMAIN M
        PROVE  k \in Id \X Id \X InterferenceDomain /\ M[k] \in Result
    <3>1. PICK id \in DOMAIN C : CellKey(C[id]) = k /\ M[k] = C[id]
      BY <1>1
    <3>2. C[id] \in Result
      BY <1>3 DEF MapOf
    <3>3. QED
      BY <3>1, <3>2 DEF CellKey, Result
  <2>2. QED
    BY <2>1 DEF MapOf
<1>6. TypeOK'
  BY <1>2, <1>3, <1>5 DEF TypeOK, Adopt, Sound, ComparisonKey
<1>7. EvidenceIsPublished' /\ ComparisonsStand'
  BY Zenon DEF Sound, Adopt, EvidenceIsPublished, ComparisonsStand
<1>8. EpisodeIsOnRecord'
  BY Zenon DEF Sound, Adopt, EpisodeIsOnRecord
<1>9. AttributionIsEarned'
  BY DEF Sound, Adopt, AttributionIsEarned
<1>10. QED
  BY <1>2, <1>3, <1>4, <1>6, <1>7, <1>8, <1>9 DEF EngineInv, Inv

\* The inductive invariant of the engine with its store: the engine is sound,
\* and so is whatever a later incarnation may load.
StoreInv ==
  /\ DigestIsNumber /\ EngineInv /\ WrittenIsImage
  /\ decodes(file) => Sound(file.image)

\* Calls, saves, crashes and restarts keep it.
LEMMA StoreStep == StoreInv /\ [RestartNext]_storeVars => StoreInv'
<1> SUFFICES ASSUME StoreInv, [RestartNext]_storeVars PROVE StoreInv'
  OBVIOUS
<1>1. DigestIsNumber' /\ WrittenIsImage'
  BY WrittenStep DEF StoreInv, DigestIsNumber
<1>2. decodes(file') => Sound(file'.image)
  <2>1. CASE file' = file
    BY <2>1 DEF StoreInv
  <2>2. CASE file' # file
    BY <2>2, FileStep, ImageIsSound DEF StoreInv
  <2>3. QED
    BY <2>1, <2>2
<1>3. EngineInv'
  <2>1. CASE [AdvancingNext]_vars
    BY <2>1, EngineStep DEF StoreInv
  <2>2. CASE UNCHANGED vars
    BY <2>2, <2>1
  <2>3. CASE Init /\ load
    <3>1. Sound(file.image) /\ Adopt(file.image)
      BY <2>3 DEF StoreInv, load, deserialize_state
    <3>2. matrix' = LoadedMatrix(<<>>, file.image.comparisons)
      BY <2>3 DEF Init, load, deserialize_state
    <3>3. QED
      BY <3>1, <3>2, LoadIsSound
  <2>4. CASE Crash
    <3>1. Init'
      BY <2>4 DEF Crash, Adopt, Blank, Init
    <3>2. QED
      BY <3>1, InitEngine, PTL
  <2>5. QED
    BY <2>1, <2>2, <2>3, <2>4
    DEF RestartNext, storeVars, SaveOpen, SaveWrite, SaveFails, SaveRename
<1>4. QED
  BY <1>1, <1>2, <1>3 DEF StoreInv

\* The engine and its file are sound at all times.
LEMMA StoreInvariance == DigestIsNumber /\ RestartSpec => []StoreInv
<1>1. DigestIsNumber /\ StoreInit => StoreInv
  BY InitEngine
  DEF StoreInit, StoreInv, WrittenIsImage, decodes, Absent
<1>2. QED
  BY <1>1, StoreStep, PTL DEF RestartSpec

\* Matrix and comparisons agree also after any number of crashes and restarts,
\* although load() rebuilds the matrix.
THEOREM RestartMatrixTheorem ==
  DigestIsNumber /\ RestartSpec => []MatrixIsOnRecord
BY StoreInvariance, PTL DEF StoreInv, EngineInv, Inv

\* Every comparison, loaded ones included, rests on a published, sampled
\* baseline of its victim.
THEOREM RestartPublishedTheorem ==
  DigestIsNumber /\ RestartSpec => []EvidenceIsPublished
BY StoreInvariance, PTL DEF StoreInv, EngineInv, Inv

\* No verdict or episode, loaded ones included, claims more than its evidence.
THEOREM RestartAttributionTheorem ==
  DigestIsNumber /\ RestartSpec => []AttributionIsEarned
BY StoreInvariance, PTL DEF StoreInv, EngineInv, Inv

\* A restart never makes a cell look current whose baseline was revoked.
THEOREM RestartStandTheorem ==
  DigestIsNumber /\ RestartSpec => []CellsOfThisEpochStand
<1>1. StoreInv => CellsOfThisEpochStand
  BY CellsStand DEF StoreInv
<1>2. QED
  BY <1>1, StoreInvariance, PTL
=============================================================================
