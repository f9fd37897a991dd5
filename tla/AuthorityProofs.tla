--------------------------- MODULE AuthorityProofs ---------------------------
(*****************************************************************************)
(* Theorems about authority: cells of the current epoch stand while the      *)
(* epoch only advances; and for callers that publish historical baselines as *)
(* HISTORICAL, no baseline serves two epochs and the engine implements       *)
(* EvidenceAuthority.                                                        *)
(*****************************************************************************)
EXTENDS ObservatoryProofs

-----------------------------------------------------------------------------
(* A caller that only advances the epoch.                                    *)

\* Advancing the epoch is one of the engine's steps.
LEMMA AdvancingStep == [AdvancingNext]_vars => [Next]_vars
BY DEF AdvancingNext, Next

\* Such a step, by what it does to the evidence and the verdicts.
LEMMA AdvancingKinds ==
  ASSUME [AdvancingNext]_vars
  PROVE  \/ \E b \in BaselineCalls : publish_baseline(b)
         \/ \E c \in CompareCalls : compare(c)
         \/ \E e \in EpochCalls : e > epoch /\ set_coordinator_epoch(e)
         \/ UNCHANGED <<epoch, baselines, matrix>>
BY Zenon DEF AdvancingNext, Call, vars, registry, verdicts, register_source,
       register_worker, register_workload, record_observation, record_recovery

\* While the epoch only advances, a call leaves the cells of the current epoch
\* on CURRENT baselines.
LEMMA StandStep ==
  TypeOK /\ CellsOfThisEpochStand /\ [AdvancingNext]_vars
    => CellsOfThisEpochStand'
<1> SUFFICES ASSUME TypeOK, CellsOfThisEpochStand, [AdvancingNext]_vars
             PROVE  CellsOfThisEpochStand'
  OBVIOUS
<1>1. epoch \in Nat /\ \A k \in DOMAIN matrix : matrix[k].epoch \in Nat
  BY DEF TypeOK, MapOf, Result
<1>2. ASSUME NEW b \in BaselineCalls, publish_baseline(b)
      PROVE  CellsOfThisEpochStand'
  <2>1. \A i \in DOMAIN baselines :
          i \in DOMAIN baselines' /\ baselines'[i] = baselines[i]
    BY <1>2 DEF publish_baseline, Stores, Put
  <2>2. UNCHANGED <<epoch, matrix>>
    BY <1>2 DEF publish_baseline, verdicts
  <2>3. QED
    BY <2>1, <2>2 DEF CellsOfThisEpochStand
<1>3. ASSUME NEW c \in CompareCalls, compare(c) PROVE CellsOfThisEpochStand'
  <2>1. PICK i \in DOMAIN baselines :
          /\ Record(Verdict(c, i))
          /\ baselines[i].freshness = "Current"
          /\ UNCHANGED <<epoch, baselines>>
    BY <1>3, CompareStep
  <2> DEFINE r == Verdict(c, i)
  <2>2. r.epoch = epoch /\ r.baseline_id = i
    BY DEF Verdict
  <2>3. Record(r)
    BY <2>1
  <2> HIDE DEF r
  <2>4. ASSUME NEW k \in DOMAIN matrix'
        PROVE  /\ matrix'[k].epoch <= epoch
               /\ matrix'[k].epoch = epoch
                    => /\ matrix'[k].baseline_id \in DOMAIN baselines
                       /\ baselines[matrix'[k].baseline_id].freshness = "Current"
    <3>1. CASE k = CellKey(r)
      <4>1. matrix'[k] = r
        BY <2>3, <3>1, RecordLookup
      <4>2. QED
        BY <1>1, <2>1, <2>2, <4>1
    <3>2. CASE k # CellKey(r)
      <4>1. k \in DOMAIN matrix /\ matrix'[k] = matrix[k]
        BY <2>3, <2>4, <3>2, RecordLookup
      <4>2. QED
        BY <4>1 DEF CellsOfThisEpochStand
    <3>3. QED
      BY <3>1, <3>2
  <2>5. QED
    BY <2>1, <2>4 DEF CellsOfThisEpochStand
<1>4. ASSUME NEW e \in EpochCalls, e > epoch, set_coordinator_epoch(e)
      PROVE  CellsOfThisEpochStand'
  <2>1. epoch' = e /\ e \in Nat /\ matrix' = matrix
    BY <1>4, CallTypes DEF set_coordinator_epoch, verdicts
  <2>2. \A k \in DOMAIN matrix : matrix[k].epoch < e
    BY <1>1, <1>4, <2>1 DEF CellsOfThisEpochStand
  <2>3. QED
    BY <1>1, <2>1, <2>2 DEF CellsOfThisEpochStand
<1>5. ASSUME UNCHANGED <<epoch, baselines, matrix>>
      PROVE  CellsOfThisEpochStand'
  BY <1>5 DEF CellsOfThisEpochStand
<1>6. QED
  BY <1>2, <1>3, <1>4, <1>5, AdvancingKinds

\* While the epoch only advances, every verdict stamped with the current epoch
\* rests on a baseline that is CURRENT at this moment.
THEOREM StandTheorem == AdvancingSpec => []CellsOfThisEpochStand
<1>1. Init => TypeOK /\ CellsOfThisEpochStand
  BY InitTypeOK DEF Init, CellsOfThisEpochStand
<1>2. TypeOK /\ CellsOfThisEpochStand /\ [AdvancingNext]_vars
        => TypeOK' /\ CellsOfThisEpochStand'
  BY AdvancingStep, NextTypeOK, StandStep
<1>3. QED
  BY <1>1, <1>2, PTL DEF AdvancingSpec

-----------------------------------------------------------------------------
(* Callers that publish historical baselines as HISTORICAL.                  *)

\* Of the published baselines, only dynamic ones are CURRENT.
CurrentIsDynamic ==
  \A i \in DOMAIN baselines :
    baselines[i].freshness = "Current" => Dynamic(baselines[i])

\* Nothing is CURRENT in the sweep's wake, if only dynamic baselines were.
LEMMA RevalidatedIsNotCurrent ==
  ASSUME NEW b \in Baseline, b.freshness = "Current" => Dynamic(b)
  PROVE  Revalidated(b).freshness # "Current"
BY DEF Revalidated, Dynamic, Baseline

\* publish_baseline() and set_coordinator_epoch() keep it so.
LEMMA CurrentIsDynamicStep ==
  HistoricalIsMarked /\ TypeOK /\ CurrentIsDynamic /\ [Next]_vars
    => CurrentIsDynamic'
<1> SUFFICES ASSUME HistoricalIsMarked, TypeOK, CurrentIsDynamic, [Next]_vars
             PROVE  CurrentIsDynamic'
  OBVIOUS
<1>1. ASSUME NEW b \in BaselineCalls, publish_baseline(b)
      PROVE  CurrentIsDynamic'
  <2>1. b \in Baseline
    BY CallTypes
  <2>2. Admitted(b).freshness = "Current" => Dynamic(Admitted(b))
    BY <2>1 DEF HistoricalIsMarked, Admitted, Dynamic, Baseline
  <2>3. \A i \in DOMAIN baselines' :
          \/ baselines'[i] = Admitted(b)
          \/ i \in DOMAIN baselines /\ baselines'[i] = baselines[i]
    BY <1>1 DEF publish_baseline, Put
  <2>4. QED
    BY <2>2, <2>3 DEF CurrentIsDynamic, Dynamic
<1>2. ASSUME NEW e \in EpochCalls, set_coordinator_epoch(e)
      PROVE  CurrentIsDynamic'
  <2>1. \A i \in DOMAIN baselines' : baselines'[i].freshness # "Current"
    BY <1>2, RevalidatedIsNotCurrent
    DEF set_coordinator_epoch, CurrentIsDynamic, TypeOK, MapOf
  <2>2. QED
    BY <2>1 DEF CurrentIsDynamic
<1>3. ASSUME UNCHANGED baselines PROVE CurrentIsDynamic'
  BY <1>3 DEF CurrentIsDynamic, Dynamic
<1>4. QED
  BY <1>1, <1>2, <1>3, StepKinds DEF evidence, record_recovery, compare

\* While a baseline is CURRENT, every comparison on it is of this epoch.
CurrentServesThisEpoch ==
  \A id \in DOMAIN comparisons :
    baselines[comparisons[id].baseline_id].freshness = "Current"
      => comparisons[id].epoch = epoch

ServiceInv == CurrentIsDynamic /\ CurrentServesThisEpoch /\ EvidenceServesOneEpoch

\* compare() joins verdicts of this epoch only, and an epoch change ends the
\* service of every baseline.
LEMMA ServiceStep ==
  HistoricalIsMarked /\ Inv /\ ServiceInv /\ [Next]_vars => ServiceInv'
<1> SUFFICES ASSUME HistoricalIsMarked, Inv, ServiceInv, [Next]_vars
             PROVE  ServiceInv'
  OBVIOUS
<1>1. CurrentIsDynamic'
  BY CurrentIsDynamicStep DEF Inv, ServiceInv
<1>2. \A id \in DOMAIN comparisons : comparisons[id].baseline_id \in DOMAIN baselines
  BY DEF Inv, EvidenceIsPublished
<1>3. ASSUME NEW b \in BaselineCalls, publish_baseline(b)
      PROVE  CurrentServesThisEpoch' /\ EvidenceServesOneEpoch'
  <2>1. \A i \in DOMAIN baselines : baselines'[i] = baselines[i]
    BY <1>3 DEF publish_baseline, Stores, Put
  <2>2. UNCHANGED <<epoch, comparisons>>
    BY <1>3 DEF publish_baseline, verdicts
  <2>3. QED
    BY <1>2, <2>1, <2>2
    DEF ServiceInv, CurrentServesThisEpoch, EvidenceServesOneEpoch
<1>4. ASSUME NEW c \in CompareCalls, compare(c)
      PROVE  CurrentServesThisEpoch' /\ EvidenceServesOneEpoch'
  <2>1. PICK i \in DOMAIN baselines :
          /\ Record(Verdict(c, i))
          /\ baselines[i].freshness = "Current"
          /\ UNCHANGED <<epoch, baselines>>
    BY <1>4, CompareStep
  <2> DEFINE r == Verdict(c, i)
  <2>2. r.epoch = epoch /\ r.baseline_id = i
    BY DEF Verdict
  <2>3. Record(r)
    BY <2>1
  <2> HIDE DEF r
  <2>4. ASSUME NEW id \in DOMAIN comparisons'
        PROVE  \/ comparisons'[id] = r
               \/ id \in DOMAIN comparisons /\ comparisons'[id] = comparisons[id]
    BY <2>3, <2>4, RecordLookup
  <2>5. CurrentServesThisEpoch'
    BY <2>1, <2>2, <2>4 DEF ServiceInv, CurrentServesThisEpoch
  <2>6. ASSUME NEW x \in DOMAIN comparisons', NEW y \in DOMAIN comparisons',
               comparisons'[x].baseline_id = comparisons'[y].baseline_id
        PROVE  comparisons'[x].epoch = comparisons'[y].epoch
    <3>1. CASE comparisons'[x] = r \/ comparisons'[y] = r
      BY <2>1, <2>2, <2>5, <2>6, <3>1 DEF CurrentServesThisEpoch
    <3>2. CASE comparisons'[x] # r /\ comparisons'[y] # r
      BY <2>4, <2>6, <3>2 DEF ServiceInv, EvidenceServesOneEpoch
    <3>3. QED
      BY <3>1, <3>2
  <2>7. QED
    BY <2>5, <2>6 DEF EvidenceServesOneEpoch
<1>5. ASSUME NEW e \in EpochCalls, set_coordinator_epoch(e)
      PROVE  CurrentServesThisEpoch' /\ EvidenceServesOneEpoch'
  <2>1. \A i \in DOMAIN baselines : baselines'[i].freshness # "Current"
    BY <1>5, RevalidatedIsNotCurrent
    DEF set_coordinator_epoch, ServiceInv, CurrentIsDynamic, Inv, TypeOK, MapOf
  <2>2. comparisons' = comparisons
    BY <1>5 DEF set_coordinator_epoch, verdicts
  <2>3. QED
    BY <1>2, <2>1, <2>2
    DEF ServiceInv, CurrentServesThisEpoch, EvidenceServesOneEpoch
<1>6. ASSUME UNCHANGED <<epoch, baselines, comparisons>>
      PROVE  CurrentServesThisEpoch' /\ EvidenceServesOneEpoch'
  BY <1>6 DEF ServiceInv, CurrentServesThisEpoch, EvidenceServesOneEpoch
<1>7. QED
  BY <1>1, <1>3, <1>4, <1>5, <1>6, StepKinds
  DEF ServiceInv, evidence, verdicts, record_recovery

\* No baseline decides in two epochs, whatever epochs the caller sets, as long
\* as it publishes historical baselines as HISTORICAL.
THEOREM ServiceTheorem ==
  HistoricalIsMarked /\ Spec => []EvidenceServesOneEpoch
<1>1. Init => ServiceInv
  BY DEF Init, ServiceInv, CurrentIsDynamic, CurrentServesThisEpoch,
         EvidenceServesOneEpoch
<1>2. HistoricalIsMarked => HistoricalIsMarked'
  BY DEF HistoricalIsMarked, Dynamic
<1>3. ServiceInv => EvidenceServesOneEpoch
  BY DEF ServiceInv
<1>4. QED
  BY <1>1, <1>2, <1>3, Invariance, ServiceStep, PTL DEF Spec

-----------------------------------------------------------------------------
(* The engine implements EvidenceAuthority.                                  *)

authorityBar == [i \in DOMAIN baselines |-> Standing(baselines[i])]
supportBar == [k \in DOMAIN matrix |-> matrix[k].baseline_id]

\* Only ids that some call publishes are published.
PublishedByCall == DOMAIN baselines \subseteq {b.id : b \in BaselineCalls}

\* After an epoch change no baseline is CURRENT dynamic evidence.
LEMMA StandingRevalidated ==
  ASSUME NEW b \in Baseline PROVE Standing(Revalidated(b)) = "inert"
BY DEF Standing, Revalidated, Dynamic, Baseline

\* Publication of new ids only.
LEMMA PublishedByCallStep ==
  PublishedByCall /\ [Next]_vars => PublishedByCall'
<1> SUFFICES ASSUME PublishedByCall, [Next]_vars PROVE PublishedByCall'
  OBVIOUS
<1>1. ASSUME NEW b \in BaselineCalls, publish_baseline(b) PROVE PublishedByCall'
  BY <1>1 DEF PublishedByCall, publish_baseline, Put
<1>2. ASSUME NEW e \in EpochCalls, set_coordinator_epoch(e)
      PROVE  PublishedByCall'
  BY <1>2 DEF PublishedByCall, set_coordinator_epoch
<1>3. ASSUME UNCHANGED baselines PROVE PublishedByCall'
  BY <1>3 DEF PublishedByCall
<1>4. QED
  BY <1>1, <1>2, <1>3, StepKinds DEF evidence, record_recovery, compare

\* The initial state maps to the abstract initial state.
LEMMA AuthorityInit == Init => Authority!Init
BY DEF Init, Authority!Init

\* Every call maps to an abstract step or to none.
LEMMA AuthorityStep ==
  ASSUME TypeOK, PublishedByCall, CurrentIsDynamic, [Next]_vars
  PROVE  Authority!Next \/ UNCHANGED <<authorityBar, supportBar>>
<1>1. ASSUME NEW b \in BaselineCalls, publish_baseline(b)
      PROVE  Authority!Publish(b.id)
  <2>1. authorityBar' = Authority!Extend(authorityBar, b.id, Standing(Admitted(b)))
    BY <1>1 DEF publish_baseline, Put, Authority!Extend, authorityBar, Standing,
                Dynamic
  <2>2. Standing(Admitted(b)) \in Authority!Standing
    BY DEF Standing, Authority!Standing
  <2>3. supportBar' = supportBar
    BY <1>1 DEF publish_baseline, verdicts, supportBar
  <2>4. b.id \notin DOMAIN authorityBar
    BY <1>1 DEF publish_baseline, Stores, authorityBar
  <2>5. QED
    BY <2>1, <2>2, <2>3, <2>4 DEF Authority!Publish, authorityBar, supportBar
<1>2. ASSUME NEW e \in EpochCalls, set_coordinator_epoch(e)
      PROVE  Authority!RevokeAll
  <2>1. \A i \in DOMAIN baselines : baselines[i] \in Baseline
    BY DEF TypeOK, MapOf
  <2>2. authorityBar' = [i \in DOMAIN authorityBar |-> "inert"]
    <3>1. DOMAIN baselines' = DOMAIN baselines
      BY <1>2 DEF set_coordinator_epoch
    <3>2. \A i \in DOMAIN baselines : Standing(baselines'[i]) = "inert"
      BY <1>2, <2>1, StandingRevalidated DEF set_coordinator_epoch
    <3>3. QED
      BY <3>1, <3>2 DEF authorityBar
  <2>3. supportBar' = supportBar
    BY <1>2 DEF set_coordinator_epoch, verdicts, supportBar
  <2>4. QED
    BY <2>2, <2>3 DEF Authority!RevokeAll, authorityBar, supportBar
<1>3. ASSUME NEW c \in CompareCalls, compare(c)
      PROVE  \E i \in {b.id : b \in BaselineCalls} :
               Authority!Decide(<<c.affected.id, c.associated, c.domain>>, i)
  <2>1. PICK i \in DOMAIN baselines :
          /\ Record(Verdict(c, i))
          /\ baselines[i].freshness = "Current"
          /\ UNCHANGED baselines
    BY <1>3, CompareStep
  <2> DEFINE r == Verdict(c, i)
             k == <<c.affected.id, c.associated, c.domain>>
  <2>2. r.baseline_id = i /\ CellKey(r) = k
    BY DEF Verdict, CellKey
  <2>3. matrix' = Put(matrix, k, r)
    BY <2>1, <2>2 DEF Record
  <2> HIDE DEF r
  <2>4. supportBar' = Authority!Extend(supportBar, k, i)
    BY <2>2, <2>3 DEF Put, Authority!Extend, supportBar
  <2>5. i \in DOMAIN authorityBar /\ authorityBar[i] = "live"
    BY <2>1 DEF authorityBar, Standing, CurrentIsDynamic
  <2>6. authorityBar' = authorityBar
    BY <2>1 DEF authorityBar
  <2>7. Authority!Decide(k, i)
    BY <2>4, <2>5, <2>6 DEF Authority!Decide, authorityBar, supportBar
  <2>8. QED
    BY <2>7 DEF PublishedByCall
<1>4. ASSUME UNCHANGED <<baselines, matrix>>
      PROVE  UNCHANGED <<authorityBar, supportBar>>
  BY <1>4 DEF authorityBar, supportBar
<1>5. ASSUME NEW t \in RecoveryCalls, record_recovery(t)
      PROVE  UNCHANGED <<baselines, matrix>>
  BY <1>5 DEF record_recovery, verdicts
<1>6. QED
  BY <1>1, <1>2, <1>3, <1>4, <1>5, StepKinds, Zenon
  DEF Authority!Next, evidence, verdicts

\* The engine implements the abstract account of authority for callers that
\* publish historical baselines as HISTORICAL: an epoch change leaves no live
\* baseline, revocation is final, and a verdict is only written on a baseline
\* that is CURRENT dynamic evidence at that moment.
THEOREM RefinementTheorem == HistoricalIsMarked /\ Spec => AuthorityRefined
<1>1. Init => PublishedByCall /\ CurrentIsDynamic
  BY DEF Init, PublishedByCall, CurrentIsDynamic
<1>2. HistoricalIsMarked => HistoricalIsMarked'
  BY DEF HistoricalIsMarked, Dynamic
<1>3. TypeOK /\ PublishedByCall /\ CurrentIsDynamic /\ [Next]_vars
        => [Authority!Next]_<<authorityBar, supportBar>>
  BY AuthorityStep
<1>4. QED
  BY <1>1, <1>2, <1>3, TypeCorrect, PublishedByCallStep, CurrentIsDynamicStep,
     AuthorityInit, PTL
  DEF Spec, AuthorityRefined, Authority!Spec, authorityBar, supportBar
=============================================================================
