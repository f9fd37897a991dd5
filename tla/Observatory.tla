----------------------------- MODULE Observatory -----------------------------
(*****************************************************************************)
(* The observatory engine (class InterferenceObservatory): the maps of       *)
(* struct Impl and the public operations that change them.  Every public     *)
(* operation holds mutex_ for its whole body, so each is one atomic action.  *)
(*                                                                           *)
(* The constants are the calls the environment may make, one set per         *)
(* operation: any interleaving of them, any number of times.  An operation   *)
(* that refuses its arguments leaves the state as it is.                     *)
(*****************************************************************************)
EXTENDS Evidence

CONSTANTS
  EpochCalls,       \* epochs given to set_coordinator_epoch
  SourceCalls,      \* records [id, generation] given to register_source
  WorkerCalls,      \* records [id, boot, connected] given to register_worker
  WorkloadCalls,    \* descriptors given to register_workload
  BaselineCalls,    \* baselines given to publish_baseline
  ObservationCalls, \* observations given to record_observation
  RecoveryCalls,    \* triples given to record_recovery
  CompareCalls      \* argument records of compare

CompareCall ==
  [affected : WorkloadDescriptor, associated : Id,
   domain : InterferenceDomain, batch : Seq(Observation), policy : Policy]

ASSUME CallTypes ==
  /\ EpochCalls \subseteq Nat
  /\ SourceCalls \subseteq [id : Id, generation : Id]
  /\ WorkerCalls \subseteq [id : Id, boot : Id, connected : BOOLEAN]
  /\ WorkloadCalls \subseteq WorkloadDescriptor
  /\ BaselineCalls \subseteq Baseline
  /\ ObservationCalls \subseteq Observation
  /\ RecoveryCalls \subseteq Id \X Id \X InterferenceDomain
  /\ \A c \in CompareCalls :
       /\ c.affected \in WorkloadDescriptor
       /\ c.associated \in Id
       /\ c.domain \in InterferenceDomain
       /\ c.batch \in Seq(Observation)
       /\ c.policy \in Policy

VARIABLES
  epoch,         \* CoordinatorEpoch
  sources,       \* source id -> [generation, freshness]
  workers,       \* worker id -> [boot, connected]
  workloads,     \* workload id -> descriptor
  baselines,     \* baseline id -> Baseline
  observations,  \* observation id -> Observation
  recoveries,    \* set of <<victim, neighbor, domain>>
  comparisons,   \* comparison id -> Result
  matrix,        \* <<victim, neighbor, domain>> -> Result
  episodes       \* episode id -> Episode

registry == <<sources, workers, workloads, observations>>
verdicts == <<comparisons, matrix, episodes>>
vars == <<epoch, registry, baselines, recoveries, verdicts>>

\* A stored PairwiseInterference.  Degradation, confidence and provenance are
\* carried along by the code without influencing a later step, and the episode
\* id is nil in what is stored: it is set on the returned copy only.
Result ==
  [victim : Id, neighbor : Id, domain : InterferenceDomain, baseline_id : Id,
   sample_count : Nat, freshness : Freshness, outcome : Outcome,
   attribution : AttributionStrength, epoch : Nat,
   unresolved : SUBSET Confounder]

Episode ==
  [affected : Id, co_running : Id, domain : InterferenceDomain,
   baseline_id : Id, classification : Outcome,
   strength : AttributionStrength, freshness : Freshness, epoch : Nat]

\* Mutant of ComparisonId: the number of samples is not digested.
ComparisonIdUnsized(r) == <<r.victim, r.neighbor, r.domain, r.baseline_id>>

\* CellKey, and the two content-derived ids.  The 64-bit digests are taken to
\* be injective on the fields they digest.
CellKey(r) == <<r.victim, r.neighbor, r.domain>>
ComparisonId(r) ==
  <<r.victim, r.neighbor, r.domain, r.baseline_id, r.sample_count>>
EpisodeId(r) == <<r.victim, r.domain, r.baseline_id>>

\* std::map: m[k] = v.
Put(m, k, v) == [x \in DOMAIN m \cup {k} |-> IF x = k THEN v ELSE m[x]]

Init ==
  /\ epoch = 1
  /\ sources = <<>> /\ workers = <<>> /\ workloads = <<>>
  /\ baselines = <<>> /\ observations = <<>> /\ recoveries = {}
  /\ comparisons = <<>> /\ matrix = <<>> /\ episodes = <<>>

-----------------------------------------------------------------------------
(* Epoch and registrations.                                                  *)

\* Mutant of Revalidated: only ISOLATED baselines are swept.
RevalidatedIfIsolated(b) ==
  IF b.type = "Isolated" /\ b.freshness # "Historical"
  THEN [b EXCEPT !.freshness = "RevalidationRequired"]
  ELSE b

\* Historical evidence keeps its freshness, everything else must be
\* revalidated.
Revalidated(b) ==
  IF b.type = "HistoricalIsolated" \/ b.freshness = "Historical"
  THEN b
  ELSE [b EXCEPT !.freshness = "RevalidationRequired"]

set_coordinator_epoch(e) ==
  /\ e # epoch
  /\ epoch' = e
  /\ baselines' = [i \in DOMAIN baselines |-> Revalidated(baselines[i])]
  /\ sources' = [i \in DOMAIN sources |->
                   IF sources[i].freshness = "Historical" THEN sources[i]
                   ELSE [sources[i] EXCEPT !.freshness = "RevalidationRequired"]]
  /\ workers' = [i \in DOMAIN workers |->
                   [workers[i] EXCEPT !.connected = FALSE]]
  /\ UNCHANGED <<workloads, observations, recoveries, verdicts>>

\* Mutant of register_source: a new generation is trusted at once.
register_source_trusting(c) ==
  /\ ~is_nil(c.id) /\ ~is_nil(c.generation)
  /\ sources' = Put(sources, c.id,
                    [generation |-> c.generation, freshness |-> "Current"])
  /\ UNCHANGED <<epoch, workers, workloads, observations, baselines,
                 recoveries, verdicts>>

\* A known source with another generation is recorded under the new one but
\* must revalidate (the call returns StaleAuthority).
register_source(c) ==
  /\ ~is_nil(c.id) /\ ~is_nil(c.generation)
  /\ LET reborn == /\ c.id \in DOMAIN sources
                   /\ sources[c.id].generation # c.generation
     IN  sources' = Put(sources, c.id,
           [generation |-> c.generation,
            freshness |-> IF reborn THEN "RevalidationRequired" ELSE "Current"])
  /\ UNCHANGED <<epoch, workers, workloads, observations, baselines,
                 recoveries, verdicts>>

\* A new boot id replaces the old one; the return value differs
\* (StaleAuthority or Ok), the update does not.
register_worker(c) ==
  /\ ~is_nil(c.id) /\ ~is_nil(c.boot)
  /\ workers' = Put(workers, c.id, [boot |-> c.boot, connected |-> c.connected])
  /\ UNCHANGED <<epoch, sources, workloads, observations, baselines,
                 recoveries, verdicts>>

register_workload(d) ==
  /\ ~is_nil(d.id) /\ ~is_nil(d.binding.generation)
  /\ workloads' = Put(workloads, d.id, d)
  /\ UNCHANGED <<epoch, sources, workers, observations, baselines,
                 recoveries, verdicts>>

-----------------------------------------------------------------------------
(* Evidence coming in.                                                       *)

\* Every MetricKind passes the check of the metric kind.
WellFormed(b) ==
  /\ ~is_nil(b.id) /\ ~is_nil(b.generation)
  /\ is_usable(b)
  /\ b.confidence \in 0..100
  /\ b.variance >= 0

\* The fields that decide whether a duplicate id is the same baseline.
SameBaseline(b, c) ==
  /\ b.generation = c.generation
  /\ b.workload_id = c.workload_id
  /\ b.device_id = c.device_id
  /\ b.mean_value = c.mean_value
  /\ b.sample_count = c.sample_count

Admitted(b) ==
  IF b.freshness = "Unknown" THEN [b EXCEPT !.freshness = "Current"] ELSE b

\* Mutant of Stores: an identical duplicate replaces the stored one.
StoresAgain(b) ==
  /\ WellFormed(b)
  /\ b.id \in DOMAIN baselines => SameBaseline(baselines[b.id], b)

\* A duplicate id is accepted as a no-op (SameBaseline) or refused; either way
\* the stored baseline stays as it is.
Stores(b) == WellFormed(b) /\ b.id \notin DOMAIN baselines

publish_baseline(b) ==
  /\ Stores(b)
  /\ baselines' = Put(baselines, b.id, Admitted(b))
  /\ UNCHANGED <<epoch, registry, recoveries, verdicts>>

record_observation(o) ==
  /\ ~is_nil(o.id) /\ ~is_nil(o.generation) /\ ~is_nil(o.workload_id)
  /\ o.valid
  /\ o.id \notin DOMAIN observations
  /\ observations' = Put(observations, o.id, o)
  /\ UNCHANGED <<epoch, sources, workers, workloads, baselines, recoveries,
                 verdicts>>

record_recovery(t) ==
  /\ ~is_nil(t[1]) /\ ~is_nil(t[2])
  /\ recoveries' = recoveries \cup {t}
  /\ UNCHANGED <<epoch, registry, baselines, verdicts>>

-----------------------------------------------------------------------------
(* Comparison.                                                               *)

\* The result of a comparison of call c that rests on baseline i.  Without a
\* sample that overlapped the neighbor, no interference is reported.
Verdict(c, i) ==
  LET b == baselines[i]
      w == c.affected.id
      S == Samples(c.batch, w, b.metric_kind)
      n == Cardinality(S)
      overlap == Overlaps(c.batch, S, c.associated)
      unresolved == Unresolved(c.batch, w)
      recovered == <<w, c.associated, c.domain>> \in recoveries
  IN  [victim |-> w, neighbor |-> c.associated, domain |-> c.domain,
       baseline_id |-> i,
       sample_count |-> n,
       freshness |-> FreshnessAt(b, NowOf(c.batch), c.policy),
       outcome |-> IF overlap
                   THEN classify_outcome(
                          Degradation(b, SumOf(c.batch, S), n), c.policy)
                   ELSE "NoInterferenceDetected",
       attribution |-> Attribution(overlap, unresolved \cap HardConfounder,
                                   recovered),
       epoch |-> epoch,
       unresolved |-> unresolved]

\* Mutant of EpisodeOf: victim and neighbor swapped.
EpisodeSwapped(r) ==
  [affected |-> r.neighbor, co_running |-> r.victim, domain |-> r.domain,
   baseline_id |-> r.baseline_id, classification |-> r.outcome,
   strength |-> r.attribution, freshness |-> r.freshness, epoch |-> r.epoch]

EpisodeOf(r) ==
  [affected |-> r.victim, co_running |-> r.neighbor, domain |-> r.domain,
   baseline_id |-> r.baseline_id, classification |-> r.outcome,
   strength |-> r.attribution, freshness |-> r.freshness, epoch |-> r.epoch]

\* Mutant of Decides: anything not EXPIRED is fresh enough.
DecidesUnlessExpired(c, i) ==
  /\ isValid(c.policy)
  /\ i \in Selected(baselines, c.affected)
  /\ FreshnessAt(baselines[i], NowOf(c.batch), c.policy) # "Expired"
  /\ Cardinality(Samples(c.batch, c.affected.id, baselines[i].metric_kind))
       >= c.policy.min_samples

\* compare goes all the way only with a valid policy, a selected baseline that
\* is still fresh, and min_samples samples; every other call returns early and
\* records nothing.
Decides(c, i) ==
  /\ isValid(c.policy)
  /\ i \in Selected(baselines, c.affected)
  /\ FreshnessAt(baselines[i], NowOf(c.batch), c.policy) = "Current"
  /\ Cardinality(Samples(c.batch, c.affected.id, baselines[i].metric_kind))
       >= c.policy.min_samples

\* Mutant of Record: a comparison already on record is kept.
RecordOnce(r) ==
  /\ comparisons' = IF ComparisonId(r) \in DOMAIN comparisons THEN comparisons
                    ELSE Put(comparisons, ComparisonId(r), r)
  /\ matrix' = Put(matrix, CellKey(r), r)
  /\ episodes' = IF r.outcome \in Indicating
                 THEN Put(episodes, EpisodeId(r), EpisodeOf(r))
                 ELSE episodes

\* The comparison, its cell and, when interference is indicated, an episode.
Record(r) ==
  /\ comparisons' = Put(comparisons, ComparisonId(r), r)
  /\ matrix' = Put(matrix, CellKey(r), r)
  /\ episodes' = IF r.outcome \in Indicating
                 THEN Put(episodes, EpisodeId(r), EpisodeOf(r))
                 ELSE episodes

compare(c) ==
  /\ \E i \in DOMAIN baselines : Decides(c, i) /\ Record(Verdict(c, i))
  /\ UNCHANGED <<epoch, registry, baselines, recoveries>>

\* explain, for a cell of the matrix: what was stored, as it was stored, except
\* that too few samples for the caller's policy withdraw the outcome.
explain(k, p) ==
  [outcome |-> IF matrix[k].sample_count < p.min_samples
               THEN "InsufficientEvidence" ELSE matrix[k].outcome,
   attribution |-> matrix[k].attribution,
   freshness |-> matrix[k].freshness,
   baseline_id |-> matrix[k].baseline_id]

-----------------------------------------------------------------------------
\* Every call except set_coordinator_epoch.
Call ==
  \/ \E c \in SourceCalls : register_source(c)
  \/ \E c \in WorkerCalls : register_worker(c)
  \/ \E d \in WorkloadCalls : register_workload(d)
  \/ \E b \in BaselineCalls : publish_baseline(b)
  \/ \E o \in ObservationCalls : record_observation(o)
  \/ \E t \in RecoveryCalls : record_recovery(t)
  \/ \E c \in CompareCalls : compare(c)

\* The engine accepts any epoch, also a lower one.
Next == Call \/ \E e \in EpochCalls : set_coordinator_epoch(e)

Spec == Init /\ [][Next]_vars

\* The same engine under a caller that only ever advances the epoch.
AdvancingNext ==
  Call \/ \E e \in EpochCalls : e > epoch /\ set_coordinator_epoch(e)

AdvancingSpec == Init /\ [][AdvancingNext]_vars

-----------------------------------------------------------------------------
(* Properties.                                                               *)

MapOf(m, K, V) == DOMAIN m \subseteq K /\ \A k \in DOMAIN m : m[k] \in V

\* Every map of struct Impl holds values of its declared types.
TypeOK ==
  /\ epoch \in Nat
  /\ MapOf(sources, Id, [generation : Id, freshness : Freshness])
  /\ MapOf(workers, Id, [boot : Id, connected : BOOLEAN])
  /\ MapOf(workloads, Id, WorkloadDescriptor)
  /\ MapOf(baselines, Id, Baseline)
  /\ MapOf(observations, Id, Observation)
  /\ recoveries \subseteq Id \X Id \X InterferenceDomain
  /\ MapOf(comparisons,
           Id \X Id \X InterferenceDomain \X Id \X Nat, Result)
  /\ MapOf(matrix, Id \X Id \X InterferenceDomain, Result)
  /\ MapOf(episodes, Id \X InterferenceDomain \X Id, Episode)

\* The matrix and the history of comparisons never drift apart: compare()
\* overwrites an old comparison under the same content-derived id and the cell
\* in the same call, so each cell is exactly a comparison that is still on
\* record under its own id, and each pair ever compared has a cell.
MatrixIsOnRecord ==
  /\ \A k \in DOMAIN matrix :
       /\ CellKey(matrix[k]) = k
       /\ ComparisonId(matrix[k]) \in DOMAIN comparisons
       /\ comparisons[ComparisonId(matrix[k])] = matrix[k]
  /\ \A id \in DOMAIN comparisons :
       /\ ComparisonId(comparisons[id]) = id
       /\ CellKey(comparisons[id]) \in DOMAIN matrix

\* Every comparison rests on a baseline that is still published, that is a
\* baseline of the victim itself (never of the neighbor) and that was measured
\* from at least one sample; nothing in the engine removes such a baseline.
EvidenceIsPublished ==
  \A id \in DOMAIN comparisons :
    LET r == comparisons[id]
    IN  /\ r.baseline_id \in DOMAIN baselines
        /\ baselines[r.baseline_id].workload_id = r.victim
        /\ baselines[r.baseline_id].sample_count > 0

\* An episode always has a comparison of the same victim, neighbor, domain and
\* baseline on record, however often compare() has overwritten both since.
EpisodeIsOnRecord ==
  \A e \in DOMAIN episodes :
    /\ e = <<episodes[e].affected, episodes[e].domain, episodes[e].baseline_id>>
    /\ \E id \in DOMAIN comparisons :
         /\ CellKey(comparisons[id]) =
              <<episodes[e].affected, episodes[e].co_running, episodes[e].domain>>
         /\ comparisons[id].baseline_id = episodes[e].baseline_id

\* The attribution ladder as it shows in what is stored: counterfactual
\* evidence needs a recovery record of the same direction and domain, a hard
\* confounder rules out a controlled comparison or better, interference is
\* never reported for a neighbor that no sample overlapped, and the engine
\* never claims direct resource evidence.
AttributionIsEarned ==
  /\ \A id \in DOMAIN comparisons :
       LET r == comparisons[id]
       IN  /\ r.attribution = "StrongCounterfactualEvidence"
                => CellKey(r) \in recoveries
           /\ r.unresolved \cap HardConfounder # {}
                => r.attribution \in {"Unknown", "TemporallyAssociated",
                                      "Correlated"}
           /\ r.outcome \in Indicating => r.attribution # "Unknown"
           /\ r.attribution # "DirectResourceEvidence"
  /\ \A e \in DOMAIN episodes :
       /\ episodes[e].classification \in Indicating
       /\ episodes[e].strength # "Unknown"
       /\ episodes[e].strength = "StrongCounterfactualEvidence"
            => <<episodes[e].affected, episodes[e].co_running,
                 episodes[e].domain>> \in recoveries

\* While the epoch only advances, a cell stamped with the current epoch still
\* has its baseline's authority: what compare() wrote in this epoch rests on a
\* baseline that is CURRENT to this moment, and no cell is from the future.
CellsOfThisEpochStand ==
  \A k \in DOMAIN matrix :
    /\ matrix[k].epoch <= epoch
    /\ matrix[k].epoch = epoch
         => /\ matrix[k].baseline_id \in DOMAIN baselines
            /\ baselines[matrix[k].baseline_id].freshness = "Current"

\* Action property: once published, a baseline is never altered or dropped by
\* any later call except that it may lose its freshness, and a baseline that is
\* not CURRENT never becomes CURRENT again.
RevocationIsPermanent ==
  [][\A i \in DOMAIN baselines :
       /\ i \in DOMAIN baselines'
       /\ baselines'[i] = [baselines[i] EXCEPT
                             !.freshness = baselines'[i].freshness]
       /\ baselines'[i].freshness = "Current"
            => baselines[i].freshness = "Current"]_vars

\* Action property: a source becomes CURRENT again only by registering once
\* more, in an unchanged epoch, under the generation already on record; the
\* call that brings a new generation is never the one that restores trust.
RebornSourceIsNotTrusted ==
  [][\A s \in DOMAIN sources :
       /\ s \in DOMAIN sources'
       /\ sources'[s].freshness = "Current" =>
            /\ sources'[s].generation = sources[s].generation
            /\ epoch' = epoch]_vars

\* Dynamic evidence is everything but HISTORICAL_ISOLATED baselines: those are
\* what set_coordinator_epoch passes over.
Dynamic(b) == b.type # "HistoricalIsolated"

\* Callers that publish historical baselines as HISTORICAL.  The engine does
\* not ask for it.
HistoricalIsMarked ==
  \A b \in BaselineCalls : Dynamic(b) \/ b.freshness \notin {"Current", "Unknown"}

\* All verdicts that rest on one baseline belong to one epoch: whatever decided
\* in compare() before an epoch change never decides after it, since only
\* CURRENT dynamic evidence does and set_coordinator_epoch revokes all of it.
\* Kept by callers with HistoricalIsMarked, and not by the engine on its own.
EvidenceServesOneEpoch ==
  \A c, d \in DOMAIN comparisons :
    comparisons[c].baseline_id = comparisons[d].baseline_id
      => comparisons[c].epoch = comparisons[d].epoch

\* The standing of each published baseline and the baseline behind each cell.
Standing(b) == IF b.freshness = "Current" /\ Dynamic(b) THEN "live" ELSE "inert"

Authority ==
  INSTANCE EvidenceAuthority WITH
    BaselineIds <- {b.id : b \in BaselineCalls},
    Cells <- {<<c.affected.id, c.associated, c.domain>> : c \in CompareCalls},
    authority <- [i \in DOMAIN baselines |-> Standing(baselines[i])],
    support <- [k \in DOMAIN matrix |-> matrix[k].baseline_id]

\* The engine implements the abstract account of authority: an epoch change
\* revokes all live baselines at once, revocation is final, and every verdict
\* written by compare() rests on CURRENT dynamic evidence.  This is so for
\* callers with HistoricalIsMarked; for others see EvidenceServesOneEpoch.
AuthorityRefined == Authority!Spec

-----------------------------------------------------------------------------
(* Statements of the repository's documentation that the engine does not     *)
(* keep; each is checked by a run that shows how.                            *)

\* Advancing the epoch invalidates current evidence: no cell is explained as
\* CURRENT when the dynamic baseline it rests on has to be revalidated.
ExplanationsAreRevalidated ==
  \A k \in DOMAIN matrix, c \in CompareCalls :
    explain(k, c.policy).freshness = "Current"
      => baselines[matrix[k].baseline_id].freshness # "RevalidationRequired"

\* compare() records an episode whenever interference is indicated: every
\* recorded comparison that indicates interference has an episode that names
\* its victim and its neighbor.
InterferenceHasEpisode ==
  \A id \in DOMAIN comparisons :
    comparisons[id].outcome \in Indicating =>
      \E e \in DOMAIN episodes :
        /\ episodes[e].affected = comparisons[id].victim
        /\ episodes[e].co_running = comparisons[id].neighbor
        /\ episodes[e].domain = comparisons[id].domain
=============================================================================
