------------------------------- MODULE Evidence -------------------------------
(*****************************************************************************)
(* The value types of the observatory and the pure part of compare(): which  *)
(* baseline a comparison rests on, whether that baseline is fresh enough,    *)
(* which co-run observations count as samples, and how the samples become    *)
(* an outcome, an attribution strength and a confidence.                     *)
(*                                                                           *)
(* Numbers.  The code computes with doubles; here measured values, means and *)
(* variances are integers, thresholds and confidences are percentages, and a *)
(* ratio is a record [num, den] compared by cross multiplication, so no      *)
(* rounding happens.  A negative value stands for every value that           *)
(* checked::is_finite_nonneg rejects (negative, infinite, NaN).              *)
(*****************************************************************************)
EXTENDS Integers, Sequences, FiniteSetsExt

Freshness == {"Current", "Stale", "Expired", "RevalidationRequired",
              "Historical", "Unknown"}

BaselineType == {"Isolated", "HistoricalIsolated", "ControlRun",
                 "RecentHealthy", "ConfiguredReference", "SyntheticReference"}

Outcome == {"NoInterferenceDetected", "PotentialInterference",
            "InterferenceDetected", "SevereInterference",
            "InsufficientEvidence", "BaselineInvalid", "RevalidationRequired",
            "Unsupported", "Unknown"}

AttributionStrength == {"Unknown", "TemporallyAssociated", "Correlated",
                        "ControlledComparison", "StrongCounterfactualEvidence",
                        "DirectResourceEvidence"}

\* The metrics for which a larger value is a degradation, and the others.
HigherIsWorse == {"Latency", "DeviceTime", "TransferTime", "CollectiveTime",
                  "StallTime", "TailLatency"}

LowerIsWorse == {"Throughput", "CompletionRate", "MemoryBandwidth"}

MetricKind == HigherIsWorse \cup LowerIsWorse

\* is_hard_confounder: confounders that are by themselves an alternative
\* explanation of a slowdown.
HardConfounder == {"ThermalThrottling", "PowerThrottling", "ClockChange",
                   "DifferentWorkloadInput", "DifferentKernelVersion",
                   "DifferentDriverRuntimeState", "WorkerRestart",
                   "DifferentPlacement"}

SoftConfounder == {"BackgroundOSLoad", "ColdStart", "CacheWarmup",
                   "AllocationWarmup", "FrequencyScaling", "DeviceTemperature",
                   "MemoryPressure", "RetryRecovery", "Unknown"}

Confounder == HardConfounder \cup SoftConfounder

InterferenceDomain == {"ComputeExecution", "Cache", "MemoryBandwidth",
                       "MemoryCapacity", "Pcie", "Transfer", "Collective",
                       "Network", "Numa", "Storage", "HostCpu", "Residency",
                       "SharedEngine", "Unknown"}

\* Identifiers are 64-bit values of which 0 is nil.
Id == Nat

is_nil(id) == id = 0

\* Binding: the identity a baseline and a workload must share.  "fingerprint"
\* stands for the seven fields that are neither the workload's generation nor
\* the worker's boot id.
Binding == [generation : Id, worker_boot : Id, fingerprint : Id]

WorkloadDescriptor == [id : Id, device_id : Id, binding : Binding]

Baseline ==
  [id : Id, generation : Id, type : BaselineType, workload_id : Id,
   device_id : Id, binding : Binding, timestamp : Int, freshness : Freshness,
   sample_count : Nat, confidence : Int, variance : Int, mean_value : Int,
   metric_kind : MetricKind, valid : BOOLEAN]

\* An observation; "valid" is Measurement::is_valid.
Observation ==
  [id : Id, generation : Id, workload_id : Id, timestamp : Int,
   kind : MetricKind, value : Int, valid : BOOLEAN,
   co_run_peers : SUBSET Id, confounders : SUBSET Confounder]

Policy ==
  [potential_threshold : Int, detected_threshold : Int, severe_threshold : Int,
   min_samples : Nat, min_confidence : Int, stale_after : Int, max_age : Int]

isValid(p) ==
  /\ 0 <= p.potential_threshold
  /\ p.potential_threshold <= p.detected_threshold
  /\ p.detected_threshold <= p.severe_threshold
  /\ p.min_samples >= 1
  /\ p.min_confidence \in 0..100

-----------------------------------------------------------------------------
(* Choosing the baseline.  bs is the map of published baselines, d the       *)
(* descriptor of the affected workload.                                      *)

is_usable(b) ==
  b.valid /\ b.sample_count > 0 /\ b.confidence > 0 /\ b.mean_value >= 0

binding_matches(b, binding) == b.binding = binding

\* Mutant of Matching: any workload on the device.
MatchingDevice(bs, d) == {i \in DOMAIN bs : bs[i].device_id = d.device_id}

\* The baselines any_match may point at.
Matching(bs, d) ==
  {i \in DOMAIN bs : bs[i].workload_id = d.id /\ bs[i].device_id = d.device_id}

\* Mutant of UsableFor: the worker's boot id is not compared.
UsableForAnyBoot(bs, d) ==
  {i \in Matching(bs, d) :
     /\ is_usable(bs[i])
     /\ bs[i].binding.generation = d.binding.generation
     /\ bs[i].binding.fingerprint = d.binding.fingerprint}

UsableFor(bs, d) ==
  {i \in Matching(bs, d) : is_usable(bs[i]) /\ binding_matches(bs[i], d.binding)}

\* Mutant of Selected: the smallest id among equals.
SelectedFirst(bs, d) ==
  {i \in UsableFor(bs, d) :
     \A j \in UsableFor(bs, d) :
       \/ bs[i].timestamp > bs[j].timestamp
       \/ bs[i].timestamp = bs[j].timestamp /\ i <= j}

\* The scan keeps the latest timestamp and, among equals, the largest id.
\* Freshness plays no part.  At most one element, and one when UsableFor is
\* not empty.
Selected(bs, d) ==
  LET Beats(i, j) == \/ bs[i].timestamp > bs[j].timestamp
                     \/ bs[i].timestamp = bs[j].timestamp /\ i > j
  IN  {i \in UsableFor(bs, d) :
         \A j \in UsableFor(bs, d) : i = j \/ Beats(i, j)}

\* Now, for a comparison, is the time of the last observation handed to it.
NowOf(batch) == IF batch = <<>> THEN 0 ELSE batch[Len(batch)].timestamp

\* Mutant of FreshnessAt: the age without its sign.
FreshnessOfDistance(b, now, p) ==
  LET age == IF now < b.timestamp THEN b.timestamp - now ELSE now - b.timestamp
  IN  IF b.freshness # "Current" \/ age <= p.stale_after THEN b.freshness
      ELSE IF age <= p.max_age THEN "Stale" ELSE "Expired"

\* baseline_fresh: only a CURRENT baseline is aged against the policy, and
\* fresh_ok holds exactly when it is still CURRENT afterwards.
FreshnessAt(b, now, p) ==
  LET age == now - b.timestamp
  IN  CASE b.freshness # "Current" -> b.freshness
        [] b.freshness = "Current" /\ age <= p.stale_after -> "Current"
        [] b.freshness = "Current" /\ age > p.stale_after /\ age <= p.max_age
             -> "Stale"
        [] OTHER -> "Expired"

-----------------------------------------------------------------------------
(* From the co-run observations to an outcome.                               *)

\* Mutant of OfWorkload: the workload is not looked at.
OfAnyWorkload(batch, w) == {i \in DOMAIN batch : w \in Id}

\* The observations of the affected workload, and those that are samples.
OfWorkload(batch, w) == {i \in DOMAIN batch : batch[i].workload_id = w}

Samples(batch, w, kind) ==
  {i \in OfWorkload(batch, w) : batch[i].kind = kind /\ batch[i].valid}

SumOf(batch, S) == MapThenSumSet(LAMBDA i : batch[i].value, S)

Overlaps(batch, S, neighbor) ==
  \E i \in S : neighbor \in batch[i].co_run_peers

\* Confounders are collected from every observation of the affected workload,
\* also from those that are not samples.
Unresolved(batch, w) ==
  UNION {batch[i].confounders : i \in OfWorkload(batch, w)}

\* Mutant of metric_is_worse: more is worse, for every metric.
MoreIsWorse(kind, change) == kind \in MetricKind /\ change > 0

\* metric_is_worse, on the sign of the relative change.
metric_is_worse(kind, change) ==
  \/ kind \in HigherIsWorse /\ change > 0
  \/ kind \in LowerIsWorse /\ change < 0

\* degradation_magnitude of relative_degradation: |mean - base| / base for the
\* mean sum/n when the change is for the worse, and 0 when it is not or when
\* the baseline's mean is not positive.
Degradation(b, sum, n) ==
  LET change == sum - n * b.mean_value
  IN  IF b.mean_value > 0 /\ metric_is_worse(b.metric_kind, change)
      THEN [num |-> IF change > 0 THEN change ELSE -change,
            den |-> n * b.mean_value]
      ELSE [num |-> 0, den |-> 1]

BelowPercent(ratio, t) == 100 * ratio.num < t * ratio.den

classify_outcome(ratio, p) ==
  IF BelowPercent(ratio, p.potential_threshold) THEN "NoInterferenceDetected"
  ELSE IF BelowPercent(ratio, p.detected_threshold) THEN "PotentialInterference"
  ELSE IF BelowPercent(ratio, p.severe_threshold) THEN "InterferenceDetected"
  ELSE "SevereInterference"

\* Mutant of Attribution: the recovery is looked at before the confounders.
AttributionRecoveredFirst(overlap, hard, recovered) ==
  IF ~overlap THEN "Unknown"
  ELSE IF recovered THEN "StrongCounterfactualEvidence"
  ELSE IF hard # {} THEN "Correlated" ELSE "ControlledComparison"

\* The attribution ladder.  DirectResourceEvidence is never produced.
Attribution(overlap, hard, recovered) ==
  IF ~overlap THEN "Unknown"
  ELSE IF hard # {}
       THEN IF Cardinality(hard) >= 2 THEN "TemporallyAssociated"
                                      ELSE "Correlated"
  ELSE IF recovered THEN "StrongCounterfactualEvidence"
                    ELSE "ControlledComparison"

\* Mutant of Confidence: a quarter is left under a hard confounder.
ConfidenceQuartered(b, n, p, unresolved) ==
  LET full == 2 * p.min_samples
      disciplined == (b.confidence * 10000 * (IF n < full THEN n ELSE full))
                       \div full
      discounted[k \in Nat] ==
        IF k = 0 THEN disciplined ELSE (discounted[k - 1] * 85) \div 100
  IN  IF unresolved \cap HardConfounder # {} THEN disciplined \div 4
      ELSE discounted[Cardinality(unresolved)]

\* Confidence in millionths, rounded down at each step: the baseline's, scaled
\* by n / (2 * min_samples) up to 1, then by 0.2 under a hard confounder or by
\* 0.85 per soft one.
Confidence(b, n, p, unresolved) ==
  LET hard == unresolved \cap HardConfounder
      full == 2 * p.min_samples
      disciplined == (b.confidence * 10000 * (IF n < full THEN n ELSE full))
                       \div full
      discounted[k \in Nat] ==
        IF k = 0 THEN disciplined ELSE (discounted[k - 1] * 85) \div 100
  IN  IF hard # {} THEN disciplined \div 5
                   ELSE discounted[Cardinality(unresolved)]

\* The outcomes that open an episode.
Indicating == {"PotentialInterference", "InterferenceDetected",
               "SevereInterference"}
=============================================================================
