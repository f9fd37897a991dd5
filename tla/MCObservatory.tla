---------------------------- MODULE MCObservatory ----------------------------
(*****************************************************************************)
(* Small instances of the observatory engine.  Workload 1 is the victim,     *)
(* workloads 2 and 3 are its neighbors; times are minutes.                   *)
(*****************************************************************************)
EXTENDS Observatory

Bound(boot) == [generation |-> 1, worker_boot |-> boot, fingerprint |-> 1]

\* The victim before and after its worker restarted, and on another device.
Victim(boot) == [id |-> 1, device_id |-> 1, binding |-> Bound(boot)]
MovedVictim == [id |-> 1, device_id |-> 2, binding |-> Bound(1)]

Reference(id, boot, time) ==
  [id |-> id, generation |-> 1, type |-> "Isolated", workload_id |-> 1,
   device_id |-> 1, binding |-> Bound(boot), timestamp |-> time,
   freshness |-> "Current", sample_count |-> 3, confidence |-> 90,
   variance |-> 0, mean_value |-> 100, metric_kind |-> "Latency",
   valid |-> TRUE]

Sample(time, value, peers, confounders) ==
  [id |-> 1, generation |-> 1, workload_id |-> 1, timestamp |-> time,
   kind |-> "Latency", value |-> value, valid |-> TRUE,
   co_run_peers |-> peers, confounders |-> confounders]

Twice(o) == <<o, o>>

DefaultPolicy ==
  [potential_threshold |-> 2, detected_threshold |-> 10,
   severe_threshold |-> 50, min_samples |-> 2, min_confidence |-> 60,
   stale_after |-> 15, max_age |-> 60]

Compare(d, neighbor, batch, p) ==
  [affected |-> d, associated |-> neighbor, domain |-> "MemoryBandwidth",
   batch |-> batch, policy |-> p]

-----------------------------------------------------------------------------
(* Authority: several baselines of one victim (older and newer, tied in      *)
(* time, historical, of a dead boot, conflicting, malformed) while the epoch *)
(* changes under them.                                                       *)

AuthorityBaselines ==
  {Reference(1, 1, 10),
   [Reference(1, 1, 20) EXCEPT !.mean_value = 120],
   Reference(2, 1, 10),
   [Reference(2, 1, 20) EXCEPT !.type = "HistoricalIsolated",
                               !.freshness = "Historical"],
   [Reference(2, 1, 5) EXCEPT !.freshness = "Historical"],
   [Reference(3, 2, 20) EXCEPT !.type = "ControlRun", !.freshness = "Unknown"],
   [Reference(3, 2, 30) EXCEPT !.sample_count = 0],
   [Reference(0, 1, 30) EXCEPT !.confidence = 101]}

AuthorityCompares ==
  {Compare(d, 2, Twice(Sample(t, 130, {2}, {})), DefaultPolicy) :
     d \in {Victim(1), Victim(2)}, t \in {20, 90}}
  \cup {Compare(Victim(1), 2, [i \in 1..3 |-> Sample(32, 130, {2}, {})],
                DefaultPolicy),
        Compare(MovedVictim, 2, Twice(Sample(20, 130, {2}, {})), DefaultPolicy),
        Compare(Victim(1), 2, <<>>, DefaultPolicy),
        Compare(Victim(1), 2, Twice(Sample(20, 130, {2}, {})),
                [DefaultPolicy EXCEPT !.min_samples = 0])}

\* A historical baseline with the default freshness, and two neighbors.
Archive == {[Reference(1, 1, 10) EXCEPT !.type = "HistoricalIsolated"]}
ArchiveCompares ==
  {Compare(Victim(1), n, Twice(Sample(20, 130, {2, 3}, {})), DefaultPolicy) :
     n \in {2, 3}}

-----------------------------------------------------------------------------
(* Attribution: clean, confounded, healthy and non-overlapping co-runs of    *)
(* the victim with two neighbors, with recoveries recorded before, between   *)
(* and after the comparisons and the epoch moving back and forth.            *)

AttributionBaselines ==
  {Reference(1, 1, 10),
   [Reference(2, 1, 10) EXCEPT !.metric_kind = "Throughput"],
   [Reference(3, 1, 11) EXCEPT !.workload_id = 2]}

AttributionBatches ==
  {Twice(Sample(12, 160, {2, 3}, {})),
   Twice(Sample(12, 160, {2}, {"ClockChange"})),
   <<Sample(12, 104, {2}, {"WorkerRestart"}),
     Sample(12, 104, {2}, {"ClockChange", "ColdStart"})>>,
   Twice([Sample(12, 80, {3}, {}) EXCEPT !.kind = "Throughput"]),
   Twice([Sample(12, 100, {2}, {}) EXCEPT !.kind = "Throughput"])}

AttributionCompares ==
  {Compare(Victim(1), n, batch, DefaultPolicy) :
     n \in {2, 3}, batch \in AttributionBatches}

AttributionRecoveries ==
  {<<1, 2, "MemoryBandwidth">>, <<3, 1, "MemoryBandwidth">>,
   <<1, 3, "Cache">>, <<0, 2, "MemoryBandwidth">>}

-----------------------------------------------------------------------------
(* Registrations and observations, nil ones included.                        *)

Sources == [id : {1}, generation : {0, 1, 2}]
Workers == [id : {1}, boot : {0, 1, 2}, connected : {TRUE}]
Workloads == {Victim(1)}
Observations ==
  {Sample(20, 130, {2}, {}), [Sample(20, 140, {2}, {}) EXCEPT !.generation = 0]}

TwoEpochs == {1, 2}
ThreeEpochs == {1, 2, 3}
NoCalls == {}
==============================================================================
