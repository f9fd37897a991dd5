----------------------------- MODULE EvidenceLaws -----------------------------
(*****************************************************************************)
(* Laws of the pure part of compare() and of the envelope of the state file, *)
(* checked over bounded inputs.  A step draws one input; the invariants say  *)
(* what the operators of Evidence and Envelope must give for it.             *)
(*****************************************************************************)
EXTENDS Evidence, Envelope, SequencesExt

CONSTANTS Ids,     \* baseline ids of a selection
          Times,   \* timestamps and current times
          Values,  \* sums of samples, and baseline means
          Counts   \* sample counts and min_samples

ASSUME LawBounds == /\ Ids \subseteq Nat \ {0} /\ Times \subseteq Int
                    /\ Values \subseteq Nat /\ Counts \subseteq Nat \ {0}

VARIABLE probe

None == [kind |-> "none"]

Base(time, mean, metric) ==
  [id |-> 1, generation |-> 1, type |-> "Isolated", workload_id |-> 1,
   device_id |-> 1,
   binding |-> [generation |-> 1, worker_boot |-> 1, fingerprint |-> 1],
   timestamp |-> time, freshness |-> "Current", sample_count |-> 1,
   confidence |-> 90, variance |-> 0, mean_value |-> mean,
   metric_kind |-> metric, valid |-> TRUE]

Thresholds(p, d, s) ==
  [potential_threshold |-> p, detected_threshold |-> d, severe_threshold |-> s,
   min_samples |-> 1, min_confidence |-> 60, stale_after |-> 2, max_age |-> 4]

Policies == {Thresholds(2, 10, 50), Thresholds(10, 10, 10), Thresholds(0, 0, 0),
             [Thresholds(2, 10, 50) EXCEPT !.max_age = 1]}

Init == probe = None

\* Published baselines of one workload, some of them on another device, bound
\* to another worker boot, or unusable.
ProbeSelection ==
  \E bs \in UNION {[D -> {[Base(t, 1, "Latency") EXCEPT !.device_id = dev,
                             !.binding.worker_boot = boot, !.confidence = c] :
                            t \in Times, dev \in 1..2, boot \in 1..2,
                            c \in {0, 90}}] : D \in SUBSET Ids} :
    probe' = [kind |-> "selection", bs |-> bs]

ProbeAging ==
  \E b \in {Base(t, 1, "Latency") : t \in Times}, f \in Freshness,
     now \in Times, later \in Times, p \in Policies :
    /\ now <= later
    /\ probe' = [kind |-> "aging", b |-> [b EXCEPT !.freshness = f],
                 now |-> now, later |-> later, p |-> p]

ProbeGrading ==
  \E mean \in Values, m \in {"Latency", "Throughput"}, s \in Values,
     t \in Values, n \in Counts, p \in Policies :
    probe' = [kind |-> "grading", b |-> Base(0, mean, m), one |-> s, two |-> t,
              n |-> n, p |-> p]

HardChain == <<"ClockChange", "WorkerRestart", "ThermalThrottling">>
SoftChain == <<"BackgroundOSLoad", "ColdStart", "CacheWarmup",
               "AllocationWarmup", "FrequencyScaling", "DeviceTemperature",
               "MemoryPressure", "RetryRecovery", "Unknown">>

\* Growing sets of confounders: j hard ones and k soft ones.
Confounders(j, k) == ToSet(SubSeq(HardChain, 1, j) \o SubSeq(SoftChain, 1, k))

ProbeTrust ==
  \E j1, j2 \in 0..Len(HardChain), k1, k2 \in 0..Len(SoftChain),
     n, m \in Counts :
    /\ j1 <= j2 /\ k1 <= k2
    /\ probe' = [kind |-> "trust", few |-> Confounders(j1, k1),
                 many |-> Confounders(j2, k2), n |-> n,
                 p |-> [Thresholds(2, 10, 50) EXCEPT !.min_samples = m]]

\* What may become of a file: it is cut off, one symbol is altered, or
\* something follows it, such as the rest of a longer file.
Symbols == {Number(n) : n \in 0..kMaxPayload + 1}
Envelopes == {encode(p) : p \in SeqOf(Symbols, kMaxPayload)}

ProbeDamage ==
  \E s \in Envelopes :
    \E d \in {SubSeq(s, 1, n) : n \in 0..Len(s)}
           \cup {[s EXCEPT ![i] = x] : i \in DOMAIN s, x \in Symbols}
           \cup {s \o SubSeq(t, n, Len(t)) : t \in Envelopes, n \in {1, 4}} :
      probe' = [kind |-> "damage", whole |-> s, found |-> d]

Draw == /\ probe = None
        /\ \/ ProbeSelection \/ ProbeAging \/ ProbeGrading \/ ProbeTrust
           \/ ProbeDamage

Forget == probe # None /\ probe' = None

Next == Draw \/ Forget

Spec == Init /\ [][Next]_probe

-----------------------------------------------------------------------------
(* The loop of compare() that selects a baseline: std::map order, `usable'   *)
(* replaced when the next usable one is later, or as late with a larger id.  *)
Affected == [id |-> 1, device_id |-> 1,
             binding |-> [generation |-> 1, worker_boot |-> 1,
                          fingerprint |-> 1]]

Scan(bs) ==
  LET Step(usable, i) ==
        IF /\ bs[i].workload_id = Affected.id
           /\ bs[i].device_id = Affected.device_id
           /\ is_usable(bs[i]) /\ binding_matches(bs[i], Affected.binding)
           /\ \/ usable = 0
              \/ bs[i].timestamp > bs[usable].timestamp
              \/ bs[i].timestamp = bs[usable].timestamp /\ i > usable
        THEN i ELSE usable
  IN  FoldLeft(Step, 0, SetToSortSeq(DOMAIN bs, <))

\* The selection loop of compare() ends on the unique usable baseline that is
\* not beaten by any other, and on none only when no baseline is usable: the
\* order in which the map is walked does not show.
ScanSelectsTheNewest ==
  probe.kind = "selection" =>
    /\ Selected(probe.bs, Affected) = {Scan(probe.bs)} \ {0}
    /\ Scan(probe.bs) = 0 <=> UsableFor(probe.bs, Affected) = {}

Age == [Current |-> 0, Stale |-> 1, Expired |-> 2]

\* A baseline only ever gets older: a comparison made later never finds it
\* fresher, whatever the two freshness windows of the policy, and a baseline
\* that is not CURRENT is never found CURRENT.
FreshnessOnlyDecays ==
  probe.kind = "aging" =>
    LET before == FreshnessAt(probe.b, probe.now, probe.p)
        after == FreshnessAt(probe.b, probe.later, probe.p)
    IN  IF probe.b.freshness = "Current" THEN Age[before] <= Age[after]
                                         ELSE before = after /\ before # "Current"

Severity == [NoInterferenceDetected |-> 0, PotentialInterference |-> 1,
             InterferenceDetected |-> 2, SevereInterference |-> 3]

Grade(sum) == Severity[classify_outcome(Degradation(probe.b, sum, probe.n),
                                        probe.p)]

\* A worse mean never gets a milder outcome, for metrics where more is worse
\* and for those where less is worse; and with a positive lowest threshold no
\* interference is reported for a mean no worse than the baseline's, nor
\* against a baseline whose mean is zero.
GradesFollowDegradation ==
  probe.kind = "grading" =>
    LET worse == IF probe.b.metric_kind \in HigherIsWorse
                 THEN probe.one <= probe.two ELSE probe.one >= probe.two
        fine == \/ ~metric_is_worse(probe.b.metric_kind,
                                    probe.one - probe.n * probe.b.mean_value)
                \/ probe.b.mean_value = 0
    IN  /\ worse => Grade(probe.one) <= Grade(probe.two)
        /\ fine /\ probe.p.potential_threshold > 0 => Grade(probe.one) = 0

Rank == [Unknown |-> 0, TemporallyAssociated |-> 1, Correlated |-> 2,
         ControlledComparison |-> 3, StrongCounterfactualEvidence |-> 4]

\* More confounders never raise the confidence or the attribution strength of
\* an otherwise equal comparison, each further soft one and the first hard one
\* lower the confidence, and one hard confounder weighs more than all the soft
\* ones together.
ConfoundersLowerTrust ==
  probe.kind = "trust" =>
    LET b == Base(0, 1, "Latency")
        few == Confidence(b, probe.n, probe.p, probe.few)
        many == Confidence(b, probe.n, probe.p, probe.many)
        Hard(u) == u \cap HardConfounder
    IN  /\ many <= few
        /\ few <= b.confidence * 10000
        /\ Hard(probe.few) = {} /\ probe.many # probe.few => many < few
        /\ \A recovered \in BOOLEAN :
             Rank[Attribution(TRUE, Hard(probe.many), recovered)]
               <= Rank[Attribution(TRUE, Hard(probe.few), recovered)]

\* load() gets the payload that was saved or nothing: decode accepts the
\* envelope that encode wrote, and none that was cut off, extended or altered.
DecodeRefusesDamage ==
  probe.kind = "damage" =>
    /\ decode(probe.found) <=> probe.found = probe.whole
    /\ decode(probe.found) => encode(Payload(probe.found)) = probe.whole
===============================================================================
