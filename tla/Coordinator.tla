----------------------------- MODULE Coordinator -----------------------------
(*****************************************************************************)
(* The distributed proof: io-coordinator drives the worker processes A, B    *)
(* and the restarted A (here A2) over TCP, feeds what they answer to its     *)
(* engine, saves the engine's state and ends; a later incarnation loads that *)
(* state.  Processes die at any moment, the coordinator included, and the    *)
(* system is the POSIX build: a forked worker inherits the listening socket  *)
(* and every connection accepted before it, and sending to a connection that *)
(* was reset may raise SIGPIPE.                                              *)
(*                                                                           *)
(* main() is a straight line of instructions.  Program lists them, pc points *)
(* into it, and one action models each kind of instruction.                  *)
(*****************************************************************************)
EXTENDS Persistence, SequencesExt

CONSTANTS
  Rounds,           \* measurements per loop, 6 in the code
  Mortal,           \* the processes that may die: workers, "coordinator"
  MaxDeaths,        \* how many of them do
  MaxIncarnations   \* how often the coordinator is started

Worker == {"A", "B", "A2"}

ASSUME CoordinatorConstants ==
  /\ Rounds \in Nat \ {0}
  /\ Mortal \subseteq Worker \cup {"coordinator"}
  /\ MaxDeaths \in Nat
  /\ MaxIncarnations \in Nat \ {0}

VARIABLES
  incarnation,  \* how often the coordinator has been started
  running,      \* whether the coordinator's process exists
  pc,           \* its next instruction
  arg,          \* its --epoch
  got,          \* its vectors of answers
  connected,    \* the workers whose Hello it has read
  proc,         \* worker -> "none", "starting", "connected", "serving", "gone"
  link,         \* worker -> its connection
  deaths        \* how many processes were killed so far

control == <<incarnation, running, pc, arg>>
local == <<got, connected>>
net == <<proc, link, deaths>>
all == <<storeVars, control, local, net>>

-----------------------------------------------------------------------------
(* The values main() is written with.                                        *)

Boot(w) == CASE w = "A" -> 1000 [] w = "B" -> 2000 [] w = "A2" -> 9999
WorkerId(w) == IF w = "B" THEN 200 ELSE 100

\* Fingerprint 1 stands for cfg-A, 2 for cfg-B, each with the other fields of
\* the binding, which both workloads share.
wa == [id |-> 10, device_id |-> 11,
       binding |-> [generation |-> 1010, worker_boot |-> 1000, fingerprint |-> 1]]
wb == [id |-> 20, device_id |-> 11,
       binding |-> [generation |-> 1020, worker_boot |-> 2000, fingerprint |-> 2]]
wa2 == [wa EXCEPT !.binding.worker_boot = 9999]

\* Policy{}: percentages and milliseconds.
policy ==
  [potential_threshold |-> 2, detected_threshold |-> 10, severe_threshold |-> 50,
   min_samples |-> 3, min_confidence |-> 60, stale_after |-> 900000,
   max_age |-> 3600000]

\* Default-constructed Baseline and Observation: what a command leaves behind
\* that got no answer.
NoBaseline ==
  [id |-> 0, generation |-> 0, type |-> "Isolated", workload_id |-> 0,
   device_id |-> 0, binding |-> [generation |-> 0, worker_boot |-> 0,
                                 fingerprint |-> 0],
   timestamp |-> 0, freshness |-> "Current", sample_count |-> 0,
   confidence |-> 100, variance |-> 0, mean_value |-> 0,
   metric_kind |-> "Latency", valid |-> TRUE]
NoObservation ==
  [id |-> 0, generation |-> 0, workload_id |-> 0, timestamp |-> 0,
   kind |-> "Latency", value |-> 0, valid |-> TRUE,
   co_run_peers |-> {}, confounders |-> {}]

\* The commands: what cmd_baseline and cmd_corun put on the wire.
MeasureBaseline(id, d, mean, kind) ==
  [type |-> "MeasureBaseline", id |-> id, generation |-> 6400 + id,
   workload_id |-> d.id, workload_generation |-> d.binding.generation,
   fingerprint |-> d.binding.fingerprint, timestamp |-> 200000,
   sample_count |-> 20, mean_value |-> mean, metric_kind |-> kind]
MeasureCorun(id, d, time, kind, value, peers) ==
  [type |-> "MeasureCorun", id |-> id, generation |-> id + 9000 * (id \div 1000),
   workload_id |-> d.id, timestamp |-> time, kind |-> kind, value |-> value,
   co_run_peers |-> peers]
Hello == [type |-> "Hello"]
ExitProcess == [type |-> "ExitProcess"]

-----------------------------------------------------------------------------
(* main() as a sequence of instructions.                                     *)

\* spawn_worker, then accept_one; the process id stays in a local variable
\* that is dropped, so terminate_worker finds none and does nothing.
connect_worker(w) ==
  <<[op |-> "spawn", w |-> w], [op |-> "accept", w |-> w],
    [op |-> "hello", w |-> w]>>

\* cmd_baseline and cmd_corun.
Command(w, m, into) ==
  <<[op |-> "send", w |-> w, msg |-> m], [op |-> "recv", w |-> w, into |-> into]>>

Tell(w, m) == <<[op |-> "send", w |-> w, msg |-> m]>>

RecordAll(from) ==
  [i \in 1..Rounds |-> [op |-> "record_observation", from |-> from, i |-> i]]

Compare(d, neighbor, from) ==
  <<[op |-> "compare", affected |-> d, associated |-> neighbor, from |-> from]>>

Register(w) ==
  <<[op |-> "register_worker",
     call |-> [id |-> WorkerId(w), boot |-> Boot(w), connected |-> TRUE]]>>

\* Mutant of StartUp: the epoch is set before the state is loaded.
StartUpEpochFirst ==
  <<[op |-> "set_coordinator_epoch"], [op |-> "load"], [op |-> "listen"]>>

StartUp == <<[op |-> "load"], [op |-> "set_coordinator_epoch"], [op |-> "listen"]>>

\* Mutant of ScenarioA: a baseline is asked for twice.
ScenarioARetried ==
  connect_worker("A") \o connect_worker("B") \o <<[op |-> "check"]>>
  \o Tell("A", MeasureBaseline(700, wa, 120, "Latency"))
  \o Command("A", MeasureBaseline(700, wa, 120, "Latency"), "got_a")

ScenarioA ==
  connect_worker("A") \o connect_worker("B") \o <<[op |-> "check"]>>
  \o Register("A") \o Register("B")
  \o <<[op |-> "register_workload", call |-> wa],
       [op |-> "register_workload", call |-> wb]>>
  \o Command("A", MeasureBaseline(700, wa, 120, "Latency"), "got_a")
  \o Command("B", MeasureBaseline(701, wb, 1500, "Throughput"), "got_b")
  \o <<[op |-> "publish_baseline", from |-> "got_a"],
       [op |-> "publish_baseline", from |-> "got_b"]>>

ScenarioB ==
  FlattenSeq([i \in 1..Rounds |->
    Command("A", MeasureCorun(2999 + i, wa, 200000 + i, "Latency", 158, {20}),
            "a_obs")
    \o Command("B", MeasureCorun(3999 + i, wb, 200000 + i, "Throughput", 1310,
                                 {10}), "b_obs")])
  \o RecordAll("a_obs") \o RecordAll("b_obs")
  \o Compare(wa, 20, "a_obs") \o Compare(wb, 10, "b_obs")

ScenarioC ==
  Tell("B", ExitProcess)
  \o FlattenSeq([i \in 1..Rounds |->
       Command("A", MeasureCorun(4999 + i, wa, 200099 + i, "Latency", 122, {}),
               "a_after")])
  \o RecordAll("a_after")
  \o <<[op |-> "record_recovery", call |-> <<10, 20, "MemoryBandwidth">>]>>
  \o Compare(wa, 20, "a_obs")

\* Mutant of ScenarioD: the state is saved before A is back.
ScenarioDSavingFirst ==
  <<[op |-> "open"], [op |-> "write"], [op |-> "rename"]>>
  \o Tell("A", ExitProcess) \o connect_worker("A2") \o Register("A2")
  \o Compare(wa2, 20, "a_after")

ScenarioD ==
  Tell("A", ExitProcess) \o connect_worker("A2") \o Register("A2")
  \o Compare(wa2, 20, "a_after")

ScenarioF ==
  <<[op |-> "open"], [op |-> "write"], [op |-> "rename"]>>
  \o Tell("A2", ExitProcess) \o <<[op |-> "return"]>>

Program == StartUp \o ScenarioA \o ScenarioB \o ScenarioC \o ScenarioD \o ScenarioF

\* The first incarnation has nothing to load.
FirstInstruction == 3

Instruction == Program[pc]
At(op) == running /\ Instruction.op = op
Step == pc' = pc + 1 /\ UNCHANGED <<incarnation, running, arg>>

NoAnswers == [x \in {"got_a", "got_b", "a_obs", "b_obs", "a_after"} |-> <<>>]
Unconnected == [state |-> "none", down |-> <<>>, up |-> <<>>, reset |-> FALSE]

CoordinatorInit ==
  /\ StoreInit
  /\ incarnation = 1 /\ running = TRUE /\ pc = FirstInstruction /\ arg = 1
  /\ got = NoAnswers /\ connected = {}
  /\ proc = [w \in Worker |-> "none"]
  /\ link = [w \in Worker |-> Unconnected]
  /\ deaths = 0

Alive(w) == proc[w] \notin {"none", "gone"}

\* The process ends, by returning or by a signal: its memory is lost.
Ends ==
  /\ Crash
  /\ running' = FALSE /\ pc' = 1 /\ got' = NoAnswers /\ connected' = {}
  /\ UNCHANGED <<incarnation, arg, proc, link>>

Exits == Ends /\ UNCHANGED deaths

-----------------------------------------------------------------------------
(* Starting up and talking to workers.                                       *)

\* A file that cannot be loaded ends the new incarnation.
LoadState(i) ==
  /\ i.op = "load"
  /\ \/ load /\ Step /\ UNCHANGED <<local, net>>
     \/ ~decodes(file) /\ Exits

AdoptEpoch(i) ==
  /\ i.op = "set_coordinator_epoch"
  /\ IF arg = epoch THEN UNCHANGED vars ELSE set_coordinator_epoch(arg)
  /\ Step /\ UNCHANGED <<disk, local, net>>

\* The port is taken while a worker of an earlier incarnation lives, since it
\* inherited the listening socket.
socket_listen(i) ==
  /\ i.op = "listen"
  /\ \/ /\ \A w \in Worker : ~Alive(w)
        /\ proc' = [w \in Worker |-> "none"]
        /\ link' = [w \in Worker |-> Unconnected]
        /\ Step /\ UNCHANGED <<storeVars, local, deaths>>
     \/ (\E w \in Worker : Alive(w)) /\ Exits

spawn_worker(i) ==
  /\ i.op = "spawn"
  /\ proc' = [proc EXCEPT ![i.w] = "starting"]
  /\ Step /\ UNCHANGED <<storeVars, local, link, deaths>>

\* Blocks, without a timeout, until the worker has connected.
socket_accept(i) ==
  /\ i.op = "accept"
  /\ link[i.w].state = "queued"
  /\ link' = [link EXCEPT ![i.w].state = "accepted"]
  /\ Step /\ UNCHANGED <<storeVars, local, proc, deaths>>

\* recv_frame returns: the next message, or the end of the connection.
Arrived(w) == link[w].up # <<>>
Closed(w) == link[w].up = <<>> /\ proc[w] = "gone"
Received(w) == link' = [link EXCEPT ![w].up = Tail(@)]

ReadHello(i) ==
  /\ i.op = "hello"
  /\ LET w == i.w
     IN  \/ Arrived(w) /\ Received(w) /\ connected' = connected \cup {w}
         \/ Closed(w) /\ UNCHANGED <<link, connected>>
  /\ Step /\ UNCHANGED <<storeVars, got, proc, deaths>>

\* Exit code 3 unless both workers said hello.
CheckConnected(i) ==
  /\ i.op = "check"
  /\ \/ {"A", "B"} \subseteq connected /\ Step /\ UNCHANGED <<storeVars, local, net>>
     \/ ~({"A", "B"} \subseteq connected) /\ Exits

\* A command that fails leaves a default value in the vector.
Unanswered(into) == IF into \in {"got_a", "got_b"} THEN NoBaseline ELSE NoObservation
Expected(into) ==
  IF into \in {"got_a", "got_b"} THEN "PublishBaseline" ELSE "PublishObservation"

\* To a worker that is gone one frame may still be taken by the socket, which
\* resets the connection; otherwise sending fails or raises SIGPIPE.  A command
\* that could not be sent does not wait for an answer.
send_frame(i) ==
  /\ i.op = "send"
  /\ LET w == i.w
         next == Program[pc + 1]
     IN  \/ /\ Alive(w)
            /\ link' = [link EXCEPT ![w].down = Append(@, i.msg)]
            /\ Step /\ UNCHANGED <<storeVars, local, proc, deaths>>
         \/ /\ ~Alive(w) /\ ~link[w].reset
            /\ link' = [link EXCEPT ![w].reset = TRUE]
            /\ Step /\ UNCHANGED <<storeVars, local, proc, deaths>>
         \/ /\ ~Alive(w) /\ next.op = "recv"
            /\ got' = [got EXCEPT ![next.into] = Append(@, Unanswered(next.into))]
            /\ pc' = pc + 2
            /\ UNCHANGED <<storeVars, incarnation, running, arg, connected, net>>
         \/ /\ ~Alive(w) /\ next.op # "recv"
            /\ Step /\ UNCHANGED <<storeVars, local, net>>
         \/ ~Alive(w) /\ Exits

\* The wire formats.  Observations travel without their confounders.
encode_baseline(b) ==
  <<b.id, b.generation, b.type, b.workload_id, b.device_id, b.binding,
    b.timestamp, b.freshness, b.sample_count, b.variance, b.confidence,
    b.mean_value, b.metric_kind, b.valid>>
decode_baseline(p) ==
  [id |-> p[1], generation |-> p[2], type |-> p[3], workload_id |-> p[4],
   device_id |-> p[5], binding |-> p[6], timestamp |-> p[7],
   freshness |-> p[8], sample_count |-> p[9], variance |-> p[10],
   confidence |-> p[11], mean_value |-> p[12], metric_kind |-> p[13],
   valid |-> p[14]]
encode_observation(o) ==
  <<o.id, o.generation, o.workload_id, o.timestamp, o.kind, o.value, o.valid,
    o.co_run_peers>>
decode_observation(p) ==
  [id |-> p[1], generation |-> p[2], workload_id |-> p[3], timestamp |-> p[4],
   kind |-> p[5], value |-> p[6], valid |-> p[7], co_run_peers |-> p[8],
   confounders |-> {}]

decode(m) ==
  IF m.type = "PublishBaseline" THEN decode_baseline(m.payload)
                                ELSE decode_observation(m.payload)

\* The answer, or the default value when the connection ended or the frame is
\* of another type.  No failure is reported to the script.
recv_frame(i) ==
  /\ i.op = "recv"
  /\ LET w == i.w
         into == i.into
         m == Head(link[w].up)
     IN  \/ /\ Arrived(w) /\ Received(w)
            /\ got' = [got EXCEPT ![into] =
                         Append(@, IF m.type = Expected(into) THEN decode(m)
                                                              ELSE Unanswered(into))]
         \/ /\ Closed(w) /\ UNCHANGED link
            /\ got' = [got EXCEPT ![into] = Append(@, Unanswered(into))]
  /\ Step /\ UNCHANGED <<storeVars, connected, proc, deaths>>

-----------------------------------------------------------------------------
(* The engine, called with whatever has been received; refusals are ignored. *)

CallOf(i) ==
  [affected |-> i.affected, associated |-> i.associated,
   domain |-> "MemoryBandwidth", batch |-> got[i.from], policy |-> policy]

EngineCall(i) ==
  /\ \/ i.op = "register_worker" /\ register_worker(i.call)
     \/ i.op = "register_workload" /\ register_workload(i.call)
     \/ /\ i.op = "publish_baseline"
        /\ \E b \in {got[i.from][1]} :
             IF Stores(b) THEN publish_baseline(b) ELSE UNCHANGED vars
     \/ /\ i.op = "record_observation"
        /\ \E o \in {got[i.from][i.i]} :
             IF ~is_nil(o.id) /\ o.id \notin DOMAIN observations
             THEN record_observation(o) ELSE UNCHANGED vars
     \/ i.op = "record_recovery" /\ record_recovery(i.call)
     \/ /\ i.op = "compare"
        /\ \E c \in {CallOf(i)} :
             IF \E b \in DOMAIN baselines : Decides(c, b)
             THEN compare(c) ELSE UNCHANGED vars
  /\ Step /\ UNCHANGED <<disk, local, net>>

\* save(), which fails to open, to write or to rename; its status is ignored.
SaveState(i) ==
  /\ \/ i.op = "open" /\ SaveOpen /\ Step
     \/ /\ i.op = "open" /\ pc' = pc + 3
        /\ UNCHANGED <<storeVars, incarnation, running, arg>>
     \/ i.op = "write" /\ SaveWrite /\ Step
     \/ /\ i.op = "write" /\ SaveFails /\ pc' = pc + 2
        /\ UNCHANGED <<incarnation, running, arg>>
     \/ i.op = "rename" /\ (SaveRename \/ SaveFails) /\ Step
  /\ UNCHANGED <<local, net>>

Return(i) == i.op = "return" /\ Exits

CoordinatorStep ==
  /\ running
  /\ \E i \in {Program[pc]} :
       \/ LoadState(i) \/ AdoptEpoch(i) \/ socket_listen(i)
       \/ spawn_worker(i) \/ socket_accept(i) \/ ReadHello(i)
       \/ CheckConnected(i) \/ send_frame(i) \/ recv_frame(i)
       \/ EngineCall(i) \/ SaveState(i) \/ Return(i)

-----------------------------------------------------------------------------
(* The worker processes.                                                     *)

\* The worker itself holds the listening socket open, so connecting succeeds.
socket_connect(w) ==
  /\ proc[w] = "starting"
  /\ proc' = [proc EXCEPT ![w] = "connected"]
  /\ link' = [link EXCEPT ![w].state = "queued"]

SayHello(w) ==
  /\ proc[w] = "connected"
  /\ proc' = [proc EXCEPT ![w] = "serving"]
  /\ link' = [link EXCEPT ![w].up = Append(@, Hello)]

\* The values of the command, completed by what the worker knows of itself.
Measured(w, m) ==
  [id |-> m.id, generation |-> m.generation, type |-> "Isolated",
   workload_id |-> m.workload_id, device_id |-> 11,
   binding |-> [generation |-> m.workload_generation, worker_boot |-> Boot(w),
                fingerprint |-> m.fingerprint],
   timestamp |-> m.timestamp, freshness |-> "Current",
   sample_count |-> m.sample_count, confidence |-> 90, variance |-> 2,
   mean_value |-> m.mean_value, metric_kind |-> m.metric_kind, valid |-> TRUE]

Observed(m) ==
  [id |-> m.id, generation |-> m.generation, workload_id |-> m.workload_id,
   timestamp |-> m.timestamp, kind |-> m.kind, value |-> m.value,
   valid |-> TRUE, co_run_peers |-> m.co_run_peers, confounders |-> {}]

Reply(w, m) ==
  IF m.type = "MeasureBaseline"
  THEN [type |-> "PublishBaseline", payload |-> encode_baseline(Measured(w, m))]
  ELSE [type |-> "PublishObservation", payload |-> encode_observation(Observed(m))]

\* Mutant of Serve: a command that is not understood gets no reply.
ServeBaselinesOnly(w) ==
  /\ proc[w] = "serving" /\ link[w].down # <<>>
  /\ LET m == Head(link[w].down)
     IN  \/ /\ m.type # "ExitProcess"
            /\ link' = [link EXCEPT ![w].down = Tail(@),
                 ![w].up = IF m.type = "MeasureBaseline" THEN Append(@, Reply(w, m))
                                                         ELSE @]
            /\ UNCHANGED proc
         \/ /\ m.type = "ExitProcess"
            /\ link' = [link EXCEPT ![w].down = Tail(@)]
            /\ proc' = [proc EXCEPT ![w] = "gone"]

\* The loop of the worker.  The coordinator sends well-formed commands of
\* these three types only; Revalidate, other types and bad commands are not met.
Serve(w) ==
  /\ proc[w] = "serving" /\ link[w].down # <<>>
  /\ LET m == Head(link[w].down)
     IN  \/ /\ m.type # "ExitProcess"
            /\ link' = [link EXCEPT ![w].down = Tail(@), ![w].up = Append(@, Reply(w, m))]
            /\ UNCHANGED proc
         \/ /\ m.type = "ExitProcess"
            /\ link' = [link EXCEPT ![w].down = Tail(@)]
            /\ proc' = [proc EXCEPT ![w] = "gone"]

\* The other end of an accepted connection is held by the coordinator past
\* listen() and by the workers forked after accept(); that of a queued one by
\* whoever holds the listening socket, the worker itself included.
Inheritors(w) == CASE w = "A" -> {"B", "A2"} [] w = "B" -> {"A2"} [] w = "A2" -> {}

OtherEndOpen(w) ==
  \/ link[w].state = "queued"
  \/ running /\ pc > FirstInstruction
  \/ \E v \in Inheritors(w) : Alive(v)

\* Mutant of EndOfConnection: the worker waits for another frame.
EndOfConnectionIgnored(w) ==
  /\ proc[w] = "serving" /\ link[w].down = <<>> /\ ~OtherEndOpen(w)
  /\ UNCHANGED <<proc, link>>

\* recv_frame fails at the end of the connection, and the worker ends.
EndOfConnection(w) ==
  /\ proc[w] = "serving" /\ link[w].down = <<>> /\ ~OtherEndOpen(w)
  /\ proc' = [proc EXCEPT ![w] = "gone"]
  /\ UNCHANGED link

WorkerStep(w) ==
  /\ socket_connect(w) \/ SayHello(w) \/ Serve(w) \/ EndOfConnection(w)
  /\ UNCHANGED <<storeVars, control, local, deaths>>

-----------------------------------------------------------------------------
(* Deaths and restarts.                                                      *)

Dies(p) == p \in Mortal /\ deaths < MaxDeaths /\ deaths' = deaths + 1

\* Also a fork or exec that fails.
WorkerDies(w) ==
  /\ Dies(w) /\ Alive(w)
  /\ proc' = [proc EXCEPT ![w] = "gone"]
  /\ link' = [link EXCEPT ![w].down = <<>>]
  /\ UNCHANGED <<storeVars, control, local>>

CoordinatorDies == running /\ Dies("coordinator") /\ Ends

\* io-coordinator --restart-from file --epoch e.
Restart(e) ==
  /\ ~running /\ incarnation < MaxIncarnations
  /\ incarnation' = incarnation + 1 /\ running' = TRUE /\ pc' = 1 /\ arg' = e
  /\ UNCHANGED <<storeVars, local, net>>

CoordinatorNext ==
  \/ CoordinatorStep
  \/ \E w \in Worker : WorkerStep(w) \/ WorkerDies(w)
  \/ CoordinatorDies
  \/ \E e \in EpochCalls : Restart(e)

\* Every process is scheduled; nobody is obliged to die or to be restarted.
CoordinatorSpec ==
  /\ CoordinatorInit /\ [][CoordinatorNext]_all
  /\ WF_all(CoordinatorStep)
  /\ \A w \in Worker : WF_all(WorkerStep(w))

-----------------------------------------------------------------------------
(* Properties.                                                               *)

\* Request and answer never get out of step, whoever dies when: what a command
\* of main() leaves in its vector is the answer to that very command, or the
\* default value.
AnswersMatchCommands ==
  LET Answers(v, base, none) ==
        \A i \in DOMAIN v : v[i] = none \/ v[i].id = base + i
  IN  /\ Answers(got.got_a, 699, NoBaseline)
      /\ Answers(got.got_b, 700, NoBaseline)
      /\ Answers(got.a_obs, 2999, NoObservation)
      /\ Answers(got.b_obs, 3999, NoObservation)
      /\ Answers(got.a_after, 4999, NoObservation)

\* main() ignores failed commands and hands their default observations to
\* compare(): the values it measures show interference in both directions, and
\* no verdict ever says otherwise because answers were lost.
LostAnswersDoNotDilute ==
  \A k \in DOMAIN matrix :
    /\ matrix[k].outcome = "InterferenceDetected"
    /\ matrix[k].sample_count >= policy.min_samples

\* Action property: compare() never writes a verdict on a baseline of a worker
\* boot that is no longer registered, such as the one of A before its restart.
VerdictsRestOnLiveBoots ==
  [][\A k \in DOMAIN matrix' :
       At("compare") /\ (k \in DOMAIN matrix => matrix'[k] # matrix[k]) =>
         \E i \in DOMAIN workers :
           workers[i].boot =
             baselines[matrix'[k].baseline_id].binding.worker_boot]_all


\* A restarted coordinator starts listening with dynamic evidence that is still
\* CURRENT only when it was given the epoch under which the evidence was saved.
RestartRevokes ==
  At("listen") /\ incarnation > 1 =>
    \A i \in DOMAIN baselines :
      baselines[i].freshness = "Current" /\ baselines[i].type # "HistoricalIsolated"
        => arg = file.image.epoch

\* What a later incarnation can load is the state of a script that got as far
\* as scenario F, never one interrupted on the way.
OnlyFinishedScriptsAreSaved ==
  decodes(file) =>
    /\ file.image.workers[100].boot = Boot("A2")
    /\ <<10, 20, "MemoryBandwidth">> \in file.image.recoveries

\* Liveness: the script comes to its end, whoever dies, unless it waits in
\* accept() for a worker that died before it connected.
Stranded ==
  At("accept") /\ proc[Instruction.w] = "gone" /\ link[Instruction.w].state = "none"

ScriptEnds == running ~> ~running \/ Stranded

\* Liveness: once the coordinator is gone its workers end as well, although
\* they hold each other's connections open, unless one of them was not yet
\* accepted when the coordinator died.
WorkersEnd ==
  ~running ~> \/ \A w \in Worker : ~Alive(w)
              \/ \E w \in Worker : Alive(w) /\ link[w].state = "queued"

-----------------------------------------------------------------------------
\* A recovery is recorded when a victim measurably recovered after the neighbor
\* was removed, and only that upgrades a comparison: when the script claims
\* counterfactual evidence, B's process is gone and a measurement of A after
\* the removal is on record.
CounterfactualIsMeasured ==
  incarnation = 1 /\ (\E k \in DOMAIN matrix :
                        matrix[k].attribution = "StrongCounterfactualEvidence")
    => /\ proc["B"] = "gone"
       /\ \E i \in 1..Rounds : 4999 + i \in DOMAIN observations
=============================================================================
