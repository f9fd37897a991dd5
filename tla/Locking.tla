------------------------------- MODULE Locking -------------------------------
(*****************************************************************************)
(* Threads that share one engine.  Every public call takes mutex_, a         *)
(* std::mutex, for its whole body and is one step while nobody holds it.     *)
(* run_experiment is the exception: holding mutex_ it calls compare(), which *)
(* takes mutex_ again.  For a thread that already holds it this is undefined: *)
(* the thread blocks for ever, or an exception leaves run_experiment.        *)
(*****************************************************************************)
EXTENDS Observatory

CONSTANTS
  Threads,
  Plans     \* records [id, primary, neighbor] given to run_experiment

VARIABLES
  holder,   \* the threads that hold mutex_: at most one
  stage,    \* thread -> where its call of run_experiment is
  plan      \* thread -> the plan of that call

locks == <<holder, stage, plan>>

LockingInit ==
  /\ Init
  /\ holder = {}
  /\ stage = [t \in Threads |-> "idle"]
  /\ plan = [t \in Threads |-> <<>>]

At(t, from, to) == stage[t] = from /\ stage' = [stage EXCEPT ![t] = to]

\* Any other call, by a thread that is not inside run_experiment.
OtherCall ==
  /\ \E t \in Threads : stage[t] \in {"idle", "returned"}
  /\ holder = {}
  /\ Next /\ UNCHANGED locks

CallExperiment(t, p) ==
  /\ At(t, "idle", "called")
  /\ plan' = [plan EXCEPT ![t] = p]
  /\ UNCHANGED <<vars, holder>>

LockExperiment(t) ==
  /\ At(t, "called", "locked")
  /\ holder = {} /\ holder' = {t}
  /\ UNCHANGED <<vars, plan>>

\* The recorded observations of w while v ran.
Overlapping(w, v) ==
  {i \in DOMAIN observations :
     observations[i].workload_id = w /\ v \in observations[i].co_run_peers}

Registered(p) == ~is_nil(p.id) /\ {p.primary, p.neighbor} \subseteq DOMAIN workloads
Compares(p) ==
  Registered(p) /\ Overlapping(p.primary, p.neighbor)
                     \cup Overlapping(p.neighbor, p.primary) # {}

\* Nothing to compare: an incomplete result.
ReturnIncomplete(t) ==
  /\ At(t, "locked", "returned")
  /\ ~Compares(plan[t])
  /\ holder' = {}
  /\ UNCHANGED <<vars, plan>>

\* The first of the two calls of compare(), at its lock_guard.
EnterCompare(t) ==
  /\ At(t, "locked", "comparing")
  /\ Compares(plan[t])
  /\ UNCHANGED <<vars, holder, plan>>

\* The outcome of locking again that is not waiting for ever.
LockThrows(t) ==
  /\ At(t, "comparing", "thrown")
  /\ holder' = {}
  /\ UNCHANGED <<vars, plan>>

run_experiment(t) == LockExperiment(t) \/ ReturnIncomplete(t) \/ EnterCompare(t)

LockingNext ==
  \/ OtherCall
  \/ \E t \in Threads :
       (\E p \in Plans : CallExperiment(t, p)) \/ run_experiment(t) \/ LockThrows(t)

\* Threads inside run_experiment are scheduled; nothing obliges the library to
\* detect the second lock.
LockingSpec ==
  /\ LockingInit /\ [][LockingNext]_<<vars, locks>>
  /\ \A t \in Threads : WF_<<vars, locks>>(run_experiment(t))

-----------------------------------------------------------------------------
\* Liveness: a controlled experiment ends with a result.
ExperimentsEnd == \A t \in Threads : stage[t] = "called" ~> stage[t] = "returned"
==============================================================================
