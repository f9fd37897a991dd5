------------------------------ MODULE MCLocking ------------------------------
(*****************************************************************************)
(* Two threads that run the experiment of two workloads while the workloads  *)
(* are registered and an observation of their overlap is recorded.           *)
(*****************************************************************************)
EXTENDS Locking, MCObservatory

Pair == {Victim(1), [Victim(1) EXCEPT !.id = 2]}
Overlap == {Sample(20, 130, {2}, {})}
PairPlan == {[id |-> 1, primary |-> 1, neighbor |-> 2]}
==============================================================================
