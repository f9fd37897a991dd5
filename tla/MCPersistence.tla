---------------------------- MODULE MCPersistence ----------------------------
(*****************************************************************************)
(* A small instance of the engine with its store: one victim with a baseline, *)
(* compared with the same neighbor over two numbers of samples, so that one  *)
(* cell has two comparisons.                                                 *)
(*****************************************************************************)
EXTENDS Persistence, MCObservatory

\* An order of the ids in which more samples come first.
DigestOf(id) == 10 - id[5]

StoredBaselines == {Reference(1, 1, 10)}

Slow == Sample(12, 160, {2}, {})
Healthy == Sample(12, 101, {2}, {})

StoredCompares ==
  {Compare(Victim(1), 2, batch, DefaultPolicy) :
     batch \in {<<Slow, Slow>>, <<Healthy, Healthy, Healthy>>}}

StoredRecoveries == {<<1, 2, "MemoryBandwidth">>}
==============================================================================
