---------------------------- MODULE MCCoordinator ----------------------------
(*****************************************************************************)
(* Instances of the coordinator with its workers.  The calls of the engine   *)
(* are those of the script, so the sets of calls are empty but for the       *)
(* epochs a restart may name: the saved one, which is also the default, and  *)
(* the next.                                                                 *)
(*****************************************************************************)
EXTENDS Coordinator

DigestOf(id) == id[1] + id[5]

SavedOrNext == {1, 2}
NoCalls == {}
Fragile == {"A", "A2", "coordinator"}
OnlyA == {"A"}
==============================================================================
