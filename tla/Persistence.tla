----------------------------- MODULE Persistence -----------------------------
(*****************************************************************************)
(* save() and load() of the observatory, composed with the engine.  The      *)
(* engine's process may die at any moment, also between the steps of a save; *)
(* the files survive it.  save() holds mutex_ from its first step to its     *)
(* last, so no other call of the same engine comes in between.               *)
(*                                                                           *)
(* The matrix is neither saved nor cleared by load(): it is rebuilt from the *)
(* comparisons, in the order of their 64-bit ids.                            *)
(*****************************************************************************)
EXTENDS Observatory

CONSTANT Digest(_)  \* the 64-bit value of a comparison id

VARIABLES
  file,    \* what is stored under path
  tmp,     \* what is stored under path.tmp
  saving   \* where save() is: "no", "open" (truncated), "written" (flushed)

disk == <<file, tmp, saving>>
storeVars == <<vars, disk>>

\* Mutants of Image: only CURRENT baselines are saved; no recoveries are.
ImageOfCurrent ==
  LET kept == {i \in DOMAIN baselines : baselines[i].freshness = "Current"}
  IN  [epoch |-> epoch, sources |-> sources, workers |-> workers,
       workloads |-> workloads,
       baselines |-> [i \in kept |-> baselines[i]],
       observations |-> observations, episodes |-> episodes,
       comparisons |-> comparisons, recoveries |-> recoveries]
ImageUnrecovered ==
  [epoch |-> epoch, sources |-> sources, workers |-> workers,
   workloads |-> workloads, baselines |-> baselines,
   observations |-> observations, episodes |-> episodes,
   comparisons |-> comparisons, recoveries |-> {}]

\* The payload of serialize_state.
Image ==
  [epoch |-> epoch, sources |-> sources, workers |-> workers,
   workloads |-> workloads, baselines |-> baselines,
   observations |-> observations, episodes |-> episodes,
   comparisons |-> comparisons, recoveries |-> recoveries]

\* A file is missing, incomplete, or holds the encoding of an image: decode
\* accepts exactly the last.
Absent == [content |-> "absent"]
Torn == [content |-> "torn"]
Whole(image) == [content |-> "whole", image |-> image]

decodes(f) == f.content = "whole"

StoreInit == Init /\ file = Absent /\ tmp = Absent /\ saving = "no"

-----------------------------------------------------------------------------
(* save(path)                                                                *)

\* Mutant of SaveOpen: the file itself is truncated.
SaveOpenInPlace ==
  /\ saving = "no"
  /\ file' = Torn /\ tmp' = Torn /\ saving' = "open"
  /\ UNCHANGED vars

SaveOpen ==
  /\ saving = "no"
  /\ tmp' = Torn /\ saving' = "open"
  /\ UNCHANGED <<vars, file>>

SaveWrite ==
  /\ saving = "open"
  /\ tmp' = Whole(Image) /\ saving' = "written"
  /\ UNCHANGED <<vars, file>>

\* A failed write or rename removes the temporary file.
SaveFails ==
  /\ saving # "no"
  /\ tmp' = Absent /\ saving' = "no"
  /\ UNCHANGED <<vars, file>>

SaveRename ==
  /\ saving = "written"
  /\ file' = tmp /\ tmp' = Absent /\ saving' = "no"
  /\ UNCHANGED vars

-----------------------------------------------------------------------------
(* load(path)                                                                *)

\* matrix.set for every comparison of C in ascending order of the ids: the
\* last one of a cell stays, and cells without a comparison are left alone.
LoadedMatrix(m, C) ==
  LET Of(k) == {id \in DOMAIN C : CellKey(C[id]) = k}
      Last(k) == CHOOSE id \in Of(k) : \A j \in Of(k) : Digest(j) <= Digest(id)
  IN  [k \in DOMAIN m \cup {CellKey(C[id]) : id \in DOMAIN C} |->
         IF Of(k) # {} THEN C[Last(k)] ELSE m[k]]

\* Every map but the matrix is replaced.
Adopt(image) ==
  /\ epoch' = image.epoch
  /\ sources' = image.sources /\ workers' = image.workers
  /\ workloads' = image.workloads /\ baselines' = image.baselines
  /\ observations' = image.observations /\ episodes' = image.episodes
  /\ comparisons' = image.comparisons /\ recoveries' = image.recoveries

\* Mutants of deserialize_state: the engine keeps its own epoch; comparisons
\* go into the matrix only.
deserialize_keeping_epoch(image) ==
  /\ Adopt([image EXCEPT !.epoch = epoch])
  /\ matrix' = LoadedMatrix(matrix, image.comparisons)
deserialize_matrix_only(image) ==
  /\ Adopt([image EXCEPT !.comparisons = comparisons])
  /\ matrix' = LoadedMatrix(matrix, image.comparisons)

deserialize_state(image) ==
  /\ Adopt(image)
  /\ matrix' = LoadedMatrix(matrix, image.comparisons)

load ==
  /\ saving = "no"
  /\ decodes(file)
  /\ deserialize_state(file.image)
  /\ UNCHANGED disk

-----------------------------------------------------------------------------
\* A newly constructed engine.
Blank ==
  [epoch |-> 1, sources |-> <<>>, workers |-> <<>>, workloads |-> <<>>,
   baselines |-> <<>>, observations |-> <<>>, episodes |-> <<>>,
   comparisons |-> <<>>, recoveries |-> {}]

\* The process dies, also in the middle of a save; its successor finds the
\* files as they are.
Crash ==
  /\ Adopt(Blank) /\ matrix' = <<>>
  /\ saving' = "no"
  /\ UNCHANGED <<file, tmp>>

\* A program that uses the store the way the tools do: load() is called on a
\* new engine only, and the epoch only advances.
RestartNext ==
  \/ saving = "no" /\ AdvancingNext /\ UNCHANGED disk
  \/ SaveOpen \/ SaveWrite \/ SaveFails \/ SaveRename
  \/ Init /\ load
  \/ Crash

RestartSpec == StoreInit /\ [][RestartNext]_storeVars

-----------------------------------------------------------------------------
(* Properties.                                                               *)

\* Action property: whatever fails or dies in the middle of a save(), the file
\* under path only ever changes from one complete state to another, and what
\* replaces it is the state the engine is in at that moment.
SaveIsAtomic ==
  [][file' # file => decodes(file') /\ file'.image = Image]_storeVars

-----------------------------------------------------------------------------
\* Replay yields identical pairwise matrices: the state being saved, loaded
\* into a new engine, has the matrix of the engine that saved it.
ReplayRestoresMatrix ==
  saving = "written" => LoadedMatrix(<<>>, tmp.image.comparisons) = matrix
==============================================================================
