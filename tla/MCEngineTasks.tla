--------------------------- MODULE MCEngineTasks ----------------------------
(* Small instances of EngineTasks.  Ids, handles and Stop requests are         *)
(* interchangeable; the symmetry is used by the safety runs only.              *)
EXTENDS EngineTasks, TLC

Symmetric == Permutations(Ids) \cup Permutations(Handles) \cup Permutations(Callers)
=============================================================================
