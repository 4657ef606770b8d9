---------------------------- MODULE MCMemoryRuns ----------------------------
(***************************************************************************)
(* RunOrchestration with the memory driver in two scenes, checked in one   *)
(* run: one without stops but with room for all instances and reports, one *)
(* with stops, one instance less and one report at a time.                 *)
(***************************************************************************)
EXTENDS RunOrchestration, TLC

VARIABLE scene

MemoryInit == Init /\ scene \in {"plain", "stopped"}

\* Bound: what a scene leaves out.
InScene ==
  IF scene = "plain" THEN \A r \in Requests : req'[r].pc # "stopping"
  ELSE /\ Cardinality(Starting') < Cardinality(Unused')
       /\ Cardinality({m \in Reports : rep'[m].pc # "free"}) <= 1

MemoryNext == Next /\ InScene /\ UNCHANGED scene

MemorySpec == MemoryInit /\ [][MemoryNext]_<<scene, vars>>

\* Handlers of requests and of reports are interchangeable, each apart.
Symmetric == Permutations(Requests) \cup Permutations(Reports)
=============================================================================
