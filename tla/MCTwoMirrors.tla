---------------------------- MODULE MCTwoMirrors ----------------------------
(***************************************************************************)
(* PipelineControl, watched for stops that overtake the request of the     *)
(* start they are to undo: the engine does not know the instance yet,      *)
(* answers 40401 and accepts it later.  That alone makes two mirrors; the  *)
(* question here is what happens when no stop does so.                     *)
(***************************************************************************)
EXTENDS PipelineControl, TLC

VARIABLE overtaken  \* has a stop overtaken the request of its start? (history)

Overtakes(u) == StopArrives(u) /\ user[u].id \in pending

WatchedInit == Init /\ overtaken = FALSE
WatchedNext == Next /\ overtaken' = (overtaken \/ \E u \in Users : Overtakes(u))
WatchedSpec == WatchedInit /\ [][WatchedNext]_<<vars, overtaken>>

Symmetric == Permutations(Users) \cup Permutations(Reports)

\* pipeline.service.js:11, a second start is refused (40901): at most one mirror of the
\* pipeline runs.
OneMirror == overtaken \/ Cardinality({i \in Ids : engine[i] = "running"}) <= 1
=============================================================================
