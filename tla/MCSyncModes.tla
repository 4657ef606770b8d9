---------------------------- MODULE MCSyncModes -----------------------------
(***************************************************************************)
(* Three scenes of KeysetSync, checked in one run: full copies with every  *)
(* kind of cut, incremental runs over ties and NULLs that must end, and a  *)
(* pipeline.                                                               *)
(***************************************************************************)
EXTENDS Naturals

VARIABLES scene, source, target, clock, persisted, reports, run, began, runs, disturbed

syncVars == <<source, target, clock, persisted, reports, run, began, runs, disturbed>>

Full == INSTANCE KeysetSync WITH
  Keys <- 1 .. 3, Mode <- "full", WriteMode <- "overwrite", BatchSize <- 2, NullsFirst <- TRUE,
  Kinds <- {"null", "delete"}, Cuts <- {"stop", "error", "crash", "lost"}, MaxWrites <- 4,
  MaxRuns <- 2

Ends == INSTANCE KeysetSync WITH
  Keys <- 1 .. 2, Mode <- "incremental", WriteMode <- "upsert", BatchSize <- 1,
  NullsFirst <- TRUE, Kinds <- {"tie", "null", "delete"}, Cuts <- {"stop"}, MaxWrites <- 3,
  MaxRuns <- 2

Pipeline == INSTANCE KeysetSync WITH
  Keys <- 1 .. 2, Mode <- "cdc", WriteMode <- "upsert", BatchSize <- 1, NullsFirst <- FALSE,
  Kinds <- {"delete"}, Cuts <- {}, MaxWrites <- 4, MaxRuns <- 1

Init == \/ scene = "full" /\ Full!Init
        \/ scene = "ends" /\ Ends!Init
        \/ scene = "pipeline" /\ Pipeline!Init

Next ==
  /\ UNCHANGED scene
  /\ \/ scene = "full" /\ Full!Next
     \/ scene = "ends" /\ Ends!Next
     \/ scene = "pipeline" /\ Pipeline!Next

\* KeysetSync!FairSpec in the scenes that end or go on: the runner's goroutine is scheduled.
Spec ==
  /\ Init /\ [][Next]_<<scene, syncVars>>
  /\ WF_<<scene, syncVars>>(scene = "ends" /\ Ends!RunStep /\ UNCHANGED scene)
  /\ WF_<<scene, syncVars>>(scene = "pipeline" /\ Pipeline!RunStep /\ UNCHANGED scene)

\* KeysetSync!SuccessMeansCopied: a full copy that reports success into a cleared target has
\* copied all of the table and nothing else, if nobody wrote meanwhile.
FullCopied ==
  [][scene = "full" /\ run.pc # "idle" /\ run'.outcome = "success" =>
       disturbed \/ \A k \in 1 .. 3 : target[k] = source[k].ver]_<<scene, syncVars>>

\* KeysetSync!RunEnds: a run over a source that is not written for ever ends, whatever its
\* ties and NULLs.
RunEnds == (scene = "ends" /\ run.pc # "idle") ~> (scene = "ends" /\ run.pc = "idle")

\* KeysetSync!ChangesCaptured: a pipeline left alone captures every change after its start,
\* unless the row is deleted (writes are bounded, so that a last version stays).
ChangesCaptured ==
  \A k \in 1 .. 2 :
    (scene = "pipeline" /\ run.pc # "idle" /\ source[k].ver > began)
      ~> (target[k] = source[k].ver \/ source[k].ver = 0)
=============================================================================
