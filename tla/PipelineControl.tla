-------------------------- MODULE PipelineControl ---------------------------
(***************************************************************************)
(* One data pipeline (CDC mirror) in the admin backend: the handlers that  *)
(* edit, delete, start and stop it and the report handler, against the     *)
(* engine as EngineContract promises it.  Unlike the record of a task, a   *)
(* pipeline names its instance in runningInstanceId, and start and stop    *)
(* look at that name only, never at the rows of its instances.             *)
(*                                                                         *)
(* A repository update reads the row and then writes all of it: one piece  *)
(* with the memory driver, two queries with MySQL.                         *)
(***************************************************************************)
EXTENDS Naturals, FiniteSets

CONSTANTS
  MaxInstances,  \* bound: instance rows ever created
  Users,         \* start, stop, edit and delete handlers in progress at once
  Reports,       \* handlers of POST /engine/report in progress at once
  Drivers,       \* the values of DB_DRIVER the backend may be set up with
  MaxFaults      \* bound: start calls that throw and reports that get lost

ASSUME PipelineAssumption ==
  /\ MaxInstances \in Nat \ {0} /\ MaxFaults \in Nat /\ Drivers \subseteq {"memory", "mysql"}
  /\ Users \cap Reports = {} /\ IsFiniteSet(Users)

VARIABLES
  driver,     \* DB_DRIVER
  pipe,       \* the row of the pipeline: status and runningInstanceId
  rows,       \* ids of the instance rows that exist
  created,    \* how many instances were created
  pending,    \* start requests sent to the engine and not yet served
  engine,     \* the engine's knowledge of an instance (EngineContract)
  announced,  \* the last report of an instance (EngineContract)
  cancelled,  \* instances a stop request has reached in the engine
  user,       \* the users' handlers
  rep,        \* the report handlers, from the engine's POST on
  faults,     \* how many faults occurred
  raced       \* has a start met a stop, or a report the engine gave up? (history)

vars == <<driver, pipe, rows, created, pending, engine, announced, cancelled, user, rep, faults, raced>>

Ids    == 1 .. MaxInstances
None   == 0
Engine == INSTANCE EngineContract WITH state <- engine

Row == [status : {"running", "stopped", "gone"}, of : Ids \cup {None}]
Gone == [status |-> "gone", of |-> None]

(* row is the pipeline as an update has loaded it, before as start has read it, todo what a
   rollback has to do; awaited: the engine waits for the answer to the report. *)
Handler ==
  [pc : {"idle", "check", "create", "claim", "claimSave", "calling", "rollback",
         "edit", "editSave", "delete", "find", "stopping", "waiting", "answered",
         "mark", "stop", "stopSave"},
   id : Ids \cup {None}, row : Row, before : Row, todo : SUBSET {"delete", "load", "save"}]

Report ==
  [pc : {"free", "sent", "update", "write", "react", "apply", "save"},
   id : Ids \cup {None}, status : {"running"} \cup Engine!Terminal, awaited : BOOLEAN,
   row : Row, ends : BOOLEAN]

Idle == [pc |-> "idle", id |-> None, row |-> Gone, before |-> Gone, todo |-> {}]
Free == [pc |-> "free", id |-> None, status |-> "running", awaited |-> FALSE,
         row |-> Gone, ends |-> FALSE]

TypeOK ==
  /\ driver \in Drivers
  /\ pipe \in Row /\ rows \in SUBSET Ids /\ created \in 0 .. MaxInstances
  /\ pending \in SUBSET Ids /\ cancelled \in SUBSET Ids
  /\ engine \in [Ids -> Engine!States] /\ announced \in [Ids -> Engine!Announces]
  /\ user \in [Users -> Handler] /\ rep \in [Reports -> Report]
  /\ faults \in 0 .. MaxFaults /\ raced \in BOOLEAN

\* createPipeline has run: a new pipeline is stopped and names no instance.
Init ==
  /\ driver \in Drivers
  /\ pipe = [status |-> "stopped", of |-> None]
  /\ rows = {} /\ created = 0 /\ pending = {} /\ cancelled = {}
  /\ Engine!Init
  /\ user = [u \in Users |-> Idle] /\ rep = [m \in Reports |-> Free]
  /\ faults = 0 /\ raced = FALSE

-----------------------------------------------------------------------------

Starting(u) == user[u].pc \in {"check", "create", "claim", "claimSave", "calling", "rollback"}
Stopping(u) == user[u].pc \in {"find", "stopping", "waiting", "answered", "mark", "stop", "stopSave"}

\* Handlers between two repository calls (not waiting for the engine).
MidSection == {u \in Users : user[u].pc \notin {"idle", "calling", "stopping", "waiting", "answered"}}
         \cup {m \in Reports : rep[m].pc \notin {"free", "sent"}}
Turn(x) == driver = "mysql" \/ MidSection \subseteq {x}

Fault == faults < MaxFaults /\ faults' = faults + 1

Goto(u, pc) == user' = [user EXCEPT ![u].pc = pc]
Done(u)     == user' = [user EXCEPT ![u] = Idle]

\* repository.update, first half: a row that is gone is left alone.
LoadRow(u, save, skip) ==
  user' = [user EXCEPT ![u] = IF pipe = Gone THEN [@ EXCEPT !.pc = skip]
                              ELSE [@ EXCEPT !.pc = save, !.row = pipe]]

engineVars == <<engine, announced, cancelled>>
linkVars == <<pending, engineVars>>

-----------------------------------------------------------------------------
(* start *)

\* getPipelineOrThrow, and 40901 for a running pipeline.  Bound: an id must be left.
StartRead(u) ==
  /\ user[u].pc = "idle" /\ Turn(u) /\ pipe # Gone
  /\ created + Cardinality({v \in Users : user[v].pc \in {"check", "create"}}) < MaxInstances
  /\ pipe.status # "running"
  /\ user' = [user EXCEPT ![u].pc = "check", ![u].before = pipe]
  /\ raced' = (raced \/ (\E v \in Users : Stopping(v))
                    \/ \E m \in Reports : rep[m].pc # "free" /\ ~rep[m].awaited)
  /\ UNCHANGED <<driver, pipe, rows, created, linkVars, rep, faults>>

\* ... and for one that names an instance whose row exists.
StartCheck(u) ==
  /\ user[u].pc = "check" /\ Turn(u)
  /\ IF user[u].before.of \in rows THEN Done(u) ELSE Goto(u, "create")
  /\ UNCHANGED <<driver, pipe, rows, created, linkVars, rep, faults, raced>>

StartCreate(u) ==
  /\ user[u].pc = "create" /\ Turn(u)
  /\ created' = created + 1 /\ rows' = rows \cup {created + 1}
  /\ user' = [user EXCEPT ![u].pc = "claim", ![u].id = created + 1]
  /\ UNCHANGED <<driver, pipe, linkVars, rep, faults, raced>>

\* status = running, runningInstanceId = the new instance.
StartClaim(u) ==
  /\ user[u].pc = "claim" /\ Turn(u)
  /\ IF pipe = Gone
     THEN Goto(u, "calling") /\ pending' = pending \cup {user[u].id}
     ELSE LoadRow(u, "claimSave", "calling") /\ UNCHANGED pending
  /\ UNCHANGED <<driver, pipe, rows, created, engineVars, rep, faults, raced>>

StartClaimSave(u) ==
  /\ user[u].pc = "claimSave" /\ Turn(u)
  /\ pipe' = [status |-> "running", of |-> user[u].id]
  /\ pending' = pending \cup {user[u].id}
  /\ Goto(u, "calling")
  /\ UNCHANGED <<driver, rows, created, engineVars, rep, faults, raced>>

StartReplied(u) ==
  /\ user[u].pc = "calling" /\ user[u].id \notin pending /\ Done(u)
  /\ UNCHANGED <<driver, pipe, rows, created, linkVars, rep, faults, raced>>

\* The call throws: refused, unreachable, or timed out with the request still on its way
\* or already served.
StartFails(u) ==
  /\ user[u].pc = "calling" /\ Turn(u) /\ Fault
  /\ pending' \in {pending, pending \ {user[u].id}}
  /\ user' = [user EXCEPT ![u].pc = "rollback", ![u].todo = {"delete", "load"}]
  /\ UNCHANGED <<driver, pipe, rows, created, engineVars, rep, raced>>

\* Faulty variant: the rollback restores the status and forgets runningInstanceId.
RollbackStep_StatusOnly(u, t) ==
  /\ user[u].pc = "rollback" /\ t \in user[u].todo /\ Turn(u)
  /\ rows' = IF t = "delete" THEN rows \ {user[u].id} ELSE rows
  /\ pipe' = IF t = "save" THEN [pipe EXCEPT !.status = user[u].before.status] ELSE pipe
  /\ LET next == (user[u].todo \ {t}) \cup (IF t = "load" THEN {"save"} ELSE {})
     IN user' = [user EXCEPT ![u] = IF next = {} THEN Idle ELSE [@ EXCEPT !.todo = next]]
  /\ UNCHANGED <<driver, created, linkVars, rep, faults, raced>>

\* Faulty variant: the rollback only deletes the instance.
RollbackStep_DeleteOnly(u, t) ==
  /\ user[u].pc = "rollback" /\ t = "delete" /\ Turn(u)
  /\ rows' = rows \ {user[u].id} /\ Done(u)
  /\ UNCHANGED <<driver, pipe, created, linkVars, rep, faults, raced>>

\* The rollback's Promise.all: the instance row goes, the pipeline gets back the status
\* and the runningInstanceId that start had read.
RollbackStep(u, t) ==
  /\ user[u].pc = "rollback" /\ t \in user[u].todo /\ Turn(u)
  /\ rows' = IF t = "delete" THEN rows \ {user[u].id} ELSE rows
  /\ pipe' = IF t = "save" THEN user[u].before ELSE pipe
  /\ LET next == (user[u].todo \ {t}) \cup
                 (IF t = "load" /\ pipe # Gone THEN {"save"} ELSE {})
     IN user' = [user EXCEPT ![u] = IF next = {} THEN Idle ELSE [@ EXCEPT !.todo = next]]
  /\ UNCHANGED <<driver, created, linkVars, rep, faults, raced>>

-----------------------------------------------------------------------------
(* edit and delete, refused (40003) while the pipeline is running *)

EditRead(u) ==
  /\ user[u].pc = "idle" /\ Turn(u) /\ pipe.status = "stopped"
  /\ Goto(u, "edit")
  /\ UNCHANGED <<driver, pipe, rows, created, linkVars, rep, faults, raced>>

EditLoad(u) ==
  /\ user[u].pc = "edit" /\ Turn(u) /\ LoadRow(u, "editSave", "idle")
  /\ UNCHANGED <<driver, pipe, rows, created, linkVars, rep, faults, raced>>

\* An edit changes neither field; with MySQL it writes them back as it read them.
EditSave(u) ==
  /\ user[u].pc = "editSave" /\ Turn(u)
  /\ pipe' = user[u].row /\ Done(u)
  /\ UNCHANGED <<driver, rows, created, linkVars, rep, faults, raced>>

DeleteRead(u) ==
  /\ user[u].pc = "idle" /\ Turn(u) /\ pipe.status = "stopped"
  /\ Goto(u, "delete")
  /\ UNCHANGED <<driver, pipe, rows, created, linkVars, rep, faults, raced>>

DeleteRow(u) ==
  /\ user[u].pc = "delete" /\ Turn(u)
  /\ pipe' = Gone /\ Done(u)
  /\ UNCHANGED <<driver, rows, created, linkVars, rep, faults, raced>>

-----------------------------------------------------------------------------
(* stop *)

StopRead(u) ==
  /\ user[u].pc = "idle" /\ Turn(u) /\ pipe.of # None
  /\ user' = [user EXCEPT ![u].pc = "find", ![u].id = pipe.of]
  /\ raced' = (raced \/ \E v \in Users : Starting(v))
  /\ UNCHANGED <<driver, pipe, rows, created, linkVars, rep, faults>>

\* findRunningInstance: the row by its id, whatever its status.
StopFind(u) ==
  /\ user[u].pc = "find" /\ Turn(u)
  /\ IF user[u].id \in rows THEN Goto(u, "stopping") ELSE Done(u)
  /\ UNCHANGED <<driver, pipe, rows, created, linkVars, rep, faults, raced>>

\* The run is over for the engine: settled, its last report answered or given up.
Over(i) == /\ engine[i] # "running"
           /\ engine[i] \in Engine!Terminal => announced[i] \in Engine!Terminal
           /\ \A m \in Reports : ~(rep[m].id = i /\ rep[m].awaited)

\* The engine cancels a run that is not over and waits for it; any other answer, 40401
\* included, counts as stopped.
StopArrives(u) ==
  /\ user[u].pc = "stopping"
  /\ LET i == user[u].id
     IN IF Over(i) THEN Goto(u, "answered") /\ UNCHANGED cancelled
        ELSE Goto(u, "waiting") /\ cancelled' = cancelled \cup {i}
  /\ UNCHANGED <<driver, pipe, rows, created, pending, engine, announced, rep, faults, raced>>

StopReply(u) ==
  /\ user[u].pc = "waiting" /\ Over(user[u].id)
  /\ Goto(u, "answered")
  /\ UNCHANGED <<driver, pipe, rows, created, linkVars, rep, faults, raced>>

\* The instance becomes stopped (written again if it was deleted meanwhile) ...
StopUpdate(u) ==
  /\ user[u].pc = "answered" /\ Turn(u)
  /\ Goto(u, IF user[u].id \in rows THEN "mark" ELSE "stop")
  /\ UNCHANGED <<driver, pipe, rows, created, linkVars, rep, faults, raced>>

StopMark(u) ==
  /\ user[u].pc = "mark" /\ Turn(u)
  /\ rows' = rows \cup {user[u].id} /\ Goto(u, "stop")
  /\ UNCHANGED <<driver, pipe, created, linkVars, rep, faults, raced>>

\* ... and the pipeline too, whatever instance it names by now.
StopLoad(u) ==
  /\ user[u].pc = "stop" /\ Turn(u) /\ LoadRow(u, "stopSave", "idle")
  /\ UNCHANGED <<driver, pipe, rows, created, linkVars, rep, faults, raced>>

StopSave(u) ==
  /\ user[u].pc = "stopSave" /\ Turn(u)
  /\ pipe' = [status |-> "stopped", of |-> None] /\ Done(u)
  /\ UNCHANGED <<driver, rows, created, linkVars, rep, faults, raced>>

-----------------------------------------------------------------------------
(* The engine, and its reports on their way *)

Awaiting(i) == \E m \in Reports : rep[m].id = i /\ rep[m].awaited

EngineAccepts(i) ==
  /\ i \in pending /\ Engine!Accept(i)
  /\ pending' = pending \ {i}
  /\ UNCHANGED <<driver, pipe, rows, created, cancelled, user, rep, faults, raced>>

\* A mirror ends by itself only in failure, and as stopped only when it is cancelled.
EngineSettles(i, s) ==
  /\ ~Awaiting(i) /\ (s = "stopped" => i \in cancelled) /\ Engine!Settle(i, s)
  /\ UNCHANGED <<driver, pipe, rows, created, pending, cancelled, user, rep, faults, raced>>

\* The engine posts the next report of a run once the previous one is answered.
SendReport(m, i) ==
  /\ rep[m].pc = "free" /\ ~Awaiting(i)
  /\ Engine!Progress(i) \/ Engine!Announce(i)
  /\ rep' = [rep EXCEPT ![m] = [@ EXCEPT !.pc = "sent", !.id = i, !.status = announced'[i],
                                         !.awaited = TRUE]]
  /\ UNCHANGED <<driver, pipe, rows, created, pending, cancelled, user, faults, raced>>

\* A stop interrupts a report under way, the last one too unless the stop came before the
\* end (detachedReportContext): the engine no longer waits, the backend may or may not
\* have got it.
Interrupted(m) == rep[m].id \in cancelled /\ rep[m].status # "stopped"

GiveUp(m) ==
  /\ rep[m].awaited /\ Interrupted(m)
  /\ rep' = [rep EXCEPT ![m].awaited = FALSE]
  /\ UNCHANGED <<driver, pipe, rows, created, linkVars, user, faults, raced>>

LoseReport(m) ==
  /\ rep[m].pc = "sent"
  /\ Fault \/ (Interrupted(m) /\ UNCHANGED faults)
  /\ rep' = [rep EXCEPT ![m] = Free]
  /\ UNCHANGED <<driver, pipe, rows, created, linkVars, user, raced>>

-----------------------------------------------------------------------------
(* reportProgress and handlePipelineReport *)

ReportRead(m) ==
  /\ rep[m].pc = "sent" /\ Turn(m)
  /\ rep' = [rep EXCEPT ![m] = IF rep[m].id \in rows THEN [@ EXCEPT !.pc = "update"] ELSE Free]
  /\ UNCHANGED <<driver, pipe, rows, created, linkVars, user, faults, raced>>

ReportUpdate(m) ==
  /\ rep[m].pc = "update" /\ Turn(m)
  /\ rep' = [rep EXCEPT ![m].pc = IF rep[m].id \in rows THEN "write" ELSE "react"]
  /\ UNCHANGED <<driver, pipe, rows, created, linkVars, user, faults, raced>>

ReportWrite(m) ==
  /\ rep[m].pc = "write" /\ Turn(m)
  /\ rows' = rows \cup {rep[m].id}
  /\ rep' = [rep EXCEPT ![m].pc = "react"]
  /\ UNCHANGED <<driver, pipe, created, linkVars, user, faults, raced>>

\* Faulty variant: only a report of a stop ends the pipeline.
ReportPipeline_StoppedOnly(m) ==
  /\ rep[m].pc = "react" /\ Turn(m)
  /\ rep' = [rep EXCEPT ![m] = IF pipe = Gone THEN Free
                               ELSE [@ EXCEPT !.pc = "apply", !.ends = rep[m].status = "stopped"]]
  /\ UNCHANGED <<driver, pipe, rows, created, linkVars, user, faults, raced>>

\* A terminal report ends the pipeline if it is found running, by whatever instance.
ReportPipeline(m) ==
  /\ rep[m].pc = "react" /\ Turn(m)
  /\ rep' = [rep EXCEPT ![m] =
       IF pipe = Gone THEN Free
       ELSE [@ EXCEPT !.pc = "apply",
                      !.ends = rep[m].status \in Engine!Terminal /\ pipe.status = "running"]]
  /\ UNCHANGED <<driver, pipe, rows, created, linkVars, user, faults, raced>>

ReportApply(m) ==
  /\ rep[m].pc = "apply" /\ Turn(m)
  /\ rep' = [rep EXCEPT ![m] = IF pipe = Gone THEN Free ELSE [@ EXCEPT !.pc = "save", !.row = pipe]]
  /\ UNCHANGED <<driver, pipe, rows, created, linkVars, user, faults, raced>>

\* Faulty variant: the pipeline takes over the status of its instance.
ReportSave_InstanceStatus(m) ==
  /\ rep[m].pc = "save" /\ Turn(m)
  /\ pipe' = IF rep[m].ends THEN [status |-> rep[m].status, of |-> None] ELSE rep[m].row
  /\ rep' = [rep EXCEPT ![m] = Free]
  /\ UNCHANGED <<driver, rows, created, linkVars, user, faults, raced>>

\* A report that does not end the pipeline writes status and runningInstanceId back.
ReportSave(m) ==
  /\ rep[m].pc = "save" /\ Turn(m)
  /\ pipe' = IF rep[m].ends THEN [status |-> "stopped", of |-> None] ELSE rep[m].row
  /\ rep' = [rep EXCEPT ![m] = Free]
  /\ UNCHANGED <<driver, rows, created, linkVars, user, faults, raced>>

-----------------------------------------------------------------------------

UserStep(u) ==
  \/ StartCheck(u) \/ StartCreate(u) \/ StartClaim(u) \/ StartClaimSave(u) \/ StartReplied(u)
  \/ \E t \in {"delete", "load", "save"} : RollbackStep(u, t)
  \/ EditLoad(u) \/ EditSave(u) \/ DeleteRow(u)
  \/ StopFind(u) \/ StopArrives(u) \/ StopReply(u) \/ StopUpdate(u) \/ StopMark(u)
  \/ StopLoad(u) \/ StopSave(u)
ReportStep(m) == ReportRead(m) \/ ReportUpdate(m) \/ ReportWrite(m) \/ ReportPipeline(m)
                 \/ ReportApply(m) \/ ReportSave(m)

Next ==
  \/ \E u \in Users : \/ UserStep(u)
                      \/ StartRead(u) \/ StartFails(u) \/ EditRead(u) \/ DeleteRead(u) \/ StopRead(u)
  \/ \E i \in Ids : EngineAccepts(i) \/ \E m \in Reports : SendReport(m, i)
                    \/ \E s \in {"failed", "stopped"} : EngineSettles(i, s)
  \/ \E m \in Reports : ReportStep(m) \/ GiveUp(m) \/ LoseReport(m)

Spec == Init /\ [][Next]_vars

\* Handlers go on, in the order of the event loop's queue, which forgets none of them
\* while others keep it busy; the engine serves what reaches it and posts its last report.
Fairness ==
  /\ \A u \in Users : SF_vars(UserStep(u))
  /\ \A m \in Reports : SF_vars(ReportStep(m))
  /\ \A i \in Ids : /\ WF_vars(EngineAccepts(i))
                    /\ SF_vars(engine[i] \in Engine!Terminal /\ \E m \in Reports : SendReport(m, i))

FairSpec == Spec /\ Fairness

-----------------------------------------------------------------------------
(* Properties of the code *)

\* Every writer of the row sets status and runningInstanceId together, or writes both
\* back as it read them in one row: the two never contradict each other.
PairAgrees == pipe.status = "running" <=> pipe.of # None

\* No handler is at work and no report under way.
Quiet == /\ \A u \in Users : user[u].pc = "idle"
         /\ \A m \in Reports : rep[m].pc = "free"

\* A pipeline that says running can be stopped: stop finds the row of its instance.
\* (Otherwise it could be neither started nor stopped, edited nor deleted.)
CanStop == driver = "memory" /\ Quiet /\ pipe.status = "running" => pipe.of \in rows

Live(i) == i \in pending \/ engine[i] = "running"

\* As long as nothing fails and no start meets a stop, the record tells the truth: the
\* engine works for the instance the pipeline names and for no other, and a pipeline
\* that says running has an instance that runs or whose end is still to be reported.
RecordTruthful ==
  driver = "memory" /\ faults = 0 /\ ~raced =>
    /\ \A i \in Ids : Live(i) => pipe = [status |-> "running", of |-> i]
    /\ Quiet /\ pipe.status = "running" => announced[pipe.of] \notin Engine!Terminal

\* The record is sound (startPipeline, stopPipeline, handlePipelineReport): whatever fails, it
\* never strands its pipeline, and it tells the truth of its mirrors when nothing does.
RecordSound == CanStop /\ RecordTruthful

\* The end of a mirror reaches the record, unless a report is lost or a start fails.
EndRecorded ==
  \A i \in Ids : engine[i] \in Engine!Terminal ~> (pipe.of # i \/ faults > 0)
=============================================================================
