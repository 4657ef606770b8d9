--------------------------- MODULE MetricTaskRuns ---------------------------
(***************************************************************************)
(* The metric tasks (metrictask.service) and their runs.  A run is one     *)
(* request: it finds the task not running, plans its statements, inserts a *)
(* run row, marks the task, has the engine execute the statements, and     *)
(* writes the outcome into both rows.  Every update of a task row reads    *)
(* the row and writes all of it back.                                      *)
(***************************************************************************)
EXTENDS Storage, Naturals, FiniteSets

CONSTANTS
  TaskIds,     \* metric tasks
  Workers,     \* requests in progress at once
  MaxRuns,     \* bound: run rows
  MaxCrashes   \* bound: crashes of the backend

ASSUME TaskRunsAssumption == MaxRuns \in Nat /\ MaxCrashes \in Nat

VARIABLES
  metricTask, \* the task rows
  runRow,     \* the rows of the runs
  worker,     \* the requests in progress
  mingled,    \* tasks edited or deleted while a run of them was under way (history)
  crashes     \* how often the backend has crashed

taskVars == <<metricTask, runRow, worker, mingled, crashes>>

NoMetricTask == "none"
Outcomes == {"success", "failed"}
TaskRow  == [lastStatus : {"idle", "running"} \cup Outcomes, delFlag : BOOLEAN]
NewTask  == [lastStatus |-> "idle", delFlag |-> FALSE]
RunIds   == 1 .. MaxRuns
RunRow   == [status : {"none", "running"} \cup Outcomes, on : TaskIds \cup {NoMetricTask}]

(* A request's next repository call (or call of the engine), the row it has read last,*)
(* and what it has to write.                                               *)
Worker == [pc : {"idle", "validate", "editLoad", "editWrite", "deleteLoad", "deleteWrite",
                 "live", "plan", "create", "markLoad", "mark", "exec", "outcome", "endLoad", "end"},
           on : TaskIds \cup {NoMetricTask}, row : TaskRow, run : 0 .. MaxRuns,
           outcome : {"none"} \cup Outcomes]
NoWorker == [pc |-> "idle", on |-> NoMetricTask, row |-> NewTask, run |-> 0, outcome |-> "none"]

TaskRunsTypeOK ==
  /\ metricTask \in [TaskIds -> TaskRow] /\ runRow \in [RunIds -> RunRow]
  /\ worker \in [Workers -> Worker]
  /\ mingled \in SUBSET TaskIds /\ crashes \in 0 .. MaxCrashes

TaskRunsInit ==
  /\ metricTask = [t \in TaskIds |-> NewTask]
  /\ runRow = [i \in RunIds |-> [status |-> "none", on |-> NoMetricTask]]
  /\ worker = [w \in Workers |-> NoWorker]
  /\ mingled = {} /\ crashes = 0

-----------------------------------------------------------------------------

Running  == {"live", "plan", "create", "markLoad", "mark", "exec", "outcome", "endLoad", "end"}
Editing  == {"validate", "editLoad", "editWrite", "deleteLoad", "deleteWrite"}
WorkersAt(t, pcs) == {w \in Workers : worker[w].on = t /\ worker[w].pc \in pcs}

At(w, pc)  == worker[w].pc = pc /\ TurnOf(w, {v \in Workers : worker[v].pc # "idle"})
Goes(w, q) == worker' = [worker EXCEPT ![w] = q]
Steps(w, pc) == Goes(w, [worker[w] EXCEPT !.pc = pc])
Loads(w, pc) == Goes(w, [worker[w] EXCEPT !.pc = pc, !.row = metricTask[worker[w].on]])

\* updateTask and deleteTask: the task is there; only the deletion asks whether it runs.
TaskEdit(w, t, delete) ==
  /\ At(w, "idle") /\ ~metricTask[t].delFlag
  /\ delete => metricTask[t].lastStatus # "running"
  /\ Goes(w, [NoWorker EXCEPT !.pc = IF delete THEN "deleteLoad" ELSE "validate", !.on = t])
  /\ mingled' = IF WorkersAt(t, Running) # {} THEN mingled \cup {t} ELSE mingled
  /\ UNCHANGED <<metricTask, runRow, crashes>>

\* saveTask plans the statements and compares the target model: refused, or on to the update.
EditValidate(w) ==
  /\ At(w, "validate") /\ (Goes(w, NoWorker) \/ Steps(w, "editLoad"))
  /\ UNCHANGED <<metricTask, runRow, mingled, crashes>>

TaskEditLoad(w) ==
  /\ \/ At(w, "editLoad") /\ Loads(w, "editWrite")
     \/ At(w, "deleteLoad") /\ Loads(w, "deleteWrite")
  /\ UNCHANGED <<metricTask, runRow, mingled, crashes>>

\* The row is written as it was loaded, but for what the request sets.
EditWrite(w) ==
  LET q == worker[w] IN
  /\ At(w, "editWrite") \/ At(w, "deleteWrite")
  /\ metricTask' = [metricTask EXCEPT ![q.on] = [q.row EXCEPT !.delFlag = @ \/ q.pc = "deleteWrite"]]
  /\ Goes(w, NoWorker)
  /\ UNCHANGED <<runRow, mingled, crashes>>

\* runTask, by a user or by the scheduler: only with MySQL, and first getTask.  Bound: there
\* is a run row left for it.
Run(w, t) ==
  /\ driver = "mysql" /\ At(w, "idle") /\ ~metricTask[t].delFlag
  /\ Cardinality({v \in Workers : worker[v].pc \in {"live", "plan", "create"}})
       < Cardinality({i \in RunIds : runRow[i].status = "none"})
  /\ Goes(w, [NoWorker EXCEPT !.pc = "live", !.on = t])
  /\ mingled' = IF WorkersAt(t, Editing) # {} THEN mingled \cup {t} ELSE mingled
  /\ UNCHANGED <<metricTask, runRow, crashes>>

\* The row read once more says whether the task runs.
RunLive(w) ==
  /\ At(w, "live")
  /\ IF metricTask[worker[w].on].lastStatus = "running" THEN Goes(w, NoWorker) ELSE Steps(w, "plan")
  /\ UNCHANGED <<metricTask, runRow, mingled, crashes>>

\* The plan, its statements and the probe for the target table: one of them may fail.
RunPlan(w) ==
  /\ At(w, "plan") /\ (Goes(w, NoWorker) \/ Steps(w, "create"))
  /\ UNCHANGED <<metricTask, runRow, mingled, crashes>>

RunCreate(w) ==
  /\ At(w, "create")
  /\ \E i \in RunIds :
       /\ runRow[i].status = "none" /\ \A j \in 1 .. i - 1 : runRow[j].status # "none"
       /\ runRow' = [runRow EXCEPT ![i] = [status |-> "running", on |-> worker[w].on]]
       /\ Goes(w, [worker[w] EXCEPT !.pc = "markLoad", !.run = i])
  /\ UNCHANGED <<metricTask, mingled, crashes>>

\* The two halves of an update that sets lastStatus to s.
Marks(w, s, next) ==
  /\ metricTask' = [metricTask EXCEPT ![worker[w].on] = [worker[w].row EXCEPT !.lastStatus = s]]
  /\ Goes(w, next)

RunLoad(w) ==
  /\ \/ At(w, "markLoad") /\ Loads(w, "mark")
     \/ At(w, "endLoad") /\ Loads(w, "end")
  /\ UNCHANGED <<metricTask, runRow, mingled, crashes>>

RunMark(w) ==
  /\ At(w, "mark") /\ Marks(w, "running", [worker[w] EXCEPT !.pc = "exec"])
  /\ UNCHANGED <<runRow, mingled, crashes>>

\* The engine answers, or the call fails or times out.
RunExec(w, outcome) ==
  /\ At(w, "exec") /\ Goes(w, [worker[w] EXCEPT !.pc = "outcome", !.outcome = outcome])
  /\ UNCHANGED <<metricTask, runRow, mingled, crashes>>

\* Faulty variant: after a failure only the row of the run is written.
RunOutcome_RunOnly(w) ==
  LET q == worker[w] IN
  /\ At(w, "outcome")
  /\ runRow' = [runRow EXCEPT ![q.run].status = q.outcome]
  /\ IF q.outcome = "failed" THEN Goes(w, NoWorker) ELSE Steps(w, "endLoad")
  /\ UNCHANGED <<metricTask, mingled, crashes>>

RunOutcome(w) ==
  /\ At(w, "outcome")
  /\ runRow' = [runRow EXCEPT ![worker[w].run].status = worker[w].outcome]
  /\ Steps(w, "endLoad")
  /\ UNCHANGED <<metricTask, mingled, crashes>>

RunEnd(w) ==
  /\ At(w, "end") /\ Marks(w, worker[w].outcome, NoWorker)
  /\ UNCHANGED <<runRow, mingled, crashes>>

\* The backend crashes: its requests are gone.
BackendCrash ==
  /\ driver = "mysql" /\ crashes < MaxCrashes /\ crashes' = crashes + 1
  /\ worker' = [w \in Workers |-> NoWorker]
  /\ UNCHANGED <<metricTask, runRow, mingled>>

TaskRunsNext ==
  \/ \E w \in Workers :
       \/ \E t \in TaskIds : Run(w, t) \/ \E delete \in BOOLEAN : TaskEdit(w, t, delete)
       \/ EditValidate(w) \/ TaskEditLoad(w) \/ EditWrite(w)
       \/ RunLive(w) \/ RunPlan(w) \/ RunCreate(w) \/ RunLoad(w) \/ RunMark(w)
       \/ \E outcome \in Outcomes : RunExec(w, outcome)
       \/ RunOutcome(w) \/ RunEnd(w)
  \/ BackendCrash

TaskRunsSpec ==
  StorageTypeOK /\ TaskRunsInit /\ [][TaskRunsNext /\ UNCHANGED driver]_<<driver, taskVars>>

-----------------------------------------------------------------------------

\* A task is left free: without a crash, and unless somebody edited or deleted it meanwhile,
\* it says running only while a run of it is under way, however many runs overlapped and
\* failed (a task that says running can be neither run nor deleted any more).
TaskLeftFree ==
  crashes = 0 => \A t \in TaskIds \ mingled :
    metricTask[t].lastStatus = "running" => WorkersAt(t, Running) # {}

(* What messages say and the code does not do: TLC refutes both (MySQL).   *)

\* metrictask.service.js:672 (a task that runs is refused): one run of a task at a time.
OneRunPerTask == \A t \in TaskIds : Cardinality(WorkersAt(t, {"exec"})) <= 1

\* The answer to a deletion: the task is deleted (a request that had read the row before
\* writes it back).
DeletedForGood == [][\A t \in TaskIds : metricTask[t].delFlag => metricTask'[t].delFlag]_taskVars
=============================================================================
