-------------------------- MODULE RunOrchestration --------------------------
(***************************************************************************)
(* The runs of one runnable record (a sync task or a canvas that is sent   *)
(* to the engine) in the admin backend: the start and stop handlers of     *)
(* run.service, the report handler of engineReport.service and the retry   *)
(* timers, against the engine as EngineContract promises it.               *)
(*                                                                         *)
(* A handler runs from one await to the next.  With the in-memory driver   *)
(* every repository await is a microtask, so a handler yields only where   *)
(* it waits for the engine; with MySQL every query yields.                 *)
(***************************************************************************)
EXTENDS Naturals, FiniteSets

CONSTANTS
  MaxInstances,  \* bound: instance rows ever created
  Requests,      \* handlers of start, cron start, retry and stop in progress at once
  Reports,       \* handlers of POST /engine/report in progress at once
  RetryCount,    \* record.retryCount
  Mysql,         \* DB_DRIVER = mysql
  Stops,         \* do users stop runs?
  Faults,        \* the kinds of faults that occur
  MaxFaults      \* bound: how many of them

FaultKinds == {"start", "stop", "order", "report", "engine", "node"}

ASSUME OrchestrationAssumption ==
  /\ MaxInstances \in Nat \ {0} /\ RetryCount \in Nat /\ MaxFaults \in Nat
  /\ Mysql \in BOOLEAN /\ Stops \in BOOLEAN
  /\ Faults \subseteq FaultKinds
  /\ "node" \in Faults => Mysql      \* a memory store does not survive its process
  /\ Requests \cap Reports = {} /\ IsFiniteSet(Requests)

VARIABLES
  lastStatus,  \* the record's lastStatus
  inst,        \* instance rows: status, retryAttempt, and the instance retried (history)
  pending,     \* start requests sent to the engine and not yet served
  engine,      \* the engine's knowledge of an instance (EngineContract)
  announced,   \* the last report of an instance (EngineContract)
  cancelled,   \* instances a stop request has reached in the engine
  req,         \* the start, stop and retry handlers
  rep,         \* the report handlers, from the engine's POST on
  timers,      \* scheduleRetry's pending timers
  faults       \* how many faults occurred

vars == <<lastStatus, inst, pending, engine, announced, cancelled, req, rep, timers, faults>>

Ids    == 1 .. MaxInstances
None   == 0
Engine == INSTANCE EngineContract WITH state <- engine

Terminal == {"success", "failed", "stopped"}
Statuses == {"idle", "running"} \cup Terminal

Instance == [status : {"none", "deleted", "running"} \cup Terminal,
             attempt : 0 .. RetryCount, of : Ids \cup {None}]
Retry    == [of : Ids, attempt : 1 .. RetryCount]

(* prev is the lastStatus a start has read, attempt and of belong to a retry. *)
Request ==
  [pc : {"idle", "retry", "read", "check", "create", "mark", "calling",
         "rollback", "undelete", "restore",
         "stopping", "waiting", "answered", "stopWrite", "stopFinish"},
   id : Ids \cup {None}, prev : Statuses, attempt : 0 .. RetryCount, of : Ids \cup {None}]

(* seen is the status the handler found; awaited, the engine waits for the answer. *)
Report ==
  [pc : {"free", "sent", "update", "write", "sync", "react"},
   id : Ids \cup {None}, status : Statuses, seen : Statuses, awaited : BOOLEAN]

NoInstance  == [status |-> "none", attempt |-> 0, of |-> None]
IdleRequest == [pc |-> "idle", id |-> None, prev |-> "idle", attempt |-> 0, of |-> None]
FreeReport  == [pc |-> "free", id |-> None, status |-> "idle", seen |-> "idle",
                awaited |-> FALSE]

TypeOK ==
  /\ lastStatus \in Statuses
  /\ inst \in [Ids -> Instance]
  /\ pending \in SUBSET Ids /\ cancelled \in SUBSET Ids
  /\ engine \in [Ids -> Engine!States] /\ announced \in [Ids -> Engine!Announces]
  /\ req \in [Requests -> Request]
  /\ rep \in [Reports -> Report]
  /\ timers \in SUBSET Retry
  /\ faults \in 0 .. MaxFaults

Init ==
  /\ lastStatus = "idle"
  /\ inst = [i \in Ids |-> NoInstance]
  /\ pending = {} /\ cancelled = {}
  /\ Engine!Init
  /\ req = [r \in Requests |-> IdleRequest]
  /\ rep = [m \in Reports |-> FreeReport]
  /\ timers = {} /\ faults = 0

-----------------------------------------------------------------------------

\* findRunningByTask: the running rows; the latest is the one with the largest id.
Running == {i \in Ids : inst[i].status = "running"}
Exists(i) == inst[i].status \notin {"none", "deleted"}
Unused  == {i \in Ids : inst[i].status = "none"}
NextId  == CHOOSE i \in Unused : \A j \in Unused : i <= j

\* Bound: a start begins only if every start under way still finds an unused id.
Starting == {r \in Requests : req[r].pc \in {"retry", "read", "check", "create"}}
Room     == Cardinality(Starting) < Cardinality(Unused)

\* Handlers between two repository calls (not waiting for the engine).
MidSection == {r \in Requests : req[r].pc \notin {"idle", "calling", "stopping", "waiting", "answered"}}
         \cup {m \in Reports  : rep[m].pc \notin {"free", "sent"}}

\* Faulty variant: an await that leaves the microtask queue although the driver is memory.
Turn_Yields(x) == TRUE

\* May handler x run its next piece?
Turn(x) == Mysql \/ MidSection \subseteq {x}

Fault(k) == k \in Faults /\ faults < MaxFaults /\ faults' = faults + 1

engineVars == <<engine, announced, cancelled>>

-----------------------------------------------------------------------------
(* start *)

\* getByIdOrThrow, and the half of the duplicate check that needs no query.  A retry
\* comes here with its attempt; a manual or cron start with attempt 0.
StartRead(r) ==
  /\ req[r].pc \in {"idle", "read"} /\ (req[r].pc = "idle" => Room)
  /\ Turn(r)
  /\ req' = [req EXCEPT ![r] = IF lastStatus = "running" THEN IdleRequest
                               ELSE [@ EXCEPT !.pc = "check", !.prev = lastStatus]]
  /\ UNCHANGED <<lastStatus, inst, pending, engineVars, rep, timers, faults>>

\* The other half: 40901 if an instance row is running.
StartCheck(r) ==
  /\ req[r].pc = "check" /\ Turn(r)
  /\ req' = [req EXCEPT ![r] = IF Running # {} THEN IdleRequest ELSE [@ EXCEPT !.pc = "create"]]
  /\ UNCHANGED <<lastStatus, inst, pending, engineVars, rep, timers, faults>>

\* instanceRepository.create with status running.
StartCreate(r) ==
  /\ req[r].pc = "create" /\ Turn(r)
  /\ inst' = [inst EXCEPT ![NextId] = [status |-> "running", attempt |-> req[r].attempt,
                                       of |-> req[r].of]]
  /\ req' = [req EXCEPT ![r].pc = "mark", ![r].id = NextId]
  /\ UNCHANGED <<lastStatus, pending, engineVars, rep, timers, faults>>

\* lastStatus = running; then the snapshot is POSTed to the engine.
StartMark(r) ==
  /\ req[r].pc = "mark" /\ Turn(r)
  /\ lastStatus' = "running"
  /\ pending' = pending \cup {req[r].id}
  /\ req' = [req EXCEPT ![r].pc = "calling"]
  /\ UNCHANGED <<inst, engineVars, rep, timers, faults>>

\* The engine answered accepted: start returns.
StartReplied(r) ==
  /\ req[r].pc = "calling" /\ req[r].id \notin pending /\ engine[req[r].id] # "absent"
  /\ req' = [req EXCEPT ![r] = IdleRequest]
  /\ UNCHANGED <<lastStatus, inst, pending, engineVars, rep, timers, faults>>

\* The call throws: refused, unreachable, or timed out with the request still on its way
\* or already served.
StartFails(r) ==
  /\ req[r].pc = "calling" /\ Turn(r)
  /\ Fault("start")
  /\ pending' \in {pending, pending \ {req[r].id}}
  /\ req' = [req EXCEPT ![r].pc = "rollback"]
  /\ UNCHANGED <<lastStatus, inst, engineVars, rep, timers>>

\* The rollback is a Promise.all: its deletion and its restoration end in either order.
RollbackDelete(r) ==
  /\ req[r].pc \in {"rollback", "undelete"} /\ Turn(r)
  /\ inst' = [inst EXCEPT ![req[r].id].status = "deleted"]
  /\ req' = [req EXCEPT ![r] = IF @.pc = "rollback" THEN [@ EXCEPT !.pc = "restore"]
                               ELSE IdleRequest]
  /\ UNCHANGED <<lastStatus, pending, engineVars, rep, timers, faults>>

\* Faulty variant: lastStatus is left as start wrote it.
RollbackRestore_Skipped(r) ==
  /\ req[r].pc \in {"rollback", "restore"} /\ Turn(r)
  /\ req' = [req EXCEPT ![r] = IF @.pc = "rollback" THEN [@ EXCEPT !.pc = "undelete"]
                               ELSE IdleRequest]
  /\ UNCHANGED <<lastStatus, inst, pending, engineVars, rep, timers, faults>>

RollbackRestore(r) ==
  /\ req[r].pc \in {"rollback", "restore"} /\ Turn(r)
  /\ lastStatus' = req[r].prev
  /\ req' = [req EXCEPT ![r] = IF @.pc = "rollback" THEN [@ EXCEPT !.pc = "undelete"]
                               ELSE IdleRequest]
  /\ UNCHANGED <<inst, pending, engineVars, rep, timers, faults>>

-----------------------------------------------------------------------------
(* retry *)

\* The timer fires and its callback reads the record; skipped if lastStatus is running.
RetryFire(r, t) ==
  /\ t \in timers /\ req[r].pc = "idle" /\ Room /\ Turn(r)
  /\ timers' = timers \ {t}
  /\ req' = IF lastStatus = "running" THEN req
            ELSE [req EXCEPT ![r].pc = "retry", ![r].attempt = t.attempt, ![r].of = t.of]
  /\ UNCHANGED <<lastStatus, inst, pending, engineVars, rep, faults>>

\* ... or if an instance row is running; otherwise it calls start.
RetryCheck(r) ==
  /\ req[r].pc = "retry" /\ Turn(r)
  /\ req' = [req EXCEPT ![r] = IF Running # {} THEN IdleRequest ELSE [@ EXCEPT !.pc = "read"]]
  /\ UNCHANGED <<lastStatus, inst, pending, engineVars, rep, timers, faults>>

-----------------------------------------------------------------------------
(* stop *)

\* The latest running row is asked to stop; without one the request is refused.
StopFind(r) ==
  /\ Stops /\ req[r].pc = "idle" /\ Turn(r)
  /\ \E i \in Running :
       /\ \A j \in Running : j <= i
       /\ req' = [req EXCEPT ![r].pc = "stopping", ![r].id = i]
  /\ UNCHANGED <<lastStatus, inst, pending, engineVars, rep, timers, faults>>

\* The run is over for the engine: settled, its last report answered or given up.
Over(i) == /\ engine[i] # "running" /\ (engine[i] \in Terminal => announced[i] \in Terminal)
           /\ \A m \in Reports : ~(rep[m].id = i /\ rep[m].awaited)

\* The engine serves it: an instance that is not over is cancelled and waited for, one that
\* is over is answered at once, and an unknown one with 40401, for stop "already stopped";
\* unknown is one whose start request the stop has overtaken (a fault of kind "order").
StopArrives(r) ==
  /\ req[r].pc = "stopping"
  /\ IF req[r].id \in pending THEN Fault("order") ELSE UNCHANGED faults
  /\ LET i == req[r].id
     IN /\ cancelled' = IF Over(i) THEN cancelled ELSE cancelled \cup {i}
        /\ req' = [req EXCEPT ![r].pc = IF Over(i) THEN "answered" ELSE "waiting"]
  /\ UNCHANGED <<lastStatus, inst, pending, engine, announced, rep, timers>>

\* The engine answers when the run has ended and its report is delivered or given up,
\* or (a fault) after its own time limit.
StopReply(r) ==
  /\ req[r].pc = "waiting"
  /\ IF Over(req[r].id) THEN UNCHANGED faults ELSE Fault("stop")
  /\ req' = [req EXCEPT ![r].pc = "answered"]
  /\ UNCHANGED <<lastStatus, inst, pending, engineVars, rep, timers>>

\* The call throws anything but 40401: stop fails, whether or not the engine got it.
StopFails(r) ==
  /\ req[r].pc \in {"stopping", "waiting"}
  /\ Fault("stop")
  /\ cancelled' \in {cancelled, cancelled \cup {i \in {req[r].id} : ~Over(i)}}
  /\ req' = [req EXCEPT ![r] = IdleRequest]
  /\ UNCHANGED <<lastStatus, inst, pending, engine, announced, rep, timers>>

\* instanceRepository.update reads the row; it writes nothing if the row is gone.
StopUpdate(r) ==
  /\ req[r].pc = "answered" /\ Turn(r)
  /\ req' = [req EXCEPT ![r].pc = IF Exists(req[r].id) THEN "stopWrite" ELSE "stopFinish"]
  /\ UNCHANGED <<lastStatus, inst, pending, engineVars, rep, timers, faults>>

\* updateRow: UPDATE, or INSERT again if the row was deleted since it was read.
StopWrite(r) ==
  /\ req[r].pc = "stopWrite" /\ Turn(r)
  /\ inst' = [inst EXCEPT ![req[r].id].status = "stopped"]
  /\ req' = [req EXCEPT ![r].pc = "stopFinish"]
  /\ UNCHANGED <<lastStatus, pending, engineVars, rep, timers, faults>>

StopFinish(r) ==
  /\ req[r].pc = "stopFinish" /\ Turn(r)
  /\ lastStatus' = "stopped"
  /\ req' = [req EXCEPT ![r] = IdleRequest]
  /\ UNCHANGED <<inst, pending, engineVars, rep, timers, faults>>

-----------------------------------------------------------------------------
(* The engine, and its reports on their way *)

Awaiting(i) == \E m \in Reports : rep[m].id = i /\ rep[m].awaited

EngineAccepts(i) ==
  /\ i \in pending /\ Engine!Accept(i)
  /\ pending' = pending \ {i}
  /\ UNCHANGED <<lastStatus, inst, cancelled, req, rep, timers, faults>>

\* Only a cancelled run ends as stopped.
EngineSettles(i, s) ==
  /\ ~Awaiting(i) /\ (s = "stopped" => i \in cancelled) /\ Engine!Settle(i, s)
  /\ UNCHANGED <<lastStatus, inst, pending, cancelled, req, rep, timers, faults>>

EngineForgets(i) ==
  /\ announced[i] \in Terminal /\ ~Awaiting(i) /\ Engine!Forget(i)
  /\ UNCHANGED <<lastStatus, inst, pending, cancelled, req, rep, timers, faults>>

\* SIGTERM cancels every run; what the runs still report comes before the process ends.
EngineShutdown ==
  /\ Fault("engine")
  /\ cancelled' = cancelled \cup {i \in Ids : ~Over(i)}
  /\ UNCHANGED <<lastStatus, inst, pending, engine, announced, req, rep, timers>>

\* A crash takes the reports not delivered yet and the stop requests with it.
EngineCrash ==
  /\ Fault("engine") /\ Engine!Crash
  /\ req' = [r \in Requests |-> IF req[r].pc = "waiting" THEN IdleRequest ELSE req[r]]
  /\ rep' = [m \in Reports |-> IF rep[m].pc = "sent" THEN FreeReport
                               ELSE [rep[m] EXCEPT !.awaited = FALSE]]
  /\ UNCHANGED <<lastStatus, inst, pending, cancelled, timers>>

\* The engine posts the next report of a run once the previous one is answered.
SendReport(m, i) ==
  /\ rep[m].pc = "free" /\ ~Awaiting(i)
  /\ Engine!Progress(i) \/ Engine!Announce(i)
  /\ rep' = [rep EXCEPT ![m] = [@ EXCEPT !.pc = "sent", !.id = i, !.status = announced'[i],
                                         !.awaited = TRUE]]
  /\ UNCHANGED <<lastStatus, inst, pending, cancelled, req, timers, faults>>

\* A cancel interrupts a report under way, the last one too unless the cancel came before the
\* end (detachedReportContext).
Interrupted(m) == rep[m].id \in cancelled /\ rep[m].status # "stopped"

\* The engine waits no longer for the answer: interrupted, or timed out.  The backend's
\* handler does not notice.
GiveUp(m) ==
  /\ rep[m].awaited
  /\ IF Interrupted(m) THEN UNCHANGED faults ELSE Fault("report")
  /\ rep' = [rep EXCEPT ![m].awaited = FALSE]
  /\ UNCHANGED <<lastStatus, inst, pending, engineVars, req, timers>>

\* A report never reaches the backend; the engine does not repeat it.
LoseReport(m) ==
  /\ rep[m].pc = "sent"
  /\ IF Interrupted(m) THEN UNCHANGED faults ELSE Fault("report")
  /\ rep' = [rep EXCEPT ![m] = FreeReport]
  /\ UNCHANGED <<lastStatus, inst, pending, engineVars, req, timers>>

-----------------------------------------------------------------------------
(* reportProgress *)

\* getInstanceOrThrow: 40401 for an unknown instance.
ReportRead(m) ==
  /\ rep[m].pc = "sent" /\ Turn(m)
  /\ rep' = [rep EXCEPT ![m] = IF ~Exists(rep[m].id) THEN FreeReport
                               ELSE [@ EXCEPT !.pc = "update", !.seen = inst[rep[m].id].status]]
  /\ UNCHANGED <<lastStatus, inst, pending, engineVars, req, timers, faults>>

\* updateInstance reads the row once more; if it is gone the handler goes on without it.
ReportUpdate(m) ==
  /\ rep[m].pc = "update" /\ Turn(m)
  /\ rep' = [rep EXCEPT ![m].pc = IF Exists(rep[m].id) THEN "write" ELSE "sync"]
  /\ UNCHANGED <<lastStatus, inst, pending, engineVars, req, timers, faults>>

\* Faulty variant: a terminal report only fills in the finish time.
ReportWrite_NotFinal(m) ==
  /\ rep[m].pc = "write" /\ Turn(m)
  /\ inst' = [inst EXCEPT ![rep[m].id].status = "running"]
  /\ rep' = [rep EXCEPT ![m].pc = "sync"]
  /\ UNCHANGED <<lastStatus, pending, engineVars, req, timers, faults>>

ReportWrite(m) ==
  /\ rep[m].pc = "write" /\ Turn(m)
  /\ inst' = [inst EXCEPT ![rep[m].id].status = rep[m].status]
  /\ rep' = [rep EXCEPT ![m].pc = "sync"]
  /\ UNCHANGED <<lastStatus, pending, engineVars, req, timers, faults>>

\* syncRunStatus.
ReportSync(m) ==
  /\ rep[m].pc = "sync" /\ Turn(m)
  /\ lastStatus' = rep[m].status
  /\ rep' = [rep EXCEPT ![m].pc = "react"]
  /\ UNCHANGED <<inst, pending, engineVars, req, timers, faults>>

\* Faulty variant: retryCount is compared after the increment.
ReportReact_OneMore(m) ==
  /\ rep[m].pc = "react" /\ Turn(m)
  /\ timers' = IF rep[m].status = "failed" /\ rep[m].seen # "failed" /\ RetryCount > 0
               THEN timers \cup {[of |-> rep[m].id, attempt |-> inst[rep[m].id].attempt + 1]}
               ELSE timers
  /\ rep' = [rep EXCEPT ![m] = FreeReport]
  /\ UNCHANGED <<lastStatus, inst, pending, engineVars, req, faults>>

\* The first failed report of an instance schedules a retry, up to retryCount; then the
\* answer goes back.
ReportReact(m) ==
  /\ rep[m].pc = "react" /\ Turn(m)
  /\ LET attempt == inst[rep[m].id].attempt
     IN timers' = IF rep[m].status = "failed" /\ rep[m].seen # "failed" /\ attempt < RetryCount
                  THEN timers \cup {[of |-> rep[m].id, attempt |-> attempt + 1]}
                  ELSE timers
  /\ rep' = [rep EXCEPT ![m] = FreeReport]
  /\ UNCHANGED <<lastStatus, inst, pending, engineVars, req, faults>>

\* The backend crashes: handlers and timers are gone, the database stays.
NodeCrash ==
  /\ Fault("node")
  /\ req' = [r \in Requests |-> IdleRequest]
  /\ rep' = [m \in Reports |-> FreeReport]
  /\ timers' = {}
  /\ UNCHANGED <<lastStatus, inst, pending, engineVars>>

-----------------------------------------------------------------------------

StartStep(r) ==
  \/ StartRead(r) /\ req[r].pc = "read"
  \/ StartCheck(r) \/ StartCreate(r) \/ StartMark(r) \/ StartReplied(r)
  \/ RollbackDelete(r) \/ RollbackRestore(r) \/ RetryCheck(r)
StopStep(r)   == StopArrives(r) \/ StopReply(r) \/ StopUpdate(r) \/ StopWrite(r) \/ StopFinish(r)
ReportStep(m) == ReportRead(m) \/ ReportUpdate(m) \/ ReportWrite(m) \/ ReportSync(m) \/ ReportReact(m)

Next ==
  \/ \E r \in Requests :
       \/ StartStep(r) \/ StartRead(r) \/ StartFails(r)
       \/ \E t \in timers : RetryFire(r, t)
       \/ StopFind(r) \/ StopStep(r) \/ StopFails(r)
  \/ \E i \in Ids :
       \/ EngineAccepts(i) \/ EngineForgets(i)
       \/ \E s \in Terminal : EngineSettles(i, s)
       \/ \E m \in Reports : SendReport(m, i)
  \/ \E m \in Reports : ReportStep(m) \/ GiveUp(m) \/ LoseReport(m)
  \/ EngineShutdown \/ EngineCrash \/ NodeCrash

Spec == Init /\ [][Next]_vars

\* Handlers go on, the engine serves what reaches it and posts its last report, and a run
\* ends although it may report progress any number of times first.
Fairness ==
  /\ \A r \in Requests : WF_vars(StartStep(r)) /\ WF_vars(StopStep(r))
  /\ \A m \in Reports : WF_vars(ReportStep(m))
  /\ \A i \in Ids :
       /\ WF_vars(EngineAccepts(i))
       /\ SF_vars(\E s \in Terminal : EngineSettles(i, s))
       /\ WF_vars(engine[i] \in Terminal /\ \E m \in Reports : SendReport(m, i))

FairSpec == Spec /\ Fairness

-----------------------------------------------------------------------------
(* Properties of the code *)

\* A retry continues exactly one instance that the engine reported as failed, with the
\* next attempt, within retryCount, and no failure is retried twice (run.service
\* scheduleRetry; the engine's promise of one terminal report is what it rests on).
RetryChain ==
  \A i \in Ids : inst[i].attempt > 0 =>
    /\ inst[i].of \in 1 .. i - 1
    /\ inst[i].attempt = inst[inst[i].of].attempt + 1 /\ inst[i].attempt <= RetryCount
    /\ announced[inst[i].of] = "failed"
    /\ \A j \in Ids \ {i} : inst[j].of # inst[i].of

\* With the memory driver the check of start and its row are one piece: two starts, a
\* start and a retry, a start and a stop never put two runs of the record on their way to
\* the engine (as long as nothing fails and no request overtakes another).
AtMostOneRun ==
  faults = 0 => Cardinality({i \in Ids : i \in pending \/ engine[i] = "running"}) <= 1

\* Runs of the record come one after the other (run.service.js start, scheduleRetry): never two
\* at a time, and none that nobody asked for but the one retry of a failure.
RunsInLine == AtMostOneRun /\ RetryChain

\* No handler is working on the record.
Quiet == /\ \A r \in Requests : req[r].pc = "idle"
         /\ \A m \in Reports : rep[m].pc = "free"

\* A record that says running can be stopped: stop finds a running row.  (Otherwise it
\* could be neither started nor stopped, edited nor deleted.)
NeverStuck == Quiet /\ lastStatus = "running" => Running # {}

\* As long as nothing fails, the row of an instance ends with the outcome the engine
\* reported last.
OutcomeKept ==
  faults = 0 => \A i \in Ids :
    announced[i] \in Terminal /\ (\A m \in Reports : rep[m].id # i) => inst[i].status = announced[i]

\* A run that nothing disturbs ends, for the backend too.
EventuallyOver ==
  \A i \in Ids : inst[i].status = "running" ~> (inst[i].status # "running" \/ faults > 0)

\* The history of runs follows the engine (engineReport.service.js, run.service.js scheduleRetry):
\* a run ends there as the engine announced, and each retry continues one failure of its own.
RunHistory == OutcomeKept /\ RetryChain

-----------------------------------------------------------------------------
(* What comments and documents say and the code does not do: TLC refutes each.     *)

\* README "40901": a record that is running is not started again.
OneRunning == Cardinality(Running) <= 1

\* run.service.js, stop: 40401 from the engine means that the instance is over there.
NotFoundIsOver == \A i \in Ids : inst[i].status = "stopped" => i \notin pending

\* task_service.go, Stop: it waits for the run and its report, so that the backend does
\* not find an outdated state once it has the answer.
StopSticks ==
  \A i \in Ids : Quiet /\ announced[i] = "stopped" => inst[i].status # "running"
=============================================================================
