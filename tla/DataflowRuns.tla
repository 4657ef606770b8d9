---------------------------- MODULE DataflowRuns ----------------------------
(***************************************************************************)
(* The local runs of a canvas with script, pivot or json nodes: run.service*)
(* does not send them to the engine but calls dataflow.service, and answers*)
(* at once.  A local run cannot be interrupted; stop, which asks the       *)
(* engine, hears there that the instance is unknown and goes on.  Local    *)
(* runs need MySQL, so every query lets other handlers in.                 *)
(***************************************************************************)
EXTENDS Storage, Naturals, FiniteSets

CONSTANTS
  FlowRuns,      \* bound: instance rows are 1 .. FlowRuns
  FlowUsers,     \* start and stop requests, and retries, in progress at once
  FlowRetries    \* retryCount of the canvas

ASSUME DataflowRunsAssumption == FlowRuns \in Nat /\ FlowRetries \in Nat

VARIABLES
  flowStatus,  \* lastStatus of the canvas
  flowRow,     \* the instance rows
  local,       \* where runLocalPipeline is with an instance
  flowReq,     \* the start and stop requests
  flowTimers,  \* pending retries: the instances they continue
  stopped      \* instances a stop has found running (history)

flowVars == <<flowStatus, flowRow, local, flowReq, flowTimers, stopped>>

FlowIds     == 1 .. FlowRuns
FlowEnd     == {"success", "failed"}
FlowState   == {"idle", "running", "stopped"} \cup FlowEnd
FlowRow     == [status : {"none", "running", "stopped"} \cup FlowEnd, attempt : 0 .. FlowRetries,
                of : 0 .. FlowRuns]
NoRun       == [status |-> "none", attempt |-> 0, of |-> 0]
LocalState  == {"none", "execute", "success", "failed", "flowSuccess", "flowFailed", "retry", "over"}
FlowReq     == [pc : {"idle", "read", "check", "create", "mark", "engine", "write", "finish"},
                id : 0 .. FlowRuns, of : 0 .. FlowRuns]
NoFlowReq   == [pc |-> "idle", id |-> 0, of |-> 0]

DataflowRunsTypeOK ==
  /\ flowStatus \in FlowState /\ flowRow \in [FlowIds -> FlowRow]
  /\ local \in [FlowIds -> LocalState] /\ flowReq \in [FlowUsers -> FlowReq]
  /\ flowTimers \in SUBSET FlowIds /\ stopped \in SUBSET FlowIds

DataflowRunsInit ==
  /\ flowStatus = "idle" /\ flowRow = [i \in FlowIds |-> NoRun]
  /\ local = [i \in FlowIds |-> "none"] /\ flowReq = [u \in FlowUsers |-> NoFlowReq]
  /\ flowTimers = {} /\ stopped = {}

-----------------------------------------------------------------------------

RunningRows == {i \in FlowIds : flowRow[i].status = "running"}
FreeRows    == {i \in FlowIds : flowRow[i].status = "none"}
FlowGoes(u, q)  == flowReq' = [flowReq EXCEPT ![u] = q]
Least(S)    == {i \in S : \A j \in S : i <= j}
Greatest(S) == {i \in S : \A j \in S : j <= i}

\* start, by a user or by cron (of = 0) or by a timer; a timer's callback asks the same two
\* questions as start before it calls start.  Bound: a row is left for it.
FlowStart(u, of) ==
  /\ driver = "mysql" /\ flowReq[u].pc = "idle"
  /\ Cardinality({v \in FlowUsers : flowReq[v].pc \in {"read", "check", "create"}})
       < Cardinality(FreeRows)
  /\ of = 0 \/ of \in flowTimers
  /\ flowTimers' = flowTimers \ {of}
  /\ FlowGoes(u, [pc |-> "read", id |-> 0, of |-> of])
  /\ UNCHANGED <<flowStatus, flowRow, local, stopped>>

\* The canvas does not run, and (next query) no instance of it does.
FlowRead(u) ==
  /\ flowReq[u].pc = "read"
  /\ FlowGoes(u, IF flowStatus = "running" THEN NoFlowReq ELSE [flowReq[u] EXCEPT !.pc = "check"])
  /\ UNCHANGED <<flowStatus, flowRow, local, flowTimers, stopped>>

FlowCheck(u) ==
  /\ flowReq[u].pc = "check"
  /\ FlowGoes(u, IF RunningRows # {} THEN NoFlowReq ELSE [flowReq[u] EXCEPT !.pc = "create"])
  /\ UNCHANGED <<flowStatus, flowRow, local, flowTimers, stopped>>

FlowCreate(u) ==
  /\ flowReq[u].pc = "create"
  /\ \E i \in Least(FreeRows) :
       LET of == flowReq[u].of
       IN /\ flowRow' = [flowRow EXCEPT ![i] =
                [status |-> "running", of |-> of,
                 attempt |-> IF of = 0 THEN 0 ELSE flowRow[of].attempt + 1]]
          /\ FlowGoes(u, [flowReq[u] EXCEPT !.pc = "mark", !.id = i])
  /\ UNCHANGED <<flowStatus, local, flowTimers, stopped>>

\* lastStatus = running; runLocal is begun and not waited for.
FlowMark(u) ==
  /\ flowReq[u].pc = "mark"
  /\ flowStatus' = "running" /\ local' = [local EXCEPT ![flowReq[u].id] = "execute"]
  /\ FlowGoes(u, NoFlowReq)
  /\ UNCHANGED <<flowRow, flowTimers, stopped>>

\* stop: the latest running row; the engine answers 40401, or the call fails.
FlowStop(u) ==
  /\ flowReq[u].pc = "idle"
  /\ \E i \in Greatest(RunningRows) :
       FlowGoes(u, [NoFlowReq EXCEPT !.pc = "engine", !.id = i]) /\ stopped' = stopped \cup {i}
  /\ UNCHANGED <<flowStatus, flowRow, local, flowTimers>>

FlowStopAnswered(u) ==
  /\ flowReq[u].pc = "engine"
  /\ FlowGoes(u, [flowReq[u] EXCEPT !.pc = "write"]) \/ FlowGoes(u, NoFlowReq)
  /\ UNCHANGED <<flowStatus, flowRow, local, flowTimers, stopped>>

FlowStopWrite(u) ==
  /\ flowReq[u].pc = "write"
  /\ flowRow' = [flowRow EXCEPT ![flowReq[u].id].status = "stopped"]
  /\ FlowGoes(u, [flowReq[u] EXCEPT !.pc = "finish"])
  /\ UNCHANGED <<flowStatus, local, flowTimers, stopped>>

FlowStopFinish(u) ==
  /\ flowReq[u].pc = "finish" /\ flowStatus' = "stopped" /\ FlowGoes(u, NoFlowReq)
  /\ UNCHANGED <<flowRow, local, flowTimers, stopped>>

\* executePipeline ends, well or not; nothing can end it before.
LocalEnds(i, s) ==
  /\ local[i] = "execute" /\ local' = [local EXCEPT ![i] = s]
  /\ UNCHANGED <<flowStatus, flowRow, flowReq, flowTimers, stopped>>

\* The instance row gets the outcome, whatever it says.
LocalRow(i) ==
  /\ local[i] \in FlowEnd
  /\ flowRow' = [flowRow EXCEPT ![i].status = local[i]]
  /\ local' = [local EXCEPT ![i] = IF @ = "success" THEN "flowSuccess" ELSE "flowFailed"]
  /\ UNCHANGED <<flowStatus, flowReq, flowTimers, stopped>>

\* Faulty variant: only the instance row is written after a failure.
LocalFlow_SuccessOnly(i) ==
  /\ local[i] \in {"flowSuccess", "flowFailed"}
  /\ flowStatus' = IF local[i] = "flowSuccess" THEN "success" ELSE flowStatus
  /\ local' = [local EXCEPT ![i] = IF @ = "flowSuccess" THEN "over" ELSE "retry"]
  /\ UNCHANGED <<flowRow, flowReq, flowTimers, stopped>>

LocalFlow(i) ==
  /\ local[i] \in {"flowSuccess", "flowFailed"}
  /\ flowStatus' = IF local[i] = "flowSuccess" THEN "success" ELSE "failed"
  /\ local' = [local EXCEPT ![i] = IF @ = "flowSuccess" THEN "over" ELSE "retry"]
  /\ UNCHANGED <<flowRow, flowReq, flowTimers, stopped>>

\* After a failure scheduleRetry, with the row read again.
LocalRetry(i) ==
  /\ local[i] = "retry" /\ local' = [local EXCEPT ![i] = "over"]
  /\ flowTimers' = IF flowRow[i].attempt < FlowRetries THEN flowTimers \cup {i} ELSE flowTimers
  /\ UNCHANGED <<flowStatus, flowRow, flowReq, stopped>>

DataflowRunsNext ==
  \/ \E u \in FlowUsers :
       \/ \E of \in 0 .. FlowRuns : FlowStart(u, of)
       \/ FlowRead(u) \/ FlowCheck(u) \/ FlowCreate(u) \/ FlowMark(u)
       \/ FlowStop(u) \/ FlowStopAnswered(u) \/ FlowStopWrite(u) \/ FlowStopFinish(u)
  \/ \E i \in FlowIds :
       (\E s \in FlowEnd : LocalEnds(i, s)) \/ LocalRow(i) \/ LocalFlow(i) \/ LocalRetry(i)

DataflowRunsSpec ==
  StorageTypeOK /\ DataflowRunsInit /\ [][DataflowRunsNext /\ UNCHANGED driver]_<<driver, flowVars>>

-----------------------------------------------------------------------------

\* Once nothing is under way, nothing says running: neither the canvas nor an instance of
\* it, whatever starts, stops, ends and retries overlapped (runLocalPipeline, both branches).
FlowLeftFree ==
  /\ \A u \in FlowUsers : flowReq[u].pc = "idle"
  /\ \A i \in FlowIds : local[i] \in {"none", "over"}
  => flowStatus # "running" /\ RunningRows = {}

\* A retry continues one local run that has failed, with the next attempt, at most
\* retryCount of them, and no failure is retried twice (scheduleRetry).
FlowRetryChain ==
  \A i \in FlowIds : flowRow[i].of # 0 =>
    LET of == flowRow[i].of
    IN /\ local[of] = "over" /\ of < i
       /\ flowRow[i].attempt = flowRow[of].attempt + 1 /\ flowRow[i].attempt <= FlowRetries
       /\ \A j \in FlowIds \ {i} : flowRow[j].of # of

\* A canvas that runs in the backend is handled as one that runs in the engine: it is free
\* when it is over, and its failures are retried once each (runLocal).
FlowRunsSound == FlowLeftFree /\ FlowRetryChain

-----------------------------------------------------------------------------

(* What comments say and the code does not do: TLC refutes each.                  *)

\* run.service.js, stop: the engine does not know the instance, so it has stopped.
StoppedIsOver == \A i \in FlowIds : flowRow[i].status = "stopped" => local[i] # "execute"

\* run.service.js, stop: stop marks the instance stopped, and nobody asked for another run.
StoppedNotRetried == \A i \in FlowIds : flowRow[i].of \notin stopped
=============================================================================
