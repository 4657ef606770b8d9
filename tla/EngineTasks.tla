---------------------------- MODULE EngineTasks -----------------------------
(***************************************************************************)
(* The task service of the sync engine (databridge-engine/internal/        *)
(* service): concurrent Start and Stop handlers, one runner goroutine per  *)
(* accepted instance, the registry of cancel handles, the in-memory        *)
(* snapshots, history eviction, and process shutdown.                      *)
(*                                                                         *)
(* How a runner reads and writes rows is left to KeysetSync; here a runner *)
(* is the control all sync modes share: it publishes any number of times,  *)
(* then ends in one status.                                                *)
(***************************************************************************)
EXTENDS Naturals, FiniteSets

CONSTANTS Ids,         \* instance ids clients send
          Handles,     \* runHandle objects; each accepted Start takes a new one
          Callers,     \* Stop requests
          NoHandle, NoId,
          MaxHistory,  \* Options.MaxHistory
          Reuse        \* may a client send an id again after its eviction?

ASSUME EngineAssumption ==
  /\ MaxHistory \in Nat \ {0}
  /\ Reuse \in BOOLEAN
  /\ NoHandle \notin Handles
  /\ NoId \notin Ids

VARIABLES
  runs,        \* taskService.runs: instance id -> registered handle
  snap,        \* repository: status of the stored snapshot of an id
  finishedAt,  \* repository: its finish time
  clock,       \* the latest finish time handed out (only the order matters)
  run,         \* per handle: the runHandle, its goroutine and its MockTask
  call,        \* per Stop request: where it is, what it found, its answer
  down,        \* the process is shutting down
  used,        \* ids accepted so far (the clients' memory)
  announced    \* per id, the last report handed to the network

vars == <<runs, snap, finishedAt, clock, run, call, down, used, announced>>

Terminal == {"success", "failed", "stopped"}

(* pc        where the goroutine is; "reserved" is still inside Start          *)
(* task      the instance served                                               *)
(* cancel    runHandle.cancel: nil, set, or called                             *)
(* done      runHandle.done is closed                                          *)
(* status    MockTask.Status as the goroutine knows it                         *)
(* cut       an operation of the run was interrupted by its cancellation       *)
(* detached  the terminal report has a context of its own                      *)
(* aborted   the terminal report was cancelled together with the task context  *)
(* victims   ids prune still has to visit; removing, the one it is to remove   *)
Run == [pc       : {"unused", "reserved", "init", "loop", "publishing", "reporting",
                    "listing", "pruning", "released", "exited"},
        task     : Ids \cup {NoId},
        cancel   : {"unset", "armed", "cancelled"},
        done     : BOOLEAN,
        status   : {"running"} \cup Terminal,
        cut      : BOOLEAN,
        detached : BOOLEAN,
        aborted  : BOOLEAN,
        victims  : SUBSET Ids,
        removing : Ids \cup {NoId}]

Call == [pc     : {"idle", "missing", "found", "waiting", "returned"},
         id     : Ids \cup {NoId},
         handle : Handles \cup {NoHandle},
         answer : {"none", "settled", "timedout", "alreadyOver", "notFound", "panic"}]

FreshRun == [pc |-> "unused", task |-> NoId, cancel |-> "unset", done |-> FALSE,
             status |-> "running", cut |-> FALSE, detached |-> FALSE, aborted |-> FALSE,
             victims |-> {}, removing |-> NoId]
FreshCall == [pc |-> "idle", id |-> NoId, handle |-> NoHandle, answer |-> "none"]

TypeOK ==
  /\ runs \in [Ids -> Handles \cup {NoHandle}]
  /\ snap \in [Ids -> {"absent", "running"} \cup Terminal]
  /\ finishedAt \in [Ids -> Nat]
  /\ clock \in Nat
  /\ run \in [Handles -> Run]
  /\ call \in [Callers -> Call]
  /\ down \in BOOLEAN
  /\ used \in SUBSET Ids
  /\ announced \in [Ids -> {"nothing", "running"} \cup Terminal]

\* What lives in the process's memory, as a fresh process has it.
FreshMemory(rs, sn, fin, cl, ru, ca) ==
  /\ rs = [i \in Ids |-> NoHandle]
  /\ sn = [i \in Ids |-> "absent"]
  /\ fin = [i \in Ids |-> 0] /\ cl = 0
  /\ ru = [h \in Handles |-> FreshRun]
  /\ ca = [c \in Callers |-> FreshCall]

Init ==
  /\ FreshMemory(runs, snap, finishedAt, clock, run, call)
  /\ down = FALSE
  /\ used = {}
  /\ announced = [i \in Ids |-> "nothing"]

-----------------------------------------------------------------------------
(* Start *)

\* Faulty variant: the snapshot is stored before its status is set.
Reserve_NoStatus(h, i) ==
  /\ ~down /\ run[h].pc = "unused" /\ (Reuse \/ i \notin used)
  /\ runs[i] = NoHandle /\ snap[i] = "absent"
  /\ snap' = [snap EXCEPT ![i] = ""]
  /\ runs' = [runs EXCEPT ![i] = h]
  /\ run' = [run EXCEPT ![h].pc = "reserved", ![h].task = i]
  /\ used' = used \cup {i}
  /\ UNCHANGED <<finishedAt, clock, call, down, announced>>

\* Faulty variant: an instance the engine has a snapshot of is not refused.
Reserve_NoSnapshotCheck(h, i) ==
  /\ ~down /\ run[h].pc = "unused" /\ (Reuse \/ i \notin used)
  /\ runs[i] = NoHandle
  /\ snap' = [snap EXCEPT ![i] = "running"]
  /\ runs' = [runs EXCEPT ![i] = h]
  /\ run' = [run EXCEPT ![h].pc = "reserved", ![h].task = i]
  /\ used' = used \cup {i}
  /\ UNCHANGED <<finishedAt, clock, call, down, announced>>

\* Faulty variant: no duplicate check at all.
Reserve_NoCheck(h, i) ==
  /\ ~down /\ run[h].pc = "unused" /\ (Reuse \/ i \notin used)
  /\ snap' = [snap EXCEPT ![i] = "running"]
  /\ runs' = [runs EXCEPT ![i] = h]
  /\ run' = [run EXCEPT ![h].pc = "reserved", ![h].task = i]
  /\ used' = used \cup {i}
  /\ UNCHANGED <<finishedAt, clock, call, down, announced>>

\* Start up to and including reserve: under s.mu, an id that is registered or has a
\* snapshot is refused (409); otherwise its first snapshot is stored and the handle
\* registered.  The handle's cancel function is not set yet.
Reserve(h, i) ==
  /\ ~down
  /\ run[h].pc = "unused"
  /\ Reuse \/ i \notin used
  /\ runs[i] = NoHandle
  /\ snap[i] = "absent"
  /\ snap' = [snap EXCEPT ![i] = "running"]
  /\ runs' = [runs EXCEPT ![i] = h]
  /\ run' = [run EXCEPT ![h].pc = "reserved", ![h].task = i]
  /\ used' = used \cup {i}
  /\ UNCHANGED <<finishedAt, clock, call, down, announced>>

\* The rest of Start, outside the lock: context.WithCancel, then go run / go runReal.
Arm(h) ==
  /\ run[h].pc = "reserved"
  /\ run' = [run EXCEPT ![h].pc = "init", ![h].cancel = "armed"]
  /\ UNCHANGED <<runs, snap, finishedAt, clock, call, down, used, announced>>

-----------------------------------------------------------------------------
(* The runner goroutine *)

\* publish, first half: store the running snapshot.
PublishSave(h) ==
  /\ run[h].pc \in {"init", "loop"}
  /\ snap' = [snap EXCEPT ![run[h].task] = "running"]
  /\ run' = [run EXCEPT ![h].pc = "publishing"]
  /\ UNCHANGED <<runs, finishedAt, clock, call, down, used, announced>>

\* publish, second half: the report goes out unless it is lost or the task context is
\* cancelled; the runner goes on in every case.
PublishReport(h) ==
  /\ run[h].pc = "publishing"
  /\ \/ /\ run[h].cancel # "cancelled"
        /\ announced' = [announced EXCEPT ![run[h].task] = "running"]
     \/ UNCHANGED announced
  /\ run' = [run EXCEPT ![h].pc = "loop"]
  /\ UNCHANGED <<runs, snap, finishedAt, clock, call, down, used>>

\* Faulty variant: the handle is deregistered as soon as the status is terminal.
Finish_Deregister(h, s, interrupted) ==
  /\ run' = [run EXCEPT ![h].pc = "reporting", ![h].status = s, ![h].cut = interrupted,
                        ![h].detached = (run[h].cancel = "cancelled")]
  /\ runs' = [runs EXCEPT ![run[h].task] = NoHandle]
  /\ snap' = [snap EXCEPT ![run[h].task] = s]
  /\ clock' \in {clock, clock + 1}
  /\ finishedAt' = [finishedAt EXCEPT ![run[h].task] = clock']
  /\ UNCHANGED <<call, down, used, announced>>

\* finish up to repo.Save: status and finish time are set, the report context is
\* detached only if the task context is cancelled by now, the snapshot is stored.
Finish(h, s, interrupted) ==
  /\ run' = [run EXCEPT ![h].pc = "reporting",
                        ![h].status = s,
                        ![h].cut = interrupted,
                        ![h].detached = (run[h].cancel = "cancelled")]
  /\ snap' = [snap EXCEPT ![run[h].task] = s]
  /\ clock' \in {clock, clock + 1}
  /\ finishedAt' = [finishedAt EXCEPT ![run[h].task] = clock']
  /\ UNCHANGED <<runs, call, down, used, announced>>

\* All rows are copied, or the set-up, a read or a write fails by itself.
Conclude(h, s) ==
  /\ \/ run[h].pc = "init" /\ s = "failed"
     \/ run[h].pc = "loop" /\ s \in {"success", "failed"}
  /\ Finish(h, s, FALSE)

\* A cancelled context interrupts the batch loop: the run ends as stopped.
InterruptLoop(h) ==
  /\ run[h].pc = "loop" /\ run[h].cancel = "cancelled"
  /\ Finish(h, "stopped", TRUE)

\* A cancelled context interrupts connecting, reading metadata, COUNT or
\* EnsureWritable: these errors are not classified, the run ends as failed.
InterruptInit(h) ==
  /\ run[h].pc = "init" /\ run[h].cancel = "cancelled"
  /\ Finish(h, "failed", TRUE)

\* Faulty variant: the done channel is closed right after the report.
ReportFinal_Done(h) ==
  /\ run[h].pc = "reporting"
  /\ announced' = [announced EXCEPT ![run[h].task] = run[h].status]
  /\ run' = [run EXCEPT ![h].pc = "listing", ![h].done = TRUE]
  /\ UNCHANGED <<runs, snap, finishedAt, clock, call, down, used>>

\* Faulty variant: a cancelled run is reported as stopped, however it ended.
ReportFinal_Cancelled(h) ==
  /\ run[h].pc = "reporting"
  /\ announced' = [announced EXCEPT ![run[h].task] =
                     IF run[h].cancel = "cancelled" THEN "stopped" ELSE run[h].status]
  /\ run' = [run EXCEPT ![h].pc = "listing"]
  /\ UNCHANGED <<runs, snap, finishedAt, clock, call, down, used>>

\* The terminal report: sent, lost, or aborted together with the task context.
ReportFinal(h) ==
  LET tied == ~run[h].detached /\ run[h].cancel = "cancelled" IN
  /\ run[h].pc = "reporting"
  /\ \/ ~tied /\ announced' = [announced EXCEPT ![run[h].task] = run[h].status]
     \/ UNCHANGED announced
  /\ run' = [run EXCEPT ![h].pc = "listing", ![h].aborted = tied]
  /\ UNCHANGED <<runs, snap, finishedAt, clock, call, down, used>>

TerminalIds == {i \in Ids : snap[i] \in Terminal}

\* What prune may pick: as many terminal snapshots as exceed MaxHistory, none finished
\* later than one it keeps (the sort is not stable: ties go either way).
Excess ==
  {V \in SUBSET TerminalIds :
     /\ Cardinality(V) + MaxHistory = Cardinality(TerminalIds)
     /\ \A v \in V, k \in TerminalIds \ V : finishedAt[v] <= finishedAt[k]}

\* prune, the listing.
PruneList(h) ==
  /\ run[h].pc = "listing"
  /\ \E V \in IF Cardinality(TerminalIds) <= MaxHistory THEN {{}} ELSE Excess :
       run' = [run EXCEPT ![h].pc = "pruning", ![h].victims = V]
  /\ UNCHANGED <<runs, snap, finishedAt, clock, call, down, used, announced>>

\* Faulty variant: the registry is not consulted.
PruneCheck_Unchecked(h, v) ==
  /\ run[h].pc = "pruning" /\ run[h].removing = NoId /\ v \in run[h].victims
  /\ run' = [run EXCEPT ![h].victims = @ \ {v}, ![h].removing = v]
  /\ UNCHANGED <<runs, snap, finishedAt, clock, call, down, used, announced>>

\* prune, one excess id: under s.mu, skip it if it is registered.
PruneCheck(h, v) ==
  /\ run[h].pc = "pruning" /\ run[h].removing = NoId /\ v \in run[h].victims
  /\ run' = [run EXCEPT ![h].victims = @ \ {v},
                        ![h].removing = IF runs[v] = NoHandle THEN v ELSE NoId]
  /\ UNCHANGED <<runs, snap, finishedAt, clock, call, down, used, announced>>

\* prune, after the lock is released: repo.Remove.
PruneRemove(h) ==
  /\ run[h].pc = "pruning" /\ run[h].removing # NoId
  /\ snap' = [snap EXCEPT ![run[h].removing] = "absent"]
  /\ run' = [run EXCEPT ![h].removing = NoId]
  /\ UNCHANGED <<runs, finishedAt, clock, call, down, used, announced>>

\* releaseHandle: deregister the instance if this handle is the registered one.
Release(h) ==
  /\ run[h].pc = "pruning" /\ run[h].victims = {} /\ run[h].removing = NoId
  /\ runs' = [runs EXCEPT ![run[h].task] = IF @ = h THEN NoHandle ELSE @]
  /\ run' = [run EXCEPT ![h].pc = "released"]
  /\ UNCHANGED <<snap, finishedAt, clock, call, down, used, announced>>

\* Faulty variant: the goroutine returns without closing done.
MarkDone_Forgotten(h) ==
  /\ run[h].pc = "released"
  /\ run' = [run EXCEPT ![h].pc = "exited"]
  /\ UNCHANGED <<runs, snap, finishedAt, clock, call, down, used, announced>>

\* markDone, deferred first and so run last.
MarkDone(h) ==
  /\ run[h].pc = "released"
  /\ run' = [run EXCEPT ![h].pc = "exited", ![h].done = TRUE]
  /\ UNCHANGED <<runs, snap, finishedAt, clock, call, down, used, announced>>

-----------------------------------------------------------------------------
(* Stop *)

\* Look the handle up under s.mu.
StopLookup(c, i) ==
  /\ ~down
  /\ call[c].pc = "idle"
  /\ call' = [call EXCEPT ![c].pc = IF runs[i] = NoHandle THEN "missing" ELSE "found",
                          ![c].id = i, ![c].handle = runs[i]]
  /\ UNCHANGED <<runs, snap, finishedAt, clock, run, down, used, announced>>

\* No handle: 404 without a snapshot, otherwise "already terminal", nothing changed.
StopMissing(c) ==
  /\ call[c].pc = "missing"
  /\ call' = [call EXCEPT ![c].pc = "returned",
                          ![c].answer = IF snap[call[c].id] = "absent"
                                        THEN "notFound" ELSE "alreadyOver"]
  /\ UNCHANGED <<runs, snap, finishedAt, clock, run, down, used, announced>>

\* handle.cancel(); calling the nil function panics, and the request ends in a 500.
StopCancel(c) ==
  LET h == call[c].handle IN
  /\ call[c].pc = "found"
  /\ IF run[h].cancel = "unset"
     THEN /\ call' = [call EXCEPT ![c].pc = "returned", ![c].answer = "panic"]
          /\ UNCHANGED run
     ELSE /\ call' = [call EXCEPT ![c].pc = "waiting"]
          /\ run' = [run EXCEPT ![h].cancel = "cancelled"]
  /\ UNCHANGED <<runs, snap, finishedAt, clock, down, used, announced>>

\* Wait for the goroutine; a timer bounds the wait, and the answer is stopped=true
\* either way.
StopReturn(c) ==
  /\ call[c].pc = "waiting"
  /\ \/ /\ run[call[c].handle].done
        /\ call' = [call EXCEPT ![c].pc = "returned", ![c].answer = "settled"]
     \/ call' = [call EXCEPT ![c].pc = "returned", ![c].answer = "timedout"]
  /\ UNCHANGED <<runs, snap, finishedAt, clock, run, down, used, announced>>

-----------------------------------------------------------------------------
(* Process *)

\* A termination signal: the HTTP server lets the requests in flight finish, then
\* Shutdown cancels every registered handle (whose cancel is set by then).
Shutdown ==
  /\ ~down
  /\ \A h \in Handles : run[h].pc # "reserved"
  /\ \A c \in Callers : call[c].pc \in {"idle", "returned"}
  /\ down' = TRUE
  /\ run' = [h \in Handles |-> IF \E i \in Ids : runs[i] = h
                               THEN [run[h] EXCEPT !.cancel = "cancelled"] ELSE run[h]]
  /\ UNCHANGED <<runs, snap, finishedAt, clock, call, used, announced>>

\* The process ends (after Shutdown without waiting for goroutines, or by a crash)
\* and is started again: everything it kept in memory is gone.
Exit ==
  /\ FreshMemory(runs', snap', finishedAt', clock', run', call')
  /\ down' = FALSE
  /\ UNCHANGED <<used, announced>>

-----------------------------------------------------------------------------
RunnerStep(h) ==
  \/ PublishSave(h) \/ PublishReport(h)
  \/ \E s \in Terminal : Conclude(h, s)
  \/ InterruptLoop(h) \/ InterruptInit(h)
  \/ ReportFinal(h) \/ PruneList(h) \/ \E v \in Ids : PruneCheck(h, v)
  \/ PruneRemove(h) \/ Release(h) \/ MarkDone(h)

StopStep(c) == StopMissing(c) \/ StopCancel(c) \/ StopReturn(c)

Next ==
  \/ \E h \in Handles : Arm(h) \/ RunnerStep(h) \/ \E i \in Ids : Reserve(h, i)
  \/ \E c \in Callers : StopStep(c) \/ \E i \in Ids : StopLookup(c, i)
  \/ Shutdown \/ Exit

Spec == Init /\ [][Next]_vars

\* Goroutines and handlers are scheduled; reads, writes and reports return, each has a
\* timeout or a cancelled context.  The mock runner's select picks at random between
\* its ticker and a cancelled context, so the interruption is only strongly fair.
Fairness ==
  /\ \A h \in Handles : WF_vars(Arm(h)) /\ WF_vars(RunnerStep(h)) /\ SF_vars(InterruptLoop(h))
  /\ \A c \in Callers : WF_vars(StopStep(c))

FairSpec == Spec /\ Fairness

-----------------------------------------------------------------------------
(* Properties *)

\* Handles from reserve to releaseHandle.
Live(h) == run[h].pc \notin {"unused", "released", "exited"}

\* The registry is exact: an id is registered to a handle just when that handle's
\* runner is between reserve and releaseHandle.  So however Starts, Stops and evictions
\* interleave, two goroutines never work on one instance.
RegistryExact ==
  \A i \in Ids, h \in Handles : runs[i] = h <=> Live(h) /\ run[h].task = i

\* Eviction runs unlocked between its listing, its check and its removal; still the
\* snapshot of a registered instance is never removed (an id is not sent again).
PruneSparesRunning ==
  \A i \in Ids : runs[i] # NoHandle => snap[i] # "absent"

\* "stopped: true" obtained from the done channel means that the run is over: its
\* snapshot is terminal or evicted, for good, and its handle deregistered.
StopSettles ==
  \A c \in Callers : call[c].answer = "settled" =>
    runs[call[c].id] = NoHandle /\ snap[call[c].id] # "running"

\* A terminal snapshot changes only by disappearing: no late publish of the same
\* instance, no second runner and no Stop rewrites how a run ended.
TerminalIsFinal ==
  [][\A i \in Ids : snap[i] \in Terminal => snap'[i] \in {snap[i], "absent"}]_vars

\* The reports of an instance are never reordered by the engine: after the terminal one
\* there is no other, and it tells the status of the snapshot as long as that is kept.
ReportsEndOnce ==
  [][\A i \in Ids : announced[i] \in Terminal =>
       /\ announced'[i] = announced[i]
       /\ snap[i] \in {announced[i], "absent"}]_vars

\* A cancelled run ends: whatever it is doing when Stop or Shutdown calls cancel, its
\* goroutine exits (or the process does).
CancelledRunExits ==
  \A h \in Handles : run[h].cancel = "cancelled" ~> (run[h].done \/ run[h].pc = "unused")

\* The service implements the contract the backend is written against.
Contract == INSTANCE EngineContract WITH
  state <- [i \in Ids |-> IF snap[i] = "absent" /\ i \in used THEN "forgotten" ELSE snap[i]]
ImplementsContract == Contract!Spec

-----------------------------------------------------------------------------
(* Why it works, for clients that do not send an id again (~Reuse): each conjunct   *)
(* is kept by every step as long as all of them hold.                               *)

\* An id is served once, and whatever is stored or reported belongs to a known id.
OneRunEach ==
  \A g, h \in Handles :
    run[g].pc # "unused" /\ run[h].pc # "unused" /\ run[g].task = run[h].task => g = h
RunsAreUsed == \A h \in Handles : run[h].pc # "unused" => run[h].task \in used
TracesAreUsed ==
  \A i \in Ids : snap[i] # "absent" \/ announced[i] # "nothing" => i \in used

\* The snapshot says "running" just as long as the runner is still working.
Working == {"reserved", "init", "loop", "publishing"}
WorkingIsRunning ==
  \A h \in Handles : run[h].pc \in Working =>
    snap[run[h].task] = "running" /\ announced[run[h].task] \notin Terminal
RunningIsWorking ==
  \A i \in Ids : snap[i] = "running" =>
    \E h \in Handles : run[h].pc \in Working /\ run[h].task = i

\* Between finish and its report the snapshot carries the runner's final status.
ReportingIsOver ==
  \A h \in Handles : run[h].pc = "reporting" =>
    /\ run[h].status \in Terminal /\ snap[run[h].task] = run[h].status
    /\ announced[run[h].task] \notin Terminal
AnnouncedIsOver ==
  \A i \in Ids : announced[i] \in Terminal => snap[i] \in {announced[i], "absent"}

\* What prune holds in its hands stays unregistered, for good.
PruneIsSafe ==
  \A h \in Handles :
    /\ run[h].victims \subseteq used
    /\ run[h].removing # NoId => run[h].removing \in used /\ runs[run[h].removing] = NoHandle

\* A Stop waits for the runner of the id it was asked to stop.
StopKnowsRun ==
  \A c \in Callers :
    /\ call[c].answer # "none" => call[c].pc = "returned"
    /\ call[c].pc \in {"found", "waiting"} \/ call[c].answer = "settled" =>
         /\ call[c].handle \in Handles
         /\ run[call[c].handle].pc # "unused" /\ run[call[c].handle].task = call[c].id
SettledIsDone ==
  /\ \A c \in Callers : call[c].answer = "settled" => run[call[c].handle].done
  /\ \A h \in Handles : run[h].done => run[h].pc = "exited"

ServedOnce ==
  /\ RegistryExact /\ PruneSparesRunning
  /\ OneRunEach /\ RunsAreUsed /\ TracesAreUsed
  /\ WorkingIsRunning /\ RunningIsWorking /\ ReportingIsOver /\ AnnouncedIsOver
  /\ PruneIsSafe /\ StopKnowsRun /\ SettledIsDone

-----------------------------------------------------------------------------
(* What comments and documents say and the code does not do: TLC refutes each.     *)

\* task_service.go:47, config/prod.yml: max_history bounds the terminal snapshots kept
\* in memory.  Checked when no goroutine is left that could still evict.
HistoryBounded ==
  (\A h \in Handles : run[h].pc \in {"unused", "exited"})
    => Cardinality(TerminalIds) <= MaxHistory

\* task_service.go:315: without a handle, Stop answers "stopped" for an instance that
\* is already terminal.
MissingHandleIsTerminal ==
  [][\A c \in Callers : call'[c].answer = "alreadyOver" /\ call[c].answer # "alreadyOver"
       => snap[call[c].id] \in Terminal]_vars

\* README.md:85: stop answers 400, 404 or success.
StopNeverPanics == \A c \in Callers : call[c].answer # "panic"

\* dbio.go:28, README.md:139: a run that its cancellation interrupts reports stopped,
\* not failed.
InterruptedIsStopped ==
  \A h \in Handles : run[h].cut => run[h].status = "stopped"

\* mock_runner.go:358: the terminal report has a context of its own, so that a stop
\* instruction cannot cancel it.
FinalReportIndependent == \A h \in Handles : ~run[h].aborted

=============================================================================
