# A verification project for sgDataLink

sgDataLink synchronises database tables. An admin backend (Node/Express,
`node-express-boilerplate/`) keeps records of tasks, canvases, pipelines, metrics and
their runs, a sync engine (Go, `databridge-engine/`) carries runs out and posts their
progress back, and a web front end (`vue-vben-admin/`) shows both. This directory
models the parts in which processes, handlers and goroutines interleave and in which
sequences of requests have to keep records consistent; it checks them with TLC on small
instances and proves central results with TLAPS for every size.

## 1. Inventory

| Component | State it keeps | Operations | Hard behaviours | What makes it correct |
|---|---|---|---|---|
| Engine task service (`task_service.go`, `mock_runner.go`, `mem_repo.go`) | registry of run handles, snapshots of instances, both in memory | Start, Stop, a runner goroutine per instance, prune, Shutdown | handlers against goroutines under a mutex that covers only part of each operation; restart loses everything | one goroutine per instance; an outcome is final; a stop that was answered is over; reports end once |
| Engine real mode (`real_runner.go`, `infra/dbio`) | cursor and counters of a run | full, incremental and cdc loops; batch transactions | crash, stop or error between commit and report; source written meanwhile; ties and NULLs | nothing is skipped; success means copied; a run ends |
| Engine reporter (`http_reporter.go`) | none | one POST per report, with a timeout | lost, late and abandoned reports | (a channel of the others) |
| Run orchestration (`run.service.js`, `engineReport.service.js`) | `lastStatus` of the record, rows of instances, retry timers | start, stop, report, retry | handlers interleave at each await; the engine's calls time out; either process crashes | one run per record; the row ends as the engine said; retries form a bounded chain; no record is stuck |
| Position store (`offset.repository.js`, `resolveOffsetStart`) | last reported position per run | upsert, latest of a task | reports handled late or out of order | never ahead of the target |
| Pipeline control (`pipeline.service.js`) | `status` and `runningInstanceId` of a pipeline | start, stop, edit, delete, report | a stop or a report of an old run after the start of a new one; whole-row updates; rollback | row and instance agree; what says running can be stopped; what says stopped has stopped |
| Dataflow engine and local runs (`dataflowEngine.service.js`, `dataflow.service.js`) | a canvas in execution, its `lastStatus` and rows | order the nodes, run, end, retry | runs nobody can interrupt, stopped all the same | each node once, along the edges; the record is free afterwards; bounded retries |
| Scheduler (`scheduler.service.js`) | last trigger per record, `scanning` flag | scan once a second | slow and failing scans, stale records, restart | the least distance between triggers; the flag is honest |
| Alerts (`alert.service.js`) | alert records, time of the last lag alert | fire, deduplicate, prune, mark as read | concurrent reports and prunes | one alert per window; the newest records, a bounded number |
| Data API gateway (`dataapi.service.js`, `dataApiRuntime.service.js`, `rateWindow.js`) | services, rate windows, call log and counters | publish, edit, serve a call | calls overlapping each other and edits; windows' edges | the limit holds; every call is counted; the log is bounded |
| Metric centre (`metric.service.js`, `metrictask.service.js`, `metricmodel*.js`, `metricdomain.service.js`) | definitions, edges, versions; task records and runs; domains, categories, models | save, roll back, delete; run; file and move | several queries per request; a run of minutes between two writes | no cycle; edges are definitions; a task is left free; a tree; filed where it belongs |
| Metric chat (`metricKnowledge.service.js`, `metricChat.service.js`) | the index of the metadata, sessions | ask, rebuild | slow builds, overlapping questions | the index never goes back |
| Accounts (`account.service.js`, `auth.js`) | users, documentation keys | log in, create, change, disable, delete | authorisation reads before the work | an administrator is left; a revoked key opens nothing |
| Records and data sources (`syncTask.service.js`, `datasource.service.js`) | tasks, canvases, data sources | create, edit, delete | checks of one record before the write of another | no task without its source; no named source deleted |
| Storage (`memoryStore.js`, `mysql/*.store.js`, `facade.js`) | rows | read, insert, read-modify-write update, delete | MySQL yields at every query, memory never | see the others |
| Web front end (`useMetricCodeCheck.ts`, `RunProgressDrawer.vue`) | cached verdicts; an interval | ask about what changed; poll | requests overlap and are answered in any order | verdicts are current; polling ends |
| Everything else | see PROJECT.json | SQL text, HTTP, forms, deployment | none of its own | not modelled |

How they interact:

    user / scheduler / retry timer
        |  start, stop                    (HTTP or a call)
        v
    run.service  --- start, stop --->  engine task service --- go ---> runner goroutine
    pipeline.service                                                      |
        ^  rows, lastStatus                                               | batches
        |                                                                 v
    engineReport.service  <------- POST report (one try, a timeout) ---- databases
        |  fireEvent
        v
    alert.service

A backend handler is sequential between two awaits; with the memory driver
awaiting a repository only passes the microtask queue, with MySQL it yields.
The engine waits for the answer to a report before the run goes on, unless the
wait times out or is cancelled. Neither side repeats a request or a report.

## 2. Modules

| Module | What it is | Code |
|---|---|---|
| `EngineContract` | what the engine promises for each instance id: accept once, report progress while it runs, settle, announce that outcome once, perhaps forget it | what `task_service.go`'s callers rely on |
| `EngineTasks` | the engine's task service in detail | `task_service.go`, `mock_runner.go`, set-up and end of `real_runner.go`, `mem_repo.go`, `app.go` |
| `RunOrchestration` | the backend's side of the runs of one record, composed with `EngineContract` | `run.service.js`, `engineReport.service.js`, the stores, `engineClient.js`, `http_reporter.go` |
| `PipelineControl` | the backend's side of one pipeline, composed with `EngineContract` | `pipeline.service.js`, `engineReport.service.js`, `pipeline.store.js` |
| `KeysetSync` | how a run moves rows and positions, run after run, source and backend included | `real_runner.go`, `dbio/{reader,writer,mysql,oracle}.go`, `offset.repository.js` |
| `Storage` | what the choice of the driver means for handlers: `TurnOf` | `facade.js` |
| `Accounts`, `Alerts`, `DataApiGateway`, `DataflowRuns`, `Scheduler` | one service each, over `Storage` | the files of the inventory |
| `Canvas`, `MetricChat`, `MetricGraph`, `MetricTaskRuns`, `ModelCatalog`, `References` | one service each, over `Storage` (`Canvas`: an algorithm, step by step) | the files of the inventory |
| `CodeCheck`, `ProgressDrawer` | two parts of the front end with their server | `useMetricCodeCheck.ts`, `BatchMetricModal.vue`, `checkCodes`; `RunProgressDrawer.vue`, `getProgress` |
| `MCEngineTasks`, `MCRunOrchestration`, `MCKeysetSync`, `MCPipelineControl` | symmetry for the instances of the .cfg files; `OutcomeNext` and `ResumeNext`, what `Next` comes to in `run_outcome` and `sync_incremental`, where the constants rule some actions out | |
| `MCTwoMirrors` | `PipelineControl` with a history of the stops that overtake the request of their start | |
| `MCMemoryRuns` | `RunOrchestration` with the memory driver, in two scenes with different bounds | |
| `MCSyncModes` | several instances of `KeysetSync` in one run, by `INSTANCE ... WITH` | |
| `MCServices`, `MCMetadata`, `MCFrontend` | several modules in one run; in each behaviour one of them moves (`focus`) | |
| `EngineTasks_proofs`, `KeysetSync_proofs`, `RunOrchestration_proofs`, `PipelineControl_proofs` | theorems about one module each | |
| `Services_proofs` (`Alerts`, `DataApiGateway`, `Scheduler`), `Records_proofs` (`Accounts`, `DataflowRuns`, `CodeCheck`), `Metadata_proofs` (`MetricGraph`, `MetricTaskRuns`, `ModelCatalog`, `References`, `MetricChat`, `Canvas`) | theorems about several modules each | |
| `Ranks` | lemmas about ranks in a finite order, for pages and prunes | |

`RunOrchestration` and `PipelineControl` instantiate `EngineContract`, and `EngineTasks`
is shown (by TLC and by proof) to implement it with

    state  <-  the snapshot's status, "forgotten" if a used id has no snapshot

so what is checked of the backend rests on a contract the engine keeps.

### EngineTasks

- `runs` is `taskService.runs`, `snap` and `finishedAt` the repository, `run[h]` a
  `runHandle` with its goroutine, `call[c]` a Stop request, `used` and `announced`
  what the outside remembers.
- A Start is `Reserve` (under the mutex) and `Arm` (outside it: `handle.cancel` is nil
  in between). A Stop is `StopLookup`, then `StopMissing` or `StopCancel` and
  `StopReturn`; each is one critical section or one channel operation of the code.
- The goroutine's `pc` goes from `init` (before the first publish) through `loop` and
  `publishing` to `Finish` (status, finish time, detached context, `Save`),
  `ReportFinal`, `PruneList`, `PruneCheck`/`PruneRemove` per excess id, `Release` and
  `MarkDone`. How many rows a step moves is left open: a run publishes any number of
  times and ends in any status its code can return there.
- `Shutdown` cancels every run and `Exit` ends the process, by exit or crash; memory is
  gone, what was sent out (`used`, `announced`) is not.
- `Reuse` lets a client send an id again; the backend never does (ids are fresh), so the
  full invariant is stated for `~Reuse`, the registry's exactness for both.

### RunOrchestration

- `inst` are the rows of `task_instance`, `lastStatus` the record's; `req[r]` is a
  handler of start (by user, cron or retry) or stop, `rep[m]` one of the report,
  together with the request in flight that caused it; `timers` are `pendingTimers`.
- One action per piece between two awaits: `StartRead`, `StartCheck`, `StartCreate`,
  `StartMark` (which also sends the request), `StartReplied` or `StartFails`, the two
  halves of the rollback's `Promise.all`; `StopFind`, `StopArrives` (at the engine),
  `StopReply`, `StopUpdate`, `StopWrite`, `StopFinish`; `ReportRead`, `ReportUpdate`,
  `ReportWrite`, `ReportSync`, `ReportReact`; `RetryFire`, `RetryCheck`.
- `Turn` is the difference between the drivers: with memory a handler that is between
  two repository calls is not overtaken; with MySQL any handler may go on.
- `updateRow` of the SQL store updates or, if the row is gone, inserts it again; that
  is why `StopWrite` and `ReportWrite` may revive a deleted row.
- Faults: a start or stop call that fails or times out (the request may still arrive), a
  stop that reaches the engine before the start call of its instance (`order`), a report
  lost or given up by the engine, the engine shut down or crashed, the backend crashed
  (MySQL only: the memory driver loses its rows with the process).

### PipelineControl

- `pipe` is the pipeline's row (`status`, `runningInstanceId`), `rows` the ids of its
  instances, `user[u]` a handler of `startPipeline`, `stopPipeline`,
  `updatePipelineById` or `deletePipelineById` with what it has read, `rep[m]` a report
  up to `applyEngineReport`. Start and stop look at the name in the row, never at the
  rows of instances: that is what makes the pair of the two delicate.
- `StartClaim`/`StartClaimSave` write `running` and the id, `RollbackStep` is any of the
  three writes of the rollback's `Promise.all`, and each `...Load`/`...Save` pair is
  `repository.update`, one piece with memory and two queries with MySQL.
- `raced` remembers a stop and a start that met, or a report the engine gave up: what the
  row says is claimed to be true in all other behaviours.

### KeysetSync

- `source` maps a key to a version and a position (the value of the incremental
  column; 0 is NULL), `target` to the version copied. Both count writes, so that a
  fresh write has a position above all others, unless the instance allows ties, NULLs
  or deletions (`Kinds`).
- `run` is a `realRunner` with its cursor (`after`, `offset`), the batch read and not
  yet written, and `current`, the position the next report carries. `reports` are the
  positions on their way, handled by the backend in any order, `persisted` the one a
  later run is resumed from.
- `FetchRows` is a query (`keysetSQL` or `pageSQL`), `WriteCommit`, `WriteConflict` and
  `WriteCut` the ends a transaction can have (a COMMIT that returns an error may have
  taken effect), `Advance` the rest of an iteration with its publish. `Prepare` clears
  the target for `overwrite`. `Cancel`, `ReadError` and `Crash` interrupt wherever the
  code can be interrupted.

### The services

All of them extend `Storage`: a request is a record with a program counter in a function
over a bounded set of requests (`Operators`, `Firings`, `Callers`, `Clerks`, `Savers`,
`Workers`, ...), each action is what happens between two awaits, and with the memory
driver `TurnOf` keeps other requests out while one waits for repositories only. A
Boolean history variable (`torn`, `loose`, `clash`, `raced`, `mixed`, `mingled`,
`overlapped`) remembers that two requests have met between a read and the write that
depends on it; properties the code gives up in that case name it as their exception, and
the stronger sentence of the comment stands beside them, refuted.

- `Accounts`: `Authorise` reads the operator's row (`auth.js`), `ReadTarget`,
  `GuardAdmins` (`countActiveAdmins`), `LoadAccount` and `SaveAccount` are the queries of
  a change; `login` compares the password between its read and its write (`Hashing`), and
  so waits with either driver.
- `Alerts`: `FireEvent` reads the rules, `MatchRules` asks `lagDuplicated` and notes the
  time in the same turn, `CreateRecord` writes one record per rule, `PruneCount`,
  `PruneFind` and `PruneDelete` are the queries of `pruneRecords`.
- `DataApiGateway`: `CallFind`, `CallCheck` (access, then the rate window),
  `CallAnswer`, `CallRecord`/`CallCount`, `CallLog`, `CallTally` and `CallTrim` are a call;
  `EditRead`, `EditLoad` and `EditSave` an edit, publication, withdrawal or deletion. With
  MySQL the row of the log is inserted (`CallLog`), counted by the process when the INSERT is
  answered (`CallTally`) and, every `PRUNE_EVERY` rows, followed by a DELETE (`CallTrim`); each
  may fail (`CallLogFails`), and `GatewayRestart` loses the calls, the limiter's bucket and the
  count, while the rows stay. The two statements `pruneCallDetails` falls back on, if the server
  rejects the single one, are not modelled.
- `DataflowRuns`: `run.service.start` for a canvas that runs in the backend, whose
  `LocalEnds`, `LocalRow`, `LocalFlow` and `LocalRetry` are the end of `runLocal`.
- `Scheduler`: `ScanBegins`, `ScanLists` (any set of records may be due), `ScanNext` and
  `ScanDecides` per record, `ScanMetrics`, `ScanEnds`, `ScanFails`; `StartOver` is the end
  of a start the scan did not wait for, `RunChanges` what happens to runs elsewhere.
- `Canvas`: `SaveCanvas` draws any canvas `normalize` accepts, `Walk` is one turn of the
  loop of `topoChain`, `Finish` its last check.
- `MetricGraph`: `BeginSave`/`Rollback`, `Validate` (with `Acyclic`, the walk of
  `assertNoCycle`, as a closure), `LoadMetric`/`SaveMetric` (`repository.update`),
  `ResolveEdges`, `ClearEdges` and `InsertEdges` (the DELETE and the INSERT of
  `rebuildForParent`), `Snapshot`; `BeginDelete`, `Unlink`, `MarkDeleted`. An atomic metric may
  name a base as well: `defineParams` is an open object, `updateMetric` keeps what a change of
  type does not give (`metric.service.js:491`), and `resolveEdges` makes the edge whatever the
  type (`:374`). That base may be the metric itself, which only a derived metric is refused
  (`:265`) and `assertNoCycle` does not see. `RequestFails` ends a request at any of its
  queries, by an error or a crash (MySQL); nothing is undone. `torn` are the metrics this has
  left between the writes of a request, `lost` the versions it has cost.
- `MetricTaskRuns`: `Run`, `RunLive`, `RunPlan`, `RunCreate`, `RunMark`, `RunExec`,
  `RunOutcome`, `RunEnd` are `runTask`, `TaskEdit` to `EditWrite` the edits and deletions.
- `ModelCatalog`: `CreateDomain`, `MoveDomain`, `DeleteDomain`, `CreateCategory`,
  `DeleteCategory` (which first takes its models out), `Assign`, `CreateModel` (which waits
  for the columns of the source), `UpdateModel`, `RefileModel`, `DeleteModel`.
- `References`: `SaveHolder`, `CheckSource`, `WriteHolder`; `DeleteSource`, `CountNamers`,
  `RemoveSource`; `EditSource`, `LoadSource`, `PutSource`.
- `MetricChat`: `BuildReads` one kind of metadata after the other, `Ask` joins a build
  under way, `Answer` pushes a turn.
- `CodeCheck`: `row` and `picked` are the table of the wizard, `lastBatch`, `asked` and
  `issue` the composable's variables, `call` the requests in flight, served by `checkCodes`
  and answered later. `Submit` creates any part of what the server can create; a request that
  fails, or whose answer is lost after that, is `SubmitFails`; `items` and `failedAt` are
  `lastItems` and the places of the refusals in `batchResult`, from which `Retry` is made up.
- `ProgressDrawer`: `interval` is the timer, `request` the loads; `Refresh` is the button,
  which is dead while it shows `loading`.

## 3. What the runs show

| Run | Instance | Result |
|---|---|---|
| `engine_safety` | 2 ids, 2 runners, 1 stop, `MaxHistory = 1`, shutdowns and crashes; 750,000 states | types; a registered instance keeps its snapshot (`PruneSparesRunning`); a stop answered by `done` is over (`StopSettles`); reports end once and truthfully (`ReportsEndOnce`); `EngineContract` is implemented |
| `engine_reuse` | one id sent again after every restart, 2 runners, 2 stops, fair; 56,000 states | two concurrent starts never put two goroutines on an instance (`RegistryExact`), no outcome is rewritten (`TerminalIsFinal`), every cancelled run exits (`CancelledRunExits`) |
| `run_memory` | memory driver, 2 requests; scene "plain": 3 instances, 2 report handlers, one retry, one fault; scene "stopped": 2 instances, stops, one fault of any kind; 1.1 million states | `RunsInLine`: one run of the record at a time while nothing fails (`AtMostOneRun`), and retries form a chain, one per failure, at most `retryCount` (`RetryChain`); once handlers are done a record that says `running` has a running row (`NeverStuck`) |
| `run_outcome` | MySQL, 3 instances, start failures and backend crashes, fair; 176,000 states | types; `RunHistory`: if nothing fails the row ends as the engine announced (`OutcomeKept`), and retries form a chain with this driver too (`RetryChain`); the row does end (`EventuallyOver`) |
| `pipeline_control` | memory driver, 2 mirrors, 2 users, 1 report handler, 1 fault, fair; 158,000 states | types; status and instance never contradict each other (`PairAgrees`); `RecordSound`: what says running can be stopped (`CanStop`), and in behaviours without a fault or race the record tells the truth (`RecordTruthful`); the end of a mirror reaches the record (`EndRecorded`) |
| `sync_incremental` | upsert, 3 keys, batches of 2, 4 writes, 2 runs, every kind of cut; 409,000 states | the persisted position never passes an uncopied row (`OffsetCovered`), success means copied (`SuccessMeansCopied`) |
| `sync_modes` | scenes: full overwrite with NULLs, deletions and every kind of cut; incremental with ties, NULLs, deletions and batches of one, fair; cdc with deletions, fair; 488,000 states | success of a full copy means that the target equals the source if nobody wrote meanwhile (`FullCopied`); a run over a source that is not written for ever ends (`RunEnds`); a pipeline captures every change after its start (`ChangesCaptured`) |
| `services` | both drivers; 2 requests of each kind, 1 restart or failed write of the log; 2.2 million states | see below |
| `metadata` | both drivers (the metric graph: MySQL); 2 requests, 3 metrics, domains and nodes, 1 request that ends midway; 693,000 states | see below |
| `frontend` | 2 rows and codes, one request at a time; 2 dataflows and 2 loads, fair; 621,000 states | see below |

`services`: an administrator who can log in is always left, through demotions, disabling
and deletions (`AdminRemains`, unless two changes overlapped), and with the memory driver
a revoked key opens nothing (`RevokedKeyDead`), together `AccountsGuarded`; lag alerts keep
their distance however reports overlap (`LagSpaced`), the table of alerts comes back to its
bound with either driver, and with the memory driver a prune takes none of the newest rows
(`AlertsPruned`: `AlertsBounded`, `PruneKeepsNewest`; with MySQL prunes that overlap may take
more than the oldest, and nothing is claimed of that); the
limiter lets at most twice its limit through in any stretch as long as a window, while the
process lives and the API stays on the air, and the log of calls is bounded
(`GatewayBounded`: `RateBounded`, and `LogBounded`: with MySQL `MAX_CALL_DETAILS`, the rows that
still wait for a DELETE of this process, and what restarts and failed writes have left to the
next DELETE), calls are counted once (`CallsCounted`); a
canvas that ran in the backend is free again and its retries form a chain (`FlowRunsSound`:
`FlowLeftFree`, `FlowRetryChain`); triggers keep their distance (`TriggersSpaced`) and the
scan flag is honest through failures and restarts (`FlagHonest`).

`metadata`: a canvas that is accepted is executed as it was drawn and a plain line is
accepted (`CanvasJudged`: `ChainIsCanvas`, `LineAccepted`); unless requests overlap, no sequence
of saves, rollbacks and deletions, finished or ended midway, makes a cycle through other
metrics (`GraphAcyclic`), leaves edges that do not fit the definitions, but for metrics whose
last request ended midway, or loses a version of a save that was carried out (`TablesAgree`:
`GraphAgrees`, `VersionsComplete`); a metric task is free
after its runs (`TaskLeftFree`); domains stay a tree and models where they belong
(`CatalogSound`: `DomainsTree`, `ModelsFiled`); no task is left without its data source and
none is taken away (`SourcesKept`: `TasksSourced`, `SourceHeld`); the index of the chat never
goes back (`IndexForward`).

`frontend`: verdicts about codes are current once the wizard is at rest (`VerdictsCurrent`,
which exempts batches in which a request failed or overlapped another; in this run there is one
request at a time, and the theorem is for any number), and the drawer stops polling once the
run is over (`PollingEnds`).

The type invariants of the components in these three runs (`TypesOK` of the MC modules,
the bound of a chat session included) hold on the same instances; name `TypesOK` in the
.cfg to check them.

Two runs end in a counterexample, each against a line of the repository:

- `engine_stop_failed`: a stop during connecting, reading metadata, COUNT or
  EnsureWritable ends the run as `failed`, since `runReal` does not classify these errors;
  `dbio.go:28` promises `stopped`. The backend then alerts and retries a run that the
  user has stopped.
- `pipeline_two_mirrors` (three instances): a mirror fails while a stop for it is on its
  way to the engine; its last report ends the record and somebody starts the pipeline
  again; the stop, answered by the engine, then clears `runningInstanceId` of the new
  mirror, and the next start gets through: two mirrors, although a second start is to be
  answered 40901. The memory driver does not prevent it, and nothing has failed but the
  first mirror. (A stop that reaches the engine before the request of the start it is to
  undo has a similar end: the engine answers 40401, the record says stopped, and the engine
  then accepts the first start beside the next one. `MCTwoMirrors` watches for it with
  `overtaken` and leaves it out, so that the trace is the one told here.)

The modules state further sentences of comments, messages or documents that TLC refutes;
name one in a .cfg to see its counterexample:

| Property | In | Instance | What happens |
|---|---|---|---|
| `HistoryBounded` | EngineTasks | EngineSafety.cfg | runs that end together spare each other's snapshots, and `max_history` is exceeded until another run ends |
| `MissingHandleIsTerminal` | EngineTasks | EngineSafety.cfg | an instance accepted between the two look-ups of Stop is answered "already over" while it runs |
| `StopNeverPanics` | EngineTasks | EngineSafety.cfg | a Stop between `Reserve` and `Arm` calls a nil `cancel` and is answered 500 |
| `FinalReportIndependent` | EngineTasks | EngineSafety.cfg | a Stop during the terminal report of a run that ended by itself aborts that report |
| `OneRunning` | RunOrchestration | RunOutcome.cfg, `Spec`, with two requests | the duplicate check and the insertion of the running row are separate queries; two starts both pass, against README.md:589 |
| `NotFoundIsOver` | RunOrchestration | RunOutcome.cfg, `Spec`, with stops and order faults | a stop that overtakes the start call gets 40401, is recorded as stopped, and the run starts |
| `StopSticks` | RunOrchestration | RunOutcome.cfg, `Spec`, with stops and report faults | a progress report given up by the engine, still between its queries, overwrites `stopped` with `running` |
| `OffsetCovered` | KeysetSync | `Mode = "cdc"`, `MaxRuns = 2`, stops | a pipeline started again has lost its position (`pipeline.service.js:167`, `:257`) and begins at the server's time; what was written in between is skipped, against `dbio.go:192` |
| `AdminAlways`, `NameUnique` | Accounts | Services.cfg | two administrators demote each other (MySQL); two creations of a name pass the check before either has hashed its password |
| `CountKept`, `KeyKept` | DataApiGateway | Services.cfg | an edit writes back the row it read before calls were counted, or before a key was given out (MySQL) |
| `LogRolls` | DataApiGateway | Services.cfg | the count of logged calls begins anew after a restart, and more than `PRUNE_EVERY` rows are added without a DELETE (MySQL) |
| `StoppedIsOver`, `StoppedNotRetried` | DataflowRuns | Services.cfg | a stop of a local run only marks its row; the run goes on, overwrites the mark, and is retried |
| `NeverCyclic`, `BasesExist` | MetricGraph | Metadata.cfg | two saves each pass the check and close a cycle (MySQL); a derived metric is saved on a deleted base |
| `NeverItsOwnBase`, `SaveWritesAll` | MetricGraph | Metadata.cfg | an atomic metric names itself as base and gets an edge to itself, after which it cannot be deleted; a save ends between the row, its edges and its version (MySQL) |
| `OneRunPerTask`, `DeletedForGood` | MetricTaskRuns | Metadata.cfg | two runs read `lastStatus` before either has written it; a run's update brings a deleted task back |
| `DomainKept`, `CategoryOwnLayer` | ModelCatalog | Metadata.cfg | a model whose columns are being read is not there yet when its domain is deleted; a model changes its layer while it is assigned (MySQL) |
| `PasswordKept` | References | Metadata.cfg | an edit with the masked password writes the one it read before (MySQL) |
| `IndexFresh` | MetricChat | Metadata.cfg | a question that joins a build under way misses what was edited just before it |
| `NoRing` | Canvas | Metadata.cfg | an edge from the output back to the input is not found |
| `NoStaleVerdict` | CodeCheck | Frontend.cfg with two `Calls` | an older answer replaces a newer verdict |
| `CreatedNoConflict`, `RetryFindsItems` | CodeCheck | Frontend.cfg | a submission whose answer is lost leaves its own codes in conflict, and a second submission forgets the rows created by the first; a retry whose request fails replaces the items and keeps the old outcome, whose places then name other items or none |
| `ClosedIsQuiet`, `ShownIsChosen` | ProgressDrawer | Frontend.cfg | a drawer closed during its first load polls on; an older answer shows another dataflow |

`NeverStuck` itself holds for the memory driver only: with MySQL a report handled
across the rollback of a timed-out start leaves `lastStatus = running` and no instance.

### Bounds

`MaxInstances`, `MaxFaults`, `MaxWrites`, `MaxRuns`, `MaxSerial`, `MaxNow`, `MaxTick`,
`MaxCalls`, `MaxKeys`, `MaxEdits`, `MaxSaves`, `MaxOverlap`, `MaxLost`, `MaxMishaps`,
`MaxCrashes`, `MaxTime` and `MaxActs` bound
what would grow for ever; each is named in its module and stands in a guard. Two ids and
`MaxHistory = 1` are the least for an eviction that meets a running instance, a second
runner makes prunes overlap and 1 stop meets each of them at every step. Three instances
are the least in which a failure could be retried twice; two requests and two reports are
what a race takes. Three keys with batches of two give a full batch, a short one and an
empty one, and four writes leave one row to be rewritten behind the cursor; two runs are
one cut and one resumed. Two mirrors are an old one and a new one; `pipeline_two_mirrors` takes
three, the one that fails, the one whose row the stop clears and the one started beside it. In
the services two requests are what a race takes; three metrics, domains or nodes give a cycle
longer than two and a chain with an inner node; four saves create three metrics and change one,
a deletion may come fifth, requests meet among the first two (`MaxOverlap`), and one that ends
midway shows what it leaves to the next (`MaxLost`), as one restart or failed write does for the
log of calls (`MaxMishaps`); windows of two ticks over three give two windows that
are not adjacent to all times; limits of one are reached at once. Where a service has no
coordination between its requests beyond the database, a third request would add no new
kind of meeting. `clock` of EngineTasks grows with the number of finishes only and needs
no bound. Deadlock checking is off wherever bounds or the end of the work leave nothing
to do.

In `MCServices`, `MCMetadata` and `MCFrontend` the components share the driver and nothing
else, so that exploring them one at a time loses no behaviour any of the properties speaks
of. In the scenes of `MCMemoryRuns` and `MCSyncModes` the constants differ and the
behaviours are apart.

### Fairness

- EngineTasks: weak fairness of `Arm`, of each runner and each Stop: goroutines are
  scheduled, reads, writes and reports return or time out. Strong fairness of
  `InterruptLoop` only: the mock runner's `select` chooses at random between a ready
  ticker and a cancelled context, so a run may publish a few more times, not for ever.
- RunOrchestration: handlers go on, the engine takes what reaches it and posts its last
  report (weak); a run settles although it may report progress any number of times first
  (strong). None for users, timers, stops or faults.
- PipelineControl: handlers go on (strong, for `Turn` takes a handler's next piece away
  while another has the turn, and the event loop's queue forgets none); the engine serves
  what reaches it (weak) and posts its last report (strong: a slot must be free). None for
  users or faults.
- KeysetSync: weak fairness of the runner's next step: its goroutine is scheduled and its
  queries return. None for the source's writers, for stops or for the backend.
- ProgressDrawer: weak fairness of the interval while it is set, and of each request, which
  is served or fails: the HTTP client has a timeout. None for the user or the runs.

## 4. What is proved

For every value of the constants, from the assumptions of the modules
(`EngineAssumption`, `SyncAssumption`, `OrchestrationAssumption`, `PipelineAssumption`,
`AlertsAssumption`, `FiringsAssumption`, `GatewayAssumption`, `SchedulerAssumption`,
`AccountsAssumption`, `DataflowRunsAssumption`, `CodeAssumption`, `MetricAssumption`,
`TaskRunsAssumption`, `CatalogAssumption`, `ReferencesAssumption`, `AskersAssumption`,
`CanvasAssumption`). They say that bounds are numbers, that what is counted is finite, that
the kinds of model values are disjoint, that there is an administrator at first, and for the
orchestration that a backend crash needs MySQL. Every invariant and every action property that
a passing run checks is proved, `FullCopied` in its general form; where a theorem has a
hypothesis, the table names it.

| Theorem | Says |
|---|---|
| `EngineTasks_proofs!TypeCorrect` | type correctness |
| `!RegistryExactHolds` | the registry is exact, whatever clients send |
| `!ServedOnceHolds` | `~Reuse`: the inductive invariant |
| `!PruneSparesRunningHolds`, `!StopSettlesHolds`, `!TerminalIsFinalHolds`, `!ReportsEndOnceHolds` | `~Reuse`: the properties of the runs `engine_safety` and `engine_reuse` |
| `!ImplementsContractHolds` | `~Reuse`: `Spec => Contract!Spec` |
| `KeysetSync_proofs!TypeCorrect` | type correctness in every mode |
| `!OffsetSafe` | `Resumable`: the persisted position is covered |
| `!IncrementalSuccess` | `Resumable`, incremental: success means copied |
| `!FullSuccess` | full mode, any write mode: success means copied, and with overwrite nothing else is there, unless somebody wrote meanwhile |
| `RunOrchestration_proofs!TypeCorrect` | type correctness, both drivers and every fault |
| `!RetryChainHolds` | retries form a chain: one per failure, at most `retryCount` |
| `!RunHistoryHolds` | `~Stops`: besides, the row ends as the engine announced if nothing fails; both drivers |
| `!RunsInLineHolds` | memory driver: at most one run at a time if nothing fails, with stops and retries |
| `!NeverStuckHolds` | memory driver, every fault: a record that says running can be stopped |
| `PipelineControl_proofs!TypeCorrect`, `!PairAgreesHolds` | type correctness; status and instance of the row never contradict each other, with either driver |
| `!RecordSoundHolds` | a pipeline that says running can be stopped, and without a fault or race its record tells the truth (both parts speak of the memory driver) |
| `Services_proofs!FlagHonestHolds`, `!TriggersSpacedHolds` | the scan flag is honest; triggers keep their distance |
| `!LagSpacedHolds` | lag alerts of one rule and pipeline keep their distance until a restart |
| `!AlertsPrunedHolds` | the table of alerts is back to its bound, and with the memory driver a prune takes none of the newest |
| `!CallsCountedHolds` | calls are counted once each until an edit overlaps |
| `!GatewayBoundedHolds` | at most twice the limit in any stretch as long as a window, in the life of a process; the log holds no more than its bound, the rows waiting for a DELETE and those that restarts and failed writes have left |
| `Records_proofs!AccountsGuardedHolds` | an administrator is left unless two changes overlap; memory driver: revoked keys are dead |
| `!FlowRunsSoundHolds` | a canvas is free after its local runs, which are retried once per failure |
| `!VerdictsCurrentHolds` | the verdicts on a batch of codes are current at rest, as long as no request, for a check or to submit, failed or overlapped another |
| `Metadata_proofs!GraphAcyclicHolds`, `!TablesAgreeHolds` | unless requests overlap, and wherever they end: no cycle of definitions through other metrics; rows, edges and versions agree, but for metrics whose last request ended midway |
| `!TaskLeftFreeHolds` | a metric task is free after its runs |
| `!CatalogSoundHolds` | domains stay a tree and models where they belong, unless requests overlap |
| `!SourcesKeptHolds` | no task loses its data source, unless requests overlap |
| `!IndexForwardHolds` | the index of the chat never goes back |
| `!CanvasJudgedHolds` | an accepted chain is the canvas, a line is accepted |

*EngineTasks.* `RegistryExact` is inductive with the types. The other properties are
not: that an eviction spares a running instance, for example, needs that the id a
prune holds can never be registered again, which needs that ids are used once. So
`ServedOnce` adds where a runner can be when the snapshot says `running` (`WorkingIsRunning`,
`RunningIsWorking`), what is known between `finish` and its report (`ReportingIsOver`,
`AnnouncedIsOver`), what a prune holds (`PruneIsSafe`) and whom a Stop waits for
(`StopKnowsRun`, `SettledIsDone`). Each step keeps each conjunct, given all of them; the
action properties and the refinement follow step by step.

*KeysetSync, incremental.* `Resumable` says: incremental, or cdc with a single run (a pipeline
started again loses its position, see above), no ties or NULLs among the writes, and a target
that is not cleared. The invariant `Resume` says that every position
anybody still holds (persisted, in flight, the cursor's, the one the next report will
carry) is covered by the target (`Claimed`), that versions and positions agree with the
clock (`Counted`), and that between a fetch and its commit the batch contains every row
that lies between cursor and `next`, unless the row has been written since and so has
moved above (`BatchComplete`). A commit then extends what is covered up to `next`; a cut
or crash claims nothing new; a late report only persists a position that was covered when
it was sent and still is, for a row can only move up.

*KeysetSync, full.* A page is what lies at ranks `offset` to `offset + BatchSize - 1` in the
order of the keys, so the argument is about ranks. `PagedCopy` says that until somebody writes,
`total` is the number of rows, every row of a rank below the offset is copied, with overwrite
nothing else is in the target, and the batch in hand is the page at the offset. `Ranks` shows
that the ranks of a finite order are exactly the numbers below its size (each once), and so
that a page that is not full is the last (`PageSize`), which is when a run says success.

*RunOrchestration, retries.* That no failure is retried twice says nothing about reports under
way, so it is not inductive. The invariant follows the right to retry a failure: the
terminal report that carries it, the timer, the handler started by the timer, and the
row of the retry; `Once` says that for each instance it is in one hand at most, `Sources`
that whoever holds it has the attempt after the one that failed, `NotYet` that no
terminal report exists before the engine has settled (from the contract), and `Prefix`
and `Budget` that new rows take fresh ids, also when several handlers insert at once.

*RunOrchestration, memory driver.* `Serial` says that at most one handler is between two
repository calls and that what it has found or written last is still there; with it, `Backed`
says that a record that says running has a running row or the handler that has just ended the
last one. That is `NeverStuck`, and needs no hypothesis on faults. For one run at a time,
`InLine` says that while nothing has failed a run on its way to the engine, or running there,
has a running row, which the next start finds; this needs that a stop or a terminal report
writes only over runs that have settled (`Truthful`).

*RunOrchestration, outcomes.* `Kept` says that an instance has at most one report on its way,
the one the engine has sent last and waits for, and that the row has a terminal status once that
report is past its write. Nothing depends on the order in which handlers of different instances
go on, so it holds with both drivers.

*PipelineControl.* `PairAgrees` is inductive with a statement of what handlers hold: each
row a handler may write back is itself consistent (`Agree`). `CanStop` needs the order of
the event loop: `Serial` says that at most one handler is between two repository calls
(`OneAtATime`), where it can have entered (`Entered`), that an id just created is in no
other hand (`Fresh`), that what the row names is backed by an instance row or a handler
about to remove both (`Backed`, `Held`), and what a rollback has still to undo (`Undone`).
`RecordTruthful` rests on `Truth`, for behaviours without fault and race: only instances with a
row come to the engine, each once (`Known`); the row names whatever the engine has something
left to do for or to tell about; handlers and reports rely on what they have read (`Fits`,
`Reported`); and a row that names an instance whose end is announced, or that was told to stop,
will hear of it from a terminal report or a waiting stop (`Told`).

*Scheduler and alerts.* At most one scan is at work (`OneScan`), `lastTriggerAt`
dominates every trigger (`LastKnown`), and a record found due is still due when it is
started (`StillElapsed`), since only that scan writes its time. In `Alerts`, every record
written, in a handler's hands or in the hands of the one that marks a record as read is
dominated by `lastLagAlertAt` (`Noted`), and any two are a window apart (`LagApart`). For the
prunes, `PruneEnough` says that while the table is above its bound some handler will still
count, or has found a total that is not too low, or holds rows whose deletion leaves no more
than the bound, unless a row came back or a restart cut a prune short (`loose`). `PruneAlone` says
that with the memory driver this handler is alone, so that the rows it holds are older than
the `MAX_RECORDS` it leaves; with MySQL two prunes may hold the same rows, which
`PruneEnough` allows.

*Gateway.* An edit that holds a row read before calls were counted is a clash (`CountInv`).
`Limited` counts the calls let through per window of the bucket; a stretch as long as a window
meets two at most. For the log, `Waiting` adds up `PRUNE_EVERY` rows for each DELETE under way,
the rows counted since one was last due and those whose INSERT is answered next; it grows by one
with each row, keeps its value when a count that is due turns into a DELETE, and what a restart
or a failure takes from it goes to `missed`, so that `Logged` (the bound with both, and the types)
is inductive. Without them the bound is false with MySQL.

*Accounts and local runs.* `AdminGuarded`: unless two changes overlapped, one at a time is
past its guard, and another administrator is left for each that would remove one; with memory,
`InTurn` and `KeysApart` keep withdrawn keys out of what handlers write back. `RowCarried` and
`FlowCarried` name, for whatever says running, who will say otherwise; `RetryOwed` puts the
right to a retry into one hand, as for runs in the engine.

*Codes.* `CodesAnswered`: each code of the batch has the right verdict, or a request in
flight asks about it as it occurs in the last batch; with `BatchKnown` (the last batch is
the table's unless the timer is set) and `OneAsks` this gives the verdicts at rest.

*Metadata.* A save that has passed the check would still make no cycle if its edges were
added now, those to itself aside (`AcyclicAhead`), which others preserve unless they meet
it, a request that ends midway included, since it only leaves edges out; that the walk runs
before the metrics are looked up once more is what `KnownStays` is for (a metric once
present stays). The facts about cycles (fewer edges, edges from one vertex replaced) are
lemmas about the closure. `TablesAhead` says what a request midway between its writes has
written and what it still knows (`UpToDate`, `HalfWritten`); the tables agree on every other
metric, unless it is `torn`. `Unmingled`: unless a task was edited under a run, its runs and
its editors keep apart, and a task that says running has a worker. `Sound` and `Referenced`
say that what a request has checked still holds when it writes, unless requests overlapped.
`ChatInv`: only the one builder is at work, and what it has read is no older than the cached
index. `Along` and `Straight` follow the walk of `topoChain`: the chain is a path of links,
entered once each, and on a line it is the line's beginning; that it is the whole canvas
when it is accepted is a count of its nodes.

*Only model-checked:* liveness, which is outside what the prover does (`CancelledRunExits`,
`EventuallyOver`, `EndRecorded`, `RunEnds`, `ChangesCaptured`, `PollingEnds`); `FullCopied`, the
instance of `SuccessMeansCopied` in a scene of `MCSyncModes`, whose general form is `FullSuccess`; the
type invariants that no theorem above lists; and the refuted sentences.

## 5. What is not modelled

- Text: SQL generation, identifier quoting, value conversion, prompts, messages, and the
  text form of positions (a position that contains `=` or `/` is cut into segments when it
  is read back, `run.service.js:144`). Cron expressions are any set of due records.
- Progress, rates and totals; they influence no control but the end of a full copy,
  which is in `KeysetSync`.
- Edits of a task or canvas that overlap the status updates of its runs (the same pattern
  is modelled for pipelines, local dataflow runs and metric tasks).
- Dimensions, the plaza, settings and dashboards of the metric centre, lineage and
  dictionaries, the engine's ad-hoc SQL: requests without shared state of their own.
- The front end apart from the two parts above: forms and tables over the REST
  interface, most of it on a vendored template. Its lists (`usePagedFetch.ts`) and the
  target schema of `TaskModal.vue` show the answer that arrives last, whatever was asked
  last; nothing there claims otherwise. PROJECT.json gives a reason for each part.

Hazards that PROJECT.json does not list, since the code accepts them or they repeat one
that is listed, and that no property speaks of:

- a batch of NULLs ends an incremental run (`real_runner.go:235`, with a warning in the
  log); rows that tie with the last row of a full batch are not read (`mysql.go:77`); a
  transaction that commits late below the position passed is missed; `insert` is not
  repeatable after a COMMIT of unknown outcome (`writer.go:155`); `overwrite` with an
  incremental run clears what it does not copy (`writer.go:83`);
- a retry timer is not cancelled by a stop (`run.service.js:512`); rows stay `running`
  after a crash of either process until somebody stops them;
- two overlapping prunes can remove the snapshot of an id that a client sends again
  (`mock_runner.go:515`): the state space of three instances with two prunes is too large,
  and the backend never sends an id twice;
- a restart forgets the times of triggers and of lag alerts and the limiter's windows; these
  are actions of the models, and the properties speak of the time between restarts;
- `applyEngineReport` does not compare the report's instance with the row's
  (`pipeline.service.js:367`); metric models and tasks that name a data source are not
  asked when it is deleted (`datasource.service.js:102`).

## 6. Plan

What would come next, in this order:

1. `RunOrchestration` extended by edits and deletions of the record, and its theorems with
   it.
2. A composition of `KeysetSync` with the reports as `RunOrchestration` handles them,
   and a proof that an abstract `Mirror` (the target is some past prefix of the source's
   writes) is implemented by `KeysetSync`.
3. What MySQL keeps of `NeverStuck` and `RecordSound`: the sentences are false there as they
   stand, and a weaker one that names the overlaps as its exception would have a history
   variable, as the services do.
4. The cron matcher as a function, compared with a definition by fields.
