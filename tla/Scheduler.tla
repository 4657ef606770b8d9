----------------------------- MODULE Scheduler ------------------------------
(***************************************************************************)
(* The cron scheduler (scheduler.service): once a second a timer begins a  *)
(* scan, unless the previous one is still going on.  A scan takes the time *)
(* at its beginning, and starts every record whose cron expression matches *)
(* it, which it has not started within the last minute, and which does not *)
(* run.  The times of the last starts are kept in memory only.             *)
(***************************************************************************)
EXTENDS Storage, Integers

CONSTANTS
  Runnables,   \* records of the runners registered with run.service
  MetricTasks, \* metric tasks, which the scan comes to last
  Scans,       \* scans that might overlap
  Gap,         \* MIN_TRIGGER_GAP_MS, in ticks of the timer
  MaxTime      \* bound: the clock

ASSUME SchedulerAssumption == Gap \in Nat /\ MaxTime \in Nat /\ Runnables \cap MetricTasks = {}

VARIABLES
  clock,          \* the time, in ticks of the timer
  scanning,       \* the flag of the same name
  scan,           \* the scans under way
  lastTriggerAt,  \* the time of the scan that last triggered a record
  runs,           \* the records of which a run is known to the database
  starts,         \* calls of start the scans do not wait for
  triggered       \* the triggers since the process started (history)

schedulerVars == <<clock, scanning, scan, lastTriggerAt, runs, starts, triggered>>

Records  == Runnables \cup MetricTasks
Nothing  == "nothing"
LongAgo  == - Gap
Scan     == [pc : {"idle", "list", "next", "query", "metrics"}, at : 0 .. MaxTime,
             todo : SUBSET Records, busy : SUBSET Records, on : Records \cup {Nothing}]
NoScan   == [pc |-> "idle", at |-> 0, todo |-> {}, busy |-> {}, on |-> Nothing]

SchedulerTypeOK ==
  /\ clock \in 0 .. MaxTime /\ scanning \in BOOLEAN
  /\ scan \in [Scans -> Scan]
  /\ lastTriggerAt \in [Records -> {LongAgo} \cup 0 .. MaxTime]
  /\ runs \in SUBSET Records /\ starts \in SUBSET Records
  /\ triggered \in SUBSET (Scans \X Records \X (0 .. MaxTime))

SchedulerInit ==
  /\ clock = 0 /\ scanning = FALSE /\ scan = [c \in Scans |-> NoScan]
  /\ lastTriggerAt = [r \in Records |-> LongAgo]
  /\ runs = {} /\ starts = {} /\ triggered = {}

-----------------------------------------------------------------------------

Scanning    == {c \in Scans : scan[c].pc # "idle"}
ScanTurn(c) == TurnOf(c, Scanning)
Elapsed(c, r) == scan[c].at - lastTriggerAt[r] >= Gap

\* Faulty variant: the timer does not look whether a scan is still going on.
ScanMayBegin_Always(c) == scan[c].pc = "idle"

ScanMayBegin(c) == scan[c].pc = "idle" /\ ~scanning

\* The timer's callback; it begins to list the records.
ScanBegins(c) ==
  /\ ScanMayBegin(c) /\ (\A d \in Scanning : scan[d].at # clock)
  /\ TurnOf(c, Scanning)
  /\ scanning' = TRUE
  /\ scan' = [scan EXCEPT ![c] = [@ EXCEPT !.pc = "list", !.at = clock]]
  /\ UNCHANGED <<clock, lastTriggerAt, runs, starts, triggered>>

\* The records that are enabled and whose cron expression matches the scan's time: any.
\* Their lastStatus is as the list has it.
ScanLists(c, due) ==
  /\ scan[c].pc = "list" /\ ScanTurn(c)
  /\ scan' = [scan EXCEPT ![c] = [@ EXCEPT !.pc = "next", !.todo = due, !.busy = runs]]
  /\ UNCHANGED <<clock, scanning, lastTriggerAt, runs, starts, triggered>>

\* The next record: triggered too recently, or the scan asks for its running instances.
ScanNext(c, r) ==
  /\ scan[c].pc = "next" /\ r \in scan[c].todo \cap Runnables /\ ScanTurn(c)
  /\ scan' = IF Elapsed(c, r) THEN [scan EXCEPT ![c] = [@ EXCEPT !.pc = "query", !.on = r]]
                              ELSE [scan EXCEPT ![c].todo = @ \ {r}]
  /\ UNCHANGED <<clock, scanning, lastTriggerAt, runs, starts, triggered>>

\* A record is started if it does not run; the scan does not wait for the start.
Trigger(c, r, busy) ==
  IF busy THEN UNCHANGED <<lastTriggerAt, starts, triggered>>
  ELSE /\ lastTriggerAt' = [lastTriggerAt EXCEPT ![r] = scan[c].at]
       /\ starts' = starts \cup {r} /\ triggered' = triggered \cup {<<c, r, scan[c].at>>}

ScanDecides(c) ==
  LET r == scan[c].on IN
  /\ scan[c].pc = "query" /\ ScanTurn(c)
  /\ Trigger(c, r, r \in scan[c].busy \cup runs)
  /\ scan' = [scan EXCEPT ![c] = [@ EXCEPT !.pc = "next", !.todo = scan[c].todo \ {r}, !.on = Nothing]]
  /\ UNCHANGED <<clock, scanning, runs>>

\* The metric tasks are listed once more, and then taken without a further query.
ScanMetrics(c) ==
  /\ scan[c].pc = "next" /\ scan[c].todo \subseteq MetricTasks /\ ScanTurn(c)
  /\ scan' = [scan EXCEPT ![c] = [@ EXCEPT !.pc = "metrics", !.busy = runs]]
  /\ UNCHANGED <<clock, scanning, lastTriggerAt, runs, starts, triggered>>

ScanEnds(c) ==
  LET free == {r \in scan[c].todo \ scan[c].busy : Elapsed(c, r)} IN
  /\ scan[c].pc = "metrics" /\ ScanTurn(c)
  /\ lastTriggerAt' = [r \in Records |-> IF r \in free THEN scan[c].at ELSE lastTriggerAt[r]]
  /\ starts' = starts \cup free
  /\ triggered' = triggered \cup {<<c, r, scan[c].at>> : r \in free}
  /\ scan' = [scan EXCEPT ![c] = NoScan] /\ scanning' = FALSE
  /\ UNCHANGED <<clock, runs>>

\* Faulty variant: only a scan that succeeds clears the flag.
ScanFails_FlagKept(c) ==
  /\ driver = "mysql" /\ scan[c].pc # "idle"
  /\ scan' = [scan EXCEPT ![c] = NoScan]
  /\ UNCHANGED <<clock, scanning, lastTriggerAt, runs, starts, triggered>>

\* A query fails: the scan is over, with the records it has not come to.
ScanFails(c) ==
  /\ driver = "mysql" /\ scan[c].pc # "idle"
  /\ scan' = [scan EXCEPT ![c] = NoScan] /\ scanning' = FALSE
  /\ UNCHANGED <<clock, lastTriggerAt, runs, starts, triggered>>

\* A start the scans do not wait for: it has got through to a running row, or it has failed.
StartOver(r) ==
  /\ r \in starts /\ (driver = "mysql" \/ Scanning = {})
  /\ starts' = starts \ {r} /\ runs' \in {runs, runs \cup {r}}
  /\ UNCHANGED <<clock, scanning, scan, lastTriggerAt, triggered>>

\* Somebody else starts a run, or a run ends.
RunChanges(r) ==
  /\ driver = "mysql" \/ Scanning = {}
  /\ runs' \in {runs \cup {r}, runs \ {r}} \ {runs}
  /\ UNCHANGED <<clock, scanning, scan, lastTriggerAt, starts, triggered>>

Tick ==
  /\ clock < MaxTime /\ (driver = "mysql" \/ Scanning = {})
  /\ clock' = clock + 1
  /\ UNCHANGED <<scanning, scan, lastTriggerAt, runs, starts, triggered>>

\* The process restarts: what it keeps in memory is gone.
SchedulerRestart ==
  /\ scan' = [c \in Scans |-> NoScan] /\ scanning' = FALSE
  /\ lastTriggerAt' = [r \in Records |-> LongAgo]
  /\ runs' = IF driver = "mysql" THEN runs ELSE {}
  /\ starts' = {} /\ triggered' = {}
  /\ UNCHANGED clock

SchedulerNext ==
  \/ \E c \in Scans :
       \/ ScanBegins(c) \/ ScanDecides(c) \/ ScanMetrics(c) \/ ScanEnds(c) \/ ScanFails(c)
       \/ \E due \in SUBSET Records : ScanLists(c, due)
       \/ \E r \in Runnables : ScanNext(c, r)
  \/ \E r \in Records : StartOver(r) \/ RunChanges(r)
  \/ Tick \/ SchedulerRestart

SchedulerSpec ==
  StorageTypeOK /\ SchedulerInit /\ [][SchedulerNext /\ UNCHANGED driver]_<<driver, schedulerVars>>

-----------------------------------------------------------------------------

\* Between two triggers of a record lies at least the least distance, by the times of the
\* scans, although a scan waits for a query between its look at the last trigger and its own
\* (MIN_TRIGGER_GAP_MS).
TriggersSpaced ==
  \A t, u \in triggered : t # u /\ t[2] = u[2] => t[3] - u[3] >= Gap \/ u[3] - t[3] >= Gap

\* The flag stands for a scan that is going on: a scan that fails does not leave it set, and
\* the scheduler deaf for ever (startScheduler: the last then comes after the catch).
FlagHonest == scanning = (Scanning # {})
=============================================================================
