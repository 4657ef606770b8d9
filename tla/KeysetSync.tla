----------------------------- MODULE KeysetSync -----------------------------
(***************************************************************************)
(* How a run in real mode moves rows (databridge-engine real_runner.go and *)
(* internal/infra/dbio), one table to one table, run after run, while the  *)
(* source keeps changing:                                                  *)
(*                                                                         *)
(*   full         pages by primary key, LIMIT/OFFSET                       *)
(*   incremental  WHERE col > position ORDER BY col, resumed from the      *)
(*                position the backend persisted last                      *)
(*   cdc          the same query in polling rounds, from the server's time *)
(*                                                                         *)
(* A position is a value of the incremental (polling) column.  Positions   *)
(* and row versions count the writes to the source, so a fresh write has a *)
(* position above all others; writes with a tie or NULL are an option.     *)
(***************************************************************************)
EXTENDS Naturals, FiniteSets

CONSTANTS
  Keys,        \* primary keys; only their order matters
  Mode,        \* syncMode
  WriteMode,   \* writeMode
  BatchSize,
  NullsFirst,  \* ORDER BY puts NULL first (MySQL) or last (Oracle)
  Kinds,       \* what the source's writers do besides fresh writes
  Cuts,        \* how runs are disturbed
  MaxWrites,   \* bound: writes to the source
  MaxRuns      \* bound: runs

ASSUME SyncAssumption ==
  /\ Keys \subseteq Nat /\ IsFiniteSet(Keys)
  /\ Mode \in {"full", "incremental", "cdc"}
  /\ WriteMode \in {"insert", "upsert", "overwrite"}
  /\ BatchSize \in Nat \ {0}
  /\ NullsFirst \in BOOLEAN
  /\ Kinds \subseteq {"tie", "null", "delete"}
  /\ Cuts \subseteq {"stop", "error", "crash", "lost"}
  /\ MaxWrites \in Nat /\ MaxRuns \in Nat

VARIABLES
  source,     \* per key: version (0, no row) and position (0, NULL)
  target,     \* per key: version (0, no row); the target's key is unique
  clock,      \* writes so far, and the server's time
  persisted,  \* the position the backend holds (0, none)
  reports,    \* positions reported and not yet handled by the backend
  run,        \* the run in progress
  began,      \* position below which the run never looks (history)
  runs,       \* runs so far
  disturbed   \* the source changed during the run (history)

vars == <<source, target, clock, persisted, reports, run, began, runs, disturbed>>
sourceVars == <<source, clock>>
nodeVars   == <<persisted, reports>>
history    == <<began, runs, disturbed>>

Stamps == 0 .. MaxWrites
Row    == [ver : Stamps, pos : Stamps]
Nil    == 0            \* no position: from the beginning

(* after, total, offset, read  the cursor and counters of the loop                 *)
(* current                     CurrentOffset / CdcPosition, what publish reports   *)
(* batch, next                 versions read and not yet written; their maxValue   *)
Run == [pc : {"idle", "prepare", "fetch", "write", "advance", "sleep"},
        cancelled : BOOLEAN, outcome : {"none", "success", "failed", "stopped"},
        after : Stamps, offset : Nat, total : Nat, current : Stamps,
        batch : [Keys -> Stamps], next : Stamps]

NoRows  == [k \in Keys |-> 0]
IdleRun == [pc |-> "idle", cancelled |-> FALSE, outcome |-> "none", after |-> Nil,
            offset |-> 0, total |-> 0, current |-> Nil, batch |-> NoRows, next |-> Nil]

TypeOK ==
  /\ source \in [Keys -> Row] /\ target \in [Keys -> Stamps]
  /\ clock \in Stamps /\ persisted \in Stamps /\ reports \in SUBSET Stamps
  /\ run \in Run
  /\ began \in Stamps /\ runs \in 0 .. MaxRuns /\ disturbed \in BOOLEAN

Init ==
  /\ source = [k \in Keys |-> [ver |-> 0, pos |-> 0]]
  /\ target = NoRows
  /\ clock = 0 /\ persisted = Nil /\ reports = {}
  /\ run = IdleRun
  /\ began = 0 /\ runs = 0 /\ disturbed = FALSE

-----------------------------------------------------------------------------
(* The source, written by others *)

Write(k) ==
  /\ clock < MaxWrites
  /\ clock' = clock + 1
  /\ \E p \in {clock + 1} \cup (IF "tie" \in Kinds THEN {clock} ELSE {})
                          \cup (IF "null" \in Kinds THEN {0} ELSE {}) :
       source' = [source EXCEPT ![k] = [ver |-> clock + 1, pos |-> p]]
  /\ disturbed' = TRUE
  /\ UNCHANGED <<target, nodeVars, run, began, runs>>

Delete(k) ==
  /\ "delete" \in Kinds /\ source[k].ver # 0
  /\ source' = [source EXCEPT ![k] = [ver |-> 0, pos |-> 0]]
  /\ disturbed' = TRUE
  /\ UNCHANGED <<target, clock, nodeVars, run, began, runs>>

-----------------------------------------------------------------------------
(* Queries *)

Present == {k \in Keys : source[k].ver # 0}

\* Faulty variant: OFFSET counted from one.
Page_FromOne(offset) ==
  {k \in Present : Cardinality({j \in Present : j < k}) \in offset + 1 .. offset + BatchSize}

\* pageSQL: ORDER BY the primary key, LIMIT BatchSize OFFSET offset.
Page(offset) ==
  {k \in Present : Cardinality({j \in Present : j < k}) \in offset .. offset + BatchSize - 1}

\* keysetSQL's WHERE: without a position every row, NULLs included.
Eligible(after) == {k \in Present : after = Nil \/ source[k].pos > after}

\* Its ORDER BY ... LIMIT: a batch is closed downwards, ties are cut anywhere.
Rank(k) == IF source[k].pos = 0 /\ ~NullsFirst THEN MaxWrites + 1 ELSE source[k].pos
Batches(after) ==
  LET E == Eligible(after)
  IN {B \in SUBSET E :
        /\ Cardinality(B) = IF Cardinality(E) < BatchSize THEN Cardinality(E) ELSE BatchSize
        /\ \A b \in B, e \in E \ B : Rank(b) <= Rank(e)}

\* Faulty variant: the position is the server's time, not the batch's.
MaxValue_Clock(B) == clock

\* Faulty variant: one past it, as if the bound were inclusive.
MaxValue_Past(B) == clock + 1

\* maxValue: the last value that is not NULL.
MaxValue(B) ==
  IF \A k \in B : source[k].pos = 0 THEN Nil
  ELSE CHOOSE p \in Stamps : (\E k \in B : source[k].pos = p) /\ \A k \in B : source[k].pos <= p

\* Faulty variant: a position that did not move is not noticed.
Advanced_Always(next, after) == TRUE

\* advanced.
Advanced(next, after) == next # Nil /\ (after = Nil \/ next > after)

-----------------------------------------------------------------------------
(* A run *)

\* What reporting p leaves in flight; the post may fail, and nothing is then in flight.
Reported(p) ==
  \/ reports' = reports \cup ({p} \ {Nil})
  \/ ("lost" \in Cuts \/ run.cancelled) /\ UNCHANGED reports

\* finish: the terminal report carries the position as well.
Finish(status) ==
  /\ run' = [IdleRun EXCEPT !.outcome = status]
  /\ Reported(run.current)

\* isCancelled: how a run ends that FetchBatch or WriteBatch interrupts.
Interrupted == \/ run.cancelled /\ Finish("stopped")
               \/ ~run.cancelled /\ "error" \in Cuts /\ Finish("failed")

\* Faulty variant: the resumed position is the newest of the source.
Start_FromNow ==
  /\ run.pc = "idle" /\ runs < MaxRuns
  /\ run' = [IdleRun EXCEPT !.pc = "prepare", !.after = clock,
                            !.total = Cardinality(Present)]
  /\ runs' = runs + 1
  /\ began' = IF runs = 0 /\ Mode = "cdc" THEN clock ELSE began
  /\ persisted' = IF Mode = "cdc" THEN Nil ELSE persisted
  /\ disturbed' = FALSE
  /\ UNCHANGED <<sourceVars, target, reports>>

\* The backend starts a run: an incremental one gets the persisted position; a pipeline's
\* snapshot carries none, its start resets the position, and the engine takes the server's
\* time.  full counts the rows.
Start ==
  /\ run.pc = "idle" /\ runs < MaxRuns
  /\ run' = [IdleRun EXCEPT
               !.pc = "prepare",
               !.after = CASE Mode = "full" -> Nil [] Mode = "incremental" -> persisted
                           [] Mode = "cdc" -> clock,
               !.total = Cardinality(Present)]
  /\ runs' = runs + 1
  /\ began' = IF runs = 0 /\ Mode = "cdc" THEN clock ELSE began
  /\ persisted' = IF Mode = "cdc" THEN Nil ELSE persisted
  /\ disturbed' = FALSE
  /\ UNCHANGED <<sourceVars, target, reports>>

\* EnsureWritable clears the target for overwrite; then the first progress report, with the
\* starting position.
Prepare ==
  /\ run.pc = "prepare"
  /\ target' = IF WriteMode = "overwrite" THEN NoRows ELSE target
  /\ run' = [run EXCEPT !.pc = "fetch", !.current = run.after]
  /\ Reported(run.after)
  /\ UNCHANGED <<sourceVars, persisted, history>>

\* FetchBatch returns rows.
FetchRows ==
  /\ run.pc = "fetch" /\ ~run.cancelled
  /\ \E B \in IF Mode = "full" THEN {Page(run.offset)} ELSE Batches(run.after) :
       /\ B # {}
       /\ run' = [run EXCEPT !.pc = "write",
                             !.batch = [k \in Keys |-> IF k \in B THEN source[k].ver ELSE 0],
                             !.next = MaxValue(B)]
  /\ UNCHANGED <<sourceVars, target, nodeVars, history>>

\* FetchBatch returns nothing: the run has succeeded, or (cdc) the round is over.
FetchNothing ==
  /\ run.pc = "fetch" /\ ~run.cancelled
  /\ {} \in IF Mode = "full" THEN {Page(run.offset)} ELSE Batches(run.after)
  /\ IF Mode = "cdc"
     THEN run' = [run EXCEPT !.pc = "sleep"] /\ Reported(run.current)
     ELSE Finish("success")
  /\ UNCHANGED <<sourceVars, target, persisted, history>>

Read    == {k \in Keys : run.batch[k] # 0}
Written == [k \in Keys |-> IF k \in Read THEN run.batch[k] ELSE target[k]]
Conflict == WriteMode # "upsert" /\ \E k \in Read : target[k] # 0

\* The target after a transaction that may or may not have been committed.
Attempted == {target} \cup (IF Conflict THEN {} ELSE {Written})

\* WriteBatch: one transaction.
WriteCommit ==
  /\ run.pc = "write" /\ ~Conflict
  /\ target' = Written
  /\ run' = [run EXCEPT !.pc = "advance"]
  /\ UNCHANGED <<sourceVars, nodeVars, history>>

\* A duplicate key fails the run, and nothing of the batch stays.
WriteConflict ==
  /\ run.pc = "write" /\ Conflict
  /\ Finish("failed")
  /\ UNCHANGED <<sourceVars, target, persisted, history>>

\* Faulty variant: the position is moved even if the batch does not commit.
WriteCut_Advances ==
  /\ run.pc = "write"
  /\ target' \in Attempted
  /\ run.cancelled \/ "error" \in Cuts
  /\ run' = [IdleRun EXCEPT !.outcome = IF run.cancelled THEN "stopped" ELSE "failed"]
  /\ Reported(run.next)
  /\ UNCHANGED <<sourceVars, persisted, history>>

\* The transaction ends in an error, its own or the cancellation's.  If that happens during
\* COMMIT the batch may be there all the same.
WriteCut ==
  /\ run.pc = "write"
  /\ target' \in Attempted
  /\ Interrupted
  /\ UNCHANGED <<sourceVars, persisted, history>>

\* Counters and position move; full and incremental publish every batch, cdc every round.
\* A short page or as many rows as were counted (full), or a position that did not move,
\* is the last batch of the run or round.
Advance ==
  /\ run.pc = "advance"
  /\ LET size    == Cardinality(Read)
         moved   == Advanced(run.next, run.after)
         current == IF Mode = "full" THEN Nil ELSE run.next
         last    == IF Mode = "full"
                    THEN size < BatchSize \/ (run.total > 0 /\ run.offset + size >= run.total)
                    ELSE ~moved
     IN /\ IF last /\ Mode # "cdc"
           THEN run' = [IdleRun EXCEPT !.outcome = "success"]
           ELSE run' = [run EXCEPT !.pc = IF last THEN "sleep" ELSE "fetch",
                                   !.after = IF Mode # "full" /\ moved THEN run.next ELSE @,
                                   !.offset = IF Mode = "full" THEN @ + size ELSE @,
                                   !.current = current,
                                   !.batch = NoRows, !.next = Nil]
        /\ IF Mode = "cdc" /\ ~last THEN UNCHANGED reports ELSE Reported(current)
  /\ UNCHANGED <<sourceVars, target, persisted, history>>

\* cdc: the next round.
Wake ==
  /\ run.pc = "sleep" /\ ~run.cancelled
  /\ run' = [run EXCEPT !.pc = "fetch"]
  /\ UNCHANGED <<sourceVars, target, nodeVars, history>>

\* Stop cancels the context; the loop sees it before a fetch or in its sleep, and a
\* cancelled FetchBatch ends likewise.
Cancel ==
  /\ "stop" \in Cuts /\ run.pc # "idle" /\ ~run.cancelled
  /\ run' = [run EXCEPT !.cancelled = TRUE]
  /\ UNCHANGED <<sourceVars, target, nodeVars, history>>

Stopped ==
  /\ run.pc \in {"fetch", "sleep"} /\ run.cancelled
  /\ Finish("stopped")
  /\ UNCHANGED <<sourceVars, target, persisted, history>>

\* FetchBatch fails, or something before the loop does: that is a failure even if Stop was
\* the reason.
ReadError ==
  /\ \/ run.pc = "fetch" /\ ~run.cancelled /\ "error" \in Cuts
     \/ run.pc = "prepare" /\ (run.cancelled \/ "error" \in Cuts)
  /\ Finish("failed")
  /\ UNCHANGED <<sourceVars, target, persisted, history>>

\* The engine process dies; a transaction in flight may have been committed.
Crash ==
  /\ "crash" \in Cuts /\ run.pc # "idle"
  /\ target' \in IF run.pc = "write" THEN Attempted ELSE {target}
  /\ run' = IdleRun
  /\ UNCHANGED <<sourceVars, nodeVars, history>>

\* The backend handles a report, in whatever order: it upserts the position it carries.
Persist(p) ==
  /\ p \in reports
  /\ persisted' = p
  /\ reports' = reports \ {p}
  /\ UNCHANGED <<sourceVars, target, run, history>>

-----------------------------------------------------------------------------

RunStep == \/ Prepare \/ FetchRows \/ FetchNothing \/ WriteCommit \/ WriteConflict \/ WriteCut
           \/ Advance \/ Wake \/ Stopped \/ ReadError

Next ==
  \/ \E k \in Keys : Write(k) \/ Delete(k)
  \/ Start \/ RunStep \/ Cancel \/ Crash
  \/ \E p \in reports : Persist(p)

Spec == Init /\ [][Next]_vars

\* The runner goroutine is scheduled and its queries return.
FairSpec == Spec /\ WF_vars(RunStep)

-----------------------------------------------------------------------------
(* Properties of the code *)

\* Every row up to position p has been copied in its current version.
CopiedUpTo(p) ==
  \A k \in Keys : source[k].pos \in began + 1 .. p => target[k] = source[k].ver

\* What the backend persists never runs ahead of the target, whatever is stopped, lost,
\* delayed or crashes in between, so that resuming from it loses nothing (real_runner.go
\* incremental, cdc; engineReport.service offset upsert; run.service resolveOffsetStart),
\* as long as positions are unique and not NULL and the target is not cleared.
OffsetCovered == CopiedUpTo(persisted)

\* A run that reports success has copied the table: all of it although it was cut and
\* resumed before (incremental), all of it and nothing else if nobody wrote meanwhile
\* (full into a cleared target).
SuccessMeansCopied ==
  [][run.pc # "idle" /\ run'.outcome = "success" =>
       \/ Mode = "full" /\ disturbed
       \/ \A k \in IF WriteMode = "overwrite" THEN Keys ELSE Present :
            target[k] = source[k].ver]_vars

\* A run over a source that is not written for ever ends, whatever its ties and NULLs.
RunEnds == run.pc # "idle" ~> run.pc = "idle"

\* A pipeline left alone captures every change made after its start.
ChangesCaptured ==
  \A k \in Keys, v \in 1 .. MaxWrites :
    (run.pc # "idle" /\ source[k].ver = v /\ v > began)
      ~> (target[k] = v \/ source[k].ver # v)
=============================================================================
