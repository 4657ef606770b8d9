-------------------------- MODULE KeysetSync_proofs --------------------------
(***************************************************************************)
(* Proofs about KeysetSync, for any table, batch size and number of writes *)
(* and runs.                                                               *)
(***************************************************************************)
EXTENDS KeysetSync, Ranks, FiniteSetTheorems, WellFoundedInduction, TLAPS

-----------------------------------------------------------------------------
(* Operators *)

\* A nonempty set of numbers up to n has a greatest element.
LEMMA Greatest ==
  ASSUME NEW n \in Nat, NEW S \in SUBSET (0 .. n), S # {}
  PROVE  \E p \in S : \A q \in S : q <= p
<1> DEFINE R == OpToRel(<, Nat)
           T == {n - p : p \in S}
<1>1. IsWellFoundedOn(R, Nat)
  BY NatLessThanWellFounded
<1>2. T \subseteq Nat /\ T # {}
  <2>1. \A p \in S : n - p \in Nat
    OBVIOUS
  <2>2. QED
    BY <2>1
<1>3. PICK x \in T : \A y \in T : ~(<<y, x>> \in R)
  <2> HIDE DEF R, T
  <2> QED
    BY <1>1, <1>2, WFMin
<1>4. PICK p \in S : x = n - p
  OBVIOUS
<1>5. ASSUME NEW q \in S PROVE q <= p
  <2>1. n - q \in T /\ n - q \in Nat /\ x \in Nat
    BY <1>2
  <2>2. ~(n - q < x)
    BY <1>3, <2>1 DEF OpToRel
  <2>3. QED
    BY <1>4, <2>2
<1>6. QED
  BY <1>4, <1>5

\* MaxValue is the greatest position of a batch, if it has one at all.
LEMMA MaxValueGreatest ==
  ASSUME SyncAssumption, source \in [Keys -> Row], NEW B \in SUBSET Keys,
         \E k \in B : source[k].pos # 0
  PROVE  /\ MaxValue(B) \in Stamps
         /\ \E k \in B : source[k].pos = MaxValue(B)
         /\ \A k \in B : source[k].pos <= MaxValue(B)
<1> DEFINE S == {source[k].pos : k \in B}
<1>1. S \in SUBSET (0 .. MaxWrites) /\ S # {} /\ MaxWrites \in Nat
  BY DEF Row, Stamps, SyncAssumption
<1>2. PICK p \in S : \A q \in S : q <= p
  BY <1>1, Greatest
<1>3. \E q \in Stamps : (\E k \in B : source[k].pos = q) /\ \A k \in B : source[k].pos <= q
  BY <1>1, <1>2 DEF Stamps
<1>4. QED
  BY <1>3 DEF MaxValue

LEMMA MaxValueTyped ==
  ASSUME SyncAssumption, source \in [Keys -> Row], NEW B \in SUBSET Keys
  PROVE  MaxValue(B) \in Stamps
<1>1. CASE \E k \in B : source[k].pos # 0
  BY <1>1, MaxValueGreatest
<1>2. CASE \A k \in B : source[k].pos = 0
  BY <1>2 DEF MaxValue, Nil, Stamps, SyncAssumption
<1>3. QED
  BY <1>1, <1>2

LEMMA BatchesWithin ==
  ASSUME NEW a
  PROVE  Batches(a) \subseteq SUBSET Eligible(a) /\ Eligible(a) \subseteq Present
  BY DEF Batches, Eligible

LEMMA Counts ==
  ASSUME SyncAssumption, NEW S \in SUBSET Keys
  PROVE  Cardinality(S) \in Nat
  BY FS_Subset, FS_CardinalityType DEF SyncAssumption

-----------------------------------------------------------------------------
(* Type correctness *)

LEMMA IdleTyped ==
  ASSUME SyncAssumption, NEW s \in {"none", "success", "failed", "stopped"}
  PROVE  IdleRun \in Run /\ [IdleRun EXCEPT !.outcome = s] \in Run
<1>1. 0 \in Stamps /\ NoRows \in [Keys -> Stamps]
  BY DEF NoRows, Stamps, SyncAssumption
<1>2. IdleRun \in Run
  BY <1>1 DEF IdleRun, Run, Nil
<1>3. QED
  BY <1>2 DEF Run

LEMMA RunUpdates ==
  ASSUME NEW r \in Run
  PROVE  /\ [r EXCEPT !.cancelled = TRUE] \in Run
         /\ \A x \in {"fetch", "advance", "sleep"} : [r EXCEPT !.pc = x] \in Run
         /\ [r EXCEPT !.pc = "fetch", !.current = r.after] \in Run
         /\ \A b \in [Keys -> Stamps], p \in Stamps :
              [r EXCEPT !.pc = "write", !.batch = b, !.next = p] \in Run
  BY DEF Run

LEMMA ReportedTyped ==
  ASSUME NEW p \in Stamps, reports \in SUBSET Stamps, Reported(p)
  PROVE  reports' \in SUBSET Stamps
  BY DEF Reported

LEMMA FinishTyped ==
  ASSUME SyncAssumption, TypeOK, NEW s \in {"none", "success", "failed", "stopped"}, Finish(s)
  PROVE  run' \in Run /\ reports' \in SUBSET Stamps
<1>1. run.current \in Stamps /\ Reported(run.current)
  BY DEF TypeOK, Run, Finish
<1>2. QED
  BY <1>1, ReportedTyped, IdleTyped DEF Finish, TypeOK

LEMMA WrittenTyped ==
  ASSUME TypeOK
  PROVE  Written \in [Keys -> Stamps] /\ Attempted \subseteq [Keys -> Stamps]
  BY DEF TypeOK, Run, Written, Attempted

LEMMA TypeInit == SyncAssumption /\ Init => TypeOK
<1> SUFFICES ASSUME SyncAssumption, Init PROVE TypeOK
  OBVIOUS
<1>1. 0 \in Stamps /\ 0 \in 0 .. MaxRuns /\ NoRows \in [Keys -> Stamps]
  BY DEF NoRows, Stamps, SyncAssumption
<1>2. IdleRun \in Run
  BY <1>1 DEF IdleRun, Run, Nil
<1>3. [ver |-> 0, pos |-> 0] \in Row
  BY <1>1 DEF Row
<1>4. QED
  BY <1>1, <1>2, <1>3 DEF Init, TypeOK, Nil

\* What the source's writers do.
LEMMA TypeSource ==
  ASSUME SyncAssumption, TypeOK, NEW k \in Keys, Write(k) \/ Delete(k)
  PROVE  TypeOK'
<1>1. CASE Write(k)
  <2>1. clock' \in Stamps
    BY <1>1 DEF TypeOK, Write, Stamps, SyncAssumption
  <2>2. PICK p \in {clock + 1, clock, 0} :
          source' = [source EXCEPT ![k] = [ver |-> clock + 1, pos |-> p]]
    BY <1>1 DEF Write
  <2>3. [ver |-> clock + 1, pos |-> p] \in Row
    BY <1>1, <2>1 DEF TypeOK, Row, Write, Stamps, SyncAssumption
  <2>4. source' \in [Keys -> Row]
    BY <2>2, <2>3 DEF TypeOK
  <2>5. QED
    BY <1>1, <2>1, <2>4 DEF TypeOK, Write, nodeVars
<1>2. CASE Delete(k)
  <2>1. [ver |-> 0, pos |-> 0] \in Row
    BY DEF Row, Stamps, SyncAssumption
  <2>2. QED
    BY <1>2, <2>1 DEF TypeOK, Delete, nodeVars
<1>3. QED
  BY <1>1, <1>2

LEMMA TypeStart ==
  ASSUME SyncAssumption, TypeOK, Start
  PROVE  TypeOK'
<1>1. PICK a \in Stamps : run' = [IdleRun EXCEPT !.pc = "prepare", !.after = a,
                                                !.total = Cardinality(Present)]
  <2>1. (CASE Mode = "full" -> Nil [] Mode = "incremental" -> persisted
           [] Mode = "cdc" -> clock) \in Stamps
    BY DEF TypeOK, Nil, Stamps, SyncAssumption
  <2>2. QED
    BY <2>1 DEF Start
<1>2. Cardinality(Present) \in Nat
  BY Counts DEF Present
<1>3. run' \in Run
  BY <1>1, <1>2, IdleTyped DEF Run
<1>4. runs' \in 0 .. MaxRuns /\ began' \in Stamps /\ persisted' \in Stamps
  BY DEF Start, TypeOK, Nil, Stamps, SyncAssumption
<1>5. QED
  BY <1>3, <1>4 DEF Start, TypeOK, sourceVars

LEMMA TypeRun ==
  ASSUME SyncAssumption, TypeOK, RunStep
  PROVE  TypeOK'
<1> DEFINE Typed == /\ run' \in Run /\ target' \in [Keys -> Stamps]
                    /\ persisted' \in Stamps /\ reports' \in SUBSET Stamps
<1>1. CASE Prepare
  <2>1. run.after \in Stamps /\ NoRows \in [Keys -> Stamps]
    BY DEF TypeOK, Run, NoRows, Stamps, SyncAssumption
  <2>2. Typed
    BY <1>1, <2>1, RunUpdates, ReportedTyped DEF Prepare, TypeOK
  <2>3. QED
    BY <1>1, <2>2 DEF Prepare, TypeOK, sourceVars, history
<1>2. CASE FetchRows
  <2>1. PICK B \in SUBSET Keys :
          run' = [run EXCEPT !.pc = "write",
                             !.batch = [k \in Keys |-> IF k \in B THEN source[k].ver ELSE 0],
                             !.next = MaxValue(B)]
    <3>1. Page(run.offset) \in SUBSET Keys /\ Batches(run.after) \subseteq SUBSET Keys
      BY BatchesWithin DEF Page, Present
    <3>2. QED
      BY <1>2, <3>1 DEF FetchRows
  <2>2. [k \in Keys |-> IF k \in B THEN source[k].ver ELSE 0] \in [Keys -> Stamps]
    BY DEF TypeOK, Row, Stamps, SyncAssumption
  <2>3. run' \in Run
    BY <2>1, <2>2, MaxValueTyped, RunUpdates DEF TypeOK
  <2>4. QED
    BY <1>2, <2>3 DEF FetchRows, TypeOK, sourceVars, nodeVars, history
<1>3. CASE FetchNothing
  <2>1. CASE Mode = "cdc"
    <3>1. run' = [run EXCEPT !.pc = "sleep"] /\ Reported(run.current) /\ run.current \in Stamps
      BY <1>3, <2>1 DEF FetchNothing, TypeOK, Run
    <3>2. run' \in Run /\ reports' \in SUBSET Stamps
      BY <3>1, RunUpdates, ReportedTyped DEF TypeOK
    <3>3. QED
      BY <1>3, <3>2 DEF FetchNothing, TypeOK, sourceVars, history
  <2>2. CASE Mode # "cdc"
    BY <1>3, <2>2, FinishTyped DEF FetchNothing, TypeOK, sourceVars, history
  <2>3. QED
    BY <2>1, <2>2
<1>4. CASE WriteCommit
  BY <1>4, RunUpdates, WrittenTyped DEF WriteCommit, TypeOK, sourceVars, nodeVars, history
<1>5. CASE WriteConflict \/ Stopped \/ ReadError
  BY <1>5, FinishTyped DEF WriteConflict, Stopped, ReadError, TypeOK, sourceVars, history
<1>6. CASE WriteCut
  BY <1>6, FinishTyped, WrittenTyped DEF WriteCut, Interrupted, TypeOK, sourceVars, history
<1>7. CASE Advance
  <2>1. run.next \in Stamps /\ Nil \in Stamps /\ NoRows \in [Keys -> Stamps]
    BY DEF TypeOK, Run, Nil, NoRows, Stamps, SyncAssumption
  <2>2. Cardinality(Read) \in Nat
    BY Counts DEF Read
  <2>3. reports' \in SUBSET Stamps
    BY <1>7, <2>1, ReportedTyped DEF Advance, TypeOK
  <2> DEFINE after  == IF Mode # "full" /\ Advanced(run.next, run.after) THEN run.next ELSE run.after
             offset == IF Mode = "full" THEN run.offset + Cardinality(Read) ELSE run.offset
             current == IF Mode = "full" THEN Nil ELSE run.next
  <2>4. \/ run' = [IdleRun EXCEPT !.outcome = "success"]
        \/ \E x \in {"fetch", "sleep"} :
             run' = [run EXCEPT !.pc = x, !.after = after, !.offset = offset,
                                !.current = current, !.batch = NoRows, !.next = Nil]
    BY <1>7 DEF Advance
  <2>5. run' \in Run
    <3>1. CASE run' = [IdleRun EXCEPT !.outcome = "success"]
      BY <3>1, IdleTyped
    <3>2. after \in Stamps /\ offset \in Nat /\ current \in Stamps
      BY <2>1, <2>2 DEF TypeOK, Run
    <3>3. ASSUME NEW x \in {"fetch", "sleep"},
                 run' = [run EXCEPT !.pc = x, !.after = after, !.offset = offset,
                                    !.current = current, !.batch = NoRows, !.next = Nil]
          PROVE  run' \in Run
      <4> HIDE DEF after, offset, current
      <4> QED
        BY <2>1, <3>2, <3>3 DEF TypeOK, Run
    <3>4. QED
      BY <2>4, <3>1, <3>3
  <2>6. QED
    BY <1>7, <2>3, <2>5 DEF Advance, TypeOK, sourceVars, history
<1>8. CASE Wake
  BY <1>8, RunUpdates DEF Wake, TypeOK, sourceVars, nodeVars, history
<1>9. QED
  BY <1>1, <1>2, <1>3, <1>4, <1>5, <1>6, <1>7, <1>8 DEF RunStep

LEMMA TypeNext == SyncAssumption /\ TypeOK /\ [Next]_vars => TypeOK'
<1> SUFFICES ASSUME SyncAssumption, TypeOK, [Next]_vars PROVE TypeOK'
  OBVIOUS
<1>1. CASE Cancel
  BY <1>1, RunUpdates DEF Cancel, TypeOK, sourceVars, nodeVars, history
<1>2. CASE Crash
  BY <1>2, IdleTyped, WrittenTyped DEF Crash, TypeOK, IdleRun, sourceVars, nodeVars, history
<1>3. CASE \E p \in reports : Persist(p)
  BY <1>3 DEF Persist, TypeOK, sourceVars, history
<1>4. CASE UNCHANGED vars
  BY <1>4 DEF vars, TypeOK
<1>5. QED
  BY <1>1, <1>2, <1>3, <1>4, TypeSource, TypeStart, TypeRun DEF Next

\* Every reachable state of a run, its tables and its reports has its type, in every mode
\* (realRunner, offset store).
THEOREM TypeCorrect == Spec => []TypeOK
<1>1. Init => TypeOK
  BY TypeInit, SyncAssumption
<1>2. TypeOK /\ [Next]_vars => TypeOK'
  BY TypeNext, SyncAssumption
<1>3. QED
  BY <1>1, <1>2, PTL DEF Spec

-----------------------------------------------------------------------------
(* The persisted position never runs ahead of the target *)

\* The configurations the code can resume without loss: a polling column with unique values
\* that only grow, a target that keeps what was copied, and for pipelines, which start
\* anew, a single run.
Resumable == /\ Mode = "incremental" \/ (Mode = "cdc" /\ MaxRuns <= 1)
             /\ WriteMode # "overwrite"
             /\ Kinds \subseteq {"delete"}

\* Positions count the writes.
Counted ==
  /\ \A k \in Keys : source[k].pos = source[k].ver /\ source[k].pos <= clock
  /\ \A j, k \in Keys : source[j].pos = source[k].pos /\ source[k].pos # 0 => j = k

\* The positions from which a run may be resumed, now or once a report is handled.
Claims == {persisted, run.after, run.current} \cup reports
            \cup (IF run.pc = "advance" THEN {run.next} ELSE {})

Claimed == \A p \in Claims : p <= clock /\ CopiedUpTo(p)

\* A batch read and not yet written holds every row between its positions; a row that was
\* written since it was read lies beyond every claim.
BatchComplete ==
  run.pc = "write" =>
    /\ run.next <= clock
    /\ \A k \in Keys : source[k].pos \in run.after + 1 .. run.next => run.batch[k] = source[k].ver
    /\ \A k \in Read : \/ run.batch[k] = source[k].ver
                       \/ source[k].ver = 0
                       \/ \A p \in Claims \cup {run.next} : p < source[k].pos

Resume == TypeOK /\ Counted /\ Claimed /\ BatchComplete

\* The numbers a proof about Resume meets.
LEMMA Numbers ==
  ASSUME SyncAssumption, TypeOK
  PROVE  /\ clock \in Nat /\ began \in Nat /\ run.next \in Nat /\ run.after \in Nat
         /\ \A k \in Keys : source[k].pos \in Nat /\ source[k].ver \in Nat
         /\ Claims \in SUBSET Nat
<1>1. Stamps \subseteq Nat
  BY DEF Stamps, SyncAssumption
<1>2. run.next \in Stamps /\ run.after \in Stamps /\ run.current \in Stamps
  BY DEF TypeOK, Run
<1>3. \A k \in Keys : source[k].pos \in Stamps /\ source[k].ver \in Stamps
  BY DEF TypeOK, Row
<1>4. Claims \subseteq Stamps
  BY <1>2 DEF Claims, TypeOK
<1>5. QED
  BY <1>1, <1>2, <1>3, <1>4 DEF TypeOK

\* A committed batch keeps every claim, and makes its own position one.
LEMMA CommitCovers ==
  ASSUME SyncAssumption, Resume, run.pc = "write"
  PROVE  /\ \A p \in Claims \cup {run.next}, k \in Keys :
              source[k].pos \in began + 1 .. p => Written[k] = source[k].ver
<1> SUFFICES ASSUME NEW p \in Claims \cup {run.next}, NEW k \in Keys,
                    source[k].pos \in began + 1 .. p
             PROVE  Written[k] = source[k].ver
  OBVIOUS
<1>1. source[k].ver # 0 /\ ~(p < source[k].pos) /\ source[k].pos \in Nat
  BY Numbers DEF Resume, Counted
<1>2. CASE k \in Read
  BY <1>1, <1>2 DEF Resume, BatchComplete, Written
<1>3. CASE k \notin Read
  <2>1. Written[k] = target[k] /\ run.batch[k] = 0
    BY <1>3 DEF Written, Read
  <2>2. CASE p \in Claims
    BY <2>1, <2>2 DEF Resume, Claimed, CopiedUpTo
  <2>3. CASE p = run.next
    <3>1. ~(source[k].pos \in run.after + 1 .. run.next)
      BY <1>1, <2>1 DEF Resume, BatchComplete
    <3>2. source[k].pos \in began + 1 .. run.after
      BY <2>3, <3>1, Numbers DEF Resume
    <3>3. run.after \in Claims
      BY DEF Claims
    <3>4. QED
      BY <2>1, <3>2, <3>3 DEF Resume, Claimed, CopiedUpTo
  <2>4. QED
    BY <2>2, <2>3
<1>4. QED
  BY <1>2, <1>3

\* No step invents a position: then what was covered stays covered.
LEMMA ClaimsKept ==
  ASSUME SyncAssumption, Resume, UNCHANGED <<source, clock, began>>,
         \A p \in Claims' : p = 0 \/ (p \in Claims \cup {run.next} /\ p <= clock /\
            \A k \in Keys : source[k].pos \in began + 1 .. p => target'[k] = source[k].ver)
  PROVE  Claimed'
<1> SUFFICES ASSUME NEW p \in Claims' PROVE p <= clock /\ CopiedUpTo(p)'
  BY DEF Claimed
<1>1. CASE p = 0
  BY <1>1, Numbers DEF Resume, CopiedUpTo
<1>2. CASE p # 0
  BY <1>2 DEF CopiedUpTo
<1>3. QED
  BY <1>1, <1>2

\* The ways a run ends.
LEMMA Ended ==
  ASSUME SyncAssumption, Resume, UNCHANGED <<source, clock, began, persisted>>,
         target' \in {target} \cup (IF run.pc = "write" THEN {Written} ELSE {}),
         NEW s, run' \in {IdleRun, [IdleRun EXCEPT !.outcome = s]},
         UNCHANGED reports \/ \E p \in Claims : Reported(p)
  PROVE  Counted' /\ Claimed' /\ BatchComplete'
<1>1. run'.pc = "idle" /\ run'.after = 0 /\ run'.current = 0
  BY DEF IdleRun, Nil
<1>2. \A p \in Claims' : p = 0 \/ p \in Claims
  BY <1>1 DEF Claims, Reported
<1>3. \A p \in Claims, k \in Keys : source[k].pos \in began + 1 .. p => target'[k] = source[k].ver
  BY CommitCovers DEF Resume, Claimed, CopiedUpTo
<1>4. Claimed'
  BY <1>2, <1>3, ClaimsKept DEF Resume, Claimed
<1>5. QED
  BY <1>1, <1>4 DEF Resume, Counted, BatchComplete

LEMMA Finished ==
  ASSUME SyncAssumption, Resume, UNCHANGED <<source, clock, began, persisted>>,
         target' \in {target} \cup (IF run.pc = "write" THEN {Written} ELSE {}),
         NEW s, Finish(s)
  PROVE  Counted' /\ Claimed' /\ BatchComplete'
<1>1. run.current \in Claims
  BY DEF Claims
<1>2. QED
  BY <1>1, Ended DEF Finish

LEMMA ResumeSource ==
  ASSUME SyncAssumption, Resumable, Resume, NEW k \in Keys, Write(k) \/ Delete(k)
  PROVE  Counted' /\ Claimed' /\ BatchComplete'
<1> DEFINE Moves(p) == /\ source' = [source EXCEPT ![k] = [ver |-> p, pos |-> p]]
                       /\ clock' >= clock /\ clock' \in Nat /\ p <= clock'
                       /\ p = 0 \/ p > clock
<1>1. PICK p \in Nat : Moves(p)
  <2>1. clock \in Nat
    BY Numbers DEF Resume
  <2>2. CASE Write(k)
    <3>1. source' = [source EXCEPT ![k] = [ver |-> clock + 1, pos |-> clock + 1]] /\ clock' = clock + 1
      BY <2>2 DEF Write, Resumable
    <3>2. Moves(clock + 1) /\ clock + 1 \in Nat
      BY <2>1, <3>1
    <3> HIDE DEF Moves
    <3>3. QED
      BY <3>2
  <2>3. CASE Delete(k)
    <3>1. Moves(0) /\ 0 \in Nat
      BY <2>1, <2>3 DEF Delete
    <3> HIDE DEF Moves
    <3>2. QED
      BY <3>1
  <2>4. QED
    BY <2>2, <2>3
<1>2. UNCHANGED <<target, persisted, reports, run, began>>
  BY DEF Write, Delete, nodeVars
<1>3. source \in [Keys -> Row] /\ source'[k].pos = p /\ source'[k].ver = p
  BY <1>1 DEF Resume, TypeOK
<1>4. \A j \in Keys : j # k => source'[j] = source[j]
  BY <1>1, <1>3
<1>5. \A c \in Claims : c <= clock
  BY DEF Resume, Claimed
<1>6. Claims' = Claims
  BY <1>2 DEF Claims
<1>7. Counted'
  BY <1>1, <1>3, <1>4, Numbers DEF Resume, Counted
<1>8. Claimed'
  <2> SUFFICES ASSUME NEW c \in Claims PROVE c <= clock' /\ CopiedUpTo(c)'
    BY <1>6 DEF Claimed
  <2>1. c <= clock'
    BY <1>1, <1>5, Numbers DEF Resume
  <2>2. ASSUME NEW j \in Keys, source'[j].pos \in began + 1 .. c PROVE target[j] = source'[j].ver
    <3>1. j # k
      BY <1>1, <1>3, <1>5, <2>2, Numbers DEF Resume
    <3>2. QED
      BY <1>4, <2>2, <3>1 DEF Resume, Claimed, CopiedUpTo
  <2>3. QED
    BY <1>2, <2>1, <2>2 DEF CopiedUpTo
<1>9. BatchComplete'
  <2> SUFFICES ASSUME run.pc = "write" PROVE BatchComplete'
    BY <1>2 DEF BatchComplete
  <2>1. run.next <= clock
    BY DEF Resume, BatchComplete
  <2>2. run.next <= clock'
    BY <1>1, <2>1, Numbers DEF Resume
  <2>3. ASSUME NEW j \in Keys, source'[j].pos \in run.after + 1 .. run.next
        PROVE  run.batch[j] = source'[j].ver
    <3>1. j # k
      BY <1>1, <1>3, <2>1, <2>3, Numbers DEF Resume
    <3>2. QED
      BY <1>4, <2>3, <3>1 DEF Resume, BatchComplete
  <2>4. ASSUME NEW j \in Read
        PROVE  \/ run.batch[j] = source'[j].ver
               \/ source'[j].ver = 0
               \/ \A c \in Claims \cup {run.next} : c < source'[j].pos
    <3>1. CASE j # k
      BY <1>4, <3>1 DEF Resume, BatchComplete, Read
    <3>2. CASE j = k
      BY <1>1, <1>3, <1>5, <2>1, <3>2, Numbers DEF Resume
    <3>3. QED
      BY <3>1, <3>2
  <2>5. Read' = Read
    BY <1>2 DEF Read
  <2>6. QED
    BY <1>2, <1>6, <2>2, <2>3, <2>4, <2>5 DEF BatchComplete
<1>10. QED
  BY <1>7, <1>8, <1>9

\* A run starts from a position that is a claim, or (cdc) begins at the newest one.
LEMMA ResumeStart ==
  ASSUME SyncAssumption, Resumable, Resume, Start
  PROVE  Counted' /\ Claimed' /\ BatchComplete'
<1>1. run'.pc = "prepare" /\ run'.current = 0
  BY DEF Start, IdleRun, Nil
<1>2. UNCHANGED <<source, clock, target, reports>>
  BY DEF Start, sourceVars
<1>3. Counted' /\ BatchComplete'
  BY <1>1, <1>2 DEF Resume, Counted, BatchComplete
<1>4. CASE Mode = "incremental"
  <2>1. run'.after = persisted /\ persisted' = persisted /\ began' = began
    BY <1>4 DEF Start, IdleRun
  <2>2. Claims' \subseteq Claims \cup {0}
    BY <1>1, <1>2, <2>1 DEF Claims
  <2>3. Claimed'
    BY <1>2, <2>1, <2>2, ClaimsKept DEF Resume, Claimed, CopiedUpTo
  <2>4. QED
    BY <1>3, <2>3
<1>5. CASE Mode = "cdc" /\ MaxRuns <= 1
  <2>1. runs = 0
    BY <1>5 DEF Start, Resume, TypeOK, SyncAssumption
  <2>2. run'.after = clock /\ persisted' = 0 /\ began' = clock
    BY <1>5, <2>1 DEF Start, IdleRun, Nil
  <2>3. \A p \in Claims' : p <= clock /\ p \in Nat
    BY <1>1, <1>2, <2>2, Numbers DEF Claims, Resume, Claimed
  <2>4. Claimed'
    BY <1>2, <2>2, <2>3, Numbers DEF Claimed, CopiedUpTo, Resume
  <2>5. QED
    BY <1>3, <2>4
<1>6. QED
  BY <1>4, <1>5 DEF Resumable

\* The batch a query returns: nothing between the old and the new position is left out.
LEMMA BatchClosed ==
  ASSUME SyncAssumption, Resume, NEW B \in Batches(run.after), B # {}
  PROVE  /\ B \subseteq Keys /\ MaxValue(B) <= clock
         /\ \A k \in Keys : source[k].pos \in run.after + 1 .. MaxValue(B) => k \in B
<1>1. B \subseteq Eligible(run.after) /\ B \subseteq Present /\ B \subseteq Keys
  BY BatchesWithin DEF Present
<1>2. \A k \in Present : source[k].pos # 0 /\ Rank(k) = source[k].pos
  BY DEF Resume, Counted, Present, Rank
<1>3. PICK b \in B : source[b].pos = MaxValue(B)
  BY <1>1, <1>2, MaxValueGreatest DEF Resume, TypeOK
<1>4. MaxValue(B) <= clock
  BY <1>1, <1>3 DEF Resume, Counted
<1>5. ASSUME NEW k \in Keys, source[k].pos \in run.after + 1 .. MaxValue(B), k \notin B
      PROVE  FALSE
  <2>1. source[k].pos > run.after /\ source[k].pos # 0 /\ source[k].pos <= source[b].pos
    BY <1>3, <1>5, Numbers DEF Resume
  <2>2. k \in Present
    BY <2>1 DEF Resume, Counted, Present
  <2>3. k \in Eligible(run.after) \ B
    BY <1>5, <2>1, <2>2 DEF Eligible
  <2>4. Rank(b) <= Rank(k)
    BY <2>3 DEF Batches
  <2>5. source[b].pos <= source[k].pos
    BY <1>1, <1>2, <2>2, <2>4
  <2>6. source[b].pos = source[k].pos
    BY <1>1, <2>1, <2>5, Numbers DEF Resume
  <2>7. QED
    BY <1>1, <1>5, <2>1, <2>6 DEF Resume, Counted
<1>6. QED
  BY <1>1, <1>4, <1>5

LEMMA ResumeFetch ==
  ASSUME SyncAssumption, Resumable, Resume, FetchRows
  PROVE  Counted' /\ Claimed' /\ BatchComplete'
<1>1. PICK B \in Batches(run.after) :
        /\ B # {}
        /\ run' = [run EXCEPT !.pc = "write",
                              !.batch = [k \in Keys |-> IF k \in B THEN source[k].ver ELSE 0],
                              !.next = MaxValue(B)]
  BY DEF FetchRows, Resumable
<1>2. UNCHANGED <<source, clock, target, persisted, reports, began>> /\ run.pc = "fetch"
  BY DEF FetchRows, sourceVars, nodeVars, history
<1>3. /\ run'.pc = "write" /\ run'.after = run.after /\ run'.current = run.current
      /\ run'.batch = [k \in Keys |-> IF k \in B THEN source[k].ver ELSE 0]
      /\ run'.next = MaxValue(B)
  BY <1>1 DEF Resume, TypeOK, Run
<1>4. Claims' = Claims
  BY <1>2, <1>3 DEF Claims
<1>5. Claimed'
  BY <1>2, <1>4, ClaimsKept DEF Resume, Claimed, CopiedUpTo
<1>6. BatchComplete'
  <2>1. /\ MaxValue(B) <= clock
        /\ \A k \in Keys : source[k].pos \in run.after + 1 .. MaxValue(B) => k \in B
    BY <1>1, BatchClosed
  <2>2. \A k \in Read' : run'.batch[k] = source[k].ver
    BY <1>3 DEF Read
  <2>3. \A k \in Keys : k \in B => run'.batch[k] = source[k].ver
    BY <1>3
  <2>4. QED
    BY <1>2, <1>3, <2>1, <2>2, <2>3 DEF BatchComplete
<1>7. QED
  BY <1>2, <1>5, <1>6 DEF Resume, Counted

LEMMA ResumeAdvance ==
  ASSUME SyncAssumption, Resumable, Resume, Advance
  PROVE  Counted' /\ Claimed' /\ BatchComplete'
<1>1. UNCHANGED <<source, clock, target, persisted, began>> /\ run.pc = "advance"
  BY DEF Advance, sourceVars, history
<1>2. run.next \in Claims /\ run.after \in Claims
  BY <1>1 DEF Claims
<1>3. UNCHANGED reports \/ Reported(run.next)
  BY DEF Advance, Resumable
<1>4. \/ run' = [IdleRun EXCEPT !.outcome = "success"]
      \/ /\ run'.pc \in {"fetch", "sleep"} /\ run'.after \in {run.after, run.next}
         /\ run'.current = run.next
  BY DEF Advance, Resumable, Resume, TypeOK, Run
<1>5. CASE run' = [IdleRun EXCEPT !.outcome = "success"]
  BY <1>1, <1>2, <1>3, <1>5, Ended
<1>6. CASE /\ run'.pc \in {"fetch", "sleep"} /\ run'.after \in {run.after, run.next}
           /\ run'.current = run.next
  <2>1. Claims' \subseteq Claims
    BY <1>1, <1>2, <1>3, <1>6 DEF Claims, Reported
  <2>2. Claimed'
    BY <1>1, <2>1, ClaimsKept DEF Resume, Claimed, CopiedUpTo
  <2>3. QED
    BY <1>1, <1>6, <2>2 DEF Resume, Counted, BatchComplete
<1>7. QED
  BY <1>4, <1>5, <1>6

\* The steps of a run that move neither rows nor positions.
LEMMA ResumeQuiet ==
  ASSUME SyncAssumption, Resume, UNCHANGED <<source, clock, target, persisted, began>>,
         run.pc # "advance", run'.pc \notin {"write", "advance"},
         run'.after = run.after, run'.current \in Claims,
         UNCHANGED reports \/ \E p \in Claims : Reported(p)
  PROVE  Counted' /\ Claimed' /\ BatchComplete'
<1>1. Claims' \subseteq Claims
  BY DEF Claims, Reported
<1>2. Claimed'
  BY <1>1, ClaimsKept DEF Resume, Claimed, CopiedUpTo
<1>3. QED
  BY <1>2 DEF Resume, Counted, BatchComplete

LEMMA ResumeRun ==
  ASSUME SyncAssumption, Resumable, Resume, RunStep
  PROVE  Counted' /\ Claimed' /\ BatchComplete'
<1>1. run.after \in Claims /\ run.current \in Claims
  BY DEF Claims
<1>2. Attempted \subseteq {target} \cup {Written}
  BY DEF Attempted
<1>3. CASE Prepare
  <2>1. run'.pc = "fetch" /\ run'.after = run.after /\ run'.current = run.after
    BY <1>3 DEF Prepare, Resume, TypeOK, Run
  <2>2. QED
    BY <1>1, <1>3, <2>1, ResumeQuiet DEF Prepare, Resumable, sourceVars, history
<1>4. CASE FetchRows
  BY <1>4, ResumeFetch
<1>5. CASE FetchNothing
  <2>1. CASE Mode = "cdc"
    <3>1. run'.pc = "sleep" /\ run'.after = run.after /\ run'.current = run.current
      BY <1>5, <2>1 DEF FetchNothing, Resume, TypeOK, Run
    <3>2. QED
      BY <1>1, <1>5, <2>1, <3>1, ResumeQuiet DEF FetchNothing, sourceVars, history
  <2>2. CASE Mode # "cdc"
    BY <1>5, <2>2, Finished DEF FetchNothing, sourceVars, history
  <2>3. QED
    BY <2>1, <2>2
<1>6. CASE WriteCommit
  <2>1. /\ run.pc = "write" /\ target' = Written
        /\ UNCHANGED <<source, clock, persisted, reports, began>>
    BY <1>6 DEF WriteCommit, sourceVars, nodeVars, history
  <2>2. /\ run'.pc = "advance" /\ run'.after = run.after /\ run'.current = run.current
        /\ run'.next = run.next
    BY <1>6 DEF WriteCommit, Resume, TypeOK, Run
  <2>3. Claims' = Claims \cup {run.next}
    BY <2>1, <2>2 DEF Claims
  <2>4. Claimed'
    BY <2>1, <2>3, CommitCovers, ClaimsKept DEF Resume, Claimed, BatchComplete
  <2>5. QED
    BY <2>1, <2>2, <2>4 DEF Resume, Counted, BatchComplete
<1>7. CASE WriteConflict \/ Stopped \/ ReadError
  <2>1. PICK s \in {"failed", "stopped"} : Finish(s)
    BY <1>7 DEF WriteConflict, Stopped, ReadError
  <2>2. UNCHANGED <<source, clock, began, persisted, target>>
    BY <1>7 DEF WriteConflict, Stopped, ReadError, sourceVars, history
  <2>3. QED
    BY <2>1, <2>2, Finished
<1>8. CASE WriteCut
  <2>1. PICK s \in {"failed", "stopped"} : Finish(s)
    BY <1>8 DEF WriteCut, Interrupted
  <2>2. /\ UNCHANGED <<source, clock, began, persisted>>
        /\ target' \in {target} \cup (IF run.pc = "write" THEN {Written} ELSE {})
    BY <1>2, <1>8 DEF WriteCut, sourceVars, history
  <2>3. QED
    BY <2>1, <2>2, Finished
<1>9. CASE Advance
  BY <1>9, ResumeAdvance
<1>10. CASE Wake
  <2>1. run'.pc = "fetch" /\ run'.after = run.after /\ run'.current = run.current
    BY <1>10 DEF Wake, Resume, TypeOK, Run
  <2>2. QED
    BY <1>1, <1>10, <2>1, ResumeQuiet DEF Wake, sourceVars, nodeVars, history
<1>11. QED
  BY <1>3, <1>4, <1>5, <1>6, <1>7, <1>8, <1>9, <1>10 DEF RunStep

LEMMA ResumeNext ==
  ASSUME SyncAssumption, Resumable, Resume, [Next]_vars
  PROVE  Resume'
<1>1. TypeOK'
  BY TypeNext DEF Resume
<1>2. Counted' /\ Claimed' /\ BatchComplete'
  <2>1. CASE Cancel
    <3>1. /\ run'.pc = run.pc /\ run'.after = run.after /\ run'.current = run.current
          /\ run'.next = run.next /\ run'.batch = run.batch
      BY <2>1 DEF Cancel, Resume, TypeOK, Run
    <3>2. UNCHANGED <<source, clock, target, persisted, reports, began>>
      BY <2>1 DEF Cancel, sourceVars, nodeVars, history
    <3>3. Claims' = Claims /\ Read' = Read
      BY <3>1, <3>2 DEF Claims, Read
    <3>4. QED
      BY <3>1, <3>2, <3>3 DEF Resume, Counted, Claimed, CopiedUpTo, BatchComplete
  <2>2. CASE Crash
    <3>1. run' = IdleRun
      BY <2>2 DEF Crash
    <3>2. target' \in {target} \cup (IF run.pc = "write" THEN {Written} ELSE {})
      BY <2>2 DEF Crash, Attempted
    <3>3. QED
      BY <2>2, <3>1, <3>2, Ended DEF Crash, sourceVars, nodeVars, history
  <2>3. CASE \E p \in reports : Persist(p)
    <3>1. /\ persisted' \in reports /\ reports' \subseteq reports
          /\ UNCHANGED <<source, clock, target, run, began>>
      BY <2>3 DEF Persist, sourceVars, history
    <3>2. Claims' \subseteq Claims /\ Read' = Read
      BY <3>1 DEF Claims, Read
    <3>3. QED
      BY <3>1, <3>2 DEF Resume, Counted, Claimed, CopiedUpTo, BatchComplete
  <2>4. CASE UNCHANGED vars
    BY <2>4 DEF vars, Resume, Counted, Claimed, CopiedUpTo, Claims, BatchComplete, Read
  <2>5. QED
    BY <2>1, <2>2, <2>3, <2>4, ResumeSource, ResumeStart, ResumeRun DEF Next
<1>3. QED
  BY <1>1, <1>2 DEF Resume

LEMMA ResumeInit == SyncAssumption /\ Init => Resume
<1> SUFFICES ASSUME SyncAssumption, Init PROVE Resume
  OBVIOUS
<1>1. TypeOK
  BY TypeInit
<1>2. Claims = {0} /\ run.pc = "idle"
  BY DEF Init, Claims, IdleRun, Nil
<1>3. QED
  BY <1>1, <1>2 DEF Init, Resume, Counted, Claimed, CopiedUpTo, BatchComplete

\* With unique, growing positions and a target that is not cleared, whatever is stopped,
\* lost, delayed or crashes: every row up to the persisted position is in the target
\* (real_runner.go incremental and cdc, offset.repository upsert).
THEOREM OffsetSafe ==
  ASSUME Resumable
  PROVE  Spec => []OffsetCovered
<1>1. Init => Resume
  BY ResumeInit, SyncAssumption
<1>2. Resume /\ [Next]_vars => Resume'
  BY ResumeNext, SyncAssumption
<1>3. Resume => OffsetCovered
  BY DEF Resume, Claimed, Claims, OffsetCovered
<1>4. QED
  BY <1>1, <1>2, <1>3, PTL DEF Spec

-----------------------------------------------------------------------------
(* A successful incremental run has copied the table *)

\* The outcome is written last, a batch moves the position, and nothing below the first
\* position is ever skipped.
Forward == /\ run.pc # "idle" => run.outcome = "none"
           /\ run.pc \in {"write", "advance"} => run.next > run.after
           /\ began = 0

\* What a step can do to the program counter, the positions and the outcome of a run.
LEMMA RunEffects ==
  ASSUME TypeOK, RunStep \/ Start \/ Cancel \/ Crash
  PROVE  \/ \E s \in {"none", "success", "failed", "stopped"} :
              run' \in {IdleRun, [IdleRun EXCEPT !.outcome = s]}
         \/ run'.pc \in {"prepare", "fetch", "sleep"} /\ run'.outcome \in {run.outcome, "none"}
         \/ FetchRows /\ run'.outcome = run.outcome
         \/ /\ WriteCommit \/ Cancel
            /\ run'.outcome = run.outcome /\ run'.after = run.after /\ run'.next = run.next
<1>1. CASE Start
  BY <1>1 DEF Start, IdleRun
<1>2. CASE Cancel \/ WriteCommit \/ FetchRows
  BY <1>2 DEF Cancel, WriteCommit, FetchRows, TypeOK, Run
<1>3. CASE Prepare \/ Wake
  BY <1>3 DEF Prepare, Wake, TypeOK, Run
<1>4. CASE Advance
  <2>1. \/ run' = [IdleRun EXCEPT !.outcome = "success"]
        \/ run'.pc \in {"fetch", "sleep"} /\ run'.outcome = run.outcome
    BY <1>4 DEF Advance, TypeOK, Run
  <2>2. QED
    BY <2>1
<1>5. CASE FetchNothing
  <2>1. CASE Mode = "cdc"
    BY <1>5, <2>1 DEF FetchNothing, TypeOK, Run
  <2>2. CASE Mode # "cdc"
    BY <1>5, <2>2 DEF FetchNothing, Finish
  <2>3. QED
    BY <2>1, <2>2
<1>6. CASE WriteConflict \/ WriteCut \/ Stopped \/ ReadError
  BY <1>6 DEF WriteConflict, WriteCut, Interrupted, Stopped, ReadError, Finish
<1>7. CASE Crash
  BY <1>7 DEF Crash
<1>8. QED
  BY <1>1, <1>2, <1>3, <1>4, <1>5, <1>6, <1>7 DEF RunStep

LEMMA FetchForward ==
  ASSUME SyncAssumption, Resumable, Resume, FetchRows
  PROVE  run'.next > run'.after
<1>1. PICK B \in Batches(run.after) : B # {} /\ run'.next = MaxValue(B) /\ run'.after = run.after
  BY DEF FetchRows, Resumable, Resume, TypeOK, Run
<1>2. B \subseteq Eligible(run.after) /\ B \subseteq Present /\ B \subseteq Keys
  BY BatchesWithin DEF Present
<1>3. PICK b \in B : source[b].pos = MaxValue(B)
  BY <1>1, <1>2, MaxValueGreatest DEF Resume, TypeOK, Counted, Present
<1>4. source[b].pos # 0 /\ (run.after = 0 \/ source[b].pos > run.after)
  BY <1>2, <1>3 DEF Eligible, Present, Resume, Counted, Nil
<1>5. QED
  BY <1>1, <1>2, <1>3, <1>4, Numbers DEF Resume

LEMMA ForwardNext ==
  ASSUME SyncAssumption, Resumable, Mode = "incremental", Resume, Forward, [Next]_vars
  PROVE  Forward'
<1>1. began' = 0
  BY DEF Forward, Next, RunStep, Write, Delete, Start, Prepare, FetchRows, FetchNothing,
         WriteCommit, WriteConflict, WriteCut, Advance, Wake, Cancel, Stopped, ReadError, Crash,
         Persist, history, vars
<1>2. CASE UNCHANGED run
  BY <1>1, <1>2 DEF Forward
<1>3. CASE RunStep \/ Start \/ Cancel \/ Crash
  <2>1. ASSUME NEW s, run' \in {IdleRun, [IdleRun EXCEPT !.outcome = s]} PROVE Forward'
    BY <1>1, <2>1 DEF Forward, IdleRun
  <2>2. CASE run'.pc \in {"prepare", "fetch", "sleep"} /\ run'.outcome \in {run.outcome, "none"}
    <3>1. run.pc # "idle" \/ Start
      BY <1>3, <2>2 DEF RunStep, Prepare, FetchRows, FetchNothing, WriteCommit, WriteConflict,
                        WriteCut, Advance, Wake, Cancel, Stopped, ReadError, Crash
    <3>2. Start => run'.outcome = "none"
      BY DEF Start, IdleRun
    <3>3. QED
      BY <1>1, <2>2, <3>1, <3>2 DEF Forward
  <2>3. CASE FetchRows /\ run'.outcome = run.outcome
    BY <1>1, <2>3, FetchForward DEF Forward, FetchRows
  <2>4. CASE /\ WriteCommit \/ Cancel
             /\ run'.outcome = run.outcome /\ run'.after = run.after /\ run'.next = run.next
    BY <1>1, <2>4 DEF Forward, WriteCommit, Cancel, Resume, TypeOK, Run
  <2>5. QED
    BY <1>3, <2>1, <2>2, <2>3, <2>4, RunEffects DEF Resume
<1>4. QED
  BY <1>2, <1>3 DEF Next, Write, Delete, Persist, vars

\* A query returns nothing only if nothing is left above the position.
LEMMA NothingLeft ==
  ASSUME SyncAssumption, NEW a, {} \in Batches(a)
  PROVE  Eligible(a) = {}
<1>1. Eligible(a) \in SUBSET Keys
  BY DEF Eligible, Present
<1>2. IsFiniteSet(Eligible(a)) /\ Cardinality(Eligible(a)) \in Nat
  BY <1>1, FS_Subset, FS_CardinalityType DEF SyncAssumption
<1>3. Cardinality({}) = 0
  BY FS_EmptySet
<1>4. Cardinality(Eligible(a)) = 0
  BY <1>2, <1>3 DEF Batches, SyncAssumption
<1>5. QED
  BY <1>2, <1>4, FS_EmptySet

\* Only a query that returns nothing lets such a run succeed.
LEMMA SuccessIsNothing ==
  ASSUME SyncAssumption, Resumable, Mode = "incremental", Resume, Forward, [Next]_vars,
         run.pc # "idle", run'.outcome = "success"
  PROVE  FetchNothing
<1>1. run.outcome = "none"
  BY DEF Forward
<1>2. ~UNCHANGED run /\ ~Start /\ ~Crash /\ ~Cancel
  BY <1>1 DEF Start, Crash, Cancel, IdleRun, Resume, TypeOK, Run
<1>3. RunStep
  BY <1>2 DEF Next, Write, Delete, Persist, vars
<1>4. ~(Prepare \/ FetchRows \/ WriteCommit \/ Wake)
  BY <1>1 DEF Prepare, FetchRows, WriteCommit, Wake, Resume, TypeOK, Run
<1>5. ~(WriteConflict \/ WriteCut \/ Stopped \/ ReadError)
  BY <1>1 DEF WriteConflict, WriteCut, Interrupted, Stopped, ReadError, Finish, IdleRun
<1>6. ~Advance
  <2> SUFFICES ASSUME Advance PROVE FALSE
    OBVIOUS
  <2>1. run.next > run.after /\ run.next \in Nat /\ run.after \in Nat
    BY Numbers DEF Advance, Forward, Resume
  <2>2. Advanced(run.next, run.after)
    BY <2>1 DEF Advanced, Nil
  <2>3. run'.outcome = run.outcome
    BY <2>2 DEF Advance, Resume, TypeOK, Run
  <2>4. QED
    BY <1>1, <2>3
<1>7. QED
  BY <1>3, <1>4, <1>5, <1>6 DEF RunStep

LEMMA SuccessCopies ==
  ASSUME SyncAssumption, Resumable, Mode = "incremental", Resume, Forward, FetchNothing
  PROVE  \A k \in Present : target[k] = source[k].ver
<1> SUFFICES ASSUME NEW k \in Present PROVE target[k] = source[k].ver
  OBVIOUS
<1>1. k \in Keys /\ source[k].pos # 0 /\ source[k].pos \in Nat
  BY Numbers DEF Present, Resume, Counted
<1>2. Eligible(run.after) = {}
  BY NothingLeft DEF FetchNothing
<1>3. run.after # 0 /\ ~(source[k].pos > run.after)
  BY <1>2 DEF Eligible, Nil
<1>4. source[k].pos \in began + 1 .. run.after
  BY <1>1, <1>3, Numbers DEF Resume, Forward
<1>5. QED
  BY <1>1, <1>4 DEF Resume, Claimed, Claims, CopiedUpTo

\* A run that reports success has copied every row there is, however often runs before it
\* were cut, lost their reports or crashed (real_runner.go incremental).
THEOREM IncrementalSuccess ==
  ASSUME Resumable, Mode = "incremental"
  PROVE  Spec => SuccessMeansCopied
<1>1. Init => Resume /\ Forward
  BY ResumeInit, SyncAssumption DEF Init, Forward, IdleRun
<1>2. Resume /\ Forward /\ [Next]_vars => Resume' /\ Forward'
  BY ResumeNext, ForwardNext, SyncAssumption
<1>3. Resume /\ Forward /\ [Next]_vars =>
        [run.pc # "idle" /\ run'.outcome = "success" =>
           \/ Mode = "full" /\ disturbed
           \/ \A k \in IF WriteMode = "overwrite" THEN Keys ELSE Present :
                target[k] = source[k].ver]_vars
  BY SuccessIsNothing, SuccessCopies, SyncAssumption DEF Resumable
<1>4. QED
  BY <1>1, <1>2, <1>3, PTL DEF Spec, SuccessMeansCopied

-----------------------------------------------------------------------------
(* A full copy                                                             *)

\* The rows before k in the order of the pages.
Before(k) == {j \in Present : j < k}

\* While nobody writes, the pages read so far are copied, and only they; the batch is the
\* page at the offset.
PagedCopy ==
  run.pc # "idle" /\ ~disturbed =>
    /\ run.total = Cardinality(Present)
    /\ run.pc = "prepare" => run.offset = 0
    /\ run.pc # "prepare" =>
         \A k \in Present : Cardinality(Before(k)) < run.offset => target[k] = source[k].ver
    /\ run.pc # "prepare" /\ WriteMode = "overwrite" => \A k \in Keys \ Present : target[k] = 0
    /\ run.pc \in {"write", "advance"} =>
         \A k \in Keys : run.batch[k] = IF k \in Page(run.offset) THEN source[k].ver ELSE 0
    /\ run.pc = "advance" => \A k \in Page(run.offset) : target[k] = source[k].ver

Copying == TypeOK /\ (run.pc # "idle" => run.outcome = "none") /\ PagedCopy

\* What success must mean, in the state in which it is reported.
Copied == \A k \in IF WriteMode = "overwrite" THEN Keys ELSE Present : target[k] = source[k].ver

LEMMA PresentOrdered ==
  ASSUME SyncAssumption
  PROVE  /\ IsFiniteSet(Present) /\ Cardinality(Present) \in Nat
         /\ \E below : Orders(below, Present) /\ \A k \in Present : below[k] = Before(k)
<1>1. Present \in SUBSET Keys /\ Keys \in SUBSET Nat
  BY DEF Present, SyncAssumption
<1>2. IsFiniteSet(Present) /\ Cardinality(Present) \in Nat
  BY <1>1, FS_Subset, FS_CardinalityType DEF SyncAssumption
<1>3. PICK below : below = [k \in Present |-> Before(k)]
  OBVIOUS
<1>4. Orders(below, Present)
  <2>1. below \in [Present -> SUBSET Present]
    BY <1>3 DEF Before
  <2>2. \A j, k \in Present : j \in below[k] <=> j < k
    BY <1>3 DEF Before
  <2>3. Present \subseteq Nat
    BY <1>1
  <2>4. \A j, k \in Present : j \in below[k] => below[j] \subseteq below[k]
    <3> SUFFICES ASSUME NEW j \in Present, NEW k \in Present, j < k, NEW i \in below[j]
                 PROVE  i \in below[k]
      BY <2>2
    <3>1. i \in Present /\ i < j
      BY <2>1, <2>2
    <3>2. i < k
      BY <2>3, <3>1
    <3>3. QED
      BY <2>2, <3>1, <3>2
  <2>5. QED
    BY <2>1, <2>2, <2>3, <2>4 DEF Orders
<1>5. QED
  BY <1>2, <1>3, <1>4

\* A page is what is left from the offset on, up to a batch.
LEMMA PageSize ==
  ASSUME SyncAssumption, NEW o \in Nat
  PROVE  /\ Cardinality(Page(o)) \in 0 .. BatchSize
         /\ (Cardinality(Page(o)) < BatchSize \/ o + Cardinality(Page(o)) >= Cardinality(Present)) =>
              \A k \in Present : Cardinality(Before(k)) < o + BatchSize
<1>0. BatchSize \in Nat \ {0} /\ IsFiniteSet(Present)
  BY PresentOrdered DEF SyncAssumption
<1>1. PICK n \in Nat : n = Cardinality(Present)
  BY PresentOrdered
<1>2. PICK below : Orders(below, Present) /\ \A k \in Present : below[k] = Before(k)
  BY PresentOrdered
<1>3. \A k \in Present : Cardinality(Before(k)) \in 0 .. n - 1
  BY <1>0, <1>1, <1>2, RanksOrdered
<1>4. PICK last \in Nat : last = IF n < o + BatchSize THEN n ELSE o + BatchSize
  BY <1>0
<1>5. Page(o) = {k \in Present : Cardinality(Before(k)) \in o .. last - 1}
  BY <1>0, <1>3, <1>4 DEF Page, Before
<1>6. CASE o <= n
  <2>1. o <= last /\ last <= n
    BY <1>0, <1>4, <1>6
  <2>2. Cardinality({k \in Present : Cardinality(below[k]) \in o .. last - 1}) = last - o
    BY <1>0, <1>1, <1>2, <2>1, RanksCounted
  <2>3. Page(o) = {k \in Present : Cardinality(below[k]) \in o .. last - 1}
    BY <1>2, <1>5
  <2>4. Cardinality(Page(o)) = last - o
    BY <2>2, <2>3
  <2>5. QED
    BY <1>0, <1>1, <1>3, <1>4, <1>6, <2>1, <2>4
<1>7. CASE ~(o <= n)
  <2>1. Page(o) = {}
    BY <1>0, <1>3, <1>4, <1>5, <1>7
  <2>2. Cardinality(Page(o)) = 0
    BY <2>1, FS_EmptySet
  <2>3. QED
    BY <1>0, <1>3, <1>7, <2>2
<1>8. QED
  BY <1>6, <1>7

\* An empty page lies behind all rows.
LEMMA PageBehind ==
  ASSUME SyncAssumption, NEW o \in Nat, Page(o) = {}
  PROVE  \A k \in Present : Cardinality(Before(k)) < o
<1>1. Cardinality(Page(o)) = 0
  BY FS_EmptySet
<1>3. BatchSize \in Nat \ {0}
  BY DEF SyncAssumption
<1>2. \A k \in Present : Cardinality(Before(k)) < o + BatchSize
  <2>1. Cardinality(Page(o)) < BatchSize
    BY <1>1, <1>3
  <2>2. QED
    BY <2>1, PageSize
<1>4. \A k \in Present : Cardinality(Before(k)) \in Nat
  <2>1. PICK below : Orders(below, Present) /\ \A k \in Present : below[k] = Before(k)
    BY PresentOrdered
  <2>2. \A k \in Present : Cardinality(below[k]) \in 0 .. Cardinality(Present) - 1
    BY <2>1, PresentOrdered, RanksOrdered
  <2>3. QED
    BY <2>1, <2>2
<1>5. QED
  BY <1>2, <1>3, <1>4 DEF Page, Before

\* The rows of the batch are those of the page.
LEMMA PageRead ==
  ASSUME SyncAssumption, Copying, run.pc \in {"write", "advance"}, ~disturbed
  PROVE  Read = Page(run.offset) /\ Page(run.offset) \subseteq Present /\ Present \subseteq Keys
  BY DEF Copying, PagedCopy, Read, Page, Present

\* After a page, copied up to the next one.
LEMMA PageCopied ==
  ASSUME SyncAssumption, Copying, run.pc = "advance", ~disturbed,
         NEW k \in Present, Cardinality(Before(k)) < run.offset + BatchSize
  PROVE  target[k] = source[k].ver
<1>1. PICK o \in Nat : o = run.offset
  BY DEF Copying, TypeOK, Run
<1>2. Cardinality(Before(k)) \in Nat /\ BatchSize \in Nat
  <2>1. PICK below : Orders(below, Present) /\ \A j \in Present : below[j] = Before(j)
    BY PresentOrdered
  <2>2. Cardinality(below[k]) \in 0 .. Cardinality(Present) - 1
    BY <2>1, PresentOrdered, RanksOrdered
  <2>3. QED
    BY <2>1, <2>2 DEF SyncAssumption
<1>3. CASE Cardinality(Before(k)) < o
  BY <1>1, <1>3 DEF Copying, PagedCopy
<1>4. CASE ~(Cardinality(Before(k)) < o)
  <2>1. Cardinality({j \in Present : j < k}) \in o .. o + BatchSize - 1
    BY <1>1, <1>2, <1>4 DEF Before
  <2>2. k \in Page(run.offset)
    BY <1>1, <2>1 DEF Page
  <2>3. QED
    BY <2>2 DEF Copying, PagedCopy
<1>5. QED
  BY <1>3, <1>4

\* Rows that are not there are as if at version 0.
LEMMA AllCopied ==
  ASSUME SyncAssumption, Copying, run.pc \notin {"idle", "prepare"}, ~disturbed,
         \A k \in Present : target[k] = source[k].ver
  PROVE  Copied
  BY DEF Copying, PagedCopy, Copied, Present

LEMMA FullSource ==
  ASSUME SyncAssumption, Copying, TypeOK', NEW k \in Keys, Write(k) \/ Delete(k)
  PROVE  Copying'
  BY DEF Copying, PagedCopy, Write, Delete

LEMMA FullStart ==
  ASSUME SyncAssumption, Mode = "full", Copying, TypeOK', Start
  PROVE  Copying'
<1>1. /\ run'.pc = "prepare" /\ run'.offset = 0 /\ run'.total = Cardinality(Present)
      /\ run'.outcome = "none" /\ source' = source
  BY DEF Start, IdleRun, sourceVars
<1>2. Cardinality(Present)' = Cardinality(Present)
  BY <1>1 DEF Present
<1>3. QED
  BY <1>1, <1>2 DEF Copying, PagedCopy

\* The steps after which no run is under way.
LEMMA FullOver ==
  ASSUME Copying, TypeOK', NEW s, run' = [IdleRun EXCEPT !.outcome = s]
  PROVE  Copying'
<1>1. run'.pc = "idle"
  BY DEF IdleRun
<1>2. QED
  BY <1>1 DEF Copying, PagedCopy

LEMMA FullPrepare ==
  ASSUME SyncAssumption, Copying, TypeOK', Prepare
  PROVE  Copying'
<1>1. /\ run.pc = "prepare" /\ run'.pc = "fetch" /\ run'.offset = run.offset /\ run'.total = run.total
      /\ run'.outcome = run.outcome /\ UNCHANGED <<source, disturbed>>
      /\ WriteMode = "overwrite" => target' = NoRows
  BY DEF Prepare, Copying, TypeOK, Run, sourceVars, history
<1>2. Present' = Present /\ \A k \in Keys : Before(k)' = Before(k)
  BY <1>1 DEF Present, Before
<1>3. \A k \in Present : Cardinality(Before(k)) \in Nat
  <2>1. PICK below : Orders(below, Present) /\ \A j \in Present : below[j] = Before(j)
    BY PresentOrdered
  <2>2. \A k \in Present : Cardinality(below[k]) \in 0 .. Cardinality(Present) - 1
    BY <2>1, PresentOrdered, RanksOrdered
  <2>3. QED
    BY <2>1, <2>2
<1>4. \A k \in Keys : NoRows[k] = 0
  BY DEF NoRows
<1>5. PagedCopy'
  <2> SUFFICES ASSUME ~disturbed PROVE PagedCopy'
    BY <1>1 DEF PagedCopy
  <2>1. run.total = Cardinality(Present) /\ run.offset = 0
    BY <1>1 DEF Copying, PagedCopy
  <2>2. \A k \in Present : ~(Cardinality(Before(k)) < 0)
    BY <1>3
  <2>3. Present \subseteq Keys
    BY DEF Present
  <2>4. QED
    BY <1>1, <1>2, <1>4, <2>1, <2>2, <2>3 DEF PagedCopy
<1>6. QED
  BY <1>1, <1>5 DEF Copying

LEMMA FullFetch ==
  ASSUME SyncAssumption, Mode = "full", Copying, TypeOK', FetchRows
  PROVE  Copying'
<1>1. PICK B : /\ B = Page(run.offset)
               /\ run' = [run EXCEPT !.pc = "write",
                                     !.batch = [k \in Keys |-> IF k \in B THEN source[k].ver ELSE 0],
                                     !.next = MaxValue(B)]
  BY DEF FetchRows
<1>2. /\ run.pc = "fetch" /\ run'.pc = "write" /\ run'.offset = run.offset /\ run'.total = run.total
      /\ run'.outcome = run.outcome /\ UNCHANGED <<source, target, disturbed>>
      /\ \A k \in Keys : run'.batch[k] = IF k \in B THEN source[k].ver ELSE 0
  BY <1>1 DEF FetchRows, Copying, TypeOK, Run, sourceVars, history
<1>3. Present' = Present /\ (\A k \in Keys : Before(k)' = Before(k)) /\ Page(run.offset)' = B
  BY <1>1, <1>2 DEF Present, Before, Page
<1>4. Present \subseteq Keys
  BY DEF Present
<1>5. PagedCopy'
  BY <1>2, <1>3, <1>4 DEF Copying, PagedCopy
<1>6. QED
  BY <1>2, <1>5 DEF Copying

LEMMA FullCommit ==
  ASSUME SyncAssumption, Mode = "full", Copying, TypeOK', WriteCommit
  PROVE  Copying'
<1>1. /\ run.pc = "write" /\ run'.pc = "advance" /\ run'.offset = run.offset /\ run'.total = run.total
      /\ run'.outcome = run.outcome /\ run'.batch = run.batch /\ UNCHANGED <<source, disturbed>>
      /\ target' = Written
  BY DEF WriteCommit, Copying, TypeOK, Run, sourceVars, history
<1>2. Present' = Present /\ (\A k \in Keys : Before(k)' = Before(k)) /\ Page(run.offset)' = Page(run.offset)
  BY <1>1 DEF Present, Before, Page
<1>3. PagedCopy'
  <2> SUFFICES ASSUME ~disturbed PROVE PagedCopy'
    BY <1>1 DEF PagedCopy
  <2>1. Read = Page(run.offset) /\ Page(run.offset) \subseteq Present /\ Present \subseteq Keys
    BY <1>1, PageRead
  <2>2. \A k \in Keys : target'[k] = IF k \in Page(run.offset) THEN source[k].ver ELSE target[k]
    BY <1>1, <2>1 DEF Written, Copying, PagedCopy
  <2>3. QED
    BY <1>1, <1>2, <2>1, <2>2 DEF Copying, PagedCopy
<1>4. QED
  BY <1>1, <1>3 DEF Copying

LEMMA FullAdvance ==
  ASSUME SyncAssumption, Mode = "full", Copying, TypeOK', Advance
  PROVE  Copying'
<1>0. PICK o \in Nat : o = run.offset
  BY DEF Copying, TypeOK, Run
<1>1. PICK size : size = Cardinality(Read)
  OBVIOUS
<1>2. \/ run' = [IdleRun EXCEPT !.outcome = "success"]
      \/ /\ ~(size < BatchSize) /\ run'.pc = "fetch" /\ run'.offset = o + size
         /\ run'.total = run.total /\ run'.outcome = run.outcome
  <2> DEFINE last == size < BatchSize \/ (run.total > 0 /\ run.offset + size >= run.total)
             current == IF Mode = "full" THEN Nil ELSE run.next
  <2>1. CASE last
    BY <1>1, <2>1 DEF Advance
  <2>2. CASE ~last
    <3>1. run' = [run EXCEPT !.pc = "fetch", !.after = run.after, !.offset = run.offset + size,
                             !.current = current, !.batch = NoRows, !.next = Nil]
      BY <1>1, <2>2 DEF Advance
    <3>2. run \in Run
      BY DEF Copying, TypeOK
    <3>3. QED
      BY <1>0, <2>2, <3>1, <3>2 DEF Run
  <2>3. QED
    BY <2>1, <2>2
<1>3. CASE run' = [IdleRun EXCEPT !.outcome = "success"]
  BY <1>3, FullOver
<1>4. CASE /\ ~(size < BatchSize) /\ run'.pc = "fetch" /\ run'.offset = o + size
           /\ run'.total = run.total /\ run'.outcome = run.outcome
  <2>1. run.pc = "advance" /\ UNCHANGED <<source, target, disturbed>>
    BY DEF Advance, sourceVars, history
  <2>2. Present' = Present /\ (\A k \in Keys : Before(k)' = Before(k)) /\ Present \subseteq Keys
    BY <2>1 DEF Present, Before
  <2>3. ASSUME ~disturbed PROVE size = BatchSize
    <3>1. size \in 0 .. BatchSize
      BY <1>0, <1>1, <2>1, <2>3, PageRead, PageSize
    <3>2. QED
      BY <1>4, <3>1 DEF SyncAssumption
  <2>4. ASSUME ~disturbed
        PROVE  \A k \in Present : Cardinality(Before(k)) < o + size => target[k] = source[k].ver
    BY <1>0, <2>1, <2>3, <2>4, PageCopied
  <2>5. PagedCopy'
    BY <1>4, <2>1, <2>2, <2>4 DEF Copying, PagedCopy
  <2>6. QED
    BY <1>4, <2>1, <2>5 DEF Copying
<1>5. QED
  BY <1>2, <1>3, <1>4

LEMMA FullNext ==
  ASSUME SyncAssumption, Mode = "full", Copying, [Next]_vars
  PROVE  Copying'
<1>0. TypeOK'
  BY TypeNext DEF Copying
<1>1. CASE \E k \in Keys : Write(k) \/ Delete(k)
  BY <1>0, <1>1, FullSource
<1>2. CASE Start \/ Prepare \/ FetchRows \/ WriteCommit \/ Advance
  BY <1>0, <1>2, FullStart, FullPrepare, FullFetch, FullCommit, FullAdvance
<1>3. CASE FetchNothing \/ WriteConflict \/ WriteCut \/ Stopped \/ ReadError \/ Crash
  <2>1. \E s : run' = [IdleRun EXCEPT !.outcome = s]
    <3>1. CASE Crash
      <4>1. IdleRun = [IdleRun EXCEPT !.outcome = "none"]
        <5>1. IdleRun.outcome = "none" /\ IdleRun = [f \in DOMAIN IdleRun |-> IdleRun[f]]
          BY DEF IdleRun
        <5>2. QED
          BY <5>1
      <4>2. QED
        BY <3>1, <4>1 DEF Crash
    <3>2. CASE FetchNothing \/ WriteConflict \/ WriteCut \/ Stopped \/ ReadError
      BY <3>2 DEF FetchNothing, WriteConflict, WriteCut, Interrupted, Stopped, ReadError, Finish
    <3>3. QED
      BY <1>3, <3>1, <3>2
  <2>2. QED
    BY <1>0, <2>1, FullOver
<1>4. CASE Cancel
  <2>1. /\ UNCHANGED <<source, target, disturbed>> /\ run'.pc = run.pc /\ run'.offset = run.offset
        /\ run'.total = run.total /\ run'.outcome = run.outcome /\ run'.batch = run.batch
    BY <1>4 DEF Cancel, Copying, TypeOK, Run, sourceVars, history
  <2>2. Present' = Present /\ (\A k \in Keys : Before(k)' = Before(k)) /\ Page(run.offset)' = Page(run.offset)
    BY <2>1 DEF Present, Before, Page
  <2>3. Present \subseteq Keys
    BY DEF Present
  <2>4. QED
    BY <1>0, <2>1, <2>2, <2>3 DEF Copying, PagedCopy
<1>5. CASE (\E p \in reports : Persist(p)) \/ UNCHANGED vars
  <2>1. UNCHANGED <<source, target, disturbed, run>>
    BY <1>5 DEF Persist, vars, sourceVars, history
  <2>2. Present' = Present /\ (\A k \in Keys : Before(k)' = Before(k)) /\ Page(run.offset)' = Page(run.offset)
    BY <2>1 DEF Present, Before, Page
  <2>3. Present \subseteq Keys
    BY DEF Present
  <2>4. QED
    BY <1>0, <2>1, <2>2, <2>3 DEF Copying, PagedCopy
<1>6. CASE Wake
  <2>1. /\ UNCHANGED <<source, target, disturbed>> /\ run.pc = "sleep" /\ run'.pc = "fetch"
        /\ run'.offset = run.offset /\ run'.total = run.total /\ run'.outcome = run.outcome
    BY <1>6 DEF Wake, Copying, TypeOK, Run, sourceVars, history
  <2>2. Present' = Present /\ (\A k \in Keys : Before(k)' = Before(k)) /\ Present \subseteq Keys
    BY <2>1 DEF Present, Before
  <2>3. QED
    BY <1>0, <2>1, <2>2 DEF Copying, PagedCopy
<1>7. QED
  BY <1>1, <1>2, <1>3, <1>4, <1>5, <1>6 DEF Next, RunStep

\* A full run succeeds on an empty page, or after one that was the last.
LEMMA FullSucceeds ==
  ASSUME SyncAssumption, Mode = "full", Copying, [Next]_vars, run.pc # "idle", ~disturbed,
         run'.outcome = "success"
  PROVE  Copied
<1>0. PICK o \in Nat : o = run.offset
  BY DEF Copying, TypeOK, Run
<1>1. run.outcome = "none"
  BY DEF Copying
<1>2. FetchNothing \/ Advance
  <2>1. ~UNCHANGED run /\ ~Start /\ ~Crash /\ ~Cancel
    BY <1>1 DEF Start, Crash, Cancel, IdleRun, Copying, TypeOK, Run
  <2>2. RunStep
    BY <2>1 DEF Next, Write, Delete, Persist, vars
  <2>3. ~(Prepare \/ FetchRows \/ WriteCommit \/ Wake)
    BY <1>1 DEF Prepare, FetchRows, WriteCommit, Wake, Copying, TypeOK, Run
  <2>4. ~(WriteConflict \/ WriteCut \/ Stopped \/ ReadError)
    BY <1>1 DEF WriteConflict, WriteCut, Interrupted, Stopped, ReadError, Finish, IdleRun
  <2>5. QED
    BY <2>2, <2>3, <2>4 DEF RunStep
<1>3. CASE FetchNothing
  <2>1. Page(o) = {} /\ run.pc = "fetch"
    BY <1>0, <1>3 DEF FetchNothing
  <2>2. \A k \in Present : Cardinality(Before(k)) < o
    BY <2>1, PageBehind
  <2>3. \A k \in Present : target[k] = source[k].ver
    BY <1>0, <2>1, <2>2 DEF Copying, PagedCopy
  <2>4. QED
    BY <2>1, <2>3, AllCopied
<1>4. CASE Advance
  <2>1. run.pc = "advance" /\ Read = Page(o)
    BY <1>0, <1>4, PageRead DEF Advance
  <2>2. run.total = Cardinality(Present)
    BY <2>1 DEF Copying, PagedCopy
  <2>3. Cardinality(Page(o)) < BatchSize \/ o + Cardinality(Page(o)) >= Cardinality(Present)
    <3> SUFFICES ASSUME ~(Cardinality(Page(o)) < BatchSize \/ o + Cardinality(Page(o)) >= Cardinality(Present))
                 PROVE  FALSE
      OBVIOUS
    <3>1. run' = [run EXCEPT !.pc = "fetch", !.after = run.after, !.offset = run.offset + Cardinality(Read),
                             !.current = Nil, !.batch = NoRows, !.next = Nil]
      BY <1>0, <1>4, <2>1, <2>2 DEF Advance
    <3>2. run'.outcome = run.outcome
      BY <3>1 DEF Copying, TypeOK, Run
    <3>3. QED
      BY <1>1, <3>2
  <2>4. \A k \in Present : Cardinality(Before(k)) < o + BatchSize
    BY <2>3, PageSize
  <2>5. \A k \in Present : target[k] = source[k].ver
    BY <1>0, <2>1, <2>4, PageCopied
  <2>6. QED
    BY <2>1, <2>5, AllCopied
<1>5. QED
  BY <1>2, <1>3, <1>4

\* A full copy that reports success has copied the whole table, and with overwrite nothing
\* else, unless somebody wrote meanwhile: the pages leave no gap and the last one is the last
\* (real_runner.go full).
THEOREM FullSuccess ==
  ASSUME Mode = "full"
  PROVE  Spec => SuccessMeansCopied
<1>1. Init => Copying
  <2> SUFFICES ASSUME Init PROVE Copying
    OBVIOUS
  <2>1. TypeOK
    BY TypeInit, SyncAssumption
  <2>2. run.pc = "idle"
    BY DEF Init, IdleRun
  <2>3. QED
    BY <2>1, <2>2 DEF Copying, PagedCopy
<1>2. Copying /\ [Next]_vars => Copying'
  BY FullNext, SyncAssumption
<1>3. Copying /\ [Next]_vars =>
        [run.pc # "idle" /\ run'.outcome = "success" =>
           \/ Mode = "full" /\ disturbed
           \/ \A k \in IF WriteMode = "overwrite" THEN Keys ELSE Present :
                target[k] = source[k].ver]_vars
  BY FullSucceeds, SyncAssumption DEF Copied
<1>4. QED
  BY <1>1, <1>2, <1>3, PTL DEF Spec, SuccessMeansCopied
=============================================================================
