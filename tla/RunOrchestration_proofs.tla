---------------------- MODULE RunOrchestration_proofs ----------------------
(***************************************************************************)
(* Proofs about the runs of one record, for any number of handlers, of     *)
(* reports, of retries and of faults.  With both storage drivers: every    *)
(* retry goes back to one failure of its own, and without stops a row ends *)
(* as the engine announced.  With the memory driver: runs do not overlap,  *)
(* and a record that says running can be stopped.                          *)
(***************************************************************************)
EXTENDS RunOrchestration, FiniteSetTheorems, TLAPS

-----------------------------------------------------------------------------
(* The inductive invariant *)

Used(i) == i \in Ids /\ inst[i].status # "none"

StartPcs == {"retry", "read", "check", "create"}
Working  == {"mark", "calling", "rollback", "undelete", "restore",
             "stopping", "waiting", "answered", "stopWrite", "stopFinish"}

\* Handlers, reports and the engine work on instances that were created.
Named ==
  /\ \A r \in Requests : req[r].pc \in Working => Used(req[r].id)
  /\ \A m \in Reports : rep[m].pc # "free" => Used(rep[m].id) /\ rep[m].status # "idle"
  /\ \A i \in Ids : i \in pending \/ engine[i] # "absent" \/ announced[i] # "nothing" => Used(i)

\* Rows and handlers start blank.
Blank ==
  /\ \A r \in Requests : req[r].pc = "idle" => req[r] = IdleRequest
  /\ \A i \in Ids : inst[i].status = "none" => inst[i] = NoInstance

\* Ids are given out in order, and every start under way will find one.
Prefix == \E k \in 0 .. MaxInstances : Unused = (k + 1) .. MaxInstances
Budget == Cardinality(Starting) <= Cardinality(Unused)

\* Until a run has settled, its last report is not a terminal one.
NotYet == \A i \in Ids : engine[i] \in {"absent", "running"} => announced[i] \notin Terminal

\* attempt a comes after the failure of instance o; attempt 0 after none.
Descends(o, a) == IF a = 0 THEN o = None
                  ELSE o \in Ids /\ announced[o] = "failed" /\ a = inst[o].attempt + 1

Failing == {m \in Reports : rep[m].pc # "free" /\ rep[m].status = "failed"}

Sources ==
  /\ \A m \in Failing : announced[rep[m].id] = "failed"
  /\ \A t \in timers : Descends(t.of, t.attempt)
  /\ \A r \in Starting : Descends(req[r].of, req[r].attempt)
  /\ \A i \in Ids : Descends(inst[i].of, inst[i].attempt) /\ inst[i].of < i

\* The right to retry a failure is in one hand: of the report, of a timer, of the handler
\* that the timer started, or of the instance that came of it.
Single(S) == \A x, y \in S : x = y
OneHand(A, B, C, D) ==
  /\ Single(A) /\ Single(B) /\ Single(C) /\ Single(D)
  /\ A = {} \/ (B = {} /\ C = {} /\ D = {})
  /\ B = {} \/ (C = {} /\ D = {})
  /\ C = {} \/ D = {}

FailingOf(i)  == {m \in Failing : rep[m].id = i}
TimersOf(i)   == {t \in timers : t.of = i}
StartingOf(i) == {r \in Starting : req[r].of = i}
RetriesOf(i)  == {j \in Ids : inst[j].of = i}

Once == \A i \in Ids : OneHand(FailingOf(i), TimersOf(i), StartingOf(i), RetriesOf(i))

IInv == TypeOK /\ Named /\ Blank /\ Prefix /\ Budget /\ NotYet /\ Sources /\ Once

-----------------------------------------------------------------------------
(* Lemmas *)

LEMMA Blanks ==
  /\ NoInstance \in Instance /\ IdleRequest \in Request /\ FreeReport \in Report
  /\ IdleRequest.pc = "idle" /\ IdleRequest.of = None /\ IdleRequest.attempt = 0
  /\ FreeReport.pc = "free" /\ FreeReport.awaited = FALSE
  /\ NoInstance.status = "none" /\ NoInstance.of = None /\ NoInstance.attempt = 0
  BY OrchestrationAssumption
     DEF NoInstance, IdleRequest, FreeReport, Instance, Request, Report, None, Statuses, Terminal

LEMMA Begins == Init => IInv
<1> SUFFICES ASSUME Init PROVE IInv
  OBVIOUS
<1>1. TypeOK
  BY Blanks, OrchestrationAssumption
     DEF Init, TypeOK, Engine!Init, Engine!States, Engine!Announces, Statuses
<1>2. Named /\ Blank
  BY Blanks DEF Init, Named, Working, Blank, Used, Engine!Init
<1>3. Unused = 1 .. MaxInstances
  BY Blanks DEF Init, Unused, Ids
<1>4. Prefix
  <2>1. 0 \in 0 .. MaxInstances /\ Unused = (0 + 1) .. MaxInstances
    BY <1>3, OrchestrationAssumption
  <2>2. QED
    BY <2>1 DEF Prefix
<1>5. Starting = {} /\ Failing = {} /\ timers = {}
  BY Blanks DEF Init, Starting, Failing
<1>6. Budget
  BY <1>3, <1>5, FS_EmptySet, FS_Interval, OrchestrationAssumption DEF Budget
<1>7. NotYet
  BY DEF Init, NotYet, Terminal, Engine!Init
<1>8. Sources
  BY <1>5, Blanks DEF Init, Sources, Descends, Ids, None
<1>9. Once
  BY <1>5, Blanks DEF Init, Once, OneHand, Single, FailingOf, TimersOf, StartingOf, RetriesOf, Ids, None
<1>10. QED
  BY <1>1, <1>2, <1>4, <1>6, <1>7, <1>8, <1>9 DEF IInv

\* Ids that are unused and handlers that start are finitely many.
LEMMA Finite ==
  ASSUME Prefix
  PROVE  /\ IsFiniteSet(Unused) /\ Cardinality(Unused) \in Nat
         /\ IsFiniteSet(Starting) /\ Cardinality(Starting) \in Nat
<1>1. IsFiniteSet(Unused)
  BY FS_Interval, OrchestrationAssumption DEF Prefix
<1>2. IsFiniteSet(Starting)
  BY FS_Subset, OrchestrationAssumption DEF Starting
<1>3. QED
  BY <1>1, <1>2, FS_CardinalityType

\* The next id is unused as long as a start is under way.
LEMMA NextFree ==
  ASSUME IInv, NEW r \in Starting
  PROVE  /\ NextId \in Ids /\ inst[NextId].status = "none"
         /\ \E k \in 0 .. MaxInstances : Unused = (k + 1) .. MaxInstances /\ NextId = k + 1
<1>1. /\ IsFiniteSet(Unused) /\ Cardinality(Unused) \in Nat
      /\ IsFiniteSet(Starting) /\ Cardinality(Starting) \in Nat
  BY Finite DEF IInv
<1>2. Unused # {}
  <2>1. Cardinality(Starting) # 0
    BY <1>1, FS_EmptySet
  <2>2. QED
    BY <1>1, <2>1, FS_EmptySet DEF IInv, Budget
<1>3. PICK k \in 0 .. MaxInstances : Unused = (k + 1) .. MaxInstances
  BY DEF IInv, Prefix
<1>4. PICK i : i = NextId
  OBVIOUS
<1>5. k + 1 \in Unused /\ \A j \in Unused : k + 1 <= j
  BY <1>2, <1>3, OrchestrationAssumption
<1>6. i \in Unused /\ \A j \in Unused : i <= j
  BY <1>4, <1>5 DEF NextId
<1>7. i \in Nat /\ i <= k + 1 /\ k + 1 <= i
  BY <1>3, <1>5, <1>6
<1>8. i = k + 1 /\ i \in Ids /\ inst[i].status = "none"
  BY <1>6, <1>7 DEF Unused
<1>9. QED
  BY <1>3, <1>4, <1>8

LEMMA Fewer ==
  ASSUME NEW A, NEW B, NEW C, NEW D, OneHand(A, B, C, D),
         NEW A2 \in SUBSET A, NEW B2 \in SUBSET B, NEW C2 \in SUBSET C, NEW D2 \in SUBSET D
  PROVE  OneHand(A2, B2, C2, D2)
  BY DEF OneHand, Single

\* The right goes on to the next hand.
LEMMA HandOn ==
  ASSUME NEW A, NEW B, NEW C, NEW D, OneHand(A, B, C, D), NEW x
  PROVE  /\ \A y \in A : OneHand(A \ {y}, B \cup {x}, C, D)
         /\ \A y \in B : OneHand(A, B \ {y}, C \cup {x}, D)
         /\ \A y \in C : OneHand(A, B, C \ {y}, D \cup {x})
  BY DEF OneHand, Single

\* What a step may do to the rows without touching who retries whom.
SameRuns ==
  /\ inst' \in [Ids -> Instance]
  /\ \A i \in Ids : /\ inst'[i].attempt = inst[i].attempt /\ inst'[i].of = inst[i].of
                    /\ inst'[i].status = "none" <=> inst[i].status = "none"
                    /\ inst'[i].status = "none" => inst'[i] = inst[i]

LEMMA SameUnused ==
  ASSUME SameRuns
  PROVE  /\ Unused' = Unused /\ \A i : Used(i) <=> Used(i)'
         /\ \A i : RetriesOf(i)' = RetriesOf(i)
  BY DEF SameRuns, Unused, Used, RetriesOf

LEMMA WriteKeeps ==
  ASSUME IInv, NEW i, Used(i), NEW s \in {"deleted", "running"} \cup Terminal,
         inst' = [inst EXCEPT ![i].status = s]
  PROVE  SameRuns
<1>1. inst[i] \in Instance
  BY DEF IInv, TypeOK, Used
<1> DEFINE n == [inst[i] EXCEPT !.status = s]
<1>2. /\ n \in Instance /\ n.attempt = inst[i].attempt /\ n.of = inst[i].of /\ n.status = s
  BY <1>1 DEF Instance
<1>3. inst' = [inst EXCEPT ![i] = n] /\ s # "none"
  BY DEF Terminal
<1> HIDE DEF n
<1>4. QED
  BY <1>2, <1>3 DEF IInv, TypeOK, SameRuns, Used
\* Nothing changes but rows, as above, and one of the handlers of start and stop, which keeps
\* what it may retry.
LEMMA RequestMoves ==
  ASSUME IInv, NEW r \in Requests, NEW n \in Request, req' = [req EXCEPT ![r] = n],
         n.pc = "idle" => n = IdleRequest,
         n.pc \in Working => Used(n.id),
         n.pc \in StartPcs => /\ n.of = req[r].of /\ n.attempt = req[r].attempt
                              /\ req[r].pc \in StartPcs \/ (req[r].pc = "idle" /\ Room),
         SameRuns, lastStatus' \in Statuses, cancelled' \in SUBSET Ids, faults' \in 0 .. MaxFaults,
         pending' \in SUBSET Ids, \A i \in pending' : Used(i),
         rep' = rep, timers' = timers, engine' = engine, announced' = announced
  PROVE  IInv'
<1>1. /\ req' \in [Requests -> Request] /\ req'[r] = n
      /\ \A q \in Requests \ {r} : req'[q] = req[q]
  BY DEF IInv, TypeOK
<1>2. TypeOK'
  BY <1>1 DEF IInv, TypeOK, SameRuns
<1>3. Unused' = Unused /\ (\A i : Used(i) <=> Used(i)') /\ \A i : RetriesOf(i)' = RetriesOf(i)
  BY SameUnused
<1>4. Named'
  <2>1. \A q \in Requests : req'[q].pc \in Working => Used(req'[q].id)
    BY <1>1 DEF IInv, Named
  <2>2. \A m \in Reports : rep'[m].pc # "free" => Used(rep'[m].id) /\ rep'[m].status # "idle"
    BY DEF IInv, Named
  <2>3. \A i \in Ids : i \in pending' \/ engine'[i] # "absent" \/ announced'[i] # "nothing" => Used(i)
    BY DEF IInv, Named
  <2> HIDE DEF Used
  <2>4. QED
    BY <1>3, <2>1, <2>2, <2>3 DEF Named
<1>5. Blank'
  BY <1>1 DEF IInv, Blank, SameRuns
<1>6. Prefix' /\ NotYet'
  BY <1>3 DEF IInv, Prefix, NotYet
<1>7. /\ Starting' \subseteq Starting \cup {r}
      /\ r \in Starting' => r \in Starting \/ (req[r].pc = "idle" /\ Room)
  BY <1>1 DEF Starting, StartPcs
<1>8. Budget'
  <2>1. /\ IsFiniteSet(Starting) /\ Cardinality(Starting) \in Nat
        /\ Cardinality(Unused) \in Nat /\ Cardinality(Starting) <= Cardinality(Unused)
    BY Finite DEF IInv, Budget
  <2>2. CASE r \in Starting' /\ r \notin Starting
    <3>1. IsFiniteSet(Starting \cup {r}) /\ Cardinality(Starting \cup {r}) = Cardinality(Starting) + 1
      BY <2>1, <2>2, FS_AddElement
    <3>2. Cardinality(Starting') <= Cardinality(Starting \cup {r})
      BY <1>7, <3>1, FS_Subset
    <3>3. Cardinality(Starting') \in Nat
      BY <1>7, <3>1, FS_Subset, FS_CardinalityType
    <3>4. QED
      BY <1>3, <1>7, <2>1, <2>2, <3>1, <3>2, <3>3 DEF Room, Budget
  <2>3. CASE Starting' \subseteq Starting
    <3>1. Cardinality(Starting') <= Cardinality(Starting) /\ Cardinality(Starting') \in Nat
      BY <2>1, <2>3, FS_Subset, FS_CardinalityType
    <3>2. QED
      BY <1>3, <2>1, <3>1 DEF Budget
  <2>4. QED
    BY <1>7, <2>2, <2>3
\* A start from idle retries nothing.
<1>9. req[r].pc = "idle" => req[r].of = None /\ req[r].attempt = 0
  BY Blanks DEF IInv, Blank
<1>10. Failing' = Failing
  BY DEF Failing
<1>11. \A o, a : Descends(o, a) <=> Descends(o, a)'
  BY DEF Descends, SameRuns
<1>12. Sources'
  <2>1. \A q \in Starting' : Descends(req'[q].of, req'[q].attempt)
    <3>1. Descends(None, 0)
      BY DEF Descends
    <3>2. \A q \in Starting' \ {r} : q \in Starting /\ Descends(req'[q].of, req'[q].attempt)
      BY <1>1, <1>7 DEF IInv, Sources
    <3>3. r \in Starting' => Descends(n.of, n.attempt)
      BY <1>1, <1>7, <1>9, <3>1 DEF IInv, Sources, Starting, StartPcs
    <3>4. QED
      BY <1>1, <3>2, <3>3
  <2>2. \A i \in Ids : Descends(inst'[i].of, inst'[i].attempt) /\ inst'[i].of < i
    BY DEF IInv, Sources, SameRuns
  <2>3. \A t \in timers' : Descends(t.of, t.attempt)
    BY DEF IInv, Sources
  <2>4. \A m \in Failing' : announced'[rep'[m].id] = "failed"
    BY <1>10 DEF IInv, Sources
  <2> HIDE DEF Descends
  <2>5. QED
    BY <1>11, <2>1, <2>2, <2>3, <2>4 DEF Sources
<1>13. Once'
  <2> SUFFICES ASSUME NEW i \in Ids
               PROVE  OneHand(FailingOf(i), TimersOf(i), StartingOf(i), RetriesOf(i))'
    BY DEF Once
  <2>1. FailingOf(i)' = FailingOf(i) /\ TimersOf(i)' = TimersOf(i)
    BY <1>10 DEF FailingOf, TimersOf
  <2>2. StartingOf(i)' \subseteq StartingOf(i)
    BY <1>1, <1>7, <1>9 DEF StartingOf, Ids, None, Starting, StartPcs
  <2>3. QED
    BY <1>3, <2>1, <2>2, Fewer DEF IInv, Once
<1>14. QED
  BY <1>2, <1>4, <1>5, <1>6, <1>8, <1>12, <1>13 DEF IInv
Pcs == {"idle"} \cup StartPcs \cup Working

LEMMA HandlerAt ==
  ASSUME NEW q \in Request, NEW p \in Pcs
  PROVE  /\ [q EXCEPT !.pc = p] \in Request /\ [q EXCEPT !.pc = p].pc = p
         /\ [q EXCEPT !.pc = p].id = q.id /\ [q EXCEPT !.pc = p].of = q.of
         /\ [q EXCEPT !.pc = p].attempt = q.attempt
  BY DEF Request, Pcs, StartPcs, Working

\* The handlers of start and stop, but for the two steps that hand a retry on.
LEMMA RequestSteps ==
  ASSUME IInv, NEW r \in Requests,
         \/ StartRead(r) \/ StartCheck(r) \/ StartMark(r) \/ StartReplied(r) \/ StartFails(r)
         \/ RollbackDelete(r) \/ RollbackRestore(r) \/ RetryCheck(r)
         \/ StopFind(r) \/ StopArrives(r) \/ StopReply(r) \/ StopFails(r)
         \/ StopUpdate(r) \/ StopWrite(r) \/ StopFinish(r)
  PROVE  IInv'
<1> DEFINE q == req[r]
<1>0. /\ q \in Request /\ (q.pc \in Working => Used(q.id)) /\ q.prev \in Statuses
      /\ lastStatus \in Statuses /\ cancelled \in SUBSET Ids /\ faults \in 0 .. MaxFaults
      /\ pending \in SUBSET Ids /\ (\A i \in pending : Used(i)) /\ inst \in [Ids -> Instance]
  BY DEF IInv, TypeOK, Named, Request
<1>1. rep' = rep /\ timers' = timers /\ engine' = engine /\ announced' = announced
  BY DEF StartRead, StartCheck, StartMark, StartReplied, StartFails, RollbackDelete, RollbackRestore,
         RetryCheck, StopFind, StopArrives, StopReply, StopFails, StopUpdate, StopWrite, StopFinish,
         engineVars
<1>2. \A k : Fault(k) => faults' \in 0 .. MaxFaults
  BY <1>0, OrchestrationAssumption DEF Fault
<1>3. inst' = inst => SameRuns
  BY <1>0 DEF SameRuns
<1> HIDE DEF q
\* What is left to show, by where the handler goes.
<1> DEFINE Rest == /\ SameRuns /\ lastStatus' \in Statuses /\ cancelled' \in SUBSET Ids
                   /\ faults' \in 0 .. MaxFaults /\ pending' \in SUBSET Ids
                   /\ \A i \in pending' : Used(i)
<1>4. ASSUME Rest, req' = [req EXCEPT ![r] = IdleRequest] PROVE IInv'
  BY <1>1, <1>4, Blanks, RequestMoves DEF StartPcs, Working
<1>5. ASSUME Rest, NEW p \in Working, req' = [req EXCEPT ![r] = [q EXCEPT !.pc = p]],
             q.pc \in Working
      PROVE  IInv'
  <2> DEFINE n == [q EXCEPT !.pc = p]
  <2>1. n \in Request /\ n.pc = p /\ n.id = q.id
    BY <1>0, HandlerAt DEF Pcs
  <2>2. req' = [req EXCEPT ![r] = n]
    BY <1>5
  <2> HIDE DEF n
  <2>3. p \notin StartPcs /\ p # "idle"
    BY <1>5 DEF Working, StartPcs
  <2>4. QED
    BY <1>0, <1>1, <1>5, <2>1, <2>2, <2>3, RequestMoves
<1>6. ASSUME Rest, NEW p \in StartPcs, NEW n \in Request, req' = [req EXCEPT ![r] = n], n.pc = p,
             n.of = q.of, n.attempt = q.attempt, q.pc \in StartPcs \/ (q.pc = "idle" /\ Room)
      PROVE  IInv'
  <2>1. p \notin Working /\ p # "idle"
    BY <1>6 DEF Working, StartPcs
  <2>2. QED
    BY <1>1, <1>6, <2>1, RequestMoves DEF q
<1>7. CASE StartRead(r)
  <2>1. Rest
    BY <1>0, <1>3, <1>7 DEF StartRead, engineVars
  <2>2. CASE lastStatus = "running"
    <3>1. req' = [req EXCEPT ![r] = IdleRequest]
      BY <1>7, <2>2 DEF StartRead
    <3>2. QED
      BY <1>4, <2>1, <3>1
  <2>3. CASE lastStatus # "running"
    <3> DEFINE n == [q EXCEPT !.pc = "check", !.prev = lastStatus]
    <3>1. req' = [req EXCEPT ![r] = n] /\ (q.pc \in StartPcs \/ (q.pc = "idle" /\ Room))
      BY <1>7, <2>3 DEF StartRead, q, StartPcs
    <3>2. n \in Request /\ n.pc = "check" /\ n.of = q.of /\ n.attempt = q.attempt
      BY <1>0 DEF Request
    <3> HIDE DEF n
    <3>3. QED
      BY <1>6, <2>1, <3>1, <3>2 DEF StartPcs
  <2>4. QED
    BY <2>2, <2>3
<1>8. CASE StartCheck(r) \/ RetryCheck(r)
  <2>1. Rest
    BY <1>0, <1>3, <1>8 DEF StartCheck, RetryCheck, engineVars
  <2>2. q.pc \in StartPcs
    BY <1>8 DEF StartCheck, RetryCheck, q, StartPcs
  <2>3. \/ req' = [req EXCEPT ![r] = IdleRequest]
        \/ \E p \in StartPcs : req' = [req EXCEPT ![r] = [q EXCEPT !.pc = p]]
    BY <1>8 DEF StartCheck, RetryCheck, q, StartPcs
  <2>4. QED
    BY <1>0, <1>4, <1>6, <2>1, <2>2, <2>3, HandlerAt DEF Pcs
<1>9. CASE StartReplied(r) \/ StopFinish(r) \/ StopFails(r)
  <2>1. Rest
    <3>1. CASE StartReplied(r) \/ StopFinish(r)
      BY <1>0, <1>3, <3>1 DEF StartReplied, StopFinish, engineVars, Statuses, Terminal
    <3>2. CASE StopFails(r)
      <4>1. q.id \in Ids
        BY <1>0, <3>2 DEF StopFails, Working, Used, q
      <4>2. cancelled' \in SUBSET Ids
        BY <1>0, <3>2, <4>1 DEF StopFails, q
      <4>3. faults' \in 0 .. MaxFaults /\ UNCHANGED <<lastStatus, inst, pending>>
        BY <1>2, <3>2 DEF StopFails
      <4>4. QED
        BY <1>0, <1>3, <4>2, <4>3
    <3>3. QED
      BY <1>9, <3>1, <3>2
  <2>2. req' = [req EXCEPT ![r] = IdleRequest]
    BY <1>9 DEF StartReplied, StopFinish, StopFails
  <2>3. QED
    BY <1>4, <2>1, <2>2
<1>10. CASE StartMark(r) \/ StartFails(r) \/ StopArrives(r) \/ StopReply(r) \/ StopUpdate(r)
  <2>1. q.pc \in Working
    BY <1>10 DEF StartMark, StartFails, StopArrives, StopReply, StopUpdate, Working, q
  <2>2. /\ SameRuns /\ lastStatus' \in Statuses
    BY <1>0, <1>3, <1>10
       DEF StartMark, StartFails, StopArrives, StopReply, StopUpdate, Statuses
  <2>3. cancelled' \in SUBSET Ids
    BY <1>0, <1>10, <2>1
       DEF StartMark, StartFails, StopArrives, StopReply, StopUpdate, engineVars, Used, q
  <2>4. faults' \in 0 .. MaxFaults
    BY <1>0, <1>2, <1>10 DEF StartMark, StartFails, StopArrives, StopReply, StopUpdate
  <2>5. pending' \subseteq pending \cup {q.id}
    BY <1>10 DEF StartMark, StartFails, StopArrives, StopReply, StopUpdate, q
  <2>6. \E p \in Working : req' = [req EXCEPT ![r] = [q EXCEPT !.pc = p]]
    BY <1>10 DEF StartMark, StartFails, StopArrives, StopReply, StopUpdate, Working, q
  <2>7. pending' \in SUBSET Ids /\ \A i \in pending' : Used(i)
    BY <1>0, <2>1, <2>5 DEF Used
  <2>8. QED
    BY <1>5, <2>1, <2>2, <2>3, <2>4, <2>6, <2>7
<1>11. CASE StopFind(r)
  <2>1. Rest
    BY <1>0, <1>3, <1>11 DEF StopFind, engineVars
  <2>2. PICK i \in Running : req' = [req EXCEPT ![r] = [q EXCEPT !.pc = "stopping", !.id = i]]
    BY <1>11 DEF StopFind, q
  <2> DEFINE n == [q EXCEPT !.pc = "stopping", !.id = i]
  <2>3. n \in Request /\ n.pc = "stopping" /\ n.id = i /\ i \in Ids /\ Used(i)
    BY <1>0 DEF Request, Running, Used
  <2>4. req' = [req EXCEPT ![r] = n]
    BY <2>2
  <2> HIDE DEF n
  <2>5. "stopping" \notin StartPcs
    BY DEF StartPcs
  <2>6. QED
    BY <1>1, <2>1, <2>3, <2>4, <2>5, RequestMoves
<1>12. CASE StopWrite(r)
  <2>1. q.pc \in Working /\ inst' = [inst EXCEPT ![q.id].status = "stopped"]
    BY <1>12 DEF StopWrite, Working, q
  <2>2. SameRuns
    BY <1>0, <2>1, WriteKeeps DEF Terminal
  <2>3. Rest
    BY <1>0, <1>12, <2>2 DEF StopWrite, engineVars
  <2>4. req' = [req EXCEPT ![r] = [q EXCEPT !.pc = "stopFinish"]]
    BY <1>12 DEF StopWrite, q
  <2>5. QED
    BY <1>5, <2>1, <2>3, <2>4 DEF Working
<1>13. CASE RollbackDelete(r)
  <2>1. q.pc \in Working /\ inst' = [inst EXCEPT ![q.id].status = "deleted"]
    BY <1>13 DEF RollbackDelete, Working, q
  <2>2. SameRuns
    BY <1>0, <2>1, WriteKeeps
  <2>3. Rest
    BY <1>0, <1>13, <2>2 DEF RollbackDelete, engineVars
  <2>4. \/ req' = [req EXCEPT ![r] = IdleRequest]
        \/ req' = [req EXCEPT ![r] = [q EXCEPT !.pc = "restore"]]
    BY <1>13 DEF RollbackDelete, q
  <2>5. QED
    BY <1>4, <1>5, <2>1, <2>3, <2>4 DEF Working
<1>14. CASE RollbackRestore(r)
  <2>1. q.pc \in Working
    BY <1>14 DEF RollbackRestore, Working, q
  <2>2. lastStatus' = q.prev
    BY <1>14 DEF RollbackRestore, q
  <2>3. Rest
    BY <1>0, <1>3, <1>14, <2>2 DEF RollbackRestore, engineVars
  <2>4. \/ req' = [req EXCEPT ![r] = IdleRequest]
        \/ req' = [req EXCEPT ![r] = [q EXCEPT !.pc = "undelete"]]
    BY <1>14 DEF RollbackRestore, q
  <2>5. QED
    BY <1>4, <1>5, <2>1, <2>3, <2>4 DEF Working
<1>15. QED
  BY <1>7, <1>8, <1>9, <1>10, <1>11, <1>12, <1>13, <1>14
-----------------------------------------------------------------------------

\* Nothing changes but rows, as above, and one of the report handlers, which goes on with
\* the report it has.
LEMMA ReportMoves ==
  ASSUME IInv, NEW m \in Reports, NEW n \in Report, rep' = [rep EXCEPT ![m] = n],
         n.pc # "free" => n.id = rep[m].id /\ n.status = rep[m].status /\ rep[m].pc # "free",
         SameRuns, lastStatus' \in Statuses, faults' \in 0 .. MaxFaults,
         UNCHANGED <<pending, engine, announced, cancelled, req, timers>>
  PROVE  IInv'
<1>1. /\ rep' \in [Reports -> Report] /\ rep'[m] = n
      /\ \A k \in Reports \ {m} : rep'[k] = rep[k]
  BY DEF IInv, TypeOK
<1>2. TypeOK'
  BY <1>1 DEF IInv, TypeOK, SameRuns
<1>3. Unused' = Unused /\ (\A i : Used(i) <=> Used(i)') /\ \A i : RetriesOf(i)' = RetriesOf(i)
  BY SameUnused
<1>4. Named'
  <2>1. \A k \in Reports : rep'[k].pc # "free" => Used(rep'[k].id) /\ rep'[k].status # "idle"
    BY <1>1 DEF IInv, Named
  <2>2. \A r \in Requests : req'[r].pc \in Working => Used(req'[r].id)
    BY DEF IInv, Named
  <2>3. \A i \in Ids : i \in pending' \/ engine'[i] # "absent" \/ announced'[i] # "nothing" => Used(i)
    BY DEF IInv, Named
  <2> HIDE DEF Used
  <2>4. QED
    BY <1>3, <2>1, <2>2, <2>3 DEF Named
<1>5. Starting' = Starting
  BY DEF Starting
<1>6. Blank' /\ Prefix' /\ NotYet' /\ Budget'
  BY <1>3, <1>5 DEF IInv, Blank, Prefix, NotYet, Budget, SameRuns
<1>7. Failing' \subseteq Failing /\ \A k \in Failing' : rep'[k].id = rep[k].id
  BY <1>1 DEF Failing
<1>8. \A o, a : Descends(o, a) <=> Descends(o, a)'
  BY DEF Descends, SameRuns
<1>9. Sources'
  <2>1. \A i \in Ids : Descends(inst'[i].of, inst'[i].attempt) /\ inst'[i].of < i
    BY DEF IInv, Sources, SameRuns
  <2>2. \A k \in Failing' : announced'[rep'[k].id] = "failed"
    BY <1>7 DEF IInv, Sources
  <2>3. /\ \A t \in timers' : Descends(t.of, t.attempt)
        /\ \A r \in Starting' : Descends(req'[r].of, req'[r].attempt)
    BY <1>5 DEF IInv, Sources
  <2> HIDE DEF Descends
  <2>4. QED
    BY <1>8, <2>1, <2>2, <2>3 DEF Sources
<1>10. Once'
  <2> SUFFICES ASSUME NEW i \in Ids
               PROVE  OneHand(FailingOf(i), TimersOf(i), StartingOf(i), RetriesOf(i))'
    BY DEF Once
  <2>1. /\ FailingOf(i)' \subseteq FailingOf(i) /\ TimersOf(i)' = TimersOf(i)
        /\ StartingOf(i)' = StartingOf(i)
    BY <1>5, <1>7 DEF FailingOf, TimersOf, StartingOf
  <2>2. QED
    BY <1>3, <2>1, Fewer DEF IInv, Once
<1>11. QED
  BY <1>2, <1>4, <1>6, <1>9, <1>10 DEF IInv

ReportPcs == {"free", "sent", "update", "write", "sync", "react"}

LEMMA ReportAt ==
  ASSUME NEW q \in Report, NEW p \in ReportPcs
  PROVE  /\ [q EXCEPT !.pc = p] \in Report /\ [q EXCEPT !.pc = p].pc = p
         /\ [q EXCEPT !.pc = p].id = q.id /\ [q EXCEPT !.pc = p].status = q.status
  BY DEF Report, ReportPcs

\* The report handlers, but for the step that schedules a retry, and reports on their way.
LEMMA ReportSteps ==
  ASSUME IInv, NEW m \in Reports,
         \/ ReportRead(m) \/ ReportUpdate(m) \/ ReportWrite(m) \/ ReportSync(m)
         \/ ReportReact(m) /\ timers' = timers
         \/ GiveUp(m) \/ LoseReport(m)
  PROVE  IInv'
<1> DEFINE q == rep[m]
<1>0. /\ q \in Report /\ inst \in [Ids -> Instance] /\ lastStatus \in Statuses
      /\ faults \in 0 .. MaxFaults
      /\ q.pc # "free" => /\ Used(q.id) /\ q.status \in Statuses \ {"idle"}
                          /\ inst[q.id] \in Instance
  BY DEF IInv, TypeOK, Named, Used, Report
<1>1. UNCHANGED <<pending, engine, announced, cancelled, req, timers>>
  BY DEF ReportRead, ReportUpdate, ReportWrite, ReportSync, ReportReact, GiveUp, LoseReport, engineVars
<1>2. \A k : Fault(k) => faults' \in 0 .. MaxFaults
  BY <1>0, OrchestrationAssumption DEF Fault
<1>3. inst' = inst => SameRuns
  BY <1>0 DEF SameRuns
<1> HIDE DEF q
<1> DEFINE Rest == SameRuns /\ lastStatus' \in Statuses /\ faults' \in 0 .. MaxFaults
<1>4. ASSUME Rest, rep' = [rep EXCEPT ![m] = FreeReport] PROVE IInv'
  BY <1>1, <1>4, Blanks, ReportMoves
<1>5. ASSUME Rest, NEW n \in Report, rep' = [rep EXCEPT ![m] = n], n.id = q.id,
             n.status = q.status, q.pc # "free"
      PROVE  IInv'
  BY <1>1, <1>5, ReportMoves DEF q
<1>6. ASSUME Rest, NEW p \in ReportPcs, rep' = [rep EXCEPT ![m] = [q EXCEPT !.pc = p]], q.pc # "free"
      PROVE  IInv'
  BY <1>0, <1>5, <1>6, ReportAt
<1>7. CASE ReportRead(m)
  <2>1. Rest /\ q.pc # "free"
    BY <1>0, <1>3, <1>7 DEF ReportRead, q
  <2>2. CASE ~Exists(q.id)
    <3>1. rep' = [rep EXCEPT ![m] = FreeReport]
      BY <1>7, <2>2 DEF ReportRead, q
    <3>2. QED
      BY <1>4, <2>1, <3>1
  <2>3. CASE Exists(q.id)
    <3> DEFINE n == [q EXCEPT !.pc = "update", !.seen = inst[q.id].status]
    <3>1. inst[q.id].status \in Statuses
      BY <1>0, <2>1, <2>3 DEF Exists, Instance, Statuses
    <3>2. n \in Report /\ n.id = q.id /\ n.status = q.status
      BY <1>0, <3>1 DEF Report
    <3>3. rep' = [rep EXCEPT ![m] = n]
      BY <1>7, <2>3 DEF ReportRead, q
    <3> HIDE DEF n
    <3>4. QED
      BY <1>5, <2>1, <3>2, <3>3
  <2>4. QED
    BY <2>2, <2>3
<1>8. CASE ReportUpdate(m)
  <2>1. Rest /\ q.pc # "free"
    BY <1>0, <1>3, <1>8 DEF ReportUpdate, q
  <2>2. \E p \in ReportPcs : rep' = [rep EXCEPT ![m] = [q EXCEPT !.pc = p]]
    BY <1>8 DEF ReportUpdate, ReportPcs, q
  <2>3. QED
    BY <1>6, <2>1, <2>2
<1>9. CASE ReportWrite(m)
  <2>1. /\ q.pc # "free" /\ inst' = [inst EXCEPT ![q.id].status = q.status]
        /\ rep' = [rep EXCEPT ![m] = [q EXCEPT !.pc = "sync"]]
        /\ lastStatus' = lastStatus /\ faults' = faults
    BY <1>9 DEF ReportWrite, q
  <2>2. SameRuns
    BY <1>0, <2>1, WriteKeeps DEF Statuses
  <2>3. QED
    BY <1>0, <1>6, <2>1, <2>2 DEF ReportPcs
<1>10. CASE ReportSync(m)
  <2>1. /\ q.pc # "free" /\ lastStatus' = q.status
        /\ rep' = [rep EXCEPT ![m] = [q EXCEPT !.pc = "react"]]
        /\ inst' = inst /\ faults' = faults
    BY <1>10 DEF ReportSync, q
  <2>2. QED
    BY <1>0, <1>3, <1>6, <2>1 DEF ReportPcs
<1>11. CASE ReportReact(m) /\ timers' = timers
  BY <1>0, <1>3, <1>4, <1>11 DEF ReportReact
<1>12. CASE LoseReport(m)
  <2>1. faults' \in 0 .. MaxFaults /\ inst' = inst /\ lastStatus' = lastStatus
        /\ rep' = [rep EXCEPT ![m] = FreeReport]
    BY <1>0, <1>2, <1>12 DEF LoseReport
  <2>2. QED
    BY <1>0, <1>3, <1>4, <2>1
<1>13. CASE GiveUp(m)
  <2> DEFINE n == [q EXCEPT !.awaited = FALSE]
  <2>1. faults' \in 0 .. MaxFaults /\ inst' = inst /\ lastStatus' = lastStatus
        /\ rep' = [rep EXCEPT ![m] = n]
    BY <1>0, <1>2, <1>13 DEF GiveUp, q
  <2>2. n \in Report /\ n.pc = q.pc /\ n.id = q.id /\ n.status = q.status
    BY <1>0 DEF Report
  <2> HIDE DEF n
  <2>3. QED
    BY <1>0, <1>1, <1>3, <2>1, <2>2, ReportMoves DEF q
<1>14. QED
  BY <1>7, <1>8, <1>9, <1>10, <1>11, <1>12, <1>13
-----------------------------------------------------------------------------
(* The steps that hand the right to retry on *)

\* The first failed report of an instance leaves a timer.
LEMMA Schedules ==
  ASSUME IInv, NEW m \in Reports, ReportReact(m), timers' # timers
  PROVE  IInv'
<1> DEFINE i == rep[m].id
           t == [of |-> i, attempt |-> inst[i].attempt + 1]
<1>1. /\ rep[m].pc = "react" /\ rep[m].status = "failed" /\ inst[i].attempt < RetryCount
      /\ timers' = timers \cup {t} /\ rep' = [rep EXCEPT ![m] = FreeReport]
      /\ UNCHANGED <<lastStatus, inst, pending, engine, announced, cancelled, req, faults>>
  BY DEF ReportReact, engineVars
<1>2. m \in Failing /\ i \in Ids /\ announced[i] = "failed" /\ inst[i].attempt \in 0 .. RetryCount
  BY <1>1 DEF IInv, TypeOK, Failing, Named, Used, Sources, Instance
<1>3. t \in Retry /\ t.of = i /\ t.attempt = inst[i].attempt + 1 /\ t.attempt # 0
  BY <1>1, <1>2, OrchestrationAssumption DEF Retry
<1> HIDE DEF i, t
<1>4. /\ rep' \in [Reports -> Report] /\ rep'[m] = FreeReport
      /\ \A k \in Reports \ {m} : rep'[k] = rep[k]
  BY <1>1, Blanks DEF IInv, TypeOK
<1>5. TypeOK'
  BY <1>1, <1>3, <1>4 DEF IInv, TypeOK
<1>6. Unused' = Unused /\ Starting' = Starting /\ Failing' = Failing \ {m}
  BY <1>1, <1>4, Blanks DEF Unused, Starting, Failing
<1>7. Named' /\ Blank' /\ Prefix' /\ Budget' /\ NotYet'
  BY <1>1, <1>4, <1>6, Blanks DEF IInv, Named, Blank, Prefix, Budget, NotYet, Used
<1>8. \A o, a : Descends(o, a) <=> Descends(o, a)'
  BY <1>1 DEF Descends
<1>9. Sources'
  <2>1. Descends(t.of, t.attempt)
    BY <1>2, <1>3 DEF Descends
  <2>2. \A u \in timers' : Descends(u.of, u.attempt)
    BY <1>1, <2>1 DEF IInv, Sources
  <2>3. \A k \in Failing' : announced'[rep'[k].id] = "failed"
    BY <1>1, <1>4, <1>6 DEF IInv, Sources, Failing
  <2>4. /\ \A r \in Starting' : Descends(req'[r].of, req'[r].attempt)
        /\ \A j \in Ids : Descends(inst'[j].of, inst'[j].attempt) /\ inst'[j].of < j
    BY <1>1, <1>6 DEF IInv, Sources
  <2> HIDE DEF Descends
  <2>5. QED
    BY <1>8, <2>2, <2>3, <2>4 DEF Sources
<1>10. Once'
  <2> SUFFICES ASSUME NEW j \in Ids
               PROVE  OneHand(FailingOf(j), TimersOf(j), StartingOf(j), RetriesOf(j))'
    BY DEF Once
  <2>1. StartingOf(j)' = StartingOf(j) /\ RetriesOf(j)' = RetriesOf(j)
    BY <1>1, <1>6 DEF StartingOf, RetriesOf
  <2>2. FailingOf(j)' = FailingOf(j) \ {m}
    BY <1>4, <1>6 DEF FailingOf, Failing
  <2>3. OneHand(FailingOf(j), TimersOf(j), StartingOf(j), RetriesOf(j))
    BY DEF IInv, Once
  <2>4. CASE j = i
    <3>1. m \in FailingOf(j) /\ TimersOf(j)' = TimersOf(j) \cup {t}
      BY <1>1, <1>2, <1>3, <2>4 DEF FailingOf, TimersOf, i
    <3>2. OneHand(FailingOf(j) \ {m}, TimersOf(j) \cup {t}, StartingOf(j), RetriesOf(j))
      BY <2>3, <3>1, HandOn
    <3>3. QED
      BY <2>1, <2>2, <3>1, <3>2
  <2>5. CASE j # i
    <3>1. TimersOf(j)' = TimersOf(j) /\ FailingOf(j)' \subseteq FailingOf(j)
      BY <1>1, <1>3, <2>2, <2>5 DEF TimersOf
    <3>2. QED
      BY <2>1, <2>3, <3>1, Fewer
  <2>6. QED
    BY <2>4, <2>5
<1>11. QED
  BY <1>5, <1>7, <1>9, <1>10 DEF IInv

\* A timer that fires is gone, whether or not a handler goes on with it.
LEMMA Fires ==
  ASSUME IInv, NEW r \in Requests, NEW t \in timers, RetryFire(r, t)
  PROVE  IInv'
<1>1. /\ req[r].pc = "idle" /\ Room /\ timers' = timers \ {t}
      /\ UNCHANGED <<lastStatus, inst, pending, engine, announced, cancelled, rep, faults>>
  BY DEF RetryFire, engineVars
<1>2. Unused' = Unused /\ Failing' = Failing
  BY <1>1 DEF Unused, Failing
<1>3. \A o, a : Descends(o, a) <=> Descends(o, a)'
  BY <1>1 DEF Descends
<1>4. Blank' => Prefix' /\ NotYet' /\ \A j : FailingOf(j)' = FailingOf(j) /\ RetriesOf(j)' = RetriesOf(j)
  BY <1>1, <1>2 DEF IInv, Prefix, NotYet, FailingOf, RetriesOf
<1>5. CASE req' = req
  <2>1. Starting' = Starting
    BY <1>5 DEF Starting
  <2>2. TypeOK' /\ Named' /\ Blank' /\ Budget'
    BY <1>1, <1>2, <1>5, <2>1 DEF IInv, TypeOK, Named, Blank, Budget, Used
  <2>3. Sources'
    <3>1. /\ \A u \in timers' : Descends(u.of, u.attempt)
          /\ \A k \in Failing' : announced'[rep'[k].id] = "failed"
          /\ \A q \in Starting' : Descends(req'[q].of, req'[q].attempt)
          /\ \A j \in Ids : Descends(inst'[j].of, inst'[j].attempt) /\ inst'[j].of < j
      BY <1>1, <1>2, <1>5, <2>1 DEF IInv, Sources
    <3> HIDE DEF Descends
    <3>2. QED
      BY <1>3, <3>1 DEF Sources
  <2>4. Once'
    <3> SUFFICES ASSUME NEW j \in Ids
                 PROVE  OneHand(FailingOf(j), TimersOf(j), StartingOf(j), RetriesOf(j))'
      BY DEF Once
    <3>1. TimersOf(j)' \subseteq TimersOf(j) /\ StartingOf(j)' = StartingOf(j)
      BY <1>1, <1>5, <2>1 DEF TimersOf, StartingOf
    <3>2. QED
      BY <1>4, <2>2, <3>1, Fewer DEF IInv, Once
  <2>5. QED
    BY <1>4, <2>2, <2>3, <2>4 DEF IInv
<1>6. CASE req' # req
  <2> DEFINE n == [req[r] EXCEPT !.pc = "retry", !.attempt = t.attempt, !.of = t.of]
  <2>1. t \in Retry /\ req[r] \in Request /\ t.of \in Ids /\ t.attempt \in 1 .. RetryCount
    BY DEF IInv, TypeOK, Retry
  <2>2. n \in Request /\ n.pc = "retry" /\ n.attempt = t.attempt /\ n.of = t.of
    <3>1. t.attempt \in 0 .. RetryCount
      BY <2>1, OrchestrationAssumption
    <3>2. QED
      BY <2>1, <3>1 DEF Request
  <2>3. req' = [req EXCEPT ![r] = n]
    BY <1>6 DEF RetryFire
  <2> HIDE DEF n
  <2>4. /\ req' \in [Requests -> Request] /\ req'[r] = n
        /\ \A q \in Requests \ {r} : req'[q] = req[q]
    BY <2>2, <2>3 DEF IInv, TypeOK
  <2>5. Starting' = Starting \cup {r} /\ r \notin Starting
    BY <1>1, <2>2, <2>4 DEF Starting
  <2>6. TypeOK' /\ Named' /\ Blank'
    BY <1>1, <2>2, <2>4 DEF IInv, TypeOK, Named, Blank, Used, Working
  <2>7. Budget'
    <3>1. /\ IsFiniteSet(Starting) /\ Cardinality(Starting) \in Nat /\ Cardinality(Unused) \in Nat
      BY Finite DEF IInv
    <3>2. Cardinality(Starting') = Cardinality(Starting) + 1
      BY <2>5, <3>1, FS_AddElement
    <3>3. QED
      BY <1>1, <1>2, <3>1, <3>2 DEF Room, Budget
  <2>8. Sources'
    <3>1. Descends(t.of, t.attempt)
      BY DEF IInv, Sources
    <3>2. \A q \in Starting' : Descends(req'[q].of, req'[q].attempt)
      BY <2>2, <2>4, <2>5, <3>1 DEF IInv, Sources, Starting
    <3>3. /\ \A u \in timers' : Descends(u.of, u.attempt)
          /\ \A k \in Failing' : announced'[rep'[k].id] = "failed"
          /\ \A j \in Ids : Descends(inst'[j].of, inst'[j].attempt) /\ inst'[j].of < j
      BY <1>1, <1>2 DEF IInv, Sources
    <3> HIDE DEF Descends
    <3>4. QED
      BY <1>3, <3>2, <3>3 DEF Sources
  <2>9. Once'
    <3> SUFFICES ASSUME NEW j \in Ids
                 PROVE  OneHand(FailingOf(j), TimersOf(j), StartingOf(j), RetriesOf(j))'
      BY DEF Once
    <3>1. OneHand(FailingOf(j), TimersOf(j), StartingOf(j), RetriesOf(j))
      BY DEF IInv, Once
    <3>2. CASE j = t.of
      <4>1. t \in TimersOf(j) /\ TimersOf(j)' = TimersOf(j) \ {t}
        BY <1>1, <3>2 DEF TimersOf
      <4>2. StartingOf(j)' = StartingOf(j) \cup {r}
        BY <2>2, <2>4, <2>5, <3>2 DEF StartingOf, Starting
      <4>3. OneHand(FailingOf(j), TimersOf(j) \ {t}, StartingOf(j) \cup {r}, RetriesOf(j))
        BY <3>1, <4>1, HandOn
      <4>4. QED
        BY <1>4, <2>6, <4>1, <4>2, <4>3
    <3>3. CASE j # t.of
      <4>1. TimersOf(j)' \subseteq TimersOf(j) /\ StartingOf(j)' \subseteq StartingOf(j)
        BY <1>1, <2>2, <2>4, <2>5, <3>3 DEF TimersOf, StartingOf, Starting
      <4>2. QED
        BY <1>4, <2>6, <3>1, <4>1, Fewer
    <3>4. QED
      BY <3>2, <3>3
  <2>10. QED
    BY <1>4, <2>6, <2>7, <2>8, <2>9 DEF IInv
<1>7. QED
  BY <1>5, <1>6

\* The instance that start creates takes the next id and remembers what it retries.
LEMMA Creates ==
  ASSUME IInv, NEW r \in Requests, StartCreate(r)
  PROVE  IInv'
<1>1. /\ IsFiniteSet(Unused) /\ Cardinality(Unused) \in Nat
      /\ IsFiniteSet(Starting) /\ Cardinality(Starting) \in Nat
  BY Finite DEF IInv
<1>2. r \in Starting
  BY DEF StartCreate, Starting
<1>4. PICK k \in 0 .. MaxInstances : Unused = (k + 1) .. MaxInstances /\ NextId = k + 1
  BY <1>2, NextFree
<1>5. PICK i : i = NextId
  OBVIOUS
<1>6. i = k + 1 /\ i \in Unused
  BY <1>2, <1>4, <1>5, NextFree DEF Unused
<1>7. i \in Ids /\ inst[i].status = "none" /\ i \in 1 .. MaxInstances
  BY <1>6 DEF Unused, Ids
<1> DEFINE q == req[r]
           f == [status |-> "running", attempt |-> q.attempt, of |-> q.of]
           n == [q EXCEPT !.pc = "mark", !.id = i]
<1>8. q \in Request /\ q.attempt \in 0 .. RetryCount /\ q.of \in Ids \cup {None}
  BY DEF IInv, TypeOK, Request
<1>9. f \in Instance /\ f.status = "running" /\ f.attempt = q.attempt /\ f.of = q.of
  BY <1>8 DEF Instance
<1>10. n \in Request /\ n.pc = "mark" /\ n.id = i
  BY <1>7, <1>8 DEF Request
<1>step. /\ inst' = [inst EXCEPT ![i] = f] /\ req' = [req EXCEPT ![r] = n]
         /\ UNCHANGED <<lastStatus, pending, engine, announced, cancelled, rep, timers, faults>>
  BY <1>5 DEF StartCreate, engineVars
<1> HIDE DEF f, n
<1>11. /\ req' \in [Requests -> Request] /\ req'[r] = n /\ \A p \in Requests \ {r} : req'[p] = req[p]
       /\ inst' \in [Ids -> Instance] /\ inst'[i] = f /\ \A j \in Ids \ {i} : inst'[j] = inst[j]
  BY <1>step, <1>7, <1>9, <1>10 DEF IInv, TypeOK
<1>12. TypeOK'
  BY <1>step, <1>11 DEF IInv, TypeOK
<1>13. Unused' = Unused \ {i} /\ Starting' = Starting \ {r} /\ Failing' = Failing
  BY <1>step, <1>7, <1>9, <1>10, <1>11 DEF Unused, Starting, Failing
<1>14. \A j : Used(j) => j \in Ids /\ inst'[j].status # "none" /\ j # i
  BY <1>7, <1>11 DEF Used
<1>15. inst'[i].status # "none"
  BY <1>9, <1>11
<1>16. Named'
  <2>1. \A p \in Requests : req'[p].pc \in Working =>
          req'[p].id \in Ids /\ inst'[req'[p].id].status # "none"
    BY <1>7, <1>10, <1>11, <1>14, <1>15 DEF IInv, Named
  <2>2. /\ \A m \in Reports : rep'[m].pc # "free" => Used(rep'[m].id) /\ rep'[m].status # "idle"
        /\ \A j \in Ids : j \in pending' \/ engine'[j] # "absent" \/ announced'[j] # "nothing" => Used(j)
    BY <1>step DEF IInv, Named
  <2>3. QED
    BY <1>14, <2>1, <2>2 DEF Named, Used
<1>17. Blank'
  BY <1>9, <1>10, <1>11 DEF IInv, Blank
<1>18. Prefix'
  <2>1. k + 1 \in 0 .. MaxInstances /\ Unused' = ((k + 1) + 1) .. MaxInstances
    BY <1>4, <1>6, <1>7, <1>13, OrchestrationAssumption
  <2>2. QED
    BY <2>1 DEF Prefix
<1>19. Budget'
  <2>1. /\ Cardinality(Unused \ {i}) = Cardinality(Unused) - 1
        /\ Cardinality(Starting \ {r}) = Cardinality(Starting) - 1
    BY <1>1, <1>2, <1>6, FS_RemoveElement
  <2>2. QED
    BY <1>1, <1>13, <2>1 DEF IInv, Budget
<1>20. NotYet'
  BY <1>step DEF IInv, NotYet
\* A failure that is retried is that of an instance created before.
<1>21. \A o, a : Descends(o, a) => Descends(o, a)' /\ (o = None \/ (Used(o) /\ o # i /\ o \in Ids))
  <2>1. \A o \in Ids : announced[o] = "failed" => Used(o)
    BY DEF IInv, Named
  <2>2. QED
    BY <1>step, <1>11, <1>14, <2>1 DEF Descends, Used
<1>22. Descends(q.of, q.attempt)
  BY <1>2 DEF IInv, Sources
<1>23. q.of < i
  <2>1. CASE q.of = None
    BY <1>7, <2>1 DEF None
  <2>2. CASE q.of # None
    <3>1. Used(q.of) /\ q.of \in 1 .. MaxInstances
      BY <1>21, <1>22, <2>2 DEF Ids
    <3>2. q.of \notin Unused
      BY <3>1 DEF Used, Unused
    <3>3. QED
      BY <1>4, <1>6, <3>1, <3>2
  <2>3. QED
    BY <2>1, <2>2
<1>24. Sources'
  <2>1. \A j \in Ids : Descends(inst'[j].of, inst'[j].attempt) /\ inst'[j].of < j
    BY <1>9, <1>11, <1>22, <1>23 DEF IInv, Sources
  <2>2. \A p \in Starting' : Descends(req'[p].of, req'[p].attempt)
    BY <1>11, <1>13 DEF IInv, Sources, Starting
  <2>3. /\ \A u \in timers' : Descends(u.of, u.attempt)
        /\ \A m \in Failing' : announced'[rep'[m].id] = "failed"
    BY <1>step, <1>13 DEF IInv, Sources
  <2> HIDE DEF Descends
  <2>4. QED
    BY <1>21, <2>1, <2>2, <2>3 DEF Sources
<1>25. Once'
  <2> SUFFICES ASSUME NEW j \in Ids
               PROVE  OneHand(FailingOf(j), TimersOf(j), StartingOf(j), RetriesOf(j))'
    BY DEF Once
  <2>1. OneHand(FailingOf(j), TimersOf(j), StartingOf(j), RetriesOf(j))
    BY DEF IInv, Once
  <2>2. FailingOf(j)' = FailingOf(j) /\ TimersOf(j)' = TimersOf(j)
    BY <1>step, <1>13 DEF FailingOf, TimersOf
  <2>3. StartingOf(j)' = StartingOf(j) \ {r}
    BY <1>11, <1>13 DEF StartingOf, Starting
  <2>4. i \notin RetriesOf(j)
    BY <1>7, Blanks DEF IInv, Blank, RetriesOf, Ids, None
  <2>5. CASE j = q.of
    <3>1. r \in StartingOf(j)
      BY <1>2, <2>5 DEF StartingOf
    <3>2. RetriesOf(j)' = RetriesOf(j) \cup {i}
      BY <1>7, <1>9, <1>11, <2>4, <2>5 DEF RetriesOf
    <3>3. OneHand(FailingOf(j), TimersOf(j), StartingOf(j) \ {r}, RetriesOf(j) \cup {i})
      BY <2>1, <3>1, HandOn
    <3>4. QED
      BY <2>2, <2>3, <3>2, <3>3
  <2>6. CASE j # q.of
    <3>1. RetriesOf(j)' = RetriesOf(j) /\ StartingOf(j)' \subseteq StartingOf(j)
      BY <1>7, <1>9, <1>11, <2>3, <2>4, <2>6 DEF RetriesOf
    <3>2. QED
      BY <2>1, <2>2, <3>1, Fewer
  <2>7. QED
    BY <2>5, <2>6
<1>26. QED
  BY <1>12, <1>16, <1>17, <1>18, <1>19, <1>20, <1>24, <1>25 DEF IInv
-----------------------------------------------------------------------------
(* The engine *)

\* A report leaves the engine: the first terminal one of its instance, or none.
LEMMA Sends ==
  ASSUME IInv, NEW m \in Reports, NEW i \in Ids, SendReport(m, i)
  PROVE  IInv'
<1>1. PICK x \in {"running"} \cup Terminal :
        /\ announced' = [announced EXCEPT ![i] = x] /\ announced[i] \notin Terminal
        /\ engine[i] # "absent" /\ (x \in Terminal => engine[i] \in Terminal)
  <2>1. CASE Engine!Progress(i)
    BY <2>1 DEF Engine!Progress, IInv, NotYet, Terminal
  <2>2. CASE Engine!Announce(i)
    BY <2>2 DEF Engine!Announce, Engine!Terminal, Terminal
  <2>3. QED
    BY <2>1, <2>2 DEF SendReport
<1> DEFINE n == [rep[m] EXCEPT !.pc = "sent", !.id = i, !.status = x, !.awaited = TRUE]
<1>2. announced' \in [Ids -> Engine!Announces] /\ announced'[i] = x
      /\ \A j \in Ids \ {i} : announced'[j] = announced[j]
  BY <1>1 DEF IInv, TypeOK, Engine!Announces, Engine!Terminal, Terminal
<1>3. /\ rep[m].pc = "free" /\ rep' = [rep EXCEPT ![m] = n] /\ engine' = engine
      /\ UNCHANGED <<lastStatus, inst, pending, cancelled, req, timers, faults>>
  BY <1>2 DEF SendReport, Engine!Progress, Engine!Announce
<1>4. n \in Report /\ n.pc = "sent" /\ n.id = i /\ n.status = x
  BY DEF IInv, TypeOK, Report, Statuses
<1> HIDE DEF n
<1>5. /\ rep' \in [Reports -> Report] /\ rep'[m] = n
      /\ \A k \in Reports \ {m} : rep'[k] = rep[k]
  BY <1>3, <1>4 DEF IInv, TypeOK
<1>6. TypeOK'
  BY <1>2, <1>3, <1>5 DEF IInv, TypeOK
<1>7. Unused' = Unused /\ Starting' = Starting
  BY <1>3 DEF Unused, Starting
<1>8. Used(i) /\ x # "idle"
  BY <1>1 DEF IInv, Named, Terminal
<1>9. Named' /\ Blank' /\ Prefix' /\ Budget' /\ NotYet'
  <2>1. Named'
    BY <1>2, <1>3, <1>4, <1>5, <1>8 DEF IInv, Named, Used
  <2>2. Blank' /\ Prefix' /\ Budget'
    BY <1>3, <1>7 DEF IInv, Blank, Prefix, Budget
  <2>3. NotYet'
    BY <1>1, <1>2, <1>3 DEF IInv, NotYet, Terminal
  <2>4. QED
    BY <2>1, <2>2, <2>3
<1>10. announced[i] # "failed"
  BY <1>1 DEF Terminal
<1>11. \A o, a : Descends(o, a) => Descends(o, a)' /\ o # i
  BY <1>2, <1>3, <1>10 DEF Descends, Ids, None
<1>12. /\ \A k \in Failing : rep[k].id # i
       /\ Failing' \subseteq Failing \cup {m} /\ (m \in Failing' => x = "failed") /\ m \notin Failing
  BY <1>3, <1>4, <1>5, <1>10 DEF IInv, Sources, Failing
<1>13. Sources'
  <2>1. \A k \in Failing' : announced'[rep'[k].id] = "failed"
    BY <1>2, <1>4, <1>5, <1>12 DEF IInv, Sources, Named, Used, Failing
  <2>2. /\ \A t \in timers' : Descends(t.of, t.attempt)
        /\ \A r \in Starting' : Descends(req'[r].of, req'[r].attempt)
        /\ \A j \in Ids : Descends(inst'[j].of, inst'[j].attempt) /\ inst'[j].of < j
    BY <1>3, <1>7 DEF IInv, Sources
  <2> HIDE DEF Descends
  <2>3. QED
    BY <1>11, <2>1, <2>2 DEF Sources
<1>14. Once'
  <2> SUFFICES ASSUME NEW j \in Ids
               PROVE  OneHand(FailingOf(j), TimersOf(j), StartingOf(j), RetriesOf(j))'
    BY DEF Once
  <2>1. /\ TimersOf(j)' = TimersOf(j) /\ StartingOf(j)' = StartingOf(j)
        /\ RetriesOf(j)' = RetriesOf(j)
    BY <1>3, <1>7 DEF TimersOf, StartingOf, RetriesOf
  <2>2. CASE j # i
    <3>1. FailingOf(j)' \subseteq FailingOf(j)
      BY <1>4, <1>5, <1>12, <2>2 DEF FailingOf, Failing
    <3>2. QED
      BY <2>1, <3>1, Fewer DEF IInv, Once
  <2>3. CASE j = i
    <3>1. FailingOf(j)' \subseteq {m}
      BY <1>5, <1>12, <2>3 DEF FailingOf, Failing
    <3>2. TimersOf(j) = {} /\ StartingOf(j) = {} /\ RetriesOf(j) = {}
      BY <1>11, <2>3 DEF IInv, Sources, TimersOf, StartingOf, RetriesOf
    <3>3. QED
      BY <2>1, <3>1, <3>2 DEF OneHand, Single
  <2>4. QED
    BY <2>2, <2>3
<1>15. QED
  BY <1>6, <1>9, <1>13, <1>14 DEF IInv

\* Whatever else happens in the engine touches no record, handler or report.
LEMMA EngineSteps ==
  ASSUME IInv,
         \/ \E i \in Ids : EngineAccepts(i) \/ EngineForgets(i) \/ \E s \in Terminal : EngineSettles(i, s)
         \/ EngineShutdown
  PROVE  IInv'
<1>1. /\ UNCHANGED <<lastStatus, inst, announced, req, rep, timers>>
      /\ pending' \subseteq pending /\ faults' \in 0 .. MaxFaults /\ cancelled' \in SUBSET Ids
  <2>1. CASE EngineShutdown
    BY <2>1, OrchestrationAssumption DEF EngineShutdown, Fault, IInv, TypeOK
  <2>2. ASSUME NEW i \in Ids,
               EngineAccepts(i) \/ EngineForgets(i) \/ \E s \in Terminal : EngineSettles(i, s)
        PROVE  /\ UNCHANGED <<lastStatus, inst, announced, req, rep, timers, faults, cancelled>>
               /\ pending' \subseteq pending
    BY <2>2 DEF EngineAccepts, EngineForgets, EngineSettles, Engine!Accept, Engine!Forget, Engine!Settle
  <2>3. QED
    BY <2>1, <2>2 DEF IInv, TypeOK
<1>2. /\ engine' \in [Ids -> Engine!States]
      /\ \A i \in Ids : /\ engine[i] = "absent" /\ engine'[i] # "absent" => i \in pending
                        /\ engine'[i] \in {"absent", "running"} => engine[i] \in {"absent", "running"}
  <2>1. CASE EngineShutdown
    BY <2>1 DEF EngineShutdown, IInv, TypeOK
  <2>2. CASE \E i \in Ids : EngineAccepts(i)
    BY <2>2 DEF EngineAccepts, Engine!Accept, Engine!States, IInv, TypeOK
  <2>3. CASE \E i \in Ids : EngineForgets(i)
    BY <2>3 DEF EngineForgets, Engine!Forget, Engine!States, Engine!Terminal, IInv, TypeOK
  <2>4. CASE \E i \in Ids, s \in Terminal : EngineSettles(i, s)
    BY <2>4 DEF EngineSettles, Engine!Settle, Engine!States, Engine!Terminal, Terminal, IInv, TypeOK
  <2>5. QED
    BY <2>1, <2>2, <2>3, <2>4
<1>3. TypeOK'
  BY <1>1, <1>2 DEF IInv, TypeOK
<1>4. Unused' = Unused /\ Starting' = Starting /\ Failing' = Failing
  BY <1>1 DEF Unused, Starting, Failing
<1>5. Named' /\ Blank' /\ Prefix' /\ Budget' /\ NotYet'
  BY <1>1, <1>2, <1>4 DEF IInv, Named, Blank, Prefix, Budget, NotYet, Used
<1>6. \A o, a : Descends(o, a) <=> Descends(o, a)'
  BY <1>1 DEF Descends
<1>7. Sources' /\ Once'
  BY <1>1, <1>4, <1>6
     DEF IInv, Sources, Descends, Once, FailingOf, TimersOf, StartingOf, RetriesOf
<1>8. QED
  BY <1>3, <1>5, <1>7 DEF IInv

\* A crash of the engine or of the backend ends handlers, and takes reports and timers along.
LEMMA Crashes ==
  ASSUME IInv, EngineCrash \/ NodeCrash
  PROVE  IInv'
<1>1. /\ UNCHANGED <<lastStatus, inst, pending, announced, cancelled>> /\ timers' \subseteq timers
      /\ faults' \in 0 .. MaxFaults
  BY OrchestrationAssumption
     DEF EngineCrash, NodeCrash, Fault, engineVars, Engine!Crash, IInv, TypeOK
<1>2. /\ req' \in [Requests -> Request]
      /\ \A r \in Requests : req'[r] = req[r] \/ req'[r] = IdleRequest
  BY Blanks DEF EngineCrash, NodeCrash, IInv, TypeOK
<1>3. /\ rep' \in [Reports -> Report]
      /\ \A m \in Reports : rep'[m].pc # "free" =>
           rep[m].pc # "free" /\ rep'[m].id = rep[m].id /\ rep'[m].status = rep[m].status
  <2>1. CASE NodeCrash
    BY <2>1, Blanks DEF NodeCrash
  <2>2. CASE EngineCrash
    <3>1. \A m \in Reports :
            /\ [rep[m] EXCEPT !.awaited = FALSE] \in Report
            /\ [rep[m] EXCEPT !.awaited = FALSE].pc = rep[m].pc
            /\ [rep[m] EXCEPT !.awaited = FALSE].id = rep[m].id
            /\ [rep[m] EXCEPT !.awaited = FALSE].status = rep[m].status
      BY DEF IInv, TypeOK, Report
    <3>2. rep' = [m \in Reports |-> IF rep[m].pc = "sent" THEN FreeReport
                                    ELSE [rep[m] EXCEPT !.awaited = FALSE]]
      BY <2>2 DEF EngineCrash
    <3>3. QED
      BY <3>1, <3>2, Blanks
  <2>3. QED
    BY <2>1, <2>2
<1>4. /\ engine' \in [Ids -> Engine!States]
      /\ \A i \in Ids : engine'[i] \in {engine[i], "forgotten"} /\ (engine[i] = "absent" => engine'[i] = "absent")
  BY DEF EngineCrash, NodeCrash, engineVars, Engine!Crash, Engine!States, IInv, TypeOK
<1>5. TypeOK'
  BY <1>1, <1>2, <1>3, <1>4 DEF IInv, TypeOK
<1>6. Unused' = Unused /\ Starting' \subseteq Starting /\ Failing' \subseteq Failing
  BY <1>1, <1>2, <1>3, Blanks DEF Unused, Starting, Failing
<1>7. Named'
  BY <1>1, <1>2, <1>3, <1>4, Blanks DEF IInv, Named, Used, Working
<1>8. Blank' /\ Prefix' /\ NotYet'
  BY <1>1, <1>2, <1>4, <1>6 DEF IInv, Blank, Prefix, NotYet
<1>9. Budget'
  <2>1. /\ IsFiniteSet(Starting) /\ Cardinality(Starting) \in Nat /\ Cardinality(Unused) \in Nat
    BY Finite DEF IInv
  <2>2. Cardinality(Starting') <= Cardinality(Starting) /\ Cardinality(Starting') \in Nat
    BY <1>6, <2>1, FS_Subset, FS_CardinalityType
  <2>3. QED
    BY <1>6, <2>1, <2>2 DEF IInv, Budget
<1>10. \A r \in Starting' : req'[r] = req[r]
  BY <1>2, Blanks DEF Starting
<1>11. \A m \in Failing' : rep'[m].id = rep[m].id
  BY <1>3 DEF Failing
<1>12. \A o, a : Descends(o, a) <=> Descends(o, a)'
  BY <1>1 DEF Descends
<1>13. Sources'
  <2>1. /\ \A m \in Failing' : announced'[rep'[m].id] = "failed"
        /\ \A t \in timers' : Descends(t.of, t.attempt)
        /\ \A r \in Starting' : Descends(req'[r].of, req'[r].attempt)
        /\ \A j \in Ids : Descends(inst'[j].of, inst'[j].attempt) /\ inst'[j].of < j
    BY <1>1, <1>6, <1>10, <1>11 DEF IInv, Sources
  <2> HIDE DEF Descends
  <2>2. QED
    BY <1>12, <2>1 DEF Sources
<1>14. Once'
  <2> SUFFICES ASSUME NEW j \in Ids
               PROVE  OneHand(FailingOf(j), TimersOf(j), StartingOf(j), RetriesOf(j))'
    BY DEF Once
  <2>1. /\ FailingOf(j)' \subseteq FailingOf(j) /\ TimersOf(j)' \subseteq TimersOf(j)
        /\ StartingOf(j)' \subseteq StartingOf(j) /\ RetriesOf(j)' = RetriesOf(j)
    BY <1>1, <1>6, <1>10, <1>11 DEF FailingOf, TimersOf, StartingOf, RetriesOf
  <2>2. QED
    BY <2>1, Fewer DEF IInv, Once
<1>15. QED
  BY <1>5, <1>7, <1>8, <1>9, <1>13, <1>14 DEF IInv

-----------------------------------------------------------------------------

LEMMA Goes == IInv /\ [Next]_vars => IInv'
<1> SUFFICES ASSUME IInv, [Next]_vars PROVE IInv'
  OBVIOUS
<1>1. ASSUME NEW r \in Requests,
             \/ StartStep(r) \/ StartRead(r) \/ StartFails(r) \/ StopFind(r) \/ StopStep(r) \/ StopFails(r)
      PROVE  IInv'
  BY <1>1, RequestSteps, Creates DEF StartStep, StopStep
<1>2. ASSUME NEW r \in Requests, NEW t \in timers, RetryFire(r, t) PROVE IInv'
  BY <1>2, Fires
<1>3. ASSUME NEW i \in Ids, NEW m \in Reports, SendReport(m, i) PROVE IInv'
  BY <1>3, Sends
<1>4. ASSUME NEW m \in Reports, ReportStep(m) \/ GiveUp(m) \/ LoseReport(m) PROVE IInv'
  BY <1>4, ReportSteps, Schedules DEF ReportStep
<1>5. CASE \/ \E i \in Ids : EngineAccepts(i) \/ EngineForgets(i) \/ \E s \in Terminal : EngineSettles(i, s)
           \/ EngineShutdown
  BY <1>5, EngineSteps
<1>6. CASE EngineCrash \/ NodeCrash
  BY <1>6, Crashes
<1>7. CASE UNCHANGED vars
  BY <1>7
     DEF vars, IInv, TypeOK, Named, Used, Blank, Prefix, Unused, Budget, Starting, NotYet, Sources,
         Failing, Descends, Once, FailingOf, TimersOf, StartingOf, RetriesOf
<1>8. QED
  BY <1>1, <1>2, <1>3, <1>4, <1>5, <1>6, <1>7 DEF Next

\* Every variable of the record's runs keeps its type; in particular every start that has
\* passed the bound finds an id.
THEOREM TypeCorrect == Spec => []TypeOK
<1>1. IInv => TypeOK
  BY DEF IInv
<1>2. QED
  BY Begins, Goes, <1>1, PTL DEF Spec

\* RetryChain (run.service.js scheduleRetry, engineReport.service.js): each retry continues
\* one failure that the engine reported, with the next attempt, within retryCount, and no
\* failure is retried twice, however reports, timers, starts, stops, crashes and lost
\* messages interleave.
THEOREM RetryChainHolds == Spec => []RetryChain
<1>1. IInv => RetryChain
  <2> SUFFICES ASSUME IInv, NEW i \in Ids, inst[i].attempt > 0
               PROVE  /\ inst[i].of \in 1 .. i - 1
                      /\ inst[i].attempt = inst[inst[i].of].attempt + 1
                      /\ inst[i].attempt <= RetryCount
                      /\ announced[inst[i].of] = "failed"
                      /\ \A j \in Ids \ {i} : inst[j].of # inst[i].of
    BY DEF RetryChain
  <2>1. inst[i].attempt \in 1 .. RetryCount
    BY OrchestrationAssumption DEF IInv, TypeOK, Instance
  <2>2. /\ inst[i].of \in Ids /\ announced[inst[i].of] = "failed" /\ inst[i].of < i
        /\ inst[i].attempt = inst[inst[i].of].attempt + 1
    BY <2>1 DEF IInv, Sources, Descends
  <2>3. \A j \in Ids \ {i} : inst[j].of # inst[i].of
    BY <2>2 DEF IInv, Once, OneHand, Single, RetriesOf
  <2>4. QED
    BY <2>1, <2>2, <2>3 DEF Ids
<1>2. QED
  BY Begins, Goes, <1>1, PTL DEF Spec

-----------------------------------------------------------------------------
(* The order that the event loop gives with the memory driver *)

Creating == {"check", "create", "mark", "calling", "rollback", "undelete", "restore"}
Outside  == {"idle", "calling", "stopping", "waiting", "answered"}

\* At most one handler is between two repository calls, and what it has found or written
\* last is still there.
Serial == ~Mysql =>
  /\ Single(MidSection)
  /\ \A r \in Requests :
       /\ req[r].pc \in Creating => req[r].prev # "running"
       /\ req[r].pc = "create" => Running = {}
       /\ req[r].pc = "mark" => inst[req[r].id].status = "running"
       /\ req[r].pc = "undelete" => lastStatus # "running"
  /\ \A m \in Reports :
       /\ rep[m].pc \in {"update", "write"} => Exists(rep[m].id)
       /\ rep[m].pc = "sync" /\ rep[m].status = "running" => inst[rep[m].id].status = "running"

\* A record that says running has a running row, or the handler that has ended the last one
\* is about to say so.
Backed == ~Mysql /\ lastStatus = "running" =>
  \/ Running # {}
  \/ \E r \in Requests : req[r].pc \in {"restore", "stopFinish"}
  \/ \E m \in Reports : rep[m].pc = "sync" /\ rep[m].status # "running"

\* While handler x has the turn, no other is between two calls.
LEMMA Alone ==
  ASSUME ~Mysql, NEW x, Turn(x)
  PROVE  /\ \A r \in Requests \ {x} : req[r].pc \in Outside
         /\ \A m \in Reports \ {x} : rep[m].pc \in {"free", "sent"}
  BY DEF Turn, MidSection, Outside

LEMMA Apart == \A r \in Requests, m \in Reports : r # m
  BY OrchestrationAssumption

\* A handler of start or stop that has the turn may write what it likes.
LEMMA RequestSerial ==
  ASSUME IInv, Serial, ~Mysql, NEW r \in Requests, NEW n \in Request,
         req' = [req EXCEPT ![r] = n], rep' = rep, Turn(r),
         n.pc \in Creating => n.prev # "running",
         n.pc = "create" => Running' = {},
         n.pc = "mark" => inst'[n.id].status = "running",
         n.pc = "undelete" => lastStatus' # "running"
  PROVE  Serial'
<1>1. req'[r] = n /\ \A q \in Requests \ {r} : req'[q] = req[q]
  BY DEF IInv, TypeOK
<1>2. /\ \A q \in Requests \ {r} : req[q].pc \in Outside
      /\ \A m \in Reports : rep[m].pc \in {"free", "sent"}
  BY Alone, Apart
<1>3. MidSection' \subseteq {r}
  BY <1>1, <1>2 DEF MidSection, Outside
<1>4. \A q \in Requests :
        /\ req'[q].pc \in Creating => req'[q].prev # "running"
        /\ req'[q].pc = "create" => Running' = {}
        /\ req'[q].pc = "mark" => inst'[req'[q].id].status = "running"
        /\ req'[q].pc = "undelete" => lastStatus' # "running"
  BY <1>1, <1>2 DEF Serial, Outside
<1>5. \A m \in Reports : rep'[m].pc \in {"free", "sent"}
  BY <1>2
<1>6. QED
  BY <1>3, <1>4, <1>5 DEF Serial, Single, Exists

\* A handler that only waits for the engine takes no turn.
LEMMA RequestWaits ==
  ASSUME IInv, Serial, ~Mysql, NEW r \in Requests, NEW n \in Request,
         req' = [req EXCEPT ![r] = n], rep' = rep, n.pc \in Outside \ {"calling"},
         UNCHANGED <<inst, lastStatus>>
  PROVE  Serial'
<1>1. req'[r] = n /\ \A q \in Requests \ {r} : req'[q] = req[q]
  BY DEF IInv, TypeOK
<1>2. MidSection' \subseteq MidSection
  BY <1>1 DEF MidSection, Outside
<1>3. Running' = Running
  BY DEF Running
<1>4. \A q \in Requests :
        /\ req'[q].pc \in Creating => req'[q].prev # "running"
        /\ req'[q].pc = "create" => Running' = {}
        /\ req'[q].pc = "mark" => inst'[req'[q].id].status = "running"
        /\ req'[q].pc = "undelete" => lastStatus' # "running"
  BY <1>1, <1>3 DEF Serial, Outside, Creating
<1>5. \A m \in Reports :
       /\ rep'[m].pc \in {"update", "write"} => inst'[rep'[m].id].status \notin {"none", "deleted"}
       /\ rep'[m].pc = "sync" /\ rep'[m].status = "running" => inst'[rep'[m].id].status = "running"
  BY DEF Serial, Exists
<1>6. QED
  BY <1>2, <1>4, <1>5 DEF Serial, Single, Exists

\* The same for a report handler that has the turn ...
LEMMA ReportSerial ==
  ASSUME IInv, Serial, ~Mysql, NEW m \in Reports, NEW n \in Report,
         rep' = [rep EXCEPT ![m] = n], req' = req, Turn(m),
         n.pc \in {"update", "write"} => inst'[n.id].status \notin {"none", "deleted"},
         n.pc = "sync" /\ n.status = "running" => inst'[n.id].status = "running"
  PROVE  Serial'
<1>1. rep'[m] = n /\ \A k \in Reports \ {m} : rep'[k] = rep[k]
  BY DEF IInv, TypeOK
<1>2. /\ \A q \in Requests : req[q].pc \in Outside
      /\ \A k \in Reports \ {m} : rep[k].pc \in {"free", "sent"}
  BY Alone, Apart
<1>3. MidSection' \subseteq {m}
  BY <1>1, <1>2 DEF MidSection, Outside
<1>4. \A q \in Requests :
        /\ req'[q].pc \in Creating => req'[q].prev # "running"
        /\ req'[q].pc \notin {"create", "mark", "undelete"}
  BY <1>2 DEF Serial, Outside
<1>5. \A k \in Reports :
       /\ rep'[k].pc \in {"update", "write"} => inst'[rep'[k].id].status \notin {"none", "deleted"}
       /\ rep'[k].pc = "sync" /\ rep'[k].status = "running" => inst'[rep'[k].id].status = "running"
  <2>1. \A k \in Reports \ {m} : rep'[k].pc \in {"free", "sent"}
    BY <1>1, <1>2
  <2>2. QED
    BY <1>1, <2>1 DEF Exists
<1>6. QED
  BY <1>3, <1>4, <1>5 DEF Serial, Single, Exists

\* ... and for reports that are on their way, or whose answer nobody awaits any more, and for
\* handlers that end with the process of the engine.
LEMMA OnTheWay ==
  ASSUME IInv, Serial, UNCHANGED <<inst, lastStatus>>,
         \A r \in Requests : req'[r] = req[r] \/ req'[r].pc = "idle",
         \A m \in Reports :
           \/ rep'[m].pc = rep[m].pc /\ rep'[m].id = rep[m].id /\ rep'[m].status = rep[m].status
           \/ rep'[m].pc \in {"free", "sent"} /\ rep[m].pc \in {"free", "sent"}
  PROVE  Serial'
<1> SUFFICES ASSUME ~Mysql PROVE Serial'
  BY DEF Serial
<1>1. MidSection' \subseteq MidSection
  BY DEF MidSection
<1>2. Running' = Running
  BY DEF Running
<1>3. \A q \in Requests :
        /\ req'[q].pc \in Creating => req'[q].prev # "running"
        /\ req'[q].pc = "create" => Running' = {}
        /\ req'[q].pc = "mark" => inst'[req'[q].id].status = "running"
        /\ req'[q].pc = "undelete" => lastStatus' # "running"
  BY <1>2 DEF Serial, Creating
<1>4. \A m \in Reports :
       /\ rep'[m].pc \in {"update", "write"} => inst'[rep'[m].id].status \notin {"none", "deleted"}
       /\ rep'[m].pc = "sync" /\ rep'[m].status = "running" => inst'[rep'[m].id].status = "running"
  BY DEF Serial, Exists
<1>5. QED
  BY <1>1, <1>3, <1>4 DEF Serial, Single, Exists

LEMMA SerialInit == Init => Serial
<1>1. Init => Running = {} /\ MidSection = {}
  BY Blanks DEF Init, Running, MidSection
<1>2. QED
  BY <1>1, Blanks DEF Init, Serial, Single, Creating

\* Where a handler goes and what it takes along.
LEMMA Handed ==
  ASSUME NEW q \in Request, NEW p \in Pcs
  PROVE  /\ [q EXCEPT !.pc = p] \in Request /\ [q EXCEPT !.pc = p].pc = p
         /\ [q EXCEPT !.pc = p].id = q.id /\ [q EXCEPT !.pc = p].prev = q.prev
  BY DEF Request, Pcs, StartPcs, Working

LEMMA SerialStart ==
  ASSUME IInv, Serial, ~Mysql, NEW r \in Requests,
         \/ StartRead(r) \/ StartCheck(r) \/ StartCreate(r) \/ StartMark(r) \/ StartFails(r)
         \/ RollbackDelete(r) \/ RollbackRestore(r)
  PROVE  Serial'
<1> DEFINE q == req[r]
<1>1. q \in Request /\ lastStatus \in Statuses /\ inst \in [Ids -> Instance]
  BY DEF IInv, TypeOK
<1>2. rep' = rep /\ Turn(r)
  BY DEF StartRead, StartCheck, StartCreate, StartMark, StartFails, RollbackDelete, RollbackRestore
<1>3. q.pc \in Creating => q.prev # "running"
  BY DEF Serial
<1>4. IdleRequest \in Request /\ IdleRequest.pc \notin Creating
  BY Blanks DEF Creating
<1> HIDE DEF q
<1>5. ASSUME req' = [req EXCEPT ![r] = IdleRequest] PROVE Serial'
  BY <1>2, <1>4, <1>5, RequestSerial DEF Creating
<1>6. ASSUME NEW p \in Creating, req' = [req EXCEPT ![r] = [q EXCEPT !.pc = p]], q.pc \in Creating,
             p = "create" => Running' = {},
             p = "mark" => FALSE,
             p = "undelete" => lastStatus' # "running"
      PROVE  Serial'
  <2> DEFINE n == [q EXCEPT !.pc = p]
  <2>1. n \in Request /\ n.pc = p /\ n.prev = q.prev
    BY <1>1, Handed DEF Creating, Pcs, StartPcs, Working
  <2>2. req' = [req EXCEPT ![r] = n]
    BY <1>6
  <2> HIDE DEF n
  <2>3. QED
    BY <1>2, <1>3, <1>6, <2>1, <2>2, RequestSerial
<1>7. CASE StartRead(r)
  <2>1. CASE lastStatus = "running"
    BY <1>5, <1>7, <2>1 DEF StartRead
  <2>2. CASE lastStatus # "running"
    <3> DEFINE n == [q EXCEPT !.pc = "check", !.prev = lastStatus]
    <3>1. n \in Request /\ n.pc = "check" /\ n.prev = lastStatus
      BY <1>1 DEF Request
    <3>2. req' = [req EXCEPT ![r] = n]
      BY <1>7, <2>2 DEF StartRead, q
    <3> HIDE DEF n
    <3>3. QED
      BY <1>2, <2>2, <3>1, <3>2, RequestSerial
  <2>3. QED
    BY <2>1, <2>2
<1>8. CASE StartCheck(r)
  <2>1. CASE Running # {}
    BY <1>5, <1>8, <2>1 DEF StartCheck
  <2>2. CASE Running = {}
    <3>1. Running' = {} /\ q.pc = "check" /\ req' = [req EXCEPT ![r] = [q EXCEPT !.pc = "create"]]
      BY <1>8, <2>2 DEF StartCheck, Running, q
    <3>2. QED
      BY <1>6, <3>1 DEF Creating
  <2>3. QED
    BY <2>1, <2>2
<1>9. CASE StartCreate(r)
  <2>1. PICK i : i = NextId
    OBVIOUS
  <2>2. i \in Ids
    BY <1>9, <2>1, NextFree DEF StartCreate, Starting
  <2> DEFINE n == [q EXCEPT !.pc = "mark", !.id = i]
             f == [status |-> "running", attempt |-> q.attempt, of |-> q.of]
  <2>3. n \in Request /\ n.pc = "mark" /\ n.prev = q.prev /\ n.id = i
    BY <1>1, <2>2 DEF Request
  <2>4. f.status = "running"
    OBVIOUS
  <2>5. req' = [req EXCEPT ![r] = n] /\ inst' = [inst EXCEPT ![i] = f] /\ q.pc = "create"
    BY <1>9, <2>1 DEF StartCreate, q
  <2> HIDE DEF n, f
  <2>6. inst'[n.id].status = "running"
    BY <1>1, <2>2, <2>3, <2>4, <2>5
  <2>7. QED
    BY <1>2, <1>3, <2>3, <2>5, <2>6, RequestSerial DEF Creating
<1>10. CASE StartMark(r) \/ StartFails(r)
  <2>1. /\ q.pc \in Creating
        /\ \E p \in {"calling", "rollback"} : req' = [req EXCEPT ![r] = [q EXCEPT !.pc = p]]
    BY <1>10 DEF StartMark, StartFails, Creating, q
  <2>2. QED
    BY <1>6, <2>1 DEF Creating
<1>11. CASE RollbackDelete(r)
  <2>1. \/ req' = [req EXCEPT ![r] = IdleRequest]
        \/ req' = [req EXCEPT ![r] = [q EXCEPT !.pc = "restore"]] /\ q.pc \in Creating
    BY <1>11 DEF RollbackDelete, Creating, q
  <2>2. QED
    BY <1>5, <1>6, <2>1 DEF Creating
<1>12. CASE RollbackRestore(r)
  <2>1. q.pc \in Creating /\ lastStatus' = q.prev
    BY <1>12 DEF RollbackRestore, Creating, q
  <2>2. \/ req' = [req EXCEPT ![r] = IdleRequest]
        \/ req' = [req EXCEPT ![r] = [q EXCEPT !.pc = "undelete"]]
    BY <1>12 DEF RollbackRestore, q
  <2>3. QED
    BY <1>3, <1>5, <1>6, <2>1, <2>2 DEF Creating
<1>13. QED
  BY <1>7, <1>8, <1>9, <1>10, <1>11, <1>12

LEMMA SerialOther ==
  ASSUME IInv, Serial, ~Mysql, NEW r \in Requests,
         \/ StartReplied(r) \/ RetryCheck(r) \/ \E t \in timers : RetryFire(r, t)
         \/ StopFind(r) \/ StopArrives(r) \/ StopReply(r) \/ StopFails(r)
         \/ StopUpdate(r) \/ StopWrite(r) \/ StopFinish(r)
  PROVE  Serial'
<1>1. req[r] \in Request /\ inst \in [Ids -> Instance]
  BY DEF IInv, TypeOK
<1>2. CASE StartReplied(r) \/ StopArrives(r) \/ StopReply(r) \/ StopFails(r)
  <2>1. \E n \in Request : req' = [req EXCEPT ![r] = n] /\ n.pc \in Outside \ {"calling"}
    <3>1. \/ req' = [req EXCEPT ![r] = IdleRequest]
          \/ \E p \in {"waiting", "answered"} : req' = [req EXCEPT ![r] = [req[r] EXCEPT !.pc = p]]
      BY <1>2 DEF StartReplied, StopArrives, StopReply, StopFails
    <3>2. \A p \in {"waiting", "answered"} :
            [req[r] EXCEPT !.pc = p] \in Request /\ [req[r] EXCEPT !.pc = p].pc = p
      BY <1>1, Handed DEF Pcs, Working
    <3>3. QED
      BY <3>1, <3>2, Blanks DEF Outside
  <2>2. rep' = rep /\ UNCHANGED <<inst, lastStatus>>
    BY <1>2 DEF StartReplied, StopArrives, StopReply, StopFails
  <2>3. QED
    BY <2>1, <2>2, RequestWaits
<1>3. CASE RetryCheck(r) \/ StopUpdate(r) \/ StopWrite(r) \/ StopFinish(r)
  <2>1. \E n \in Request : req' = [req EXCEPT ![r] = n] /\ n.pc \notin Creating
    <3>1. \/ req' = [req EXCEPT ![r] = IdleRequest]
          \/ \E p \in {"read", "stopWrite", "stopFinish"} : req' = [req EXCEPT ![r] = [req[r] EXCEPT !.pc = p]]
      BY <1>3 DEF RetryCheck, StopUpdate, StopWrite, StopFinish
    <3>2. \A p \in {"read", "stopWrite", "stopFinish"} :
            [req[r] EXCEPT !.pc = p] \in Request /\ [req[r] EXCEPT !.pc = p].pc = p
      BY <1>1, Handed DEF Pcs, Working, StartPcs
    <3>3. QED
      BY <3>1, <3>2, Blanks DEF Creating
  <2>2. rep' = rep /\ Turn(r)
    BY <1>3 DEF RetryCheck, StopUpdate, StopWrite, StopFinish
  <2>3. QED
    BY <2>1, <2>2, RequestSerial DEF Creating
<1>4. CASE StopFind(r)
  <2>1. PICK i \in Running : req' = [req EXCEPT ![r] = [req[r] EXCEPT !.pc = "stopping", !.id = i]]
    BY <1>4 DEF StopFind
  <2> DEFINE n == [req[r] EXCEPT !.pc = "stopping", !.id = i]
  <2>2. n \in Request /\ n.pc = "stopping"
    BY <1>1 DEF Request, Running
  <2>3. req' = [req EXCEPT ![r] = n]
    BY <2>1
  <2> HIDE DEF n
  <2>4. rep' = rep /\ UNCHANGED <<inst, lastStatus>>
    BY <1>4 DEF StopFind
  <2>5. QED
    BY <2>2, <2>3, <2>4, RequestWaits DEF Outside
<1>5. ASSUME NEW t \in timers, RetryFire(r, t) PROVE Serial'
  <2>1. rep' = rep /\ Turn(r) /\ UNCHANGED <<inst, lastStatus>> /\ t \in Retry
    BY <1>5 DEF RetryFire, IInv, TypeOK
  <2>2. CASE req' = req
    BY <2>1, <2>2, OnTheWay
  <2>3. CASE req' # req
    <3> DEFINE n == [req[r] EXCEPT !.pc = "retry", !.attempt = t.attempt, !.of = t.of]
    <3>1. t.attempt \in 0 .. RetryCount /\ t.of \in Ids
      BY <2>1, OrchestrationAssumption DEF Retry
    <3>2. n \in Request /\ n.pc = "retry"
      BY <1>1, <3>1 DEF Request
    <3>3. req' = [req EXCEPT ![r] = n]
      BY <1>5, <2>3 DEF RetryFire
    <3> HIDE DEF n
    <3>4. QED
      BY <2>1, <3>2, <3>3, RequestSerial DEF Creating
  <2>4. QED
    BY <2>2, <2>3
<1>6. QED
  BY <1>2, <1>3, <1>4, <1>5

LEMMA SerialReport ==
  ASSUME IInv, Serial, ~Mysql, NEW m \in Reports,
         \/ ReportStep(m) \/ GiveUp(m) \/ LoseReport(m) \/ \E i \in Ids : SendReport(m, i)
  PROVE  Serial'
<1> DEFINE q == rep[m]
<1>1. /\ q \in Report /\ inst \in [Ids -> Instance] /\ q.status \in Statuses
      /\ q.pc # "free" => q.id \in Ids
  BY DEF IInv, TypeOK, Report, Named, Used
<1>2. /\ q.pc \in {"update", "write"} => Exists(q.id)
      /\ q.pc = "sync" /\ q.status = "running" => inst[q.id].status = "running"
  BY DEF Serial
<1> HIDE DEF q
<1>3. ASSUME Turn(m), req' = req, NEW p \in ReportPcs, rep' = [rep EXCEPT ![m] = [q EXCEPT !.pc = p]],
             p \in {"update", "write"} => inst'[q.id].status \notin {"none", "deleted"},
             p = "sync" /\ q.status = "running" => inst'[q.id].status = "running"
      PROVE  Serial'
  <2> DEFINE n == [q EXCEPT !.pc = p]
  <2>1. n \in Report /\ n.pc = p /\ n.id = q.id /\ n.status = q.status /\ rep' = [rep EXCEPT ![m] = n]
    BY <1>1, <1>3, ReportAt
  <2> HIDE DEF n
  <2>2. /\ n.pc \in {"update", "write"} => inst'[n.id].status \notin {"none", "deleted"}
        /\ n.pc = "sync" /\ n.status = "running" => inst'[n.id].status = "running"
    BY <1>3, <2>1 DEF Exists
  <2>3. QED
    BY <1>3, <2>1, <2>2, ReportSerial
<1>4. ASSUME Turn(m), req' = req, rep' = [rep EXCEPT ![m] = FreeReport] PROVE Serial'
  BY <1>4, Blanks, ReportSerial
<1>5. CASE ReportRead(m)
  <2>1. Turn(m) /\ req' = req /\ inst' = inst /\ q.pc = "sent"
    BY <1>5 DEF ReportRead, q
  <2>2. CASE ~Exists(q.id)
    BY <1>4, <1>5, <2>1, <2>2 DEF ReportRead, q
  <2>3. CASE Exists(q.id)
    <3> DEFINE n == [q EXCEPT !.pc = "update", !.seen = inst[q.id].status]
    <3>1. inst[q.id].status \in Statuses
      BY <1>1, <2>1, <2>3 DEF Exists, Instance, Statuses
    <3>2. n \in Report /\ n.pc = "update" /\ n.id = q.id
      BY <1>1, <3>1 DEF Report
    <3>3. rep' = [rep EXCEPT ![m] = n]
      BY <1>5, <2>3 DEF ReportRead, q
    <3> HIDE DEF n
    <3>4. inst'[n.id].status \notin {"none", "deleted"}
      BY <2>1, <2>3, <3>2 DEF Exists
    <3>5. QED
      BY <2>1, <3>2, <3>3, <3>4, ReportSerial
  <2>4. QED
    BY <2>2, <2>3
<1>6. CASE ReportUpdate(m)
  <2>1. /\ Turn(m) /\ req' = req /\ inst' = inst /\ Exists(q.id)
        /\ rep' = [rep EXCEPT ![m] = [q EXCEPT !.pc = "write"]]
    BY <1>2, <1>6 DEF ReportUpdate, q
  <2>2. QED
    BY <1>3, <2>1 DEF ReportPcs, Exists
<1>7. CASE ReportWrite(m)
  <2>1. /\ Turn(m) /\ req' = req /\ inst' = [inst EXCEPT ![q.id].status = q.status] /\ q.pc = "write"
        /\ rep' = [rep EXCEPT ![m] = [q EXCEPT !.pc = "sync"]]
    BY <1>7 DEF ReportWrite, q
  <2>2. inst[q.id] \in Instance
    BY <1>1, <2>1
  <2>3. inst'[q.id].status = q.status
    BY <1>1, <2>1, <2>2 DEF Instance
  <2>4. QED
    BY <1>3, <2>1, <2>3 DEF ReportPcs
<1>8. CASE ReportSync(m)
  <2>1. Turn(m) /\ req' = req /\ rep' = [rep EXCEPT ![m] = [q EXCEPT !.pc = "react"]]
    BY <1>8 DEF ReportSync, q
  <2>2. QED
    BY <1>3, <2>1 DEF ReportPcs
<1>9. CASE ReportReact(m)
  BY <1>4, <1>9 DEF ReportReact
<1>10. CASE GiveUp(m)
  <2>1. /\ rep' = [rep EXCEPT ![m] = [q EXCEPT !.awaited = FALSE]]
        /\ req' = req /\ UNCHANGED <<inst, lastStatus>>
    BY <1>10 DEF GiveUp, q
  <2>2. \A k \in Reports : rep'[k].pc = rep[k].pc /\ rep'[k].id = rep[k].id /\ rep'[k].status = rep[k].status
    <3>1. /\ [q EXCEPT !.awaited = FALSE].pc = q.pc /\ [q EXCEPT !.awaited = FALSE].id = q.id
          /\ [q EXCEPT !.awaited = FALSE].status = q.status
      BY <1>1 DEF Report
    <3>2. QED
      BY <2>1, <3>1 DEF IInv, TypeOK, q
  <2>3. QED
    BY <2>1, <2>2, OnTheWay
<1>11. CASE LoseReport(m)
  <2>1. /\ rep' = [rep EXCEPT ![m] = FreeReport] /\ rep[m].pc = "sent"
        /\ req' = req /\ UNCHANGED <<inst, lastStatus>>
    BY <1>11 DEF LoseReport
  <2>2. \A k \in Reports :
          \/ rep'[k] = rep[k]
          \/ rep'[k].pc = "free" /\ rep[k].pc = "sent"
    BY <2>1, Blanks DEF IInv, TypeOK
  <2>3. QED
    BY <2>1, <2>2, OnTheWay
<1>12. ASSUME NEW i \in Ids, SendReport(m, i) PROVE Serial'
  <2>1. /\ rep' = [rep EXCEPT ![m] = [q EXCEPT !.pc = "sent", !.id = i, !.status = announced'[i],
                                                !.awaited = TRUE]]
        /\ q.pc = "free" /\ req' = req /\ UNCHANGED <<inst, lastStatus>>
    BY <1>12 DEF SendReport, q
  <2>2. [q EXCEPT !.pc = "sent", !.id = i, !.status = announced'[i], !.awaited = TRUE].pc = "sent"
    BY <1>1 DEF Report
  <2>3. \A k \in Reports :
          \/ rep'[k] = rep[k]
          \/ rep'[k].pc = "sent" /\ rep[k].pc = "free"
    BY <2>1, <2>2 DEF IInv, TypeOK, q
  <2>4. QED
    BY <2>1, <2>3, OnTheWay
<1>13. QED
  BY <1>5, <1>6, <1>7, <1>8, <1>9, <1>10, <1>11, <1>12 DEF ReportStep

LEMMA SerialNext == IInv /\ Serial /\ [Next]_vars => Serial'
<1> SUFFICES ASSUME IInv, Serial, [Next]_vars PROVE Serial'
  OBVIOUS
<1> SUFFICES ASSUME ~Mysql PROVE Serial'
  BY DEF Serial
<1>1. ASSUME NEW r \in Requests,
             \/ StartStep(r) \/ StartRead(r) \/ StartFails(r) \/ (\E t \in timers : RetryFire(r, t))
             \/ StopFind(r) \/ StopStep(r) \/ StopFails(r)
      PROVE  Serial'
  BY <1>1, SerialStart, SerialOther DEF StartStep, StopStep
<1>2. ASSUME NEW m \in Reports,
             \/ ReportStep(m) \/ GiveUp(m) \/ LoseReport(m) \/ \E i \in Ids : SendReport(m, i)
      PROVE  Serial'
  BY <1>2, SerialReport
<1>3. CASE \/ \E i \in Ids : EngineAccepts(i) \/ EngineForgets(i) \/ \E s \in Terminal : EngineSettles(i, s)
           \/ EngineShutdown \/ UNCHANGED vars
  <2>1. UNCHANGED <<inst, lastStatus, req, rep>>
    BY <1>3 DEF EngineAccepts, EngineForgets, EngineSettles, EngineShutdown, vars
  <2>2. QED
    BY <2>1, OnTheWay
<1>4. CASE EngineCrash
  <2>1. /\ UNCHANGED <<inst, lastStatus>>
        /\ \A r \in Requests : req'[r] = req[r] \/ req'[r].pc = "idle"
    BY <1>4, Blanks DEF EngineCrash
  <2>2. ASSUME NEW m \in Reports
        PROVE  \/ rep'[m].pc = rep[m].pc /\ rep'[m].id = rep[m].id /\ rep'[m].status = rep[m].status
               \/ rep'[m].pc \in {"free", "sent"} /\ rep[m].pc \in {"free", "sent"}
    <3>1. rep'[m] = IF rep[m].pc = "sent" THEN FreeReport ELSE [rep[m] EXCEPT !.awaited = FALSE]
      BY <1>4 DEF EngineCrash
    <3>2. rep[m] \in Report
      BY DEF IInv, TypeOK
    <3>3. QED
      BY <3>1, <3>2, Blanks DEF Report
  <2>3. QED
    BY <2>1, <2>2, OnTheWay
<1>5. CASE NodeCrash
  BY <1>5, OrchestrationAssumption DEF NodeCrash, Fault
<1>6. QED
  BY <1>1, <1>2, <1>3, <1>4, <1>5 DEF Next

-----------------------------------------------------------------------------
(* No record is stuck *)

\* A step that writes neither rows nor lastStatus, and moves none of the handlers that are about
\* to write lastStatus.
LEMMA BackedStays ==
  ASSUME Backed, UNCHANGED <<inst, lastStatus>>,
         \A r \in Requests : req[r].pc \in {"restore", "stopFinish"} => req'[r].pc = req[r].pc,
         \A m \in Reports : rep[m].pc = "sync" => rep'[m].pc = "sync" /\ rep'[m].status = rep[m].status
  PROVE  Backed'
<1> SUFFICES ASSUME ~Mysql, lastStatus = "running" PROVE Backed'
  BY DEF Backed
<1>1. Running' = Running
  BY DEF Running
<1>2. CASE Running # {}
  BY <1>1, <1>2 DEF Backed
<1>3. ASSUME NEW r \in Requests, req[r].pc \in {"restore", "stopFinish"} PROVE Backed'
  BY <1>3 DEF Backed
<1>4. ASSUME NEW m \in Reports, rep[m].pc = "sync", rep[m].status # "running" PROVE Backed'
  BY <1>4 DEF Backed
<1>5. QED
  BY <1>2, <1>3, <1>4 DEF Backed

LEMMA BackedRequest ==
  ASSUME IInv, Serial, Backed, ~Mysql, NEW r \in Requests,
         \/ StartStep(r) \/ StartRead(r) \/ StartFails(r) \/ (\E t \in timers : RetryFire(r, t))
         \/ StopFind(r) \/ StopStep(r) \/ StopFails(r)
  PROVE  Backed'
<1>1. /\ req[r] \in Request /\ inst \in [Ids -> Instance] /\ req \in [Requests -> Request]
      /\ req[r].pc \in Working => req[r].id \in Ids
  BY DEF IInv, TypeOK, Named, Used
<1>2. CASE \/ StartRead(r) \/ StartCheck(r) \/ StartReplied(r) \/ StartFails(r) \/ RetryCheck(r)
           \/ (\E t \in timers : RetryFire(r, t))
           \/ StopFind(r) \/ StopArrives(r) \/ StopReply(r) \/ StopFails(r) \/ StopUpdate(r)
  <2>1. UNCHANGED <<inst, lastStatus, rep>>
    BY <1>2 DEF StartRead, StartCheck, StartReplied, StartFails, RetryCheck, RetryFire, StopFind,
                StopArrives, StopReply, StopFails, StopUpdate
  <2>2. req[r].pc \notin {"restore", "stopFinish"}
    BY <1>2 DEF StartRead, StartCheck, StartReplied, StartFails, RetryCheck, RetryFire, StopFind,
                StopArrives, StopReply, StopFails, StopUpdate
  <2>3. \A q \in Requests \ {r} : req'[q] = req[q]
    BY <1>1, <1>2 DEF StartRead, StartCheck, StartReplied, StartFails, RetryCheck, RetryFire, StopFind,
                StopArrives, StopReply, StopFails, StopUpdate
  <2>4. QED
    BY <2>1, <2>2, <2>3, BackedStays
<1>3. CASE StartCreate(r)
  <2>1. PICK i : i = NextId
    OBVIOUS
  <2>2. i \in Ids
    BY <1>3, <2>1, NextFree DEF StartCreate, Starting
  <2>3. inst' = [inst EXCEPT ![i] = [status |-> "running", attempt |-> req[r].attempt, of |-> req[r].of]]
    BY <1>3, <2>1 DEF StartCreate
  <2>4. i \in Running'
    BY <1>1, <2>2, <2>3 DEF Running
  <2>5. QED
    BY <2>4 DEF Backed
<1>4. CASE StartMark(r)
  <2>1. req[r].id \in Ids /\ inst[req[r].id].status = "running" /\ inst' = inst
    BY <1>1, <1>4 DEF StartMark, Working, Serial
  <2>2. req[r].id \in Running'
    BY <2>1 DEF Running
  <2>3. QED
    BY <2>2 DEF Backed
<1>5. CASE RollbackDelete(r)
  <2>1. CASE req[r].pc = "rollback"
    <3>1. req' = [req EXCEPT ![r] = [@ EXCEPT !.pc = "restore"]]
      BY <1>5, <2>1 DEF RollbackDelete
    <3>2. req'[r].pc = "restore"
      BY <1>1, <3>1 DEF Request
    <3>3. QED
      BY <3>2 DEF Backed
  <2>2. CASE req[r].pc = "undelete"
    BY <1>5, <2>2 DEF RollbackDelete, Serial, Backed
  <2>3. QED
    BY <1>5, <2>1, <2>2 DEF RollbackDelete
<1>6. CASE RollbackRestore(r)
  BY <1>6 DEF RollbackRestore, Serial, Creating, Backed
<1>7. CASE StopWrite(r)
  <2>1. req' = [req EXCEPT ![r].pc = "stopFinish"]
    BY <1>7 DEF StopWrite
  <2>2. req'[r].pc = "stopFinish"
    BY <1>1, <2>1 DEF Request
  <2>3. QED
    BY <2>2 DEF Backed
<1>8. CASE StopFinish(r)
  BY <1>8 DEF StopFinish, Backed
<1>9. QED
  BY <1>2, <1>3, <1>4, <1>5, <1>6, <1>7, <1>8 DEF StartStep, StopStep

LEMMA BackedReport ==
  ASSUME IInv, Serial, Backed, ~Mysql, NEW m \in Reports,
         \/ ReportStep(m) \/ GiveUp(m) \/ LoseReport(m) \/ \E i \in Ids : SendReport(m, i)
  PROVE  Backed'
<1>1. /\ rep[m] \in Report /\ inst \in [Ids -> Instance] /\ rep \in [Reports -> Report]
      /\ rep[m].pc # "free" => rep[m].id \in Ids
  BY DEF IInv, TypeOK, Named, Used
<1>2. CASE \/ ReportRead(m) \/ ReportUpdate(m) \/ ReportReact(m) \/ GiveUp(m) \/ LoseReport(m)
           \/ \E i \in Ids : SendReport(m, i)
  <2>1. UNCHANGED <<inst, lastStatus, req>>
    BY <1>2 DEF ReportRead, ReportUpdate, ReportReact, GiveUp, LoseReport, SendReport
  <2>2. \A k \in Reports \ {m} : rep'[k] = rep[k]
    BY <1>1, <1>2 DEF ReportRead, ReportUpdate, ReportReact, GiveUp, LoseReport, SendReport
  <2>3. rep[m].pc = "sync" => rep'[m].pc = "sync" /\ rep'[m].status = rep[m].status
    <3>1. CASE GiveUp(m)
      <4>1. rep' = [rep EXCEPT ![m] = [@ EXCEPT !.awaited = FALSE]]
        BY <3>1 DEF GiveUp
      <4>2. QED
        BY <1>1, <4>1 DEF Report
    <3>2. CASE \/ ReportRead(m) \/ ReportUpdate(m) \/ ReportReact(m) \/ LoseReport(m)
               \/ \E i \in Ids : SendReport(m, i)
      BY <3>2 DEF ReportRead, ReportUpdate, ReportReact, LoseReport, SendReport
    <3>3. QED
      BY <1>2, <3>1, <3>2
  <2>4. QED
    BY <2>1, <2>2, <2>3, BackedStays
<1>3. CASE ReportWrite(m)
  <2>1. /\ rep' = [rep EXCEPT ![m].pc = "sync"] /\ inst' = [inst EXCEPT ![rep[m].id].status = rep[m].status]
        /\ rep[m].id \in Ids
    BY <1>1, <1>3 DEF ReportWrite
  <2>2. rep'[m].pc = "sync" /\ rep'[m].status = rep[m].status
    BY <1>1, <2>1 DEF Report
  <2>3. inst'[rep[m].id].status = rep[m].status
    BY <1>1, <2>1 DEF Instance
  <2>4. CASE rep[m].status = "running"
    <3>1. rep[m].id \in Running'
      BY <2>1, <2>3, <2>4 DEF Running
    <3>2. QED
      BY <3>1 DEF Backed
  <2>5. CASE rep[m].status # "running"
    BY <2>2, <2>5 DEF Backed
  <2>6. QED
    BY <2>4, <2>5
<1>4. CASE ReportSync(m)
  <2>1. /\ rep[m].pc = "sync" /\ lastStatus' = rep[m].status /\ inst' = inst /\ rep[m].id \in Ids
    BY <1>1, <1>4 DEF ReportSync
  <2>2. CASE rep[m].status = "running"
    <3>1. rep[m].id \in Running'
      BY <2>1, <2>2 DEF Running, Serial
    <3>2. QED
      BY <3>1 DEF Backed
  <2>3. CASE rep[m].status # "running"
    BY <2>1, <2>3 DEF Backed
  <2>4. QED
    BY <2>2, <2>3
<1>5. QED
  BY <1>2, <1>3, <1>4 DEF ReportStep

LEMMA BackedNext == IInv /\ Serial /\ Backed /\ [Next]_vars => Backed'
<1> SUFFICES ASSUME IInv, Serial, Backed, [Next]_vars PROVE Backed'
  OBVIOUS
<1> SUFFICES ASSUME ~Mysql PROVE Backed'
  BY DEF Backed
<1>1. ASSUME NEW r \in Requests,
             \/ StartStep(r) \/ StartRead(r) \/ StartFails(r) \/ (\E t \in timers : RetryFire(r, t))
             \/ StopFind(r) \/ StopStep(r) \/ StopFails(r)
      PROVE  Backed'
  BY <1>1, BackedRequest
<1>2. ASSUME NEW m \in Reports,
             \/ ReportStep(m) \/ GiveUp(m) \/ LoseReport(m) \/ \E i \in Ids : SendReport(m, i)
      PROVE  Backed'
  BY <1>2, BackedReport
<1>3. CASE \/ \E i \in Ids : EngineAccepts(i) \/ EngineForgets(i) \/ \E s \in Terminal : EngineSettles(i, s)
           \/ EngineShutdown \/ UNCHANGED vars
  <2>1. UNCHANGED <<inst, lastStatus, req, rep>>
    BY <1>3 DEF EngineAccepts, EngineForgets, EngineSettles, EngineShutdown, vars
  <2>2. QED
    BY <2>1, BackedStays
<1>4. CASE EngineCrash
  <2>1. /\ UNCHANGED <<inst, lastStatus>>
        /\ \A r \in Requests : req[r].pc # "waiting" => req'[r] = req[r]
    BY <1>4 DEF EngineCrash
  <2>2. ASSUME NEW m \in Reports, rep[m].pc = "sync"
        PROVE  rep'[m].pc = "sync" /\ rep'[m].status = rep[m].status
    <3>1. rep'[m] = [rep[m] EXCEPT !.awaited = FALSE]
      BY <1>4, <2>2 DEF EngineCrash
    <3>2. rep[m] \in Report
      BY DEF IInv, TypeOK
    <3>3. QED
      BY <2>2, <3>1, <3>2 DEF Report
  <2>3. QED
    BY <2>1, <2>2, BackedStays
<1>5. CASE NodeCrash
  BY <1>5, OrchestrationAssumption DEF NodeCrash, Fault
<1>6. QED
  BY <1>1, <1>2, <1>3, <1>4, <1>5 DEF Next

\* NeverStuck (run.service.js start and stop, engineReport.service.js syncRunStatus): with the
\* memory driver a record that says running has a running row, for stop to find, whenever no
\* handler works on it; whatever fails, crashes, is lost or overtaken in the engine.
THEOREM NeverStuckHolds == ASSUME ~Mysql PROVE Spec => []NeverStuck
<1>1. Init => Serial /\ Backed
  BY SerialInit DEF Init, Backed
<1>2. IInv /\ Serial /\ Backed /\ [Next]_vars => (IInv /\ Serial /\ Backed)'
  BY Goes, SerialNext, BackedNext
<1>3. Backed => NeverStuck
  BY DEF Backed, NeverStuck, Quiet
<1>4. QED
  BY Begins, <1>1, <1>2, <1>3, PTL DEF Spec

-----------------------------------------------------------------------------
(* Runs come one after the other *)

Marking    == {r \in Requests : req[r].pc = "mark"}
Coming     == {i \in Ids : i \in pending \/ engine[i] = "running" \/ \E r \in Marking : req[r].id = i}
Settled(i) == engine[i] \notin {"absent", "running"}

\* A terminal report on its way is the engine's last one.
Truthful ==
  \A m \in Reports : rep[m].pc # "free" /\ rep[m].status \in Terminal => announced[rep[m].id] = rep[m].status

\* As long as nothing fails, a run that is on its way to the engine or running there has a
\* running row, so that start finds it and no other comes; and stop writes only over runs
\* that have settled.
InLine == ~Mysql /\ faults = 0 =>
  /\ Coming \subseteq Running /\ Single(Coming)
  /\ \A i \in Ids : Used(i) => i \in Coming \/ Settled(i)
  /\ \A i \in pending : engine[i] = "absent"
  /\ \A r \in Requests :
       /\ req[r].pc \notin {"rollback", "undelete", "restore"}
       /\ req[r].pc = "mark" => req[r].id \notin pending /\ engine[req[r].id] = "absent"
       /\ req[r].pc = "stopping" => req[r].id \in pending \/ engine[req[r].id] # "absent"
       /\ req[r].pc = "waiting" => req[r].id \notin pending /\ engine[req[r].id] # "absent"
       /\ req[r].pc \in {"answered", "stopWrite"} => Settled(req[r].id)

LEMMA TruthfulReport ==
  ASSUME IInv, Truthful, NEW m \in Reports,
         \/ ReportStep(m) \/ GiveUp(m) \/ LoseReport(m) \/ \E i \in Ids : SendReport(m, i)
  PROVE  Truthful'
<1>1. rep \in [Reports -> Report] /\ announced \in [Ids -> Engine!Announces] /\ rep[m] \in Report
  BY DEF IInv, TypeOK
<1>2. CASE ReportStep(m) \/ GiveUp(m) \/ LoseReport(m)
  <2>1. announced' = announced
    BY <1>2 DEF ReportStep, ReportRead, ReportUpdate, ReportWrite, ReportSync, ReportReact, GiveUp,
                LoseReport, engineVars
  <2>2. \/ rep' = [rep EXCEPT ![m] = FreeReport]
        \/ rep[m].pc # "free" /\ \E n : /\ rep' = [rep EXCEPT ![m] = n]
                                       /\ n.id = rep[m].id /\ n.status = rep[m].status
        \/ \E n : /\ rep' = [rep EXCEPT ![m] = n] /\ n.pc = rep[m].pc
                 /\ n.id = rep[m].id /\ n.status = rep[m].status
    <3>1. CASE ReportRead(m)
      <4> DEFINE n == [rep[m] EXCEPT !.pc = "update", !.seen = inst[rep[m].id].status]
      <4>1. n.id = rep[m].id /\ n.status = rep[m].status
        BY <1>1 DEF Report
      <4>2. rep[m].pc = "sent" /\ (rep' = [rep EXCEPT ![m] = FreeReport] \/ rep' = [rep EXCEPT ![m] = n])
        BY <3>1 DEF ReportRead
      <4> HIDE DEF n
      <4>3. QED
        BY <4>1, <4>2
    <3>2. CASE ReportUpdate(m) \/ ReportWrite(m) \/ ReportSync(m) \/ ReportReact(m)
      <4>1. /\ rep[m].pc # "free"
            /\ \/ rep' = [rep EXCEPT ![m] = FreeReport]
               \/ \E p \in {"write", "sync", "react"} : rep' = [rep EXCEPT ![m] = [rep[m] EXCEPT !.pc = p]]
        BY <3>2 DEF ReportUpdate, ReportWrite, ReportSync, ReportReact
      <4>2. ASSUME NEW p \in {"write", "sync", "react"}, rep' = [rep EXCEPT ![m] = [rep[m] EXCEPT !.pc = p]]
            PROVE  \E n : /\ rep' = [rep EXCEPT ![m] = n]
                          /\ n.id = rep[m].id /\ n.status = rep[m].status
        <5> DEFINE n == [rep[m] EXCEPT !.pc = p]
        <5>1. n.id = rep[m].id /\ n.status = rep[m].status
          BY <1>1 DEF Report
        <5>2. rep' = [rep EXCEPT ![m] = n]
          BY <4>2
        <5> HIDE DEF n
        <5>3. QED
          BY <5>1, <5>2
      <4>3. QED
        BY <4>1, <4>2
    <3>3. CASE GiveUp(m)
      <4> DEFINE n == [rep[m] EXCEPT !.awaited = FALSE]
      <4>1. n.pc = rep[m].pc /\ n.id = rep[m].id /\ n.status = rep[m].status
        BY <1>1 DEF Report
      <4>2. rep' = [rep EXCEPT ![m] = n]
        BY <3>3 DEF GiveUp
      <4> HIDE DEF n
      <4>3. QED
        BY <4>1, <4>2
    <3>4. CASE LoseReport(m)
      BY <3>4 DEF LoseReport
    <3>5. QED
      BY <1>2, <3>1, <3>2, <3>3, <3>4 DEF ReportStep
  <2>4. /\ \A k \in Reports \ {m} : rep'[k] = rep[k]
        /\ rep'[m].pc # "free" =>
             rep[m].pc # "free" /\ rep'[m].id = rep[m].id /\ rep'[m].status = rep[m].status
    BY <1>1, <2>2, Blanks
  <2>5. QED
    BY <2>1, <2>4 DEF Truthful
<1>3. ASSUME NEW i \in Ids, SendReport(m, i) PROVE Truthful'
  <2>1. PICK x : announced' = [announced EXCEPT ![i] = x] /\ announced[i] \notin Terminal
    BY <1>3 DEF SendReport, Engine!Progress, Engine!Announce, Engine!Terminal, Terminal, IInv, NotYet
  <2>2. /\ rep' = [rep EXCEPT ![m] = [rep[m] EXCEPT !.pc = "sent", !.id = i, !.status = announced'[i],
                                                   !.awaited = TRUE]]
    BY <1>3 DEF SendReport
  <2>3. rep'[m].id = i /\ rep'[m].status = announced'[i] /\ \A k \in Reports \ {m} : rep'[k] = rep[k]
    BY <1>1, <2>2 DEF Report
  <2>4. \A k \in Reports : rep[k].pc # "free" /\ rep[k].status \in Terminal => rep[k].id # i
    BY <2>1 DEF Truthful
  <2>5. \A k \in Reports : rep[k].pc # "free" => rep[k].id \in Ids
    BY DEF IInv, Named, Used
  <2>6. QED
    BY <1>1, <2>1, <2>3, <2>4, <2>5 DEF Truthful
<1>4. QED
  BY <1>2, <1>3

LEMMA TruthfulNext == IInv /\ Truthful /\ [Next]_vars => Truthful'
<1> SUFFICES ASSUME IInv, Truthful, [Next]_vars PROVE Truthful'
  OBVIOUS
<1>1. ASSUME NEW m \in Reports,
             \/ ReportStep(m) \/ GiveUp(m) \/ LoseReport(m) \/ \E i \in Ids : SendReport(m, i)
      PROVE  Truthful'
  BY <1>1, TruthfulReport
<1>2. ASSUME NEW r \in Requests,
             \/ StartStep(r) \/ StartRead(r) \/ StartFails(r) \/ (\E t \in timers : RetryFire(r, t))
             \/ StopFind(r) \/ StopStep(r) \/ StopFails(r)
      PROVE  UNCHANGED <<rep, announced>>
  BY <1>2
     DEF StartStep, StartRead, StartCheck, StartCreate, StartMark, StartReplied, StartFails, RollbackDelete,
         RollbackRestore, RetryFire, RetryCheck, StopFind, StopStep, StopArrives, StopReply, StopFails,
         StopUpdate, StopWrite, StopFinish, engineVars
<1>3. ASSUME \/ \E i \in Ids : EngineAccepts(i) \/ EngineForgets(i) \/ \E s \in Terminal : EngineSettles(i, s)
             \/ EngineShutdown \/ UNCHANGED vars
      PROVE  UNCHANGED <<rep, announced>>
  BY <1>3 DEF EngineAccepts, EngineForgets, EngineSettles, EngineShutdown, Engine!Accept, Engine!Forget,
              Engine!Settle, vars
<1>4. CASE EngineCrash
  <2>1. announced' = announced
    BY <1>4 DEF EngineCrash, Engine!Crash
  <2>2. ASSUME NEW m \in Reports, rep'[m].pc # "free"
        PROVE  rep[m].pc # "free" /\ rep'[m].id = rep[m].id /\ rep'[m].status = rep[m].status
    <3>1. rep'[m] = IF rep[m].pc = "sent" THEN FreeReport ELSE [rep[m] EXCEPT !.awaited = FALSE]
      BY <1>4 DEF EngineCrash
    <3>2. rep[m] \in Report
      BY DEF IInv, TypeOK
    <3>3. QED
      BY <2>2, <3>1, <3>2, Blanks DEF Report
  <2>3. QED
    BY <2>1, <2>2 DEF Truthful
<1>5. CASE NodeCrash
  BY <1>5, Blanks DEF NodeCrash, Truthful
<1>6. CASE UNCHANGED <<rep, announced>>
  BY <1>6 DEF Truthful
<1>7. QED
  BY <1>1, <1>2, <1>3, <1>4, <1>5, <1>6 DEF Next

\* A step that changes neither rows nor what the engine has got, and brings no handler to mark.
LEMMA InLineStays ==
  ASSUME InLine, UNCHANGED <<inst, pending, engine>>, faults' = 0 => faults = 0,
         \A r \in Requests :
           \/ req'[r] = req[r]
           \/ /\ req[r].pc # "mark"
              /\ req'[r].pc \notin {"mark", "rollback", "undelete", "restore"}
              /\ req'[r].pc = "stopping" => req'[r].id \in pending \/ engine[req'[r].id] # "absent"
              /\ faults' = 0 /\ req'[r].pc = "waiting" => req'[r].id \notin pending /\ engine[req'[r].id] # "absent"
              /\ faults' = 0 /\ req'[r].pc \in {"answered", "stopWrite"} => engine[req'[r].id] \notin {"absent", "running"}
  PROVE  InLine'
<1> SUFFICES ASSUME ~Mysql, faults' = 0 PROVE InLine'
  BY DEF InLine
<1>1. Marking' = Marking /\ \A r \in Marking : req'[r] = req[r]
  BY DEF Marking
<1>2. Coming' = Coming /\ Running' = Running /\ (\A i : Used(i)' <=> Used(i)) /\ \A i : Settled(i)' <=> Settled(i)
  BY <1>1 DEF Coming, Running, Used, Settled
<1>3. \A r \in Requests :
       /\ req'[r].pc \notin {"rollback", "undelete", "restore"}
       /\ req'[r].pc = "mark" => req'[r].id \notin pending /\ engine[req'[r].id] = "absent"
       /\ req'[r].pc = "stopping" => req'[r].id \in pending \/ engine[req'[r].id] # "absent"
       /\ req'[r].pc = "waiting" => req'[r].id \notin pending /\ engine[req'[r].id] # "absent"
       /\ req'[r].pc \in {"answered", "stopWrite"} => engine[req'[r].id] \notin {"absent", "running"}
  BY DEF InLine, Settled
<1>4. QED
  BY <1>2, <1>3 DEF InLine, Settled

LEMMA Harmed == \A k : faults \in Nat /\ Fault(k) => faults' # 0
  BY DEF Fault

\* What has not failed after a step had not failed before.
LEMMA Unharmed == ASSUME IInv, [Next]_vars, faults' = 0 PROVE faults = 0
<1>1. faults \in Nat
  BY OrchestrationAssumption DEF IInv, TypeOK
<1>2. faults' = faults \/ \E k : Fault(k)
  BY DEF Next, StartStep, StartRead, StartCheck, StartCreate, StartMark, StartReplied, StartFails,
         RollbackDelete, RollbackRestore, RetryFire, RetryCheck, StopFind, StopStep, StopArrives, StopReply,
         StopFails, StopUpdate, StopWrite, StopFinish, ReportStep, ReportRead, ReportUpdate, ReportWrite,
         ReportSync, ReportReact, GiveUp, LoseReport, SendReport, EngineAccepts, EngineForgets,
         EngineSettles, EngineShutdown, EngineCrash, NodeCrash, vars
<1>3. QED
  BY <1>1, <1>2, Harmed

\* A row that stop or a terminal report ends belongs to a run that is over.
LEMMA InLineWrites ==
  ASSUME IInv, InLine, ~Mysql, faults = 0, NEW i \in Ids, NEW s, Used(i),
         inst' = [inst EXCEPT ![i].status = s], s \in {"running"} \cup Terminal,
         s # "running" => Settled(i),
         UNCHANGED <<pending, engine, faults>>,
         \A r \in Requests :
           \/ req'[r] = req[r]
           \/ req'[r].pc = "stopFinish" /\ req[r].pc # "mark"
  PROVE  InLine'
<1>1. Marking' = Marking /\ \A r \in Marking : req'[r] = req[r]
  BY DEF Marking
<1>2. /\ inst'[i].status = s /\ \A j \in Ids \ {i} : inst'[j] = inst[j]
  BY DEF IInv, TypeOK, Instance
<1>3. Coming' = Coming /\ \A j : Settled(j)' <=> Settled(j)
  BY <1>1 DEF Coming, Settled
<1>4. \A j : Used(j)' <=> Used(j)
  BY <1>2 DEF Used, Terminal
<1>5. s # "running" => i \notin Coming
  BY DEF InLine, Coming, Settled, Marking
<1>6. Coming' \subseteq Running'
  BY <1>2, <1>3, <1>5 DEF InLine, Coming, Running
<1>7. \A r \in Requests :
       /\ req'[r].pc \notin {"rollback", "undelete", "restore"}
       /\ req'[r].pc = "mark" => req'[r].id \notin pending /\ engine[req'[r].id] = "absent"
       /\ req'[r].pc = "stopping" => req'[r].id \in pending \/ engine[req'[r].id] # "absent"
       /\ req'[r].pc = "waiting" => req'[r].id \notin pending /\ engine[req'[r].id] # "absent"
       /\ req'[r].pc \in {"answered", "stopWrite"} => engine[req'[r].id] \notin {"absent", "running"}
  BY DEF InLine, Settled
<1>8. QED
  BY <1>3, <1>4, <1>6, <1>7 DEF InLine, Settled

LEMMA InLineRequest ==
  ASSUME IInv, Serial, InLine, ~Mysql, faults = 0, faults' = 0, NEW r \in Requests,
         \/ StartStep(r) \/ StartRead(r) \/ StartFails(r) \/ (\E t \in timers : RetryFire(r, t))
         \/ StopFind(r) \/ StopStep(r) \/ StopFails(r)
  PROVE  InLine'
<1>1. /\ req[r] \in Request /\ inst \in [Ids -> Instance] /\ req \in [Requests -> Request]
      /\ engine \in [Ids -> Engine!States]
      /\ req[r].pc \in Working => req[r].id \in Ids /\ Used(req[r].id)
  BY DEF IInv, TypeOK, Named, Used
<1>2. /\ req[r].pc \notin {"rollback", "undelete", "restore"}
      /\ req[r].pc = "waiting" => req[r].id \notin pending /\ engine[req[r].id] # "absent"
      /\ req[r].pc \in {"answered", "stopWrite"} => Settled(req[r].id)
  BY DEF InLine
<1>3. CASE StartFails(r) \/ StopFails(r) \/ RollbackDelete(r) \/ RollbackRestore(r)
  BY <1>2, <1>3, Harmed DEF StartFails, StopFails, RollbackDelete, RollbackRestore
<1>4. CASE \/ StartRead(r) \/ StartCheck(r) \/ StartReplied(r) \/ RetryCheck(r) \/ StopFinish(r)
           \/ (\E t \in timers : RetryFire(r, t))
  <2>1. UNCHANGED <<inst, pending, engine>> /\ req[r].pc # "mark"
    BY <1>4 DEF StartRead, StartCheck, StartReplied, RetryCheck, RetryFire, StopFinish, engineVars
  <2>2. /\ \A q \in Requests \ {r} : req'[q] = req[q]
        /\ req'[r] = req[r] \/ req'[r].pc \in {"idle", "check", "create", "read", "retry"}
    <3>1. CASE StartCheck(r) \/ StartReplied(r) \/ RetryCheck(r) \/ StopFinish(r)
      <4>1. \/ req' = [req EXCEPT ![r] = IdleRequest]
            \/ req' = [req EXCEPT ![r] = [req[r] EXCEPT !.pc = "create"]]
            \/ req' = [req EXCEPT ![r] = [req[r] EXCEPT !.pc = "read"]]
        BY <3>1 DEF StartCheck, StartReplied, RetryCheck, StopFinish
      <4>2. [req[r] EXCEPT !.pc = "create"].pc = "create" /\ [req[r] EXCEPT !.pc = "read"].pc = "read"
        BY <1>1 DEF Request
      <4>3. QED
        BY <1>1, <4>1, <4>2, Blanks
    <3>2. CASE StartRead(r)
      <4> DEFINE n == [req[r] EXCEPT !.pc = "check", !.prev = lastStatus]
      <4>1. req' = [req EXCEPT ![r] = IdleRequest] \/ req' = [req EXCEPT ![r] = n]
        BY <3>2 DEF StartRead
      <4>2. n.pc = "check"
        BY <1>1 DEF Request
      <4> HIDE DEF n
      <4>3. QED
        BY <1>1, <4>1, <4>2, Blanks
    <3>3. ASSUME NEW t \in timers, RetryFire(r, t)
          PROVE  /\ \A q \in Requests \ {r} : req'[q] = req[q]
                 /\ req'[r] = req[r] \/ req'[r].pc = "retry"
      <4> DEFINE n == [req[r] EXCEPT !.pc = "retry", !.attempt = t.attempt, !.of = t.of]
      <4>1. req' = req \/ req' = [req EXCEPT ![r] = n]
        BY <3>3 DEF RetryFire
      <4>2. n.pc = "retry"
        BY <1>1 DEF Request
      <4> HIDE DEF n
      <4>3. QED
        BY <1>1, <4>1, <4>2
    <3>4. QED
      BY <1>4, <3>1, <3>2, <3>3
  <2>3. QED
    BY <2>1, <2>2, InLineStays
<1>5. CASE StopFind(r)
  <2>1. PICK i \in Running : req' = [req EXCEPT ![r] = [@ EXCEPT !.pc = "stopping", !.id = i]]
    BY <1>5 DEF StopFind
  <2>2. UNCHANGED <<inst, pending, engine>> /\ req[r].pc # "mark" /\ Turn(r)
    BY <1>5 DEF StopFind, engineVars
  <2>3. /\ req'[r].pc = "stopping" /\ req'[r].id = i
        /\ \A q \in Requests \ {r} : req'[q] = req[q]
    BY <1>1, <2>1 DEF Request
  \* The handler is alone, so that the run found is on its way.
  <2>4. Marking = {}
    BY <2>2, Alone DEF Marking, Outside
  <2>5. i \in pending \/ engine[i] # "absent"
    BY <2>4 DEF InLine, Running, Used, Coming, Settled
  <2>6. QED
    BY <2>2, <2>3, <2>5, InLineStays
<1>6. CASE StopUpdate(r)
  <2>1. UNCHANGED <<inst, pending, engine>> /\ req[r].pc = "answered"
    BY <1>6 DEF StopUpdate, engineVars
  <2>2. PICK p \in {"stopWrite", "stopFinish"} : req' = [req EXCEPT ![r] = [req[r] EXCEPT !.pc = p]]
    BY <1>6 DEF StopUpdate
  <2>3. req'[r].pc = p /\ req'[r].id = req[r].id /\ \A q \in Requests \ {r} : req'[q] = req[q]
    BY <1>1, <2>2, Handed DEF Pcs, Working
  <2>4. Settled(req[r].id)
    BY <1>2, <2>1
  <2>5. QED
    BY <2>1, <2>3, <2>4, InLineStays DEF Settled
<1>7. CASE StopArrives(r) \/ StopReply(r)
  <2>1. UNCHANGED <<inst, pending, engine>> /\ req[r].pc \in {"stopping", "waiting"}
    BY <1>7 DEF StopArrives, StopReply, engineVars
  <2>2. req[r].id \notin pending /\ engine[req[r].id] # "absent"
    <3>1. CASE StopReply(r)
      BY <1>2, <3>1 DEF StopReply
    <3>2. CASE StopArrives(r)
      BY <3>2, Harmed DEF StopArrives, InLine
    <3>3. QED
      BY <1>7, <3>1, <3>2
  <2>3. PICK p \in {"waiting", "answered"} :
           /\ req' = [req EXCEPT ![r] = [req[r] EXCEPT !.pc = p]]
           /\ p = "answered" => engine[req[r].id] # "running"
    <3>1. CASE StopReply(r)
      <4>1. Over(req[r].id)
        BY <3>1, Harmed DEF StopReply
      <4>2. QED
        BY <3>1, <4>1 DEF StopReply, Over
    <3>2. CASE StopArrives(r)
      BY <3>2 DEF StopArrives, Over
    <3>3. QED
      BY <1>7, <3>1, <3>2
  <2>4. req'[r].pc = p /\ req'[r].id = req[r].id /\ \A q \in Requests \ {r} : req'[q] = req[q]
    BY <1>1, <2>3, Handed DEF Pcs, Working
  <2>5. p = "answered" => engine[req[r].id] \notin {"absent", "running"}
    BY <2>2, <2>3
  <2>6. QED
    BY <2>1, <2>2, <2>4, <2>5, InLineStays
<1>8. CASE StopWrite(r)
  <2>1. /\ req[r].pc = "stopWrite" /\ UNCHANGED <<pending, engine>>
        /\ inst' = [inst EXCEPT ![req[r].id].status = "stopped"]
        /\ req' = [req EXCEPT ![r] = [req[r] EXCEPT !.pc = "stopFinish"]]
    BY <1>8 DEF StopWrite, engineVars
  <2>2. req'[r].pc = "stopFinish" /\ \A q \in Requests \ {r} : req'[q] = req[q]
    BY <1>1, <2>1, Handed DEF Pcs, Working
  <2>3. req[r].id \in Ids /\ Used(req[r].id) /\ Settled(req[r].id)
    BY <1>1, <1>2, <2>1 DEF Working
  <2>4. QED
    BY <2>1, <2>2, <2>3, InLineWrites DEF Terminal
<1>9. CASE StartCreate(r)
  <2>1. PICK i : i = NextId
    OBVIOUS
  <2>2. i \in Ids /\ inst[i].status = "none"
    BY <1>9, <2>1, NextFree DEF StartCreate, Starting
  <2> DEFINE n == [req[r] EXCEPT !.pc = "mark", !.id = i]
             f == [status |-> "running", attempt |-> req[r].attempt, of |-> req[r].of]
  <2>3. /\ req' = [req EXCEPT ![r] = n] /\ inst' = [inst EXCEPT ![i] = f] /\ Turn(r)
        /\ UNCHANGED <<pending, engine>> /\ req[r].pc = "create"
    BY <1>9, <2>1 DEF StartCreate, engineVars
  <2>4. n.pc = "mark" /\ n.id = i /\ f.status = "running"
    BY <1>1, <2>2 DEF Request
  <2> HIDE DEF n, f
  <2>5. /\ req'[r].pc = "mark" /\ req'[r].id = i /\ inst'[i].status = "running"
        /\ \A q \in Requests \ {r} : req'[q] = req[q] /\ req[q].pc \in Outside
        /\ \A j \in Ids \ {i} : inst'[j] = inst[j]
    BY <1>1, <2>2, <2>3, <2>4, Alone
  <2>6. i \notin pending /\ engine[i] = "absent"
    BY <2>2 DEF IInv, Named, Used
  <2>7. Running = {} /\ Coming = {}
    BY <2>3 DEF Serial, InLine
  <2>8. Marking' = {r}
    BY <2>5 DEF Marking, Outside
  <2>9. Coming' = {i} /\ Running' = {i}
    <3>1. \A j \in Ids : j \notin pending /\ engine[j] # "running" /\ inst[j].status # "running"
      BY <2>7 DEF Coming, Running
    <3>2. QED
      BY <2>2, <2>3, <2>5, <2>8, <3>1 DEF Coming, Running
  <2>10. \A j \in Ids : Used(j)' => j = i \/ Used(j)
    BY <2>5 DEF Used
  <2>11. \A q \in Requests :
       /\ req'[q].pc \notin {"rollback", "undelete", "restore"}
       /\ req'[q].pc = "mark" => req'[q].id \notin pending /\ engine[req'[q].id] = "absent"
       /\ req'[q].pc = "stopping" => req'[q].id \in pending \/ engine[req'[q].id] # "absent"
       /\ req'[q].pc = "waiting" => req'[q].id \notin pending /\ engine[req'[q].id] # "absent"
       /\ req'[q].pc \in {"answered", "stopWrite"} => engine[req'[q].id] \notin {"absent", "running"}
    BY <2>5, <2>6 DEF InLine, Settled
  <2>12. QED
    BY <2>3, <2>7, <2>9, <2>10, <2>11 DEF InLine, Settled, Single
<1>10. CASE StartMark(r)
  <2> DEFINE i == req[r].id
  <2>1. /\ req[r].pc = "mark" /\ UNCHANGED <<inst, engine>> /\ Turn(r) /\ i \in Ids
        /\ pending' = pending \cup {i}
        /\ req' = [req EXCEPT ![r] = [req[r] EXCEPT !.pc = "calling"]]
    BY <1>1, <1>10 DEF StartMark, engineVars, Working
  <2>2. /\ req'[r].pc = "calling"
        /\ \A q \in Requests \ {r} : req'[q] = req[q] /\ req[q].pc \in Outside
    BY <1>1, <2>1, Alone, Handed DEF Pcs, Working
  <2>3. engine[i] = "absent"
    BY <2>1 DEF InLine
  <2>4. Marking' = {} /\ Marking = {r}
    BY <2>1, <2>2 DEF Marking, Outside
  <2> HIDE DEF i
  <2>5. Coming' = Coming /\ Running' = Running
    BY <2>1, <2>4 DEF Coming, Running, i
  <2>6. \A q \in Requests :
       /\ req'[q].pc \notin {"mark", "rollback", "undelete", "restore"}
       /\ req'[q].pc = "stopping" => req'[q].id \in pending \/ engine[req'[q].id] # "absent"
       /\ req'[q].pc = "waiting" => req'[q].id \notin pending' /\ engine[req'[q].id] # "absent"
       /\ req'[q].pc \in {"answered", "stopWrite"} => engine[req'[q].id] \notin {"absent", "running"}
    BY <2>1, <2>2, <2>3 DEF InLine, Settled, Outside
  <2>7. \A j \in pending' : engine[j] = "absent"
    BY <2>1, <2>3 DEF InLine
  <2>8. QED
    BY <2>1, <2>5, <2>6, <2>7 DEF InLine, Settled, Used
<1>11. QED
  BY <1>3, <1>4, <1>5, <1>6, <1>7, <1>8, <1>9, <1>10 DEF StartStep, StopStep

LEMMA InLineReport ==
  ASSUME IInv, Truthful, InLine, ~Mysql, faults = 0, NEW m \in Reports,
         \/ ReportStep(m) \/ GiveUp(m) \/ LoseReport(m) \/ \E i \in Ids : SendReport(m, i)
  PROVE  InLine'
<1>1. CASE ReportWrite(m)
  <2>1. /\ rep[m].pc = "write" /\ UNCHANGED <<pending, engine, faults, req>>
        /\ inst' = [inst EXCEPT ![rep[m].id].status = rep[m].status]
    BY <1>1 DEF ReportWrite, engineVars
  <2>2. Used(rep[m].id) /\ rep[m].id \in Ids /\ rep[m].status \in {"running"} \cup Terminal
    BY <2>1 DEF IInv, TypeOK, Named, Used, Report, Statuses
  <2>3. rep[m].status # "running" => Settled(rep[m].id)
    BY <2>1, <2>2 DEF Truthful, IInv, NotYet, Settled
  <2>4. QED
    BY <2>1, <2>2, <2>3, InLineWrites
<1>2. CASE \/ ReportRead(m) \/ ReportUpdate(m) \/ ReportSync(m) \/ ReportReact(m)
           \/ GiveUp(m) \/ LoseReport(m) \/ \E i \in Ids : SendReport(m, i)
  <2>1. UNCHANGED <<inst, pending, engine, req>>
    BY <1>2 DEF ReportRead, ReportUpdate, ReportSync, ReportReact, GiveUp, LoseReport, SendReport,
                engineVars, Engine!Progress, Engine!Announce
  <2>2. QED
    BY <2>1, InLineStays
<1>3. QED
  BY <1>1, <1>2 DEF ReportStep

LEMMA InLineEngine ==
  ASSUME IInv, InLine, ~Mysql, faults = 0, NEW i \in Ids,
         EngineAccepts(i) \/ EngineForgets(i) \/ \E s \in Terminal : EngineSettles(i, s)
  PROVE  InLine'
<1>1. UNCHANGED <<inst, req, faults>> /\ Marking' = Marking /\ Running' = Running /\ \A j : Used(j)' <=> Used(j)
  BY DEF EngineAccepts, EngineForgets, EngineSettles, Marking, Running, Used
<1>2. engine \in [Ids -> Engine!States]
  BY DEF IInv, TypeOK
<1>3. PICK e : engine' = [engine EXCEPT ![i] = e]
  BY DEF EngineAccepts, EngineForgets, EngineSettles, Engine!Accept, Engine!Forget, Engine!Settle
<1>4. engine'[i] = e /\ \A j \in Ids \ {i} : engine'[j] = engine[j]
  BY <1>2, <1>3
<1>5. \A r \in Requests : req[r].pc \in Working => req[r].id \in Ids
  BY DEF IInv, Named, Used
<1>6. CASE EngineAccepts(i)
  <2>1. engine[i] = "absent" /\ e = "running" /\ i \in pending /\ pending' = pending \ {i}
    BY <1>2, <1>4, <1>6 DEF EngineAccepts, Engine!Accept
  <2>2. Coming' = Coming
    BY <1>1, <1>4, <2>1 DEF Coming
  <2>3. \A j \in Ids : Settled(j)' <=> Settled(j)
    BY <1>4, <2>1 DEF Settled
  <2>4. \A r \in Requests :
       /\ req[r].pc = "mark" => req[r].id \notin pending' /\ engine'[req[r].id] = "absent"
       /\ req[r].pc = "stopping" => req[r].id \in pending' \/ engine'[req[r].id] # "absent"
       /\ req[r].pc = "waiting" => req[r].id \notin pending' /\ engine'[req[r].id] # "absent"
       /\ req[r].pc \in {"answered", "stopWrite"} => engine'[req[r].id] \notin {"absent", "running"}
    BY <1>4, <1>5, <2>1 DEF InLine, Working, Settled
  <2>5. \A j \in pending' : engine'[j] = "absent"
    BY <1>4, <2>1 DEF InLine, IInv, TypeOK
  <2>6. QED
    BY <1>1, <2>2, <2>3, <2>4, <2>5 DEF InLine, Settled
<1>7. CASE EngineForgets(i) \/ \E s \in Terminal : EngineSettles(i, s)
  <2>1. engine[i] # "absent" /\ e \notin {"absent", "running"} /\ pending' = pending
    BY <1>2, <1>4, <1>7
       DEF EngineForgets, EngineSettles, Engine!Forget, Engine!Settle, Engine!Terminal, Terminal
  <2>2. Coming' \subseteq Coming /\ \A j \in Coming : j \in Coming' \/ j = i
    BY <1>1, <1>4, <2>1 DEF Coming
  <2>3. \A j \in Ids : Settled(j) \/ j = i => engine'[j] \notin {"absent", "running"}
    BY <1>4, <2>1 DEF Settled
  <2>4. \A r \in Requests :
       /\ req[r].pc = "mark" => req[r].id \notin pending' /\ engine'[req[r].id] = "absent"
       /\ req[r].pc = "stopping" => req[r].id \in pending' \/ engine'[req[r].id] # "absent"
       /\ req[r].pc = "waiting" => req[r].id \notin pending' /\ engine'[req[r].id] # "absent"
       /\ req[r].pc \in {"answered", "stopWrite"} => engine'[req[r].id] \notin {"absent", "running"}
    BY <1>4, <1>5, <2>1 DEF InLine, Working, Settled
  <2>5. \A j \in pending' : engine'[j] = "absent"
    BY <1>4, <2>1 DEF InLine, IInv, TypeOK
  <2>6. Coming' \subseteq Running' /\ Single(Coming') /\ \A j \in Ids : Used(j)' => j \in Coming' \/ Settled(j)'
    BY <1>1, <2>2, <2>3 DEF InLine, Single, Settled
  <2>7. QED
    BY <1>1, <2>4, <2>5, <2>6 DEF InLine, Settled
<1>8. QED
  BY <1>6, <1>7

LEMMA InLineNext == IInv /\ Serial /\ Truthful /\ InLine /\ [Next]_vars => InLine'
<1> SUFFICES ASSUME IInv, Serial, Truthful, InLine, [Next]_vars, ~Mysql, faults' = 0 PROVE InLine'
  BY DEF InLine
<1>1. faults \in Nat
  BY OrchestrationAssumption DEF IInv, TypeOK
<1>2. faults = 0
  BY Unharmed
<1>3. ASSUME NEW r \in Requests,
             \/ StartStep(r) \/ StartRead(r) \/ StartFails(r) \/ (\E t \in timers : RetryFire(r, t))
             \/ StopFind(r) \/ StopStep(r) \/ StopFails(r)
      PROVE  InLine'
  BY <1>2, <1>3, InLineRequest
<1>4. ASSUME NEW m \in Reports,
             \/ ReportStep(m) \/ GiveUp(m) \/ LoseReport(m) \/ \E i \in Ids : SendReport(m, i)
      PROVE  InLine'
  BY <1>2, <1>4, InLineReport
<1>5. ASSUME NEW i \in Ids, EngineAccepts(i) \/ EngineForgets(i) \/ \E s \in Terminal : EngineSettles(i, s)
      PROVE  InLine'
  BY <1>2, <1>5, InLineEngine
<1>6. CASE EngineShutdown \/ EngineCrash \/ NodeCrash
  BY <1>1, <1>6, Harmed DEF EngineShutdown, EngineCrash, NodeCrash
<1>7. CASE UNCHANGED vars
  <2>1. UNCHANGED <<inst, pending, engine, req, faults>>
    BY <1>7 DEF vars
  <2>2. QED
    BY <2>1, InLineStays
<1>8. QED
  BY <1>3, <1>4, <1>5, <1>6, <1>7 DEF Next

LEMMA InLineInit == Init => Truthful /\ InLine
<1> SUFFICES ASSUME Init PROVE Truthful /\ InLine
  OBVIOUS
<1>1. /\ pending = {} /\ Marking = {} /\ (\A i \in Ids : engine[i] = "absent") /\ \A i : ~Used(i)
      /\ \A r \in Requests : req[r].pc = "idle"
  BY Blanks DEF Init, Engine!Init, Marking, Used
<1>2. Coming = {}
  BY <1>1 DEF Coming
<1>3. QED
  BY <1>1, <1>2, Blanks DEF InLine, Truthful, Single, Init

LEMMA AtMostOne == ASSUME NEW S, Single(S) PROVE Cardinality(S) <= 1
<1>1. CASE S = {}
  <2>1. Cardinality(S) = 0
    BY <1>1, FS_EmptySet
  <2>2. QED
    BY <2>1
<1>2. ASSUME NEW x \in S PROVE Cardinality(S) <= 1
  <2>1. S = {x}
    BY <1>2 DEF Single
  <2>2. Cardinality({x}) = 1
    BY FS_Singleton
  <2>3. QED
    BY <2>1, <2>2
<1>3. QED
  BY <1>1, <1>2

\* RunsInLine (run.service.js start, scheduleRetry): with the memory driver, as long as nothing
\* fails and no request overtakes another, at most one run of the record is on its way to the
\* engine or running there, whatever starts, stops and retries meet; and each retry continues one
\* failure of its own.
THEOREM RunsInLineHolds == ASSUME ~Mysql PROVE Spec => []RunsInLine
<1>1. IInv /\ InLine => AtMostOneRun
  BY AtMostOne DEF AtMostOneRun, InLine, Coming, Single
<1>2. IInv /\ Serial /\ Truthful /\ InLine /\ [Next]_vars => (IInv /\ Serial /\ Truthful /\ InLine)'
  BY Goes, SerialNext, TruthfulNext, InLineNext
<1>3. Init => Serial /\ Truthful /\ InLine
  BY SerialInit, InLineInit
<1>4. Spec => []AtMostOneRun
  BY Begins, <1>1, <1>2, <1>3, PTL DEF Spec
<1>5. RunsInLine <=> AtMostOneRun /\ RetryChain
  BY DEF RunsInLine
<1>6. QED
  BY <1>4, <1>5, RetryChainHolds, PTL

-----------------------------------------------------------------------------
(* The row of a run ends as the engine said *)

Unwritten(i) == {m \in Reports : rep[m].pc \in {"sent", "update", "write"} /\ rep[m].id = i}

\* As long as nothing fails and nobody stops a run: an instance has one report on its way, the
\* one that the engine sent last and waits for; once a terminal one is written, the row has it.
Kept == ~Stops /\ faults = 0 =>
  /\ cancelled = {}
  /\ \A r \in Requests : req[r].pc \in {"idle", "mark", "calling"} \cup StartPcs
  /\ \A i \in Ids : inst[i].status # "deleted"
  /\ \A m \in Reports : rep[m].pc # "free" => rep[m].awaited /\ announced[rep[m].id] = rep[m].status
  /\ \A m, k \in Reports : rep[m].pc # "free" /\ rep[k].pc # "free" /\ rep[m].id = rep[k].id => m = k
  /\ \A i \in Ids : announced[i] \in Terminal /\ Unwritten(i) = {} => inst[i].status = announced[i]

\* The reports stay as they are, or one ends after its row is written, and no row that the engine
\* knows changes.
LEMMA KeptStays ==
  ASSUME IInv, Kept, faults' = 0 => faults = 0,
         ~Stops /\ faults' = 0 =>
           /\ cancelled' = cancelled /\ announced' = announced /\ rep' = rep
           /\ \A r \in Requests : req'[r].pc \in {"idle", "mark", "calling"} \cup StartPcs
           /\ \A i \in Ids : inst'[i] = inst[i] \/ (~Used(i) /\ inst'[i].status = "running")
  PROVE  Kept'
<1> SUFFICES ASSUME ~Stops, faults' = 0 PROVE Kept'
  BY DEF Kept
<1>1. \A i : Unwritten(i)' = Unwritten(i)
  BY DEF Unwritten
<1>2. \A i \in Ids : ~Used(i) => announced[i] = "nothing"
  BY DEF IInv, Named
<1>3. /\ \A i \in Ids : inst'[i].status # "deleted"
      /\ \A i \in Ids : announced[i] \in Terminal /\ Unwritten(i) = {} => inst'[i].status = announced[i]
  BY <1>2 DEF Kept, Terminal
<1>4. QED
  BY <1>1, <1>3 DEF Kept

LEMMA KeptRequest ==
  ASSUME IInv, Kept, ~Stops, faults = 0, faults' = 0, NEW r \in Requests,
         \/ StartStep(r) \/ StartRead(r) \/ StartFails(r) \/ (\E t \in timers : RetryFire(r, t))
         \/ StopFind(r) \/ StopStep(r) \/ StopFails(r)
  PROVE  Kept'
<1>1. /\ req[r] \in Request /\ inst \in [Ids -> Instance] /\ req \in [Requests -> Request]
      /\ \A q \in Requests : req[q].pc \in {"idle", "mark", "calling"} \cup StartPcs
  BY DEF IInv, TypeOK, Kept
<1>2. ~(StartFails(r) \/ StopFails(r) \/ RollbackDelete(r) \/ RollbackRestore(r) \/ StopFind(r) \/ StopStep(r))
  BY <1>1, Harmed DEF StartFails, StopFails, RollbackDelete, RollbackRestore, StopFind, StopStep, StopArrives,
                      StopReply, StopUpdate, StopWrite, StopFinish, StartPcs
<1>3. cancelled' = cancelled /\ announced' = announced /\ rep' = rep
  BY <1>2 DEF StartStep, StartRead, StartCheck, StartCreate, StartMark, StartReplied, RetryFire, RetryCheck,
              engineVars
<1>4. CASE StartCreate(r)
  <2>1. PICK i : i = NextId
    OBVIOUS
  <2>2. i \in Ids /\ inst[i].status = "none"
    BY <1>4, <2>1, NextFree DEF StartCreate, Starting
  <2> DEFINE n == [req[r] EXCEPT !.pc = "mark", !.id = i]
             f == [status |-> "running", attempt |-> req[r].attempt, of |-> req[r].of]
  <2>3. req' = [req EXCEPT ![r] = n] /\ inst' = [inst EXCEPT ![i] = f]
    BY <1>4, <2>1 DEF StartCreate
  <2>4. n.pc = "mark" /\ f.status = "running"
    BY <1>1, <2>2 DEF Request
  <2> HIDE DEF n, f
  <2>5. /\ \A q \in Requests : req'[q].pc \in {"idle", "mark", "calling"} \cup StartPcs
        /\ \A j \in Ids : inst'[j] = inst[j] \/ (~Used(j) /\ inst'[j].status = "running")
    BY <1>1, <2>2, <2>3, <2>4 DEF Used
  <2>6. QED
    BY <1>3, <2>5, KeptStays
<1>5. CASE StartCheck(r) \/ StartReplied(r) \/ RetryCheck(r) \/ StartMark(r)
  <2>1. inst' = inst
    BY <1>5 DEF StartCheck, StartReplied, RetryCheck, StartMark
  <2>2. \/ req' = [req EXCEPT ![r] = IdleRequest]
        \/ req' = [req EXCEPT ![r] = [req[r] EXCEPT !.pc = "create"]]
        \/ req' = [req EXCEPT ![r] = [req[r] EXCEPT !.pc = "read"]]
        \/ req' = [req EXCEPT ![r] = [req[r] EXCEPT !.pc = "calling"]]
    BY <1>5 DEF StartCheck, StartReplied, RetryCheck, StartMark
  <2>3. \A p \in {"create", "read", "calling"} : [req[r] EXCEPT !.pc = p].pc = p
    BY <1>1 DEF Request
  <2>4. \A q \in Requests : req'[q].pc \in {"idle", "mark", "calling"} \cup StartPcs
    BY <1>1, <2>2, <2>3, Blanks DEF StartPcs
  <2>5. QED
    BY <1>3, <2>1, <2>4, KeptStays
<1>6. CASE StartRead(r)
  <2> DEFINE n == [req[r] EXCEPT !.pc = "check", !.prev = lastStatus]
  <2>1. req' = [req EXCEPT ![r] = IdleRequest] \/ req' = [req EXCEPT ![r] = n]
    BY <1>6 DEF StartRead
  <2>2. n.pc = "check" /\ inst' = inst
    BY <1>1, <1>6 DEF Request, StartRead
  <2> HIDE DEF n
  <2>3. \A q \in Requests : req'[q].pc \in {"idle", "mark", "calling"} \cup StartPcs
    BY <1>1, <2>1, <2>2, Blanks DEF StartPcs
  <2>4. QED
    BY <1>3, <2>2, <2>3, KeptStays
<1>7. ASSUME NEW t \in timers, RetryFire(r, t) PROVE Kept'
  <2> DEFINE n == [req[r] EXCEPT !.pc = "retry", !.attempt = t.attempt, !.of = t.of]
  <2>1. req' = req \/ req' = [req EXCEPT ![r] = n]
    BY <1>7 DEF RetryFire
  <2>2. n.pc = "retry" /\ inst' = inst
    BY <1>1, <1>7 DEF Request, RetryFire
  <2> HIDE DEF n
  <2>3. \A q \in Requests : req'[q].pc \in {"idle", "mark", "calling"} \cup StartPcs
    BY <1>1, <2>1, <2>2 DEF StartPcs
  <2>4. QED
    BY <1>3, <2>2, <2>3, KeptStays
<1>8. QED
  BY <1>2, <1>4, <1>5, <1>6, <1>7 DEF StartStep

\* A handler of a report goes on: it writes the row, or it has been written before.
LEMMA KeptReport ==
  ASSUME IInv, Kept, ~Stops, faults = 0, faults' = 0, NEW m \in Reports,
         ReportStep(m) \/ GiveUp(m) \/ LoseReport(m)
  PROVE  Kept'
<1>1. /\ rep \in [Reports -> Report] /\ rep[m] \in Report /\ inst \in [Ids -> Instance]
      /\ rep[m].pc # "free" => /\ rep[m].id \in Ids /\ rep[m].awaited
                               /\ inst[rep[m].id].status \notin {"none", "deleted"}
                               /\ announced[rep[m].id] = rep[m].status
      /\ cancelled = {}
  BY DEF IInv, TypeOK, Named, Used, Kept
<1>2. ~(GiveUp(m) \/ LoseReport(m))
  BY <1>1, Harmed DEF GiveUp, LoseReport, Interrupted, Report, FreeReport
<1>3. /\ UNCHANGED <<cancelled, announced, req>> /\ rep[m].pc \notin {"free"}
  BY <1>2 DEF ReportStep, ReportRead, ReportUpdate, ReportWrite, ReportSync, ReportReact, engineVars
<1>4. ASSUME \/ rep'[m] = FreeReport /\ rep[m].pc = "react"
             \/ /\ rep'[m].pc # "free" /\ rep'[m].id = rep[m].id /\ rep'[m].status = rep[m].status
                /\ rep'[m].awaited = rep[m].awaited,
             \A k \in Reports \ {m} : rep'[k] = rep[k],
             \A j \in Ids \ {rep[m].id} : inst'[j] = inst[j],
             \/ inst' = inst /\ (rep'[m].pc \in {"sent", "update", "write"} <=>
                                   rep[m].pc \in {"sent", "update", "write"})
             \/ inst'[rep[m].id].status = rep[m].status
      PROVE  Kept'
  <2>1. \A r \in Requests : req'[r].pc \in {"idle", "mark", "calling"} \cup StartPcs
    BY <1>3 DEF Kept
  <2>2. \A j \in Ids : inst'[j].status # "deleted"
    BY <1>1, <1>3, <1>4 DEF Kept, Report, Statuses, Terminal
  <2>3. \A k \in Reports : rep'[k].pc # "free" =>
          /\ rep[k].pc # "free" /\ rep'[k].id = rep[k].id /\ rep'[k].status = rep[k].status
          /\ rep'[k].awaited = rep[k].awaited
    BY <1>3, <1>4, Blanks
  <2>4. /\ \A k \in Reports : rep'[k].pc # "free" => rep'[k].awaited /\ announced[rep'[k].id] = rep'[k].status
        /\ \A k, l \in Reports : rep'[k].pc # "free" /\ rep'[l].pc # "free" /\ rep'[k].id = rep'[l].id => k = l
    BY <2>3 DEF Kept
  <2>5. PICK i \in Ids : i = rep[m].id
    BY <1>1, <1>3
  <2>6. \A j \in Ids \ {i} : Unwritten(j)' = Unwritten(j)
    BY <1>4, <2>5, Blanks DEF Unwritten
  <2>7. \A j \in Ids : announced[j] \in Terminal /\ Unwritten(j)' = {} => inst'[j].status = announced[j]
    <3>1. CASE inst'[i].status = rep[m].status
      BY <1>1, <1>3, <1>4, <2>5, <2>6, <3>1 DEF Kept
    <3>2. CASE inst' = inst /\ (rep'[m].pc \in {"sent", "update", "write"} <=>
                                   rep[m].pc \in {"sent", "update", "write"})
      <4>1. Unwritten(i) \subseteq Unwritten(i)'
        BY <1>4, <2>5, <3>2, Blanks DEF Unwritten
      <4>2. QED
        BY <2>5, <2>6, <3>2, <4>1 DEF Kept
    <3>3. QED
      BY <1>4, <2>5, <3>1, <3>2
  <2>8. QED
    BY <1>1, <1>3, <2>1, <2>2, <2>4, <2>7 DEF Kept
<1>5. CASE ReportRead(m)
  <2> DEFINE n == [rep[m] EXCEPT !.pc = "update", !.seen = inst[rep[m].id].status]
  <2>1. rep' = [rep EXCEPT ![m] = n] /\ inst' = inst /\ rep[m].pc = "sent"
    BY <1>1, <1>3, <1>5 DEF ReportRead, Exists
  <2>2. n.pc = "update" /\ n.id = rep[m].id /\ n.status = rep[m].status /\ n.awaited = rep[m].awaited
    BY <1>1 DEF Report
  <2> HIDE DEF n
  <2>3. /\ rep'[m].pc = "update" /\ rep'[m].id = rep[m].id /\ rep'[m].status = rep[m].status
        /\ rep'[m].awaited = rep[m].awaited
        /\ \A k \in Reports \ {m} : rep'[k] = rep[k]
    BY <1>1, <2>1, <2>2
  <2>4. QED
    BY <1>4, <2>1, <2>3
<1>6. CASE ReportUpdate(m) \/ ReportSync(m) \/ ReportWrite(m)
  <2>1. PICK p \in {"write", "sync", "react"} :
           /\ rep' = [rep EXCEPT ![m] = [rep[m] EXCEPT !.pc = p]]
           /\ \/ inst' = inst /\ p = "write" /\ rep[m].pc = "update"
              \/ inst' = inst /\ p = "react" /\ rep[m].pc = "sync"
              \/ inst' = [inst EXCEPT ![rep[m].id].status = rep[m].status] /\ p = "sync"
    BY <1>1, <1>3, <1>6 DEF ReportUpdate, ReportSync, ReportWrite, Exists
  <2>2. /\ [rep[m] EXCEPT !.pc = p].pc = p /\ [rep[m] EXCEPT !.pc = p].id = rep[m].id
        /\ [rep[m] EXCEPT !.pc = p].status = rep[m].status
        /\ [rep[m] EXCEPT !.pc = p].awaited = rep[m].awaited
    BY <1>1 DEF Report
  <2>3. /\ rep'[m].pc = p /\ rep'[m].id = rep[m].id /\ rep'[m].status = rep[m].status
        /\ rep'[m].awaited = rep[m].awaited
        /\ \A k \in Reports \ {m} : rep'[k] = rep[k]
    BY <1>1, <2>1, <2>2
  <2>4. /\ \A j \in Ids \ {rep[m].id} : inst'[j] = inst[j]
        /\ p = "sync" => inst'[rep[m].id].status = rep[m].status
    BY <1>1, <1>3, <2>1 DEF Instance
  <2>5. \/ inst' = inst /\ (rep'[m].pc \in {"sent", "update", "write"} <=>
                                   rep[m].pc \in {"sent", "update", "write"})
        \/ inst'[rep[m].id].status = rep[m].status
    BY <2>1, <2>3, <2>4
  <2>6. QED
    BY <1>4, <2>3, <2>4, <2>5
<1>7. CASE ReportReact(m)
  <2>1. rep' = [rep EXCEPT ![m] = FreeReport] /\ inst' = inst /\ rep[m].pc = "react"
    BY <1>7 DEF ReportReact
  <2>2. rep'[m] = FreeReport /\ \A k \in Reports \ {m} : rep'[k] = rep[k]
    BY <1>1, <2>1
  <2>3. QED
    BY <1>4, <2>1, <2>2, Blanks
<1>8. QED
  BY <1>2, <1>5, <1>6, <1>7 DEF ReportStep

\* The engine sends the next report of a run when no other is on its way.
LEMMA KeptSends ==
  ASSUME IInv, Kept, ~Stops, faults = 0, NEW m \in Reports, NEW i \in Ids, SendReport(m, i)
  PROVE  Kept'
<1>1. rep \in [Reports -> Report] /\ announced \in [Ids -> Engine!Announces] /\ rep[m] \in Report
  BY DEF IInv, TypeOK
<1>2. PICK x : announced' = [announced EXCEPT ![i] = x]
  BY DEF SendReport, Engine!Progress, Engine!Announce
<1> DEFINE n == [rep[m] EXCEPT !.pc = "sent", !.id = i, !.status = x, !.awaited = TRUE]
<1>3. rep' = [rep EXCEPT ![m] = n] /\ UNCHANGED <<inst, req, cancelled, faults>>
  BY <1>1, <1>2 DEF SendReport
<1>4. n.pc = "sent" /\ n.id = i /\ n.status = x /\ n.awaited = TRUE
  BY <1>1 DEF Report
<1> HIDE DEF n
<1>5. /\ rep'[m].pc = "sent" /\ rep'[m].id = i /\ rep'[m].status = announced'[i] /\ rep'[m].awaited
      /\ \A k \in Reports \ {m} : rep'[k] = rep[k]
      /\ \A j \in Ids \ {i} : announced'[j] = announced[j]
  BY <1>1, <1>2, <1>3, <1>4
<1>6. \A k \in Reports : rep[k].pc # "free" => rep[k].id \in Ids /\ rep[k].id # i
  BY DEF SendReport, Awaiting, Kept, IInv, Named, Used
<1>7. \A k \in Reports : rep'[k].pc # "free" => rep'[k].awaited /\ announced'[rep'[k].id] = rep'[k].status
  BY <1>5, <1>6 DEF Kept
<1>8. \A k, l \in Reports : rep'[k].pc # "free" /\ rep'[l].pc # "free" /\ rep'[k].id = rep'[l].id => k = l
  BY <1>5, <1>6 DEF Kept
<1>9. m \in Unwritten(i)' /\ \A j \in Ids \ {i} : Unwritten(j) \subseteq Unwritten(j)'
  BY <1>5 DEF Unwritten, SendReport
<1>10. \A j \in Ids : announced'[j] \in Terminal /\ Unwritten(j)' = {} => inst[j].status = announced'[j]
  BY <1>5, <1>9 DEF Kept
<1>11. QED
  BY <1>3, <1>7, <1>8, <1>10 DEF Kept

LEMMA KeptNext == IInv /\ Kept /\ [Next]_vars => Kept'
<1> SUFFICES ASSUME IInv, Kept, [Next]_vars, ~Stops, faults' = 0 PROVE Kept'
  BY DEF Kept
<1>1. faults \in Nat
  BY OrchestrationAssumption DEF IInv, TypeOK
<1>2. faults = 0
  BY Unharmed
<1>3. ASSUME NEW r \in Requests,
             \/ StartStep(r) \/ StartRead(r) \/ StartFails(r) \/ (\E t \in timers : RetryFire(r, t))
             \/ StopFind(r) \/ StopStep(r) \/ StopFails(r)
      PROVE  Kept'
  BY <1>2, <1>3, KeptRequest
<1>4. ASSUME NEW m \in Reports, ReportStep(m) \/ GiveUp(m) \/ LoseReport(m) PROVE Kept'
  BY <1>2, <1>4, KeptReport
<1>5. ASSUME NEW m \in Reports, NEW i \in Ids, SendReport(m, i) PROVE Kept'
  BY <1>2, <1>5, KeptSends
<1>6. ASSUME \/ UNCHANGED vars
             \/ \E i \in Ids : EngineAccepts(i) \/ EngineForgets(i) \/ \E s \in Terminal : EngineSettles(i, s)
      PROVE  Kept'
  <2>1. UNCHANGED <<inst, cancelled, announced, req, rep, faults>>
    BY <1>6 DEF vars, EngineAccepts, EngineForgets, EngineSettles, Engine!Accept, Engine!Forget, Engine!Settle
  <2>2. \A r \in Requests : req'[r].pc \in {"idle", "mark", "calling"} \cup StartPcs
    BY <1>2, <2>1 DEF Kept
  <2>3. QED
    BY <2>1, <2>2, KeptStays
<1>7. CASE EngineShutdown \/ EngineCrash \/ NodeCrash
  BY <1>1, <1>7, Harmed DEF EngineShutdown, EngineCrash, NodeCrash
<1>8. QED
  BY <1>3, <1>4, <1>5, <1>6, <1>7 DEF Next

\* RunHistory (engineReport.service.js, run.service.js scheduleRetry): as long as nothing fails, the
\* row of an instance ends with the outcome that the engine reported last, with either driver and
\* with reports and retries in any order; and each retry continues one failure of its own.
THEOREM RunHistoryHolds == ASSUME ~Stops PROVE Spec => []RunHistory
<1>1. IInv /\ Kept => OutcomeKept
  <2> SUFFICES ASSUME IInv, Kept, faults = 0, NEW i \in Ids, announced[i] \in Terminal,
                      \A m \in Reports : rep[m].id # i
               PROVE  inst[i].status = announced[i]
    BY DEF OutcomeKept
  <2>1. Unwritten(i) = {}
    BY DEF Unwritten
  <2>2. QED
    BY <2>1 DEF Kept
<1>2. IInv /\ Kept /\ [Next]_vars => (IInv /\ Kept)'
  BY Goes, KeptNext
<1>3. Init => Kept
  <2> SUFFICES ASSUME Init PROVE Kept
    OBVIOUS
  <2>1. /\ \A i \in Ids : inst[i].status = "none" /\ announced[i] = "nothing"
        /\ \A r \in Requests : req[r].pc = "idle"
        /\ \A m \in Reports : rep[m].pc = "free"
    BY Blanks DEF Init, Engine!Init
  <2>2. cancelled = {}
    BY DEF Init
  <2>3. QED
    BY <2>1, <2>2 DEF Kept, Terminal
<1>4. Spec => []OutcomeKept
  BY Begins, <1>1, <1>2, <1>3, PTL DEF Spec
<1>5. RunHistory <=> OutcomeKept /\ RetryChain
  BY DEF RunHistory
<1>6. QED
  BY <1>4, <1>5, RetryChainHolds, PTL
=============================================================================
