------------------------- MODULE EngineTasks_proofs -------------------------
(***************************************************************************)
(* Proofs about EngineTasks, for any number of instance ids, runners, stop *)
(* requests and any history limit.                                         *)
(***************************************************************************)
EXTENDS EngineTasks, TLAPS

-----------------------------------------------------------------------------
(* Type correctness *)

LEMMA FreshTyped == FreshRun \in Run /\ FreshCall \in Call
  BY DEF FreshRun, FreshCall, Run, Call, Terminal

LEMMA FreshMemoryTyped ==
  ASSUME NEW rs, NEW sn, NEW fin, NEW cl, NEW ru, NEW ca,
         FreshMemory(rs, sn, fin, cl, ru, ca)
  PROVE  /\ rs \in [Ids -> Handles \cup {NoHandle}]
         /\ sn \in [Ids -> {"absent", "running"} \cup Terminal]
         /\ fin \in [Ids -> Nat]
         /\ cl \in Nat
         /\ ru \in [Handles -> Run]
         /\ ca \in [Callers -> Call]
  BY FreshTyped DEF FreshMemory, Terminal

\* The updates the actions make to the record of a run, resp. of a stop request.
LEMMA RunUpdates ==
  ASSUME NEW r \in Run
  PROVE  /\ \A x \in {"loop", "publishing", "released"} : [r EXCEPT !.pc = x] \in Run
         /\ \A i \in Ids : [r EXCEPT !.pc = "reserved", !.task = i] \in Run
         /\ [r EXCEPT !.pc = "init", !.cancel = "armed"] \in Run
         /\ \A s \in Terminal, b, d \in BOOLEAN :
              [r EXCEPT !.pc = "reporting", !.status = s, !.cut = b, !.detached = d] \in Run
         /\ \A b \in BOOLEAN : [r EXCEPT !.pc = "listing", !.aborted = b] \in Run
         /\ \A V \in SUBSET Ids : [r EXCEPT !.pc = "pruning", !.victims = V] \in Run
         /\ \A V \in SUBSET Ids, v \in Ids \cup {NoId} :
              [r EXCEPT !.victims = V, !.removing = v] \in Run
         /\ [r EXCEPT !.removing = NoId] \in Run
         /\ [r EXCEPT !.pc = "exited", !.done = TRUE] \in Run
         /\ [r EXCEPT !.cancel = "cancelled"] \in Run
  BY DEF Run

LEMMA CallUpdates ==
  ASSUME NEW r \in Call
  PROVE  /\ \A x \in {"missing", "found"}, i \in Ids, h \in Handles \cup {NoHandle} :
              [r EXCEPT !.pc = x, !.id = i, !.handle = h] \in Call
         /\ [r EXCEPT !.pc = "waiting"] \in Call
         /\ \A a \in {"settled", "timedout", "alreadyOver", "notFound", "panic"} :
              [r EXCEPT !.pc = "returned", !.answer = a] \in Call
  BY DEF Call

LEMMA TypeInit == Init => TypeOK
<1> SUFFICES ASSUME Init PROVE TypeOK
  OBVIOUS
<1>1. FreshMemory(runs, snap, finishedAt, clock, run, call)
  BY DEF Init
<1>2. QED
  BY <1>1, FreshMemoryTyped DEF Init, TypeOK, Terminal

\* The three ways a run ends share one effect.
LEMMA Endings ==
  ASSUME NEW h \in Handles,
         (\E s \in Terminal : Conclude(h, s)) \/ InterruptLoop(h) \/ InterruptInit(h)
  PROVE  /\ run[h].pc \in {"init", "loop"}
         /\ \E s \in Terminal, b \in BOOLEAN : Finish(h, s, b)
<1>1. ASSUME NEW s \in Terminal, Conclude(h, s)
      PROVE  run[h].pc \in {"init", "loop"} /\ \E b \in BOOLEAN : Finish(h, s, b)
  BY <1>1 DEF Conclude
<1>2. InterruptLoop(h) => run[h].pc = "loop" /\ Finish(h, "stopped", TRUE)
  BY DEF InterruptLoop
<1>3. InterruptInit(h) => run[h].pc = "init" /\ Finish(h, "failed", TRUE)
  BY DEF InterruptInit
<1>4. QED
  BY <1>1, <1>2, <1>3 DEF Terminal

LEMMA TypeStep == TypeOK /\ [Next]_vars => TypeOK'
<1> SUFFICES ASSUME TypeOK, [Next]_vars PROVE TypeOK'
  OBVIOUS
<1> USE DEF TypeOK
<1>1. ASSUME NEW h \in Handles, NEW i \in Ids, Reserve(h, i) PROVE TypeOK'
  BY <1>1, RunUpdates DEF Reserve
<1>2. ASSUME NEW h \in Handles, Arm(h) PROVE TypeOK'
  BY <1>2, RunUpdates DEF Arm
<1>3. ASSUME NEW h \in Handles, PublishSave(h) PROVE TypeOK'
  BY <1>3, RunUpdates DEF PublishSave
<1>4. ASSUME NEW h \in Handles, PublishReport(h) PROVE TypeOK'
  BY <1>4, RunUpdates DEF PublishReport
<1>5. ASSUME NEW h \in Handles, NEW s \in Terminal, NEW b \in BOOLEAN, Finish(h, s, b)
      PROVE  TypeOK'
  <2>1. clock' \in Nat
    BY <1>5 DEF Finish
  <2>2. PICK d \in BOOLEAN : d = (run[h].cancel = "cancelled")
    OBVIOUS
  <2>3. run' \in [Handles -> Run]
    <3>1. run' = [run EXCEPT ![h].pc = "reporting", ![h].status = s, ![h].cut = b,
                             ![h].detached = d]
      BY <1>5, <2>2 DEF Finish
    <3>2. QED
      BY <3>1, RunUpdates
  <2>4. finishedAt' \in [Ids -> Nat]
    BY <1>5, <2>1 DEF Finish
  <2>5. QED
    BY <1>5, <2>1, <2>3, <2>4 DEF Finish
<1>6. ASSUME NEW h \in Handles, ReportFinal(h) PROVE TypeOK'
  <2>1. run[h].status \in {"running"} \cup Terminal
    BY DEF Run
  <2>2. QED
    BY <1>6, <2>1, RunUpdates DEF ReportFinal
<1>7. ASSUME NEW h \in Handles, PruneList(h) PROVE TypeOK'
  <2>1. \A V \in Excess : V \in SUBSET Ids
    BY DEF Excess, TerminalIds
  <2>2. QED
    <3>1. PICK V \in SUBSET Ids : run' = [run EXCEPT ![h].pc = "pruning", ![h].victims = V]
      BY <1>7, <2>1 DEF PruneList
    <3>2. run' \in [Handles -> Run]
      BY <3>1, RunUpdates
    <3>3. QED
      BY <1>7, <3>2 DEF PruneList
<1>8. ASSUME NEW h \in Handles, NEW v \in Ids, PruneCheck(h, v) PROVE TypeOK'
  <2>1. run[h].victims \ {v} \in SUBSET Ids
    BY DEF Run
  <2>2. QED
    BY <1>8, <2>1, RunUpdates DEF PruneCheck
<1>9. ASSUME NEW h \in Handles, PruneRemove(h) PROVE TypeOK'
  BY <1>9, RunUpdates DEF PruneRemove
<1>10. ASSUME NEW h \in Handles, Release(h) PROVE TypeOK'
  BY <1>10, RunUpdates DEF Release
<1>11. ASSUME NEW h \in Handles, MarkDone(h) PROVE TypeOK'
  BY <1>11, RunUpdates DEF MarkDone
<1>12. ASSUME NEW c \in Callers, NEW i \in Ids, StopLookup(c, i) PROVE TypeOK'
  BY <1>12, CallUpdates DEF StopLookup
<1>13. ASSUME NEW c \in Callers, StopMissing(c) PROVE TypeOK'
  BY <1>13, CallUpdates DEF StopMissing
<1>14. ASSUME NEW c \in Callers, StopCancel(c) PROVE TypeOK'
  <2>1. CASE run[call[c].handle].cancel = "unset"
    <3>1. call' = [call EXCEPT ![c].pc = "returned", ![c].answer = "panic"]
      BY <1>14, <2>1 DEF StopCancel
    <3>2. call' \in [Callers -> Call]
      BY <3>1, CallUpdates
    <3>3. UNCHANGED run
      BY <1>14, <2>1 DEF StopCancel
    <3>4. QED
      BY <1>14, <3>2, <3>3 DEF StopCancel
  <2>2. CASE run[call[c].handle].cancel # "unset"
    <3>1. call' = [call EXCEPT ![c].pc = "waiting"]
      BY <1>14, <2>2 DEF StopCancel
    <3>2. call' \in [Callers -> Call]
      BY <3>1, CallUpdates
    <3>3. run' = [run EXCEPT ![call[c].handle].cancel = "cancelled"]
      BY <1>14, <2>2 DEF StopCancel
    <3>4. run' \in [Handles -> Run]
      BY <3>3, RunUpdates
    <3>5. QED
      BY <1>14, <3>2, <3>4 DEF StopCancel
  <2>3. QED
    BY <2>1, <2>2
<1>15. ASSUME NEW c \in Callers, StopReturn(c) PROVE TypeOK'
  <2>1. PICK a \in {"settled", "timedout"} :
          call' = [call EXCEPT ![c].pc = "returned", ![c].answer = a]
    BY <1>15 DEF StopReturn
  <2>2. call' \in [Callers -> Call]
    BY <2>1, CallUpdates
  <2>3. QED
    BY <1>15, <2>2 DEF StopReturn
<1>16. CASE Shutdown
  BY <1>16, RunUpdates DEF Shutdown
<1>17. CASE Exit
  <2>1. FreshMemory(runs', snap', finishedAt', clock', run', call')
    BY <1>17 DEF Exit
  <2>2. QED
    BY <1>17, <2>1, FreshMemoryTyped DEF Exit
<1>18. CASE UNCHANGED vars
  BY <1>18 DEF vars
<1>19. ASSUME NEW h \in Handles, RunnerStep(h) PROVE TypeOK'
  <2>1. CASE (\E s \in Terminal : Conclude(h, s)) \/ InterruptLoop(h) \/ InterruptInit(h)
    BY <1>5, <2>1, Endings
  <2>2. QED
    BY <1>3, <1>4, <1>6, <1>7, <1>8, <1>9, <1>10, <1>11, <1>19, <2>1 DEF RunnerStep
<1>20. QED
  BY <1>1, <1>2, <1>12, <1>13, <1>14, <1>15, <1>16, <1>17, <1>18, <1>19 DEF Next, StopStep

\* Type correctness of the task service.
THEOREM TypeCorrect == Spec => []TypeOK
  BY TypeInit, TypeStep, PTL DEF Spec


-----------------------------------------------------------------------------
(* Served once *)

\* A stop request touches nothing of a run but its cancellation.
LEMMA StopTouchesCancel ==
  ASSUME TypeOK, NEW c \in Callers, StopStep(c) \/ \E i \in Ids : StopLookup(c, i)
  PROVE  \A h \in Handles :
           /\ run'[h].pc = run[h].pc /\ run'[h].task = run[h].task
           /\ run'[h].status = run[h].status /\ run'[h].done = run[h].done
           /\ run'[h].victims = run[h].victims /\ run'[h].removing = run[h].removing
<1>1. run' = run \/ run' = [run EXCEPT ![call[c].handle].cancel = "cancelled"]
  BY Zenon DEF StopStep, StopLookup, StopMissing, StopCancel, StopReturn
<1>2. QED
  BY <1>1 DEF TypeOK, Run

\* A stop request never leaves its runner: all of its steps, for all requests.
LEMMA StopKeeps ==
  ASSUME TypeOK, RegistryExact, StopKnowsRun, SettledIsDone, NEW c \in Callers,
         StopStep(c) \/ \E i \in Ids : StopLookup(c, i)
  PROVE  StopKnowsRun' /\ SettledIsDone'
<1> DEFINE Knows(d) == /\ call[d].handle \in Handles
                       /\ run[call[d].handle].pc # "unused"
                       /\ run[call[d].handle].task = call[d].id
<1> USE DEF TypeOK
<1>1. /\ \A d \in Callers \ {c} : call'[d] = call[d]
      /\ call[c].answer = "none"
  BY DEF StopStep, StopLookup, StopMissing, StopCancel, StopReturn, StopKnowsRun, Call
<1>2. \A h \in Handles : /\ run'[h].pc = run[h].pc /\ run'[h].task = run[h].task
                         /\ run'[h].done = run[h].done
  BY StopTouchesCancel
<1>3. ASSUME NEW i \in Ids, StopLookup(c, i)
      PROVE  /\ call'[c].answer = "none"
             /\ call'[c].pc \in {"found", "waiting"} => Knows(c)'
  <2>1. /\ call'[c].pc = "found" => call'[c].handle = runs[i] /\ runs[i] \in Handles
        /\ call'[c].pc \in {"missing", "found"} /\ call'[c].answer = call[c].answer
        /\ call'[c].id = i
    <3>1. call' = [call EXCEPT ![c].pc = IF runs[i] = NoHandle THEN "missing" ELSE "found",
                               ![c].id = i, ![c].handle = runs[i]]
      BY <1>3 DEF StopLookup
    <3>2. call[c] \in Call /\ runs[i] \in Handles \cup {NoHandle}
      OBVIOUS
    <3>3. QED
      BY <3>1, <3>2 DEF Call
  <2>2. runs[i] \in Handles => run[runs[i]].pc # "unused" /\ run[runs[i]].task = i
    BY DEF RegistryExact, Live
  <2>3. QED
    BY <1>1, <1>2, <2>1, <2>2
<1>4. ASSUME StopMissing(c)
      PROVE  call'[c].pc = "returned" /\ call'[c].answer \in {"notFound", "alreadyOver"}
  BY <1>4 DEF StopMissing, Call
<1>5. ASSUME StopCancel(c)
      PROVE  /\ call[c].pc = "found"
             /\ call'[c].id = call[c].id /\ call'[c].handle = call[c].handle
             /\ \/ call'[c].pc = "waiting" /\ call'[c].answer = "none"
                \/ call'[c].pc = "returned" /\ call'[c].answer = "panic"
  BY <1>1, <1>5 DEF StopCancel, Call
<1>6. ASSUME StopReturn(c)
      PROVE  /\ call[c].pc = "waiting" /\ call'[c].pc = "returned"
             /\ call'[c].id = call[c].id /\ call'[c].handle = call[c].handle
             /\ \/ call'[c].answer = "timedout"
                \/ call'[c].answer = "settled" /\ run[call[c].handle].done
  BY <1>6 DEF StopReturn, Call
<1>7. \A d \in Callers :
        /\ call[d].pc \in {"found", "waiting"} \/ call[d].answer = "settled" => Knows(d)
        /\ call[d].answer = "settled" => run[call[d].handle].done
        /\ call[d].answer # "none" => call[d].pc = "returned"
  BY DEF StopKnowsRun, SettledIsDone
<1>8. /\ call'[c].pc \in {"found", "waiting"} \/ call'[c].answer = "settled" => Knows(c)'
      /\ call'[c].answer = "settled" => run'[call'[c].handle].done
      /\ call'[c].answer # "none" => call'[c].pc = "returned"
  <2>1. CASE StopStep(c)
    BY <1>2, <1>4, <1>5, <1>6, <1>7, <2>1 DEF StopStep
  <2>2. CASE \E i \in Ids : StopLookup(c, i)
    BY <1>3, <2>2
  <2>3. QED
    BY <2>1, <2>2
<1>9. ASSUME NEW d \in Callers \ {c}
      PROVE  /\ call'[d].pc \in {"found", "waiting"} \/ call'[d].answer = "settled" => Knows(d)'
             /\ call'[d].answer = "settled" => run'[call'[d].handle].done
             /\ call'[d].answer # "none" => call'[d].pc = "returned"
  BY <1>1, <1>2, <1>7
<1>10. \A h \in Handles : run'[h].done => run'[h].pc = "exited"
  BY <1>2 DEF SettledIsDone
<1>11. QED
  BY <1>8, <1>9, <1>10 DEF StopKnowsRun, SettledIsDone

LEMMA OnceStep ==
  ASSUME ~Reuse, TypeOK, TypeOK', ServedOnce, [Next]_vars
  PROVE  ServedOnce'
<1> USE EngineAssumption DEF TypeOK, Terminal, ServedOnce
<1>1. ASSUME NEW h \in Handles, NEW i \in Ids, Reserve(h, i) PROVE ServedOnce'
  <2>1. /\ run'[h].pc = "reserved" /\ run'[h].task = i /\ run'[h].status = run[h].status
        /\ run'[h].done = run[h].done /\ run'[h].victims = run[h].victims
        /\ run'[h].removing = run[h].removing /\ \A g \in Handles \ {h} : run'[g] = run[g]
    BY <1>1 DEF Reserve, Run
  <2>2. RegistryExact' /\ OneRunEach' /\ RunsAreUsed'
    BY <1>1, <2>1 DEF Reserve, RegistryExact, Live, OneRunEach, RunsAreUsed, TracesAreUsed
  <2>3. PruneSparesRunning' /\ TracesAreUsed'
    BY <1>1, <2>1 DEF Reserve, PruneSparesRunning, TracesAreUsed, RegistryExact, Live,
           RunsAreUsed, PruneIsSafe
  <2>4. WorkingIsRunning' /\ RunningIsWorking'
    BY <1>1, <2>1 DEF Reserve, WorkingIsRunning, RunningIsWorking, Working, OneRunEach,
           TracesAreUsed, RunsAreUsed, RegistryExact, PruneIsSafe, Live
  <2>5. ReportingIsOver' /\ AnnouncedIsOver'
    BY <1>1, <2>1 DEF Reserve, ReportingIsOver, AnnouncedIsOver, WorkingIsRunning, Working,
           OneRunEach, RegistryExact, Live, PruneIsSafe, RunsAreUsed, TracesAreUsed
  <2>6. PruneIsSafe'
    BY <1>1, <2>1 DEF Reserve, PruneIsSafe, RegistryExact, Live, RunsAreUsed
  <2>7. StopKnowsRun' /\ SettledIsDone'
    BY <1>1, <2>1 DEF Reserve, StopKnowsRun, SettledIsDone
  <2>8. QED
    BY <2>2, <2>3, <2>4, <2>5, <2>6, <2>7
<1>2. ASSUME NEW h \in Handles, Arm(h) PROVE ServedOnce'
  <2>1. /\ run'[h].pc = "init" /\ run'[h].task = run[h].task /\ run'[h].status = run[h].status
        /\ run'[h].done = run[h].done /\ run'[h].victims = run[h].victims
        /\ run'[h].removing = run[h].removing /\ \A g \in Handles \ {h} : run'[g] = run[g]
    BY <1>2 DEF Arm, Run
  <2>2. RegistryExact' /\ OneRunEach' /\ RunsAreUsed'
    BY <1>2, <2>1 DEF Arm, RegistryExact, Live, OneRunEach, RunsAreUsed, TracesAreUsed
  <2>3. PruneSparesRunning' /\ TracesAreUsed'
    BY <1>2, <2>1 DEF Arm, PruneSparesRunning, TracesAreUsed, RegistryExact, Live,
           RunsAreUsed, PruneIsSafe
  <2>4. WorkingIsRunning' /\ RunningIsWorking'
    BY <1>2, <2>1 DEF Arm, WorkingIsRunning, RunningIsWorking, Working, OneRunEach,
           TracesAreUsed, RunsAreUsed, RegistryExact, PruneIsSafe, Live
  <2>5. ReportingIsOver' /\ AnnouncedIsOver'
    BY <1>2, <2>1 DEF Arm, ReportingIsOver, AnnouncedIsOver, WorkingIsRunning, Working,
           OneRunEach, RegistryExact, Live, PruneIsSafe, RunsAreUsed, TracesAreUsed
  <2>6. PruneIsSafe'
    BY <1>2, <2>1 DEF Arm, PruneIsSafe, RegistryExact, Live, RunsAreUsed
  <2>7. StopKnowsRun' /\ SettledIsDone'
    BY <1>2, <2>1 DEF Arm, StopKnowsRun, SettledIsDone
  <2>8. QED
    BY <2>2, <2>3, <2>4, <2>5, <2>6, <2>7
<1>3. ASSUME NEW h \in Handles, PublishSave(h) PROVE ServedOnce'
  <2>1. /\ run'[h].pc = "publishing" /\ run'[h].task = run[h].task /\ run'[h].status = run[h].status
        /\ run'[h].done = run[h].done /\ run'[h].victims = run[h].victims
        /\ run'[h].removing = run[h].removing /\ \A g \in Handles \ {h} : run'[g] = run[g]
    BY <1>3 DEF PublishSave, Run
  <2>2. RegistryExact' /\ OneRunEach' /\ RunsAreUsed'
    BY <1>3, <2>1 DEF PublishSave, RegistryExact, Live, OneRunEach, RunsAreUsed,
           TracesAreUsed
  <2>3. PruneSparesRunning' /\ TracesAreUsed'
    BY <1>3, <2>1 DEF PublishSave, PruneSparesRunning, TracesAreUsed, RegistryExact, Live,
           RunsAreUsed, PruneIsSafe
  <2>4. WorkingIsRunning' /\ RunningIsWorking'
    BY <1>3, <2>1 DEF PublishSave, WorkingIsRunning, RunningIsWorking, Working, OneRunEach,
           TracesAreUsed, RunsAreUsed, RegistryExact, PruneIsSafe, Live
  <2>5. ReportingIsOver' /\ AnnouncedIsOver'
    BY <1>3, <2>1 DEF PublishSave, ReportingIsOver, AnnouncedIsOver, WorkingIsRunning,
           Working, OneRunEach, RegistryExact, Live, PruneIsSafe, RunsAreUsed, TracesAreUsed
  <2>6. PruneIsSafe'
    BY <1>3, <2>1 DEF PublishSave, PruneIsSafe, RegistryExact, Live, RunsAreUsed
  <2>7. StopKnowsRun' /\ SettledIsDone'
    BY <1>3, <2>1 DEF PublishSave, StopKnowsRun, SettledIsDone
  <2>8. QED
    BY <2>2, <2>3, <2>4, <2>5, <2>6, <2>7
<1>4. ASSUME NEW h \in Handles, PublishReport(h) PROVE ServedOnce'
  <2>1. /\ run'[h].pc = "loop" /\ run'[h].task = run[h].task /\ run'[h].status = run[h].status
        /\ run'[h].done = run[h].done /\ run'[h].victims = run[h].victims
        /\ run'[h].removing = run[h].removing /\ \A g \in Handles \ {h} : run'[g] = run[g]
    BY <1>4 DEF PublishReport, Run
  <2>2. RegistryExact' /\ OneRunEach' /\ RunsAreUsed'
    BY <1>4, <2>1 DEF PublishReport, RegistryExact, Live, OneRunEach, RunsAreUsed,
           TracesAreUsed
  <2>3. PruneSparesRunning' /\ TracesAreUsed'
    BY <1>4, <2>1 DEF PublishReport, PruneSparesRunning, TracesAreUsed, RegistryExact,
           Live, RunsAreUsed, PruneIsSafe
  <2>4. WorkingIsRunning' /\ RunningIsWorking'
    BY <1>4, <2>1 DEF PublishReport, WorkingIsRunning, RunningIsWorking, Working,
           OneRunEach, TracesAreUsed, RunsAreUsed, RegistryExact, PruneIsSafe, Live
  <2>5. ReportingIsOver' /\ AnnouncedIsOver'
    BY <1>4, <2>1 DEF PublishReport, ReportingIsOver, AnnouncedIsOver, WorkingIsRunning,
           Working, OneRunEach, RegistryExact, Live, PruneIsSafe, RunsAreUsed, TracesAreUsed
  <2>6. PruneIsSafe'
    BY <1>4, <2>1 DEF PublishReport, PruneIsSafe, RegistryExact, Live, RunsAreUsed
  <2>7. StopKnowsRun' /\ SettledIsDone'
    BY <1>4, <2>1 DEF PublishReport, StopKnowsRun, SettledIsDone
  <2>8. QED
    BY <2>2, <2>3, <2>4, <2>5, <2>6, <2>7
<1>5. ASSUME NEW h \in Handles, NEW s \in Terminal, NEW b \in BOOLEAN,
             run[h].pc \in {"init", "loop"}, Finish(h, s, b)
      PROVE ServedOnce'
  <2>1. /\ run'[h].pc = "reporting" /\ run'[h].task = run[h].task /\ run'[h].status = s
        /\ run'[h].done = run[h].done /\ run'[h].victims = run[h].victims
        /\ run'[h].removing = run[h].removing /\ \A g \in Handles \ {h} : run'[g] = run[g]
    BY <1>5 DEF Finish, Run
  <2>2. RegistryExact' /\ OneRunEach' /\ RunsAreUsed'
    BY <1>5, <2>1 DEF Finish, RegistryExact, Live, OneRunEach, RunsAreUsed, TracesAreUsed
  <2>3. PruneSparesRunning' /\ TracesAreUsed'
    BY <1>5, <2>1 DEF Finish, PruneSparesRunning, TracesAreUsed, RegistryExact, Live,
           RunsAreUsed, PruneIsSafe
  <2>4. WorkingIsRunning' /\ RunningIsWorking'
    BY <1>5, <2>1 DEF Finish, WorkingIsRunning, RunningIsWorking, Working, OneRunEach,
           TracesAreUsed, RunsAreUsed, RegistryExact, PruneIsSafe, Live
  <2>5. ReportingIsOver' /\ AnnouncedIsOver'
    BY <1>5, <2>1 DEF Finish, ReportingIsOver, AnnouncedIsOver, WorkingIsRunning, Working,
           OneRunEach, RegistryExact, Live, PruneIsSafe, RunsAreUsed, TracesAreUsed
  <2>6. PruneIsSafe'
    BY <1>5, <2>1 DEF Finish, PruneIsSafe, RegistryExact, Live, RunsAreUsed
  <2>7. StopKnowsRun' /\ SettledIsDone'
    BY <1>5, <2>1 DEF Finish, StopKnowsRun, SettledIsDone
  <2>8. QED
    BY <2>2, <2>3, <2>4, <2>5, <2>6, <2>7
<1>6. ASSUME NEW h \in Handles, ReportFinal(h) PROVE ServedOnce'
  <2>1. /\ run'[h].pc = "listing" /\ run'[h].task = run[h].task /\ run'[h].status = run[h].status
        /\ run'[h].done = run[h].done /\ run'[h].victims = run[h].victims
        /\ run'[h].removing = run[h].removing /\ \A g \in Handles \ {h} : run'[g] = run[g]
    BY <1>6 DEF ReportFinal, Run
  <2>2. RegistryExact' /\ OneRunEach' /\ RunsAreUsed'
    BY <1>6, <2>1 DEF ReportFinal, RegistryExact, Live, OneRunEach, RunsAreUsed,
           TracesAreUsed
  <2>3. PruneSparesRunning' /\ TracesAreUsed'
    BY <1>6, <2>1 DEF ReportFinal, PruneSparesRunning, TracesAreUsed, RegistryExact, Live,
           RunsAreUsed, PruneIsSafe
  <2>4. WorkingIsRunning' /\ RunningIsWorking'
    BY <1>6, <2>1 DEF ReportFinal, WorkingIsRunning, RunningIsWorking, Working, OneRunEach,
           TracesAreUsed, RunsAreUsed, RegistryExact, PruneIsSafe, Live
  <2>5. ReportingIsOver' /\ AnnouncedIsOver'
    BY <1>6, <2>1 DEF ReportFinal, ReportingIsOver, AnnouncedIsOver, WorkingIsRunning,
           Working, OneRunEach, RegistryExact, Live, PruneIsSafe, RunsAreUsed, TracesAreUsed
  <2>6. PruneIsSafe'
    BY <1>6, <2>1 DEF ReportFinal, PruneIsSafe, RegistryExact, Live, RunsAreUsed
  <2>7. StopKnowsRun' /\ SettledIsDone'
    BY <1>6, <2>1 DEF ReportFinal, StopKnowsRun, SettledIsDone
  <2>8. QED
    BY <2>2, <2>3, <2>4, <2>5, <2>6, <2>7
<1>7. ASSUME NEW h \in Handles, PruneRemove(h) PROVE ServedOnce'
  <2>1. /\ run'[h].pc = run[h].pc /\ run'[h].task = run[h].task /\ run'[h].status = run[h].status
        /\ run'[h].done = run[h].done /\ run'[h].victims = run[h].victims
        /\ run'[h].removing = NoId /\ \A g \in Handles \ {h} : run'[g] = run[g]
    BY <1>7 DEF PruneRemove, Run
  <2>2. RegistryExact' /\ OneRunEach' /\ RunsAreUsed'
    BY <1>7, <2>1 DEF PruneRemove, RegistryExact, Live, OneRunEach, RunsAreUsed,
           TracesAreUsed
  <2>3. PruneSparesRunning' /\ TracesAreUsed'
    BY <1>7, <2>1 DEF PruneRemove, PruneSparesRunning, TracesAreUsed, RegistryExact, Live,
           RunsAreUsed, PruneIsSafe
  <2>4. WorkingIsRunning' /\ RunningIsWorking'
    BY <1>7, <2>1 DEF PruneRemove, WorkingIsRunning, RunningIsWorking, Working, OneRunEach,
           TracesAreUsed, RunsAreUsed, RegistryExact, PruneIsSafe, Live
  <2>5. ReportingIsOver' /\ AnnouncedIsOver'
    BY <1>7, <2>1 DEF PruneRemove, ReportingIsOver, AnnouncedIsOver, WorkingIsRunning,
           Working, OneRunEach, RegistryExact, Live, PruneIsSafe, RunsAreUsed, TracesAreUsed
  <2>6. PruneIsSafe'
    BY <1>7, <2>1 DEF PruneRemove, PruneIsSafe, RegistryExact, Live, RunsAreUsed
  <2>7. StopKnowsRun' /\ SettledIsDone'
    BY <1>7, <2>1 DEF PruneRemove, StopKnowsRun, SettledIsDone
  <2>8. QED
    BY <2>2, <2>3, <2>4, <2>5, <2>6, <2>7
<1>8. ASSUME NEW h \in Handles, PruneList(h) PROVE ServedOnce'
  <2>1. \E V \in SUBSET used :
          /\ run'[h].pc = "pruning" /\ run'[h].task = run[h].task
          /\ run'[h].status = run[h].status /\ run'[h].done = run[h].done
          /\ run'[h].victims = V /\ run'[h].removing = run[h].removing
          /\ \A g \in Handles \ {h} : run'[g] = run[g]
    <3>1. TerminalIds \subseteq used
      BY DEF TerminalIds, TracesAreUsed
    <3>2. Excess \subseteq SUBSET TerminalIds
      BY DEF Excess
    <3>3. PICK V \in IF Cardinality(TerminalIds) <= MaxHistory THEN {{}} ELSE Excess :
                 run' = [run EXCEPT ![h].pc = "pruning", ![h].victims = V]
      BY <1>8 DEF PruneList
    <3>4. V \in SUBSET used
      BY <3>1, <3>2
    <3>5. QED
      BY <1>8, <3>3, <3>4 DEF PruneList, Run
  <2>2. RegistryExact' /\ OneRunEach' /\ RunsAreUsed'
    BY <1>8, <2>1 DEF PruneList, RegistryExact, Live, OneRunEach, RunsAreUsed, TracesAreUsed
  <2>3. PruneSparesRunning' /\ TracesAreUsed'
    BY <1>8, <2>1 DEF PruneList, PruneSparesRunning, TracesAreUsed, RegistryExact, Live,
           RunsAreUsed, PruneIsSafe
  <2>4. WorkingIsRunning' /\ RunningIsWorking'
    BY <1>8, <2>1 DEF PruneList, WorkingIsRunning, RunningIsWorking, Working, OneRunEach,
           TracesAreUsed, RunsAreUsed, RegistryExact, PruneIsSafe, Live
  <2>5. ReportingIsOver' /\ AnnouncedIsOver'
    BY <1>8, <2>1 DEF PruneList, ReportingIsOver, AnnouncedIsOver, WorkingIsRunning,
           Working, OneRunEach, RegistryExact, Live, PruneIsSafe, RunsAreUsed, TracesAreUsed
  <2>6. PruneIsSafe'
    BY <1>8, <2>1 DEF PruneList, PruneIsSafe, RegistryExact, Live, RunsAreUsed
  <2>7. StopKnowsRun' /\ SettledIsDone'
    BY <1>8, <2>1 DEF PruneList, StopKnowsRun, SettledIsDone
  <2>8. QED
    BY <2>2, <2>3, <2>4, <2>5, <2>6, <2>7
<1>9. ASSUME NEW h \in Handles, NEW v \in Ids, PruneCheck(h, v) PROVE ServedOnce'
  <2>1. /\ run'[h].pc = run[h].pc /\ run'[h].task = run[h].task
        /\ run'[h].status = run[h].status /\ run'[h].done = run[h].done
        /\ run'[h].victims \subseteq run[h].victims
        /\ run'[h].removing # NoId => run'[h].removing = v /\ runs[v] = NoHandle /\ v \in used
        /\ \A g \in Handles \ {h} : run'[g] = run[g]
    BY <1>9 DEF PruneCheck, PruneIsSafe, Run
  <2>2. RegistryExact' /\ OneRunEach' /\ RunsAreUsed'
    BY <1>9, <2>1 DEF PruneCheck, RegistryExact, Live, OneRunEach, RunsAreUsed,
           TracesAreUsed
  <2>3. PruneSparesRunning' /\ TracesAreUsed'
    BY <1>9, <2>1 DEF PruneCheck, PruneSparesRunning, TracesAreUsed, RegistryExact, Live,
           RunsAreUsed, PruneIsSafe
  <2>4. WorkingIsRunning' /\ RunningIsWorking'
    BY <1>9, <2>1 DEF PruneCheck, WorkingIsRunning, RunningIsWorking, Working, OneRunEach,
           TracesAreUsed, RunsAreUsed, RegistryExact, PruneIsSafe, Live
  <2>5. ReportingIsOver' /\ AnnouncedIsOver'
    BY <1>9, <2>1 DEF PruneCheck, ReportingIsOver, AnnouncedIsOver, WorkingIsRunning,
           Working, OneRunEach, RegistryExact, Live, PruneIsSafe, RunsAreUsed, TracesAreUsed
  <2>6. PruneIsSafe'
    BY <1>9, <2>1 DEF PruneCheck, PruneIsSafe, RegistryExact, Live, RunsAreUsed
  <2>7. StopKnowsRun' /\ SettledIsDone'
    BY <1>9, <2>1 DEF PruneCheck, StopKnowsRun, SettledIsDone
  <2>8. QED
    BY <2>2, <2>3, <2>4, <2>5, <2>6, <2>7
<1>10. ASSUME NEW h \in Handles, Release(h) PROVE ServedOnce'
  <2>1. /\ run'[h].pc = "released" /\ run'[h].task = run[h].task /\ run'[h].status = run[h].status
        /\ run'[h].done = run[h].done /\ run'[h].victims = run[h].victims
        /\ run'[h].removing = run[h].removing /\ \A g \in Handles \ {h} : run'[g] = run[g]
    BY <1>10 DEF Release, Run
  <2>2. RegistryExact' /\ OneRunEach' /\ RunsAreUsed'
    BY <1>10, <2>1 DEF Release, RegistryExact, Live, OneRunEach, RunsAreUsed, TracesAreUsed
  <2>3. PruneSparesRunning' /\ TracesAreUsed'
    BY <1>10, <2>1 DEF Release, PruneSparesRunning, TracesAreUsed, RegistryExact, Live,
           RunsAreUsed, PruneIsSafe
  <2>4. WorkingIsRunning' /\ RunningIsWorking'
    BY <1>10, <2>1 DEF Release, WorkingIsRunning, RunningIsWorking, Working, OneRunEach,
           TracesAreUsed, RunsAreUsed, RegistryExact, PruneIsSafe, Live
  <2>5. ReportingIsOver' /\ AnnouncedIsOver'
    BY <1>10, <2>1 DEF Release, ReportingIsOver, AnnouncedIsOver, WorkingIsRunning,
           Working, OneRunEach, RegistryExact, Live, PruneIsSafe, RunsAreUsed, TracesAreUsed
  <2>6. PruneIsSafe'
    BY <1>10, <2>1 DEF Release, PruneIsSafe, RegistryExact, Live, RunsAreUsed
  <2>7. StopKnowsRun' /\ SettledIsDone'
    BY <1>10, <2>1 DEF Release, StopKnowsRun, SettledIsDone
  <2>8. QED
    BY <2>2, <2>3, <2>4, <2>5, <2>6, <2>7
<1>11. ASSUME NEW h \in Handles, MarkDone(h) PROVE ServedOnce'
  <2>1. /\ run'[h].pc = "exited" /\ run'[h].task = run[h].task /\ run'[h].status = run[h].status
        /\ run'[h].done = TRUE /\ run'[h].victims = run[h].victims
        /\ run'[h].removing = run[h].removing /\ \A g \in Handles \ {h} : run'[g] = run[g]
    BY <1>11 DEF MarkDone, Run
  <2>2. RegistryExact' /\ OneRunEach' /\ RunsAreUsed'
    BY <1>11, <2>1 DEF MarkDone, RegistryExact, Live, OneRunEach, RunsAreUsed, TracesAreUsed
  <2>3. PruneSparesRunning' /\ TracesAreUsed'
    BY <1>11, <2>1 DEF MarkDone, PruneSparesRunning, TracesAreUsed, RegistryExact, Live,
           RunsAreUsed, PruneIsSafe
  <2>4. WorkingIsRunning' /\ RunningIsWorking'
    BY <1>11, <2>1 DEF MarkDone, WorkingIsRunning, RunningIsWorking, Working, OneRunEach,
           TracesAreUsed, RunsAreUsed, RegistryExact, PruneIsSafe, Live
  <2>5. ReportingIsOver' /\ AnnouncedIsOver'
    BY <1>11, <2>1 DEF MarkDone, ReportingIsOver, AnnouncedIsOver, WorkingIsRunning,
           Working, OneRunEach, RegistryExact, Live, PruneIsSafe, RunsAreUsed, TracesAreUsed
  <2>6. PruneIsSafe'
    BY <1>11, <2>1 DEF MarkDone, PruneIsSafe, RegistryExact, Live, RunsAreUsed
  <2>7. StopKnowsRun' /\ SettledIsDone'
    BY <1>11, <2>1 DEF MarkDone, StopKnowsRun, SettledIsDone
  <2>8. QED
    BY <2>2, <2>3, <2>4, <2>5, <2>6, <2>7
<1>12. ASSUME NEW c \in Callers, StopStep(c) \/ \E i \in Ids : StopLookup(c, i) PROVE ServedOnce'
  <2>1. \A h \in Handles :
          /\ run'[h].pc = run[h].pc /\ run'[h].task = run[h].task
          /\ run'[h].status = run[h].status /\ run'[h].done = run[h].done
          /\ run'[h].victims = run[h].victims /\ run'[h].removing = run[h].removing
    BY <1>12, StopTouchesCancel
  <2>2. UNCHANGED <<runs, snap, used, announced>>
    BY <1>12 DEF StopStep, StopLookup, StopMissing, StopCancel, StopReturn
  <2>3. RegistryExact' /\ OneRunEach' /\ RunsAreUsed'
    BY <2>1, <2>2 DEF RegistryExact, OneRunEach, RunsAreUsed, Live
  <2>4. PruneSparesRunning' /\ TracesAreUsed'
    BY <2>1, <2>2 DEF PruneSparesRunning, TracesAreUsed
  <2>5. WorkingIsRunning' /\ RunningIsWorking'
    BY <2>1, <2>2 DEF WorkingIsRunning, RunningIsWorking, Working
  <2>6. ReportingIsOver' /\ AnnouncedIsOver'
    BY <2>1, <2>2 DEF ReportingIsOver, AnnouncedIsOver
  <2>7. PruneIsSafe'
    BY <2>1, <2>2 DEF PruneIsSafe
  <2>8. StopKnowsRun' /\ SettledIsDone'
    BY <1>12, StopKeeps
  <2>9. QED
    BY <2>3, <2>4, <2>5, <2>6, <2>7, <2>8
<1>13. ASSUME Shutdown \/ UNCHANGED vars PROVE ServedOnce'
  <2>1. \A h \in Handles :
          /\ run'[h].pc = run[h].pc /\ run'[h].task = run[h].task
          /\ run'[h].status = run[h].status /\ run'[h].done = run[h].done
          /\ run'[h].victims = run[h].victims /\ run'[h].removing = run[h].removing
    BY <1>13 DEF Shutdown, vars, Run
  <2>2. UNCHANGED <<runs, snap, used, announced>>
    BY <1>13 DEF Shutdown, vars
  <2>3. RegistryExact' /\ OneRunEach' /\ RunsAreUsed'
    BY <2>1, <2>2 DEF RegistryExact, OneRunEach, RunsAreUsed, Live
  <2>4. PruneSparesRunning' /\ TracesAreUsed'
    BY <2>1, <2>2 DEF PruneSparesRunning, TracesAreUsed
  <2>5. WorkingIsRunning' /\ RunningIsWorking'
    BY <2>1, <2>2 DEF WorkingIsRunning, RunningIsWorking, Working
  <2>6. ReportingIsOver' /\ AnnouncedIsOver'
    BY <2>1, <2>2 DEF ReportingIsOver, AnnouncedIsOver
  <2>7. PruneIsSafe'
    BY <2>1, <2>2 DEF PruneIsSafe
  <2>8. StopKnowsRun' /\ SettledIsDone'
    BY <1>13, <2>1 DEF Shutdown, vars, StopKnowsRun, SettledIsDone
  <2>9. QED
    BY <2>3, <2>4, <2>5, <2>6, <2>7, <2>8
<1>14. CASE Exit
  <2>1. /\ \A i \in Ids : runs'[i] = NoHandle /\ snap'[i] = "absent"
        /\ \A h \in Handles : /\ run'[h].pc = "unused" /\ ~run'[h].done
                              /\ run'[h].victims = {} /\ run'[h].removing = NoId
        /\ \A c \in Callers : call'[c].pc = "idle" /\ call'[c].answer = "none"
        /\ UNCHANGED <<used, announced>>
    BY <1>14 DEF Exit, FreshMemory, FreshRun, FreshCall
  <2>2. RegistryExact' /\ PruneSparesRunning' /\ OneRunEach' /\ RunsAreUsed' /\ TracesAreUsed'
    BY <2>1 DEF RegistryExact, Live, PruneSparesRunning, OneRunEach, RunsAreUsed, TracesAreUsed
  <2>3. WorkingIsRunning' /\ RunningIsWorking' /\ ReportingIsOver' /\ AnnouncedIsOver'
    BY <2>1 DEF WorkingIsRunning, RunningIsWorking, ReportingIsOver, AnnouncedIsOver, Working
  <2>4. PruneIsSafe' /\ StopKnowsRun' /\ SettledIsDone'
    BY <2>1 DEF PruneIsSafe, StopKnowsRun, SettledIsDone
  <2>5. QED
    BY <2>2, <2>3, <2>4
<1>15. ASSUME NEW h \in Handles, RunnerStep(h) PROVE ServedOnce'
  <2>1. CASE (\E s \in Terminal : Conclude(h, s)) \/ InterruptLoop(h) \/ InterruptInit(h)
    BY <1>5, <2>1, Endings
  <2>2. QED
    BY <1>3, <1>4, <1>6, <1>7, <1>8, <1>9, <1>10, <1>11, <1>15, <2>1 DEF RunnerStep
<1>16. QED
  BY <1>1, <1>2, <1>12, <1>13, <1>14, <1>15 DEF Next

LEMMA OnceInit == Init => ServedOnce
<1> SUFFICES ASSUME Init PROVE ServedOnce
  OBVIOUS
<1>1. /\ \A i \in Ids : runs[i] = NoHandle /\ snap[i] = "absent" /\ announced[i] = "nothing"
      /\ \A h \in Handles : /\ run[h].pc = "unused" /\ ~run[h].done
                            /\ run[h].victims = {} /\ run[h].removing = NoId
      /\ \A c \in Callers : call[c].pc = "idle" /\ call[c].answer = "none"
  BY DEF Init, FreshMemory, FreshRun, FreshCall
<1>2. RegistryExact /\ PruneSparesRunning
  BY <1>1, EngineAssumption DEF RegistryExact, Live, PruneSparesRunning
<1>3. OneRunEach /\ RunsAreUsed /\ TracesAreUsed
  BY <1>1 DEF OneRunEach, RunsAreUsed, TracesAreUsed
<1>4. WorkingIsRunning /\ RunningIsWorking /\ ReportingIsOver /\ AnnouncedIsOver
  BY <1>1 DEF WorkingIsRunning, RunningIsWorking, ReportingIsOver, AnnouncedIsOver, Working, Terminal
<1>5. PruneIsSafe /\ StopKnowsRun /\ SettledIsDone
  BY <1>1 DEF PruneIsSafe, StopKnowsRun, SettledIsDone
<1>6. QED
  BY <1>2, <1>3, <1>4, <1>5 DEF ServedOnce

\* As long as no id is sent twice, an instance is served by one runner, registered as
\* long as it lives, with a snapshot that tells its state, and eviction, stop and crash
\* never break that: the inductive invariant behind the theorems below.
THEOREM ServedOnceHolds ==
  ASSUME ~Reuse
  PROVE  Spec => []ServedOnce
<1>1. Init => TypeOK /\ ServedOnce
  BY TypeInit, OnceInit
<1>2. TypeOK /\ ServedOnce /\ [Next]_vars => TypeOK' /\ ServedOnce'
  BY TypeStep, OnceStep
<1>3. QED
  BY <1>1, <1>2, PTL DEF Spec

\* The answer "stopped" that comes from the done channel means that the run is over for
\* good: taskService.Stop, however its look-up, its cancel and the runner interleave.
THEOREM StopSettlesHolds ==
  ASSUME ~Reuse
  PROVE  Spec => []StopSettles
<1>1. TypeOK /\ ServedOnce => StopSettles
  <2> SUFFICES ASSUME TypeOK, ServedOnce, NEW c \in Callers, call[c].answer = "settled"
               PROVE  runs[call[c].id] = NoHandle /\ snap[call[c].id] # "running"
    BY DEF StopSettles
  <2> DEFINE h == call[c].handle
             i == call[c].id
  <2>1. h \in Handles /\ run[h].pc = "exited" /\ run[h].task = i
    BY DEF ServedOnce, StopKnowsRun, SettledIsDone
  <2>2. i \in Ids
    BY <2>1 DEF ServedOnce, RunsAreUsed, TypeOK
  <2>3. ASSUME NEW g \in Handles, run[g].pc # "unused", run[g].task = i PROVE g = h
    BY <2>1, <2>3 DEF ServedOnce, OneRunEach
  <2>4. runs[i] = NoHandle
    BY <2>1, <2>2, <2>3 DEF ServedOnce, RegistryExact, Live, TypeOK
  <2>5. snap[i] # "running"
    BY <2>1, <2>2, <2>3 DEF ServedOnce, RunningIsWorking, Working
  <2>6. QED
    BY <2>4, <2>5
<1>2. QED
  BY <1>1, TypeCorrect, ServedOnceHolds, PTL

\* Two goroutines never work on one instance, and nothing is registered without a
\* runner, whatever clients send: taskService.reserve and releaseHandle.
THEOREM RegistryExactHolds == Spec => []RegistryExact
<1>1. Init => RegistryExact
  BY OnceInit DEF ServedOnce
<1>2. TypeOK /\ RegistryExact /\ [Next]_vars => RegistryExact'
  <2> SUFFICES ASSUME TypeOK, RegistryExact, [Next]_vars PROVE RegistryExact'
    OBVIOUS
  <2> USE EngineAssumption DEF TypeOK, RegistryExact, Live
  <2>1. ASSUME NEW h \in Handles, NEW i \in Ids, Reserve(h, i) PROVE RegistryExact'
    <3>1. /\ run'[h].pc = "reserved" /\ run'[h].task = i
          /\ \A g \in Handles \ {h} : run'[g] = run[g]
      BY <2>1 DEF Reserve, Run
    <3>2. QED
      BY <2>1, <3>1 DEF Reserve
  <2>2. ASSUME NEW h \in Handles, Release(h) PROVE RegistryExact'
    <3>1. /\ run'[h].pc = "released" /\ run'[h].task = run[h].task
          /\ \A g \in Handles \ {h} : run'[g] = run[g]
      BY <2>2 DEF Release, Run
    <3>2. QED
      BY <2>2, <3>1 DEF Release
  <2>3. ASSUME UNCHANGED runs, \A h \in Handles : Live(h)' = Live(h) /\ run'[h].task = run[h].task
        PROVE  RegistryExact'
    BY <2>3
  <2>4. ASSUME NEW h \in Handles, Arm(h) PROVE RegistryExact'
    BY <2>3, <2>4 DEF Arm, Run
  <2>5. ASSUME NEW h \in Handles, PublishSave(h) \/ PublishReport(h) PROVE RegistryExact'
    BY <2>3, <2>5 DEF PublishSave, PublishReport, Run
  <2>6. ASSUME NEW h \in Handles, NEW s \in Terminal, NEW b \in BOOLEAN,
               run[h].pc \in {"init", "loop"}, Finish(h, s, b)
        PROVE  RegistryExact'
    BY <2>3, <2>6 DEF Finish, Run
  <2>7. ASSUME NEW h \in Handles, ReportFinal(h) \/ PruneRemove(h) \/ MarkDone(h)
        PROVE  RegistryExact'
    BY <2>3, <2>7 DEF ReportFinal, PruneRemove, MarkDone, Run
  <2>8. ASSUME NEW h \in Handles, PruneList(h) PROVE RegistryExact'
    <3>1. \E V \in SUBSET Ids : run' = [run EXCEPT ![h].pc = "pruning", ![h].victims = V]
      BY <2>8 DEF PruneList, Excess, TerminalIds
    <3>2. QED
      BY <2>3, <2>8, <3>1 DEF PruneList, Run
  <2>9. ASSUME NEW h \in Handles, NEW v \in Ids, PruneCheck(h, v) PROVE RegistryExact'
    BY <2>3, <2>9 DEF PruneCheck, Run
  <2>10. ASSUME NEW c \in Callers, StopCancel(c) PROVE RegistryExact'
    BY <2>3, <2>10 DEF StopCancel, Run
  <2>11. CASE Shutdown
    BY <2>3, <2>11 DEF Shutdown, Run
  <2>12. CASE Exit
    BY <2>12 DEF Exit, FreshMemory, FreshRun
  <2>13. CASE \/ UNCHANGED vars
              \/ \E c \in Callers : \/ StopMissing(c) \/ StopReturn(c)
                                   \/ \E i \in Ids : StopLookup(c, i)
    BY <2>3, <2>13 DEF StopMissing, StopReturn, StopLookup, vars
  <2>14. ASSUME NEW h \in Handles, RunnerStep(h) PROVE RegistryExact'
    <3>1. CASE (\E s \in Terminal : Conclude(h, s)) \/ InterruptLoop(h) \/ InterruptInit(h)
      BY <2>6, <3>1, Endings
    <3>2. QED
      BY <2>2, <2>5, <2>7, <2>8, <2>9, <2>14, <3>1 DEF RunnerStep
  <2>15. QED
    BY <2>1, <2>4, <2>10, <2>11, <2>12, <2>13, <2>14 DEF Next, StopStep
<1>3. QED
  BY <1>1, <1>2, TypeCorrect, PTL DEF Spec

-----------------------------------------------------------------------------
(* The contract *)

LEMMA ContractInit == Init => Contract!Init
  BY DEF Init, FreshMemory, Contract!Init

\* Every step of the service is one step of the contract, or none.
LEMMA ContractStep ==
  ASSUME ~Reuse, TypeOK, ServedOnce, [Next]_vars
  PROVE  [Contract!Next]_(Contract!contractVars)
<1> DEFINE st  == [i \in Ids |-> IF snap[i] = "absent" /\ i \in used THEN "forgotten" ELSE snap[i]]
           st2 == [i \in Ids |-> IF snap'[i] = "absent" /\ i \in used' THEN "forgotten" ELSE snap'[i]]
<1> USE DEF TypeOK, Terminal, Contract!Terminal
<1>1. SUFFICES \/ st2 = st /\ announced' = announced
               \/ \E i \in Ids : \/ st[i] = "absent" /\ st2 = [st EXCEPT ![i] = "running"]
                                    /\ announced' = announced
                                 \/ st[i] = "running" /\ st2 = st
                                    /\ announced' = [announced EXCEPT ![i] = "running"]
                                 \/ st[i] \in Terminal /\ announced[i] \notin Terminal /\ st2 = st
                                    /\ announced' = [announced EXCEPT ![i] = st[i]]
                                 \/ st[i] \in Terminal /\ st2 = [st EXCEPT ![i] = "forgotten"]
                                    /\ announced' = announced
                                 \/ \E s \in Terminal : st[i] = "running" /\ st2 = [st EXCEPT ![i] = s]
                                    /\ announced' = announced
               \/ /\ st2 = [i \in Ids |-> IF st[i] = "absent" THEN "absent" ELSE "forgotten"]
                  /\ announced' = announced
  BY DEF Contract!Next, Contract!contractVars, Contract!Accept, Contract!Progress, Contract!Announce,
         Contract!Forget, Contract!Settle, Contract!Crash
<1>2. ASSUME NEW h \in Handles, NEW i \in Ids, Reserve(h, i)
      PROVE  st[i] = "absent" /\ st2 = [st EXCEPT ![i] = "running"] /\ announced' = announced
  BY <1>2 DEF Reserve
<1>3. ASSUME NEW h \in Handles, run[h].pc \in Working
      PROVE  run[h].task \in Ids /\ snap[run[h].task] = "running" /\ st[run[h].task] = "running"
  BY <1>3 DEF ServedOnce, RunsAreUsed, WorkingIsRunning, Working
<1>4. ASSUME NEW h \in Handles, PublishSave(h) PROVE st2 = st /\ announced' = announced
  BY <1>3, <1>4 DEF PublishSave, Working
<1>5. ASSUME NEW h \in Handles, PublishReport(h)
      PROVE  \/ st2 = st /\ announced' = announced
             \/ \E i \in Ids : st[i] = "running" /\ st2 = st
                               /\ announced' = [announced EXCEPT ![i] = "running"]
  BY <1>3, <1>5 DEF PublishReport, Working
<1>6. ASSUME NEW h \in Handles, NEW s \in Terminal, NEW b \in BOOLEAN,
             run[h].pc \in {"init", "loop"}, Finish(h, s, b)
      PROVE  \E i \in Ids : st[i] = "running" /\ st2 = [st EXCEPT ![i] = s] /\ announced' = announced
  <2>1. run[h].task \in Ids /\ st[run[h].task] = "running"
    BY <1>3, <1>6 DEF Working
  <2>2. st2 = [st EXCEPT ![run[h].task] = s] /\ announced' = announced
    BY <1>6, <2>1 DEF Finish
  <2>3. QED
    BY <2>1, <2>2
<1>7. ASSUME NEW h \in Handles, ReportFinal(h)
      PROVE  \/ st2 = st /\ announced' = announced
             \/ \E i \in Ids : st[i] \in Terminal /\ announced[i] \notin Terminal /\ st2 = st
                               /\ announced' = [announced EXCEPT ![i] = st[i]]
  <2> DEFINE i == run[h].task
  <2>1. i \in Ids
    BY <1>7 DEF ReportFinal, ServedOnce, RunsAreUsed
  <2>2. snap[i] = run[h].status /\ snap[i] \in Terminal /\ announced[i] \notin Terminal
    BY <1>7 DEF ReportFinal, ServedOnce, ReportingIsOver
  <2>3. st2 = st /\ st[i] = run[h].status
    BY <1>7, <2>1, <2>2 DEF ReportFinal
  <2>4. announced' = announced \/ announced' = [announced EXCEPT ![i] = run[h].status]
    BY <1>7 DEF ReportFinal
  <2>5. QED
    BY <2>1, <2>2, <2>3, <2>4
<1>8. ASSUME NEW h \in Handles, PruneRemove(h)
      PROVE  \/ st2 = st /\ announced' = announced
             \/ \E i \in Ids : st[i] \in Terminal /\ st2 = [st EXCEPT ![i] = "forgotten"]
                               /\ announced' = announced
  <2> DEFINE i == run[h].removing
  <2>1. i \in used /\ runs[i] = NoHandle
    BY <1>8 DEF PruneRemove, ServedOnce, PruneIsSafe
  <2>2. snap[i] # "running"
    BY <2>1, EngineAssumption DEF ServedOnce, RunningIsWorking, RegistryExact, Live, Working
  <2>3. snap[i] \in Terminal \cup {"absent"}
    BY <2>1, <2>2
  <2>4. st2 = [st EXCEPT ![i] = "forgotten"] /\ announced' = announced
    BY <1>8, <2>1 DEF PruneRemove
  <2>5. CASE snap[i] = "absent"
    <3>1. st[i] = "forgotten" /\ st \in [Ids -> {"absent", "running", "forgotten"} \cup Terminal]
      BY <2>1, <2>5
    <3>2. st2 = st
      BY <2>4, <3>1
    <3>3. QED
      BY <2>4, <3>2
  <2>6. CASE snap[i] \in Terminal
    BY <2>1, <2>4, <2>6
  <2>7. QED
    BY <2>3, <2>5, <2>6
<1>9. ASSUME Exit
      PROVE  /\ st2 = [i \in Ids |-> IF st[i] = "absent" THEN "absent" ELSE "forgotten"]
             /\ announced' = announced
  BY <1>9 DEF Exit, FreshMemory, ServedOnce, TracesAreUsed
<1>10. ASSUME UNCHANGED <<snap, used, announced>> PROVE st2 = st /\ announced' = announced
  BY <1>10
<1>11. ASSUME NEW h \in Handles, \/ Arm(h) \/ PruneList(h) \/ Release(h) \/ MarkDone(h)
                                 \/ \E v \in Ids : PruneCheck(h, v)
       PROVE  UNCHANGED <<snap, used, announced>>
  BY <1>11 DEF Arm, PruneList, Release, MarkDone, PruneCheck
<1>12. ASSUME NEW c \in Callers, StopStep(c) \/ \E i \in Ids : StopLookup(c, i)
       PROVE  UNCHANGED <<snap, used, announced>>
  BY <1>12 DEF StopStep, StopLookup, StopMissing, StopCancel, StopReturn
<1>13. ASSUME Shutdown \/ UNCHANGED vars PROVE UNCHANGED <<snap, used, announced>>
  BY <1>13 DEF Shutdown, vars
<1> HIDE DEF st, st2
<1>14. ASSUME NEW h \in Handles, (\E s \in Terminal : Conclude(h, s)) \/ InterruptLoop(h) \/ InterruptInit(h)
       PROVE  \E i \in Ids, s \in Terminal : st[i] = "running" /\ st2 = [st EXCEPT ![i] = s]
                                             /\ announced' = announced
  BY <1>6, <1>14, Endings
<1>15. QED
  BY <1>2, <1>4, <1>5, <1>7, <1>8, <1>9, <1>10, <1>11, <1>12, <1>13, <1>14 DEF Next, RunnerStep

\* The task service implements the contract of the engine (EngineContract) towards
\* clients that never send an id again: an id is accepted once, settles once, and its
\* reports end with that outcome.
THEOREM ImplementsContractHolds ==
  ASSUME ~Reuse
  PROVE  Spec => ImplementsContract
<1>1. Init => Contract!Init
  BY ContractInit
<1>2. TypeOK /\ ServedOnce /\ [Next]_vars => [Contract!Next]_(Contract!contractVars)
  BY ContractStep
<1>3. QED
  BY <1>1, <1>2, TypeCorrect, ServedOnceHolds, PTL DEF Spec, ImplementsContract, Contract!Spec

-----------------------------------------------------------------------------
(* Outcomes *)

\* What a step of the contract leaves alone.
LEMMA ContractKeepsOutcome ==
  ASSUME TypeOK, [Contract!Next]_(Contract!contractVars), NEW i \in Ids
  PROVE  /\ snap[i] \in Terminal => \/ snap'[i] = snap[i]
                                    \/ snap'[i] = "absent" \/ snap'[i] = "forgotten"
         /\ announced[i] \in Terminal /\ snap[i] # "running" => announced'[i] = announced[i]
<1> DEFINE st  == [j \in Ids |-> IF snap[j] = "absent" /\ j \in used THEN "forgotten" ELSE snap[j]]
           st2 == [j \in Ids |-> IF snap'[j] = "absent" /\ j \in used' THEN "forgotten" ELSE snap'[j]]
<1> USE DEF Terminal, Contract!Terminal
<1>1. \/ st2 = st /\ announced' = announced
      \/ \E j \in Ids : \/ st2 = [st EXCEPT ![j] = "running"] /\ st[j] = "absent"
                           /\ announced' = announced
                        \/ st2 = st /\ st[j] = "running"
                           /\ announced' = [announced EXCEPT ![j] = "running"]
                        \/ st2 = st /\ announced[j] \notin Terminal
                           /\ announced' = [announced EXCEPT ![j] = st[j]]
                        \/ st2 = [st EXCEPT ![j] = "forgotten"] /\ announced' = announced
                        \/ \E s \in Terminal : st[j] = "running" /\ st2 = [st EXCEPT ![j] = s]
                                               /\ announced' = announced
      \/ /\ st2 = [j \in Ids |-> IF st[j] = "absent" THEN "absent" ELSE "forgotten"]
         /\ announced' = announced
  BY DEF Contract!Next, Contract!contractVars, Contract!Accept, Contract!Progress,
         Contract!Announce, Contract!Forget, Contract!Settle, Contract!Crash
<1>2. announced[i] \in Terminal /\ st[i] # "running" => announced'[i] = announced[i]
  <2> HIDE DEF st, st2
  <2>1. announced \in [Ids -> {"nothing", "running"} \cup Terminal]
    BY DEF TypeOK
  <2>2. QED
    BY <1>1, <2>1
<1>3. st[i] \in Terminal => st2[i] = st[i] \/ st2[i] = "forgotten"
  <2>1. st \in [Ids -> {"absent", "running", "forgotten"} \cup Terminal]
    BY DEF TypeOK
  <2> HIDE DEF st, st2
  <2>2. QED
    BY <1>1, <2>1
<1>4. /\ st[i] = "running" <=> snap[i] = "running"
      /\ snap[i] \in Terminal => st[i] = snap[i]
      /\ st2[i] = "forgotten" \/ st2[i] = snap'[i]
      /\ st2[i] = "forgotten" => snap'[i] = "absent" \/ snap'[i] = "forgotten"
  OBVIOUS
<1>5. QED
  BY <1>2, <1>3, <1>4

\* How a run ended is never rewritten, only forgotten (mock_runner.go publish, prune,
\* task_service.go Stop), for clients that send no id twice.
THEOREM TerminalIsFinalHolds ==
  ASSUME ~Reuse
  PROVE  Spec => TerminalIsFinal
<1>1. TypeOK /\ TypeOK' /\ ServedOnce /\ [Next]_vars
        => [\A i \in Ids : snap[i] \in Terminal => snap'[i] \in {snap[i], "absent"}]_vars
  <2> SUFFICES ASSUME TypeOK, TypeOK', ServedOnce, [Next]_vars,
                      NEW i \in Ids, snap[i] \in Terminal
               PROVE  snap'[i] \in {snap[i], "absent"}
    OBVIOUS
  <2>1. [Contract!Next]_(Contract!contractVars)
    BY ContractStep
  <2>2. snap'[i] # "forgotten"
    BY DEF TypeOK, Terminal
  <2>3. QED
    BY <2>1, <2>2, ContractKeepsOutcome
<1>2. QED
  BY <1>1, TypeCorrect, ServedOnceHolds, PTL DEF Spec, TerminalIsFinal

\* After the terminal report there is no other, and it told the status of the snapshot
\* (mock_runner.go finish and publish), for clients that send no id twice.
THEOREM ReportsEndOnceHolds ==
  ASSUME ~Reuse
  PROVE  Spec => ReportsEndOnce
<1>1. TypeOK /\ ServedOnce /\ [Next]_vars
        => [\A i \in Ids : announced[i] \in Terminal =>
              /\ announced'[i] = announced[i]
              /\ snap[i] \in {announced[i], "absent"}]_vars
  <2> SUFFICES ASSUME TypeOK, ServedOnce, [Next]_vars,
                      NEW i \in Ids, announced[i] \in Terminal
               PROVE  announced'[i] = announced[i] /\ snap[i] \in {announced[i], "absent"}
    OBVIOUS
  <2>1. [Contract!Next]_(Contract!contractVars)
    BY ContractStep
  <2>2. snap[i] \in {announced[i], "absent"} /\ snap[i] # "running"
    BY DEF ServedOnce, AnnouncedIsOver, Terminal
  <2>3. QED
    BY <2>1, <2>2, ContractKeepsOutcome
<1>2. QED
  BY <1>1, TypeCorrect, ServedOnceHolds, PTL DEF Spec, ReportsEndOnce

\* Eviction takes no snapshot of a registered instance (mock_runner.go prune), although it
\* lists, checks and removes in three steps with the lock released in between, for clients
\* that send no id twice.
THEOREM PruneSparesRunningHolds ==
  ASSUME ~Reuse
  PROVE  Spec => []PruneSparesRunning
<1>1. ServedOnce => PruneSparesRunning
  BY DEF ServedOnce
<1>2. QED
  BY <1>1, ServedOnceHolds, PTL

=============================================================================
