----------------------- MODULE PipelineControl_proofs -----------------------
(***************************************************************************)
(* Proofs about one data pipeline, for any number of handlers at work, of  *)
(* instances and of faults, and for both storage drivers.                  *)
(***************************************************************************)
EXTENDS PipelineControl, FiniteSetTheorems, TLAPS

-----------------------------------------------------------------------------
(* Type correctness *)

\* Handlers of start that are going to create an instance: they fit within the bound.
Creating == {v \in Users : user[v].pc \in {"check", "create"}}
Budget   == created + Cardinality(Creating) <= MaxInstances

\* A handler that works on an instance has its id.
Working == {"claim", "claimSave", "calling", "rollback", "find", "stopping", "waiting",
            "answered", "mark"}
Named   == /\ \A u \in Users : user[u].pc \in Working => user[u].id \in Ids
           /\ \A m \in Reports : rep[m].pc # "free" => rep[m].id \in Ids

Typing == TypeOK /\ Budget /\ Named

LEMMA Typed == Gone \in Row /\ Idle \in Handler /\ Free \in Report
<1>1. Gone \in Row
  BY DEF Gone, Row
<1>2. QED
  BY <1>1 DEF Idle, Free, Handler, Report

LEMMA TypeInit == Init => Typing
<1> SUFFICES ASSUME Init PROVE Typing
  OBVIOUS
<1>1. pipe \in Row
  BY DEF Init, Row
<1>2. engine \in [Ids -> Engine!States] /\ announced \in [Ids -> Engine!Announces]
  BY DEF Init, Engine!Init, Engine!States, Engine!Announces, Engine!Terminal
<1>3. /\ user \in [Users -> Handler] /\ rep \in [Reports -> Report]
      /\ created \in 0 .. MaxInstances /\ faults \in 0 .. MaxFaults
  BY Typed, PipelineAssumption DEF Init
<1>4. TypeOK
  BY <1>1, <1>2, <1>3 DEF Init, TypeOK
<1>5. Creating = {}
  BY DEF Init, Creating, Idle
<1>6. Named
  BY DEF Init, Named, Working, Idle, Free
<1>7. QED
  BY <1>4, <1>5, <1>6, FS_EmptySet, PipelineAssumption DEF Init, Budget, Typing

\* The handlers in Creating are finitely many, and one more or less counts as one.
LEMMA Counting ==
  /\ IsFiniteSet(Creating) /\ Cardinality(Creating) \in Nat
  /\ \A u \in Users \ Creating :
       /\ IsFiniteSet(Creating \cup {u})
       /\ Cardinality(Creating \cup {u}) = Cardinality(Creating) + 1
  /\ \A u \in Creating : Cardinality(Creating \ {u}) = Cardinality(Creating) - 1
<1>1. IsFiniteSet(Creating)
  BY PipelineAssumption, FS_Subset DEF Creating
<1>2. QED
  BY <1>1, FS_CardinalityType, FS_AddElement, FS_RemoveElement

\* What a step does to the handler of a user, if it does not begin or end to create.
LEMMA UserChange ==
  ASSUME Typing, NEW u \in Users, NEW n \in Handler, user' = [user EXCEPT ![u] = n],
         n.pc \in {"check", "create"} <=> user[u].pc \in {"check", "create"},
         n.pc \in Working => n.id \in Ids, created' = created, rep' = rep
  PROVE  user' \in [Users -> Handler] /\ Budget' /\ Named'
<1>1. /\ user' \in [Users -> Handler] /\ user'[u] = n
      /\ \A v \in Users \ {u} : user'[v] = user[v]
  BY DEF Typing, TypeOK
<1>2. Creating' = Creating
  BY <1>1 DEF Creating
<1>3. QED
  BY <1>1, <1>2 DEF Typing, Budget, Named

\* ... and what one does to the handler of a report.
LEMMA ReportChange ==
  ASSUME Typing, NEW m \in Reports, NEW n \in Report, rep' = [rep EXCEPT ![m] = n],
         n.pc # "free" => n.id \in Ids, created' = created, user' = user
  PROVE  rep' \in [Reports -> Report] /\ Budget' /\ Named'
<1>1. Creating' = Creating
  BY DEF Creating
<1>2. QED
  BY <1>1 DEF Typing, TypeOK, Budget, Named

LEMMA TypeStart ==
  ASSUME Typing, NEW u \in Users,
         \/ StartRead(u) \/ StartCheck(u) \/ StartCreate(u) \/ StartClaim(u)
         \/ StartClaimSave(u) \/ StartReplied(u) \/ StartFails(u)
         \/ \E t \in {"delete", "load", "save"} : RollbackStep(u, t)
  PROVE  Typing'
<1> USE DEF linkVars, engineVars, Goto, Done, LoadRow
<1>0. /\ user[u] \in Handler /\ Idle \in Handler /\ Gone \in Row /\ pipe \in Row
      /\ user[u].pc \in Working => user[u].id \in Ids
  BY Typed DEF Typing, TypeOK, Named
<1>1. CASE StartRead(u)
  <2> DEFINE n == [user[u] EXCEPT !.pc = "check", !.before = pipe]
  <2>1. n \in Handler /\ n.pc = "check"
    BY <1>0 DEF Handler
  <2>2. user' = [user EXCEPT ![u] = n] /\ user[u].pc = "idle" /\ created' = created
    BY <1>1 DEF StartRead
  <2> HIDE DEF n
  <2>3. /\ user' \in [Users -> Handler] /\ user'[u] = n
        /\ \A v \in Users \ {u} : user'[v] = user[v]
    BY <2>1, <2>2 DEF Typing, TypeOK
  <2>4. Creating' = Creating \cup {u} /\ u \notin Creating
    BY <2>1, <2>2, <2>3 DEF Creating
  <2>5. created + Cardinality(Creating) < MaxInstances
    BY <1>1 DEF StartRead, Creating
  <2>6. Budget'
    BY <2>2, <2>4, <2>5, Counting, PipelineAssumption DEF Budget, Typing, TypeOK
  <2>7. Named'
    BY <1>1, <2>1, <2>3 DEF StartRead, Typing, Named, Working
  <2>8. TypeOK'
    BY <1>1, <2>3 DEF StartRead, Typing, TypeOK
  <2>9. QED
    BY <2>6, <2>7, <2>8 DEF Typing
<1>2. CASE StartCheck(u)
  <2>1. PICK n \in Handler : user' = [user EXCEPT ![u] = n] /\ n.pc \in {"idle", "create"}
    <3>1. [user[u] EXCEPT !.pc = "create"] \in Handler /\ [user[u] EXCEPT !.pc = "create"].pc = "create"
      BY <1>0 DEF Handler
    <3>2. QED
      BY <1>0, <1>2, <3>1 DEF StartCheck, Idle
  <2>2. /\ user' \in [Users -> Handler] /\ user'[u] = n
        /\ \A v \in Users \ {u} : user'[v] = user[v]
    BY <2>1 DEF Typing, TypeOK
  <2>3. u \in Creating /\ (Creating' = Creating \/ Creating' = Creating \ {u})
    BY <1>2, <2>1, <2>2 DEF StartCheck, Creating
  <2>4. Budget'
    BY <1>2, <2>3, Counting, PipelineAssumption DEF StartCheck, Budget, Typing, TypeOK
  <2>5. Named'
    BY <1>2, <2>1, <2>2 DEF StartCheck, Typing, Named, Working
  <2>6. TypeOK'
    BY <1>2, <2>2 DEF StartCheck, Typing, TypeOK
  <2>7. QED
    BY <2>4, <2>5, <2>6 DEF Typing
<1>3. CASE StartCreate(u)
  <2> DEFINE n == [user[u] EXCEPT !.pc = "claim", !.id = created + 1]
  <2>1. u \in Creating
    BY <1>3 DEF StartCreate, Creating
  <2>2. Cardinality(Creating) \in Nat /\ Cardinality(Creating \ {u}) = Cardinality(Creating) - 1
    BY <2>1, Counting
  <2>3. Cardinality(Creating \ {u}) \in Nat
    BY Counting, FS_Subset, FS_CardinalityType
  <2>4. created + 1 \in Ids
    BY <2>2, <2>3, PipelineAssumption DEF Typing, TypeOK, Budget, Ids
  <2>5. n \in Handler /\ n.pc = "claim" /\ n.id = created + 1
    BY <1>0, <2>4 DEF Handler
  <2>6. user' = [user EXCEPT ![u] = n]
    BY <1>3 DEF StartCreate
  <2> HIDE DEF n
  <2>7. /\ user' \in [Users -> Handler] /\ user'[u] = n
        /\ \A v \in Users \ {u} : user'[v] = user[v]
    BY <2>5, <2>6 DEF Typing, TypeOK
  <2>8. Creating' = Creating \ {u}
    BY <2>5, <2>7 DEF Creating
  <2>9. Budget'
    BY <1>3, <2>2, <2>8, PipelineAssumption DEF StartCreate, Typing, TypeOK, Budget
  <2>10. Named'
    BY <1>3, <2>4, <2>5, <2>7 DEF StartCreate, Typing, Named
  <2>11. created' \in 0 .. MaxInstances
    BY <1>3, <2>4, PipelineAssumption DEF StartCreate, Ids
  <2>12. TypeOK'
    BY <1>3, <2>4, <2>7, <2>11 DEF StartCreate, Typing, TypeOK
  <2>13. QED
    BY <2>9, <2>10, <2>12 DEF Typing
<1>4. CASE StartClaim(u)
  <2>1. PICK n \in Handler : /\ user' = [user EXCEPT ![u] = n]
                             /\ n.pc \in {"calling", "claimSave"} /\ n.id = user[u].id
    <3>1. /\ [user[u] EXCEPT !.pc = "calling"] \in Handler
          /\ [user[u] EXCEPT !.pc = "calling"].pc = "calling"
          /\ [user[u] EXCEPT !.pc = "calling"].id = user[u].id
          /\ [user[u] EXCEPT !.pc = "claimSave", !.row = pipe] \in Handler
          /\ [user[u] EXCEPT !.pc = "claimSave", !.row = pipe].pc = "claimSave"
          /\ [user[u] EXCEPT !.pc = "claimSave", !.row = pipe].id = user[u].id
      BY <1>0 DEF Handler
    <3>2. QED
      BY <1>0, <1>4, <3>1 DEF StartClaim
  <2>2. user[u].pc = "claim" /\ user[u].id \in Ids
    BY <1>0, <1>4 DEF StartClaim, Working
  <2>3. user' \in [Users -> Handler] /\ Budget' /\ Named'
    BY <1>4, <2>1, <2>2, UserChange DEF StartClaim
  <2>4. QED
    BY <1>4, <2>2, <2>3 DEF StartClaim, Typing, TypeOK
<1>5. CASE StartClaimSave(u)
  <2> DEFINE n == [user[u] EXCEPT !.pc = "calling"]
  <2>1. n \in Handler /\ n.pc = "calling" /\ n.id = user[u].id
    BY <1>0 DEF Handler
  <2>2. user' = [user EXCEPT ![u] = n] /\ user[u].pc = "claimSave" /\ user[u].id \in Ids
    BY <1>0, <1>5 DEF StartClaimSave, Working
  <2>3. user' \in [Users -> Handler] /\ Budget' /\ Named'
    BY <1>5, <2>1, <2>2, UserChange DEF StartClaimSave
  <2>4. [status |-> "running", of |-> user[u].id] \in Row
    BY <2>2 DEF Row
  <2>5. QED
    BY <1>5, <2>2, <2>3, <2>4 DEF StartClaimSave, Typing, TypeOK
<1>6. CASE StartReplied(u)
  <2>1. user' \in [Users -> Handler] /\ Budget' /\ Named'
    BY <1>0, <1>6, UserChange DEF StartReplied, Idle, Working
  <2>2. QED
    BY <1>6, <2>1 DEF StartReplied, Typing, TypeOK
<1>7. CASE StartFails(u)
  <2> DEFINE n == [user[u] EXCEPT !.pc = "rollback", !.todo = {"delete", "load"}]
  <2>1. n \in Handler /\ n.pc = "rollback" /\ n.id = user[u].id
    BY <1>0 DEF Handler
  <2>2. user' = [user EXCEPT ![u] = n] /\ user[u].pc = "calling" /\ user[u].id \in Ids
    BY <1>0, <1>7 DEF StartFails, Working
  <2>3. user' \in [Users -> Handler] /\ Budget' /\ Named'
    BY <1>7, <2>1, <2>2, UserChange DEF StartFails
  <2>4. faults' \in 0 .. MaxFaults
    BY <1>7, PipelineAssumption DEF StartFails, Fault, Typing, TypeOK
  <2>5. QED
    BY <1>7, <2>3, <2>4 DEF StartFails, Typing, TypeOK
<1>8. ASSUME NEW t \in {"delete", "load", "save"}, RollbackStep(u, t) PROVE Typing'
  <2> DEFINE next == (user[u].todo \ {t}) \cup
                     (IF t = "load" /\ pipe # Gone THEN {"save"} ELSE {})
             n == IF next = {} THEN Idle ELSE [user[u] EXCEPT !.todo = next]
  <2>1. n \in Handler /\ n.pc \in {"idle", "rollback"} /\ (n.pc = "rollback" => n.id = user[u].id)
    <3>1. next \in SUBSET {"delete", "load", "save"} /\ user[u].pc = "rollback"
      BY <1>0, <1>8 DEF Handler, RollbackStep
    <3> HIDE DEF next
    <3>2. /\ [user[u] EXCEPT !.todo = next] \in Handler
          /\ [user[u] EXCEPT !.todo = next].pc = user[u].pc
          /\ [user[u] EXCEPT !.todo = next].id = user[u].id
      BY <1>0, <3>1 DEF Handler
    <3>3. QED
      BY <1>0, <3>1, <3>2 DEF Idle
  <2>2. user' = [user EXCEPT ![u] = n] /\ user[u].pc = "rollback" /\ user[u].id \in Ids
    BY <1>0, <1>8 DEF RollbackStep, Working
  <2> HIDE DEF n
  <2>3. user' \in [Users -> Handler] /\ Budget' /\ Named'
    <3>1. created' = created /\ rep' = rep
      BY <1>8 DEF RollbackStep
    <3>2. n.pc \in {"check", "create"} <=> user[u].pc \in {"check", "create"}
      BY <2>1, <2>2
    <3>3. n.pc \in Working => n.id \in Ids
      BY <2>1, <2>2 DEF Working
    <3>4. QED
      BY <2>1, <2>2, <3>1, <3>2, <3>3, UserChange
  <2>4. pipe' \in Row
    BY <1>0, <1>8 DEF RollbackStep, Handler
  <2>5. QED
    BY <1>8, <2>3, <2>4 DEF RollbackStep, Typing, TypeOK
<1>9. QED
  BY <1>1, <1>2, <1>3, <1>4, <1>5, <1>6, <1>7, <1>8

LEMMA TypeEdit ==
  ASSUME Typing, NEW u \in Users,
         \/ EditRead(u) \/ EditLoad(u) \/ EditSave(u) \/ DeleteRead(u) \/ DeleteRow(u)
         \/ StopRead(u) \/ StopFind(u) \/ StopArrives(u) \/ StopReply(u) \/ StopUpdate(u)
         \/ StopMark(u) \/ StopLoad(u) \/ StopSave(u)
  PROVE  Typing'
<1> USE DEF linkVars, engineVars, Goto, Done, LoadRow
<1> DEFINE at(pc) == [user[u] EXCEPT !.pc = pc]
           with(pc) == [user[u] EXCEPT !.pc = pc, !.row = pipe]
<1>0. /\ user[u] \in Handler /\ Idle \in Handler /\ Gone \in Row /\ pipe \in Row
      /\ user[u].pc \in Working => user[u].id \in Ids
      /\ [status |-> "stopped", of |-> None] \in Row /\ user[u].row \in Row
      /\ Idle.pc = "idle"
  BY Typed DEF Typing, TypeOK, Named, Handler, Row, Idle
<1>1. \A pc \in {"idle", "edit", "delete", "stopping", "answered", "waiting", "mark", "stop"} :
        at(pc) \in Handler /\ at(pc).pc = pc /\ at(pc).id = user[u].id
  BY <1>0 DEF Handler
<1>2. \A pc \in {"editSave", "stopSave"} :
        with(pc) \in Handler /\ with(pc).pc = pc /\ with(pc).id = user[u].id
  BY <1>0 DEF Handler
<1> HIDE DEF at, with
<1>3. CASE EditRead(u) \/ DeleteRead(u)
  <2>1. user[u].pc = "idle" /\ \E pc \in {"edit", "delete"} : user' = [user EXCEPT ![u] = at(pc)]
    BY <1>3 DEF EditRead, DeleteRead, at
  <2>2. user' \in [Users -> Handler] /\ Budget' /\ Named'
    BY <1>1, <1>3, <2>1, UserChange DEF EditRead, DeleteRead, Working
  <2>3. QED
    BY <1>3, <2>2 DEF EditRead, DeleteRead, Typing, TypeOK
<1>4. CASE EditLoad(u) \/ StopLoad(u)
  <2>1. /\ user[u].pc \in {"edit", "stop"}
        /\ \/ user' = [user EXCEPT ![u] = at("idle")]
           \/ \E pc \in {"editSave", "stopSave"} : user' = [user EXCEPT ![u] = with(pc)]
    BY <1>4 DEF EditLoad, StopLoad, at, with
  <2>2. user' \in [Users -> Handler] /\ Budget' /\ Named'
    BY <1>1, <1>2, <1>4, <2>1, UserChange DEF EditLoad, StopLoad, Working
  <2>3. QED
    BY <1>4, <2>2 DEF EditLoad, StopLoad, Typing, TypeOK
<1>5. CASE EditSave(u) \/ DeleteRow(u) \/ StopSave(u)
  <2>1. user[u].pc \in {"editSave", "delete", "stopSave"} /\ user' = [user EXCEPT ![u] = Idle]
    BY <1>5 DEF EditSave, DeleteRow, StopSave
  <2>2. user' \in [Users -> Handler] /\ Budget' /\ Named'
    BY <1>0, <1>5, <2>1, UserChange DEF EditSave, DeleteRow, StopSave, Working
  <2>3. pipe' \in Row
    BY <1>0, <1>5 DEF EditSave, DeleteRow, StopSave
  <2>4. QED
    BY <1>5, <2>2, <2>3 DEF EditSave, DeleteRow, StopSave, Typing, TypeOK
<1>6. CASE StopRead(u)
  <2> DEFINE n == [user[u] EXCEPT !.pc = "find", !.id = pipe.of]
  <2>1. pipe.of \in Ids
    BY <1>0, <1>6 DEF StopRead, Row
  <2>2. n \in Handler /\ n.pc = "find" /\ n.id \in Ids
    BY <1>0, <2>1 DEF Handler
  <2>3. user' = [user EXCEPT ![u] = n] /\ user[u].pc = "idle"
    BY <1>6 DEF StopRead
  <2> HIDE DEF n
  <2>4. user' \in [Users -> Handler] /\ Budget' /\ Named'
    BY <1>6, <2>2, <2>3, UserChange DEF StopRead
  <2>5. QED
    BY <1>6, <2>4 DEF StopRead, Typing, TypeOK
<1>7. CASE StopFind(u) \/ StopArrives(u) \/ StopReply(u) \/ StopUpdate(u) \/ StopMark(u)
  <2>1. /\ user[u].pc \in {"find", "stopping", "waiting", "answered", "mark"}
        /\ \/ user' = [user EXCEPT ![u] = Idle]
           \/ \E pc \in {"stopping", "answered", "waiting", "mark", "stop"} :
                user' = [user EXCEPT ![u] = at(pc)]
    BY <1>7 DEF StopFind, StopArrives, StopReply, StopUpdate, StopMark, at
  <2>2. user[u].id \in Ids
    BY <1>0, <2>1 DEF Working
  <2>3. created' = created /\ rep' = rep
    BY <1>7 DEF StopFind, StopArrives, StopReply, StopUpdate, StopMark
  <2>4. user' \in [Users -> Handler] /\ Budget' /\ Named'
    BY <1>0, <1>1, <2>1, <2>2, <2>3, UserChange DEF Working
  <2>5. QED
    BY <1>7, <2>2, <2>4 DEF StopFind, StopArrives, StopReply, StopUpdate, StopMark, Typing, TypeOK
<1>8. QED
  BY <1>3, <1>4, <1>5, <1>6, <1>7

LEMMA TypeEngine ==
  ASSUME Typing, NEW i \in Ids,
         \/ EngineAccepts(i)
         \/ \E s \in {"failed", "stopped"} : EngineSettles(i, s)
  PROVE  Typing'
<1>1. CASE EngineAccepts(i)
  BY <1>1 DEF EngineAccepts, Engine!Accept, Engine!States, Typing, TypeOK, Budget, Creating, Named
<1>2. ASSUME NEW s \in {"failed", "stopped"}, EngineSettles(i, s) PROVE Typing'
  BY <1>2 DEF EngineSettles, Engine!Settle, Engine!States, Engine!Terminal, Typing, TypeOK,
              Budget, Creating, Named
<1>3. QED
  BY <1>1, <1>2

LEMMA TypeReport ==
  ASSUME Typing, NEW m \in Reports,
         \/ ReportStep(m) \/ GiveUp(m) \/ LoseReport(m) \/ \E i \in Ids : SendReport(m, i)
  PROVE  Typing'
<1> USE DEF linkVars, engineVars
<1>0. /\ rep[m] \in Report /\ Free \in Report /\ Free.pc = "free" /\ pipe \in Row
      /\ rep[m].pc # "free" => rep[m].id \in Ids
      /\ [status |-> "stopped", of |-> None] \in Row /\ rep[m].row \in Row
  BY Typed DEF Typing, TypeOK, Named, Report, Row, Free
<1>1. CASE GiveUp(m)
  <2> DEFINE n == [rep[m] EXCEPT !.awaited = FALSE]
  <2>1. n \in Report /\ n.pc = rep[m].pc /\ n.id = rep[m].id
    BY <1>0 DEF Report
  <2>2. rep' = [rep EXCEPT ![m] = n]
    BY <1>1 DEF GiveUp
  <2> HIDE DEF n
  <2>3. rep' \in [Reports -> Report] /\ Budget' /\ Named'
    BY <1>0, <1>1, <2>1, <2>2, ReportChange DEF GiveUp
  <2>4. QED
    BY <1>1, <2>3 DEF GiveUp, Typing, TypeOK
<1>2. CASE LoseReport(m)
  <2>1. rep' \in [Reports -> Report] /\ Budget' /\ Named'
    BY <1>0, <1>2, ReportChange DEF LoseReport
  <2>2. faults' \in 0 .. MaxFaults
    BY <1>2, PipelineAssumption DEF LoseReport, Fault, Typing, TypeOK
  <2>3. QED
    BY <1>2, <2>1, <2>2 DEF LoseReport, Typing, TypeOK
<1>3. ASSUME NEW i \in Ids, SendReport(m, i) PROVE Typing'
  <2> DEFINE n == [rep[m] EXCEPT !.pc = "sent", !.id = i, !.status = announced'[i], !.awaited = TRUE]
  <2>1. /\ announced' \in [Ids -> Engine!Announces] /\ engine' = engine
        /\ announced'[i] \in {"running"} \cup Engine!Terminal
    BY <1>3 DEF SendReport, Engine!Progress, Engine!Announce, Engine!Announces, Engine!Terminal,
                Typing, TypeOK
  <2>2. n \in Report /\ n.id = i
    BY <1>0, <2>1 DEF Report
  <2>3. rep' = [rep EXCEPT ![m] = n]
    BY <1>3 DEF SendReport
  <2> HIDE DEF n
  <2>4. rep' \in [Reports -> Report] /\ Budget' /\ Named'
    BY <1>3, <2>2, <2>3, ReportChange DEF SendReport
  <2>5. QED
    BY <1>3, <2>1, <2>4 DEF SendReport, Typing, TypeOK
<1>4. CASE ReportStep(m)
  <2>1. PICK n \in Report : rep' = [rep EXCEPT ![m] = n] /\ (n.pc # "free" => n.id = rep[m].id)
    <3> DEFINE at(pc) == [rep[m] EXCEPT !.pc = pc]
               apply(ends) == [rep[m] EXCEPT !.pc = "apply", !.ends = ends]
               save == [rep[m] EXCEPT !.pc = "save", !.row = pipe]
    <3>1. \A pc \in {"update", "react", "write"} : at(pc) \in Report /\ at(pc).id = rep[m].id
      BY <1>0 DEF Report
    <3>2. \A ends \in BOOLEAN : apply(ends) \in Report /\ apply(ends).id = rep[m].id
      BY <1>0 DEF Report
    <3>3. save \in Report /\ save.id = rep[m].id
      BY <1>0 DEF Report
    <3>4. \/ rep' = [rep EXCEPT ![m] = Free]
          \/ \E pc \in {"update", "react", "write"} : rep' = [rep EXCEPT ![m] = at(pc)]
          \/ \E ends \in BOOLEAN : rep' = [rep EXCEPT ![m] = apply(ends)]
          \/ rep' = [rep EXCEPT ![m] = save]
      BY <1>4 DEF ReportStep, ReportRead, ReportUpdate, ReportWrite, ReportPipeline, ReportApply,
                  ReportSave
    <3> HIDE DEF at, apply, save
    <3>5. QED
      BY <1>0, <3>1, <3>2, <3>3, <3>4
  <2>2. rep[m].id \in Ids /\ created' = created /\ user' = user
    BY <1>0, <1>4 DEF ReportStep, ReportRead, ReportUpdate, ReportWrite, ReportPipeline,
                      ReportApply, ReportSave
  <2>3. rep' \in [Reports -> Report] /\ Budget' /\ Named'
    BY <2>1, <2>2, ReportChange
  <2>4. pipe' \in Row /\ rows' \in SUBSET Ids
    BY <1>0, <1>4, <2>2 DEF ReportStep, ReportRead, ReportUpdate, ReportWrite, ReportPipeline,
                            ReportApply, ReportSave, Typing, TypeOK
  <2>5. /\ driver' = driver /\ created' = created /\ pending' = pending /\ cancelled' = cancelled
        /\ engine' = engine /\ announced' = announced /\ user' = user /\ faults' = faults
        /\ raced' = raced
    BY <1>4 DEF ReportStep, ReportRead, ReportUpdate, ReportWrite, ReportPipeline, ReportApply,
                ReportSave
  <2>6. QED
    BY <2>3, <2>4, <2>5 DEF Typing, TypeOK
<1>5. QED
  BY <1>1, <1>2, <1>3, <1>4

LEMMA TypeNext == Typing /\ [Next]_vars => Typing'
<1> SUFFICES ASSUME Typing, [Next]_vars PROVE Typing'
  OBVIOUS
<1>1. ASSUME NEW u \in Users,
             \/ UserStep(u) \/ StartRead(u) \/ StartFails(u) \/ EditRead(u) \/ DeleteRead(u)
             \/ StopRead(u)
      PROVE  Typing'
  BY <1>1, TypeStart, TypeEdit DEF UserStep
<1>2. CASE UNCHANGED vars
  BY <1>2 DEF vars, Typing, TypeOK, Budget, Creating, Named
<1>3. QED
  BY <1>1, <1>2, TypeEngine, TypeReport DEF Next

\* TypeOK, with the bounds on ids and faults.
THEOREM TypeCorrect == Spec => []TypeOK
<1>1. Typing => TypeOK
  BY DEF Typing
<1>2. QED
  BY TypeInit, TypeNext, <1>1, PTL DEF Spec

-----------------------------------------------------------------------------
(* status and runningInstanceId agree *)

Agree(row) == row.status = "running" <=> row.of # None

\* So do all the copies of the row that handlers hold.
Pairs == /\ Agree(pipe)
         /\ \A u \in Users : Agree(user[u].row) /\ Agree(user[u].before)
         /\ \A m \in Reports : Agree(rep[m].row)

Stopped == [status |-> "stopped", of |-> None]

LEMMA Agreeing == Agree(Gone) /\ Agree(Stopped) /\ \A i \in Ids : Agree([status |-> "running", of |-> i])
  BY DEF Agree, Gone, Stopped, Ids, None

\* Where rows come from: what a user's step writes, and what it remembers.
Copies(n, q) == n.row \in {q.row, pipe, Gone} /\ n.before \in {q.before, pipe, Gone}

LEMMA UserCopies ==
  ASSUME NEW q \in Handler
  PROVE  /\ Copies(Idle, q)
         /\ \A pc : Copies([q EXCEPT !.pc = pc], q) /\ Copies([q EXCEPT !.pc = pc, !.row = pipe], q)
         /\ \A i : Copies([q EXCEPT !.pc = "claim", !.id = i], q)
         /\ \A i : Copies([q EXCEPT !.pc = "find", !.id = i], q)
         /\ Copies([q EXCEPT !.pc = "check", !.before = pipe], q)
         /\ \A t : Copies([q EXCEPT !.todo = t], q) /\ Copies([q EXCEPT !.pc = "rollback", !.todo = t], q)
  BY DEF Copies, Idle, Handler

LEMMA UserWrites ==
  ASSUME Typing, NEW u \in Users,
         \/ UserStep(u) \/ StartRead(u) \/ StartFails(u) \/ EditRead(u) \/ DeleteRead(u) \/ StopRead(u)
  PROVE  /\ \/ pipe' \in {pipe, Gone, Stopped, user[u].row, user[u].before}
            \/ user[u].id \in Ids /\ pipe' = [status |-> "running", of |-> user[u].id]
         /\ \E n : user' = [user EXCEPT ![u] = n] /\ Copies(n, user[u])
         /\ rep' = rep
<1>0. user[u] \in Handler /\ (user[u].pc \in Working => user[u].id \in Ids)
  BY DEF Typing, TypeOK, Named
<1> USE DEF Goto, Done, LoadRow
<1>1. CASE UserStep(u)
  <2>1. CASE \E t \in {"delete", "load", "save"} : RollbackStep(u, t)
    <3>1. PICK next :
            /\ user' = [user EXCEPT ![u] = IF next = {} THEN Idle ELSE [user[u] EXCEPT !.todo = next]]
            /\ pipe' \in {pipe, user[u].before} /\ rep' = rep
      BY <2>1 DEF RollbackStep
    <3>2. QED
      BY <1>0, <3>1, UserCopies
  <2>2. CASE StartCheck(u) \/ StartCreate(u) \/ StartClaim(u) \/ StartReplied(u)
    <3>1. pipe' = pipe /\ rep' = rep
      BY <2>2 DEF StartCheck, StartCreate, StartClaim, StartReplied
    <3>2. \/ user' = [user EXCEPT ![u] = Idle]
          \/ \E pc : \/ user' = [user EXCEPT ![u] = [user[u] EXCEPT !.pc = pc]]
                    \/ user' = [user EXCEPT ![u] = [user[u] EXCEPT !.pc = pc, !.row = pipe]]
          \/ \E i : user' = [user EXCEPT ![u] = [user[u] EXCEPT !.pc = "claim", !.id = i]]
      BY <2>2 DEF StartCheck, StartCreate, StartClaim, StartReplied
    <3>3. QED
      BY <1>0, <3>1, <3>2, UserCopies
  <2>3. CASE StartClaimSave(u)
    <3>1. user' = [user EXCEPT ![u] = [user[u] EXCEPT !.pc = "calling"]] /\ rep' = rep
      BY <2>3 DEF StartClaimSave
    <3>2. user[u].id \in Ids /\ pipe' = [status |-> "running", of |-> user[u].id]
      BY <1>0, <2>3 DEF StartClaimSave, Working
    <3>3. QED
      BY <1>0, <3>1, <3>2, UserCopies
  <2>4. CASE \/ EditLoad(u) \/ EditSave(u) \/ DeleteRow(u) \/ StopFind(u) \/ StopArrives(u)
             \/ StopReply(u) \/ StopUpdate(u) \/ StopMark(u) \/ StopLoad(u) \/ StopSave(u)
    <3>1. pipe' \in {pipe, Gone, Stopped, user[u].row} /\ rep' = rep
      BY <2>4 DEF EditLoad, EditSave, DeleteRow, StopFind, StopArrives, StopReply, StopUpdate,
                  StopMark, StopLoad, StopSave, Stopped
    <3>2. \/ user' = [user EXCEPT ![u] = Idle]
          \/ \E pc : \/ user' = [user EXCEPT ![u] = [user[u] EXCEPT !.pc = pc]]
                    \/ user' = [user EXCEPT ![u] = [user[u] EXCEPT !.pc = pc, !.row = pipe]]
      BY <2>4 DEF EditLoad, EditSave, DeleteRow, StopFind, StopArrives, StopReply, StopUpdate,
                  StopMark, StopLoad, StopSave
    <3>3. QED
      BY <1>0, <3>1, <3>2, UserCopies
  <2>5. QED
    BY <1>1, <2>1, <2>2, <2>3, <2>4 DEF UserStep
<1>2. CASE StartRead(u) \/ StartFails(u) \/ EditRead(u) \/ DeleteRead(u) \/ StopRead(u)
  <2>1. pipe' = pipe /\ rep' = rep
    BY <1>2 DEF StartRead, StartFails, EditRead, DeleteRead, StopRead
  <2>2. \/ user' = [user EXCEPT ![u] = [user[u] EXCEPT !.pc = "check", !.before = pipe]]
        \/ \E t : user' = [user EXCEPT ![u] = [user[u] EXCEPT !.pc = "rollback", !.todo = t]]
        \/ \E pc : user' = [user EXCEPT ![u] = [user[u] EXCEPT !.pc = pc]]
        \/ \E i : user' = [user EXCEPT ![u] = [user[u] EXCEPT !.pc = "find", !.id = i]]
    BY <1>2 DEF StartRead, StartFails, EditRead, DeleteRead, StopRead
  <2>3. QED
    BY <1>0, <2>1, <2>2, UserCopies
<1>3. QED
  BY <1>1, <1>2

LEMMA ReportWrites ==
  ASSUME Typing, NEW m \in Reports,
         \/ ReportStep(m) \/ GiveUp(m) \/ LoseReport(m) \/ \E i \in Ids : SendReport(m, i)
  PROVE  /\ pipe' \in {pipe, Stopped, rep[m].row}
         /\ rep'[m].row \in {rep[m].row, pipe, Gone}
         /\ \A r \in Reports \ {m} : rep'[r] = rep[r]
         /\ user' = user
<1>0. rep[m] \in Report /\ rep \in [Reports -> Report]
  BY DEF Typing, TypeOK
<1>1. CASE ReportStep(m)
  <2>1. pipe' \in {pipe, Stopped, rep[m].row} /\ user' = user
    BY <1>1 DEF ReportStep, ReportRead, ReportUpdate, ReportWrite, ReportPipeline, ReportApply,
                ReportSave, Stopped
  <2> DEFINE Keeps(n) == n.row \in {rep[m].row, pipe, Gone}
  <2>2. \/ rep' = [rep EXCEPT ![m] = Free]
        \/ \E pc, ends : \/ rep' = [rep EXCEPT ![m] = [rep[m] EXCEPT !.pc = pc]]
                        \/ rep' = [rep EXCEPT ![m] = [rep[m] EXCEPT !.pc = pc, !.ends = ends]]
                        \/ rep' = [rep EXCEPT ![m] = [rep[m] EXCEPT !.pc = pc, !.row = pipe]]
    BY <1>1 DEF ReportStep, ReportRead, ReportUpdate, ReportWrite, ReportPipeline, ReportApply,
                ReportSave
  <2>3. /\ Keeps(Free)
        /\ \A pc, ends : /\ Keeps([rep[m] EXCEPT !.pc = pc])
                        /\ Keeps([rep[m] EXCEPT !.pc = pc, !.ends = ends])
                        /\ Keeps([rep[m] EXCEPT !.pc = pc, !.row = pipe])
    BY <1>0 DEF Report, Free
  <2> HIDE DEF Keeps
  <2>4. PICK n : rep' = [rep EXCEPT ![m] = n] /\ Keeps(n)
    BY <2>2, <2>3
  <2>5. QED
    BY <1>0, <2>1, <2>4 DEF Keeps
<1>2. CASE GiveUp(m) \/ LoseReport(m)
  BY <1>0, <1>2 DEF GiveUp, LoseReport, Report, Free
<1>3. ASSUME NEW i \in Ids, SendReport(m, i) PROVE rep'[m].row = rep[m].row /\ pipe' = pipe
                                                 /\ user' = user /\ \A r \in Reports \ {m} : rep'[r] = rep[r]
  BY <1>0, <1>3 DEF SendReport, Report
<1>4. QED
  BY <1>1, <1>2, <1>3

LEMMA PairsNext == Typing /\ Pairs /\ [Next]_vars => Pairs'
<1> SUFFICES ASSUME Typing, Pairs, [Next]_vars PROVE Pairs'
  OBVIOUS
<1>1. ASSUME NEW u \in Users,
             \/ UserStep(u) \/ StartRead(u) \/ StartFails(u) \/ EditRead(u) \/ DeleteRead(u)
             \/ StopRead(u)
      PROVE  Pairs'
  <2>1. Agree(pipe') /\ rep' = rep
    BY <1>1, UserWrites, Agreeing DEF Pairs
  <2>2. PICK n : user' = [user EXCEPT ![u] = n] /\ Copies(n, user[u])
    BY <1>1, UserWrites
  <2>3. Agree(n.row) /\ Agree(n.before)
    BY <2>2, Agreeing DEF Pairs, Copies
  <2>4. user'[u] = n /\ \A v \in Users \ {u} : user'[v] = user[v]
    BY <2>2 DEF Typing, TypeOK
  <2>5. QED
    BY <2>1, <2>3, <2>4 DEF Pairs, Agree
<1>2. ASSUME NEW m \in Reports,
             \/ ReportStep(m) \/ GiveUp(m) \/ LoseReport(m) \/ \E i \in Ids : SendReport(m, i)
      PROVE  Pairs'
  <2>1. Agree(pipe') /\ Agree(rep'[m].row)
    BY <1>2, ReportWrites, Agreeing DEF Pairs
  <2>2. QED
    BY <1>2, <2>1, ReportWrites DEF Pairs, Agree
<1>3. ASSUME NEW i \in Ids,
             EngineAccepts(i) \/ \E s \in {"failed", "stopped"} : EngineSettles(i, s)
      PROVE  Pairs'
  BY <1>3 DEF EngineAccepts, EngineSettles, Pairs, Agree
<1>4. CASE UNCHANGED vars
  BY <1>4 DEF vars, Pairs, Agree
<1>5. QED
  BY <1>1, <1>2, <1>3, <1>4 DEF Next

LEMMA PairsInit == Init => Pairs
  BY Agreeing DEF Init, Pairs, Idle, Free, Stopped

\* PairAgrees (pipeline.service.js): the pipeline says running exactly as long as it names
\* an instance, although edits, starts, stops and reports read the row, wait, and write all
\* of it back, in any order and with either driver.
THEOREM PairAgreesHolds == Spec => []PairAgrees
<1>1. Pairs => PairAgrees
  BY DEF Pairs, Agree, PairAgrees
<1>2. QED
  BY TypeInit, TypeNext, PairsInit, PairsNext, <1>1, PTL DEF Spec

-----------------------------------------------------------------------------
(* A pipeline that says running can be stopped.  Proved for the memory driver: handlers *)
(* run one at a time between two waits for the engine.                                  *)

OneAtATime == \A x, y \in MidSection : x = y

\* What a start has read is not a running pipeline, so neither is what a rollback restores.
Entered == \A u \in Users : Starting(u) => user[u].before.status # "running"

\* A row that a handler is about to write back is the row there is.
Fresh == /\ \A u \in Users : user[u].pc = "editSave" => user[u].row = pipe
         /\ \A m \in Reports : rep[m].pc = "save" => rep[m].row = pipe

\* A start that is about to claim the pipeline has its instance row.
Backed == \A u \in Users : user[u].pc \in {"claim", "claimSave"} => user[u].id \in rows

\* A rollback that has only the instance left to delete has restored the pipeline.
Undone == \A u \in Users : user[u].pc = "rollback" /\ user[u].todo \cap {"load", "save"} = {}
                          => pipe.status # "running"

Held == (\A u \in Users : user[u].pc # "rollback") /\ pipe.status = "running" => pipe.of \in rows

Serial == driver = "memory" => OneAtATime /\ Entered /\ Fresh /\ Backed /\ Undone /\ Held

LEMMA SerialInit == Init => Serial
  BY DEF Init, Serial, OneAtATime, Entered, Fresh, Backed, Undone, Held, Idle, Free, Starting, MidSection

Mid(pc) == pc \notin {"idle", "calling", "stopping", "waiting", "answered"}

\* A piece of a user's handler runs alone; it may leave the handler within a piece.
LEMMA UserAlone ==
  ASSUME Typing, driver = "memory", OneAtATime, NEW u \in Users, NEW n,
         user' = [user EXCEPT ![u] = n], rep' = rep, driver' = driver, Turn(u) \/ ~Mid(n.pc)
  PROVE  /\ OneAtATime' /\ user'[u] = n /\ \A v \in Users \ {u} : user'[v] = user[v]
         /\ Turn(u) => /\ \A v \in Users \ {u} : ~Mid(user[v].pc)
                       /\ \A m \in Reports : rep[m].pc \in {"free", "sent"}
<1>1. user'[u] = n /\ \A v \in Users \ {u} : user'[v] = user[v]
  BY DEF Typing, TypeOK
<1>2. MidSection' \subseteq IF Mid(n.pc) THEN MidSection \cup {u} ELSE MidSection
  BY <1>1 DEF MidSection, Mid
<1>3. Turn(u) => MidSection \subseteq {u}
  BY DEF Turn
<1>4. OneAtATime'
  BY <1>2, <1>3 DEF OneAtATime
<1>5. ASSUME MidSection \subseteq {u}
      PROVE  /\ \A v \in Users \ {u} : ~Mid(user[v].pc)
             /\ \A m \in Reports : rep[m].pc \in {"free", "sent"}
  BY <1>5, PipelineAssumption DEF MidSection, Mid
<1>6. QED
  BY <1>1, <1>3, <1>4, <1>5

LEMMA ReportAlone ==
  ASSUME Typing, driver = "memory", OneAtATime, NEW m \in Reports, NEW n,
         rep' = [rep EXCEPT ![m] = n], user' = user, driver' = driver,
         Turn(m) \/ n.pc \in {"free", "sent"} \/ n.pc = rep[m].pc
  PROVE  /\ OneAtATime' /\ rep'[m] = n /\ \A r \in Reports \ {m} : rep'[r] = rep[r]
         /\ Turn(m) => /\ \A v \in Users : ~Mid(user[v].pc)
                       /\ \A r \in Reports \ {m} : rep[r].pc \in {"free", "sent"}
<1>1. rep'[m] = n /\ \A r \in Reports \ {m} : rep'[r] = rep[r]
  BY DEF Typing, TypeOK
<1>2. MidSection' \subseteq MidSection \cup {m} /\ (n.pc \in {"free", "sent"} \/ n.pc = rep[m].pc => MidSection' \subseteq MidSection)
  BY <1>1 DEF MidSection
<1>3. Turn(m) => MidSection \subseteq {m}
  BY DEF Turn
<1>4. OneAtATime'
  BY <1>2, <1>3 DEF OneAtATime
<1>5. ASSUME MidSection \subseteq {m}
      PROVE  /\ \A v \in Users : ~Mid(user[v].pc)
             /\ \A r \in Reports \ {m} : rep[r].pc \in {"free", "sent"}
  BY <1>5, PipelineAssumption DEF MidSection, Mid
<1>6. QED
  BY <1>1, <1>3, <1>4, <1>5

StartPcs == {"check", "create", "claim", "claimSave", "calling", "rollback"}

\* What is left to show of a piece of a user's handler ...
Suits(n, p, rs) ==
  /\ n.pc \in StartPcs => n.before.status # "running"
  /\ n.pc = "editSave" => n.row = p
  /\ n.pc \in {"claim", "claimSave"} => n.id \in rs
  /\ n.pc = "rollback" /\ n.todo \cap {"load", "save"} = {} => p.status # "running"
  /\ n.pc # "rollback" /\ p.status = "running" => p.of \in rs

LEMMA UserSerial ==
  ASSUME Typing, Serial, driver = "memory", NEW u \in Users, NEW n,
         user' = [user EXCEPT ![u] = n], rep' = rep, driver' = driver, Turn(u),
         Suits(n, pipe', rows')
  PROVE  Serial'
<1>1. /\ OneAtATime' /\ user'[u] = n /\ \A v \in Users \ {u} : user'[v] = user[v]
      /\ \A v \in Users \ {u} : ~Mid(user[v].pc)
      /\ \A m \in Reports : rep[m].pc \in {"free", "sent"}
  BY UserAlone DEF Serial
<1>2. Entered'
  BY <1>1 DEF Serial, Entered, Suits, StartPcs, Starting
<1>3. Fresh' /\ Backed' /\ Undone' /\ Held'
  BY <1>1 DEF Fresh, Backed, Undone, Held, Suits, Mid
<1>4. QED
  BY <1>1, <1>2, <1>3 DEF Serial

\* ... and of a step that does not begin one, and changes no row.
LEMMA UserQuiet ==
  ASSUME Typing, Serial, driver = "memory", NEW u \in Users, NEW n,
         user' = [user EXCEPT ![u] = n], rep' = rep, driver' = driver, pipe' = pipe, rows' = rows,
         ~Mid(n.pc), n.pc # "calling", user[u].pc # "rollback"
  PROVE  Serial'
<1>1. OneAtATime' /\ user'[u] = n /\ \A v \in Users \ {u} : user'[v] = user[v]
  BY UserAlone DEF Serial
<1>2. QED
  BY <1>1 DEF Serial, Entered, Fresh, Backed, Undone, Held, Mid, Starting

LEMMA SerialStart ==
  ASSUME Typing, Pairs, Serial, driver = "memory", NEW u \in Users,
         \/ StartRead(u) \/ StartCheck(u) \/ StartCreate(u) \/ StartClaim(u)
         \/ StartClaimSave(u) \/ StartReplied(u) \/ StartFails(u)
         \/ \E t \in {"delete", "load", "save"} : RollbackStep(u, t)
  PROVE  Serial'
<1> USE DEF Goto, Done, LoadRow
<1>0. /\ user[u] \in Handler /\ pipe \in Row /\ rows \in SUBSET Ids
      /\ user[u].pc \in StartPcs => user[u].before.status # "running"
      /\ user[u].pc \in {"claim", "claimSave"} => user[u].id \in rows
      /\ user[u].pc = "rollback" /\ user[u].todo \cap {"load", "save"} = {} => pipe.status # "running"
  BY DEF Typing, TypeOK, Serial, Entered, Backed, Undone, StartPcs, Starting
\* Unless this handler rolls back, no other that could is within a piece.
<1>1. ASSUME Turn(u), user[u].pc # "rollback", pipe.status = "running" PROVE pipe.of \in rows
  <2>1. \A v \in Users \ {u} : ~Mid(user[v].pc)
    BY <1>1, PipelineAssumption DEF Turn, MidSection, Mid
  <2>2. QED
    BY <1>1, <2>1 DEF Serial, Held, Mid
<1>2. CASE StartRead(u)
  <2> DEFINE n == [user[u] EXCEPT !.pc = "check", !.before = pipe]
  <2>1. n.pc = "check" /\ n.before = pipe
    BY <1>0 DEF Handler
  <2>2. /\ user' = [user EXCEPT ![u] = n] /\ Turn(u) /\ pipe' = pipe /\ rows' = rows /\ rep' = rep
        /\ pipe.status # "running" /\ driver' = driver
    BY <1>2 DEF StartRead
  <2> HIDE DEF n
  <2>3. Suits(n, pipe', rows')
    BY <2>1, <2>2 DEF Suits, StartPcs
  <2>4. QED
    BY <2>2, <2>3, UserSerial
<1>3. CASE StartCheck(u)
  <2> DEFINE n == IF user[u].before.of \in rows THEN Idle ELSE [user[u] EXCEPT !.pc = "create"]
  <2>1. n.pc = "idle" \/ (n.pc = "create" /\ n.before = user[u].before)
    BY <1>0 DEF Handler, Idle
  <2>2. /\ user' = [user EXCEPT ![u] = n] /\ Turn(u) /\ pipe' = pipe /\ rows' = rows /\ rep' = rep
        /\ user[u].pc = "check" /\ driver' = driver
    BY <1>0, <1>3 DEF StartCheck
  <2> HIDE DEF n
  <2>3. Suits(n, pipe', rows')
    BY <1>0, <1>1, <2>1, <2>2 DEF Suits, StartPcs
  <2>4. QED
    BY <2>2, <2>3, UserSerial
<1>4. CASE StartCreate(u)
  <2> DEFINE n == [user[u] EXCEPT !.pc = "claim", !.id = created + 1]
  <2>1. n.pc = "claim" /\ n.before = user[u].before /\ n.id = created + 1
    BY <1>0 DEF Handler
  <2>2. /\ user' = [user EXCEPT ![u] = n] /\ Turn(u) /\ pipe' = pipe /\ rep' = rep
        /\ rows' = rows \cup {created + 1} /\ user[u].pc = "create" /\ driver' = driver
    BY <1>4 DEF StartCreate
  <2> HIDE DEF n
  <2>3. Suits(n, pipe', rows')
    BY <1>0, <1>1, <2>1, <2>2 DEF Suits, StartPcs
  <2>4. QED
    BY <2>2, <2>3, UserSerial
<1>5. CASE StartClaim(u)
  <2>1. /\ Turn(u) /\ pipe' = pipe /\ rows' = rows /\ rep' = rep /\ user[u].pc = "claim"
        /\ driver' = driver
    BY <1>5 DEF StartClaim
  <2>2. PICK n : /\ user' = [user EXCEPT ![u] = n] /\ n.pc \in {"calling", "claimSave"}
                /\ n.before = user[u].before /\ n.id = user[u].id
    <3>1. /\ [user[u] EXCEPT !.pc = "calling"].pc = "calling"
          /\ [user[u] EXCEPT !.pc = "calling"].before = user[u].before
          /\ [user[u] EXCEPT !.pc = "calling"].id = user[u].id
          /\ [user[u] EXCEPT !.pc = "claimSave", !.row = pipe].pc = "claimSave"
          /\ [user[u] EXCEPT !.pc = "claimSave", !.row = pipe].before = user[u].before
          /\ [user[u] EXCEPT !.pc = "claimSave", !.row = pipe].id = user[u].id
      BY <1>0 DEF Handler
    <3>2. QED
      BY <1>0, <1>5, <3>1 DEF StartClaim
  <2>3. Suits(n, pipe', rows')
    BY <1>0, <1>1, <2>1, <2>2 DEF Suits, StartPcs
  <2>4. QED
    BY <2>1, <2>2, <2>3, UserSerial
<1>6. CASE StartClaimSave(u)
  <2> DEFINE n == [user[u] EXCEPT !.pc = "calling"]
  <2>1. n.pc = "calling" /\ n.before = user[u].before
    BY <1>0 DEF Handler
  <2>2. /\ user' = [user EXCEPT ![u] = n] /\ Turn(u) /\ rows' = rows /\ rep' = rep
        /\ pipe' = [status |-> "running", of |-> user[u].id] /\ user[u].pc = "claimSave"
        /\ driver' = driver
    BY <1>6 DEF StartClaimSave
  <2> HIDE DEF n
  <2>3. Suits(n, pipe', rows')
    BY <1>0, <2>1, <2>2 DEF Suits, StartPcs
  <2>4. QED
    BY <2>2, <2>3, UserSerial
<1>7. CASE StartReplied(u)
  <2>1. /\ user' = [user EXCEPT ![u] = Idle] /\ rep' = rep /\ driver' = driver /\ pipe' = pipe
        /\ rows' = rows /\ user[u].pc = "calling"
    BY <1>7 DEF StartReplied
  <2>2. Idle.pc = "idle"
    BY DEF Idle
  <2>3. QED
    BY <2>1, <2>2, UserQuiet DEF Mid
<1>8. CASE StartFails(u)
  <2> DEFINE n == [user[u] EXCEPT !.pc = "rollback", !.todo = {"delete", "load"}]
  <2>1. n.pc = "rollback" /\ n.before = user[u].before /\ n.todo = {"delete", "load"}
    BY <1>0 DEF Handler
  <2>2. /\ user' = [user EXCEPT ![u] = n] /\ Turn(u) /\ pipe' = pipe /\ rows' = rows /\ rep' = rep
        /\ user[u].pc = "calling" /\ driver' = driver
    BY <1>8 DEF StartFails
  <2> HIDE DEF n
  <2>3. Suits(n, pipe', rows')
    BY <1>0, <2>1, <2>2 DEF Suits, StartPcs
  <2>4. QED
    BY <2>2, <2>3, UserSerial
<1>9. ASSUME NEW t \in {"delete", "load", "save"}, RollbackStep(u, t) PROVE Serial'
  <2>1. PICK next :
          /\ next = (user[u].todo \ {t}) \cup (IF t = "load" /\ pipe # Gone THEN {"save"} ELSE {})
          /\ user' = [user EXCEPT ![u] = IF next = {} THEN Idle ELSE [user[u] EXCEPT !.todo = next]]
    BY <1>9 DEF RollbackStep
  <2>2. /\ Turn(u) /\ rep' = rep /\ user[u].pc = "rollback" /\ t \in user[u].todo /\ driver' = driver
        /\ pipe' = IF t = "save" THEN user[u].before ELSE pipe
    BY <1>9 DEF RollbackStep
  <2>3. user[u].before.status # "running" /\ Gone.status # "running"
    BY <1>0, <2>2 DEF StartPcs, Gone
  \* Once nothing of the pipeline is left to do, it does not say running.
  <2>4. ASSUME next \cap {"load", "save"} = {} PROVE pipe'.status # "running"
    <3>1. CASE t = "delete"
      BY <1>0, <2>1, <2>2, <2>4, <3>1
    <3>2. CASE t = "load"
      BY <2>1, <2>2, <2>3, <2>4, <3>2
    <3>3. CASE t = "save"
      BY <2>2, <2>3, <3>3
    <3>4. QED
      BY <3>1, <3>2, <3>3
  <2>5. CASE next = {}
    <3>1. user' = [user EXCEPT ![u] = Idle] /\ Idle.pc = "idle"
      BY <2>1, <2>5 DEF Idle
    <3>2. Suits(Idle, pipe', rows')
      BY <2>4, <2>5, <3>1 DEF Suits, StartPcs
    <3>3. QED
      BY <2>2, <3>1, <3>2, UserSerial
  <2>6. CASE next # {}
    <3> DEFINE n == [user[u] EXCEPT !.todo = next]
    <3>1. n.pc = "rollback" /\ n.before = user[u].before /\ n.todo = next
      BY <1>0, <2>2 DEF Handler
    <3>2. user' = [user EXCEPT ![u] = n]
      BY <2>1, <2>6
    <3> HIDE DEF n
    <3>3. Suits(n, pipe', rows')
      BY <2>3, <2>4, <3>1 DEF Suits, StartPcs
    <3>4. QED
      BY <2>2, <3>2, <3>3, UserSerial
  <2>7. QED
    BY <2>5, <2>6
<1>10. QED
  BY <1>2, <1>3, <1>4, <1>5, <1>6, <1>7, <1>8, <1>9

\* What these steps start from: a piece of a handler that does not roll back.
LEMMA PieceFrom ==
  ASSUME Typing, Serial, driver = "memory", NEW u \in Users, Turn(u), user[u].pc # "rollback"
  PROVE  /\ user[u] \in Handler /\ (pipe.status = "running" => pipe.of \in rows)
         /\ user[u].pc = "editSave" => user[u].row = pipe
<1>1. \A v \in Users \ {u} : ~Mid(user[v].pc)
  BY PipelineAssumption DEF Turn, MidSection, Mid
<1>2. QED
  BY <1>1 DEF Serial, Held, Fresh, Mid, Typing, TypeOK

\* repository.update, first half.
LEMMA Loads ==
  ASSUME Typing, Serial, driver = "memory", NEW u \in Users, Turn(u), user[u].pc # "rollback",
         NEW save, NEW skip, LoadRow(u, save, skip), save \notin StartPcs, skip \notin StartPcs,
         skip # "editSave", pipe' = pipe, rows' = rows, rep' = rep, driver' = driver
  PROVE  Serial'
<1> DEFINE n == IF pipe = Gone THEN [user[u] EXCEPT !.pc = skip]
                ELSE [user[u] EXCEPT !.pc = save, !.row = pipe]
<1>1. user[u] \in Handler /\ (pipe.status = "running" => pipe.of \in rows)
  BY PieceFrom
<1>2. n.pc = skip \/ (n.pc = save /\ n.row = pipe)
  BY <1>1 DEF Handler
<1>3. user' = [user EXCEPT ![u] = n]
  BY DEF LoadRow
<1> HIDE DEF n
<1>4. Suits(n, pipe', rows')
  BY <1>1, <1>2 DEF Suits, StartPcs
<1>5. QED
  BY <1>3, <1>4, UserSerial

LEMMA SerialEdit ==
  ASSUME Typing, Serial, driver = "memory", NEW u \in Users,
         \/ EditRead(u) \/ EditLoad(u) \/ EditSave(u) \/ DeleteRead(u) \/ DeleteRow(u)
         \/ StopRead(u) \/ StopFind(u) \/ StopUpdate(u) \/ StopMark(u) \/ StopLoad(u) \/ StopSave(u)
  PROVE  Serial'
<1>1. /\ Turn(u) /\ user[u].pc # "rollback" /\ rep' = rep /\ driver' = driver
  BY DEF EditRead, EditLoad, EditSave, DeleteRead, DeleteRow, StopRead, StopFind, StopUpdate,
         StopMark, StopLoad, StopSave
<1>2. /\ user[u] \in Handler /\ (pipe.status = "running" => pipe.of \in rows)
      /\ user[u].pc = "editSave" => user[u].row = pipe
  BY <1>1, PieceFrom
<1>3. CASE EditLoad(u)
  <2>1. LoadRow(u, "editSave", "idle") /\ pipe' = pipe /\ rows' = rows
    BY <1>3 DEF EditLoad
  <2>2. QED
    BY <1>1, <2>1, Loads DEF StartPcs
<1>4. CASE StopLoad(u)
  <2>1. LoadRow(u, "stopSave", "idle") /\ pipe' = pipe /\ rows' = rows
    BY <1>4 DEF StopLoad
  <2>2. QED
    BY <1>1, <2>1, Loads DEF StartPcs
<1>5. CASE EditSave(u) \/ DeleteRow(u) \/ StopSave(u)
  <2>1. /\ user' = [user EXCEPT ![u] = Idle] /\ rows' = rows
        /\ pipe'.status = "running" => pipe' = pipe
    BY <1>2, <1>5 DEF EditSave, DeleteRow, StopSave, Done, Gone
  <2>2. Suits(Idle, pipe', rows')
    BY <1>2, <2>1 DEF Suits, StartPcs, Idle
  <2>3. QED
    BY <1>1, <2>1, <2>2, UserSerial
<1>6. CASE EditRead(u) \/ DeleteRead(u) \/ StopRead(u) \/ StopFind(u) \/ StopUpdate(u) \/ StopMark(u)
  <2>1. pipe' = pipe /\ rows \subseteq rows'
    BY <1>6 DEF EditRead, DeleteRead, StopRead, StopFind, StopUpdate, StopMark
  <2>2. ASSUME NEW n, user' = [user EXCEPT ![u] = n],
               n.pc \in {"idle", "edit", "delete", "find", "stopping", "mark", "stop"}
        PROVE  Serial'
    <3>1. Suits(n, pipe', rows')
      BY <1>2, <2>1, <2>2 DEF Suits, StartPcs
    <3>2. QED
      BY <1>1, <2>2, <3>1, UserSerial
  <2>3. ASSUME NEW pc \in {"edit", "delete", "stopping", "mark", "stop"}, Goto(u, pc)
        PROVE  Serial'
    <3>1. user' = [user EXCEPT ![u] = [user[u] EXCEPT !.pc = pc]]
      BY <2>3 DEF Goto
    <3>2. [user[u] EXCEPT !.pc = pc].pc = pc
      BY <1>2 DEF Handler
    <3>3. QED
      BY <2>2, <3>1, <3>2
  <2>4. CASE StopRead(u)
    <3>1. user' = [user EXCEPT ![u] = [user[u] EXCEPT !.pc = "find", !.id = pipe.of]]
      BY <2>4 DEF StopRead
    <3>2. [user[u] EXCEPT !.pc = "find", !.id = pipe.of].pc = "find"
      BY <1>2 DEF Handler
    <3>3. QED
      BY <2>2, <3>1, <3>2
  <2>5. CASE StopFind(u)
    <3>1. CASE Goto(u, "stopping")
      BY <2>3, <3>1
    <3>2. CASE Done(u)
      <4>1. user' = [user EXCEPT ![u] = Idle] /\ Idle.pc = "idle"
        BY <3>2 DEF Done, Idle
      <4>2. QED
        BY <2>2, <4>1
    <3>3. QED
      BY <2>5, <3>1, <3>2 DEF StopFind
  <2>6. CASE StopUpdate(u)
    <3>1. Goto(u, "mark") \/ Goto(u, "stop")
      BY <2>6 DEF StopUpdate
    <3>2. QED
      BY <2>3, <3>1
  <2>7. CASE EditRead(u) \/ DeleteRead(u) \/ StopMark(u)
    <3>1. Goto(u, "edit") \/ Goto(u, "delete") \/ Goto(u, "stop")
      BY <2>7 DEF EditRead, DeleteRead, StopMark
    <3>2. QED
      BY <2>3, <3>1
  <2>8. QED
    BY <1>6, <2>4, <2>5, <2>6, <2>7
<1>7. QED
  BY <1>3, <1>4, <1>5, <1>6

LEMMA SerialStop ==
  ASSUME Typing, Serial, driver = "memory", NEW u \in Users, StopArrives(u) \/ StopReply(u)
  PROVE  Serial'
<1>1. /\ rep' = rep /\ driver' = driver /\ pipe' = pipe /\ rows' = rows /\ user[u].pc # "rollback"
      /\ Goto(u, "answered") \/ Goto(u, "waiting")
  BY DEF StopArrives, StopReply
<1>2. PICK pc \in {"answered", "waiting"} : Goto(u, pc)
  BY <1>1
<1> DEFINE n == [user[u] EXCEPT !.pc = pc]
<1>3. n.pc = pc
  BY DEF Typing, TypeOK, Handler
<1>4. user' = [user EXCEPT ![u] = n]
  BY <1>2 DEF Goto
<1> HIDE DEF n
<1>5. ~Mid(n.pc) /\ n.pc # "calling"
  BY <1>3 DEF Mid
<1>6. QED
  BY <1>1, <1>4, <1>5, UserQuiet

-----------------------------------------------------------------------------

\* What is left to show of a piece of a report's handler.
LEMMA ReportSerial ==
  ASSUME Typing, Serial, driver = "memory", NEW m \in Reports, NEW n,
         rep' = [rep EXCEPT ![m] = n], user' = user, driver' = driver, Turn(m),
         rows \subseteq rows', n.pc = "save" => n.row = pipe',
         pipe'.status = "running" => pipe' = pipe
  PROVE  Serial'
<1>1. /\ OneAtATime' /\ rep'[m] = n /\ \A r \in Reports \ {m} : rep'[r] = rep[r]
      /\ \A v \in Users : ~Mid(user[v].pc)
      /\ \A r \in Reports \ {m} : rep[r].pc \in {"free", "sent"}
  BY ReportAlone DEF Serial
<1>2. Entered' /\ Fresh' /\ Backed' /\ Undone' /\ Held'
  BY <1>1 DEF Serial, Entered, Fresh, Backed, Undone, Held, Mid, Starting
<1>3. QED
  BY <1>1, <1>2 DEF Serial

LEMMA SerialReport ==
  ASSUME Typing, Serial, driver = "memory", NEW m \in Reports,
         \/ ReportRead(m) \/ ReportUpdate(m) \/ ReportWrite(m) \/ ReportPipeline(m)
         \/ ReportApply(m) \/ ReportSave(m)
  PROVE  Serial'
<1>1. /\ Turn(m) /\ user' = user /\ driver' = driver /\ rows \subseteq rows' /\ rep[m] \in Report
      /\ rep[m].pc = "save" => rep[m].row = pipe
  BY DEF ReportRead, ReportUpdate, ReportWrite, ReportPipeline, ReportApply, ReportSave,
         Typing, TypeOK, Serial, Fresh
<1>2. ASSUME NEW n, rep' = [rep EXCEPT ![m] = n], n.pc = "save" => n.row = pipe',
             pipe'.status = "running" => pipe' = pipe
      PROVE  Serial'
  BY <1>1, <1>2, ReportSerial
<1>3. Free.pc = "free"
  BY DEF Free
<1>4. CASE ReportSave(m)
  <2>1. rep' = [rep EXCEPT ![m] = Free] /\ (pipe'.status = "running" => pipe' = pipe)
    BY <1>1, <1>4 DEF ReportSave
  <2>2. QED
    BY <1>2, <1>3, <2>1
<1>5. CASE ReportApply(m)
  <2>1. pipe' = pipe
    BY <1>5 DEF ReportApply
  <2>2. /\ [rep[m] EXCEPT !.pc = "save", !.row = pipe].pc = "save"
        /\ [rep[m] EXCEPT !.pc = "save", !.row = pipe].row = pipe
    BY <1>1 DEF Report
  <2>3. CASE pipe = Gone
    <3>1. rep' = [rep EXCEPT ![m] = Free]
      BY <1>5, <2>3 DEF ReportApply
    <3>2. QED
      BY <1>2, <1>3, <2>1, <3>1
  <2>4. CASE pipe # Gone
    <3>1. rep' = [rep EXCEPT ![m] = [rep[m] EXCEPT !.pc = "save", !.row = pipe]]
      BY <1>5, <2>4 DEF ReportApply
    <3>2. QED
      BY <1>2, <2>1, <2>2, <3>1
  <2>5. QED
    BY <2>3, <2>4
<1>6. CASE ReportRead(m) \/ ReportUpdate(m) \/ ReportWrite(m)
  <2>1. pipe' = pipe
    BY <1>6 DEF ReportRead, ReportUpdate, ReportWrite
  <2>2. \/ rep' = [rep EXCEPT ![m] = Free]
        \/ \E pc \in {"update", "write", "react"} : rep' = [rep EXCEPT ![m] = [rep[m] EXCEPT !.pc = pc]]
    BY <1>6 DEF ReportRead, ReportUpdate, ReportWrite
  <2>3. \A pc \in {"update", "write", "react"} : [rep[m] EXCEPT !.pc = pc].pc # "save"
    BY <1>1 DEF Report
  <2>4. QED
    BY <1>2, <1>3, <2>1, <2>2, <2>3
<1>7. CASE ReportPipeline(m)
  <2>1. pipe' = pipe
    BY <1>7 DEF ReportPipeline
  <2> DEFINE n == [rep[m] EXCEPT !.pc = "apply",
                     !.ends = rep[m].status \in Engine!Terminal /\ pipe.status = "running"]
  <2>2. n.pc = "apply"
    BY <1>1 DEF Report
  <2>3. rep' = [rep EXCEPT ![m] = Free] \/ rep' = [rep EXCEPT ![m] = n]
    BY <1>7 DEF ReportPipeline
  <2> HIDE DEF n
  <2>4. QED
    BY <1>2, <1>3, <2>1, <2>2, <2>3
<1>8. QED
  BY <1>4, <1>5, <1>6, <1>7

\* A report on its way belongs to no handler yet, or to the same piece as before.
LEMMA SerialWay ==
  ASSUME Typing, Serial, driver = "memory", NEW m \in Reports,
         GiveUp(m) \/ LoseReport(m) \/ \E i \in Ids : SendReport(m, i)
  PROVE  Serial'
<1>1. /\ user' = user /\ driver' = driver /\ rows' = rows /\ pipe' = pipe /\ rep[m] \in Report
  BY DEF GiveUp, LoseReport, SendReport, Typing, TypeOK
<1>2. PICK n : /\ rep' = [rep EXCEPT ![m] = n]
               /\ n.pc \in {"free", "sent"} \/ (n.pc = rep[m].pc /\ n.row = rep[m].row)
  <2>1. CASE GiveUp(m)
    <3>1. rep' = [rep EXCEPT ![m] = [rep[m] EXCEPT !.awaited = FALSE]]
      BY <2>1 DEF GiveUp
    <3>2. /\ [rep[m] EXCEPT !.awaited = FALSE].pc = rep[m].pc
          /\ [rep[m] EXCEPT !.awaited = FALSE].row = rep[m].row
      BY <1>1 DEF Report
    <3>3. QED
      BY <3>1, <3>2
  <2>2. CASE LoseReport(m)
    <3>1. rep' = [rep EXCEPT ![m] = Free]
      BY <2>2 DEF LoseReport
    <3>2. Free.pc = "free"
      BY DEF Free
    <3>3. QED
      BY <3>1, <3>2
  <2>3. ASSUME NEW i \in Ids, SendReport(m, i)
        PROVE \E n : /\ rep' = [rep EXCEPT ![m] = n]
                     /\ n.pc \in {"free", "sent"} \/ (n.pc = rep[m].pc /\ n.row = rep[m].row)
    <3> DEFINE k == [rep[m] EXCEPT !.pc = "sent", !.id = i, !.status = announced'[i], !.awaited = TRUE]
    <3>1. rep' = [rep EXCEPT ![m] = k]
      BY <2>3 DEF SendReport
    <3>2. k.pc = "sent"
      BY <1>1 DEF Report
    <3> HIDE DEF k
    <3>3. QED
      BY <3>1, <3>2
  <2>4. QED
    BY <2>1, <2>2, <2>3
<1>3. /\ OneAtATime' /\ rep'[m] = n /\ \A r \in Reports \ {m} : rep'[r] = rep[r]
  BY <1>1, <1>2, ReportAlone DEF Serial
<1>4. QED
  BY <1>1, <1>2, <1>3 DEF Serial, Entered, Fresh, Backed, Undone, Held, Starting

LEMMA DriverStays == [Next]_vars => driver' = driver
<1> SUFFICES ASSUME [Next]_vars PROVE driver' = driver
  OBVIOUS
<1>1. ASSUME NEW u \in Users,
             \/ UserStep(u) \/ StartRead(u) \/ StartFails(u) \/ EditRead(u) \/ DeleteRead(u)
             \/ StopRead(u)
      PROVE  driver' = driver
  BY <1>1 DEF UserStep, StartRead, StartFails, EditRead, DeleteRead, StopRead, StartCheck, StartCreate,
     StartClaim, StartClaimSave, StartReplied, RollbackStep, EditLoad, EditSave, DeleteRow, StopFind,
     StopArrives, StopReply, StopUpdate, StopMark, StopLoad, StopSave
<1>2. ASSUME NEW m \in Reports,
             \/ ReportStep(m) \/ GiveUp(m) \/ LoseReport(m) \/ \E i \in Ids : SendReport(m, i)
      PROVE  driver' = driver
  BY <1>2 DEF ReportStep, GiveUp, LoseReport, SendReport, ReportRead, ReportUpdate, ReportWrite,
              ReportPipeline, ReportApply, ReportSave
<1>3. ASSUME NEW i \in Ids,
             EngineAccepts(i) \/ \E s \in {"failed", "stopped"} : EngineSettles(i, s)
      PROVE  driver' = driver
  BY <1>3 DEF EngineAccepts, EngineSettles
<1>4. QED
  BY <1>1, <1>2, <1>3 DEF Next, vars

LEMMA SerialNext == Typing /\ Pairs /\ Serial /\ [Next]_vars => Serial'
<1> SUFFICES ASSUME Typing, Pairs, Serial, [Next]_vars PROVE Serial'
  OBVIOUS
<1>1. CASE driver # "memory"
  <2>1. driver' = driver
    BY DriverStays
  <2>2. QED
    BY <1>1, <2>1 DEF Serial
<1>2. CASE driver = "memory"
  <2>1. ASSUME NEW u \in Users,
               \/ UserStep(u) \/ StartRead(u) \/ StartFails(u) \/ EditRead(u) \/ DeleteRead(u)
               \/ StopRead(u)
        PROVE  Serial'
    BY <1>2, <2>1, SerialStart, SerialEdit, SerialStop DEF UserStep
  <2>2. ASSUME NEW m \in Reports,
               \/ ReportStep(m) \/ GiveUp(m) \/ LoseReport(m) \/ \E i \in Ids : SendReport(m, i)
        PROVE  Serial'
    BY <1>2, <2>2, SerialReport, SerialWay DEF ReportStep
  <2>3. ASSUME NEW i \in Ids,
               EngineAccepts(i) \/ \E s \in {"failed", "stopped"} : EngineSettles(i, s)
        PROVE  Serial'
    BY <2>3 DEF EngineAccepts, EngineSettles, Serial, OneAtATime, MidSection, Entered, Fresh,
                Backed, Undone, Held, Starting
  <2>4. CASE UNCHANGED vars
    BY <2>4 DEF vars, Serial, OneAtATime, MidSection, Entered, Fresh, Backed, Undone, Held, Starting
  <2>5. QED
    BY <2>1, <2>2, <2>3, <2>4 DEF Next
<1>3. QED
  BY <1>1, <1>2

\* CanStop (pipeline.service.js): with the memory driver, once every handler and report is
\* through, a pipeline that says running names an instance row that exists, so a stop is
\* not refused, whatever starts failed and whatever was deleted in between.
THEOREM CanStopHolds == Spec => []CanStop
<1>1. Serial => CanStop
  BY DEF Serial, Held, CanStop, Quiet
<1>2. QED
  BY TypeInit, TypeNext, PairsInit, PairsNext, SerialInit, SerialNext, <1>1, PTL DEF Spec

-----------------------------------------------------------------------------
(* The record tells the truth about its mirror *)

Calm     == driver = "memory" /\ faults = 0 /\ ~raced
StartMid == {"check", "create", "claim", "claimSave"}
StopLate == {"answered", "mark", "stop", "stopSave"}
Serving  == {"waiting"} \cup StopLate
StopPcs  == {"find", "stopping"} \cup Serving

Says(i) == pipe.status = "running" /\ pipe.of = i

\* The engine has something left to do for the instance, or to tell about it.
Open(i) == Live(i) \/ (engine[i] \in Engine!Terminal /\ announced[i] \notin Engine!Terminal)

\* A terminal report that no handler has dealt with yet.
Ending(q) == q.pc # "free" /\ q.status \in Engine!Terminal

\* Only instances with a row come to the engine, each once and with its start waiting.
Known ==
  /\ rows \subseteq 1 .. created /\ pipe.of \in rows \cup {None}
  /\ \A i \in Ids : engine[i] # "absent" => i \in rows
  /\ \A i \in pending : /\ i \in rows /\ engine[i] = "absent"
                        /\ \E u \in Users : user[u].pc = "calling" /\ user[u].id = i
  /\ \A i \in cancelled : engine[i] # "absent"
  /\ \A i \in Ids : announced[i] \in Engine!Terminal => engine[i] \in Engine!Terminal
  /\ \A i \in Ids : engine[i] = "absent" => announced[i] = "nothing"

\* What a user's handler relies on at its point.
Fits(n) ==
  /\ n.pc # "rollback"
  /\ n.pc \in Working => n.id \in rows
  /\ n.pc \in {"claim", "claimSave"} => n.id \notin pending /\ engine[n.id] = "absent"
  /\ n.pc \in StartMid => /\ pipe.status # "running" /\ pipe # Gone
                          /\ \A m \in Reports : ~Ending(rep[m])
  /\ n.pc \in {"edit", "editSave", "delete"} => pipe.status # "running"
  /\ n.pc \in StopPcs /\ pipe.status = "running" => pipe.of = n.id
  /\ n.pc \in StopLate /\ pipe.status = "running" => ~Open(n.id) /\ ~Awaiting(n.id)

\* ... and a report's.
Reported(q) ==
  /\ q.pc = "free" => ~q.awaited
  /\ q.pc # "free" => q.id \in rows /\ engine[q.id] # "absent"
  /\ q.awaited /\ q.status = "running" => engine[q.id] = "running"
  /\ Ending(q) => /\ announced[q.id] \in Engine!Terminal
                  /\ pipe.status = "running" => pipe.of = q.id
                  /\ q.awaited => pipe.status = "running"
                  /\ q.pc \in {"apply", "save"} /\ pipe.status = "running" => q.ends
  /\ q.pc \in {"apply", "save"} /\ q.ends => q.status \in Engine!Terminal

\* The record that names an instance whose end is announced, or that was told to stop, will
\* hear of it.
Told ==
  pipe.status = "running" =>
    /\ pipe.of \in cancelled => \E u \in Users : user[u].id = pipe.of /\ user[u].pc \in Serving
    /\ announced[pipe.of] \in Engine!Terminal =>
         \/ \E m \in Reports : Ending(rep[m]) /\ rep[m].id = pipe.of
         \/ \E u \in Users : user[u].id = pipe.of /\ user[u].pc \in Serving

Truth == Calm =>
  /\ Known /\ Told
  /\ \A u \in Users : Fits(user[u])
  /\ \A m \in Reports : Reported(rep[m])
  /\ \A u, v \in Users : user[u].pc \in StartPcs => user[v].pc \notin StopPcs
  /\ \A m, k \in Reports : Ending(rep[m]) /\ Ending(rep[k]) /\ rep[m].id = rep[k].id => m = k
  /\ \A i \in Ids : Open(i) => Says(i)

\* A step of a user's handler that leaves the record and the engine alone.
LEMMA TruthUser ==
  ASSUME Typing, Truth, Calm, NEW u \in Users, NEW n, user' = [user EXCEPT ![u] = n],
         UNCHANGED <<pipe, pending, engine, announced, rep>>, rows \subseteq rows', rows' \subseteq 1 .. created',
         \/ cancelled' = cancelled
         \/ /\ n.pc = "waiting" /\ cancelled' = cancelled \cup {n.id} /\ engine[n.id] # "absent",
         Fits(n)',
         \A v \in Users \ {u} : /\ n.pc \in StartPcs => user[v].pc \notin StopPcs
                                /\ n.pc \in StopPcs => user[v].pc \notin StartPcs,
         user[u].pc = "calling" => user[u].id \notin pending,
         user[u].pc \in Serving /\ pipe.status = "running" => n.pc \in Serving /\ n.id = user[u].id
  PROVE  Truth'
<1>1. user'[u] = n /\ \A v \in Users \ {u} : user'[v] = user[v]
  BY DEF Typing, TypeOK
<1>2. Known'
  <2>1. \A i \in pending : \E v \in Users : user'[v].pc = "calling" /\ user'[v].id = i
    BY <1>1 DEF Truth, Known
  <2>2. QED
    BY <2>1 DEF Truth, Known
<1>3. Told'
  <2>1. ASSUME pipe.status = "running", NEW v \in Users, user[v].id = pipe.of, user[v].pc \in Serving
        PROVE  \E w \in Users : user'[w].id = pipe.of /\ user'[w].pc \in Serving
    BY <1>1, <2>1
  <2>2. ASSUME pipe.status = "running", pipe.of \in cancelled'
        PROVE  \E w \in Users : user'[w].id = pipe.of /\ user'[w].pc \in Serving
    <3>1. CASE pipe.of \in cancelled
      BY <2>1, <2>2, <3>1 DEF Truth, Told
    <3>2. CASE pipe.of \notin cancelled
      BY <1>1, <2>2, <3>2 DEF Serving
    <3>3. QED
      BY <3>1, <3>2
  <2>3. QED
    BY <2>1, <2>2 DEF Truth, Told, Ending
<1>4. \A i : (Open(i)' <=> Open(i)) /\ (Awaiting(i)' <=> Awaiting(i))
  BY DEF Open, Live, Awaiting
<1>5. \A v \in Users : Fits(user[v])'
  <2>1. ASSUME NEW v \in Users \ {u} PROVE Fits(user[v])'
    <3>1. PICK q : q = user[v]
      OBVIOUS
    <3>2. Fits(q)'
      BY <1>4, <3>1 DEF Truth, Fits, Ending
    <3>3. user'[v] = q
      BY <1>1, <3>1
    <3>4. QED
      BY <1>4, <3>2, <3>3 DEF Fits
  <2>2. Fits(user[u])'
    BY <1>1, <1>4 DEF Fits
  <2>3. QED
    BY <2>1, <2>2
<1>6. \A m \in Reports : Reported(rep[m])'
  BY DEF Truth, Reported, Ending
<1>7. \A v, w \in Users : user'[v].pc \in StartPcs => user'[w].pc \notin StopPcs
  <2>1. n.pc \in StartPcs => n.pc \notin StopPcs
    BY DEF StartPcs, StopPcs, Serving, StopLate
  <2>2. QED
    BY <1>1, <2>1 DEF Truth
<1>8. QED
  BY <1>2, <1>3, <1>4, <1>5, <1>6, <1>7 DEF Truth, Says, Ending

\* The pipeline is stopped or deleted when the engine has nothing left to do for it.
LEMMA TruthEnds ==
  ASSUME Typing, Truth, Calm, pipe' \in {Gone, Stopped},
         UNCHANGED <<rows, created, pending, cancelled, engine, announced>>,
         \A i \in Ids : ~Open(i),
         \A v \in Users : user'[v] = Idle \/ (user'[v] = user[v] /\ user[v].pc \notin StartMid),
         \A v \in Users : user[v].pc = "calling" => user'[v] = user[v],
         \A m \in Reports : rep'[m] = Free \/ (rep'[m] = rep[m] /\ ~(Ending(rep[m]) /\ rep[m].awaited))
  PROVE  Truth'
<1>1. /\ pipe'.status # "running" /\ pipe'.of = None
      /\ Idle.pc = "idle" /\ Free.pc = "free" /\ Free.awaited = FALSE
  BY DEF Gone, Stopped, Idle, Free
<1>2. Known'
  BY <1>1 DEF Truth, Known
<1>3. Told'
  BY <1>1 DEF Told
<1>4. \A v \in Users : Fits(user[v])'
  BY <1>1 DEF Truth, Fits, Working, StartMid, StopLate, StopPcs, Serving
<1>5. \A m \in Reports : Reported(rep[m])'
  BY <1>1 DEF Truth, Reported, Ending
<1>6. \A i \in Ids : ~Open(i)'
  BY DEF Open, Live
<1>7. \A v, w \in Users : user'[v].pc \in StartPcs => user'[w].pc \notin StopPcs
  BY <1>1 DEF Truth, StartPcs, StopPcs, Serving, StopLate
<1>8. \A m, k \in Reports : Ending(rep[m])' /\ Ending(rep[k])' /\ rep'[m].id = rep'[k].id => m = k
  BY <1>1 DEF Truth, Ending
<1>9. QED
  BY <1>2, <1>3, <1>4, <1>5, <1>6, <1>7, <1>8 DEF Truth, Ending

\* A step of a report on its way or of its handler that leaves the record alone.
LEMMA TruthReport ==
  ASSUME Typing, Truth, Calm, NEW m \in Reports, NEW n, rep' = [rep EXCEPT ![m] = n],
         UNCHANGED <<pipe, rows, created, pending, cancelled, engine, announced, user>>,
         Reported(n),
         n.pc # "free" => rep[m].pc # "free" /\ n.id = rep[m].id /\ n.status = rep[m].status,
         n.awaited => rep[m].awaited,
         n.pc = "free" /\ Ending(rep[m]) => pipe.status # "running" \/ rep[m].id \in cancelled
  PROVE  Truth'
<1>1. rep'[m] = n /\ \A k \in Reports \ {m} : rep'[k] = rep[k]
  BY DEF Typing, TypeOK
<1>2. Known'
  BY DEF Truth, Known
<1>3. \A k \in Reports : Ending(rep[k])' => Ending(rep[k]) /\ rep'[k].id = rep[k].id
  BY <1>1 DEF Ending
<1>4. Told'
  <2>1. ASSUME pipe.status = "running", announced[pipe.of] \in Engine!Terminal,
               ~\E v \in Users : user[v].id = pipe.of /\ user[v].pc \in Serving
        PROVE  \E k \in Reports : rep'[k].pc # "free" /\ rep'[k].status \in Engine!Terminal /\ rep'[k].id = pipe.of
    <3>1. PICK k \in Reports : Ending(rep[k]) /\ rep[k].id = pipe.of
      BY <2>1 DEF Truth, Told
    <3>2. pipe.of \notin cancelled
      BY <2>1 DEF Truth, Told
    <3>3. QED
      BY <1>1, <2>1, <3>1, <3>2 DEF Ending
  <2>2. QED
    BY <2>1 DEF Truth, Told, Ending
<1>5. \A i : (Open(i)' <=> Open(i)) /\ (Awaiting(i)' => Awaiting(i))
  <2>1. \A k \in Reports : rep'[k].awaited => rep[k].awaited /\ rep'[k].id = rep[k].id
    BY <1>1 DEF Reported
  <2>2. QED
    BY <2>1 DEF Open, Live, Awaiting
<1>6. \A v \in Users : Fits(user[v])'
  <2> SUFFICES ASSUME NEW v \in Users PROVE Fits(user[v])'
    OBVIOUS
  <2>1. PICK q : q = user[v]
    OBVIOUS
  <2>2. Fits(q)'
    BY <1>3, <1>5, <2>1 DEF Truth, Fits
  <2>3. QED
    BY <1>5, <2>1, <2>2 DEF Fits
<1>7. \A k \in Reports : Reported(rep[k])'
  BY <1>1 DEF Truth, Reported, Ending
<1>8. QED
  BY <1>2, <1>3, <1>4, <1>5, <1>6, <1>7 DEF Truth, Says

LEMMA TruthSends ==
  ASSUME Typing, Truth, Calm, NEW m \in Reports, NEW i \in Ids, SendReport(m, i) PROVE Truth'
<1>1. /\ rep[m] \in Report /\ rep \in [Reports -> Report] /\ announced \in [Ids -> Engine!Announces]
      /\ pipe \in Row
  BY DEF Typing, TypeOK
<1>2. PICK x : /\ announced' = [announced EXCEPT ![i] = x] /\ announced[i] \notin Engine!Terminal
               /\ \/ x = "running" /\ engine[i] = "running"
                  \/ x = engine[i] /\ engine[i] \in Engine!Terminal
  BY DEF SendReport, Engine!Progress, Engine!Announce, Truth, Known, Engine!Terminal
<1> DEFINE n == [rep[m] EXCEPT !.pc = "sent", !.id = i, !.status = x, !.awaited = TRUE]
<1>3. /\ rep' = [rep EXCEPT ![m] = n] /\ rep[m].pc = "free" /\ ~Awaiting(i)
      /\ UNCHANGED <<pipe, rows, created, pending, cancelled, engine, user>>
  <2>1. announced'[i] = x
    BY <1>1, <1>2
  <2>2. QED
    BY <2>1 DEF SendReport, Engine!Progress, Engine!Announce
<1>4. n.pc = "sent" /\ n.id = i /\ n.status = x /\ n.awaited = TRUE
  BY <1>1 DEF Report
<1> HIDE DEF n
<1>5. /\ rep'[m] = n /\ \A k \in Reports \ {m} : rep'[k] = rep[k]
      /\ announced'[i] = x /\ \A j \in Ids \ {i} : announced'[j] = announced[j]
  BY <1>1, <1>2, <1>3
<1>6. /\ i \in rows /\ engine[i] # "absent" /\ x # "nothing"
      /\ Open(i) /\ pipe.status = "running" /\ pipe.of = i
  BY <1>2 DEF Truth, Known, Open, Live, Says, Engine!Terminal
<1>7. \A k \in Reports : Ending(rep[k]) => rep[k].id # i
  BY <1>2 DEF Truth, Reported
<1>8. Known'
  BY <1>2, <1>3, <1>5, <1>6 DEF Truth, Known, Engine!Terminal
<1>9. Told'
  <2>1. x \in Engine!Terminal => Ending(rep[m])' /\ rep'[m].id = i
    BY <1>4, <1>5 DEF Ending
  <2>2. announced'[pipe.of] = x
    BY <1>5, <1>6
  <2>3. i \in cancelled => \E u \in Users : user[u].id = i /\ user[u].pc \in Serving
    BY <1>6 DEF Truth, Told
  <2>4. x \in Engine!Terminal => \E k \in Reports : Ending(rep[k])' /\ rep'[k].id = i
    BY <2>1
  <2>5. QED
    BY <1>3, <1>6, <2>2, <2>3, <2>4 DEF Told, Ending
<1>10. \A j \in Ids : Open(j)' => Open(j)
  BY <1>2, <1>3, <1>5 DEF Open, Live
<1>11. \A v \in Users : user[v].pc \notin StopLate /\ user[v].pc \notin StartMid
  BY <1>6, <1>3 DEF Truth, Fits, StopPcs, Serving
<1>12. \A v \in Users : Fits(user[v])'
  <2> SUFFICES ASSUME NEW v \in Users PROVE Fits(user[v])'
    OBVIOUS
  <2>1. PICK q : q = user[v]
    OBVIOUS
  <2>2. Fits(q)'
    BY <1>3, <1>11, <2>1 DEF Truth, Fits
  <2>3. q.pc \notin StopLate /\ q.pc \notin StartMid /\ user'[v] = q
    BY <1>3, <1>11, <2>1
  <2>4. QED
    BY <2>2, <2>3 DEF Fits
<1>13. \A k \in Reports : Reported(rep[k])'
  <2>1. Reported(rep[m])'
    BY <1>2, <1>3, <1>4, <1>5, <1>6 DEF Reported, Ending, Engine!Terminal
  <2>2. ASSUME NEW k \in Reports \ {m} PROVE Reported(rep[k])'
    <3>1. Ending(rep[k]) => announced'[rep[k].id] \in Engine!Terminal
      <4>1. rep[k].pc # "free" => rep[k].id \in Ids
        BY DEF Typing, Named
      <4>2. QED
        BY <1>5, <1>7, <4>1 DEF Truth, Reported, Ending
    <3>2. QED
      BY <1>3, <1>5, <3>1 DEF Truth, Reported, Ending
  <2>3. QED
    BY <2>1, <2>2
<1>14. \A k, l \in Reports : Ending(rep[k])' /\ Ending(rep[l])' /\ rep'[k].id = rep'[l].id => k = l
  BY <1>4, <1>5, <1>7 DEF Truth, Ending
<1>15. QED
  BY <1>3, <1>8, <1>9, <1>10, <1>12, <1>13, <1>14 DEF Truth, Says

LEMMA TruthEngine ==
  ASSUME Typing, Pairs, Truth, Calm, NEW i \in Ids,
         EngineAccepts(i) \/ \E s \in {"failed", "stopped"} : EngineSettles(i, s)
  PROVE  Truth'
<1>1. /\ engine \in [Ids -> Engine!States] /\ pending \subseteq Ids
      /\ UNCHANGED <<pipe, rows, created, cancelled, announced, user, rep>>
  BY DEF EngineAccepts, EngineSettles, Engine!Accept, Engine!Settle, Typing, TypeOK
<1>2. PICK e : /\ engine' = [engine EXCEPT ![i] = e] /\ e # "absent"
               /\ \/ engine[i] = "absent" /\ e = "running" /\ i \in pending /\ pending' = pending \ {i}
                  \/ /\ engine[i] = "running" /\ e \in Engine!Terminal /\ pending' = pending
                     /\ ~Awaiting(i)
  BY DEF EngineAccepts, EngineSettles, Engine!Accept, Engine!Settle, Engine!Terminal
<1>3. engine'[i] = e /\ \A j \in Ids \ {i} : engine'[j] = engine[j]
  BY <1>1, <1>2
<1>4. i \in rows /\ announced[i] \notin Engine!Terminal
  BY <1>2 DEF Truth, Known, Engine!Terminal
<1>5. Known'
  BY <1>1, <1>2, <1>3, <1>4 DEF Truth, Known, Engine!Terminal
<1>6. Told'
  BY <1>1 DEF Truth, Told, Ending
<1>7. \A j \in Ids : Open(j)' => Open(j)
  BY <1>1, <1>2, <1>3 DEF Open, Live, Engine!Terminal
<1>8. \A v \in Users : Fits(user[v])'
  <2> SUFFICES ASSUME NEW v \in Users PROVE Fits(user[v])'
    OBVIOUS
  <2>1. PICK q : q = user[v]
    OBVIOUS
  <2>2. q.pc \in Working => q.id \in Ids
    BY <2>1 DEF Typing, Named
  \* The start of an instance that is served is not at its claim.
  <2>3. q.pc \in {"claim", "claimSave"} => q.id # i
    BY <1>2, <2>1 DEF Truth, Fits
  <2>4. q.pc \in {"claim", "claimSave"} => q.id \notin pending' /\ engine'[q.id] = "absent"
    BY <1>2, <1>3, <2>1, <2>2, <2>3 DEF Truth, Fits, Working
  <2>5. Awaiting(q.id)' => Awaiting(q.id)
    BY <1>1 DEF Awaiting
  <2>6. q.pc \in StopLate /\ pipe.status = "running" => ~Open(q.id)' /\ ~Awaiting(q.id)'
    <3>1. ASSUME q.pc \in StopLate, pipe.status = "running" PROVE q.id \in Ids
      <4>1. pipe.of \in Ids
        BY <3>1 DEF Pairs, Agree, Typing, TypeOK, Row
      <4>2. pipe.of = q.id
        BY <2>1, <3>1 DEF Truth, Fits, StopPcs, Serving
      <4>3. QED
        BY <4>1, <4>2
    <3>2. QED
      BY <1>7, <2>1, <2>5, <3>1 DEF Truth, Fits
  <2>7. user'[v] = q
    BY <1>1, <2>1
  <2>8. QED
    BY <1>1, <2>1, <2>4, <2>6, <2>7 DEF Truth, Fits, Ending
<1>9. \A m \in Reports : Reported(rep[m])'
  <2> SUFFICES ASSUME NEW m \in Reports PROVE Reported(rep[m])'
    OBVIOUS
  <2>1. rep[m].awaited /\ rep[m].status = "running" => engine'[rep[m].id] = "running"
    <3>1. rep[m].awaited => rep[m].pc # "free"
      BY DEF Truth, Reported
    <3>2. rep[m].awaited => rep[m].id \in Ids
      BY <3>1 DEF Typing, Named
    <3>3. rep[m].awaited /\ rep[m].status = "running" /\ rep[m].id = i => FALSE
      BY <1>2 DEF Truth, Reported, Awaiting
    <3>4. QED
      BY <1>3, <3>2, <3>3 DEF Truth, Reported
  <2>2. rep[m].pc # "free" => engine'[rep[m].id] # "absent"
    BY <1>2, <1>3 DEF Truth, Reported, Typing, Named
  <2>3. QED
    BY <1>1, <2>1, <2>2 DEF Truth, Reported, Ending
<1>10. QED
  BY <1>1, <1>5, <1>6, <1>7, <1>8, <1>9 DEF Truth, Says, Ending

LEMMA CalmStays == Typing /\ [Next]_vars /\ Calm' => Calm
<1> SUFFICES ASSUME Typing, [Next]_vars, Calm' PROVE Calm
  OBVIOUS
<1>1. driver' = driver
  BY DriverStays
<1>2. (faults' = faults \/ Fault) /\ (raced' = raced \/ raced' = TRUE \/ \E b : raced' = (raced \/ b))
  BY DEF Next, UserStep, StartRead, StartFails, EditRead, DeleteRead, StopRead, StartCheck, StartCreate,
     StartClaim, StartClaimSave, StartReplied, RollbackStep, EditLoad, EditSave, DeleteRow, StopFind,
     StopArrives, StopReply, StopUpdate, StopMark, StopLoad, StopSave, ReportStep, GiveUp, LoseReport,
     SendReport, ReportRead, ReportUpdate, ReportWrite, ReportPipeline, ReportApply, ReportSave,
     EngineAccepts, EngineSettles, vars
<1>3. Fault => faults' # 0
  BY PipelineAssumption DEF Fault, Typing, TypeOK
<1>4. faults = 0
  BY <1>2, <1>3 DEF Calm
<1>5. ~raced
  BY <1>2 DEF Calm
<1>6. QED
  BY <1>1, <1>4, <1>5 DEF Calm

\* While a user's handler has the turn, no other handler is within a piece; every handler fits.
LEMMA UserTurn ==
  ASSUME Typing, Serial, Truth, Calm, NEW u \in Users
  PROVE  /\ Turn(u) => /\ \A v \in Users \ {u} : ~Mid(user[v].pc)
                       /\ \A m \in Reports : rep[m].pc \in {"free", "sent"}
         /\ user[u] \in Handler /\ Fits(user[u]) /\ pipe \in Row /\ rows \subseteq 1 .. created
         /\ Idle.pc = "idle"
  BY PipelineAssumption DEF Turn, MidSection, Mid, Calm, Truth, Known, Typing, TypeOK, Idle

\* An idle handler fits anywhere.
LEMMA IdleFits == ASSUME NEW n, n.pc = "idle" PROVE Fits(n) /\ Fits(n)' /\ n.pc \notin StartPcs \cup StopPcs
  BY DEF Fits, Working, StartMid, StopLate, StopPcs, Serving, StartPcs

LEMMA TruthStart ==
  ASSUME Typing, Pairs, Serial, Truth, Calm, Calm', NEW u \in Users,
         \/ StartRead(u) \/ StartCheck(u) \/ StartCreate(u) \/ StartClaim(u)
         \/ StartClaimSave(u) \/ StartReplied(u) \/ StartFails(u)
         \/ \E t \in {"delete", "load", "save"} : RollbackStep(u, t)
  PROVE  Truth'
<1> USE DEF Goto, Done, LoadRow, linkVars, engineVars
<1>0. /\ Turn(u) => /\ \A v \in Users \ {u} : ~Mid(user[v].pc)
                    /\ \A m \in Reports : rep[m].pc \in {"free", "sent"}
      /\ user[u] \in Handler /\ Fits(user[u]) /\ pipe \in Row /\ rows \subseteq 1 .. created
      /\ Idle.pc = "idle"
  BY UserTurn
\* Without a fault, no start rolls back.
<1>1. CASE StartFails(u) \/ \E t \in {"delete", "load", "save"} : RollbackStep(u, t)
  BY <1>0, <1>1 DEF StartFails, Fault, Calm, RollbackStep, Fits
<1>2. CASE StartReplied(u) \/ (StartCheck(u) /\ Done(u))
  <2>1. /\ user' = [user EXCEPT ![u] = Idle] /\ user[u].pc \in {"calling", "check"}
        /\ UNCHANGED <<pipe, pending, engine, announced, rep, rows, created, cancelled>>
        /\ user[u].pc = "calling" => user[u].id \notin pending
    BY <1>2 DEF StartReplied, StartCheck
  <2>2. Fits(Idle)'
    BY <1>0, IdleFits
  <2>3. QED
    BY <1>0, <2>1, <2>2, IdleFits, TruthUser DEF Serving, StopLate
<1>3. CASE StartRead(u)
  <2>0. PICK n : n = [user[u] EXCEPT !.pc = "check", !.before = pipe]
    OBVIOUS
  <2>1. n.pc = "check"
    BY <2>0, <1>0 DEF Handler
  <2>2. /\ user' = [user EXCEPT ![u] = n] /\ user[u].pc = "idle" /\ pipe # Gone /\ pipe.status # "running"
        /\ UNCHANGED <<pipe, pending, engine, announced, rep, rows, created, cancelled>>
    BY <2>0, <1>3 DEF StartRead
  \* Nobody stops, and no report of a run is left that the engine gave up.
  <2>3. /\ \A v \in Users : ~Stopping(v) /\ \A m \in Reports : rep[m].pc = "free" \/ rep[m].awaited
    BY <1>3 DEF StartRead, Calm
  <2>4. \A v \in Users : user[v].pc \notin StopPcs
    BY <2>3 DEF Stopping, StopPcs, Serving, StopLate
  <2>5. \A m \in Reports : ~Ending(rep[m])
    BY <2>2, <2>3 DEF Truth, Reported, Ending
  <2>6. Fits(n)'
    BY <2>1, <2>2, <2>5 DEF Fits, Working, StopPcs, Serving, StopLate, Ending
  <2>7. QED
    BY <1>0, <2>1, <2>2, <2>4, <2>6, TruthUser DEF Serving, StopLate, StopPcs
<1>4. CASE StartCheck(u) /\ Goto(u, "create")
  <2>0. PICK n : n = [user[u] EXCEPT !.pc = "create"]
    OBVIOUS
  <2>1. n.pc = "create"
    BY <2>0, <1>0 DEF Handler
  <2>2. /\ user' = [user EXCEPT ![u] = n] /\ user[u].pc = "check"
        /\ UNCHANGED <<pipe, pending, engine, announced, rep, rows, created, cancelled>>
    BY <2>0, <1>4 DEF StartCheck
  <2>3. Fits(n)'
    BY <1>0, <2>1, <2>2 DEF Fits, Working, StartMid, StopPcs, Serving, StopLate, Ending
  <2>4. \A v \in Users : user[v].pc \notin StopPcs
    BY <2>2 DEF Truth, StartPcs
  <2>5. QED
    BY <1>0, <2>1, <2>2, <2>3, <2>4, TruthUser DEF Serving, StopLate, StopPcs
<1>5. CASE StartCreate(u)
  <2>0. PICK n : n = [user[u] EXCEPT !.pc = "claim", !.id = created + 1]
    OBVIOUS
  <2>1. created \in Nat /\ created' = created + 1 /\ user[u].pc = "create"
    BY <2>0, <1>5, PipelineAssumption DEF StartCreate, Typing, TypeOK
  <2>2. n.pc = "claim" /\ n.id = created + 1
    BY <2>0, <1>0 DEF Handler
  <2>3. /\ user' = [user EXCEPT ![u] = n] /\ rows' = rows \cup {created + 1}
        /\ UNCHANGED <<pipe, pending, engine, announced, rep, cancelled>>
    BY <2>0, <1>5 DEF StartCreate
  <2>4. created + 1 \notin rows /\ rows' \subseteq 1 .. created'
    <3>1. created \in Nat
      BY <2>1
    <3>2. /\ \A r \in 1 .. created : r \in 1 .. (created + 1) /\ r # created + 1
          /\ created + 1 \in 1 .. (created + 1)
      BY <3>1
    <3>3. rows \subseteq 1 .. created
      BY <1>0
    <3>4. QED
      BY <2>1, <2>3, <3>2, <3>3
  <2>5. created + 1 \notin pending
    BY <2>4 DEF Truth, Known
  <2>6. created + 1 \in Ids
    <3>1. Typing'
      BY <1>5, TypeStart
    <3>2. created' \in 0 .. MaxInstances
      BY <3>1 DEF Typing, TypeOK
    <3>3. QED
      BY <2>1, <3>2, PipelineAssumption DEF Ids
  <2>7. engine[created + 1] = "absent"
    BY <2>4, <2>6 DEF Truth, Known
  <2>8. Fits(n)'
    BY <1>0, <2>1, <2>2, <2>3, <2>5, <2>7 DEF Fits, Working, StartMid, StopPcs, Serving, StopLate, Ending
  <2>9. \A v \in Users : user[v].pc \notin StopPcs
    BY <2>1 DEF Truth, StartPcs
  <2>10. QED
    BY <1>0, <2>1, <2>2, <2>3, <2>4, <2>8, <2>9, TruthUser DEF Serving, StopLate, StopPcs
<1>6. CASE StartClaim(u)
  <2>0. PICK n : n = [user[u] EXCEPT !.pc = "claimSave", !.row = pipe]
    OBVIOUS
  <2>1. n.pc = "claimSave" /\ n.id = user[u].id
    BY <2>0, <1>0 DEF Handler
  <2>2. user[u].pc = "claim" /\ pipe # Gone
    BY <2>0, <1>0, <1>6 DEF StartClaim, Fits, StartMid
  <2>3. /\ user' = [user EXCEPT ![u] = n]
        /\ UNCHANGED <<pipe, pending, engine, announced, rep, rows, created, cancelled>>
    BY <2>0, <1>6, <2>2 DEF StartClaim
  <2>4. Fits(n)'
    BY <1>0, <2>1, <2>2, <2>3 DEF Fits, Working, StartMid, StopPcs, Serving, StopLate, Ending
  <2>5. \A v \in Users : user[v].pc \notin StopPcs
    BY <2>2 DEF Truth, StartPcs
  <2>6. QED
    BY <1>0, <2>1, <2>2, <2>3, <2>4, <2>5, TruthUser DEF Serving, StopLate, StopPcs
<1>7. CASE StartClaimSave(u)
  <2>0. PICK n : n = [user[u] EXCEPT !.pc = "calling"]
    OBVIOUS
  <2>1. n.pc = "calling" /\ n.id = user[u].id
    BY <2>0, <1>0 DEF Handler
  <2>2. PICK i : i = user[u].id
    OBVIOUS
  <2>3. /\ user' = [user EXCEPT ![u] = n] /\ user[u].pc = "claimSave" /\ Turn(u)
        /\ pipe' = [status |-> "running", of |-> i] /\ pending' = pending \cup {i}
        /\ UNCHANGED <<engine, announced, rep, rows, created, cancelled>>
    BY <2>0, <1>7, <2>2 DEF StartClaimSave
  <2>4. /\ i \in rows /\ i \notin pending /\ engine[i] = "absent" /\ i \in Ids
        /\ pipe.status # "running" /\ \A m \in Reports : ~Ending(rep[m])
    BY <1>0, <2>2, <2>3 DEF Fits, Working, StartMid, Typing, TypeOK
  <2>5. /\ user'[u].pc = "calling" /\ user'[u].id = i
        /\ \A v \in Users \ {u} : user'[v] = user[v] /\ ~Mid(user[v].pc)
        /\ \A v \in Users : user[v].pc \notin StopPcs
    BY <1>0, <2>1, <2>2, <2>3 DEF Typing, TypeOK, Truth, StartPcs
  <2>6. pipe'.status = "running" /\ pipe'.of = i
    BY <2>3
  <2>7. Known'
    <3>1. \A j \in pending' : \E v \in Users : user'[v].pc = "calling" /\ user'[v].id = j
      BY <2>3, <2>5 DEF Truth, Known
    <3>2. QED
      BY <2>3, <2>4, <2>6, <3>1 DEF Truth, Known
  <2>8. i \notin cancelled /\ announced[i] \notin Engine!Terminal
    BY <2>4 DEF Truth, Known, Engine!Terminal
  <2>9. Told'
    BY <2>3, <2>6, <2>8 DEF Told
  <2>10. \A v \in Users : Fits(user[v])'
    <3>1. ASSUME NEW v \in Users PROVE user'[v].pc \in {"idle", "calling"} /\ (user'[v].pc = "calling" => user'[v].id \in rows)
      BY <2>4, <2>5 DEF Truth, Fits, Working, Mid, StopPcs, Serving, StopLate
    <3>2. QED
      BY <2>3, <3>1 DEF Fits, Working, StartMid, StopLate, StopPcs, Serving
  <2>11. \A m \in Reports : Reported(rep[m])'
    BY <2>3, <2>4 DEF Truth, Reported, Ending
  <2>12. \A j \in Ids : ~Open(j)
    BY <2>4 DEF Truth, Says
  <2>13. \A j \in Ids : Open(j)' => j = i
    BY <2>3, <2>12 DEF Open, Live
  <2>14. \A v, w \in Users : user'[v].pc \in StartPcs => user'[w].pc \notin StopPcs
    BY <2>5 DEF StopPcs, Serving, StopLate
  <2>15. QED
    BY <2>3, <2>4, <2>6, <2>7, <2>9, <2>10, <2>11, <2>13, <2>14 DEF Truth, Says, Ending
<1>8. QED
  BY <1>1, <1>2, <1>3, <1>4, <1>5, <1>6, <1>7 DEF StartCheck

LEMMA TruthStop ==
  ASSUME Typing, Pairs, Serial, Truth, Calm, Calm', NEW u \in Users,
         \/ EditRead(u) \/ EditLoad(u) \/ EditSave(u) \/ DeleteRead(u) \/ DeleteRow(u)
         \/ StopRead(u) \/ StopFind(u) \/ StopArrives(u) \/ StopReply(u) \/ StopUpdate(u)
         \/ StopMark(u) \/ StopLoad(u) \/ StopSave(u)
  PROVE  Truth'
<1> USE DEF Goto, Done, LoadRow, linkVars, engineVars
<1>0. /\ Turn(u) => /\ \A v \in Users \ {u} : ~Mid(user[v].pc)
                    /\ \A m \in Reports : rep[m].pc \in {"free", "sent"}
      /\ user[u] \in Handler /\ Fits(user[u]) /\ pipe \in Row /\ rows \subseteq 1 .. created
      /\ Idle.pc = "idle"
  BY UserTurn
\* No handler that stops the pipeline, and no start while one does.
<1>1. user[u].pc \in StopPcs => \A v \in Users : user[v].pc \notin StartPcs
  BY DEF Truth
<1>2. ASSUME UNCHANGED <<pipe, pending, engine, announced, rep, rows, created, cancelled>>,
             NEW n, user' = [user EXCEPT ![u] = n], Fits(n)',
             n.pc \in {"idle", "edit", "editSave", "delete"} \/ (n.pc \in StopPcs /\ user[u].pc \in StopPcs),
             user[u].pc # "calling",
             user[u].pc \in Serving /\ pipe.status = "running" => n.pc \in Serving /\ n.id = user[u].id
      PROVE  Truth'
  <2>1. n.pc \notin StartPcs
    BY <1>2 DEF StartPcs, StopPcs, Serving, StopLate
  <2>2. n.pc \in StopPcs => user[u].pc \in StopPcs
    BY <1>2 DEF StopPcs, Serving, StopLate
  <2>3. QED
    BY <1>0, <1>1, <1>2, <2>1, <2>2, TruthUser
<1>3. CASE EditRead(u) \/ DeleteRead(u)
  <2>1. PICK pc \in {"edit", "delete"} : user' = [user EXCEPT ![u] = [user[u] EXCEPT !.pc = pc]]
    BY <1>3 DEF EditRead, DeleteRead
  <2>0. PICK n : n = [user[u] EXCEPT !.pc = pc]
    OBVIOUS
  <2>2. n.pc = pc /\ user' = [user EXCEPT ![u] = n]
    BY <2>0, <1>0, <2>1 DEF Handler
  <2>3. /\ UNCHANGED <<pipe, pending, engine, announced, rep, rows, created, cancelled>>
        /\ pipe.status # "running" /\ user[u].pc = "idle"
    BY <2>0, <1>3 DEF EditRead, DeleteRead
  <2>4. Fits(n)'
    BY <2>2, <2>3 DEF Fits, Working, StartMid, StopPcs, Serving, StopLate
  <2>5. QED
    BY <1>2, <2>2, <2>3, <2>4 DEF Serving, StopLate
<1>4. CASE EditLoad(u)
  <2>0. PICK n : n = [user[u] EXCEPT !.pc = "editSave", !.row = pipe]
    OBVIOUS
  <2>20. PICK k : k = [user[u] EXCEPT !.pc = "idle"]
    OBVIOUS
  <2>1. n.pc = "editSave" /\ k.pc = "idle"
    BY <2>0, <2>20, <1>0 DEF Handler
  <2>2. /\ user' = [user EXCEPT ![u] = n] \/ user' = [user EXCEPT ![u] = k]
        /\ UNCHANGED <<pipe, pending, engine, announced, rep, rows, created, cancelled>> /\ user[u].pc = "edit"
    BY <2>0, <2>20, <1>4 DEF EditLoad
  <2>3. Fits(n)' /\ Fits(k)'
    BY <1>0, <2>1, <2>2, IdleFits DEF Fits, Working, StartMid, StopPcs, Serving, StopLate
  <2>4. QED
    BY <1>2, <2>1, <2>2, <2>3 DEF Serving, StopLate
<1>5. CASE EditSave(u)
  <2>1. /\ user' = [user EXCEPT ![u] = Idle] /\ user[u].pc = "editSave"
        /\ UNCHANGED <<pipe, pending, engine, announced, rep, rows, created, cancelled>>
    BY <1>5 DEF EditSave, Serial, Fresh, Calm
  <2>2. QED
    BY <1>0, <1>2, <2>1, IdleFits DEF Serving, StopLate
<1>6. CASE StopRead(u)
  <2>0. PICK n : n = [user[u] EXCEPT !.pc = "find", !.id = pipe.of]
    OBVIOUS
  <2>1. n.pc = "find" /\ n.id = pipe.of
    BY <2>0, <1>0 DEF Handler
  <2>2. /\ user' = [user EXCEPT ![u] = n] /\ user[u].pc = "idle" /\ pipe.of # None
        /\ UNCHANGED <<pipe, pending, engine, announced, rep, rows, created, cancelled>>
        /\ \A v \in Users : ~Starting(v)
    BY <2>0, <1>6 DEF StopRead, Calm
  <2>3. pipe.of \in rows
    BY <2>2 DEF Truth, Known
  <2>4. \A v \in Users : user[v].pc \notin StartPcs
    BY <2>2 DEF Starting, StartPcs
  <2>5. Fits(n)'
    BY <2>1, <2>2, <2>3 DEF Fits, Working, StartMid, StopPcs, Serving, StopLate
  <2>6. n.pc \notin StartPcs
    BY <2>1 DEF StartPcs
  <2>7. QED
    BY <1>0, <2>1, <2>2, <2>4, <2>5, <2>6, TruthUser DEF Serving, StopLate
<1>7. CASE StopFind(u)
  <2>0. PICK n : n = [user[u] EXCEPT !.pc = "stopping"]
    OBVIOUS
  <2>1. n.pc = "stopping" /\ n.id = user[u].id
    BY <2>0, <1>0 DEF Handler
  <2>2. /\ user' = [user EXCEPT ![u] = n] \/ user' = [user EXCEPT ![u] = Idle]
        /\ UNCHANGED <<pipe, pending, engine, announced, rep, rows, created, cancelled>> /\ user[u].pc = "find"
    BY <2>0, <1>7 DEF StopFind
  <2>3. Fits(n)'
    BY <1>0, <2>1, <2>2 DEF Fits, Working, StartMid, StopPcs, Serving, StopLate
  <2>4. QED
    BY <1>0, <1>2, <2>1, <2>2, <2>3, IdleFits DEF Serving, StopLate, StopPcs
\* A stop of a pipeline that says running is about the instance it names.
<1>8. user[u].pc \in StopPcs /\ pipe.status = "running" => user[u].id = pipe.of /\ user[u].id \in Ids
  BY <1>0 DEF Fits, Pairs, Agree, Row
\* What is over for the engine stays so.
<1>9. ASSUME user[u].pc \in {"stopping", "waiting"}, Over(user[u].id) PROVE ~Open(user[u].id) /\ ~Awaiting(user[u].id)
  <2>1. user[u].id \notin pending
    BY <1>1, <1>9 DEF Truth, Known, StopPcs, Serving, StartPcs
  <2>2. QED
    BY <1>9, <2>1 DEF Over, Open, Live, Awaiting
<1>10. ASSUME UNCHANGED <<pipe, pending, engine, announced, rep, rows, created, cancelled>>,
              NEW pc \in StopLate, Goto(u, pc), user[u].pc \in StopPcs,
              pc \in Working => user[u].id \in rows,
              pipe.status = "running" => ~Open(user[u].id) /\ ~Awaiting(user[u].id)
       PROVE  Truth'
  <2>0. PICK n : n = [user[u] EXCEPT !.pc = pc]
    OBVIOUS
  <2>1. n.pc = pc /\ n.id = user[u].id
    BY <2>0, <1>0, <1>10 DEF Handler, StopLate
  <2>2. user' = [user EXCEPT ![u] = n]
    BY <2>0, <1>10
  <2>3. PICK i : i = user[u].id
    OBVIOUS
  <2>4. (Open(i)' <=> Open(i)) /\ (Awaiting(i)' <=> Awaiting(i))
    BY <1>10 DEF Open, Live, Awaiting
  <2>5. Fits(n)'
    <3>1. pc \notin {"rollback", "claim", "claimSave", "edit", "editSave", "delete"} \cup StartMid
      BY DEF StopLate, StartMid
    <3>2. QED
      BY <1>8, <1>10, <2>1, <2>3, <2>4, <3>1 DEF Fits
  <2>6. n.pc \in StopPcs /\ n.pc \in Serving
    BY <2>1 DEF StopPcs, Serving
  <2>7. user[u].pc # "calling"
    BY <1>10 DEF StopPcs, Serving, StopLate
  <2>8. QED
    BY <1>2, <1>10, <2>1, <2>2, <2>5, <2>6, <2>7
<1>11. CASE StopArrives(u) \/ StopReply(u)
  <2>1. CASE Over(user[u].id)
    <3>1. /\ Goto(u, "answered") /\ user[u].pc \in {"stopping", "waiting"}
          /\ UNCHANGED <<pipe, pending, engine, announced, rep, rows, created, cancelled>>
      BY <1>11, <2>1 DEF StopArrives, StopReply
    <3>2. user[u].id \in rows /\ user[u].pc \in StopPcs /\ "answered" \in StopLate
      BY <1>0, <3>1 DEF Fits, Working, StopPcs, Serving, StopLate
    <3>3. QED
      BY <1>9, <1>10, <2>1, <3>1, <3>2
  <2>2. CASE ~Over(user[u].id)
    <3>0. PICK n : n = [user[u] EXCEPT !.pc = "waiting"]
      OBVIOUS
    <3>1. n.pc = "waiting" /\ n.id = user[u].id
      BY <3>0, <1>0 DEF Handler
    <3>2. /\ user' = [user EXCEPT ![u] = n] /\ user[u].pc = "stopping"
          /\ cancelled' = cancelled \cup {user[u].id}
          /\ UNCHANGED <<pipe, pending, engine, announced, rep, rows, created>>
      BY <3>0, <1>11, <2>2 DEF StopArrives, StopReply
    <3>3. user[u].id \in rows /\ \A v \in Users : user[v].pc \notin StartPcs
      BY <1>0, <1>1, <3>2 DEF Fits, Working, StopPcs
    <3>4. engine[user[u].id] # "absent"
      BY <2>2 DEF Over, Truth, Reported, Engine!Terminal
    <3>5. Fits(n)'
      BY <1>0, <3>1, <3>2, <3>3 DEF Fits, Working, StartMid, StopPcs, Serving, StopLate
    <3>6. n.pc \notin StartPcs
      BY <3>1 DEF StartPcs
    <3>7. QED
      BY <1>0, <3>1, <3>2, <3>3, <3>4, <3>5, <3>6, TruthUser DEF Serving, StopLate
  <2>3. QED
    BY <2>1, <2>2
<1>12. user[u].pc \in StopLate /\ pipe.status = "running" => ~Open(user[u].id) /\ ~Awaiting(user[u].id)
  BY <1>0 DEF Fits
<1>13. CASE StopUpdate(u) \/ StopMark(u)
  <2>1. /\ user[u].pc \in StopLate /\ user[u].id \in rows
    BY <1>0, <1>13 DEF StopUpdate, StopMark, Fits, Working, StopLate
  <2>2. /\ Goto(u, "mark") \/ Goto(u, "stop")
        /\ UNCHANGED <<pipe, pending, engine, announced, rep, rows, created, cancelled>>
    BY <1>13, <2>1 DEF StopUpdate, StopMark
  <2>3. user[u].pc \in StopPcs /\ {"mark", "stop"} \subseteq StopLate
    BY <2>1 DEF StopPcs, Serving, StopLate
  <2>4. QED
    BY <1>10, <1>12, <2>1, <2>2, <2>3
<1>14. CASE StopLoad(u)
  <2>0. PICK n : n = [user[u] EXCEPT !.pc = "stopSave", !.row = pipe]
    OBVIOUS
  <2>20. PICK k : k = [user[u] EXCEPT !.pc = "idle"]
    OBVIOUS
  <2>1. n.pc = "stopSave" /\ n.id = user[u].id /\ k.pc = "idle"
    BY <2>0, <2>20, <1>0 DEF Handler
  <2>2. /\ UNCHANGED <<pipe, pending, engine, announced, rep, rows, created, cancelled>> /\ user[u].pc = "stop"
        /\ \/ user' = [user EXCEPT ![u] = n]
           \/ user' = [user EXCEPT ![u] = k] /\ pipe = Gone
    BY <2>0, <2>20, <1>14 DEF StopLoad
  <2>3. PICK i : i = user[u].id
    OBVIOUS
  <2>4. (Open(i)' <=> Open(i)) /\ (Awaiting(i)' <=> Awaiting(i))
    BY <2>2 DEF Open, Live, Awaiting
  <2>5. Fits(n)' /\ Fits(k)'
    BY <1>0, <2>1, <2>2, <2>3, <2>4, IdleFits DEF Fits, Working, StartMid, StopPcs, Serving, StopLate
  <2>6. Gone.status # "running"
    BY DEF Gone
  <2>7. QED
    BY <1>2, <2>1, <2>2, <2>5, <2>6 DEF Serving, StopLate, StopPcs
<1>15. CASE DeleteRow(u) \/ StopSave(u)
  <2>1. /\ pipe' \in {Gone, Stopped} /\ user' = [user EXCEPT ![u] = Idle] /\ Turn(u)
        /\ UNCHANGED <<rows, created, pending, cancelled, engine, announced, rep>>
        /\ user[u].pc \in {"delete", "stopSave"}
    BY <1>15 DEF DeleteRow, StopSave, Stopped
  <2>2. \A i \in Ids : ~Open(i)
    BY <1>0, <1>8, <1>12, <2>1 DEF Truth, Says, Fits, StopPcs, Serving, StopLate
  <2>3. \A m \in Reports : ~(Ending(rep[m]) /\ rep[m].awaited)
    <3>1. user[u].pc = "delete" => pipe.status # "running"
      BY <1>0 DEF Fits
    <3>2. \A m \in Reports : Ending(rep[m]) /\ rep[m].awaited =>
            pipe.status = "running" /\ rep[m].id = pipe.of /\ Awaiting(pipe.of)
      BY DEF Truth, Reported, Awaiting
    <3>3. QED
      BY <1>8, <1>12, <2>1, <3>1, <3>2 DEF StopPcs, Serving, StopLate
  <2>4. user'[u] = Idle /\ \A v \in Users \ {u} : user'[v] = user[v] /\ user[v].pc \notin StartMid
    BY <1>0, <2>1 DEF Typing, TypeOK, Mid, StartMid
  <2>5. \A v \in Users : user[v].pc = "calling" => user'[v] = user[v]
    BY <2>1, <2>4
  <2>6. QED
    BY <2>1, <2>2, <2>3, <2>4, <2>5, TruthEnds
<1>16. QED
  BY <1>3, <1>4, <1>5, <1>6, <1>7, <1>11, <1>13, <1>14, <1>15

LEMMA TruthHandles ==
  ASSUME Typing, Serial, Truth, Calm, Calm', NEW m \in Reports,
         ReportStep(m) \/ GiveUp(m) \/ LoseReport(m)
  PROVE  Truth'
<1> USE DEF linkVars, engineVars
<1>0. /\ rep[m] \in Report /\ Reported(rep[m]) /\ Reported(Free)
      /\ Free.pc = "free" /\ Free.awaited = FALSE /\ Free.status = "running"
      /\ UNCHANGED <<created, pending, cancelled, engine, announced, user>>
  BY DEF Truth, Typing, TypeOK, Reported, Ending, Free, Engine!Terminal,
         ReportStep, ReportRead, ReportUpdate, ReportWrite, ReportPipeline, ReportApply, ReportSave,
         GiveUp, LoseReport
\* The report is over: nobody waits for the end it tells of.
<1>1. ASSUME rep' = [rep EXCEPT ![m] = Free], UNCHANGED <<pipe, rows>>,
             Ending(rep[m]) => pipe.status # "running" \/ rep[m].id \in cancelled
      PROVE  Truth'
  BY <1>0, <1>1, TruthReport
<1>2. ASSUME NEW n, rep' = [rep EXCEPT ![m] = n], UNCHANGED <<pipe, rows>>, rep[m].pc # "free",
             n.id = rep[m].id, n.status = rep[m].status, n.pc # "free", n.awaited => rep[m].awaited,
             n.pc \in {"apply", "save"} /\ Ending(rep[m]) /\ pipe.status = "running" => n.ends,
             n.pc \in {"apply", "save"} /\ n.ends => n.status \in Engine!Terminal
      PROVE  Truth'
  <2>1. Reported(n)
    BY <1>0, <1>2 DEF Reported, Ending
  <2>2. QED
    BY <1>0, <1>2, <2>1, TruthReport
<1>3. CASE ReportRead(m) \/ ReportUpdate(m) \/ ReportWrite(m)
  <2>1. rep[m].pc # "free" /\ rep[m].id \in rows
    BY <1>0, <1>3 DEF ReportRead, ReportUpdate, ReportWrite, Reported
  <2>2. PICK pc \in {"update", "write", "react"} : rep' = [rep EXCEPT ![m] = [rep[m] EXCEPT !.pc = pc]]
    BY <1>3, <2>1 DEF ReportRead, ReportUpdate, ReportWrite
  <2>3. UNCHANGED <<pipe, rows>>
    BY <1>3, <2>1 DEF ReportRead, ReportUpdate, ReportWrite
  <2>4. PICK n : n = [rep[m] EXCEPT !.pc = pc]
    OBVIOUS
  <2>5. n.pc = pc /\ n.id = rep[m].id /\ n.status = rep[m].status /\ n.awaited = rep[m].awaited
    BY <1>0, <2>4 DEF Report
  <2>6. QED
    BY <1>2, <2>1, <2>2, <2>3, <2>4, <2>5
<1>4. CASE ReportPipeline(m)
  <2>1. UNCHANGED <<pipe, rows>> /\ rep[m].pc = "react"
    BY <1>4 DEF ReportPipeline
  <2>2. CASE pipe = Gone
    <3>1. rep' = [rep EXCEPT ![m] = Free] /\ pipe.status # "running"
      BY <1>4, <2>2 DEF ReportPipeline, Gone
    <3>2. QED
      BY <1>1, <2>1, <3>1
  <2>3. CASE pipe # Gone
    <3>1. PICK n : n = [rep[m] EXCEPT !.pc = "apply",
                          !.ends = rep[m].status \in Engine!Terminal /\ pipe.status = "running"]
      OBVIOUS
    <3>2. rep' = [rep EXCEPT ![m] = n]
      BY <1>4, <2>3, <3>1 DEF ReportPipeline
    <3>3. /\ n.pc = "apply" /\ n.id = rep[m].id /\ n.status = rep[m].status /\ n.awaited = rep[m].awaited
          /\ n.ends = (rep[m].status \in Engine!Terminal /\ pipe.status = "running")
      BY <1>0, <3>1 DEF Report
    <3>4. QED
      BY <1>2, <2>1, <3>2, <3>3 DEF Ending
  <2>4. QED
    BY <2>2, <2>3
<1>5. CASE ReportApply(m)
  <2>1. UNCHANGED <<pipe, rows>> /\ rep[m].pc = "apply"
    BY <1>5 DEF ReportApply
  <2>2. CASE pipe = Gone
    <3>1. rep' = [rep EXCEPT ![m] = Free] /\ pipe.status # "running"
      BY <1>5, <2>2 DEF ReportApply, Gone
    <3>2. QED
      BY <1>1, <2>1, <3>1
  <2>3. CASE pipe # Gone
    <3>1. PICK n : n = [rep[m] EXCEPT !.pc = "save", !.row = pipe]
      OBVIOUS
    <3>2. rep' = [rep EXCEPT ![m] = n]
      BY <1>5, <2>3, <3>1 DEF ReportApply
    <3>3. /\ n.pc = "save" /\ n.id = rep[m].id /\ n.status = rep[m].status /\ n.awaited = rep[m].awaited
          /\ n.ends = rep[m].ends
      BY <1>0, <3>1 DEF Report
    <3>4. QED
      BY <1>0, <1>2, <2>1, <3>2, <3>3 DEF Reported
  <2>4. QED
    BY <2>2, <2>3
<1>6. CASE ReportSave(m)
  <2>1. rep' = [rep EXCEPT ![m] = Free] /\ rep[m].pc = "save" /\ Turn(m) /\ rows' = rows
    BY <1>6 DEF ReportSave
  <2>2. CASE ~rep[m].ends
    <3>1. pipe' = pipe
      BY <1>6, <2>1, <2>2 DEF ReportSave, Serial, Fresh, Calm
    <3>2. Ending(rep[m]) => pipe.status # "running"
      BY <1>0, <2>1, <2>2 DEF Reported
    <3>3. QED
      BY <1>1, <2>1, <3>1, <3>2
  <2>3. CASE rep[m].ends
    <3>1. pipe' = Stopped /\ Ending(rep[m])
      BY <1>0, <1>6, <2>1, <2>3 DEF ReportSave, Stopped, Reported, Ending
    <3>2. \A i \in Ids : ~Open(i)
      <4>1. ASSUME NEW i \in Ids, Open(i) PROVE FALSE
        <5>1. rep[m].id = i
          BY <1>0, <3>1, <4>1 DEF Truth, Says, Reported
        <5>2. announced[i] \in Engine!Terminal
          BY <1>0, <3>1, <5>1 DEF Reported
        <5>3. QED
          BY <4>1, <5>2 DEF Truth, Known, Open, Live, Engine!Terminal
      <4>2. QED
        BY <4>1
    <3>3. \A v \in Users : user[v].pc \notin StartMid
      BY <2>1, PipelineAssumption DEF Turn, MidSection, StartMid, Calm
    <3>4. \A k \in Reports : Ending(rep[k]) /\ rep[k].awaited => k = m
      BY <1>0, <3>1 DEF Truth, Reported
    <3>5. \A k \in Reports : rep'[k] = Free \/ (rep'[k] = rep[k] /\ ~(Ending(rep[k]) /\ rep[k].awaited))
      BY <2>1, <3>4 DEF Typing, TypeOK
    <3>6. QED
      BY <1>0, <2>1, <3>1, <3>2, <3>3, <3>5, TruthEnds
  <2>4. QED
    BY <2>2, <2>3
<1>7. CASE GiveUp(m)
  <2>1. UNCHANGED <<pipe, rows>> /\ rep[m].awaited /\ rep[m].pc # "free"
    BY <1>0, <1>7 DEF GiveUp, Reported
  <2>2. PICK n : n = [rep[m] EXCEPT !.awaited = FALSE]
    OBVIOUS
  <2>3. rep' = [rep EXCEPT ![m] = n]
    BY <1>7, <2>2 DEF GiveUp
  <2>4. n.pc = rep[m].pc /\ n.id = rep[m].id /\ n.status = rep[m].status /\ n.ends = rep[m].ends
    BY <1>0, <2>2 DEF Report
  <2>5. QED
    BY <1>0, <1>2, <2>1, <2>3, <2>4 DEF Reported
<1>8. CASE LoseReport(m)
  <2>1. Interrupted(m)
    BY <1>8 DEF LoseReport, Fault, Calm
  <2>2. QED
    BY <1>1, <1>8, <2>1 DEF LoseReport, Interrupted
<1>9. QED
  BY <1>3, <1>4, <1>5, <1>6, <1>7, <1>8 DEF ReportStep

LEMMA TruthInit == Init => Truth
  BY DEF Init, Engine!Init, Engine!Terminal, Truth, Known, Told, Fits, Reported, Ending, Open, Live,
         Idle, Free, Working, StartMid, StopLate, StopPcs, Serving, StartPcs

LEMMA TruthNext == Typing /\ Pairs /\ Serial /\ Truth /\ [Next]_vars => Truth'
<1> SUFFICES ASSUME Typing, Pairs, Serial, Truth, [Next]_vars, Calm' PROVE Truth'
  BY DEF Truth
<1>1. Calm
  BY CalmStays
<1>2. ASSUME NEW u \in Users,
             \/ UserStep(u) \/ StartRead(u) \/ StartFails(u) \/ EditRead(u) \/ DeleteRead(u)
             \/ StopRead(u)
      PROVE  Truth'
  BY <1>1, <1>2, TruthStart, TruthStop DEF UserStep
<1>3. ASSUME NEW i \in Ids,
             \/ EngineAccepts(i) \/ \E m \in Reports : SendReport(m, i)
             \/ \E s \in {"failed", "stopped"} : EngineSettles(i, s)
      PROVE  Truth'
  BY <1>1, <1>3, TruthEngine, TruthSends
<1>4. ASSUME NEW m \in Reports, ReportStep(m) \/ GiveUp(m) \/ LoseReport(m) PROVE Truth'
  BY <1>1, <1>4, TruthHandles
<1>5. CASE UNCHANGED vars
  <2>1. UNCHANGED <<pipe, rows, created, pending, engine, announced, cancelled, user, rep>>
    BY <1>5 DEF vars
  <2>2. \A v : Fits(v)' <=> Fits(v)
    BY <2>1 DEF Fits, Ending, Open, Live, Awaiting
  <2>3. QED
    BY <1>1, <2>1, <2>2 DEF Truth, Known, Told, Reported, Ending, Open, Live, Says
<1>6. QED
  BY <1>2, <1>3, <1>4, <1>5 DEF Next

\* RecordSound (pipeline.service.js): with the memory driver the record never strands its
\* pipeline; and as long as no start fails, no report is lost and no start meets a stop, the
\* engine works for the instance the record names and for no other, and a record at rest does
\* not say running of a mirror whose end was reported.
THEOREM RecordSoundHolds == Spec => []RecordSound
<1>1. Typing /\ Pairs /\ Truth => RecordTruthful
  <2> SUFFICES ASSUME Typing, Pairs, Truth, Calm PROVE RecordTruthful
    BY DEF RecordTruthful, Calm
  <2>1. ASSUME NEW i \in Ids, Live(i) PROVE pipe = [status |-> "running", of |-> i]
    BY <2>1 DEF Truth, Open, Says, Typing, TypeOK, Row
  <2>2. ASSUME Quiet, pipe.status = "running" PROVE announced[pipe.of] \notin Engine!Terminal
    BY <2>2 DEF Truth, Told, Quiet, Ending, Serving, StopLate
  <2>3. QED
    BY <2>1, <2>2 DEF RecordTruthful
<1>2. Serial => CanStop
  BY DEF Serial, Held, CanStop, Quiet
<1>3. CanStop /\ RecordTruthful => RecordSound
  BY DEF RecordSound
<1>4. QED
  BY TypeInit, TypeNext, PairsInit, PairsNext, SerialInit, SerialNext, TruthInit, TruthNext,
     <1>1, <1>2, <1>3, PTL DEF Spec
=============================================================================
