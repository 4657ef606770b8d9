-------------------------- MODULE Metadata_proofs --------------------------
(***************************************************************************)
(* Proofs about the metadata of the admin backend, for any sets of         *)
(* records and any number of requests in progress: the graph of the        *)
(* metrics and its tables, the runs of metric tasks, the catalogue, the    *)
(* references to data sources, the index of the chat, and the order in     *)
(* which a canvas is executed.                                             *)
(***************************************************************************)
EXTENDS MetricGraph, MetricTaskRuns, ModelCatalog, References, MetricChat, Canvas,
        FiniteSetTheorems, SequenceTheorems, TLAPS

-----------------------------------------------------------------------------
(* MetricGraph: the edges between metrics stay free of cycles.            *)

\* The shape of the variables the argument needs: bounds on versions play no role.
SaverSteps == {"idle", "check", "load", "save", "resolve", "clear", "insert", "version", "unlink", "mark"}
AnyRow     == [status : {"absent", "active", "deleted"}, def : Definition, version : Nat]
AnySaver   == [pc : SaverSteps, on : Metrics \cup {NoMetric}, def : Definition,
               existing : AnyRow, row : AnyRow, kids : SUBSET Metrics]

MetricShapes ==
  /\ metric \in [Metrics -> AnyRow]
  /\ edges \in SUBSET (Metrics \X Metrics)
  /\ \A v \in versions : v[3] \in Definition
  /\ saver \in [Savers -> AnySaver]
  /\ \A s \in Savers : saver[s].pc # "idle" => saver[s].on \in Metrics
  /\ raced \in BOOLEAN

\* A request that has passed the check, up to its change of the edges.
CheckPassed(s) == saver[s].pc \in {"load", "save", "resolve", "clear", "insert"}

\* A metric there is never goes; so whatever a request has seen of one stays true, and the
\* edges lead to metrics there are.
KnownSeen(s) ==
  saver[s].pc # "idle" =>
    /\ saver[s].existing.status # "absent" => Present(saver[s].on)
    /\ saver[s].pc \in {"clear", "insert"} => \A r \in saver[s].kids : Present(r)
    /\ saver[s].pc = "save" /\ saver[s].existing.status # "absent" => saver[s].row.status # "absent"
    /\ saver[s].pc \in {"resolve", "clear", "insert", "version", "unlink", "mark"} => Present(saver[s].on)

KnownStays == (\A s \in Savers : KnownSeen(s)) /\ \A e \in edges : Present(e[2])

\* The edges E with those of m replaced (rebuildForParent).
Replaced(E, m, kids) == {e \in E : e[1] # m} \cup ({m} \X kids)

\* The edges once request s has rebuilt those of its metric.
After(s) ==
  IF saver[s].pc = "insert" THEN edges \cup ({saver[s].on} \X saver[s].kids)
  ELSE Replaced(edges, saver[s].on, IF saver[s].pc = "clear" THEN saver[s].kids ELSE Named(saver[s].def))

\* Unless requests overlapped, the edges have no cycle, and will have none when a request
\* that has passed the check has rebuilt those of its metric.
AcyclicAhead ==
  raced = FALSE =>
    /\ ~HasCycle(Proper(edges))
    /\ \A s \in Savers : CheckPassed(s) => ~HasCycle(Proper(After(s)))

MetricInv == MetricShapes /\ KnownStays /\ AcyclicAhead

-----------------------------------------------------------------------------
(* Graphs *)

\* Fewer edges make no new cycle.
LEMMA FewerEdges ==
  ASSUME NEW E, NEW D \in SUBSET E, HasCycle(D)
  PROVE  HasCycle(E)
<1>1. PICK C \in SUBSET Metrics : C # {} /\ \A c \in C : Children(D, c) \cap C # {}
  BY DEF HasCycle
<1>2. \A c \in C : Children(E, c) \cap C # {}
  BY <1>1 DEF Children
<1>3. QED
  BY <1>1, <1>2 DEF HasCycle

LEMMA ReplacedChildren ==
  ASSUME NEW E \in SUBSET (Metrics \X Metrics), NEW m \in Metrics, NEW kids \in SUBSET Metrics
  PROVE  /\ Children(Replaced(E, m, kids), m) = kids
         /\ \A c \in Metrics \ {m} : Children(Replaced(E, m, kids), c) = Children(E, c)
  BY DEF Children, Replaced

\* Edges of a metric to itself, left aside before or after.
LEMMA ProperReplaced ==
  ASSUME NEW E, NEW m, NEW kids
  PROVE  Proper(Replaced(E, m, kids)) = Replaced(Proper(E), m, kids \ {m})
<1>1. \A k : <<m, k>>[1] = m /\ <<m, k>>[2] = k
  OBVIOUS
<1>2. Proper({m} \X kids) = {m} \X (kids \ {m})
  BY DEF Proper
<1>3. Proper(Replaced(E, m, kids)) = {e \in Proper(E) : e[1] # m} \cup Proper({m} \X kids)
  BY DEF Proper, Replaced
<1>4. QED
  BY <1>2, <1>3 DEF Replaced

\* The walk of assertNoCycle, which has seen D, did not come back to m: no cycle after the
\* edges are rebuilt.
LEMMA WalkSuffices ==
  ASSUME NEW E \in SUBSET (Metrics \X Metrics), NEW m \in Metrics, NEW kids \in SUBSET Metrics,
         ~HasCycle(E), NEW D \in SUBSET Metrics, kids \subseteq D, Closed(E, D), m \notin D
  PROVE  ~HasCycle(Replaced(E, m, kids))
<1> SUFFICES ASSUME NEW C \in SUBSET Metrics, C # {},
                    \A c \in C : Children(Replaced(E, m, kids), c) \cap C # {}
             PROVE  FALSE
  BY DEF HasCycle
<1>1. m \in C
  <2> SUFFICES ASSUME m \notin C PROVE FALSE
    OBVIOUS
  <2>1. \A c \in C : Children(E, c) \cap C # {}
    BY ReplacedChildren
  <2>2. QED
    BY <2>1 DEF HasCycle
<1>2. C \cap D # {}
  <2>1. kids \cap C # {}
    BY <1>1, ReplacedChildren
  <2>2. QED
    BY <2>1
<1>3. ASSUME NEW c \in C \cap D PROVE Children(E, c) \cap (C \cap D) # {}
  <2>1. c # m
    OBVIOUS
  <2>2. PICK d \in C : d \in Children(Replaced(E, m, kids), c)
    OBVIOUS
  <2>3. d \in Children(E, c)
    BY <2>1, <2>2, ReplacedChildren
  <2>4. d \in D
    BY <2>3 DEF Closed
  <2>5. QED
    BY <2>2, <2>3, <2>4
<1>4. C \cap D \in SUBSET Metrics
  OBVIOUS
<1>5. QED
  BY <1>2, <1>3, <1>4 DEF HasCycle

\* No metric referred to has edges of its own: nothing to walk along.
LEMMA LeavesSuffice ==
  ASSUME NEW E \in SUBSET (Metrics \X Metrics), NEW m \in Metrics, NEW kids \in SUBSET Metrics,
         ~HasCycle(E), m \notin kids, \A r \in kids : Children(E, r) = {}
  PROVE  ~HasCycle(Replaced(E, m, kids))
  BY WalkSuffices DEF Closed

\* A new metric, to which no edge leads.
LEMMA NewSuffices ==
  ASSUME NEW E \in SUBSET (Metrics \X Metrics), NEW m \in Metrics, NEW kids \in SUBSET Metrics,
         ~HasCycle(E), m \notin kids, \A e \in E : e[2] # m
  PROVE  ~HasCycle(Replaced(E, m, kids))
<1>1. Metrics \ {m} \in SUBSET Metrics /\ kids \subseteq Metrics \ {m} /\ m \notin Metrics \ {m}
  OBVIOUS
<1>2. Closed(E, Metrics \ {m})
  BY DEF Closed, Children
<1>3. QED
  BY <1>1, <1>2, WalkSuffices

LEMMA SaverRefs == \A def \in Definition : def.refs \in SUBSET Metrics /\ Named(def) \in SUBSET Metrics
  BY DEF Definition, Named

\* The check of a request, on the edges of the moment.
LEMMA CheckSuffices ==
  ASSUME NEW m \in Metrics, NEW def \in Definition, MetricShapes, ~HasCycle(Proper(edges)),
         \A e \in edges : Present(e[2]), Acyclic(m, def)
  PROVE  ~HasCycle(Proper(Replaced(edges, m, Named(def))))
<1> DEFINE E == Proper(edges)
           kids == Named(def) \ {m}
<1> SUFFICES ~HasCycle(Replaced(E, m, kids))
  BY ProperReplaced
<1>1. E \in SUBSET (Metrics \X Metrics) /\ kids \in SUBSET Metrics /\ m \notin kids /\ E \subseteq edges
  BY SaverRefs DEF MetricShapes, Proper
<1>2. CASE ~Present(m)
  BY <1>1, <1>2, NewSuffices
<1>3. CASE \A r \in Named(def) : Children(edges, r) = {}
  <2>1. \A r \in kids : Children(E, r) = {}
    BY <1>1, <1>3 DEF Children
  <2>2. QED
    BY <1>1, <2>1, LeavesSuffice
<1>4. CASE ~OnCycle(edges \cup ({m} \X Named(def)), m)
  <2> DEFINE Wide == edges \cup ({m} \X Named(def))
  <2>1. PICK D \in SUBSET Metrics : Children(Wide, m) \ {m} \subseteq D /\ Closed(Wide, D) /\ m \notin D
    BY <1>4 DEF OnCycle
  <2>2. kids \subseteq D
    <3>1. kids \subseteq Children(Wide, m)
      BY <1>1 DEF Children
    <3>2. QED
      BY <2>1, <3>1
  <2>3. Closed(E, D)
    BY <1>1, <2>1 DEF Closed, Children
  <2>4. QED
    BY <1>1, <2>1, <2>2, <2>3, WalkSuffices
<1>5. def.refs = {} => Named(def) = {}
  BY DEF Named
<1>6. QED
  BY <1>2, <1>3, <1>4, <1>5 DEF Acyclic

-----------------------------------------------------------------------------
(* The invariance *)

LEMMA MetricInvTypes ==
  Atomic \in Definition /\ NoRow \in AnyRow /\ NoSaver \in AnySaver /\ NoSaver.pc = "idle"
<1>1. Atomic \in Definition
  BY DEF Atomic, Definition
<1>2. NoRow \in AnyRow
  BY <1>1 DEF NoRow, AnyRow
<1>3. QED
  BY <1>1, <1>2 DEF NoSaver, AnySaver, SaverSteps

LEMMA MetricInvInit == MetricInit => MetricInv
<1> SUFFICES ASSUME MetricInit PROVE MetricInv
  OBVIOUS
<1>1. MetricShapes
  BY MetricInvTypes DEF MetricInit, MetricShapes
<1>2. KnownStays
  BY DEF MetricInit, KnownStays, KnownSeen, NoSaver
<1>3. ~HasCycle(Proper({}))
  BY DEF HasCycle, Children, Proper
<1>4. AcyclicAhead
  BY <1>3 DEF MetricInit, AcyclicAhead, NoSaver, CheckPassed
<1>5. QED
  BY <1>1, <1>2, <1>4 DEF MetricInv

\* A request that moves on, or ends.
LEMMA SaverMoves ==
  ASSUME MetricShapes, NEW s \in Savers, NEW q \in AnySaver, saver' = [saver EXCEPT ![s] = q]
  PROVE  /\ saver' \in [Savers -> AnySaver] /\ saver'[s] = q
         /\ \A t \in Savers \ {s} : saver'[t] = saver[t]
         /\ (q.pc # "idle" => q.on \in Metrics) =>
              \A t \in Savers : saver'[t].pc # "idle" => saver'[t].on \in Metrics
  BY DEF MetricShapes

LEMMA StepOf ==
  ASSUME MetricShapes, NEW s \in Savers, NEW pc \in SaverSteps
  PROVE  /\ [saver[s] EXCEPT !.pc = pc] \in AnySaver
         /\ [saver[s] EXCEPT !.pc = pc].pc = pc
         /\ [saver[s] EXCEPT !.pc = pc].on = saver[s].on
         /\ [saver[s] EXCEPT !.pc = pc].def = saver[s].def
         /\ [saver[s] EXCEPT !.pc = pc].existing = saver[s].existing
         /\ [saver[s] EXCEPT !.pc = pc].row = saver[s].row
         /\ [saver[s] EXCEPT !.pc = pc].kids = saver[s].kids
<1>1. saver[s] \in AnySaver
  BY DEF MetricShapes
<1>2. QED
  BY <1>1 DEF AnySaver

\* A request that writes while no other is in progress.
LEMMA WritesAlone ==
  ASSUME MetricShapes, NEW s \in Savers, Race(s), raced' = FALSE
  PROVE  raced = FALSE /\ \A t \in Savers \ {s} : saver[t].pc = "idle"
  BY DEF MetricShapes, Race, Saving

LEMMA MetricShapesNext ==
  ASSUME MetricShapes, NEW s \in Savers, RequestStep(s)
  PROVE  MetricShapes'
<1> USE DEF MetricShapes
<1>1. ASSUME NEW m \in Metrics, NEW def \in Definition, BeginSave(s, m, def) PROVE MetricShapes'
  BY <1>1 DEF BeginSave, AnySaver, SaverSteps, tables
<1>2. ASSUME NEW m \in Metrics, Rollback(s, m) PROVE MetricShapes'
  BY <1>1, <1>2 DEF Rollback
<1>3. ASSUME NEW m \in Metrics, BeginDelete(s, m) PROVE MetricShapes'
  BY <1>3 DEF BeginDelete, AnySaver, SaverSteps, tables
<1>4. CASE Validate(s)
  BY <1>4, MetricInvTypes DEF Validate, AnySaver, SaverSteps, tables
<1>5. CASE LoadMetric(s)
  BY <1>5 DEF LoadMetric, AnySaver, SaverSteps, tables
<1>6. CASE SaveMetric(s)
  <2>1. saver' \in [Savers -> AnySaver] /\ raced' \in BOOLEAN
    BY <1>6, MetricInvTypes DEF SaveMetric, AnySaver, SaverSteps, Race
  <2>2. \A t \in Savers : saver'[t].pc # "idle" => saver'[t].on \in Metrics
    <3>1. \/ saver' = [saver EXCEPT ![s] = NoSaver]
          \/ saver' = [saver EXCEPT ![s].pc = "resolve"]
      BY <1>6 DEF SaveMetric
    <3>2. saver[s].on \in Metrics
      BY <1>6 DEF SaveMetric
    <3>3. QED
      BY <3>1, <3>2, MetricInvTypes DEF AnySaver
  <2>3. metric' \in [Metrics -> AnyRow]
    <3> DEFINE q == saver[s]
               new(st) == [status |-> st, def |-> q.def, version |-> q.existing.version + 1]
    <3>1. q.row \in AnyRow /\ q.existing \in AnyRow /\ q.def \in Definition
      BY DEF AnySaver
    <3>2. q.row.status \in {"absent", "active", "deleted"} /\ q.existing.version + 1 \in Nat
      BY <3>1 DEF AnyRow
    <3>3. \A st \in {"absent", "active", "deleted"} : new(st) \in AnyRow
      BY <3>1, <3>2 DEF AnyRow
    <3>4. \/ metric' = metric
          \/ metric' = [metric EXCEPT ![q.on] = new(IF q.existing.status = "absent" THEN "active"
                                                    ELSE q.row.status)]
      BY <1>6 DEF SaveMetric, VersionOf
    <3>5. QED
      BY <3>2, <3>3, <3>4
  <2>4. QED
    BY <1>6, <2>1, <2>2, <2>3 DEF SaveMetric
<1>7. CASE ResolveEdges(s)
  <2>1. Named(saver[s].def) \in SUBSET Metrics
    BY SaverRefs DEF AnySaver
  <2>2. QED
    BY <1>7, <2>1 DEF ResolveEdges, AnySaver, SaverSteps, tables
<1>8. CASE ClearEdges(s)
  <2>1. PICK pc \in SaverSteps : saver' = [saver EXCEPT ![s].pc = pc]
    BY <1>8 DEF ClearEdges, SaverSteps
  <2>2. edges' \in SUBSET (Metrics \X Metrics) /\ raced' \in BOOLEAN
    BY <1>8 DEF ClearEdges, Cleared, Race
  <2>3. saver[s].on \in Metrics
    BY <1>8 DEF ClearEdges
  <2>4. QED
    BY <1>8, <2>1, <2>2, <2>3, StepOf, SaverMoves DEF ClearEdges
<1>9. CASE InsertEdges(s)
  <2>1. saver[s].on \in Metrics /\ saver[s].kids \in SUBSET Metrics
    BY <1>9 DEF InsertEdges, AnySaver
  <2>2. edges' \in SUBSET (Metrics \X Metrics) /\ raced' \in BOOLEAN
    <3>1. edges' = edges \/ edges' = edges \cup ({saver[s].on} \X saver[s].kids)
      BY <1>9 DEF InsertEdges
    <3>2. raced' = raced \/ Race(s)
      BY <1>9 DEF InsertEdges
    <3>3. QED
      BY <2>1, <3>1, <3>2 DEF Race
  <2>3. \/ saver' = [saver EXCEPT ![s].pc = "version"]
        \/ saver' = [saver EXCEPT ![s] = NoSaver]
    BY <1>9 DEF InsertEdges, Ends
  <2>4. /\ saver' \in [Savers -> AnySaver]
        /\ \A t \in Savers : saver'[t].pc # "idle" => saver'[t].on \in Metrics
    BY <2>1, <2>3, MetricInvTypes DEF AnySaver, SaverSteps
  <2>5. QED
    BY <1>9, <2>2, <2>4 DEF InsertEdges
<1>10. CASE Snapshot(s)
  <2>1. \A v \in versions' : v[3] \in Definition
    BY <1>10 DEF Snapshot, AnySaver
  <2>2. /\ saver' \in [Savers -> AnySaver] /\ raced' \in BOOLEAN
        /\ \A t \in Savers : saver'[t].pc # "idle" => saver'[t].on \in Metrics
    BY <1>10, MetricInvTypes DEF Snapshot, Race
  <2>3. QED
    BY <1>10, <2>1, <2>2 DEF Snapshot
<1>11. CASE RequestFails(s)
  BY <1>11, MetricInvTypes DEF RequestFails, Ends
<1>12. CASE Unlink(s)
  BY <1>12 DEF Unlink, Unlinked, AnySaver, SaverSteps, Race
<1>13. CASE MarkDeleted(s)
  <2>1. metric' \in [Metrics -> AnyRow]
    BY <1>13 DEF MarkDeleted, AnyRow
  <2>2. /\ saver' \in [Savers -> AnySaver] /\ raced' \in BOOLEAN
        /\ \A t \in Savers : saver'[t].pc # "idle" => saver'[t].on \in Metrics
    BY <1>13, MetricInvTypes DEF MarkDeleted, Race
  <2>3. QED
    BY <1>13, <2>1, <2>2 DEF MarkDeleted
<1>14. QED
  BY <1>1, <1>2, <1>3, <1>4, <1>5, <1>6, <1>7, <1>8, <1>9, <1>10, <1>11, <1>12, <1>13 DEF RequestStep

\* What the write of a save leaves: the row of a metric that is there by then.
LEMMA SaveWrites ==
  ASSUME MetricShapes, KnownStays, NEW s \in Savers, SaveMetric(s)
  PROVE  /\ \A m \in Metrics : Present(m) => Present(m)'
         /\ \A m \in Metrics \ {saver[s].on} : Present(m)' => Present(m)
         /\ saver'[s].pc # "idle" => metric'[saver[s].on].status # "absent"
<1> DEFINE q == saver[s]
           status == IF q.existing.status = "absent" THEN "active" ELSE q.row.status
           new == [status |-> status, def |-> q.def, version |-> VersionOf(q)]
<1>1. q.on \in Metrics
  BY DEF SaveMetric, MetricShapes
<1>2. new.status # "absent"
  <2>1. q.existing.status # "absent" => q.row.status # "absent"
    BY DEF KnownStays, KnownSeen, SaveMetric
  <2>2. QED
    BY <2>1
<1>3. CASE metric' = metric /\ saver' = [saver EXCEPT ![s] = NoSaver]
  BY <1>3 DEF Present, MetricShapes, NoSaver
<1>4. CASE metric' = [metric EXCEPT ![q.on] = new]
  <2>1. metric'[q.on] = new /\ \A m \in Metrics \ {q.on} : metric'[m] = metric[m]
    BY <1>1, <1>4 DEF MetricShapes
  <2> HIDE DEF new
  <2>2. QED
    BY <1>1, <1>2, <2>1 DEF Present
<1>5. QED
  BY <1>3, <1>4 DEF SaveMetric

\* A step that leaves the rows and the edges alone.
LEMMA KnownSame ==
  ASSUME KnownStays, UNCHANGED <<metric, edges>>, NEW s \in Savers, KnownSeen(s)',
         \A t \in Savers \ {s} : saver'[t] = saver[t]
  PROVE  KnownStays'
  BY DEF KnownStays, KnownSeen, Present

LEMMA KnownNext ==
  ASSUME MetricShapes, KnownStays, NEW s \in Savers, RequestStep(s)
  PROVE  KnownStays'
<1> USE DEF KnownSeen
<1>0. KnownSeen(s) /\ saver[s] \in AnySaver /\ NoSaver.pc = "idle"
  BY MetricInvTypes DEF KnownStays, MetricShapes
<1>1. ASSUME NEW m \in Metrics, NEW def \in Definition, BeginSave(s, m, def) PROVE KnownStays'
  BY <1>1, KnownSame DEF BeginSave, MetricShapes, AnySaver, SaverSteps, Present, tables
<1>2. ASSUME NEW m \in Metrics, Rollback(s, m) PROVE KnownStays'
  BY <1>1, <1>2 DEF Rollback, MetricShapes
<1>3. ASSUME NEW m \in Metrics, BeginDelete(s, m) PROVE KnownStays'
  BY <1>3, KnownSame DEF BeginDelete, MetricShapes, AnySaver, SaverSteps, Present, Active, tables
<1>4. CASE Validate(s)
  BY <1>0, <1>4, KnownSame DEF Validate, MetricShapes, AnySaver, SaverSteps, Present, tables
<1>5. CASE LoadMetric(s)
  BY <1>0, <1>5, KnownSame DEF LoadMetric, MetricShapes, AnySaver, SaverSteps, Present, tables
<1>6. CASE SaveMetric(s)
  <2>1. \A m \in Metrics : Present(m) => Present(m)'
    BY <1>6, SaveWrites
  <2>2. \A e \in edges' : Present(e[2])'
    BY <1>6, <2>1 DEF SaveMetric, MetricShapes, KnownStays
  <2>3. ASSUME NEW t \in Savers, saver'[t].pc # "idle"
        PROVE  KnownSeen(t)'
    <3>1. CASE t # s
      <4>1. saver'[t] = saver[t]
        BY <1>6, <3>1 DEF SaveMetric, MetricShapes
      <4>2. saver[t].on \in Metrics /\ saver[t].kids \in SUBSET Metrics
        BY <2>3, <4>1 DEF MetricShapes, AnySaver
      <4>3. KnownSeen(t)
        BY DEF KnownStays
      <4>4. QED
        BY <2>1, <4>1, <4>2, <4>3 DEF Present
    <3>2. CASE t = s
      <4>1. /\ saver'[s].pc = "resolve"
            /\ saver'[s].existing = saver[s].existing /\ saver'[s].on = saver[s].on
        BY <1>0, <1>6, <2>3, <3>2 DEF SaveMetric, MetricShapes, AnySaver, SaverSteps
      <4>2. metric'[saver[s].on].status # "absent"
        BY <1>6, <2>3, <3>2, SaveWrites
      <4>3. QED
        BY <3>2, <4>1, <4>2 DEF Present
    <3>3. QED
      BY <3>1, <3>2
  <2>4. QED
    BY <2>2, <2>3 DEF KnownStays
<1>7. CASE ResolveEdges(s)
  <2>1. PICK kids \in SUBSET Metrics : /\ saver' = [saver EXCEPT ![s] = [@ EXCEPT !.pc = "clear", !.kids = kids]]
                                     /\ kids = Named(saver[s].def)
    <3>1. Named(saver[s].def) \in SUBSET Metrics
      BY <1>0 DEF Named, AnySaver, Definition
    <3>2. QED
      BY <1>7, <3>1 DEF ResolveEdges
  <2>2. metric' = metric /\ edges' = edges
    BY <1>7 DEF ResolveEdges, tables
  <2>3. saver'[s] = [saver[s] EXCEPT !.pc = "clear", !.kids = kids]
    BY <2>1 DEF MetricShapes
  <2>4. saver'[s].pc = "clear" /\ saver'[s].kids = Named(saver[s].def)
    BY <1>0, <2>1, <2>3 DEF AnySaver
  <2>5. KnownSeen(s)'
    BY <1>0, <1>7, <2>2, <2>3, <2>4 DEF AnySaver, Named, Present, ResolveEdges
  <2>6. \A t \in Savers \ {s} : saver'[t] = saver[t]
    BY <2>1 DEF MetricShapes
  <2>7. QED
    BY <2>2, <2>5, <2>6, KnownSame
<1>8. CASE ClearEdges(s)
  <2>1. PICK pc \in {"version", "insert"} : saver' = [saver EXCEPT ![s].pc = pc]
    BY <1>8 DEF ClearEdges
  <2>2. saver[s].pc = "clear" /\ metric' = metric /\ edges' \subseteq edges
    BY <1>8 DEF ClearEdges, Cleared
  <2>3. KnownSeen(s)' /\ \A t \in Savers \ {s} : saver'[t] = saver[t]
    BY <1>0, <2>1, <2>2 DEF MetricShapes, AnySaver, Present
  <2>4. QED
    BY <2>2, <2>3 DEF KnownStays, Present
<1>9. CASE InsertEdges(s)
  <2>1. \/ saver' = [saver EXCEPT ![s].pc = "version"]
        \/ saver' = [saver EXCEPT ![s] = NoSaver]
    BY <1>9 DEF InsertEdges, Ends
  <2>2. saver[s].pc = "insert" /\ metric' = metric /\ edges' \subseteq edges \cup ({saver[s].on} \X saver[s].kids)
    BY <1>9 DEF InsertEdges
  <2>3. KnownSeen(s)' /\ \A t \in Savers \ {s} : saver'[t] = saver[t]
    BY <1>0, <2>1, <2>2 DEF MetricShapes, AnySaver, Present
  <2>4. \A e \in edges' : Present(e[2])
    BY <1>0, <2>2 DEF KnownStays
  <2>5. QED
    BY <2>2, <2>3, <2>4 DEF KnownStays, Present
<1>10. CASE Snapshot(s)
  BY <1>0, <1>10, KnownSame DEF Snapshot, MetricShapes
<1>11. CASE RequestFails(s)
  BY <1>0, <1>11, KnownSame DEF RequestFails, Ends, MetricShapes
<1>12. CASE Unlink(s)
  <2>1. KnownSeen(s)' /\ \A t \in Savers \ {s} : saver'[t] = saver[t]
    BY <1>0, <1>12 DEF Unlink, MetricShapes, AnySaver, Present
  <2>2. metric' = metric /\ edges' \subseteq edges
    BY <1>12 DEF Unlink, Unlinked
  <2>3. QED
    BY <2>1, <2>2 DEF KnownStays, Present
<1>13. CASE MarkDeleted(s)
  <2>1. \A m \in Metrics : Present(m) => Present(m)'
    BY <1>13 DEF MarkDeleted, Present, MetricShapes, AnyRow
  <2>2. /\ saver'[s].pc = "idle" /\ edges' = edges
        /\ \A t \in Savers \ {s} : saver'[t] = saver[t]
    BY <1>0, <1>13 DEF MarkDeleted, MetricShapes
  <2>3. \A t \in Savers : saver[t].kids \in SUBSET Metrics
    BY DEF MetricShapes, AnySaver
  <2>4. QED
    BY <2>1, <2>2, <2>3 DEF MetricShapes, KnownStays
<1>14. QED
  BY <1>1, <1>2, <1>3, <1>4, <1>5, <1>6, <1>7, <1>8, <1>9, <1>10, <1>11, <1>12, <1>13 DEF RequestStep

\* A step that leaves the rows and the edges alone and lets no further request pass the check.
LEMMA AheadStays ==
  ASSUME AcyclicAhead, UNCHANGED <<metric, edges>>, raced' = FALSE => raced = FALSE,
         NEW s \in Savers, \A t \in Savers \ {s} : saver'[t] = saver[t],
         CheckPassed(s)' => CheckPassed(s) /\ After(s)' = After(s)
  PROVE  AcyclicAhead'
<1>1. \A t \in Savers \ {s} : (CheckPassed(t)' <=> CheckPassed(t)) /\ After(t)' = After(t)
  BY DEF CheckPassed, After, Named, Present
<1>2. QED
  BY <1>1 DEF AcyclicAhead

\* A step of the only request there is.
LEMMA AheadAlone ==
  ASSUME MetricShapes, NEW s \in Savers, Race(s), raced' = FALSE,
         \A t \in Savers \ {s} : saver'[t] = saver[t],
         ~HasCycle(Proper(edges')), CheckPassed(s)' => ~HasCycle(Proper(After(s)'))
  PROVE  AcyclicAhead'
<1>1. \A t \in Savers \ {s} : ~CheckPassed(t)'
  BY WritesAlone DEF CheckPassed
<1>2. QED
  BY <1>1 DEF AcyclicAhead

LEMMA AcyclicNext ==
  ASSUME MetricShapes, KnownStays, AcyclicAhead, NEW s \in Savers, RequestStep(s)
  PROVE  AcyclicAhead'
<1>0. saver[s] \in AnySaver /\ NoSaver.pc = "idle"
  BY MetricInvTypes DEF MetricShapes
<1>1. ASSUME NEW m \in Metrics, NEW def \in Definition, BeginSave(s, m, def)
      PROVE  AcyclicAhead'
  BY <1>1, AheadStays DEF BeginSave, MetricShapes, AnySaver, CheckPassed, tables
<1>2. ASSUME NEW m \in Metrics, Rollback(s, m) PROVE AcyclicAhead'
  BY <1>1, <1>2 DEF Rollback, MetricShapes
<1>3. ASSUME NEW m \in Metrics, BeginDelete(s, m) PROVE AcyclicAhead'
  BY <1>3, AheadStays DEF BeginDelete, MetricShapes, AnySaver, CheckPassed, tables
<1>4. CASE Validate(s)
  <2> DEFINE q == saver[s]
  <2>1. q.on \in Metrics /\ q.def \in Definition /\ UNCHANGED <<metric, edges, raced>>
    BY <1>4 DEF Validate, MetricShapes, AnySaver, tables
  <2>2. CASE saver' = [saver EXCEPT ![s] = NoSaver]
    BY <1>0, <2>1, <2>2, AheadStays DEF MetricShapes, CheckPassed
  <2>3. CASE saver' = [saver EXCEPT ![s].pc = "load"] /\ Acyclic(q.on, q.def)
    <3>1. raced = FALSE => ~HasCycle(Proper(Replaced(edges, q.on, Named(q.def))))
      BY <2>1, <2>3, CheckSuffices DEF AcyclicAhead, KnownStays
    <3>2. /\ saver'[s].on = q.on /\ saver'[s].def = q.def /\ saver'[s].pc = "load"
          /\ \A t \in Savers \ {s} : saver'[t] = saver[t]
      BY <1>0, <2>3 DEF MetricShapes, AnySaver
    <3>3. After(s)' = Replaced(edges, q.on, Named(q.def))
      BY <2>1, <3>2 DEF After, Named, Present, Replaced
    <3>4. \A t \in Savers \ {s} : (CheckPassed(t)' <=> CheckPassed(t)) /\ After(t)' = After(t)
      BY <2>1, <3>2 DEF CheckPassed, After, Named, Present, Replaced
    <3>5. QED
      BY <2>1, <3>1, <3>3, <3>4 DEF AcyclicAhead
  <2>4. QED
    BY <1>4, <2>2, <2>3 DEF Validate
<1>5. CASE LoadMetric(s)
  <2>1. /\ UNCHANGED <<metric, edges, raced>> /\ saver[s].pc = "load"
        /\ saver'[s].on = saver[s].on /\ saver'[s].def = saver[s].def /\ saver'[s].pc = "save"
        /\ \A t \in Savers \ {s} : saver'[t] = saver[t]
    BY <1>0, <1>5 DEF LoadMetric, MetricShapes, AnySaver, tables
  <2>2. After(s)' = After(s) /\ CheckPassed(s)
    BY <2>1 DEF After, Named, Present, Replaced, CheckPassed
  <2>3. QED
    BY <2>1, <2>2, AheadStays
<1>6. CASE SaveMetric(s)
  <2> SUFFICES ASSUME raced' = FALSE PROVE AcyclicAhead'
    BY DEF AcyclicAhead
  <2>1. /\ saver[s].pc = "save" /\ saver[s].on \in Metrics /\ saver[s].def \in Definition
        /\ Race(s) /\ edges' = edges
    BY <1>0, <1>6 DEF SaveMetric, MetricShapes, AnySaver
  <2>2. ~HasCycle(Proper(edges)) /\ ~HasCycle(Proper(After(s)))
    BY <2>1, WritesAlone DEF AcyclicAhead, CheckPassed
  <2>3. CASE saver' = [saver EXCEPT ![s] = NoSaver]
    BY <1>0, <2>1, <2>2, <2>3, AheadAlone DEF MetricShapes, CheckPassed
  <2>4. CASE saver' = [saver EXCEPT ![s].pc = "resolve"]
    <3>1. /\ saver'[s].on = saver[s].on /\ saver'[s].def = saver[s].def /\ saver'[s].pc = "resolve"
          /\ \A t \in Savers \ {s} : saver'[t] = saver[t]
      BY <1>0, <2>4 DEF MetricShapes, AnySaver
    <3>2. PICK before : before = Named(saver[s].def)
      OBVIOUS
    <3>3. PICK now : now = {r \in saver[s].def.refs : metric'[r].status # "absent"}
      OBVIOUS
    <3>4. now \ {saver[s].on} \subseteq before
      BY <1>6, <2>1, <3>2, <3>3, SaveWrites, SaverRefs DEF Named, Present
    <3>5. After(s) = Replaced(edges, saver[s].on, before)
      BY <2>1, <3>2 DEF After
    <3>6. After(s)' = Replaced(edges, saver[s].on, now)
      BY <2>1, <3>1, <3>3 DEF After, Named, Present, Replaced
    <3>7. Proper(Replaced(edges, saver[s].on, now)) \subseteq Proper(Replaced(edges, saver[s].on, before))
      BY <3>4 DEF Proper, Replaced
    <3>8. ~HasCycle(Proper(After(s)'))
      BY <2>2, <3>5, <3>6, <3>7, FewerEdges
    <3>9. QED
      BY <2>1, <2>2, <3>1, <3>8, AheadAlone
  <2>5. QED
    BY <1>6, <2>3, <2>4 DEF SaveMetric
<1>7. CASE ResolveEdges(s)
  <2>1. /\ UNCHANGED <<metric, edges, raced>> /\ saver[s].pc = "resolve"
        /\ saver'[s].on = saver[s].on /\ saver'[s].kids = Named(saver[s].def) /\ saver'[s].pc = "clear"
        /\ \A t \in Savers \ {s} : saver'[t] = saver[t]
    BY <1>0, <1>7 DEF ResolveEdges, MetricShapes, AnySaver, tables
  <2>2. After(s)' = After(s) /\ CheckPassed(s)
    BY <2>1 DEF After, Replaced, CheckPassed
  <2>3. QED
    BY <2>1, <2>2, AheadStays
<1>8. CASE ClearEdges(s)
  <2> SUFFICES ASSUME raced' = FALSE PROVE AcyclicAhead'
    BY DEF AcyclicAhead
  <2>1. saver[s].pc = "clear" /\ Race(s) /\ edges' = {e \in edges : e[1] # saver[s].on}
    BY <1>8 DEF ClearEdges, Cleared
  <2>2. ~HasCycle(Proper(edges)) /\ ~HasCycle(Proper(After(s)))
    BY <2>1, WritesAlone DEF AcyclicAhead, CheckPassed
  <2>3. Proper(edges') \subseteq Proper(edges)
    BY <2>1 DEF Proper
  <2>4. PICK pc \in {"version", "insert"} : saver' = [saver EXCEPT ![s].pc = pc]
    BY <1>8 DEF ClearEdges
  <2>5. /\ saver'[s].on = saver[s].on /\ saver'[s].kids = saver[s].kids /\ saver'[s].pc = pc
        /\ \A t \in Savers \ {s} : saver'[t] = saver[t]
    BY <1>0, <2>4 DEF MetricShapes, AnySaver
  <2>6. CheckPassed(s)' => After(s)' = After(s)
    BY <2>1, <2>5 DEF CheckPassed, After, Replaced
  <2>7. ~HasCycle(Proper(edges'))
    BY <2>2, <2>3, FewerEdges
  <2>8. QED
    BY <2>1, <2>2, <2>5, <2>6, <2>7, AheadAlone
<1>9. CASE InsertEdges(s)
  <2>1. saver[s].pc = "insert"
    BY <1>9 DEF InsertEdges
  <2>2. CASE saver' = [saver EXCEPT ![s] = NoSaver] /\ UNCHANGED <<metric, edges, raced>>
    BY <1>0, <2>2, AheadStays DEF MetricShapes, CheckPassed
  <2>3. CASE /\ saver' = [saver EXCEPT ![s].pc = "version"] /\ Race(s)
             /\ edges' = edges \cup ({saver[s].on} \X saver[s].kids)
    <3> SUFFICES ASSUME raced' = FALSE PROVE AcyclicAhead'
      BY DEF AcyclicAhead
    <3>1. edges' = After(s)
      BY <2>1, <2>3 DEF After
    <3>2. ~HasCycle(Proper(edges'))
      BY <2>1, <2>3, <3>1, WritesAlone DEF AcyclicAhead, CheckPassed
    <3>3. ~CheckPassed(s)' /\ \A t \in Savers \ {s} : saver'[t] = saver[t]
      BY <1>0, <2>3 DEF MetricShapes, AnySaver, CheckPassed
    <3>4. QED
      BY <2>3, <3>2, <3>3, AheadAlone
  <2>4. QED
    BY <1>9, <2>2, <2>3 DEF InsertEdges, Ends
<1>10. CASE Snapshot(s)
  <2>1. /\ saver'[s].pc = "idle" /\ UNCHANGED <<metric, edges>> /\ (raced' = FALSE => raced = FALSE)
        /\ \A t \in Savers \ {s} : saver'[t] = saver[t]
    BY <1>0, <1>10 DEF Snapshot, Race, MetricShapes
  <2>2. QED
    BY <2>1, AheadStays DEF CheckPassed
<1>11. CASE RequestFails(s)
  BY <1>0, <1>11, AheadStays DEF RequestFails, Ends, MetricShapes, CheckPassed
<1>12. CASE Unlink(s)
  <2> SUFFICES ASSUME raced' = FALSE PROVE AcyclicAhead'
    BY DEF AcyclicAhead
  <2>1. Race(s) /\ Proper(edges') \subseteq Proper(edges)
    BY <1>12 DEF Unlink, Unlinked, Proper
  <2>2. ~HasCycle(Proper(edges'))
    BY <2>1, WritesAlone, FewerEdges DEF AcyclicAhead
  <2>3. ~CheckPassed(s)' /\ \A t \in Savers \ {s} : saver'[t] = saver[t]
    BY <1>0, <1>12 DEF Unlink, MetricShapes, AnySaver, CheckPassed
  <2>4. QED
    BY <2>1, <2>2, <2>3, AheadAlone
<1>13. CASE MarkDeleted(s)
  <2> SUFFICES ASSUME raced' = FALSE PROVE AcyclicAhead'
    BY DEF AcyclicAhead
  <2>1. /\ Race(s) /\ edges' = edges /\ saver'[s].pc = "idle"
        /\ \A t \in Savers \ {s} : saver'[t] = saver[t]
    BY <1>0, <1>13 DEF MarkDeleted, MetricShapes
  <2>2. ~HasCycle(Proper(edges))
    BY <2>1, WritesAlone DEF AcyclicAhead
  <2>3. QED
    BY <2>1, <2>2, AheadAlone DEF CheckPassed
<1>14. QED
  BY <1>1, <1>2, <1>3, <1>4, <1>5, <1>6, <1>7, <1>8, <1>9, <1>10, <1>11, <1>12, <1>13 DEF RequestStep

LEMMA MetricInvNext == MetricInv /\ [MetricNext /\ UNCHANGED driver]_<<driver, metricVars>> => MetricInv'
<1> SUFFICES ASSUME MetricInv, [MetricNext /\ UNCHANGED driver]_<<driver, metricVars>> PROVE MetricInv'
  OBVIOUS
<1>1. CASE MetricNext
  BY <1>1, MetricShapesNext, KnownNext, AcyclicNext DEF MetricInv, MetricNext
<1>2. CASE UNCHANGED metricVars
  <2>1. UNCHANGED <<metric, edges, versions, saver, raced>>
    BY <1>2 DEF metricVars
  <2>2. \A s \in Savers : After(s)' = After(s)
    BY <2>1 DEF After, Named, Present, Replaced
  <2>3. QED
    BY <2>1, <2>2 DEF MetricInv, MetricShapes, KnownStays, KnownSeen, Present, AcyclicAhead, CheckPassed
<1>3. QED
  BY <1>1, <1>2

\* GraphAcyclic (assertNoCycle in metric.service.js): as long as no two requests overlap,
\* no sequence of saves, rollbacks and deletions, carried out or ended midway, makes a metric
\* depend on itself by way of another, although the check does not walk when the metrics
\* referred to have no edges, and not at all for a new metric.
THEOREM GraphAcyclicHolds == MetricSpec => []GraphAcyclic
<1>1. MetricInv => GraphAcyclic
  BY DEF MetricInv, MetricShapes, AcyclicAhead, GraphAcyclic
<1>2. QED
  BY MetricInvInit, MetricInvNext, <1>1, PTL DEF MetricSpec

-----------------------------------------------------------------------------
(* MetricGraph: the tables agree again once nobody writes.                *)

\* A request between its first write and its last.
InMiddle      == {"resolve", "clear", "insert", "version", "mark"}
HalfWay(s, m) == saver[s].pc \in InMiddle /\ saver[s].on = m

\* The versions of m up to the last one are kept, but for the lost ones.
Numbers(V, m) == {v[2] : v \in {w \in V : w[1] = m}}
KeptUpTo(m, last) ==
  /\ Numbers(versions, m) = {n \in 1 .. last : <<m, n>> \notin lost}
  /\ \A n : <<m, n>> \in lost => n \in 1 .. last
VersionsFit(m) ==
  /\ KeptUpTo(m, metric[m].version)
  /\ metric[m].version > 0 /\ <<m, metric[m].version>> \notin lost =>
       <<m, metric[m].version, metric[m].def>> \in versions

\* What a request has read and checked is what is there.
UpToDate(s) ==
  /\ saver[s].pc \in {"check", "load", "save"} =>
       saver[s].existing = metric[saver[s].on] /\ saver[s].existing.status # "deleted"
  /\ saver[s].pc \in {"load", "save", "resolve", "clear", "insert"} =>
       /\ saver[s].def.type = "COMPOSITE" => \A r \in saver[s].def.refs : Active(r)
       /\ saver[s].def.type # "ATOMIC" => \A r \in saver[s].def.refs : Present(r)
  /\ saver[s].pc = "save" => saver[s].row = metric[saver[s].on]
  /\ saver[s].pc \in {"unlink", "mark"} =>
       metric[saver[s].on].status = "active" /\ \A e \in edges : e[2] # saver[s].on

\* What a request has written of its metric so far.
HalfWritten(s, m) ==
  /\ saver[s].pc \in {"resolve", "clear", "insert", "version"} =>
       /\ metric[m].status = "active" /\ metric[m].def = saver[s].def
       /\ metric[m].version = saver[s].existing.version + 1
       /\ KeptUpTo(m, saver[s].existing.version)
  /\ saver[s].pc \in {"clear", "insert"} =>
       saver[s].kids = saver[s].def.refs \/ (saver[s].kids = {} /\ saver[s].def.type = "ATOMIC")
  /\ saver[s].pc \in {"insert", "mark"} => \A e \in edges : e[1] # m
  /\ saver[s].pc = "version" => EdgesFit(m)
  /\ saver[s].pc = "mark" => VersionsFit(m)

\* Unless requests overlapped, one request writes at a time, and the tables agree on every
\* metric no request is midway with; the edges of a torn one need not.
TablesAhead ==
  raced = FALSE =>
    /\ \A s \in Savers : UpToDate(s)
    /\ \A s, t \in Savers : saver[s].pc \in InMiddle /\ saver[t].pc \in InMiddle => s = t
    /\ \A m \in Metrics : \/ (m \in torn \/ EdgesFit(m)) /\ VersionsFit(m)
                          \/ \E s \in Savers : HalfWay(s, m)
    /\ \A m \in Metrics, s \in Savers : HalfWay(s, m) => HalfWritten(s, m)

LEMMA NumbersAdded ==
  \A V, t, m : Numbers(V \cup {t}, m) = Numbers(V, m) \cup (IF t[1] = m THEN {t[2]} ELSE {})
<1> SUFFICES ASSUME NEW V, NEW t, NEW m, NEW W, W = V \cup {t}
             PROVE  /\ t[1] = m => Numbers(W, m) = Numbers(V, m) \cup {t[2]}
                    /\ t[1] # m => Numbers(W, m) = Numbers(V, m)
  OBVIOUS
<1>1. \A x : x \in Numbers(W, m) <=> \E v \in W : v[1] = m /\ v[2] = x
  BY DEF Numbers
<1>2. \A x : x \in Numbers(V, m) <=> \E v \in V : v[1] = m /\ v[2] = x
  BY DEF Numbers
<1>3. \A x : x \in Numbers(W, m) <=> x \in Numbers(V, m) \/ (t[1] = m /\ x = t[2])
  BY <1>1, <1>2
<1>4. QED
  BY <1>3

LEMMA TablesInit == MetricInit => TablesAhead
<1> SUFFICES ASSUME MetricInit PROVE TablesAhead
  OBVIOUS
<1>1. \A s \in Savers : saver[s].pc = "idle"
  BY DEF MetricInit, NoSaver
<1>2. \A m \in Metrics : metric[m].status = "absent" /\ metric[m].version = 0
  BY DEF MetricInit, NoRow
<1>3. \A m \in Metrics : EdgesFit(m)
  BY <1>2 DEF MetricInit, EdgesFit, Children, Active
<1>4. \A m \in Metrics : VersionsFit(m)
  BY <1>2 DEF MetricInit, VersionsFit, Numbers, KeptUpTo
<1>5. QED
  BY <1>1, <1>3, <1>4 DEF TablesAhead, UpToDate, HalfWay, InMiddle

\* The fits depend on the tables only.
LEMMA FitsSame ==
  ASSUME UNCHANGED <<metric, edges>>
  PROVE  /\ \A m \in Metrics : EdgesFit(m)' <=> EdgesFit(m)
         /\ UNCHANGED <<versions, lost>> => \A m \in Metrics : VersionsFit(m)' <=> VersionsFit(m)
  BY DEF EdgesFit, VersionsFit, KeptUpTo, Active

\* A step that reads.
LEMMA TablesRead ==
  ASSUME MetricShapes, TablesAhead, NEW s \in Savers, NEW q \in AnySaver, saver' = [saver EXCEPT ![s] = q],
         UNCHANGED tables, saver[s].pc \in InMiddle <=> q.pc \in InMiddle,
         q.pc \in InMiddle => q.on = saver[s].on,
         raced = FALSE => UpToDate(s)' /\ \A m \in Metrics : HalfWay(s, m)' => HalfWritten(s, m)'
  PROVE  TablesAhead'
<1>1. saver'[s] = q /\ \A t \in Savers \ {s} : saver'[t] = saver[t]
  BY DEF MetricShapes
<1>0. UNCHANGED <<metric, edges, versions, torn, lost, raced>>
  BY DEF tables
<1> SUFFICES ASSUME raced = FALSE PROVE TablesAhead'
  BY <1>0 DEF TablesAhead
<1>2. \A t \in Savers \ {s} : UpToDate(t)'
  BY <1>0, <1>1 DEF TablesAhead, UpToDate, Active, Present
<1>3. \A m \in Metrics : (EdgesFit(m)' <=> EdgesFit(m)) /\ (VersionsFit(m)' <=> VersionsFit(m))
  BY <1>0, FitsSame
<1>4. \A m \in Metrics, t \in Savers : HalfWay(t, m)' <=> HalfWay(t, m)
  BY <1>1 DEF HalfWay
<1>5. \A m \in Metrics, t \in Savers \ {s} : HalfWay(t, m) /\ HalfWritten(t, m) => HalfWritten(t, m)'
  BY <1>0, <1>1, <1>3 DEF HalfWay, HalfWritten, KeptUpTo
<1>6. \A t \in Savers : saver'[t].pc \in InMiddle <=> saver[t].pc \in InMiddle
  BY <1>1
<1>7. QED
  BY <1>0, <1>2, <1>3, <1>4, <1>5, <1>6 DEF TablesAhead

\* A step that writes, of the only request there is.
LEMMA TablesWritten ==
  ASSUME MetricShapes, TablesAhead, NEW s \in Savers, saver[s].pc # "idle", Race(s), raced' = FALSE,
         NEW m \in Metrics, saver[s].on = m, NEW q \in AnySaver, saver' = [saver EXCEPT ![s] = q],
         q.pc = "idle" \/ q.on = m,
         UpToDate(s)', torn \ {m} \subseteq torn',
         \A n \in Metrics \ {m} : EdgesFit(n) => EdgesFit(n)',
         \A n \in Metrics \ {m} : VersionsFit(n) => VersionsFit(n)',
         q.pc \in InMiddle => HalfWritten(s, m)',
         q.pc \notin InMiddle => EdgesFit(m)' /\ VersionsFit(m)'
  PROVE  TablesAhead'
<1>1. saver'[s] = q /\ \A t \in Savers \ {s} : saver'[t] = saver[t]
  BY DEF MetricShapes
<1>2. raced = FALSE /\ \A t \in Savers \ {s} : saver[t].pc = "idle"
  BY WritesAlone
<1>3. \A n \in Metrics \ {m} : (n \in torn \/ EdgesFit(n)) /\ VersionsFit(n)
  BY <1>2 DEF TablesAhead, HalfWay, InMiddle
<1>4. \A n \in Metrics \ {m} : (n \in torn' \/ EdgesFit(n)') /\ VersionsFit(n)'
  BY <1>3
<1>5. \A t \in Savers \ {s} : UpToDate(t)' /\ saver'[t].pc \notin InMiddle
  BY <1>1, <1>2 DEF UpToDate, InMiddle
<1>6. \A n \in Metrics, t \in Savers : HalfWay(t, n)' => t = s /\ n = m
  BY <1>1, <1>5 DEF HalfWay, InMiddle
<1>7. HalfWay(s, m)' <=> q.pc \in InMiddle
  BY <1>1 DEF HalfWay, InMiddle
<1>8. QED
  BY <1>4, <1>5, <1>6, <1>7 DEF TablesAhead

LEMMA TablesReads ==
  ASSUME MetricShapes, TablesAhead, NEW s \in Savers,
         \/ \E m \in Metrics : (\E def \in Definition : BeginSave(s, m, def)) \/ Rollback(s, m)
         \/ \E m \in Metrics : BeginDelete(s, m)
         \/ Validate(s) \/ LoadMetric(s)
  PROVE  TablesAhead'
<1>0. /\ saver[s] \in AnySaver /\ NoSaver \in AnySaver /\ NoSaver.pc = "idle"
      /\ saver[s].pc # "idle" => saver[s].on \in Metrics
  BY MetricInvTypes DEF MetricShapes
<1>1. ASSUME NEW m \in Metrics, NEW def \in Definition, BeginSave(s, m, def) PROVE TablesAhead'
  <2>1. PICK q : q = [saver[s] EXCEPT !.pc = "check", !.on = m, !.def = def, !.existing = metric[m]]
    OBVIOUS
  <2>2. metric[m] \in AnyRow
    BY DEF MetricShapes
  <2>3. q \in AnySaver /\ q.pc = "check" /\ q.on = m /\ q.existing = metric[m]
    BY <1>0, <2>1, <2>2 DEF AnySaver, SaverSteps
  <2>4. /\ saver' = [saver EXCEPT ![s] = q] /\ saver[s].pc = "idle" /\ metric[m].status # "deleted"
        /\ UNCHANGED tables /\ UNCHANGED metric
    BY <1>1, <2>1 DEF BeginSave, tables
  <2>5. saver'[s] = q
    BY <2>4 DEF MetricShapes
  <2>6. UpToDate(s)' /\ \A n \in Metrics : ~HalfWay(s, n)'
    BY <2>3, <2>4, <2>5 DEF UpToDate, HalfWay, InMiddle
  <2>7. q.pc \notin InMiddle /\ saver[s].pc \notin InMiddle
    BY <2>3, <2>4 DEF InMiddle
  <2>8. QED
    BY <2>3, <2>4, <2>6, <2>7, TablesRead
<1>2. ASSUME NEW m \in Metrics, Rollback(s, m) PROVE TablesAhead'
  BY <1>1, <1>2 DEF Rollback, MetricShapes
<1>3. ASSUME NEW m \in Metrics, BeginDelete(s, m) PROVE TablesAhead'
  <2>1. PICK q : q = [saver[s] EXCEPT !.pc = "unlink", !.on = m, !.existing = metric[m]]
    OBVIOUS
  <2>2. metric[m] \in AnyRow
    BY DEF MetricShapes
  <2>3. q \in AnySaver /\ q.pc = "unlink" /\ q.on = m
    BY <1>0, <2>1, <2>2 DEF AnySaver, SaverSteps
  <2>4. /\ saver' = [saver EXCEPT ![s] = q] /\ saver[s].pc = "idle"
        /\ UNCHANGED tables /\ UNCHANGED <<metric, edges>>
    BY <1>3, <2>1 DEF BeginDelete, tables
  <2>5. metric[m].status = "active" /\ \A e \in edges : e[2] # m
    <3>1. metric[m].status = "active" /\ \A p \in Metrics : <<p, m>> \notin edges
      BY <1>3 DEF BeginDelete, Active, Children
    <3>2. \A e \in edges : e[1] \in Metrics /\ e = <<e[1], e[2]>>
      BY DEF MetricShapes
    <3>3. QED
      BY <3>1, <3>2
  <2>6. saver'[s] = q
    BY <2>4 DEF MetricShapes
  <2>7. UpToDate(s)' /\ \A n \in Metrics : ~HalfWay(s, n)'
    BY <2>3, <2>4, <2>5, <2>6 DEF UpToDate, HalfWay, InMiddle
  <2>8. q.pc \notin InMiddle /\ saver[s].pc \notin InMiddle
    BY <2>3, <2>4 DEF InMiddle
  <2>9. QED
    BY <2>3, <2>4, <2>7, <2>8, TablesRead
<1>4. CASE Validate(s)
  <2>1. saver[s].pc = "check" /\ UNCHANGED tables /\ UNCHANGED <<metric, edges>>
    BY <1>4 DEF Validate, tables
  <2>2. saver[s].pc \notin InMiddle
    BY <2>1 DEF InMiddle
  <2>3. CASE saver' = [saver EXCEPT ![s] = NoSaver]
    <3>1. saver'[s] = NoSaver
      BY <2>3 DEF MetricShapes
    <3>2. UpToDate(s)' /\ NoSaver.pc \notin InMiddle /\ \A n \in Metrics : ~HalfWay(s, n)'
      BY <1>0, <3>1 DEF UpToDate, HalfWay, InMiddle
    <3>3. QED
      BY <1>0, <2>1, <2>2, <2>3, <3>2, TablesRead
  <2>4. CASE saver' = [saver EXCEPT ![s].pc = "load"] /\ RefsValid(saver[s].on, saver[s].def)
    <3>1. PICK q : q = [saver[s] EXCEPT !.pc = "load"]
      OBVIOUS
    <3>2. /\ q \in AnySaver /\ q.pc = "load" /\ q.on = saver[s].on /\ q.def = saver[s].def
          /\ q.existing = saver[s].existing
      BY <1>0, <3>1 DEF AnySaver, SaverSteps
    <3>3. saver' = [saver EXCEPT ![s] = q]
      BY <2>4, <3>1
    <3>4. saver'[s] = q
      BY <3>3 DEF MetricShapes
    <3>5. /\ saver[s].def.type = "COMPOSITE" => \A r \in saver[s].def.refs : Active(r)
          /\ saver[s].def.type # "ATOMIC" => \A r \in saver[s].def.refs : Present(r)
      <4>1. saver[s].def.type \in {"ATOMIC", "DERIVED", "COMPOSITE"}
        BY <1>0 DEF AnySaver, Definition
      <4>2. \A r : Active(r) => Present(r)
        BY DEF Active, Present
      <4>3. CASE saver[s].def.type = "ATOMIC"
        BY <4>3
      <4>4. CASE saver[s].def.type = "DERIVED"
        BY <2>4, <4>4 DEF RefsValid, Named
      <4>5. CASE saver[s].def.type = "COMPOSITE"
        BY <2>4, <4>2, <4>5 DEF RefsValid
      <4>6. QED
        BY <4>1, <4>3, <4>4, <4>5
    <3>6. raced = FALSE => UpToDate(s)'
      BY <2>1, <3>2, <3>4, <3>5 DEF UpToDate, TablesAhead, Active, Present
    <3>7. q.pc \notin InMiddle /\ \A n \in Metrics : ~HalfWay(s, n)'
      BY <3>2, <3>4 DEF HalfWay, InMiddle
    <3>8. QED
      BY <2>1, <2>2, <3>2, <3>3, <3>6, <3>7, TablesRead
  <2>5. QED
    BY <1>4, <2>3, <2>4 DEF Validate
<1>5. CASE LoadMetric(s)
  <2>1. PICK q : q = [saver[s] EXCEPT !.pc = "save", !.row = metric[saver[s].on]]
    OBVIOUS
  <2>2. saver[s].pc = "load" /\ saver' = [saver EXCEPT ![s] = q]
        /\ UNCHANGED tables /\ UNCHANGED <<metric, edges>>
    BY <1>5, <2>1 DEF LoadMetric, tables
  <2>3. metric[saver[s].on] \in AnyRow
    BY <1>0, <2>2 DEF MetricShapes
  <2>4. /\ q \in AnySaver /\ q.pc = "save" /\ q.on = saver[s].on /\ q.def = saver[s].def
        /\ q.existing = saver[s].existing /\ q.row = metric[saver[s].on]
    BY <1>0, <2>1, <2>3 DEF AnySaver, SaverSteps
  <2>5. saver'[s] = q
    BY <2>2 DEF MetricShapes
  <2>6. raced = FALSE => UpToDate(s)'
    BY <2>2, <2>4, <2>5 DEF UpToDate, TablesAhead, Active, Present
  <2>7. /\ q.pc \notin InMiddle /\ saver[s].pc \notin InMiddle
        /\ \A n \in Metrics : ~HalfWay(s, n)'
    BY <2>2, <2>4, <2>5 DEF HalfWay, InMiddle
  <2>8. QED
    BY <2>2, <2>4, <2>6, <2>7, TablesRead
<1>6. QED
  BY <1>1, <1>2, <1>3, <1>4, <1>5

LEMMA ResolveKeepsTables ==
  ASSUME MetricShapes, TablesAhead, NEW s \in Savers, ResolveEdges(s)
  PROVE  TablesAhead'
<1>1. /\ saver[s] \in AnySaver /\ saver[s].pc = "resolve" /\ saver[s].on \in Metrics
      /\ UNCHANGED tables /\ UNCHANGED <<metric, edges, versions, torn, lost, raced>>
  BY DEF MetricShapes, ResolveEdges, tables
<1>2. PICK q : q = [saver[s] EXCEPT !.pc = "clear", !.kids = Named(saver[s].def)]
  OBVIOUS
<1>3. saver[s].def \in Definition /\ Named(saver[s].def) \in SUBSET Metrics
  BY <1>1, SaverRefs DEF AnySaver
<1>4. /\ q \in AnySaver /\ q.pc = "clear" /\ q.on = saver[s].on /\ q.def = saver[s].def
      /\ q.existing = saver[s].existing /\ q.kids = Named(saver[s].def)
  BY <1>1, <1>2, <1>3 DEF AnySaver, SaverSteps
<1>5. saver' = [saver EXCEPT ![s] = q] /\ saver'[s] = q
  BY <1>2 DEF ResolveEdges, MetricShapes
<1>6. saver[s].pc \in InMiddle /\ q.pc \in InMiddle
  BY <1>1, <1>4 DEF InMiddle
<1>7. ASSUME raced = FALSE, NEW m \in Metrics, HalfWay(s, m)' PROVE HalfWritten(s, m)'
  <2>1. HalfWay(s, m) /\ m = saver[s].on
    BY <1>4, <1>5, <1>6, <1>7 DEF HalfWay
  <2>2. HalfWritten(s, m)
    BY <1>7, <2>1 DEF TablesAhead
  <2>3. q.kids = saver[s].def.refs \/ (q.kids = {} /\ saver[s].def.type = "ATOMIC")
    <3>1. CASE saver[s].def.type = "ATOMIC"
      <4>1. saver[s].def.refs = {} \/ \E b \in Metrics : saver[s].def.refs = {b}
        BY <1>3, <3>1 DEF Definition
      <4>2. QED
        BY <1>4, <3>1, <4>1 DEF Named
    <3>2. CASE saver[s].def.type # "ATOMIC"
      <4>1. \A r \in saver[s].def.refs : Present(r)
        BY <1>1, <1>7, <3>2 DEF TablesAhead, UpToDate
      <4>2. QED
        BY <1>4, <4>1 DEF Named
    <3>3. QED
      BY <3>1, <3>2
  <2>4. KeptUpTo(m, q.existing.version)' <=> KeptUpTo(m, q.existing.version)
    BY <1>1 DEF KeptUpTo
  <2>5. QED
    BY <1>1, <1>4, <1>5, <2>2, <2>3, <2>4 DEF HalfWritten, KeptUpTo
<1>8. raced = FALSE => UpToDate(s)'
  BY <1>1, <1>4, <1>5 DEF TablesAhead, UpToDate, Active, Present
<1>9. QED
  BY <1>1, <1>4, <1>5, <1>6, <1>7, <1>8, TablesRead

\* Wherever a request ends, its metric is torn if it has written and is not done.
LEMMA EndKeepsTables ==
  ASSUME MetricShapes, TablesAhead, NEW s \in Savers, saver[s].pc # "idle", Ends(s),
         UNCHANGED <<metric, edges, versions, raced>>
  PROVE  TablesAhead'
<1> SUFFICES ASSUME raced = FALSE PROVE TablesAhead'
  BY DEF TablesAhead
<1>0. PICK m \in Metrics : m = saver[s].on
  BY DEF MetricShapes
<1>1. /\ saver[s] \in AnySaver /\ saver'[s] = NoSaver /\ NoSaver.pc = "idle"
      /\ \A t \in Savers \ {s} : saver'[t] = saver[t]
  BY MetricInvTypes DEF MetricShapes, Ends
<1>2. \A t \in Savers : UpToDate(t)'
  BY <1>1 DEF TablesAhead, UpToDate, Active, Present
<1>3. \A t \in Savers : saver'[t].pc \in InMiddle => saver[t].pc \in InMiddle /\ t # s
  BY <1>1 DEF InMiddle
<1>4. \A n \in Metrics : EdgesFit(n)' <=> EdgesFit(n)
  BY FitsSame
<1>5. CASE saver[s].pc \notin InMiddle
  <2>1. torn' = torn /\ lost' = lost
    BY <1>5 DEF Ends, InMiddle
  <2>2. \A n \in Metrics : VersionsFit(n)' <=> VersionsFit(n)
    BY <2>1, FitsSame
  <2>3. \A n \in Metrics, t \in Savers : HalfWay(t, n)' <=> HalfWay(t, n)
    BY <1>1, <1>5 DEF HalfWay, InMiddle
  <2>4. \A n \in Metrics, t \in Savers : HalfWay(t, n) /\ HalfWritten(t, n) => HalfWritten(t, n)'
    BY <1>1, <1>4, <1>5, <2>1, <2>2 DEF HalfWay, HalfWritten, KeptUpTo
  <2>5. QED
    BY <1>2, <1>3, <1>4, <2>1, <2>2, <2>3, <2>4 DEF TablesAhead
<1>6. CASE saver[s].pc \in InMiddle
  <2>1. \A n \in Metrics, t \in Savers : ~HalfWay(t, n)'
    BY <1>3, <1>6 DEF TablesAhead, HalfWay
  <2>2. torn' = torn \cup {m}
    BY <1>0, <1>6 DEF Ends, InMiddle
  <2>3. \A n \in Metrics \ {m} : (n \in torn \/ EdgesFit(n)) /\ VersionsFit(n)
    BY <1>0, <1>6 DEF TablesAhead, HalfWay
  <2>4. HalfWritten(s, m)
    BY <1>0, <1>6 DEF TablesAhead, HalfWay
  <2>5. CASE saver[s].pc = "mark"
    <3>1. lost' = lost
      BY <2>5 DEF Ends
    <3>2. \A n \in Metrics : VersionsFit(n)' <=> VersionsFit(n)
      BY <3>1, FitsSame
    <3>3. VersionsFit(m)
      BY <2>4, <2>5 DEF HalfWritten
    <3>4. QED
      BY <1>2, <1>3, <1>4, <2>1, <2>2, <2>3, <3>2, <3>3 DEF TablesAhead
  <2>6. CASE saver[s].pc # "mark"
    <3>1. PICK n : n = saver[s].existing.version
      OBVIOUS
    <3>2. n \in Nat /\ metric[m].version = n + 1 /\ KeptUpTo(m, n)
      BY <1>1, <1>6, <2>4, <2>6, <3>1 DEF HalfWritten, InMiddle, AnySaver, AnyRow
    <3>3. lost' = lost \cup {<<m, n + 1>>}
      BY <1>0, <1>6, <2>6, <3>1 DEF Ends, InMiddle, VersionOf
    <3>4. \A i : <<m, i>> \in lost' <=> <<m, i>> \in lost \/ i = n + 1
      BY <3>3
    <3>5. {i \in 1 .. n + 1 : <<m, i>> \notin lost'} = {i \in 1 .. n : <<m, i>> \notin lost}
      <4>1. \A i : i \in 1 .. n + 1 /\ i # n + 1 <=> i \in 1 .. n
        BY <3>2
      <4>2. QED
        BY <3>4, <4>1
    <3>6. VersionsFit(m)'
      <4>1. \A i : <<m, i>> \in lost' => i \in 1 .. n + 1
        BY <3>2, <3>4 DEF KeptUpTo
      <4>2. QED
        BY <3>2, <3>4, <3>5, <4>1 DEF VersionsFit, KeptUpTo
    <3>7. \A o \in Metrics \ {m} : \A i : <<o, i>> \in lost' <=> <<o, i>> \in lost
      BY <3>3
    <3>8. \A o \in Metrics \ {m} : VersionsFit(o)' <=> VersionsFit(o)
      BY <3>7 DEF VersionsFit, KeptUpTo
    <3>9. QED
      BY <1>2, <1>3, <1>4, <2>1, <2>2, <2>3, <3>6, <3>8 DEF TablesAhead
  <2>7. QED
    BY <2>5, <2>6
<1>7. QED
  BY <1>5, <1>6

LEMMA SaveKeepsTables ==
  ASSUME MetricShapes, TablesAhead, NEW s \in Savers, SaveMetric(s), raced' = FALSE
  PROVE  TablesAhead'
<1>0. /\ saver[s] \in AnySaver /\ saver[s].pc = "save" /\ saver[s].on \in Metrics /\ Race(s)
      /\ UNCHANGED <<edges, versions, torn, lost>>
  BY DEF MetricShapes, SaveMetric
<1>1. raced = FALSE
  BY <1>0, WritesAlone
<1>2. PICK m \in Metrics : m = saver[s].on
  BY <1>0
<1>3. /\ saver[s].existing = metric[m] /\ saver[s].row = metric[m] /\ metric[m].status # "deleted"
      /\ metric[m] \in AnyRow
      /\ saver[s].def.type = "COMPOSITE" => \A r \in saver[s].def.refs : Active(r)
      /\ saver[s].def.type # "ATOMIC" => \A r \in saver[s].def.refs : Present(r)
  BY <1>0, <1>1, <1>2 DEF TablesAhead, UpToDate, MetricShapes
<1>4. VersionsFit(m)
  <2>1. \A t \in Savers \ {s} : saver[t].pc = "idle"
    BY <1>0, WritesAlone
  <2>2. \A t \in Savers, n \in Metrics : ~HalfWay(t, n)
    BY <1>0, <2>1 DEF HalfWay, InMiddle
  <2>3. QED
    BY <1>1, <2>2 DEF TablesAhead
<1>6. PICK new : new = [status |-> "active", def |-> saver[s].def, version |-> metric[m].version + 1]
  OBVIOUS
<1>7. PICK q : q = [saver[s] EXCEPT !.pc = "resolve"]
  OBVIOUS
<1>8. new.status = "active" /\ new.def = saver[s].def /\ new.version = metric[m].version + 1
  BY <1>6
<1>9. /\ q \in AnySaver /\ q.pc = "resolve" /\ q.on = m /\ q.def = saver[s].def
      /\ q.existing = saver[s].existing
  BY <1>0, <1>2, <1>7 DEF AnySaver, SaverSteps
<1>10. metric' = [metric EXCEPT ![m] = new] /\ saver' = [saver EXCEPT ![s] = q]
  <2>1. metric[m].status = "absent" \/ metric[m].status = "active"
    BY <1>3 DEF AnyRow
  <2>2. ASSUME saver[s].existing.status = "absent", Present(saver[s].on) PROVE FALSE
    BY <1>2, <1>3, <2>2 DEF Present
  <2>3. /\ metric' = [metric EXCEPT ![saver[s].on] =
              [status |-> IF saver[s].existing.status = "absent" THEN "active" ELSE saver[s].row.status,
               def |-> saver[s].def, version |-> VersionOf(saver[s])]]
        /\ saver' = [saver EXCEPT ![s].pc = "resolve"]
    BY <2>2 DEF SaveMetric
  <2>4. (IF saver[s].existing.status = "absent" THEN "active" ELSE saver[s].row.status) = "active"
    BY <1>3, <2>1
  <2>5. VersionOf(saver[s]) = metric[m].version + 1
    BY <1>3 DEF VersionOf
  <2>6. QED
    BY <1>2, <1>6, <1>7, <2>3, <2>4, <2>5
<1>11. /\ metric'[m] = new /\ saver'[s] = q
       /\ \A n \in Metrics \ {m} : metric'[n] = metric[n]
  BY <1>10 DEF MetricShapes
<1>12. \A n \in Metrics : (Active(n) => Active(n)') /\ (Present(n) => Present(n)')
  BY <1>8, <1>11 DEF Active, Present
<1>13. UpToDate(s)'
  BY <1>3, <1>9, <1>11, <1>12 DEF UpToDate, MetricShapes, AnySaver, Definition
<1>14. \A n \in Metrics : metric[n].def.refs \in SUBSET Metrics
  BY SaverRefs DEF MetricShapes, AnyRow
<1>15. ASSUME NEW n \in Metrics \ {m} PROVE (EdgesFit(n) => EdgesFit(n)') /\ (VersionsFit(n) => VersionsFit(n)')
  <2>1. Active(n)' <=> Active(n)
    BY <1>11 DEF Active
  <2>2. EdgesFit(n) => EdgesFit(n)'
    BY <1>0, <1>11, <1>12, <1>14, <2>1 DEF EdgesFit
  <2>3. QED
    BY <1>0, <1>11, <2>2 DEF VersionsFit, KeptUpTo
<1>16. HalfWritten(s, m)'
  BY <1>0, <1>3, <1>4, <1>8, <1>9, <1>11 DEF HalfWritten, VersionsFit, KeptUpTo
<1>17. q.pc \in InMiddle
  BY <1>9 DEF InMiddle
<1>18. torn \ {m} \subseteq torn'
  BY <1>0
<1>19. QED
  BY <1>0, <1>2, <1>9, <1>10, <1>13, <1>15, <1>16, <1>17, <1>18, TablesWritten

\* The edges a request has written fit the row it wrote before.
LEMMA KidsFit ==
  ASSUME MetricShapes, TablesAhead, NEW s \in Savers, NEW m \in Metrics, m = saver[s].on,
         saver[s].pc \in {"clear", "insert"}, raced = FALSE, metric' = metric,
         Children(edges', m) = saver[s].kids
  PROVE  EdgesFit(m)'
<1>1. HalfWritten(s, m) /\ UpToDate(s)
  BY DEF TablesAhead, HalfWay, InMiddle
<1>2. /\ metric[m].status = "active" /\ metric[m].def = saver[s].def
      /\ saver[s].kids = saver[s].def.refs \/ (saver[s].kids = {} /\ saver[s].def.type = "ATOMIC")
  BY <1>1 DEF HalfWritten
<1>3. saver[s].def.type = "COMPOSITE" => \A r \in saver[s].def.refs : Active(r)
  BY <1>1 DEF UpToDate
<1>4. QED
  BY <1>2, <1>3 DEF EdgesFit, Active

LEMMA EdgesKeepTables ==
  ASSUME MetricShapes, TablesAhead, NEW s \in Savers, raced' = FALSE, Race(s),
         \/ ClearEdges(s) \/ Unlink(s)
         \/ InsertEdges(s) /\ saver' = [saver EXCEPT ![s].pc = "version"]
  PROVE  TablesAhead'
<1>0. /\ saver[s] \in AnySaver /\ saver[s].pc \in {"clear", "insert", "unlink"} /\ saver[s].on \in Metrics
      /\ UNCHANGED <<metric, versions>>
  BY DEF MetricShapes, ClearEdges, InsertEdges, Unlink
<1>1. raced = FALSE /\ \A t \in Savers \ {s} : saver[t].pc = "idle"
  BY WritesAlone
<1>2. PICK m \in Metrics : m = saver[s].on
  BY <1>0
<1>3. UNCHANGED <<torn, lost>>
  <2>1. CASE InsertEdges(s) /\ saver' = [saver EXCEPT ![s].pc = "version"]
    <3>1. saver'[s].pc = "version"
      BY <1>0, <2>1 DEF MetricShapes, AnySaver
    <3>2. ~Ends(s)
      BY <3>1, MetricInvTypes DEF Ends, MetricShapes
    <3>3. QED
      BY <2>1, <3>2 DEF InsertEdges
  <2>2. QED
    BY <2>1 DEF ClearEdges, Unlink
<1>4. UpToDate(s) /\ \A n \in Metrics : HalfWay(s, n) => HalfWritten(s, n)
  BY <1>1 DEF TablesAhead
<1>5. PICK pc \in SaverSteps :
        /\ saver' = [saver EXCEPT ![s].pc = pc] /\ pc \in {"insert", "version", "mark"}
        /\ pc = "insert" => ClearEdges(s)
        /\ pc = "mark" => Unlink(s)
  BY DEF ClearEdges, InsertEdges, Unlink, SaverSteps
<1>6. PICK q : q = [saver[s] EXCEPT !.pc = pc]
  OBVIOUS
<1>7. /\ q \in AnySaver /\ q.pc = pc /\ q.on = m /\ q.def = saver[s].def
      /\ q.existing = saver[s].existing /\ q.kids = saver[s].kids /\ q.pc \in InMiddle
  BY <1>0, <1>2, <1>5, <1>6 DEF AnySaver, SaverSteps, InMiddle
<1>8. saver' = [saver EXCEPT ![s] = q] /\ saver'[s] = q
  BY <1>5, <1>6 DEF MetricShapes
<1>9. \A n \in Metrics : (Active(n)' <=> Active(n)) /\ (Present(n)' <=> Present(n))
  BY <1>0 DEF Active, Present
<1>10. \A n \in Metrics : VersionsFit(n) => VersionsFit(n)'
  BY <1>0, <1>3 DEF VersionsFit, KeptUpTo
<1>11. \A n \in Metrics \ {m} : Children(edges', n) = Children(edges, n)
  <2>1. CASE ClearEdges(s)
    BY <1>2, <2>1 DEF ClearEdges, Cleared, Children
  <2>2. CASE InsertEdges(s) /\ saver' = [saver EXCEPT ![s].pc = "version"]
    <3>1. edges' = edges \/ edges' = edges \cup ({m} \X saver[s].kids)
      BY <1>2, <2>2 DEF InsertEdges
    <3>2. QED
      BY <3>1 DEF Children
  <2>3. CASE Unlink(s)
    <3>1. \A e \in edges : e[2] # m
      BY <1>2, <1>4, <2>3 DEF UpToDate, Unlink
    <3>2. edges' = {e \in edges : e[1] # m}
      BY <1>2, <2>3, <3>1 DEF Unlink, Unlinked
    <3>3. QED
      BY <3>2 DEF Children
  <2>4. QED
    BY <2>1, <2>2, <2>3
<1>12. \A n \in Metrics : metric[n].def.refs \in SUBSET Metrics
  BY SaverRefs DEF MetricShapes, AnyRow
<1>13. \A n \in Metrics \ {m} : EdgesFit(n) => EdgesFit(n)'
  BY <1>0, <1>9, <1>11, <1>12 DEF EdgesFit
<1>14. UpToDate(s)'
  <2>1. pc = "insert" => saver[s].pc = "clear"
    BY <1>5 DEF ClearEdges
  <2>2. pc = "mark" => saver[s].pc = "unlink" /\ edges' \subseteq edges
    BY <1>5 DEF Unlink, Unlinked
  <2>3. saver[s].def.refs \in SUBSET Metrics
    BY <1>0, SaverRefs DEF AnySaver
  <2>4. QED
    BY <1>0, <1>2, <1>4, <1>5, <1>7, <1>8, <1>9, <2>1, <2>2, <2>3 DEF UpToDate
<1>15. HalfWritten(s, m)'
  <2>1. CASE ClearEdges(s)
    <3>1. saver[s].pc = "clear" /\ edges' = {e \in edges : e[1] # m} /\ HalfWritten(s, m)
      BY <1>2, <1>4, <2>1 DEF ClearEdges, Cleared, HalfWay, InMiddle
    <3>2. pc = (IF saver[s].kids = {} THEN "version" ELSE "insert")
      BY <1>0, <1>7, <1>8, <2>1 DEF ClearEdges, MetricShapes, AnySaver
    <3>3. saver[s].kids = {} => EdgesFit(m)'
      <4>1. Children(edges', m) = {}
        BY <3>1 DEF Children
      <4>2. QED
        BY <1>0, <1>1, <1>2, <3>1, <4>1, KidsFit
    <3>4. QED
      BY <1>0, <1>3, <1>7, <1>8, <3>1, <3>2, <3>3 DEF HalfWritten, KeptUpTo
  <2>2. CASE InsertEdges(s) /\ saver' = [saver EXCEPT ![s].pc = "version"]
    <3>1. saver[s].pc = "insert" /\ HalfWritten(s, m)
      BY <1>2, <1>4, <2>2 DEF InsertEdges, HalfWay, InMiddle
    <3>2. q.pc = "version" /\ ~Ends(s)
      BY <1>0, <1>8, <2>2, MetricInvTypes DEF Ends, MetricShapes, AnySaver
    <3>3. edges' = edges \cup ({m} \X saver[s].kids)
      BY <1>2, <2>2, <3>2 DEF InsertEdges
    <3>4. \A e \in edges : e[1] # m
      BY <3>1 DEF HalfWritten
    <3>5. Children(edges', m) = saver[s].kids
      <4>1. saver[s].kids \in SUBSET Metrics
        BY <1>0 DEF AnySaver
      <4>2. QED
        BY <3>3, <3>4, <4>1 DEF Children
    <3>6. EdgesFit(m)'
      BY <1>0, <1>1, <1>2, <3>1, <3>5, KidsFit
    <3>7. QED
      BY <1>0, <1>3, <1>7, <1>8, <3>1, <3>2, <3>6 DEF HalfWritten, KeptUpTo
  <2>3. CASE Unlink(s)
    <3>1. saver[s].pc = "unlink" /\ q.pc = "mark" /\ \A e \in edges' : e[1] # m
      BY <1>0, <1>2, <1>8, <2>3 DEF Unlink, Unlinked, MetricShapes, AnySaver
    <3>2. VersionsFit(m)
      <4>1. \A t \in Savers : ~HalfWay(t, m)
        BY <1>1, <3>1 DEF HalfWay, InMiddle
      <4>2. QED
        BY <1>1, <4>1 DEF TablesAhead
    <3>3. QED
      BY <1>8, <1>10, <3>1, <3>2 DEF HalfWritten
  <2>4. QED
    BY <2>1, <2>2, <2>3
<1>16. torn \ {m} \subseteq torn'
  BY <1>3
<1>17. saver[s].pc # "idle"
  BY <1>0
<1>18. QED
  BY <1>2, <1>7, <1>8, <1>10, <1>13, <1>14, <1>15, <1>16, <1>17, TablesWritten

LEMMA SnapshotKeepsTables ==
  ASSUME MetricShapes, TablesAhead, NEW s \in Savers, Snapshot(s), raced' = FALSE
  PROVE  TablesAhead'
<1>0. /\ saver[s] \in AnySaver /\ saver[s].pc = "version" /\ saver[s].on \in Metrics /\ Race(s)
      /\ NoSaver \in AnySaver /\ NoSaver.pc = "idle" /\ UNCHANGED <<metric, edges, lost>>
      /\ saver' = [saver EXCEPT ![s] = NoSaver] /\ saver'[s] = NoSaver
  BY MetricInvTypes DEF MetricShapes, Snapshot
<1>1. raced = FALSE
  BY <1>0, WritesAlone
<1>2. PICK m \in Metrics : m = saver[s].on
  BY <1>0
<1>3. \A n \in Metrics : EdgesFit(n)' <=> EdgesFit(n)
  BY <1>0, FitsSame
<1>4. /\ metric[m].def = saver[s].def /\ metric[m].version = saver[s].existing.version + 1
      /\ KeptUpTo(m, saver[s].existing.version) /\ EdgesFit(m)
      /\ saver[s].existing.version \in Nat
  BY <1>0, <1>1, <1>2 DEF TablesAhead, HalfWay, InMiddle, HalfWritten, AnySaver, AnyRow
<1>5. PICK n : n = metric[m].version
  OBVIOUS
<1>6. PICK t : t = <<m, n, metric[m].def>>
  OBVIOUS
<1>7. /\ Numbers(versions', m) = Numbers(versions, m) \cup {n}
      /\ \A o \in Metrics \ {m} : Numbers(versions', o) = Numbers(versions, o)
      /\ versions' = versions \cup {t}
  <2>1. versions' = versions \cup {t}
    BY <1>2, <1>4, <1>5, <1>6 DEF Snapshot, VersionOf
  <2>2. t[1] = m /\ t[2] = n
    BY <1>6
  <2>3. \A o : Numbers(versions', o) = Numbers(versions, o) \cup (IF t[1] = o THEN {t[2]} ELSE {})
    BY <2>1, NumbersAdded
  <2>4. Numbers(versions', m) = Numbers(versions, m) \cup {n}
    BY <2>2, <2>3
  <2>5. \A o \in Metrics \ {m} : Numbers(versions', o) = Numbers(versions, o)
    BY <2>2, <2>3
  <2>6. QED
    BY <2>1, <2>4, <2>5
<1>8. Numbers(versions', m) = {i \in 1 .. n : <<m, i>> \notin lost}
  <2>1. PICK last \in Nat : last = saver[s].existing.version
    BY <1>4
  <2>2. n = last + 1 /\ KeptUpTo(m, last)
    BY <1>4, <1>5, <2>1
  <2>3. <<m, n>> \notin lost
    BY <2>2 DEF KeptUpTo
  <2>4. \A i : i \in 1 .. n <=> i \in 1 .. last \/ i = n
    BY <2>2
  <2>5. Numbers(versions, m) = {i \in 1 .. last : <<m, i>> \notin lost}
    BY <2>2 DEF KeptUpTo
  <2>6. QED
    BY <1>7, <2>3, <2>4, <2>5
<1>9. VersionsFit(m)'
  <2>1. \A i : <<m, i>> \in lost => i \in 1 .. n
    BY <1>4, <1>5 DEF KeptUpTo
  <2>2. QED
    BY <1>0, <1>5, <1>6, <1>7, <1>8, <2>1 DEF VersionsFit, KeptUpTo
<1>10. \A o \in Metrics \ {m} : VersionsFit(o) => VersionsFit(o)'
  BY <1>0, <1>6, <1>7 DEF VersionsFit, KeptUpTo
<1>11. UpToDate(s)' /\ NoSaver.pc \notin InMiddle
  BY <1>0 DEF UpToDate, InMiddle
<1>12. torn \ {m} \subseteq torn'
  BY <1>2 DEF Snapshot
<1>13. QED
  BY <1>0, <1>2, <1>3, <1>4, <1>9, <1>10, <1>11, <1>12, TablesWritten

LEMMA MarkKeepsTables ==
  ASSUME MetricShapes, TablesAhead, NEW s \in Savers, MarkDeleted(s), raced' = FALSE
  PROVE  TablesAhead'
<1>0. /\ saver[s] \in AnySaver /\ saver[s].pc = "mark" /\ saver[s].on \in Metrics /\ Race(s)
      /\ NoSaver \in AnySaver /\ NoSaver.pc = "idle" /\ UNCHANGED <<edges, versions, lost>>
      /\ saver' = [saver EXCEPT ![s] = NoSaver] /\ saver'[s] = NoSaver
  BY MetricInvTypes DEF MetricShapes, MarkDeleted
<1>1. raced = FALSE
  BY <1>0, WritesAlone
<1>2. PICK m \in Metrics : m = saver[s].on
  BY <1>0
<1>3. /\ metric'[m].status = "deleted" /\ metric'[m].def = metric[m].def
      /\ metric'[m].version = metric[m].version
      /\ \A n \in Metrics \ {m} : metric'[n] = metric[n]
  BY <1>2 DEF MarkDeleted, MetricShapes, AnyRow
<1>4. /\ \A e \in edges : e[1] # m /\ e[2] # m
      /\ VersionsFit(m)
  BY <1>0, <1>1, <1>2 DEF TablesAhead, HalfWay, InMiddle, HalfWritten, UpToDate
<1>5. Children(edges, m) = {} /\ \A n \in Metrics : m \notin Children(edges, n)
  BY <1>4 DEF Children
<1>6. EdgesFit(m)'
  BY <1>0, <1>3, <1>5 DEF EdgesFit, Active
<1>7. \A n \in Metrics : metric[n].def.refs \in SUBSET Metrics
  BY SaverRefs DEF MetricShapes, AnyRow
<1>8. ASSUME NEW n \in Metrics \ {m}, EdgesFit(n) PROVE EdgesFit(n)'
  <2>1. \A r \in Metrics \ {m} : Active(r)' <=> Active(r)
    BY <1>3 DEF Active
  <2>2. Active(n) /\ metric[n].def.type = "COMPOSITE" => m \notin metric[n].def.refs
    BY <1>5, <1>8 DEF EdgesFit
  <2>3. QED
    BY <1>0, <1>3, <1>7, <1>8, <2>1, <2>2 DEF EdgesFit
<1>9. VersionsFit(m)' /\ \A n \in Metrics \ {m} : VersionsFit(n) => VersionsFit(n)'
  BY <1>0, <1>3, <1>4 DEF VersionsFit, KeptUpTo
<1>10. UpToDate(s)' /\ NoSaver.pc \notin InMiddle
  BY <1>0 DEF UpToDate, InMiddle
<1>11. torn \ {m} \subseteq torn'
  BY <1>2 DEF MarkDeleted
<1>12. QED
  BY <1>0, <1>2, <1>6, <1>8, <1>9, <1>10, <1>11, TablesWritten

LEMMA TablesNext ==
  ASSUME MetricShapes, MetricShapes', TablesAhead, NEW s \in Savers, RequestStep(s)
  PROVE  TablesAhead'
<1> SUFFICES ASSUME raced' = FALSE PROVE TablesAhead'
  BY DEF TablesAhead
<1>1. CASE InsertEdges(s)
  <2>1. CASE Ends(s) /\ UNCHANGED <<metric, edges, versions, raced>>
    BY <1>1, <2>1, EndKeepsTables DEF InsertEdges
  <2>2. CASE saver' = [saver EXCEPT ![s].pc = "version"] /\ Race(s)
    BY <1>1, <2>2, EdgesKeepTables
  <2>3. QED
    BY <1>1, <2>1, <2>2 DEF InsertEdges
<1>2. CASE RequestFails(s)
  BY <1>2, EndKeepsTables DEF RequestFails
<1>3. CASE ClearEdges(s) \/ Unlink(s)
  BY <1>3, EdgesKeepTables DEF ClearEdges, Unlink
<1>4. QED
  BY <1>1, <1>2, <1>3, TablesReads, ResolveKeepsTables, SaveKeepsTables, SnapshotKeepsTables,
     MarkKeepsTables DEF RequestStep

LEMMA TablesHold == MetricSpec => [](MetricInv /\ TablesAhead)
<1>1. MetricInv /\ TablesAhead /\ [MetricNext /\ UNCHANGED driver]_<<driver, metricVars>> => TablesAhead'
  <2> SUFFICES ASSUME MetricInv, TablesAhead, [MetricNext /\ UNCHANGED driver]_<<driver, metricVars>>
               PROVE  TablesAhead'
    OBVIOUS
  <2>1. CASE MetricNext
    BY <2>1, MetricInvNext, TablesNext DEF MetricInv, MetricNext
  <2>2. CASE UNCHANGED metricVars
    <3>1. UNCHANGED <<metric, edges, versions, saver, torn, lost, raced>>
      BY <2>2 DEF metricVars
    <3>2. \A m \in Metrics : (EdgesFit(m)' <=> EdgesFit(m)) /\ (VersionsFit(m)' <=> VersionsFit(m))
      BY <3>1, FitsSame
    <3>3. QED
      BY <3>1, <3>2 DEF TablesAhead, UpToDate, HalfWritten, KeptUpTo, HalfWay, Active, Present
  <2>3. QED
    BY <2>1, <2>2
<1>2. QED
  BY MetricInvInit, MetricInvNext, TablesInit, <1>1, PTL DEF MetricSpec

\* TablesAgree (saveMetric, deleteMetric and rollback in metric.service.js): for any number of
\* metrics, requests and failures, as long as no two requests overlapped, the rows, the edges
\* and the versions agree once no request is under way, but for what the requests that ended
\* midway have left: a version that is lost for good, and edges that the next save or deletion
\* of their metric repairs.
THEOREM TablesAgreeHolds == MetricSpec => []TablesAgree
<1>1. MetricInv /\ TablesAhead => TablesAgree
  <2> SUFFICES ASSUME MetricInv, TablesAhead, raced = FALSE, Saving = {} PROVE TablesAgree
    BY DEF MetricInv, MetricShapes, TablesAgree, GraphAgrees, VersionsComplete
  <2>1. \A m \in Metrics : (m \in torn \/ EdgesFit(m)) /\ VersionsFit(m)
    BY DEF TablesAhead, HalfWay, Saving, InMiddle
  <2>2. GraphAgrees
    BY <2>1 DEF GraphAgrees
  <2>3. \A m \in Metrics : metric[m].version \in Nat
    BY DEF MetricInv, MetricShapes, AnyRow
  <2>4. VersionsComplete
    BY <2>1, <2>3 DEF VersionsComplete, VersionsFit, KeptUpTo, Numbers
  <2>5. QED
    BY <2>2, <2>4 DEF TablesAgree
<1>2. QED
  BY TablesHold, <1>1, PTL

-----------------------------------------------------------------------------
(* MetricTaskRuns: a task that says running has a run that will say otherwise. *)

\* A run that has marked its task and has yet to write the outcome into it.
Marked == {"exec", "outcome", "endLoad", "end"}

TaskShape ==
  /\ metricTask \in [TaskIds -> TaskRow] /\ worker \in [Workers -> Worker]
  /\ \A w \in Workers : worker[w].pc # "idle" => worker[w].on \in TaskIds
  /\ \A w \in Workers : worker[w].pc \in {"outcome", "endLoad", "end"} => worker[w].outcome \in Outcomes
  /\ mingled \in SUBSET TaskIds /\ crashes \in Nat

\* Unless the task was edited under a run, its editors and its runs keep apart, and what an
\* editor is about to write back does not say running.
Unmingled(t) ==
  /\ WorkersAt(t, Running) = {} \/ WorkersAt(t, Editing) = {}
  /\ \A w \in WorkersAt(t, {"editWrite", "deleteWrite"}) : worker[w].row.lastStatus # "running"
  /\ metricTask[t].lastStatus = "running" => WorkersAt(t, Marked) # {}

TaskInv == TaskShape /\ (crashes = 0 => \A t \in TaskIds \ mingled : Unmingled(t))

LEMMA TaskNothingShaped ==
  NoWorker \in Worker /\ NoWorker.pc = "idle" /\ NewTask \in TaskRow /\ NewTask.lastStatus = "idle"
BY TaskRunsAssumption DEF NoWorker, Worker, NewTask, TaskRow

LEMMA TaskInvInit == TaskRunsInit => TaskInv
<1> SUFFICES ASSUME TaskRunsInit PROVE TaskInv
  OBVIOUS
<1>1. \A w \in Workers : worker[w] = NoWorker
  BY DEF TaskRunsInit
<1>2. \A t \in TaskIds : metricTask[t] = NewTask
  BY DEF TaskRunsInit
<1>3. TaskShape
  BY <1>1, TaskNothingShaped DEF TaskRunsInit, TaskShape
<1>4. \A t \in TaskIds : Unmingled(t)
  BY <1>1, <1>2, TaskNothingShaped DEF Unmingled, WorkersAt, Running, Editing
<1>5. QED
  BY <1>3, <1>4 DEF TaskInv

\* A request takes its next step on the task it is about; the tasks stay as they are.
LEMMA WorkerGoes ==
  ASSUME TaskInv, NEW w \in Workers, NEW q \in Worker, Goes(w, q),
         UNCHANGED <<metricTask, crashes>>, mingled \in SUBSET TaskIds,
         mingled' \in SUBSET TaskIds, mingled \subseteq mingled',
         q.pc # "idle" => q.on \in TaskIds,
         q.pc \in {"outcome", "endLoad", "end"} => q.outcome \in Outcomes,
         worker[w].pc # "idle" /\ q.pc # "idle" => q.on = worker[w].on,
         q.pc \in Running => \/ worker[w].pc \in Running
                             \/ q.on \in mingled' \/ WorkersAt(q.on, Editing) = {},
         q.pc \in Editing => \/ worker[w].pc \in Editing
                             \/ q.on \in mingled' \/ WorkersAt(q.on, Running) = {},
         q.pc \in {"editWrite", "deleteWrite"} =>
           worker[w].pc \in Editing /\ q.row = metricTask[q.on],
         worker[w].pc \in Marked => q.pc \in Marked
  PROVE  TaskInv'
<1> USE DEF TaskInv
<1>1. worker' = [worker EXCEPT ![w] = q] /\ worker'[w] = q
      /\ \A v \in Workers \ {w} : worker'[v] = worker[v]
  BY DEF Goes, TaskShape
<1>2. TaskShape'
  BY <1>1 DEF TaskShape
<1>3. worker[w] \in Worker
  BY DEF TaskShape
<1>4. ASSUME crashes' = 0, NEW t \in TaskIds \ mingled' PROVE Unmingled(t)'
  <2>1. Unmingled(t) /\ t \notin mingled
    BY <1>4
  <2>2. \A pcs : \A v \in Workers \ {w} : v \in WorkersAt(t, pcs)' <=> v \in WorkersAt(t, pcs)
    BY <1>1 DEF WorkersAt
  <2>3. \A pcs : (w \in WorkersAt(t, pcs)' <=> q.on = t /\ q.pc \in pcs)
                 /\ (w \in WorkersAt(t, pcs) <=> worker[w].on = t /\ worker[w].pc \in pcs)
    BY <1>1 DEF WorkersAt
  <2>4. WorkersAt(t, Running)' = {} \/ WorkersAt(t, Editing)' = {}
    <3>1. CASE q.on # t \/ q.pc = "idle"
      <4>1. WorkersAt(t, Running)' \subseteq WorkersAt(t, Running)
            /\ WorkersAt(t, Editing)' \subseteq WorkersAt(t, Editing)
        BY <1>1, <3>1 DEF WorkersAt, Running, Editing
      <4>2. QED
        BY <4>1, <2>1 DEF Unmingled
    <3>2. CASE q.on = t /\ q.pc \in Running
      <4>1. WorkersAt(t, Editing) = {}
        <5>1. CASE worker[w].pc \in Running
          <6>1. worker[w].on = t
            BY <3>2, <5>1 DEF Running
          <6>2. QED
            BY <5>1, <6>1, <2>1 DEF Unmingled, WorkersAt
        <5>2. QED
          BY <1>4, <3>2, <5>1
      <4>2. q.pc \notin Editing
        BY <3>2 DEF Running, Editing
      <4>3. QED
        BY <4>1, <4>2, <1>1 DEF WorkersAt
    <3>3. CASE q.on = t /\ q.pc \in Editing
      <4>1. WorkersAt(t, Running) = {}
        <5>1. CASE worker[w].pc \in Editing
          <6>1. worker[w].on = t
            BY <3>3, <5>1 DEF Editing
          <6>2. QED
            BY <5>1, <6>1, <2>1 DEF Unmingled, WorkersAt
        <5>2. QED
          BY <1>4, <3>3, <5>1
      <4>2. q.pc \notin Running
        BY <3>3 DEF Running, Editing
      <4>3. QED
        BY <4>1, <4>2, <1>1 DEF WorkersAt
    <3>4. q.pc \in Running \cup Editing \cup {"idle"}
      BY DEF Running, Editing, Worker
    <3>5. QED
      BY <3>1, <3>2, <3>3, <3>4
  <2>5. WorkersAt(t, Marked) # {} => WorkersAt(t, Marked)' # {}
    <3>1. ASSUME NEW v \in WorkersAt(t, Marked) PROVE v \in WorkersAt(t, Marked)'
      BY <1>1, <3>1 DEF WorkersAt, Marked
    <3>2. QED
      BY <3>1
  <2>6. ASSUME NEW v \in WorkersAt(t, {"editWrite", "deleteWrite"})'
        PROVE  worker'[v].row.lastStatus # "running"
    <3>1. CASE v # w
      BY <3>1, <2>1, <2>6, <1>1 DEF Unmingled, WorkersAt
    <3>2. CASE v = w
      <4>1. q.pc \in {"editWrite", "deleteWrite"} /\ q.on = t
        BY <2>6, <3>2, <1>1 DEF WorkersAt
      <4>2. worker[w].pc \in Editing /\ worker[w].on = t /\ q.row = metricTask[t]
        BY <4>1 DEF Editing
      <4>3. WorkersAt(t, Running) = {}
        BY <4>2, <2>1 DEF Unmingled, WorkersAt
      <4>4. WorkersAt(t, Marked) = {}
        BY <4>3 DEF WorkersAt, Marked, Running
      <4>5. metricTask[t].lastStatus # "running"
        BY <4>4, <2>1 DEF Unmingled
      <4>6. QED
        BY <3>2, <4>2, <4>5, <1>1
    <3>3. QED
      BY <3>1, <3>2
  <2>7. QED
    BY <2>1, <2>4, <2>5, <2>6 DEF Unmingled
<1>5. QED
  BY <1>2, <1>4

LEMMA TaskRequestSteps ==
  ASSUME TaskInv, NEW w \in Workers,
         \/ \E t \in TaskIds : Run(w, t) \/ \E delete \in BOOLEAN : TaskEdit(w, t, delete)
         \/ EditValidate(w) \/ TaskEditLoad(w)
         \/ RunLive(w) \/ RunPlan(w) \/ RunCreate(w) \/ RunLoad(w)
         \/ (\E outcome \in Outcomes : RunExec(w, outcome)) \/ RunOutcome(w)
  PROVE  TaskInv'
<1>0. /\ worker[w] \in Worker /\ mingled \in SUBSET TaskIds
      /\ worker[w].pc # "idle" => worker[w].on \in TaskIds /\ metricTask[worker[w].on] \in TaskRow
      /\ worker[w].pc \in {"outcome", "endLoad", "end"} => worker[w].outcome \in Outcomes
  BY DEF TaskInv, TaskShape
<1>1. NoWorker \in Worker /\ NoWorker.pc = "idle"
  BY TaskNothingShaped
<1>2. ASSUME NEW t \in TaskIds, NEW pc \in {"live", "validate", "deleteLoad"},
             worker[w].pc = "idle", Goes(w, [NoWorker EXCEPT !.pc = pc, !.on = t]),
             pc = "live" => t \in mingled' \/ WorkersAt(t, Editing) = {},
             pc # "live" => t \in mingled' \/ WorkersAt(t, Running) = {},
             mingled' \in {mingled, mingled \cup {t}}, UNCHANGED <<metricTask, crashes>>
      PROVE  TaskInv'
  <2>1. PICK q : q = [NoWorker EXCEPT !.pc = pc, !.on = t]
    OBVIOUS
  <2>2. q \in Worker /\ q.pc = pc /\ q.on = t
    BY <2>1, TaskRunsAssumption, TaskNothingShaped DEF NoWorker, Worker
  <2>3. Goes(w, q) /\ mingled' \in SUBSET TaskIds
    BY <1>0, <1>2, <2>1
  <2>4. QED
    BY <1>0, <1>2, <2>2, <2>3, WorkerGoes DEF Running, Editing, Marked
<1>3. ASSUME NEW t \in TaskIds, Run(w, t) PROVE TaskInv'
  <2>1. /\ worker[w].pc = "idle" /\ Goes(w, [NoWorker EXCEPT !.pc = "live", !.on = t])
        /\ mingled' = IF WorkersAt(t, Editing) # {} THEN mingled \cup {t} ELSE mingled
        /\ UNCHANGED <<metricTask, crashes>>
    BY <1>3 DEF Run, At
  <2>2. QED
    BY <1>2, <2>1
<1>4. ASSUME NEW t \in TaskIds, NEW delete \in BOOLEAN, TaskEdit(w, t, delete) PROVE TaskInv'
  <2>1. PICK pc : pc = IF delete THEN "deleteLoad" ELSE "validate"
    OBVIOUS
  <2>2. /\ worker[w].pc = "idle" /\ Goes(w, [NoWorker EXCEPT !.pc = pc, !.on = t])
        /\ mingled' = IF WorkersAt(t, Running) # {} THEN mingled \cup {t} ELSE mingled
        /\ UNCHANGED <<metricTask, crashes>>
    BY <1>4, <2>1 DEF TaskEdit, At
  <2>3. QED
    BY <1>2, <2>1, <2>2
\* A request that is refused.
<1>5. ASSUME worker[w].pc \notin Marked, Goes(w, NoWorker), UNCHANGED <<metricTask, mingled, crashes>>
      PROVE  TaskInv'
  BY <1>0, <1>1, <1>5, WorkerGoes DEF Running, Editing
\* A request that goes on as what it is.
<1>6. ASSUME NEW q \in Worker, Goes(w, q), UNCHANGED <<metricTask, mingled, crashes>>,
             worker[w].pc # "idle", q.on = worker[w].on,
             q.pc \in {"outcome", "endLoad", "end"} => q.outcome \in Outcomes,
             \/ q.pc \in Running /\ worker[w].pc \in Running
             \/ q.pc \in Editing /\ worker[w].pc \in Editing,
             q.pc \in {"editWrite", "deleteWrite"} => q.row = metricTask[q.on],
             worker[w].pc \in Marked => q.pc \in Marked
      PROVE  TaskInv'
  <2>1. q.pc \in Running => worker[w].pc \in Running
    BY <1>6 DEF Running, Editing
  <2>2. q.pc \in Editing => worker[w].pc \in Editing
    BY <1>6 DEF Running, Editing
  <2>3. q.pc \in {"editWrite", "deleteWrite"} => worker[w].pc \in Editing
    BY <1>6 DEF Running, Editing
  <2>4. QED
    BY <1>0, <1>6, <2>1, <2>2, <2>3, WorkerGoes
<1>7. ASSUME NEW pc \in {"editLoad", "plan", "create", "endLoad"}, Steps(w, pc),
             UNCHANGED <<metricTask, mingled, crashes>>,
             \/ worker[w].pc = "validate" /\ pc = "editLoad"
             \/ worker[w].pc \in {"live", "plan"} /\ pc \in {"plan", "create"}
             \/ worker[w].pc = "outcome" /\ pc = "endLoad"
      PROVE  TaskInv'
  <2>1. PICK q : q = [worker[w] EXCEPT !.pc = pc]
    OBVIOUS
  <2>2. /\ q \in Worker /\ q.pc = pc /\ q.on = worker[w].on /\ q.outcome = worker[w].outcome
    BY <1>0, <2>1 DEF Worker
  <2>3. Goes(w, q)
    BY <1>7, <2>1 DEF Steps
  <2>4. QED
    BY <1>0, <1>6, <1>7, <2>2, <2>3 DEF Running, Editing, Marked
<1>8. ASSUME NEW pc \in {"editWrite", "deleteWrite", "mark", "end"}, Loads(w, pc),
             UNCHANGED <<metricTask, mingled, crashes>>,
             \/ worker[w].pc \in {"editLoad", "deleteLoad"} /\ pc \in {"editWrite", "deleteWrite"}
             \/ worker[w].pc = "markLoad" /\ pc = "mark"
             \/ worker[w].pc = "endLoad" /\ pc = "end"
      PROVE  TaskInv'
  <2>1. PICK q : q = [worker[w] EXCEPT !.pc = pc, !.row = metricTask[worker[w].on]]
    OBVIOUS
  <2>2. /\ q \in Worker /\ q.pc = pc /\ q.on = worker[w].on /\ q.outcome = worker[w].outcome
        /\ q.row = metricTask[worker[w].on]
    BY <1>0, <1>8, <2>1 DEF Worker
  <2>3. Goes(w, q)
    BY <1>8, <2>1 DEF Loads
  <2>4. QED
    BY <1>0, <1>6, <1>8, <2>2, <2>3 DEF Running, Editing, Marked
<1>9. CASE EditValidate(w)
  <2>1. /\ worker[w].pc = "validate" /\ UNCHANGED <<metricTask, mingled, crashes>>
        /\ Goes(w, NoWorker) \/ Steps(w, "editLoad")
    BY <1>9 DEF EditValidate, At
  <2>2. CASE Goes(w, NoWorker)
    BY <2>1, <2>2, <1>5 DEF Marked
  <2>3. CASE Steps(w, "editLoad")
    BY <2>1, <2>3, <1>7
  <2>4. QED
    BY <2>1, <2>2, <2>3
<1>10. CASE TaskEditLoad(w)
  <2>1. UNCHANGED <<metricTask, mingled, crashes>>
    BY <1>10 DEF TaskEditLoad
  <2>2. CASE worker[w].pc = "editLoad" /\ Loads(w, "editWrite")
    BY <2>1, <2>2, <1>8
  <2>3. CASE worker[w].pc = "deleteLoad" /\ Loads(w, "deleteWrite")
    BY <2>1, <2>3, <1>8
  <2>4. QED
    BY <1>10, <2>2, <2>3 DEF TaskEditLoad, At
<1>11. CASE RunLive(w)
  <2>1. /\ worker[w].pc = "live" /\ UNCHANGED <<metricTask, mingled, crashes>>
        /\ Goes(w, NoWorker) \/ Steps(w, "plan")
    BY <1>11 DEF RunLive, At
  <2>2. CASE Goes(w, NoWorker)
    BY <2>1, <2>2, <1>5 DEF Marked
  <2>3. CASE Steps(w, "plan")
    BY <2>1, <2>3, <1>7
  <2>4. QED
    BY <2>1, <2>2, <2>3
<1>12. CASE RunPlan(w)
  <2>1. /\ worker[w].pc = "plan" /\ UNCHANGED <<metricTask, mingled, crashes>>
        /\ Goes(w, NoWorker) \/ Steps(w, "create")
    BY <1>12 DEF RunPlan, At
  <2>2. CASE Goes(w, NoWorker)
    BY <2>1, <2>2, <1>5 DEF Marked
  <2>3. CASE Steps(w, "create")
    BY <2>1, <2>3, <1>7
  <2>4. QED
    BY <2>1, <2>2, <2>3
<1>13. CASE RunCreate(w)
  <2>1. PICK i \in RunIds : Goes(w, [worker[w] EXCEPT !.pc = "markLoad", !.run = i])
    BY <1>13 DEF RunCreate
  <2>2. worker[w].pc = "create" /\ UNCHANGED <<metricTask, mingled, crashes>>
    BY <1>13 DEF RunCreate, At
  <2>3. PICK q : q = [worker[w] EXCEPT !.pc = "markLoad", !.run = i]
    OBVIOUS
  <2>4. i \in 0 .. MaxRuns
    BY TaskRunsAssumption DEF RunIds
  <2>5. q \in Worker /\ q.pc = "markLoad" /\ q.on = worker[w].on
    BY <1>0, <2>3, <2>4 DEF Worker
  <2>6. QED
    BY <1>6, <2>1, <2>2, <2>3, <2>5 DEF Running, Editing, Marked
<1>14. CASE RunLoad(w)
  <2>1. UNCHANGED <<metricTask, mingled, crashes>>
    BY <1>14 DEF RunLoad
  <2>2. CASE worker[w].pc = "markLoad" /\ Loads(w, "mark")
    BY <2>1, <2>2, <1>8
  <2>3. CASE worker[w].pc = "endLoad" /\ Loads(w, "end")
    BY <2>1, <2>3, <1>8
  <2>4. QED
    BY <1>14, <2>2, <2>3 DEF RunLoad, At
<1>15. ASSUME NEW outcome \in Outcomes, RunExec(w, outcome) PROVE TaskInv'
  <2>1. PICK q : q = [worker[w] EXCEPT !.pc = "outcome", !.outcome = outcome]
    OBVIOUS
  <2>2. q \in Worker /\ q.pc = "outcome" /\ q.on = worker[w].on /\ q.outcome = outcome
    BY <1>0, <2>1 DEF Worker
  <2>3. /\ worker[w].pc = "exec" /\ Goes(w, q) /\ UNCHANGED <<metricTask, mingled, crashes>>
    BY <1>15, <2>1 DEF RunExec, At
  <2>4. QED
    BY <1>6, <2>2, <2>3 DEF Running, Editing, Marked
<1>16. CASE RunOutcome(w)
  BY <1>7, <1>16 DEF RunOutcome, At
<1>17. QED
  BY <1>3, <1>4, <1>9, <1>10, <1>11, <1>12, <1>13, <1>14, <1>15, <1>16

\* A task row is written: with running, by a run that will say otherwise, or without.
LEMMA TaskRowWritten ==
  ASSUME TaskInv, NEW w \in Workers, NEW q \in Worker, NEW row \in TaskRow, Goes(w, q),
         worker[w].pc # "idle", q.pc \in {"idle", "exec"}, UNCHANGED <<mingled, crashes>>,
         metricTask' = [metricTask EXCEPT ![worker[w].on] = row],
         q.pc = "exec" => q.on = worker[w].on /\ worker[w].pc \in Running,
         crashes = 0 /\ q.pc = "idle" /\ worker[w].on \notin mingled => row.lastStatus # "running"
  PROVE  TaskInv'
<1> USE DEF TaskInv
<1>1. worker' = [worker EXCEPT ![w] = q] /\ worker'[w] = q
      /\ \A v \in Workers \ {w} : worker'[v] = worker[v]
  BY DEF Goes, TaskShape
<1>2. PICK on \in TaskIds : on = worker[w].on
  BY DEF TaskShape
<1>3. metricTask'[on] = row /\ \A t \in TaskIds \ {on} : metricTask'[t] = metricTask[t]
  BY <1>2 DEF TaskShape
<1>4. TaskShape'
  BY <1>1, <1>2 DEF TaskShape
<1>5. ASSUME crashes' = 0, NEW t \in TaskIds \ mingled' PROVE Unmingled(t)'
  <2>1. Unmingled(t) /\ t \notin mingled
    BY <1>5
  <2>2. WorkersAt(t, Editing)' \subseteq WorkersAt(t, Editing)
    BY <1>1 DEF WorkersAt, Editing
  <2>3. WorkersAt(t, Running)' \subseteq WorkersAt(t, Running)
    BY <1>1 DEF WorkersAt, Running
  <2>4. \A v \in WorkersAt(t, {"editWrite", "deleteWrite"})' :
          v # w /\ v \in WorkersAt(t, {"editWrite", "deleteWrite"})
    BY <1>1 DEF WorkersAt
  <2>5. \A v \in WorkersAt(t, {"editWrite", "deleteWrite"})' : worker'[v].row.lastStatus # "running"
    BY <1>1, <2>1, <2>4 DEF Unmingled, WorkersAt
  <2>6. ASSUME metricTask'[t].lastStatus = "running" PROVE WorkersAt(t, Marked)' # {}
    <3>1. CASE t = on
      <4>1. q.pc = "exec" /\ q.on = t
        BY <1>2, <1>3, <1>5, <2>6, <3>1
      <4>2. w \in WorkersAt(t, Marked)'
        BY <1>1, <4>1 DEF WorkersAt, Marked
      <4>3. QED
        BY <4>2
    <3>2. CASE t # on
      <4>1. PICK v \in WorkersAt(t, Marked) : TRUE
        BY <1>3, <2>1, <2>6, <3>2 DEF Unmingled
      <4>2. v \in WorkersAt(t, Marked)'
        BY <1>1, <1>2, <3>2, <4>1 DEF WorkersAt
      <4>3. QED
        BY <4>2
    <3>3. QED
      BY <3>1, <3>2
  <2>7. QED
    BY <2>1, <2>2, <2>3, <2>5, <2>6 DEF Unmingled
<1>6. QED
  BY <1>4, <1>5

LEMMA TaskWrites ==
  ASSUME TaskInv, NEW w \in Workers, EditWrite(w) \/ RunMark(w) \/ RunEnd(w)
  PROVE  TaskInv'
<1> USE DEF TaskInv
<1>0. /\ worker[w] \in Worker /\ worker[w].row \in TaskRow
      /\ worker[w].pc = "end" => worker[w].outcome \in Outcomes
      /\ NoWorker \in Worker /\ NoWorker.pc = "idle"
  BY TaskNothingShaped DEF TaskShape, Worker
<1>1. CASE EditWrite(w)
  <2>1. PICK flag \in BOOLEAN : flag = (worker[w].row.delFlag \/ worker[w].pc = "deleteWrite")
    OBVIOUS
  <2>2. PICK row : row = [worker[w].row EXCEPT !.delFlag = flag]
    OBVIOUS
  <2>3. row \in TaskRow /\ row.lastStatus = worker[w].row.lastStatus
    BY <1>0, <2>2 DEF TaskRow
  <2>4. /\ worker[w].pc \in {"editWrite", "deleteWrite"} /\ Goes(w, NoWorker)
        /\ metricTask' = [metricTask EXCEPT ![worker[w].on] = row] /\ UNCHANGED <<mingled, crashes>>
    BY <1>1, <2>1, <2>2 DEF EditWrite, At
  <2>5. worker[w].on \in TaskIds /\ w \in WorkersAt(worker[w].on, {"editWrite", "deleteWrite"})
    BY <2>4 DEF TaskShape, WorkersAt
  <2>6. crashes = 0 /\ worker[w].on \notin mingled => row.lastStatus # "running"
    BY <2>3, <2>5 DEF Unmingled
  <2>7. QED
    BY <1>0, <2>3, <2>4, <2>6, TaskRowWritten
<1>2. CASE RunMark(w)
  <2>1. PICK row : row = [worker[w].row EXCEPT !.lastStatus = "running"]
    OBVIOUS
  <2>2. PICK q : q = [worker[w] EXCEPT !.pc = "exec"]
    OBVIOUS
  <2>3. row \in TaskRow /\ q \in Worker /\ q.pc = "exec" /\ q.on = worker[w].on
    BY <1>0, <2>1, <2>2 DEF TaskRow, Worker
  <2>4. /\ worker[w].pc = "mark" /\ Goes(w, q) /\ UNCHANGED <<mingled, crashes>>
        /\ metricTask' = [metricTask EXCEPT ![worker[w].on] = row]
    BY <1>2, <2>1, <2>2 DEF RunMark, At, Marks
  <2>5. QED
    BY <2>3, <2>4, TaskRowWritten DEF Running
<1>3. CASE RunEnd(w)
  <2>1. PICK row : row = [worker[w].row EXCEPT !.lastStatus = worker[w].outcome]
    OBVIOUS
  <2>2. /\ worker[w].pc = "end" /\ Goes(w, NoWorker) /\ UNCHANGED <<mingled, crashes>>
        /\ metricTask' = [metricTask EXCEPT ![worker[w].on] = row]
    BY <1>3, <2>1 DEF RunEnd, At, Marks
  <2>3. row \in TaskRow /\ row.lastStatus # "running"
    BY <1>0, <2>1, <2>2 DEF TaskRow, Outcomes
  <2>4. QED
    BY <1>0, <2>2, <2>3, TaskRowWritten
<1>4. QED
  BY <1>1, <1>2, <1>3

LEMMA TaskInvHolds == TaskRunsSpec => []TaskInv
<1>1. TaskInv /\ BackendCrash => TaskInv'
  BY TaskNothingShaped DEF TaskInv, TaskShape, BackendCrash
<1>2. TaskInv /\ TaskRunsNext => TaskInv'
  BY <1>1, TaskRequestSteps, TaskWrites DEF TaskRunsNext
<1>3. TaskInv /\ UNCHANGED taskVars => TaskInv'
  BY DEF TaskInv, TaskShape, Unmingled, WorkersAt, taskVars
<1>4. TaskInv /\ [TaskRunsNext /\ UNCHANGED driver]_<<driver, taskVars>> => TaskInv'
  BY <1>2, <1>3
<1>5. QED
  BY TaskInvInit, <1>4, PTL DEF TaskRunsSpec

\* TaskLeftFree (metrictask.service runTask, both branches): without a crash, and unless
\* somebody edited the task under a run, a task that says running has a run under way.
THEOREM TaskLeftFreeHolds == TaskRunsSpec => []TaskLeftFree
<1>1. TaskInv => TaskLeftFree
  BY DEF TaskInv, TaskLeftFree, Unmingled, WorkersAt, Marked, Running
<1>2. QED
  BY TaskInvHolds, <1>1, PTL

-----------------------------------------------------------------------------
(* ModelCatalog: the tree of domains and what is filed in it. *)

CatalogShape ==
  /\ domain \in [Domains -> DomainRow] /\ category \in [Categories -> CategoryRow]
  /\ model \in [Models -> ModelRow] /\ task \in [Requests -> Task] /\ mixed \in BOOLEAN

\* What the catalogue promises, whether or not requests are under way.
Tree ==
  \A C \in SUBSET Domains :
    (\A d \in C : domain[d].status = "active") /\ C # {} => \E d \in C : domain[d].parent \notin C
ParentsKnown ==
  \A d \in Domains : domain[d].status = "active" /\ domain[d].parent # Top =>
    domain[domain[d].parent].status # "absent"
Filed(m) ==
  model[m].status = "active" =>
    /\ model[m].domain \in Domains /\ domain[model[m].domain].status = "active"
    /\ model[m].category # None =>
         /\ model[m].category \in Categories /\ category[model[m].category].status = "active"
         /\ category[model[m].category].layer = model[m].layer

\* What a request has checked, and still holds.
DomainChecked(r) ==
  /\ task[r].kind = "createDomain" =>
       /\ task[r].d \in Domains /\ domain[task[r].d].status = "absent"
       /\ task[r].parent # Top => domain[task[r].parent].status = "active"
  /\ task[r].kind = "moveDomain" =>
       /\ task[r].d \in Domains
       /\ task[r].parent # Top =>
            /\ domain[task[r].parent].status # "absent"
            /\ \E C \in SUBSET Domains :
                 /\ task[r].d \in C /\ task[r].parent \notin C
                 /\ \A f \in Domains : domain[f].status = "active" /\ domain[f].parent \in C => f \in C
  /\ task[r].kind = "deleteDomain" =>
       /\ task[r].d \in Domains
       /\ \A m \in Models : model[m].status = "active" => model[m].domain # task[r].d

CategoryChecked(r) ==
  /\ task[r].kind = "createCategory" => task[r].c \in Categories /\ category[task[r].c].status = "absent"
  /\ task[r].kind = "deleteCategory" =>
       /\ task[r].c \in Categories
       /\ \A m \in Models : model[m].status = "active" /\ model[m].category = task[r].c => m \in task[r].todo
  /\ task[r].kind = "assign" =>
       \A m \in task[r].todo : task[r].c # None =>
         /\ task[r].c \in Categories /\ category[task[r].c].status = "active"
         /\ category[task[r].c].layer = model[m].layer

ModelChecked(r) ==
  /\ task[r].kind = "createModel" =>
       /\ task[r].m \in Models /\ task[r].layer \in Layers
       /\ task[r].d \in Domains /\ domain[task[r].d].status = "active"
       /\ task[r].c # None =>
            /\ task[r].c \in Categories /\ category[task[r].c].status = "active"
            /\ category[task[r].c].layer = task[r].layer
  /\ task[r].kind = "updateModel" =>
       /\ task[r].m \in Models /\ task[r].layer \in Layers
       /\ task[r].todo # {} /\ task[r].c # None =>
            /\ task[r].c \in Categories /\ category[task[r].c].status = "active"
            /\ category[task[r].c].layer = task[r].layer
       /\ task[r].todo = {} /\ model[task[r].m].category # None =>
            /\ model[task[r].m].category \in Categories
            /\ category[model[task[r].m].category].status = "active"
            /\ category[model[task[r].m].category].layer = task[r].layer
  /\ task[r].kind = "deleteModel" => task[r].m \in Models

Sound ==
  mixed = FALSE =>
    /\ Tree /\ ParentsKnown /\ \A m \in Models : Filed(m)
    /\ \A r \in Requests : DomainChecked(r) /\ CategoryChecked(r) /\ ModelChecked(r)

CatalogInv == CatalogShape /\ Sound

LEMMA NoTaskShaped == NoTask \in Task /\ NoTask.kind = "idle"
  BY DEF NoTask, Task, Kinds

LEMMA CatalogInvInit == CatalogInit => CatalogInv
<1> SUFFICES ASSUME CatalogInit PROVE CatalogInv
  OBVIOUS
<1>1. CatalogShape
  BY NoTaskShaped DEF CatalogInit, CatalogShape, DomainRow, CategoryRow, ModelRow, Status
<1>2. /\ \A d \in Domains : domain[d].status = "absent"
      /\ \A m \in Models : model[m].status = "absent"
      /\ \A r \in Requests : task[r].kind = "idle"
  BY NoTaskShaped DEF CatalogInit
<1>3. Tree /\ ParentsKnown
  BY <1>2 DEF Tree, ParentsKnown
<1>4. QED
  BY <1>1, <1>2, <1>3 DEF CatalogInv, Sound, Filed, DomainChecked, CategoryChecked, ModelChecked

\* A request begins, with what it has checked.
LEMMA CatalogBegins ==
  ASSUME CatalogInv, NEW r \in Requests, NEW t \in Task, Begin(r, t),
         task'[r] = t => (DomainChecked(r) /\ CategoryChecked(r) /\ ModelChecked(r))'
  PROVE  CatalogInv'
<1>1. task' = [task EXCEPT ![r] = t] /\ UNCHANGED <<domain, category, model, mixed>>
  BY DEF Begin
<1>2. task'[r] = t /\ \A s \in Requests \ {r} : task'[s] = task[s]
  BY <1>1 DEF CatalogInv, CatalogShape
<1>3. CatalogShape'
  BY <1>1 DEF CatalogInv, CatalogShape
<1>4. ASSUME mixed' = FALSE PROVE Tree' /\ ParentsKnown' /\ \A m \in Models : Filed(m)'
  BY <1>1, <1>4 DEF CatalogInv, Sound, Tree, ParentsKnown, Filed
<1>5. ASSUME mixed' = FALSE, NEW s \in Requests \ {r}
      PROVE  DomainChecked(s)' /\ CategoryChecked(s)' /\ ModelChecked(s)'
  <2>1. DomainChecked(s) /\ CategoryChecked(s) /\ ModelChecked(s)
    BY <1>1, <1>5 DEF CatalogInv, Sound
  <2>2. DomainChecked(s)'
    BY <1>1, <1>2, <2>1 DEF DomainChecked
  <2>3. CategoryChecked(s)'
    BY <1>1, <1>2, <2>1 DEF CategoryChecked
  <2>4. ModelChecked(s)'
    BY <1>1, <1>2, <2>1 DEF ModelChecked
  <2>5. QED
    BY <2>2, <2>3, <2>4
<1>6. QED
  BY <1>2, <1>3, <1>4, <1>5 DEF CatalogInv, Sound

\* A request writes, the only one there is.
LEMMA CatalogWrites ==
  ASSUME CatalogInv, CatalogShape', NEW r \in Requests, task[r].kind # "idle", Writes(r),
         \A s \in Requests \ {r} : task'[s] = task[s],
         mixed = FALSE =>
           /\ Tree' /\ ParentsKnown' /\ \A m \in Models : Filed(m)'
           /\ DomainChecked(r)' /\ CategoryChecked(r)' /\ ModelChecked(r)'
  PROVE  CatalogInv'
<1> SUFFICES ASSUME mixed' = FALSE PROVE Sound'
  BY DEF CatalogInv, Sound
<1>1. mixed = FALSE /\ \A s \in Requests \ {r} : task[s].kind = "idle"
  BY DEF Writes, Working, CatalogInv, CatalogShape
<1>2. \A s \in Requests \ {r} : DomainChecked(s)' /\ CategoryChecked(s)' /\ ModelChecked(s)'
  BY <1>1 DEF DomainChecked, CategoryChecked, ModelChecked
<1>3. QED
  BY <1>1, <1>2 DEF Sound

\* The same for a request that is over then.
LEMMA CatalogEnds ==
  ASSUME CatalogInv, NEW r \in Requests, task[r].kind # "idle", Writes(r), Over(r),
         domain' \in [Domains -> DomainRow], category' \in [Categories -> CategoryRow],
         model' \in [Models -> ModelRow],
         mixed = FALSE => Tree' /\ ParentsKnown' /\ \A m \in Models : Filed(m)'
  PROVE  CatalogInv'
<1>1. task'[r] = NoTask /\ \A s \in Requests \ {r} : task'[s] = task[s]
  BY DEF Over, CatalogInv, CatalogShape
<1>2. mixed' \in BOOLEAN
  BY DEF Writes
<1>3. task' \in [Requests -> Task]
  BY NoTaskShaped DEF Over, CatalogInv, CatalogShape
<1>4. CatalogShape'
  BY <1>2, <1>3 DEF CatalogShape
<1>5. DomainChecked(r)' /\ CategoryChecked(r)' /\ ModelChecked(r)'
  BY <1>1, NoTaskShaped DEF DomainChecked, CategoryChecked, ModelChecked
<1>6. QED
  BY <1>1, <1>4, <1>5, CatalogWrites

\* A domain below nothing of what is below it: no cycle comes from moving it there, nor from
\* filing one there that was not known.
LEMMA TreeGrows ==
  ASSUME CatalogShape, CatalogShape', Tree, ParentsKnown, NEW d \in Domains, NEW p \in Domains \cup {Top},
         \A e \in Domains \ {d} : domain'[e] = domain[e],
         domain'[d].parent = p,
         p # Top => domain[p].status # "absent",
         \/ domain[d].status = "absent"
         \/ domain'[d].status = domain[d].status /\
            (p # Top => \E C \in SUBSET Domains :
               /\ d \in C /\ p \notin C
               /\ \A f \in Domains : domain[f].status = "active" /\ domain[f].parent \in C => f \in C)
  PROVE  Tree'
<1> SUFFICES ASSUME NEW C \in SUBSET Domains, \A e \in C : domain'[e].status = "active", C # {},
                    \A e \in C : domain'[e].parent \in C
             PROVE  FALSE
  BY DEF Tree
<1>1. d \in C
  <2> SUFFICES ASSUME d \notin C PROVE FALSE
    OBVIOUS
  <2>1. \A e \in C : domain[e].status = "active" /\ domain[e].parent \in C
    OBVIOUS
  <2>2. QED
    BY <2>1 DEF Tree
<1>2. p \in C /\ p # Top
  BY <1>1, CatalogAssumption
<1>3. CASE domain[d].status = "absent"
  <2>1. p # d
    BY <1>2, <1>3
  <2>2. \A e \in C \ {d} : domain[e].status = "active" /\ domain[e].parent \in C
    OBVIOUS
  <2>3. \A e \in C \ {d} : domain[e].parent # d
    BY <1>3, <2>2, CatalogAssumption DEF ParentsKnown
  <2>4. C \ {d} \in SUBSET Domains /\ C \ {d} # {}
    BY <1>2, <2>1
  <2>5. QED
    BY <2>2, <2>3, <2>4 DEF Tree
<1>4. CASE domain[d].status # "absent"
  <2>1. PICK D \in SUBSET Domains :
          /\ d \in D /\ p \notin D
          /\ \A f \in Domains : domain[f].status = "active" /\ domain[f].parent \in D => f \in D
    BY <1>2, <1>4
  <2>2. ASSUME NEW e \in C \ D PROVE domain[e].status = "active" /\ domain[e].parent \in C \ D
    BY <2>1, <2>2
  <2>3. C \ D \in SUBSET Domains /\ C \ D # {}
    BY <1>2, <2>1
  <2>4. QED
    BY <2>2, <2>3 DEF Tree
<1>5. QED
  BY <1>3, <1>4

\* Fewer active domains make no new cycle.
LEMMA TreeShrinks ==
  ASSUME Tree, \A d \in Domains : domain'[d].parent = domain[d].parent
                                  /\ (domain'[d].status = "active" => domain[d].status = "active")
  PROVE  Tree'
  BY DEF Tree

LEMMA DomainBegins ==
  ASSUME CatalogInv, NEW r \in Requests,
         \/ \E d \in Domains, p \in Domains \cup {Top} : CreateDomain(r, d, p) \/ MoveDomain(r, d, p)
         \/ \E d \in Domains : DeleteDomain(r, d)
  PROVE  CatalogInv'
<1>1. ASSUME NEW d \in Domains, NEW p \in Domains \cup {Top}, CreateDomain(r, d, p) PROVE CatalogInv'
  <2>1. PICK t : t = [NoTask EXCEPT !.kind = "createDomain", !.d = d, !.parent = p]
    OBVIOUS
  <2>2. t \in Task /\ t.kind = "createDomain" /\ t.d = d /\ t.parent = p
    BY <2>1 DEF NoTask, Task, Kinds
  <2>3. /\ Begin(r, t) /\ UNCHANGED domain
        /\ domain[d].status = "absent" /\ (p # Top => domain[p].status = "active")
    BY <1>1, <2>1 DEF CreateDomain, DomainActive, Begin
  <2>4. task'[r] = t => (DomainChecked(r) /\ CategoryChecked(r) /\ ModelChecked(r))'
    BY <2>2, <2>3 DEF DomainChecked, CategoryChecked, ModelChecked
  <2>5. QED
    BY <2>2, <2>3, <2>4, CatalogBegins
<1>2. ASSUME NEW d \in Domains, NEW p \in Domains \cup {Top}, MoveDomain(r, d, p) PROVE CatalogInv'
  <2>1. PICK t : t = [NoTask EXCEPT !.kind = "moveDomain", !.d = d, !.parent = p]
    OBVIOUS
  <2>2. t \in Task /\ t.kind = "moveDomain" /\ t.d = d /\ t.parent = p
    BY <2>1 DEF NoTask, Task, Kinds
  <2>3. /\ Begin(r, t) /\ UNCHANGED domain
        /\ p # Top => domain[p].status # "absent"
    BY <1>2, <2>1 DEF MoveDomain, Begin
  <2>4. p # Top => \E C \in SUBSET Domains :
          /\ d \in C /\ p \notin C
          /\ \A f \in Domains : domain[f].status = "active" /\ domain[f].parent \in C => f \in C
    BY <1>2 DEF MoveDomain, Descendants, DomainActive
  <2>5. task'[r] = t => DomainChecked(r)'
    BY <2>2, <2>3, <2>4 DEF DomainChecked
  <2>6. task'[r] = t => CategoryChecked(r)' /\ ModelChecked(r)'
    BY <2>2 DEF CategoryChecked, ModelChecked
  <2>7. QED
    BY <2>2, <2>3, <2>5, <2>6, CatalogBegins
<1>3. ASSUME NEW d \in Domains, DeleteDomain(r, d) PROVE CatalogInv'
  <2>1. PICK t : t = [NoTask EXCEPT !.kind = "deleteDomain", !.d = d]
    OBVIOUS
  <2>2. t \in Task /\ t.kind = "deleteDomain" /\ t.d = d
    BY <2>1 DEF NoTask, Task, Kinds
  <2>3. /\ Begin(r, t) /\ UNCHANGED model
        /\ \A m \in Models : model[m].status = "active" => model[m].domain # d
    BY <1>3, <2>1 DEF DeleteDomain, DomainEmpty, ModelActive, Begin
  <2>4. task'[r] = t => (DomainChecked(r) /\ CategoryChecked(r) /\ ModelChecked(r))'
    BY <2>2, <2>3 DEF DomainChecked, CategoryChecked, ModelChecked
  <2>5. QED
    BY <2>2, <2>3, <2>4, CatalogBegins
<1>4. QED
  BY <1>1, <1>2, <1>3

LEMMA CategoryBegins ==
  ASSUME CatalogInv, NEW r \in Requests,
         \/ \E c \in Categories : (\E layer \in Layers : CreateCategory(r, c, layer)) \/ DeleteCategory(r, c)
         \/ \E c \in Categories \cup {None}, ms \in SUBSET Models : Assign(r, c, ms)
  PROVE  CatalogInv'
<1>1. ASSUME NEW c \in Categories, NEW layer \in Layers, CreateCategory(r, c, layer) PROVE CatalogInv'
  <2>1. PICK t : t = [NoTask EXCEPT !.kind = "createCategory", !.c = c, !.layer = layer]
    OBVIOUS
  <2>2. t \in Task /\ t.kind = "createCategory" /\ t.c = c
    BY <2>1 DEF NoTask, Task, Kinds
  <2>3. Begin(r, t) /\ UNCHANGED category /\ category[c].status = "absent"
    BY <1>1, <2>1 DEF CreateCategory, Begin
  <2>4. task'[r] = t => (DomainChecked(r) /\ CategoryChecked(r) /\ ModelChecked(r))'
    BY <2>2, <2>3 DEF DomainChecked, CategoryChecked, ModelChecked
  <2>5. QED
    BY <2>2, <2>3, <2>4, CatalogBegins
<1>2. ASSUME NEW c \in Categories, DeleteCategory(r, c) PROVE CatalogInv'
  <2>1. PICK owned \in SUBSET Models : owned = Owned(c)
    BY DEF Owned
  <2>2. PICK t : t = [NoTask EXCEPT !.kind = "deleteCategory", !.c = c, !.todo = owned]
    OBVIOUS
  <2>3. t \in Task /\ t.kind = "deleteCategory" /\ t.c = c /\ t.todo = owned
    BY <2>2 DEF NoTask, Task, Kinds
  <2>4. /\ Begin(r, t) /\ UNCHANGED model
        /\ \A m \in Models : model[m].status = "active" /\ model[m].category = c => m \in owned
    BY <1>2, <2>1, <2>2 DEF DeleteCategory, Owned, ModelActive, Begin
  <2>5. task'[r] = t => (DomainChecked(r) /\ CategoryChecked(r) /\ ModelChecked(r))'
    BY <2>3, <2>4 DEF DomainChecked, CategoryChecked, ModelChecked
  <2>6. QED
    BY <2>3, <2>4, <2>5, CatalogBegins
<1>3. ASSUME NEW c \in Categories \cup {None}, NEW ms \in SUBSET Models, Assign(r, c, ms) PROVE CatalogInv'
  <2>1. PICK fit \in SUBSET Models : fit = {m \in ms : ModelActive(m) /\ CategoryFits(c, model[m].layer)}
    OBVIOUS
  <2>2. PICK t : t = [NoTask EXCEPT !.kind = "assign", !.c = c, !.todo = fit]
    OBVIOUS
  <2>3. t \in Task /\ t.kind = "assign" /\ t.c = c /\ t.todo = fit
    BY <2>2 DEF NoTask, Task, Kinds
  <2>4. /\ Begin(r, t) /\ UNCHANGED <<category, model>>
        /\ \A m \in fit : c # None => category[c].status = "active" /\ category[c].layer = model[m].layer
    BY <1>3, <2>1, <2>2 DEF Assign, CategoryFits, CategoryActive, Begin
  <2>5. task'[r] = t => (DomainChecked(r) /\ CategoryChecked(r) /\ ModelChecked(r))'
    BY <2>3, <2>4 DEF DomainChecked, CategoryChecked, ModelChecked
  <2>6. QED
    BY <2>3, <2>4, <2>5, CatalogBegins
<1>4. QED
  BY <1>1, <1>2, <1>3

LEMMA ModelBegins ==
  ASSUME CatalogInv, NEW r \in Requests, NEW m \in Models,
         \/ \E layer \in Layers :
              \/ \E d \in Domains, c \in Categories \cup {None} : CreateModel(r, m, d, c, layer)
              \/ UpdateModel(r, m, layer)
              \/ \E c \in Categories \cup {None} : RefileModel(r, m, layer, c)
         \/ DeleteModel(r, m)
  PROVE  CatalogInv'
<1>0. model[m] \in ModelRow
  BY DEF CatalogInv, CatalogShape
<1>1. ASSUME NEW layer \in Layers, NEW d \in Domains, NEW c \in Categories \cup {None},
             CreateModel(r, m, d, c, layer)
      PROVE  CatalogInv'
  <2>1. PICK t : t = [NoTask EXCEPT !.kind = "createModel", !.m = m, !.d = d, !.c = c, !.layer = layer]
    OBVIOUS
  <2>2. t \in Task /\ t.kind = "createModel" /\ t.m = m /\ t.d = d /\ t.c = c /\ t.layer = layer
    BY <2>1 DEF NoTask, Task, Kinds
  <2>3. /\ Begin(r, t) /\ UNCHANGED <<domain, category>> /\ domain[d].status = "active"
        /\ c # None => category[c].status = "active" /\ category[c].layer = layer
    BY <1>1, <2>1 DEF CreateModel, DomainActive, CategoryFits, CategoryActive, Begin
  <2>4. task'[r] = t => (DomainChecked(r) /\ CategoryChecked(r) /\ ModelChecked(r))'
    BY <2>2, <2>3 DEF DomainChecked, CategoryChecked, ModelChecked
  <2>5. QED
    BY <2>2, <2>3, <2>4, CatalogBegins
<1>2. ASSUME NEW layer \in Layers, UpdateModel(r, m, layer) PROVE CatalogInv'
  <2>1. PICK t : t = [NoTask EXCEPT !.kind = "updateModel", !.m = m, !.layer = layer,
                                    !.c = model[m].category]
    OBVIOUS
  <2>2. t \in Task /\ t.kind = "updateModel" /\ t.m = m /\ t.layer = layer /\ t.todo = {}
    BY <1>0, <2>1 DEF NoTask, Task, Kinds, ModelRow
  <2>3. /\ Begin(r, t) /\ UNCHANGED <<category, model, mixed>>
        /\ layer # model[m].layer /\ model[m].category # None =>
             category[model[m].category].status = "active" /\ category[model[m].category].layer = layer
        /\ model[m].status = "active" /\ mixed = FALSE
    BY <1>2, <2>1 DEF UpdateModel, StaysFiled, CategoryFits, CategoryActive, ModelActive, Begin,
                      CatalogInv, CatalogShape
  <2>4. Filed(m)
    BY <2>3 DEF CatalogInv, Sound
  <2>5. model[m].category # None => model[m].category \in Categories
    BY <2>3, <2>4 DEF Filed
  <2>6. model[m].category # None =>
          category[model[m].category].status = "active" /\ category[model[m].category].layer = layer
    BY <2>3, <2>4 DEF Filed
  <2>7. task'[r] = t => (DomainChecked(r) /\ CategoryChecked(r) /\ ModelChecked(r))'
    BY <2>2, <2>3, <2>5, <2>6 DEF DomainChecked, CategoryChecked, ModelChecked
  <2>8. QED
    BY <2>2, <2>3, <2>7, CatalogBegins
<1>3. ASSUME NEW layer \in Layers, NEW c \in Categories \cup {None}, RefileModel(r, m, layer, c)
      PROVE  CatalogInv'
  <2>1. PICK t : t = [NoTask EXCEPT !.kind = "updateModel", !.m = m, !.layer = layer, !.c = c, !.todo = {m}]
    OBVIOUS
  <2>2. t \in Task /\ t.kind = "updateModel" /\ t.m = m /\ t.layer = layer /\ t.c = c /\ t.todo = {m}
    BY <2>1 DEF NoTask, Task, Kinds
  <2>3. /\ Begin(r, t) /\ UNCHANGED category
        /\ c # None => category[c].status = "active" /\ category[c].layer = layer
    BY <1>3, <2>1 DEF RefileModel, CategoryFits, CategoryActive, Begin
  <2>4. task'[r] = t => (DomainChecked(r) /\ CategoryChecked(r) /\ ModelChecked(r))'
    BY <2>2, <2>3 DEF DomainChecked, CategoryChecked, ModelChecked
  <2>5. QED
    BY <2>2, <2>3, <2>4, CatalogBegins
<1>4. CASE DeleteModel(r, m)
  <2>1. PICK t : t = [NoTask EXCEPT !.kind = "deleteModel", !.m = m]
    OBVIOUS
  <2>2. t \in Task /\ t.kind = "deleteModel" /\ t.m = m
    BY <2>1 DEF NoTask, Task, Kinds
  <2>3. Begin(r, t)
    BY <1>4, <2>1 DEF DeleteModel
  <2>4. task'[r] = t => (DomainChecked(r) /\ CategoryChecked(r) /\ ModelChecked(r))'
    BY <2>2 DEF DomainChecked, CategoryChecked, ModelChecked
  <2>5. QED
    BY <2>2, <2>3, <2>4, CatalogBegins
<1>5. QED
  BY <1>1, <1>2, <1>3, <1>4

LEMMA DomainWrites ==
  ASSUME CatalogInv, NEW r \in Requests, WriteDomain(r) \/ MarkDomain(r)
  PROVE  CatalogInv'
<1>0. /\ task[r] \in Task /\ mixed \in BOOLEAN
      /\ domain \in [Domains -> DomainRow] /\ category \in [Categories -> CategoryRow]
      /\ model \in [Models -> ModelRow]
  BY DEF CatalogInv, CatalogShape
<1>1. CASE WriteDomain(r)
  <2>1. /\ task[r].kind \in {"createDomain", "moveDomain"} /\ Writes(r) /\ Over(r)
        /\ UNCHANGED <<category, model>>
    BY <1>1 DEF WriteDomain
  <2>2. task[r].kind # "idle" /\ model' \in [Models -> ModelRow] /\ category' \in [Categories -> CategoryRow]
    BY <1>0, <2>1
  <2>3. PICK d : d = task[r].d
    OBVIOUS
  <2>4. PICK p \in Domains \cup {Top} : p = task[r].parent
    BY <1>0 DEF Task
  <2>5. CASE d \notin Domains
    <3>1. domain' = domain
      BY <1>0, <1>1, <2>3, <2>5 DEF WriteDomain
    <3>2. mixed = FALSE => Tree' /\ ParentsKnown' /\ \A m \in Models : Filed(m)'
      BY <2>1, <3>1 DEF CatalogInv, Sound, Tree, ParentsKnown, Filed
    <3>3. QED
      BY <1>0, <2>1, <2>2, <3>1, <3>2, CatalogEnds
  <2>6. CASE d \in Domains
    <3>1. PICK st : st = IF task[r].kind = "createDomain" THEN "active" ELSE domain[d].status
      OBVIOUS
    <3>2. PICK row : row = domain'[d]
      OBVIOUS
    <3>3. /\ domain' \in [Domains -> DomainRow] /\ row.parent = p /\ row.status = st
          /\ \A e \in Domains \ {d} : domain'[e] = domain[e]
      <4>1. CASE task[r].kind = "createDomain"
        BY <1>0, <1>1, <2>3, <2>4, <2>6, <3>1, <3>2, <4>1 DEF WriteDomain, DomainRow, Status
      <4>2. CASE task[r].kind = "moveDomain"
        BY <1>0, <1>1, <2>3, <2>4, <2>6, <3>1, <3>2, <4>2 DEF WriteDomain, DomainRow, Status
      <4>3. QED
        BY <2>1, <4>1, <4>2
    <3>5. /\ domain' \in [Domains -> DomainRow] /\ domain'[d] = row
          /\ \A e \in Domains \ {d} : domain'[e] = domain[e]
      BY <3>2, <3>3
    <3>6. ASSUME mixed = FALSE PROVE Tree' /\ ParentsKnown' /\ \A m \in Models : Filed(m)'
      <4>1. DomainChecked(r) /\ Tree /\ ParentsKnown /\ \A m \in Models : Filed(m)
        BY <3>6 DEF CatalogInv, Sound
      <4>2. p # Top => p \in Domains /\ domain[p].status # "absent"
        BY <2>1, <2>4, <4>1 DEF DomainChecked
      <4>3. \/ task[r].kind = "createDomain" /\ domain[d].status = "absent" /\ st = "active"
            \/ /\ task[r].kind = "moveDomain" /\ st = domain[d].status
               /\ p # Top => \E C \in SUBSET Domains :
                    /\ d \in C /\ p \notin C
                    /\ \A f \in Domains : domain[f].status = "active" /\ domain[f].parent \in C => f \in C
        BY <2>1, <2>3, <2>4, <3>1, <4>1 DEF DomainChecked
      <4>4. CatalogShape'
        <5>1. task' \in [Requests -> Task] /\ mixed' \in BOOLEAN
          BY <2>1, NoTaskShaped DEF Over, Writes, CatalogInv, CatalogShape
        <5>2. QED
          BY <2>2, <3>5, <5>1 DEF CatalogShape
      <4>5. Tree'
        <5>1. \/ domain[d].status = "absent"
              \/ domain'[d].status = domain[d].status /\
                 (p # Top => \E C \in SUBSET Domains :
                    /\ d \in C /\ p \notin C
                    /\ \A f \in Domains : domain[f].status = "active" /\ domain[f].parent \in C => f \in C)
          BY <3>3, <3>5, <4>3
        <5>2. domain'[d].parent = p
          BY <3>3, <3>5
        <5>3. QED
          BY <2>6, <3>5, <4>1, <4>2, <4>4, <5>1, <5>2, TreeGrows DEF CatalogInv
      <4>6. \A e \in Domains : domain[e].status # "absent" => domain'[e].status # "absent"
        BY <3>3, <3>5, <4>3
      <4>7. ParentsKnown'
        <5>1. ASSUME NEW e \in Domains, domain'[e].status = "active", domain'[e].parent # Top
              PROVE  domain'[domain'[e].parent].status # "absent"
          <6>1. CASE e = d
            BY <3>3, <3>5, <4>2, <4>6, <5>1, <6>1
          <6>2. CASE e # d
            <7>1. domain[e].parent \in Domains /\ domain[domain[e].parent].status # "absent"
              BY <1>0, <3>5, <4>1, <5>1, <6>2 DEF ParentsKnown, DomainRow
            <7>2. QED
              BY <3>5, <4>6, <6>2, <7>1
          <6>3. QED
            BY <6>1, <6>2
        <5>2. QED
          BY <5>1 DEF ParentsKnown
      <4>8. \A e \in Domains : domain[e].status = "active" => domain'[e].status = "active"
        BY <3>3, <3>5, <4>3
      <4>9. \A m \in Models : Filed(m)'
        BY <2>1, <4>1, <4>8 DEF Filed
      <4>10. QED
        BY <4>5, <4>7, <4>9
    <3>7. QED
      BY <2>1, <2>2, <3>5, <3>6, CatalogEnds
  <2>7. QED
    BY <2>5, <2>6
<1>2. CASE MarkDomain(r)
  <2>1. /\ task[r].kind = "deleteDomain" /\ Writes(r) /\ Over(r) /\ UNCHANGED <<category, model>>
    BY <1>2 DEF MarkDomain
  <2>2. task[r].kind # "idle" /\ model' \in [Models -> ModelRow] /\ category' \in [Categories -> CategoryRow]
    BY <1>0, <2>1
  <2>3. PICK d : d = task[r].d
    OBVIOUS
  <2>4. /\ domain' \in [Domains -> DomainRow]
        /\ \A e \in Domains : domain'[e].parent = domain[e].parent
        /\ \A e \in Domains : domain'[e].status = IF e = d THEN "deleted" ELSE domain[e].status
    BY <1>0, <1>2, <2>3 DEF MarkDomain, DomainRow, Status
  <2>5. ASSUME mixed = FALSE PROVE Tree' /\ ParentsKnown' /\ \A m \in Models : Filed(m)'
    <3>1. DomainChecked(r) /\ Tree /\ ParentsKnown /\ \A m \in Models : Filed(m)
      BY <2>5 DEF CatalogInv, Sound
    <3>2. Tree'
      BY <2>4, <3>1, TreeShrinks
    <3>3. ParentsKnown'
      BY <1>0, <2>4, <3>1 DEF ParentsKnown, DomainRow
    <3>4. \A m \in Models : model[m].status = "active" => model[m].domain # d
      BY <2>1, <2>3, <3>1 DEF DomainChecked
    <3>5. \A m \in Models : Filed(m)'
      BY <2>1, <2>4, <3>1, <3>4 DEF Filed
    <3>6. QED
      BY <3>2, <3>3, <3>5
  <2>6. QED
    BY <2>1, <2>2, <2>4, <2>5, CatalogEnds
<1>3. QED
  BY <1>1, <1>2

LEMMA CategoryWrites ==
  ASSUME CatalogInv, NEW r \in Requests, InsertCategory(r) \/ MarkCategory(r)
  PROVE  CatalogInv'
<1>0. /\ task[r] \in Task /\ mixed \in BOOLEAN
      /\ domain \in [Domains -> DomainRow] /\ category \in [Categories -> CategoryRow]
      /\ model \in [Models -> ModelRow]
  BY DEF CatalogInv, CatalogShape
<1>1. /\ Writes(r) /\ Over(r) /\ UNCHANGED <<domain, model>>
      /\ task[r].kind \in {"createCategory", "deleteCategory"}
  BY DEF InsertCategory, MarkCategory
<1>2. PICK c : c = task[r].c
  OBVIOUS
<1>3. PICK layer \in Layers \cup {None} : layer = task[r].layer
  BY <1>0 DEF Task
<1>4. /\ category' \in [Categories -> CategoryRow]
      /\ \A d \in Categories \ {c} : category'[d] = category[d]
  <2>1. CASE InsertCategory(r)
    <3>1. PICK row : row = [status |-> "active", layer |-> layer]
      OBVIOUS
    <3>2. row \in CategoryRow
      BY <3>1 DEF CategoryRow, Status
    <3>3. category' = [category EXCEPT ![c] = row]
      BY <1>2, <1>3, <2>1, <3>1 DEF InsertCategory
    <3>4. QED
      BY <1>0, <3>2, <3>3
  <2>2. CASE MarkCategory(r)
    BY <1>0, <1>2, <2>2 DEF MarkCategory, CategoryRow, Status
  <2>3. QED
    BY <2>1, <2>2
<1>5. ASSUME mixed = FALSE PROVE \A m \in Models : model[m].status = "active" => model[m].category # c \/ c = None
  <2>1. CategoryChecked(r) /\ \A m \in Models : Filed(m)
    BY <1>5 DEF CatalogInv, Sound
  <2>2. CASE InsertCategory(r)
    <3>1. c \in Categories /\ category[c].status = "absent"
      BY <1>2, <2>1, <2>2 DEF InsertCategory, CategoryChecked
    <3>2. QED
      BY <2>1, <3>1 DEF Filed
  <2>3. CASE MarkCategory(r)
    BY <1>2, <2>1, <2>3 DEF MarkCategory, CategoryChecked
  <2>4. QED
    BY <2>2, <2>3
<1>6. ASSUME mixed = FALSE PROVE Tree' /\ ParentsKnown' /\ \A m \in Models : Filed(m)'
  <2>1. Tree /\ ParentsKnown /\ \A m \in Models : Filed(m)
    BY <1>6 DEF CatalogInv, Sound
  <2>2. Tree' /\ ParentsKnown'
    BY <1>1, <2>1 DEF Tree, ParentsKnown
  <2>3. \A m \in Models : Filed(m)'
    BY <1>1, <1>4, <1>5, <1>6, <2>1 DEF Filed
  <2>4. QED
    BY <2>2, <2>3
<1>7. task[r].kind # "idle" /\ domain' \in [Domains -> DomainRow] /\ model' \in [Models -> ModelRow]
  BY <1>0, <1>1
<1>8. QED
  BY <1>1, <1>4, <1>6, <1>7, CatalogEnds

\* One row of a model is written: in a domain that is there, and in no category that is not,
\* or of another layer.
LEMMA RowWritten ==
  ASSUME \A n \in Models : Filed(n), NEW m \in Models, NEW row \in ModelRow, UNCHANGED <<domain, category>>,
         model \in [Models -> ModelRow], model' = [model EXCEPT ![m] = row],
         row.status = "active" =>
           /\ row.domain \in Domains /\ domain[row.domain].status = "active"
           /\ row.category # None =>
                /\ row.category \in Categories /\ category[row.category].status = "active"
                /\ category[row.category].layer = row.layer
  PROVE  \A n \in Models : Filed(n)'
<1>1. model'[m] = row /\ \A n \in Models \ {m} : model'[n] = model[n]
  OBVIOUS
<1>2. Filed(m)'
  BY <1>1 DEF Filed
<1>3. ASSUME NEW n \in Models \ {m} PROVE Filed(n)'
  BY <1>1 DEF Filed
<1>4. QED
  BY <1>2, <1>3

LEMMA ModelWrites ==
  ASSUME CatalogInv, NEW r \in Requests, InsertModel(r) \/ WriteModel(r) \/ MarkModel(r)
  PROVE  CatalogInv'
<1>0. /\ task[r] \in Task /\ mixed \in BOOLEAN
      /\ domain \in [Domains -> DomainRow] /\ category \in [Categories -> CategoryRow]
      /\ model \in [Models -> ModelRow]
  BY DEF CatalogInv, CatalogShape
<1>1. /\ Writes(r) /\ Over(r) /\ UNCHANGED <<domain, category>>
      /\ task[r].kind \in {"createModel", "updateModel", "deleteModel"}
  BY DEF InsertModel, WriteModel, MarkModel
<1>2. ASSUME mixed = FALSE PROVE Tree' /\ ParentsKnown'
  BY <1>1, <1>2 DEF CatalogInv, Sound, Tree, ParentsKnown
<1>3. task[r].kind # "idle" /\ domain' \in [Domains -> DomainRow] /\ category' \in [Categories -> CategoryRow]
  BY <1>0, <1>1
<1>4. ASSUME model' \in [Models -> ModelRow],
             ASSUME mixed = FALSE, ModelChecked(r), \A m \in Models : Filed(m)
             PROVE  \A m \in Models : Filed(m)'
      PROVE  CatalogInv'
  <2>1. mixed = FALSE => Tree' /\ ParentsKnown' /\ \A m \in Models : Filed(m)'
    BY <1>2, <1>4 DEF CatalogInv, Sound
  <2>2. QED
    BY <1>1, <1>3, <1>4, <2>1, CatalogEnds
<1>5. PICK m : m = task[r].m
  OBVIOUS
<1>6. CASE model' = model
  <2>1. \A n \in Models : Filed(n) => Filed(n)'
    BY <1>1, <1>6 DEF Filed
  <2>2. QED
    BY <1>0, <1>4, <1>6, <2>1
<1>7. CASE m \notin Models
  BY <1>0, <1>5, <1>6, <1>7 DEF InsertModel, WriteModel, MarkModel
<1>8. ASSUME m \in Models, NEW row \in ModelRow, model' = [model EXCEPT ![m] = row],
             mixed = FALSE /\ ModelChecked(r) /\ Filed(m) /\ row.status = "active" =>
               /\ row.domain \in Domains /\ domain[row.domain].status = "active"
               /\ row.category # None =>
                    /\ row.category \in Categories /\ category[row.category].status = "active"
                    /\ category[row.category].layer = row.layer
      PROVE  CatalogInv'
  <2>1. model' \in [Models -> ModelRow]
    BY <1>0, <1>8
  <2>2. ASSUME mixed = FALSE, ModelChecked(r), \A n \in Models : Filed(n)
        PROVE  \A n \in Models : Filed(n)'
    BY <1>0, <1>1, <1>8, <2>2, RowWritten
  <2>3. QED
    BY <1>4, <2>1, <2>2
<1>9. CASE InsertModel(r) /\ m \in Models /\ model' # model
  <2>1. PICK row : row = [status |-> "active", domain |-> task[r].d, layer |-> task[r].layer,
                          category |-> task[r].c]
    OBVIOUS
  <2>2. row \in ModelRow
    BY <1>0, <2>1 DEF Task, ModelRow, Status
  <2>3. /\ row.domain = task[r].d /\ row.category = task[r].c /\ row.layer = task[r].layer
        /\ task[r].kind = "createModel" /\ model' = [model EXCEPT ![m] = row]
    BY <1>5, <1>9, <2>1 DEF InsertModel
  <2>4. ModelChecked(r) =>
               /\ row.domain \in Domains /\ domain[row.domain].status = "active"
               /\ row.category # None =>
                    /\ row.category \in Categories /\ category[row.category].status = "active"
                    /\ category[row.category].layer = row.layer
    BY <2>3 DEF ModelChecked
  <2>5. QED
    BY <1>8, <1>9, <2>2, <2>3, <2>4
<1>10. CASE WriteModel(r) /\ m \in Models
  <2>1. PICK c : c = IF task[r].todo # {} THEN task[r].c ELSE model[m].category
    OBVIOUS
  <2>2. PICK row : row = model'[m]
    OBVIOUS
  <2>3. c \in Categories \cup {None} /\ task[r].layer \in Layers \cup {None}
    BY <1>0, <1>10, <2>1 DEF Task, ModelRow
  <2>4. /\ row \in ModelRow /\ row.layer = task[r].layer /\ row.category = c
        /\ row.domain = model[m].domain /\ row.status = model[m].status
        /\ \A n \in Models \ {m} : model'[n] = model[n]
    <3>1. CASE task[r].todo = {}
      BY <1>0, <1>5, <1>10, <2>1, <2>2, <2>3, <3>1 DEF WriteModel, ModelRow
    <3>2. CASE task[r].todo # {}
      BY <1>0, <1>5, <1>10, <2>1, <2>2, <2>3, <3>2 DEF WriteModel, ModelRow
    <3>3. QED
      BY <3>1, <3>2
  <2>5. task[r].kind = "updateModel" /\ model' = [model EXCEPT ![m] = row]
    <3>1. model' = [n \in Models |-> model'[n]] /\ model = [n \in Models |-> model[n]]
      BY <1>0, <1>10 DEF WriteModel
    <3>2. QED
      BY <1>10, <2>2, <2>4, <3>1 DEF WriteModel
  <2>6. ModelChecked(r) /\ Filed(m) /\ row.status = "active" =>
               /\ row.domain \in Domains /\ domain[row.domain].status = "active"
               /\ row.category # None =>
                    /\ row.category \in Categories /\ category[row.category].status = "active"
                    /\ category[row.category].layer = row.layer
    BY <1>5, <2>1, <2>4, <2>5 DEF ModelChecked, Filed
  <2>7. QED
    BY <1>8, <1>10, <2>4, <2>5, <2>6
<1>11. CASE MarkModel(r) /\ m \in Models
  <2>1. PICK row : row = [model[m] EXCEPT !.status = "deleted"]
    OBVIOUS
  <2>2. row \in ModelRow /\ row.status = "deleted"
    BY <1>0, <1>11, <2>1 DEF ModelRow, Status
  <2>3. model' = [model EXCEPT ![m] = row]
    BY <1>5, <1>11, <2>1 DEF MarkModel
  <2>4. QED
    BY <1>8, <1>11, <2>2, <2>3
<1>12. QED
  BY <1>6, <1>7, <1>9, <1>10, <1>11

LEMMA FilingWrites ==
  ASSUME CatalogInv, NEW r \in Requests, NEW m \in Models, FileModel(r, m)
  PROVE  CatalogInv'
<1>0. /\ task[r] \in Task /\ mixed \in BOOLEAN /\ model[m] \in ModelRow
      /\ domain \in [Domains -> DomainRow] /\ category \in [Categories -> CategoryRow]
      /\ model \in [Models -> ModelRow] /\ task \in [Requests -> Task]
  BY DEF CatalogInv, CatalogShape
<1>1. /\ task[r].kind \in {"deleteCategory", "assign"} /\ m \in task[r].todo /\ Writes(r)
      /\ UNCHANGED <<domain, category>>
  BY DEF FileModel
<1>2. PICK c : c = IF task[r].kind = "assign" THEN task[r].c ELSE None
  OBVIOUS
<1>3. PICK row : row = [model[m] EXCEPT !.category = c]
  OBVIOUS
<1>4. c \in Categories \cup {None}
  BY <1>0, <1>2 DEF Task
<1>5. /\ row \in ModelRow /\ row.category = c /\ row.status = model[m].status
      /\ row.domain = model[m].domain /\ row.layer = model[m].layer
  BY <1>0, <1>3, <1>4 DEF ModelRow
<1>6. /\ model' = [model EXCEPT ![m] = row] /\ model'[m] = row /\ model' \in [Models -> ModelRow]
      /\ \A n \in Models \ {m} : model'[n] = model[n]
  BY <1>0, <1>2, <1>3, <1>5 DEF FileModel
<1>7. PICK left \in SUBSET Models : left = task[r].todo \ {m}
  BY <1>0 DEF Task
<1>8. PICK q : q = task'[r]
  OBVIOUS
<1>9. /\ \/ q = NoTask
         \/ q \in Task /\ q.kind = task[r].kind /\ q.c = task[r].c /\ q.todo = left
      /\ \A s \in Requests \ {r} : task'[s] = task[s]
  <2>1. CASE task[r].kind = "assign" /\ task[r].todo = {m}
    BY <1>0, <1>8, <2>1 DEF FileModel, Over
  <2>2. CASE ~(task[r].kind = "assign" /\ task[r].todo = {m})
    <3>1. task' = [task EXCEPT ![r].todo = left]
      BY <1>7, <2>2 DEF FileModel
    <3>2. QED
      BY <1>0, <1>7, <1>8, <3>1 DEF Task
  <2>3. QED
    BY <2>1, <2>2
<1>11. q \in Task /\ task'[r] = q /\ task' \in [Requests -> Task]
  <2>1. task' = [s \in Requests |-> task'[s]]
    BY <1>0 DEF FileModel, Over
  <2>2. q \in Task
    BY <1>9, NoTaskShaped
  <2>3. QED
    BY <1>0, <1>8, <1>9, <2>1, <2>2
<1>12. CatalogShape'
  BY <1>0, <1>1, <1>6, <1>11 DEF CatalogShape, Writes
<1>13. ASSUME mixed = FALSE
       PROVE  /\ Tree' /\ ParentsKnown' /\ \A n \in Models : Filed(n)'
              /\ DomainChecked(r)' /\ CategoryChecked(r)' /\ ModelChecked(r)'
  <2>1. Tree /\ ParentsKnown /\ (\A n \in Models : Filed(n)) /\ CategoryChecked(r)
    BY <1>13 DEF CatalogInv, Sound
  <2>2. Tree' /\ ParentsKnown'
    BY <1>1, <2>1 DEF Tree, ParentsKnown
  <2>3. row.status = "active" =>
           /\ row.domain \in Domains /\ domain[row.domain].status = "active"
           /\ row.category # None =>
                /\ row.category \in Categories /\ category[row.category].status = "active"
                /\ category[row.category].layer = row.layer
    BY <1>1, <1>2, <1>5, <2>1 DEF Filed, CategoryChecked
  <2>4. \A n \in Models : Filed(n)'
    BY <1>0, <1>1, <1>5, <1>6, <2>1, <2>3, RowWritten
  <2>5. CASE q = NoTask
    BY <1>11, <2>2, <2>4, <2>5, NoTaskShaped DEF DomainChecked, CategoryChecked, ModelChecked
  <2>6. CASE q # NoTask
    <3>0. q.kind = task[r].kind /\ q.c = task[r].c /\ q.todo = left
      BY <1>9, <2>6
    <3>1. DomainChecked(r)' /\ ModelChecked(r)'
      BY <1>1, <1>9, <1>11, <2>6 DEF DomainChecked, ModelChecked
    <3>2. CASE q.kind = "assign"
      <4>1. \A n \in left : n \in task[r].todo /\ model'[n] = model[n]
        BY <1>6, <1>7
      <4>2. QED
        BY <1>1, <1>11, <2>1, <2>2, <2>4, <2>6, <3>0, <3>1, <3>2, <4>1 DEF CategoryChecked
    <3>3. CASE q.kind = "deleteCategory"
      <4>1. task[r].c \in Categories
        BY <2>1, <3>0, <3>3 DEF CategoryChecked
      <4>2. model'[m].category = None
        BY <1>2, <1>5, <1>6, <3>0, <3>3
      <4>3. \A n \in Models : model'[n].status = "active" /\ model'[n].category = task[r].c => n \in left
        BY <1>6, <1>7, <2>1, <3>0, <3>3, <4>1, <4>2, CatalogAssumption DEF CategoryChecked
      <4>4. CategoryChecked(r)'
        BY <1>11, <2>6, <3>0, <3>3, <4>1, <4>3 DEF CategoryChecked
      <4>5. QED
        BY <2>2, <2>4, <3>1, <4>4
    <3>4. QED
      BY <1>1, <3>0, <3>2, <3>3
  <2>7. QED
    BY <2>5, <2>6
<1>14. task[r].kind # "idle"
  BY <1>1
<1>15. QED
  BY <1>1, <1>9, <1>12, <1>13, <1>14, CatalogWrites

LEMMA CatalogInvNext ==
  CatalogInv /\ [CatalogNext /\ UNCHANGED driver]_<<driver, catalogVars>> => CatalogInv'
<1>1. CatalogInv /\ CatalogNext => CatalogInv'
  BY DomainBegins, CategoryBegins, ModelBegins, DomainWrites, CategoryWrites, ModelWrites, FilingWrites
     DEF CatalogNext
<1>2. CatalogInv /\ UNCHANGED catalogVars => CatalogInv'
  BY DEF CatalogInv, CatalogShape, Sound, Tree, ParentsKnown, Filed, DomainChecked, CategoryChecked,
         ModelChecked, catalogVars
<1>3. QED
  BY <1>1, <1>2

\* CatalogSound (metricdomain, metricmodelcategory and metricmodel services): for any number of
\* domains, categories, models and requests, as long as no request wrote under another, no
\* sequence of moves closes a cycle of domains, and every model is filed where it belongs.
THEOREM CatalogSoundHolds == CatalogSpec => []CatalogSound
<1>1. CatalogInv => CatalogSound
  <2> SUFFICES ASSUME CatalogInv PROVE CatalogSound
    OBVIOUS
  <2>1. CASE mixed = FALSE
    <3>1. Tree /\ \A m \in Models : Filed(m)
      BY <2>1 DEF CatalogInv, Sound
    <3>2. DomainsTree
      BY <3>1 DEF Tree, DomainsTree, DomainActive
    <3>3. ModelsFiled
      BY <3>1 DEF Filed, ModelsFiled, DomainActive, ModelActive, CategoryFits, CategoryActive
    <3>4. QED
      BY <3>2, <3>3 DEF CatalogSound
  <2>2. CASE mixed # FALSE
    BY <2>2 DEF CatalogInv, CatalogShape, CatalogSound, DomainsTree, ModelsFiled
  <2>3. QED
    BY <2>1, <2>2
<1>2. QED
  BY CatalogInvInit, CatalogInvNext, <1>1, PTL DEF CatalogSpec

-----------------------------------------------------------------------------
(* References: the data sources that records name. *)

ReferenceShape ==
  /\ source \in [Sources -> Passwords \cup {Absent}]
  /\ names \in [Holders -> Sources \cup {NoSource, Absent}]
  /\ clerk \in [Clerks -> Clerk] /\ overlapped \in BOOLEAN
  /\ \A c \in Clerks :
       /\ clerk[c].pc \in {"check", "save"} => clerk[c].on \in Holders /\ clerk[c].to \in Sources
       /\ clerk[c].pc \in {"count", "remove", "change", "put"} => clerk[c].on \in Sources
       /\ clerk[c].pc = "put" => clerk[c].sent # Absent \/ clerk[c].read # Absent
       /\ clerk[c].pc = "change" => clerk[c].sent # Absent \/ clerk[c].read # Absent

\* What a request has checked still holds when it writes.
Checked(c) ==
  /\ clerk[c].pc = "save" /\ clerk[c].on \in SyncTasks => source[clerk[c].to] # Absent
  /\ clerk[c].pc = "remove" => \A h \in Holders : names[h] # clerk[c].on

\* Unless requests overlapped, one is under way at a time, and what it has checked holds.
Referenced ==
  overlapped = FALSE =>
    /\ \A c, d \in AtDesk : c = d
    /\ \A c \in Clerks : Checked(c)
    /\ \A t \in SyncTasks : names[t] \in Sources => source[names[t]] # Absent

ReferenceInv == ReferenceShape /\ Referenced

LEMMA ReferenceInvInit == ReferencesInit => ReferenceInv
<1> SUFFICES ASSUME ReferencesInit PROVE ReferenceInv
  OBVIOUS
<1>1. NoClerk \in Clerk /\ NoClerk.pc = "idle"
  BY DEF NoClerk, Clerk
<1>2. QED
  BY <1>1, ReferencesAssumption
     DEF ReferencesInit, ReferenceInv, ReferenceShape, Referenced, Checked, AtDesk, Holders

\* A request takes a step that writes nothing.
LEMMA ClerkGoes ==
  ASSUME ReferenceInv, NEW c \in Clerks, NEW q \in Clerk, clerk' = [clerk EXCEPT ![c] = q],
         UNCHANGED <<source, names>>, overlapped' \in BOOLEAN,
         overlapped' = FALSE => overlapped = FALSE /\ (clerk[c].pc = "idle" => AtDesk = {}),
         q.pc \in {"check", "save"} => q.on \in Holders /\ q.to \in Sources,
         q.pc \in {"count", "remove", "change", "put"} => q.on \in Sources,
         q.pc \in {"put", "change"} => q.sent # Absent \/ q.read # Absent,
         q.pc = "save" /\ q.on \in SyncTasks => source[q.to] # Absent,
         q.pc = "remove" => \A h \in Holders : names[h] # q.on
  PROVE  ReferenceInv'
<1>1. clerk'[c] = q /\ \A d \in Clerks \ {c} : clerk'[d] = clerk[d]
  BY DEF ReferenceInv, ReferenceShape
<1>2. ReferenceShape'
  BY <1>1 DEF ReferenceInv, ReferenceShape
<1>3. ASSUME overlapped' = FALSE
      PROVE  /\ \A d, e \in AtDesk' : d = e
             /\ \A d \in Clerks : Checked(d)'
             /\ \A t \in SyncTasks : names'[t] \in Sources => source'[names'[t]] # Absent
  <2>1. AtDesk' \subseteq AtDesk \cup {c} /\ (c \in AtDesk \/ AtDesk = {})
    BY <1>1, <1>3 DEF AtDesk
  <2>2. \A d, e \in AtDesk' : d = e
    BY <1>3, <2>1 DEF ReferenceInv, Referenced
  <2>3. ASSUME NEW d \in Clerks PROVE Checked(d)'
    <3>1. CASE d = c
      BY <1>1, <3>1 DEF Checked
    <3>2. CASE d # c
      BY <1>1, <1>3, <3>2 DEF Checked, ReferenceInv, Referenced
    <3>3. QED
      BY <3>1, <3>2
  <2>4. QED
    BY <1>3, <2>2, <2>3 DEF ReferenceInv, Referenced
<1>4. QED
  BY <1>2, <1>3 DEF ReferenceInv, Referenced

\* A request ends with its write.
LEMMA ClerkWrites ==
  ASSUME ReferenceInv, NEW c \in Clerks, c \in AtDesk, clerk' = [clerk EXCEPT ![c] = NoClerk],
         UNCHANGED overlapped, source' \in [Sources -> Passwords \cup {Absent}],
         names' \in [Holders -> Sources \cup {NoSource, Absent}],
         overlapped = FALSE =>
           \A t \in SyncTasks : names'[t] \in Sources => source'[names'[t]] # Absent
  PROVE  ReferenceInv'
<1>1. NoClerk \in Clerk /\ NoClerk.pc = "idle"
  BY DEF NoClerk, Clerk
<1>2. clerk'[c] = NoClerk /\ \A d \in Clerks \ {c} : clerk'[d] = clerk[d]
  BY DEF ReferenceInv, ReferenceShape
<1>3. ReferenceShape'
  BY <1>1, <1>2 DEF ReferenceInv, ReferenceShape
<1>4. ASSUME overlapped = FALSE PROVE \A d \in Clerks : clerk'[d].pc = "idle"
  BY <1>1, <1>2, <1>4 DEF ReferenceInv, Referenced, AtDesk
<1>5. QED
  BY <1>3, <1>4 DEF ReferenceInv, Referenced, AtDesk, Checked

LEMMA ReferenceBegins ==
  ASSUME ReferenceInv, NEW c \in Clerks, NEW s \in Sources,
         \/ DeleteSource(c, s)
         \/ \E p \in Passwords \cup {Absent} : EditSource(c, s, p)
         \/ \E h \in Holders : SaveHolder(c, h, s)
  PROVE  ReferenceInv'
<1>0. overlapped \in BOOLEAN /\ source[s] \in Passwords \cup {Absent}
  BY DEF ReferenceInv, ReferenceShape
<1>1. ASSUME NEW q \in Clerk, Begins(c, q), q.pc \in {"check", "save", "count", "change"},
             q.pc \in {"check", "save"} => q.on \in Holders /\ q.to \in Sources,
             q.pc \in {"count", "change"} => q.on \in Sources,
             q.pc = "change" => q.sent # Absent \/ q.read # Absent,
             q.pc = "save" => q.on \notin SyncTasks
      PROVE  ReferenceInv'
  <2>1. /\ clerk' = [clerk EXCEPT ![c] = q] /\ clerk[c].pc = "idle"
        /\ overlapped' = (overlapped \/ AtDesk # {}) /\ UNCHANGED <<source, names>>
    BY <1>1 DEF Begins
  <2>2. overlapped' \in BOOLEAN
    BY <2>1
  <2>3. overlapped' = FALSE => overlapped = FALSE /\ AtDesk = {}
    BY <1>0, <2>1
  <2>4. QED
    BY <1>1, <2>1, <2>2, <2>3, ClerkGoes
<1>2. CASE DeleteSource(c, s)
  <2>1. PICK q : q = [NoClerk EXCEPT !.pc = "count", !.on = s]
    OBVIOUS
  <2>2. q \in Clerk /\ q.pc = "count" /\ q.on = s
    BY <2>1 DEF NoClerk, Clerk
  <2>3. Begins(c, q)
    BY <1>2, <2>1 DEF DeleteSource
  <2>4. QED
    BY <1>1, <2>2, <2>3
<1>3. ASSUME NEW p \in Passwords \cup {Absent}, EditSource(c, s, p) PROVE ReferenceInv'
  <2>1. PICK q : q = [NoClerk EXCEPT !.pc = "change", !.on = s, !.sent = p, !.read = source[s]]
    OBVIOUS
  <2>2. q \in Clerk /\ q.pc = "change" /\ q.on = s /\ q.read = source[s]
    BY <1>0, <2>1 DEF NoClerk, Clerk
  <2>3. Begins(c, q) /\ source[s] # Absent
    BY <1>3, <2>1 DEF EditSource, Known
  <2>4. QED
    BY <1>1, <2>2, <2>3
<1>4. ASSUME NEW h \in Holders, SaveHolder(c, h, s) PROVE ReferenceInv'
  <2>1. PICK pc : pc = IF h \in SyncTasks THEN "check" ELSE "save"
    OBVIOUS
  <2>2. PICK q : q = [NoClerk EXCEPT !.pc = pc, !.on = h, !.to = s]
    OBVIOUS
  <2>3. q \in Clerk /\ q.pc = pc /\ q.on = h /\ q.to = s
    BY <2>1, <2>2 DEF NoClerk, Clerk
  <2>4. Begins(c, q)
    BY <1>4, <2>1, <2>2 DEF SaveHolder
  <2>5. QED
    BY <1>1, <2>1, <2>3, <2>4
<1>5. QED
  BY <1>2, <1>3, <1>4

LEMMA ReferenceReads ==
  ASSUME ReferenceInv, NEW c \in Clerks, CheckSource(c) \/ CountNamers(c) \/ LoadSource(c)
  PROVE  ReferenceInv'
<1>0. /\ clerk[c] \in Clerk /\ overlapped \in BOOLEAN
      /\ clerk[c].pc = "check" => clerk[c].on \in Holders /\ clerk[c].to \in Sources
      /\ clerk[c].pc \in {"count", "change"} => clerk[c].on \in Sources
      /\ clerk[c].pc = "change" => clerk[c].sent # Absent \/ clerk[c].read # Absent
  BY DEF ReferenceInv, ReferenceShape
<1>1. ASSUME clerk[c].pc # "idle", Refused(c) PROVE ReferenceInv'
  <2>1. NoClerk \in Clerk /\ NoClerk.pc = "idle"
    BY DEF NoClerk, Clerk
  <2>2. QED
    BY <1>0, <1>1, <2>1, ClerkGoes DEF Refused
<1>2. ASSUME NEW pc \in {"save", "remove", "put"}, Continues(c, pc),
             \/ clerk[c].pc = "check" /\ pc = "save" /\ source[clerk[c].to] # Absent
             \/ clerk[c].pc = "count" /\ pc = "remove" /\ \A h \in Holders : names[h] # clerk[c].on
             \/ clerk[c].pc = "change" /\ pc = "put"
      PROVE  ReferenceInv'
  <2>1. PICK q : q = [clerk[c] EXCEPT !.pc = pc]
    OBVIOUS
  <2>2. /\ q \in Clerk /\ q.pc = pc /\ q.on = clerk[c].on /\ q.to = clerk[c].to
        /\ q.sent = clerk[c].sent /\ q.read = clerk[c].read
    BY <1>0, <2>1 DEF Clerk
  <2>3. clerk' = [clerk EXCEPT ![c] = q] /\ UNCHANGED <<source, names, overlapped>>
    BY <1>2, <2>1 DEF Continues
  <2>4. QED
    BY <1>0, <1>2, <2>2, <2>3, ClerkGoes
<1>3. CASE CheckSource(c)
  <2>1. clerk[c].pc = "check"
    BY <1>3 DEF CheckSource
  <2>2. CASE Refused(c)
    BY <1>1, <2>1, <2>2
  <2>3. CASE ~Refused(c)
    <3>1. Continues(c, "save") /\ source[clerk[c].to] # Absent
      BY <1>3, <2>3 DEF CheckSource, SourceKnown, Known
    <3>2. QED
      BY <1>2, <2>1, <3>1
  <2>4. QED
    BY <2>2, <2>3
<1>4. CASE CountNamers(c)
  <2>1. clerk[c].pc = "count"
    BY <1>4 DEF CountNamers
  <2>2. CASE Refused(c)
    BY <1>1, <2>1, <2>2
  <2>3. CASE ~Refused(c)
    <3>1. Continues(c, "remove") /\ \A h \in Holders : names[h] # clerk[c].on
      BY <1>4, <2>3 DEF CountNamers, Namers
    <3>2. QED
      BY <1>2, <2>1, <3>1
  <2>4. QED
    BY <2>2, <2>3
<1>5. CASE LoadSource(c)
  <2>1. clerk[c].pc = "change"
    BY <1>5 DEF LoadSource
  <2>2. CASE Refused(c)
    BY <1>1, <2>1, <2>2
  <2>3. CASE ~Refused(c)
    <3>1. Continues(c, "put")
      BY <1>5, <2>3 DEF LoadSource
    <3>2. QED
      BY <1>2, <2>1, <3>1
  <2>4. QED
    BY <2>2, <2>3
<1>6. QED
  BY <1>3, <1>4, <1>5

LEMMA ReferenceWrites ==
  ASSUME ReferenceInv, NEW c \in Clerks, WriteHolder(c) \/ RemoveSource(c) \/ PutSource(c)
  PROVE  ReferenceInv'
<1>0. clerk[c] \in Clerk
  BY DEF ReferenceInv, ReferenceShape
<1>1. CASE WriteHolder(c)
  <2>1. /\ clerk[c].pc = "save" /\ clerk[c].on \in Holders /\ clerk[c].to \in Sources
        /\ names' = [names EXCEPT ![clerk[c].on] = clerk[c].to] /\ UNCHANGED <<source, overlapped>>
        /\ clerk' = [clerk EXCEPT ![c] = NoClerk]
    BY <1>1 DEF WriteHolder, ReferenceInv, ReferenceShape
  <2>2. names' \in [Holders -> Sources \cup {NoSource, Absent}] /\ c \in AtDesk
    BY <2>1 DEF ReferenceInv, ReferenceShape, AtDesk
  <2>3. ASSUME overlapped = FALSE, NEW t \in SyncTasks, names'[t] \in Sources
        PROVE  source'[names'[t]] # Absent
    BY <2>1, <2>3 DEF ReferenceInv, ReferenceShape, Referenced, Checked, Holders
  <2>4. source' \in [Sources -> Passwords \cup {Absent}]
    BY <2>1 DEF ReferenceInv, ReferenceShape
  <2>5. QED
    BY <2>1, <2>2, <2>3, <2>4, ClerkWrites
<1>2. CASE RemoveSource(c)
  <2>1. /\ clerk[c].pc = "remove" /\ clerk[c].on \in Sources
        /\ source' = [source EXCEPT ![clerk[c].on] = Absent] /\ UNCHANGED <<names, overlapped>>
        /\ clerk' = [clerk EXCEPT ![c] = NoClerk]
    BY <1>2 DEF RemoveSource, ReferenceInv, ReferenceShape
  <2>2. source' \in [Sources -> Passwords \cup {Absent}] /\ c \in AtDesk
    BY <2>1 DEF ReferenceInv, ReferenceShape, AtDesk
  <2>3. ASSUME overlapped = FALSE, NEW t \in SyncTasks, names'[t] \in Sources
        PROVE  source'[names'[t]] # Absent
    BY <2>1, <2>3 DEF ReferenceInv, ReferenceShape, Referenced, Checked, Holders
  <2>4. names' \in [Holders -> Sources \cup {NoSource, Absent}]
    BY <2>1 DEF ReferenceInv, ReferenceShape
  <2>5. QED
    BY <2>1, <2>2, <2>3, <2>4, ClerkWrites
<1>3. CASE PutSource(c)
  <2>1. PICK p : p = IF clerk[c].sent = Absent THEN clerk[c].read ELSE clerk[c].sent
    OBVIOUS
  <2>2. /\ clerk[c].pc = "put" /\ clerk[c].on \in Sources
        /\ source' = [source EXCEPT ![clerk[c].on] = p] /\ UNCHANGED <<names, overlapped>>
        /\ clerk' = [clerk EXCEPT ![c] = NoClerk]
    BY <1>3, <2>1 DEF PutSource, ReferenceInv, ReferenceShape
  <2>3. p \in Passwords \cup {Absent} /\ p # Absent
    BY <1>0, <2>1, <2>2 DEF Clerk, ReferenceInv, ReferenceShape
  <2>4. source' \in [Sources -> Passwords \cup {Absent}] /\ c \in AtDesk
    BY <2>2, <2>3 DEF ReferenceInv, ReferenceShape, AtDesk
  <2>5. ASSUME overlapped = FALSE, NEW t \in SyncTasks, names'[t] \in Sources
        PROVE  source'[names'[t]] # Absent
    BY <2>2, <2>3, <2>5 DEF ReferenceInv, ReferenceShape, Referenced
  <2>6. names' \in [Holders -> Sources \cup {NoSource, Absent}]
    BY <2>2 DEF ReferenceInv, ReferenceShape
  <2>7. QED
    BY <2>2, <2>4, <2>5, <2>6, ClerkWrites
<1>4. QED
  BY <1>1, <1>2, <1>3

LEMMA ReferenceSingles ==
  ASSUME ReferenceInv, NEW c \in Clerks,
         \/ \E s \in Sources, p \in Passwords : AddSource(c, s, p)
         \/ \E h \in Holders : DropHolder(c, h)
  PROVE  ReferenceInv'
<1>1. ASSUME NEW s \in Sources, NEW p \in Passwords, AddSource(c, s, p) PROVE ReferenceInv'
  <2>1. source' = [source EXCEPT ![s] = p] /\ source[s] = Absent /\ UNCHANGED <<names, clerk, overlapped>>
    BY <1>1 DEF AddSource, Known
  <2>2. ReferenceShape'
    BY <2>1 DEF ReferenceInv, ReferenceShape
  <2>3. \A r \in Sources : source[r] # Absent => source'[r] # Absent
    BY <2>1 DEF ReferenceInv, ReferenceShape
  <2>4. \A d \in Clerks : Checked(d) => Checked(d)'
    BY <2>1, <2>3 DEF Checked, ReferenceInv, ReferenceShape
  <2>5. QED
    BY <2>1, <2>2, <2>3, <2>4 DEF ReferenceInv, Referenced, AtDesk
<1>2. ASSUME NEW h \in Holders, DropHolder(c, h) PROVE ReferenceInv'
  <2>1. names' = [names EXCEPT ![h] = Absent] /\ UNCHANGED <<source, clerk, overlapped>>
    BY <1>2 DEF DropHolder
  <2>2. ReferenceShape'
    BY <2>1 DEF ReferenceInv, ReferenceShape
  <2>3. \A d \in Clerks : Checked(d) => Checked(d)'
    BY <2>1, ReferencesAssumption DEF Checked, ReferenceInv, ReferenceShape
  <2>4. \A t \in SyncTasks : names'[t] \in Sources => names'[t] = names[t]
    BY <2>1, ReferencesAssumption DEF ReferenceInv, ReferenceShape, Holders
  <2>5. QED
    BY <2>1, <2>2, <2>3, <2>4 DEF ReferenceInv, Referenced, AtDesk
<1>3. QED
  BY <1>1, <1>2

LEMMA ReferenceInvNext ==
  ReferenceInv /\ [ReferencesNext /\ UNCHANGED driver]_<<driver, referenceVars>> => ReferenceInv'
<1>1. ReferenceInv /\ ReferencesNext => ReferenceInv'
  BY ReferenceBegins, ReferenceReads, ReferenceWrites, ReferenceSingles DEF ReferencesNext
<1>2. ReferenceInv /\ UNCHANGED referenceVars => ReferenceInv'
  BY DEF ReferenceInv, ReferenceShape, Referenced, AtDesk, Checked, referenceVars
<1>3. QED
  BY <1>1, <1>2

\* A source goes only while nothing names it.
LEMMA SourceGoes ==
  ASSUME ReferenceInv, ReferencesNext, overlapped' = FALSE, NEW s \in Sources,
         source[s] # Absent, source'[s] = Absent, NEW h \in Holders
  PROVE  names[h] # s
<1>1. PICK c \in Clerks :
        \/ \E r \in Sources :
             \/ DeleteSource(c, r)
             \/ \E p \in Passwords : AddSource(c, r, p)
             \/ \E p \in Passwords \cup {Absent} : EditSource(c, r, p)
             \/ \E g \in Holders : SaveHolder(c, g, r)
        \/ \E g \in Holders : DropHolder(c, g)
        \/ CheckSource(c) \/ WriteHolder(c) \/ CountNamers(c) \/ RemoveSource(c)
        \/ LoadSource(c) \/ PutSource(c)
  BY DEF ReferencesNext
<1>2. source' = source \/ (\E r \in Sources, p \in Passwords : AddSource(c, r, p))
      \/ RemoveSource(c) \/ PutSource(c)
  BY <1>1 DEF DeleteSource, EditSource, SaveHolder, DropHolder, CheckSource, WriteHolder, CountNamers,
              LoadSource, Begins, Continues, Refused
<1>3. ~\E r \in Sources, p \in Passwords : AddSource(c, r, p)
  BY DEF AddSource, Known, ReferenceInv, ReferenceShape
<1>4. ~PutSource(c)
  <2> SUFFICES ASSUME PutSource(c) PROVE FALSE
    OBVIOUS
  <2>1. PICK p : p = IF clerk[c].sent = Absent THEN clerk[c].read ELSE clerk[c].sent
    OBVIOUS
  <2>2. clerk[c].pc = "put" /\ source' = [source EXCEPT ![clerk[c].on] = p]
    BY <2>1 DEF PutSource
  <2>3. p # Absent
    BY <2>1, <2>2 DEF ReferenceInv, ReferenceShape
  <2>4. QED
    BY <2>2, <2>3 DEF ReferenceInv, ReferenceShape
<1>5. RemoveSource(c)
  BY <1>2, <1>3, <1>4
<1>6. clerk[c].pc = "remove" /\ overlapped = FALSE /\ source' = [source EXCEPT ![clerk[c].on] = Absent]
  BY <1>5 DEF RemoveSource
<1>7. clerk[c].on = s /\ Checked(c)
  BY <1>6 DEF ReferenceInv, ReferenceShape, Referenced
<1>8. QED
  BY <1>6, <1>7 DEF Checked

\* SourcesKept (deleteDataSourceById and assertDataSourceExists): for any number of sources,
\* records and requests, unless requests overlapped, no task names a source that is gone and
\* no source goes while something names it.
THEOREM SourcesKeptHolds == ReferencesSpec => SourcesKept
<1>1. ReferenceInv => TasksSourced
  BY DEF ReferenceInv, ReferenceShape, Referenced, TasksSourced, Known
<1>2. ReferenceInv /\ [ReferencesNext /\ UNCHANGED driver]_<<driver, referenceVars>>
        => [~overlapped' => \A s \in Sources : Known(s) /\ source'[s] = Absent =>
              \A h \in Holders : names[h] # s]_referenceVars
  <2> SUFFICES ASSUME ReferenceInv, ReferencesNext, ~overlapped', NEW s \in Sources,
                      Known(s), source'[s] = Absent, NEW h \in Holders
               PROVE  names[h] # s
    BY DEF referenceVars
  <2>1. overlapped' = FALSE
    BY ReferenceInvNext DEF ReferenceInv, ReferenceShape
  <2>2. QED
    BY <2>1, SourceGoes DEF Known
<1>3. QED
  BY ReferenceInvInit, ReferenceInvNext, <1>1, <1>2, PTL DEF ReferencesSpec, SourcesKept, SourceHeld

-----------------------------------------------------------------------------
(* MetricChat: the index of the metadata. *)

\* The build going on is the only one, and it never reads less than the index knows.
ChatInv ==
  /\ metadata \in Nat /\ cache \in Nat /\ cache <= metadata
  /\ build \in [Askers -> [pc : {"none", "begun", "read"}, at : Nat]]
  /\ \A a \in Askers : build[a].pc # "none" <=> building = a
  /\ \A a \in Askers : build[a].pc = "read" => cache <= build[a].at /\ build[a].at <= metadata

LEMMA ChatInvInit == ChatInit => ChatInv
  BY AskersAssumption DEF ChatInit, ChatInv, NoBuild

LEMMA ChatInvNext == ChatInv /\ [ChatNext /\ UNCHANGED driver]_<<driver, chatVars>> => ChatInv'
<1> SUFFICES ASSUME ChatInv, [ChatNext /\ UNCHANGED driver]_<<driver, chatVars>> PROVE ChatInv'
  OBVIOUS
<1> USE DEF ChatInv
<1>1. CASE EditMetadata
  BY <1>1 DEF EditMetadata
<1>2. CASE ClearSession
  BY <1>2 DEF ClearSession
<1>3. CASE ChatRestart
  BY <1>3, AskersAssumption DEF ChatRestart, NoBuild
<1>4. ASSUME NEW a \in Askers, Ask(a) PROVE ChatInv'
  <2>1. build[a].pc = "none" /\ building # a
    BY <1>4 DEF Ask, NoBuild
  <2>2. CASE Joins(a) # a
    BY <1>4, <2>2 DEF Ask
  <2>3. CASE Joins(a) = a
    <3>1. building = Nobody
      BY <2>1, <2>3 DEF Joins
    <3>2. /\ build' = [build EXCEPT ![a].pc = "begun"] /\ building' = a
          /\ UNCHANGED <<metadata, cache>>
      BY <1>4, <2>3 DEF Ask
    <3>3. QED
      BY <3>1, <3>2, AskersAssumption
  <2>4. QED
    BY <2>2, <2>3
<1>5. ASSUME NEW a \in Askers, BuildReads(a) PROVE ChatInv'
  BY <1>5 DEF BuildReads
<1>6. ASSUME NEW a \in Askers, BuildEnds(a) PROVE ChatInv'
  BY <1>6, AskersAssumption DEF BuildEnds, NoBuild
<1>7. ASSUME NEW a \in Askers, BuildFails(a) PROVE ChatInv'
  BY <1>7, AskersAssumption DEF BuildFails, NoBuild
<1>8. ASSUME NEW a \in Askers, Answer(a) PROVE ChatInv'
  BY <1>8 DEF Answer
<1>9. CASE UNCHANGED chatVars
  BY <1>9 DEF chatVars
<1>10. QED
  BY <1>1, <1>2, <1>3, <1>4, <1>5, <1>6, <1>7, <1>8, <1>9 DEF ChatNext

\* IndexForward (metricKnowledge.service, buildIndex): the single build at a time never
\* caches an index of an older state than the one cached before.
THEOREM IndexForwardHolds == ChatSpec => IndexForward
<1>1. ChatInv /\ [ChatNext /\ UNCHANGED driver]_<<driver, chatVars>>
        => [cache' >= cache \/ ChatRestart]_chatVars
  <2> SUFFICES ASSUME ChatInv, ChatNext, ~ChatRestart PROVE cache' >= cache
    BY DEF chatVars
  <2>1. CASE EditMetadata \/ ClearSession
    BY <2>1 DEF EditMetadata, ClearSession, ChatInv
  <2>2. ASSUME NEW a \in Askers, Ask(a) \/ BuildReads(a) \/ BuildFails(a) \/ Answer(a)
        PROVE  cache' >= cache
    BY <2>2 DEF Ask, BuildReads, BuildFails, Answer, ChatInv
  <2>3. ASSUME NEW a \in Askers, BuildEnds(a) PROVE cache' >= cache
    BY <2>3 DEF BuildEnds, ChatInv
  <2>4. QED
    BY <2>1, <2>2, <2>3 DEF ChatNext
<1>2. QED
  BY ChatInvInit, ChatInvNext, <1>1, PTL DEF ChatSpec, IndexForward

-----------------------------------------------------------------------------
(* Canvas: the walk draws the canvas or refuses it.                        *)

\* One input, one output, and no more than one link out of a node.
Shaped ==
  /\ \E n \in Nodes : OfKind("input") = {n}
  /\ \E n \in Nodes : OfKind("output") = {n}
  /\ \A n, m, k \in Nodes : <<n, m>> \in links /\ <<n, k>> \in links => m = k

CanvasShape ==
  /\ kind \in [Nodes -> {"input", "output", "step"}] /\ links \in SUBSET (Nodes \X Nodes)
  /\ cursor \in Nodes \cup {End} /\ verdict \in {"drawn", "walking", "refused", "accepted"}
  /\ chain \in Seq(Nodes)
  /\ \A i, j \in 1 .. Len(chain) : chain[i] = chain[j] => i = j
  /\ verdict = "drawn" => (chain = << >> /\ cursor = End /\ OfKind("input") = {})

\* The chain goes along links from an input, and enters no step by two of them.
Along ==
  /\ (chain # << >> \/ cursor # End) => Shaped
  /\ \A i \in 1 .. Len(chain) - 1 : <<chain[i], chain[i + 1]>> \in links
  /\ chain # << >> => kind[chain[1]] = "input"
  /\ (cursor # End /\ chain = << >>) => kind[cursor] = "input"
  /\ (cursor # End /\ chain # << >>) => <<chain[Len(chain)], cursor>> \in links
  /\ verdict # "refused" => \A i \in 1 .. Len(chain) : EnteredOnce(chain[i])
  /\ verdict = "accepted" => (chain # << >> /\ cursor = End /\ Complete)

\* The canvas is this line.
Size == Cardinality(Nodes)

IsLine(l) ==
  /\ {l[i] : i \in 1 .. Size} = Nodes /\ links = {<<l[i], l[i + 1]>> : i \in 1 .. Size - 1}
  /\ OfKind("input") = {l[1]} /\ OfKind("output") = {l[Size]}

\* On a line, the chain is its beginning and the cursor the next node of it.
Straight(l) ==
  /\ verdict # "refused" /\ Len(chain) <= Size
  /\ \A i \in 1 .. Len(chain) : chain[i] = l[i]
  /\ \/ chain = << >> /\ cursor = End
     \/ Len(chain) < Size /\ cursor = l[Len(chain) + 1]
     \/ Len(chain) = Size /\ cursor = End

CanvasInv ==
  /\ CanvasShape /\ Along
  /\ \A l \in [1 .. Size -> Nodes] : IsLine(l) => Straight(l)

LEMMA SizeIsNat == Size \in Nat
  BY CanvasAssumption, FS_CardinalityType DEF Size

\* At most one element: any two are equal.
LEMMA NoTwo ==
  ASSUME NEW S, IsFiniteSet(S)
  PROVE  Cardinality(S) <= 1 <=> \A x, y \in S : x = y
<1>0. Cardinality(S) \in Nat /\ (Cardinality(S) = 0 <=> S = {})
  BY FS_CardinalityType, FS_EmptySet
<1>1. Cardinality(S) = 1 <=> \E x : S = {x}
  BY FS_Singleton
<1>2. ASSUME Cardinality(S) <= 1 PROVE \A x, y \in S : x = y
  <2>1. CASE Cardinality(S) = 0
    BY <1>0, <2>1
  <2>2. CASE Cardinality(S) = 1
    BY <1>1, <2>2
  <2>3. QED
    BY <1>0, <1>2, <2>1, <2>2
<1>3. ASSUME \A x, y \in S : x = y PROVE Cardinality(S) <= 1
  <2>1. CASE S = {}
    BY <1>0, <2>1
  <2>2. CASE S # {}
    <3>1. PICK x : x \in S
      BY <2>2
    <3>2. S = {x}
      BY <1>3, <3>1
    <3>3. QED
      BY <1>1, <3>2
  <2>3. QED
    BY <2>1, <2>2
<1>4. QED
  BY <1>2, <1>3

\* Subsets of the nodes are finite.
LEMMA NodeSetsFinite == ASSUME NEW S \in SUBSET Nodes PROVE IsFiniteSet(S)
  BY CanvasAssumption, FS_Subset

\* What Shape counts.
LEMMA ShapeIsShaped ==
  ASSUME CanvasShape
  PROVE  Shape <=> Shaped
<1>1. ASSUME NEW k PROVE Cardinality(OfKind(k)) = 1 <=> \E n \in Nodes : OfKind(k) = {n}
  <2>1. OfKind(k) \in SUBSET Nodes
    BY DEF OfKind
  <2>2. Cardinality(OfKind(k)) = 1 <=> \E n : OfKind(k) = {n}
    BY <2>1, NodeSetsFinite, FS_Singleton
  <2>3. ASSUME NEW n, OfKind(k) = {n} PROVE n \in Nodes
    BY <2>1, <2>3
  <2>4. QED
    BY <2>2, <2>3
<1>2. ASSUME NEW n \in Nodes
      PROVE  Cardinality(Out(n)) <= 1 <=> \A m, k \in Nodes : <<n, m>> \in links /\ <<n, k>> \in links => m = k
  <2>1. IsFiniteSet(Out(n))
    BY NodeSetsFinite DEF Out
  <2>2. Cardinality(Out(n)) <= 1 <=> \A m, k \in Out(n) : m = k
    BY <2>1, NoTwo
  <2>3. QED
    BY <2>2 DEF Out
<1>3. QED
  BY <1>1, <1>2 DEF Shape, Shaped

\* A step on the chain has one link into it.
LEMMA OneWayIn ==
  ASSUME NEW n \in Nodes, EnteredOnce(n), kind[n] = "step",
         NEW m \in Nodes, NEW k \in Nodes, <<m, n>> \in links, <<k, n>> \in links
  PROVE  m = k
<1>1. m \in In(n) /\ k \in In(n)
  BY DEF In
<1>2. In(n) \in SUBSET Nodes
  BY DEF In
<1>3. IsFiniteSet(In(n))
  BY <1>2, NodeSetsFinite
<1>4. Cardinality(In(n)) = 1
  BY DEF EnteredOnce
<1>5. PICK x : In(n) = {x}
  BY <1>3, <1>4, FS_Singleton
<1>6. QED
  BY <1>1, <1>5

LEMMA ChainLonger ==
  ASSUME NEW S, NEW s \in Seq(S), NEW e \in S
  PROVE  /\ Append(s, e) \in Seq(S) /\ Len(Append(s, e)) = Len(s) + 1 /\ Append(s, e) # << >>
         /\ \A i \in 1 .. Len(s) : Append(s, e)[i] = s[i]
         /\ Append(s, e)[Len(s) + 1] = e
  BY AppendProperties, EmptySeq

\* A line passes each node once, and the links of a node are to its neighbours.
LEMMA LineNeighbours ==
  ASSUME NEW l \in [1 .. Size -> Nodes], IsLine(l), CanvasShape
  PROVE  /\ Size \in Nat /\ Size >= 1
         /\ \A i, j \in 1 .. Size : l[i] = l[j] => i = j
         /\ \A i \in 1 .. Size : kind[l[i]] = "input" <=> i = 1
         /\ \A i \in 1 .. Size : kind[l[i]] = "output" <=> i = Size
         /\ \A i, j \in 1 .. Size : <<l[i], l[j]>> \in links <=> j = i + 1
         /\ \A n \in Nodes : \E i \in 1 .. Size : n = l[i]
<1>0. Size \in Nat
  BY SizeIsNat
<1>1. \A n \in Nodes : \E i \in 1 .. Size : n = l[i]
  BY DEF IsLine
<1>2. Size >= 1
  <2>1. l[1] \in OfKind("input")
    BY DEF IsLine
  <2>2. l[1] \in Nodes
    BY <2>1 DEF OfKind
  <2>3. QED
    BY <1>0, <1>1, <2>2
<1>3. \A i, j \in 1 .. Size : l[i] = l[j] => i = j
  <2>1. l \in Surjection(1 .. Size, Nodes)
    BY <1>1 DEF Surjection
  <2>2. IsFiniteSet(1 .. Size) /\ Cardinality(1 .. Size) = Size
    <3>1. IsFiniteSet(1 .. Size) /\ Cardinality(1 .. Size) = IF 1 > Size THEN 0 ELSE Size - 1 + 1
      BY <1>0, FS_Interval
    <3>2. QED
      BY <1>0, <1>2, <3>1
  <2>3. l \in Injection(1 .. Size, Nodes)
    BY <2>1, <2>2, FS_SurjSameCardinalityImpliesInj DEF Size
  <2>4. QED
    BY <2>3 DEF Injection, IsInjective
<1>4. ASSUME NEW i \in 1 .. Size
      PROVE  /\ kind[l[i]] = "input" <=> i = 1
             /\ kind[l[i]] = "output" <=> i = Size
  <2>1. l[i] \in Nodes /\ 1 \in 1 .. Size /\ Size \in 1 .. Size
    BY <1>0, <1>2
  <2>2. kind[l[i]] = "input" <=> l[i] = l[1]
    BY <2>1 DEF IsLine, OfKind
  <2>3. kind[l[i]] = "output" <=> l[i] = l[Size]
    BY <2>1 DEF IsLine, OfKind
  <2>4. QED
    BY <1>3, <2>1, <2>2, <2>3
<1>5. ASSUME NEW i \in 1 .. Size, NEW j \in 1 .. Size
      PROVE  <<l[i], l[j]>> \in links <=> j = i + 1
  <2>1. ASSUME <<l[i], l[j]>> \in links PROVE j = i + 1
    <3>1. PICK k \in 1 .. Size - 1 : <<l[i], l[j]>> = <<l[k], l[k + 1]>>
      BY <2>1 DEF IsLine
    <3>2. l[i] = l[k] /\ l[j] = l[k + 1] /\ k \in 1 .. Size /\ k + 1 \in 1 .. Size
      BY <1>0, <3>1
    <3>3. QED
      BY <1>3, <3>2
  <2>2. ASSUME j = i + 1 PROVE <<l[i], l[j]>> \in links
    <3>1. i \in 1 .. Size - 1
      BY <1>0, <2>2
    <3>2. QED
      BY <2>2, <3>1 DEF IsLine
  <2>3. QED
    BY <2>1, <2>2
<1>6. QED
  BY <1>0, <1>1, <1>2, <1>3, <1>4, <1>5

\* A line has the shape.
LEMMA LineShaped ==
  ASSUME NEW l \in [1 .. Size -> Nodes], IsLine(l), CanvasShape
  PROVE  Shaped
<1>0. /\ Size \in Nat /\ Size >= 1 /\ 1 \in 1 .. Size /\ Size \in 1 .. Size
      /\ \A i, j \in 1 .. Size : <<l[i], l[j]>> \in links <=> j = i + 1
      /\ \A n \in Nodes : \E i \in 1 .. Size : n = l[i]
  <2>1. Size \in Nat /\ Size >= 1
    BY LineNeighbours
  <2>2. 1 \in 1 .. Size /\ Size \in 1 .. Size
    BY <2>1
  <2>3. /\ \A i, j \in 1 .. Size : <<l[i], l[j]>> \in links <=> j = i + 1
        /\ \A n \in Nodes : \E i \in 1 .. Size : n = l[i]
    BY LineNeighbours
  <2>4. QED
    BY <2>1, <2>2, <2>3
<1>1. \A n, m, k \in Nodes : <<n, m>> \in links /\ <<n, k>> \in links => m = k
  <2> SUFFICES ASSUME NEW n \in Nodes, NEW m \in Nodes, NEW k \in Nodes,
                      <<n, m>> \in links, <<n, k>> \in links
               PROVE  m = k
    OBVIOUS
  <2>1. PICK a \in 1 .. Size : n = l[a]
    BY <1>0
  <2>2. PICK b \in 1 .. Size : m = l[b]
    BY <1>0
  <2>3. PICK c \in 1 .. Size : k = l[c]
    BY <1>0
  <2>4. b = a + 1 /\ c = a + 1
    BY <1>0, <2>1, <2>2, <2>3
  <2>5. QED
    BY <2>2, <2>3, <2>4
<1>2. l[1] \in Nodes /\ l[Size] \in Nodes
  BY <1>0
<1>3. QED
  BY <1>1, <1>2 DEF Shaped, IsLine

LEMMA CanvasInvInit == CanvasInit => CanvasInv
<1> SUFFICES ASSUME CanvasInit PROVE CanvasInv
  OBVIOUS
<1>1. chain = << >> /\ cursor = End /\ links = {} /\ verdict = "drawn" /\ OfKind("input") = {}
  BY DEF CanvasInit, OfKind
<1>2. CanvasShape
  <2>1. kind \in [Nodes -> {"input", "output", "step"}]
    BY DEF CanvasInit
  <2>2. chain \in Seq(Nodes) /\ Len(chain) = 0
    BY <1>1, EmptySeq
  <2>3. QED
    BY <1>1, <2>1, <2>2 DEF CanvasShape
<1>3. Along
  BY <1>1, EmptySeq DEF Along
<1>4. ASSUME NEW l \in [1 .. Size -> Nodes], IsLine(l) PROVE Straight(l)
  BY <1>1, <1>4 DEF IsLine
<1>5. QED
  BY <1>2, <1>3, <1>4 DEF CanvasInv

LEMMA CanvasSaved == CanvasInv /\ SaveCanvas => CanvasInv'
<1> SUFFICES ASSUME CanvasInv, SaveCanvas PROVE CanvasInv'
  OBVIOUS
<1>1. /\ chain' = << >> /\ cursor' = End /\ verdict' = "walking" /\ Len(chain') = 0
      /\ chain' \in Seq(Nodes)
  <2>1. chain' = << >> /\ cursor' = End /\ verdict' = "walking"
    BY DEF CanvasInv, CanvasShape, SaveCanvas
  <2>2. QED
    BY <2>1, EmptySeq
<1>2. CanvasShape'
  BY <1>1 DEF SaveCanvas, CanvasShape
<1>3. Along'
  BY <1>1 DEF Along
<1>4. ASSUME NEW l \in [1 .. Size -> Nodes] PROVE Straight(l)'
  BY <1>1, SizeIsNat DEF Straight
<1>5. QED
  BY <1>2, <1>3, <1>4 DEF CanvasInv, Size

LEMMA WalkBegins == CanvasInv /\ BeginWalk => CanvasInv'
<1> SUFFICES ASSUME CanvasInv, BeginWalk PROVE CanvasInv'
  OBVIOUS
<1>1. /\ CanvasShape /\ verdict = "walking" /\ chain = << >> /\ cursor = End
      /\ kind' = kind /\ links' = links /\ chain' = << >> /\ Len(chain') = 0
  BY EmptySeq DEF CanvasInv, BeginWalk
<1>2. CASE Shape
  <2>1. cursor' \in OfKind("input") /\ verdict' = "walking"
    BY <1>1, <1>2 DEF BeginWalk
  <2>2. cursor' \in Nodes /\ kind'[cursor'] = "input"
    BY <1>1, <2>1 DEF OfKind
  <2>3. CanvasShape'
    BY <1>1, <2>1, <2>2 DEF CanvasShape
  <2>4. Shaped'
    <3>1. Shaped
      BY <1>1, <1>2, ShapeIsShaped
    <3>2. QED
      BY <1>1, <3>1 DEF Shaped, OfKind
  <2>5. Along'
    BY <1>1, <2>1, <2>2, <2>4 DEF Along
  <2>6. ASSUME NEW l \in [1 .. Size -> Nodes], IsLine(l)' PROVE Straight(l)'
    <3>1. cursor' = l[1]
      BY <1>1, <2>1, <2>6 DEF IsLine, OfKind
    <3>2. Size \in Nat /\ Size >= 1
      <4>1. IsLine(l)
        BY <1>1, <2>6 DEF IsLine, OfKind, Size
      <4>2. QED
        BY <1>1, <4>1, LineNeighbours
    <3>3. QED
      BY <1>1, <2>1, <3>1, <3>2 DEF Straight, Size
  <2>7. QED
    BY <2>3, <2>5, <2>6 DEF CanvasInv, Size
<1>3. CASE ~Shape
  <2>1. cursor' = End /\ verdict' = "refused"
    BY <1>1, <1>3 DEF BeginWalk
  <2>2. CanvasShape'
    BY <1>1, <2>1 DEF CanvasShape
  <2>3. Along'
    BY <1>1, <2>1 DEF Along
  <2>4. ASSUME NEW l \in [1 .. Size -> Nodes], IsLine(l)' PROVE FALSE
    <3>1. IsLine(l)
      BY <1>1, <2>4 DEF IsLine, OfKind, Size
    <3>2. QED
      BY <1>1, <1>3, <3>1, LineShaped, ShapeIsShaped
  <2>5. QED
    BY <2>2, <2>3, <2>4 DEF CanvasInv, Size
<1>4. QED
  BY <1>2, <1>3

\* A node met again: on a line there is none.
LEMMA WalkTurnsBack ==
  ASSUME CanvasInv, Walk, cursor \in Passed
  PROVE  CanvasInv'
<1>1. /\ CanvasShape /\ Along /\ verdict = "walking" /\ cursor \in Nodes /\ cursor # End /\ verdict' = "refused"
      /\ UNCHANGED <<kind, links, cursor, chain>>
  BY DEF CanvasInv, CanvasShape, Walk
<1>2. CanvasShape'
  BY <1>1 DEF CanvasShape, OfKind
<1>3. Along'
  BY <1>1 DEF Along, Shaped, OfKind
<1>4. ASSUME NEW l \in [1 .. Size -> Nodes], IsLine(l)' PROVE FALSE
  <2>1. IsLine(l)
    BY <1>1, <1>4 DEF IsLine, OfKind, Size
  <2>2. Straight(l)
    BY <2>1 DEF CanvasInv
  <2>3. PICK i \in 1 .. Len(chain) : cursor = chain[i]
    BY DEF Passed
  <2>4. Len(chain) \in Nat /\ Size \in Nat
    BY <1>1, SizeIsNat, LenProperties DEF CanvasShape
  <2>5. Len(chain) < Size /\ cursor = l[Len(chain) + 1]
    BY <1>1, <2>2, <2>3, <2>4, EmptySeq DEF Straight
  <2>6. i \in 1 .. Size /\ Len(chain) + 1 \in 1 .. Size /\ i # Len(chain) + 1
    BY <2>3, <2>4, <2>5
  <2>7. cursor = l[i]
    BY <2>2, <2>3 DEF Straight
  <2>9. \A j, k \in 1 .. Size : l[j] = l[k] => j = k
    BY <1>1, <2>1, LineNeighbours
  <2>10. QED
    BY <2>5, <2>6, <2>7, <2>9
<1>5. QED
  BY <1>2, <1>3, <1>4 DEF CanvasInv, Size

\* The next node.
LEMMA WalkGoesOn ==
  ASSUME CanvasInv, Walk, cursor \notin Passed
  PROVE  CanvasInv'
<1>0. PICK c \in Nodes : c = cursor
  BY DEF CanvasInv, CanvasShape, Walk
<1>1. PICK s \in Seq(Nodes) : s = chain
  BY DEF CanvasInv, CanvasShape
<1>2. PICK n \in Nat : n = Len(s)
  BY LenProperties
<1>3. PICK t \in Seq(Nodes) : t = Append(s, c)
  BY AppendProperties
<1>4. /\ Len(t) = n + 1 /\ t # << >> /\ (s = << >> <=> n = 0)
      /\ \A i \in 1 .. n : t[i] = s[i] /\ s[i] \in Nodes
      /\ t[n + 1] = c
  <2>1. /\ Len(t) = n + 1 /\ t # << >> /\ t[n + 1] = c /\ \A i \in 1 .. n : t[i] = s[i]
    BY <1>2, <1>3, AppendProperties
  <2>2. s = << >> <=> n = 0
    BY <1>2, EmptySeq
  <2>3. \A i \in 1 .. n : s[i] \in Nodes
    BY <1>2, ElementOfSeq
  <2>4. QED
    BY <2>1, <2>2, <2>3
<1>5. /\ verdict = "walking" /\ cursor # End /\ kind' = kind /\ links' = links /\ chain' = t
      /\ verdict' = IF EnteredOnce(c) THEN "walking" ELSE "refused"
      /\ IF kind[c] = "output" \/ Out(c) = {} THEN cursor' = End ELSE cursor' \in Out(c)
  BY <1>0, <1>1, <1>3 DEF Walk
<1>6. CanvasShape /\ Along /\ Shaped
  BY <1>5 DEF CanvasInv, Along
<1>7. CanvasShape'
  <2>1. cursor' \in Nodes \cup {End} /\ verdict' \in {"walking", "refused"}
    BY <1>5 DEF Out
  <2>2. \A i \in 1 .. n : s[i] # c
    BY <1>0, <1>1, <1>2 DEF Passed
  <2>3. \A i, j \in 1 .. n : s[i] = s[j] => i = j
    BY <1>1, <1>2, <1>6 DEF CanvasShape
  <2>4. \A i, j \in 1 .. n + 1 : t[i] = t[j] => i = j
    <3>1. \A i \in 1 .. n + 1 : i \in 1 .. n \/ i = n + 1
      OBVIOUS
    <3>2. QED
      BY <1>4, <2>2, <2>3, <3>1
  <2>5. QED
    BY <1>4, <1>5, <1>6, <2>1, <2>4 DEF CanvasShape
<1>8. Along'
  <2>1. Shaped'
    BY <1>5, <1>6 DEF Shaped, OfKind
  <2>2. n # 0 => <<s[n], c>> \in links
    BY <1>0, <1>1, <1>2, <1>4, <1>5, <1>6 DEF Along
  <2>3. \A i \in 1 .. n - 1 : <<s[i], s[i + 1]>> \in links
    BY <1>1, <1>2, <1>6 DEF Along
  <2>4. \A i \in 1 .. Len(t) - 1 : <<t[i], t[i + 1]>> \in links'
    <3>1. \A i \in 1 .. n : (i \in 1 .. n - 1 /\ i + 1 \in 1 .. n) \/ (i = n /\ n # 0)
      OBVIOUS
    <3>2. Len(t) - 1 = n
      BY <1>4
    <3>3. QED
      BY <1>4, <1>5, <2>2, <2>3, <3>1, <3>2
  <2>5. kind'[t[1]] = "input"
    <3>1. CASE n = 0
      BY <1>0, <1>1, <1>4, <1>5, <1>6, <3>1 DEF Along
    <3>2. CASE n # 0
      BY <1>1, <1>4, <1>5, <1>6, <3>2 DEF Along
    <3>3. QED
      BY <3>1, <3>2
  <2>6. cursor' # End => <<t[Len(t)], cursor'>> \in links'
    BY <1>4, <1>5 DEF Out
  <2>7. verdict' # "refused" => \A i \in 1 .. Len(t) : EnteredOnce(t[i])'
    <3>1. \A i \in 1 .. n : EnteredOnce(s[i])
      BY <1>1, <1>2, <1>5, <1>6 DEF Along
    <3>2. verdict' # "refused" => EnteredOnce(c)
      BY <1>5
    <3>3. \A i \in 1 .. n + 1 : i \in 1 .. n \/ i = n + 1
      OBVIOUS
    <3>4. verdict' # "refused" => \A i \in 1 .. Len(t) : EnteredOnce(t[i])
      BY <1>4, <3>1, <3>2, <3>3
    <3>5. QED
      BY <1>5, <3>4 DEF EnteredOnce, In
  <2>8. verdict' # "accepted"
    BY <1>5
  <2>9. QED
    BY <1>4, <1>5, <2>1, <2>4, <2>5, <2>6, <2>7, <2>8 DEF Along
<1>9. ASSUME NEW l \in [1 .. Size -> Nodes], IsLine(l)' PROVE Straight(l)'
  <2>1. IsLine(l)
    BY <1>5, <1>9 DEF IsLine, OfKind, Size
  <2>2. Straight(l)
    BY <2>1 DEF CanvasInv
  <2>3. Size \in Nat
    BY SizeIsNat
  <2>4. n < Size /\ c = l[n + 1] /\ \A i \in 1 .. n : s[i] = l[i]
    <3>1. \A i \in 1 .. n : s[i] = l[i]
      BY <1>1, <1>2, <2>2 DEF Straight
    <3>2. n < Size /\ c = l[n + 1]
      BY <1>0, <1>1, <1>2, <1>5, <2>2 DEF Straight
    <3>3. QED
      BY <3>1, <3>2
  <2>5. n + 1 \in 1 .. Size
    BY <2>3, <2>4
  <2>6. /\ \A i \in 1 .. Size : kind[l[i]] = "input" <=> i = 1
        /\ \A i \in 1 .. Size : kind[l[i]] = "output" <=> i = Size
        /\ \A i, j \in 1 .. Size : <<l[i], l[j]>> \in links <=> j = i + 1
        /\ \A m \in Nodes : \E i \in 1 .. Size : m = l[i]
    BY <1>6, <2>1, LineNeighbours
  <2>7. EnteredOnce(c)
    <3>1. CASE n = 0
      BY <2>4, <2>5, <2>6, <3>1 DEF EnteredOnce
    <3>2. CASE n # 0
      <4>1. n \in 1 .. Size /\ l[n] \in Nodes
        BY <2>3, <2>4, <3>2
      <4>2. \A i \in 1 .. Size : <<l[i], c>> \in links <=> i = n
        <5>1. \A i \in 1 .. Size : <<l[i], l[n + 1]>> \in links <=> n + 1 = i + 1
          BY <2>5, <2>6
        <5>2. QED
          BY <2>4, <5>1
      <4>3. In(c) = {l[n]}
        BY <2>6, <4>1, <4>2 DEF In
      <4>4. QED
        BY <4>3, FS_Singleton DEF EnteredOnce
    <3>3. QED
      BY <3>1, <3>2
  <2>8. \/ n + 1 = Size /\ cursor' = End
        \/ n + 1 < Size /\ cursor' = l[n + 2]
    <3>1. CASE n + 1 = Size
      BY <1>5, <2>4, <2>5, <2>6, <3>1
    <3>2. CASE n + 1 # Size
      <4>1. n + 2 \in 1 .. Size /\ n + 1 < Size /\ l[n + 2] \in Nodes
        BY <2>3, <2>4, <3>2
      <4>2. \A i \in 1 .. Size : <<c, l[i]>> \in links <=> i = n + 2
        <5>1. \A i \in 1 .. Size : <<l[n + 1], l[i]>> \in links <=> i = n + 1 + 1
          BY <2>5, <2>6
        <5>2. QED
          BY <2>4, <5>1
      <4>3. Out(c) = {l[n + 2]}
        BY <2>6, <4>1, <4>2 DEF Out
      <4>4. kind[c] # "output"
        BY <2>4, <2>5, <2>6, <3>2
      <4>5. QED
        BY <1>5, <4>1, <4>3, <4>4
    <3>3. QED
      BY <3>1, <3>2
  <2>9. \A i \in 1 .. n + 1 : t[i] = l[i]
    <3>1. \A i \in 1 .. n + 1 : i \in 1 .. n \/ i = n + 1
      OBVIOUS
    <3>2. QED
      BY <1>4, <2>4, <3>1
  <2>10. verdict' = "walking"
    BY <1>5, <2>7
  <2>11. QED
    BY <1>4, <1>5, <2>3, <2>5, <2>8, <2>9, <2>10 DEF Straight, Size
<1>10. QED
  BY <1>7, <1>8, <1>9 DEF CanvasInv, Size

LEMMA WalkFinishes == CanvasInv /\ Finish => CanvasInv'
<1> SUFFICES ASSUME CanvasInv, Finish PROVE CanvasInv'
  OBVIOUS
<1>1. /\ CanvasShape /\ Along /\ verdict = "walking" /\ cursor = End /\ chain # << >>
      /\ verdict' = IF Complete THEN "accepted" ELSE "refused"
      /\ UNCHANGED <<kind, links, cursor, chain>>
  BY DEF CanvasInv, Finish
<1>2. CanvasShape'
  BY <1>1 DEF CanvasShape, OfKind
<1>3. Along'
  <2>1. \A i \in 1 .. Len(chain) : EnteredOnce(chain[i])'
    BY <1>1 DEF Along, EnteredOnce, In
  <2>2. verdict' = "accepted" => Complete'
    BY <1>1 DEF Complete, Passed
  <2>3. Shaped'
    BY <1>1 DEF Along, Shaped, OfKind
  <2>4. QED
    BY <1>1, <2>1, <2>2, <2>3 DEF Along
<1>4. ASSUME NEW l \in [1 .. Size -> Nodes], IsLine(l)' PROVE Straight(l)'
  <2>1. IsLine(l)
    BY <1>1, <1>4 DEF IsLine, OfKind, Size
  <2>2. Straight(l)
    BY <2>1 DEF CanvasInv
  <2>3. Size \in Nat /\ Size >= 1 /\ l[Size] \in Nodes
    <3>1. Size \in Nat /\ Size >= 1
      BY <1>1, <2>1, LineNeighbours
    <3>2. QED
      BY <3>1
  <2>4. Len(chain) = Size
    <3>1. Len(chain) \in Nat
      BY <1>1, LenProperties DEF CanvasShape
    <3>2. Len(chain) < Size => l[Len(chain) + 1] \in Nodes
      BY <2>3, <3>1
    <3>3. QED
      BY <1>1, <2>2, <3>2, CanvasAssumption DEF Straight
  <2>5. \A i \in 1 .. Size : chain[i] = l[i]
    BY <2>2, <2>4 DEF Straight
  <2>6. Passed = Nodes
    BY <2>1, <2>4, <2>5 DEF Passed, IsLine
  <2>7. kind[chain[Len(chain)]] = "output"
    <3>1. l[Size] \in OfKind("output")
      BY <2>1 DEF IsLine
    <3>2. QED
      BY <2>3, <2>4, <2>5, <3>1 DEF OfKind
  <2>8. verdict' = "accepted"
    BY <1>1, <2>6, <2>7 DEF Complete
  <2>9. QED
    BY <1>1, <2>2, <2>8 DEF Straight, Size
<1>5. QED
  BY <1>2, <1>3, <1>4 DEF CanvasInv, Size

\* An accepted chain is the whole canvas.
LEMMA AcceptedIsCanvas == CanvasInv => ChainIsCanvas
<1> SUFFICES ASSUME CanvasInv, verdict = "accepted"
             PROVE  /\ Passed = Nodes /\ Len(chain) = Cardinality(Nodes)
                    /\ kind[chain[1]] = "input" /\ kind[chain[Len(chain)]] = "output"
                    /\ Consecutive(chain) \subseteq links
                    /\ links \subseteq Consecutive(chain) \cup (OfKind("output") \X (OfKind("input") \cup OfKind("output")))
  BY DEF ChainIsCanvas
<1>1. /\ CanvasShape /\ Along /\ Shaped /\ chain # << >> /\ Passed = Nodes
      /\ kind[chain[1]] = "input" /\ kind[chain[Len(chain)]] = "output"
  BY DEF CanvasInv, Along, Complete
<1>2. PICK n \in Nat : n = Len(chain) /\ n >= 1
  BY <1>1, EmptySeq DEF CanvasShape
<1>3. /\ chain \in [1 .. n -> Nodes]
      /\ \A m \in Nodes : \E i \in 1 .. n : m = chain[i]
      /\ \A i, j \in 1 .. n : chain[i] = chain[j] => i = j
      /\ \A i \in 1 .. n - 1 : <<chain[i], chain[i + 1]>> \in links
      /\ \A i \in 1 .. n : EnteredOnce(chain[i])
  <2>1. chain \in [1 .. n -> Nodes]
    BY <1>1, <1>2, LenProperties DEF CanvasShape
  <2>2. \A m \in Nodes : \E i \in 1 .. n : m = chain[i]
    BY <1>1, <1>2 DEF Passed
  <2>3. \A i, j \in 1 .. n : chain[i] = chain[j] => i = j
    BY <1>1, <1>2 DEF CanvasShape
  <2>4. /\ \A i \in 1 .. n - 1 : <<chain[i], chain[i + 1]>> \in links
        /\ \A i \in 1 .. n : EnteredOnce(chain[i])
    BY <1>1, <1>2 DEF Along
  <2>5. QED
    BY <2>1, <2>2, <2>3, <2>4
<1>4. n = Cardinality(Nodes)
  <2>1. IsFiniteSet(1 .. n) /\ Cardinality(1 .. n) = IF 1 > n THEN 0 ELSE n - 1 + 1
    BY FS_Interval
  <2>2. chain \in Surjection(1 .. n, Nodes) /\ chain \in Injection(1 .. n, Nodes)
    BY <1>3 DEF Surjection, Injection, IsInjective
  <2>3. Cardinality(Nodes) = Cardinality(1 .. n)
    BY <2>1, <2>2, FS_Surjection
  <2>4. QED
    BY <1>2, <2>1, <2>3
<1>5. Consecutive(chain) \subseteq links
  BY <1>2, <1>3 DEF Consecutive
<1>6. ASSUME NEW m \in Nodes, NEW k \in Nodes, <<m, k>> \in links
      PROVE  <<m, k>> \in Consecutive(chain) \cup (OfKind("output") \X (OfKind("input") \cup OfKind("output")))
  <2>1. PICK i \in 1 .. n : m = chain[i]
    BY <1>3
  <2>2. CASE i # n
    <3>1. i \in 1 .. n - 1 /\ i + 1 \in 1 .. n
      BY <2>2
    <3>2. chain[i + 1] \in Nodes /\ <<m, chain[i + 1]>> \in links
      BY <1>3, <2>1, <3>1
    <3>3. k = chain[i + 1]
      BY <1>1, <1>6, <3>2 DEF Shaped
    <3>4. QED
      BY <1>2, <2>1, <3>1, <3>3 DEF Consecutive
  <2>3. CASE i = n
    <3>1. kind[m] = "output"
      BY <1>1, <1>2, <2>1, <2>3
    <3>2. kind[k] # "step"
      <4> SUFFICES ASSUME kind[k] = "step" PROVE FALSE
        OBVIOUS
      <4>1. PICK j \in 1 .. n : k = chain[j]
        BY <1>3
      <4>2. j # 1
        BY <1>1, <4>1
      <4>3. j - 1 \in 1 .. n - 1 /\ j - 1 \in 1 .. n /\ j - 1 + 1 = j
        BY <4>2
      <4>4. chain[j - 1] \in Nodes /\ <<chain[j - 1], k>> \in links
        BY <1>3, <4>1, <4>3
      <4>5. EnteredOnce(k)
        BY <1>3, <4>1
      <4>6. chain[j - 1] = chain[n]
        BY <1>6, <2>1, <2>3, <4>4, <4>5, OneWayIn
      <4>7. QED
        BY <1>2, <1>3, <4>3, <4>6
    <3>3. kind[k] \in {"input", "output"}
      BY <1>1, <3>2 DEF CanvasShape
    <3>4. QED
      BY <3>1, <3>3 DEF OfKind
  <2>4. QED
    BY <2>2, <2>3
<1>7. links \subseteq Nodes \X Nodes
  BY <1>1 DEF CanvasShape
<1>8. links \subseteq Consecutive(chain) \cup (OfKind("output") \X (OfKind("input") \cup OfKind("output")))
  BY <1>6, <1>7
<1>9. QED
  BY <1>1, <1>2, <1>4, <1>5, <1>8

\* A line is not refused.
LEMMA LineIsAccepted == CanvasInv => LineAccepted
<1> SUFFICES ASSUME CanvasInv, verdict = "refused",
                    NEW l \in [1 .. Cardinality(Nodes) -> Nodes],
                    {l[i] : i \in DOMAIN l} = Nodes, links = Consecutive(l),
                    OfKind("input") = {l[1]}, OfKind("output") = {l[Cardinality(Nodes)]}
             PROVE  FALSE
  BY DEF LineAccepted
<1>1. l \in [1 .. Size -> Nodes] /\ Size \in Nat
  BY SizeIsNat DEF Size
<1>2. l \in Seq(Nodes) /\ Len(l) = Size
  BY <1>1
<1>3. IsLine(l)
  BY <1>1, <1>2 DEF IsLine, Consecutive, Size
<1>4. QED
  BY <1>1, <1>3 DEF CanvasInv, Straight

LEMMA CanvasInvNext == CanvasInv /\ [CanvasNext]_canvasVars => CanvasInv'
<1>1. CanvasInv /\ Walk => CanvasInv'
  BY WalkTurnsBack, WalkGoesOn
<1>2. CanvasInv /\ CanvasNext => CanvasInv'
  BY <1>1, CanvasSaved, WalkBegins, WalkFinishes DEF CanvasNext
<1>3. ASSUME CanvasInv, UNCHANGED canvasVars PROVE CanvasInv'
  <2>1. UNCHANGED <<kind, links, cursor, chain, verdict>>
    BY <1>3 DEF canvasVars
  <2>2. CanvasShape'
    BY <1>3, <2>1 DEF CanvasInv, CanvasShape, OfKind
  <2>3. Along'
    BY <1>3, <2>1 DEF CanvasInv, Along, Shaped, OfKind, EnteredOnce, In, Complete, Passed
  <2>4. \A l \in [1 .. Size -> Nodes] : IsLine(l)' => Straight(l)'
    BY <1>3, <2>1 DEF CanvasInv, IsLine, Straight, OfKind
  <2>5. QED
    BY <2>2, <2>3, <2>4 DEF CanvasInv, Size
<1>4. QED
  BY <1>2, <1>3

\* CanvasJudged (dataflowEngine.topoChain): for any number of nodes, kinds and edges, the chain
\* accepted is the canvas, and a canvas that is a line from its input to its output is accepted.
THEOREM CanvasJudgedHolds == CanvasSpec => []CanvasJudged
<1>1. CanvasInv => CanvasJudged
  BY AcceptedIsCanvas, LineIsAccepted DEF CanvasJudged
<1>2. QED
  BY <1>1, CanvasInvInit, CanvasInvNext, PTL DEF CanvasSpec
=============================================================================
