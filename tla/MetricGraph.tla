---------------------------- MODULE MetricGraph -----------------------------
(***************************************************************************)
(* The metrics (metric.service): their definitions, the edges to the       *)
(* metrics they are computed from, and their versions.  A save checks the  *)
(* definition against all metrics and edges, writes the row, rebuilds the  *)
(* edges of the metric (a DELETE and an INSERT) and keeps a version; a     *)
(* deletion leaves the row marked.  Nothing undoes a request that ends     *)
(* between two of its queries.  A metric is named by its code, which it    *)
(* keeps for life.                                                         *)
(***************************************************************************)
EXTENDS Storage, Naturals, FiniteSets

CONSTANTS
  Metrics,     \* the codes of the metrics, present and future
  Savers,      \* requests in progress at once
  MaxSaves,    \* bound: saves begun
  MaxOverlap,  \* bound: saves begun, when a request begins while another is in progress
  MaxLost      \* bound: requests that end midway

ASSUME MetricAssumption == {MaxSaves, MaxOverlap, MaxLost} \subseteq Nat

VARIABLES
  metric,      \* the rows
  edges,       \* the dependency edges <<parent, child>>
  versions,    \* the snapshots <<metric, version, definition>>
  saver,       \* the requests in progress
  torn,        \* metrics whose last request ended between its first write and its last (history)
  lost,        \* <<metric, version>> of saves that ended so (history)
  raced        \* has a request written between another's first read and its end? (history)

metricVars == <<metric, edges, versions, saver, torn, lost, raced>>
tables     == <<metric, edges, versions, torn, lost, raced>>

NoMetric == "none"

\* deriveType.  A derived metric qualifies its base (baseMetricId), a composite one is a formula
\* over metrics.  An atomic one aggregates a column of a model, but its parameters may name a
\* base too: they are an open object, and a change of type that gives none keeps the old ones.
Definition ==
  {d \in [type : {"ATOMIC", "DERIVED", "COMPOSITE"}, refs : SUBSET Metrics] :
     CASE d.type = "ATOMIC"    -> d.refs = {} \/ \E b \in Metrics : d.refs = {b}
       [] d.type = "DERIVED"   -> \E b \in Metrics : d.refs = {b}
       [] d.type = "COMPOSITE" -> d.refs # {}}
Atomic     == [type |-> "ATOMIC", refs |-> {}]
Row        == [status : {"absent", "active", "deleted"}, def : Definition, version : 0 .. MaxSaves]
NoRow      == [status |-> "absent", def |-> Atomic, version |-> 0]

Saver == [pc : {"idle", "check", "load", "save", "resolve", "clear", "insert", "version",
                "unlink", "mark"},
          on : Metrics \cup {NoMetric}, def : Definition, existing : Row, row : Row,
          kids : SUBSET Metrics]
NoSaver == [pc |-> "idle", on |-> NoMetric, def |-> Atomic, existing |-> NoRow, row |-> NoRow,
            kids |-> {}]

MetricTypeOK ==
  /\ metric \in [Metrics -> Row] /\ edges \in SUBSET (Metrics \X Metrics)
  /\ versions \in SUBSET (Metrics \X (0 .. MaxSaves) \X Definition)
  /\ saver \in [Savers -> Saver] /\ raced \in BOOLEAN
  /\ torn \in SUBSET Metrics /\ lost \in SUBSET (Metrics \X (1 .. MaxSaves))

MetricInit ==
  /\ metric = [m \in Metrics |-> NoRow] /\ edges = {} /\ versions = {}
  /\ saver = [s \in Savers |-> NoSaver] /\ torn = {} /\ lost = {} /\ raced = FALSE

-----------------------------------------------------------------------------

Saving     == {s \in Savers : saver[s].pc # "idle"}
Turn(s)    == TurnOf(s, Saving)
Present(m) == metric[m].status # "absent"
Active(m)  == metric[m].status = "active"

Children(E, m)  == {c \in Metrics : <<m, c>> \in E}
Closed(E, C)    == \A c \in C : Children(E, c) \subseteq C
\* The walk along the edges from m comes back to m through another metric.
OnCycle(E, m)   == \A C \in SUBSET Metrics : Children(E, m) \ {m} \subseteq C /\ Closed(E, C) => m \in C
\* Somewhere the edges never end.
HasCycle(E)     == \E C \in SUBSET Metrics : C # {} /\ \A c \in C : Children(E, c) \cap C # {}
Proper(E)       == {e \in E : e[1] # e[2]}

Race(s) == raced' = (raced \/ Saving \ {s} # {})

\* Bounds: requests begin and may meet among the first saves, and none begins after a race.
Room(saves) ==
  LET begun == Cardinality(versions) + Cardinality(lost) + Cardinality(torn) + Cardinality(Saving) IN
  /\ ~raced /\ begun < saves
  /\ Saving # {} => begun < MaxOverlap

\* getActiveMetric for an update (or a rollback, whose definition is an old one), and nothing
\* for a new metric.
BeginSave(s, m, def) ==
  /\ saver[s].pc = "idle" /\ Turn(s)
  /\ metric[m].status # "deleted"
  /\ saver' = [saver EXCEPT ![s] = [@ EXCEPT !.pc = "check", !.on = m, !.def = def,
                                             !.existing = metric[m]]]
  /\ UNCHANGED tables

Rollback(s, m) ==
  \E v \in {w \in versions : w[1] = m} : Active(m) /\ BeginSave(s, m, v[3])

\* The metrics a definition names that there are, deleted ones too.
Named(def) == {r \in def.refs : Present(r)}

\* What a formula may refer to: a composite one to active metrics, a derived one to any, but
\* neither to itself; nothing is asked of the base an atomic metric names.
RefsValid(m, def) ==
  CASE def.type = "ATOMIC"    -> TRUE
    [] def.type = "DERIVED"   -> m \notin def.refs /\ def.refs \subseteq Named(def)
    [] def.type = "COMPOSITE" -> m \notin def.refs /\ \A r \in def.refs : Active(r)

\* Faulty variant: looks one step further only.
Acyclic_OneStep(m, def) == Present(m) => \A r \in Named(def) : m \notin Children(edges, r)

\* assertNoCycle: the new edges are added to those there are if a metric named has edges of its
\* own; a new metric cannot be referred to yet.
Acyclic(m, def) ==
  LET kids  == Named(def)
      added == IF \E r \in kids : Children(edges, r) # {} THEN {m} \X kids ELSE {}
  IN Present(m) /\ def.refs # {} => ~OnCycle(edges \cup added, m)

\* validateMetric; its queries are taken together.
Validate(s) ==
  LET q == saver[s]
      valid == /\ q.existing.status = "absent" => ~Present(q.on)  \* findCodeOccupant
               /\ RefsValid(q.on, q.def) /\ Acyclic(q.on, q.def)
  IN /\ q.pc = "check" /\ Turn(s)
     /\ saver' = IF valid THEN [saver EXCEPT ![s].pc = "load"] ELSE [saver EXCEPT ![s] = NoSaver]
     /\ UNCHANGED tables

\* repository.update reads the row again, with its mark of deletion.
LoadMetric(s) ==
  /\ saver[s].pc = "load" /\ Turn(s)
  /\ saver' = [saver EXCEPT ![s] = [@ EXCEPT !.pc = "save", !.row = metric[saver[s].on]]]
  /\ UNCHANGED tables

VersionOf(q) == q.existing.version + 1

\* The row of a new metric, or all of the row read before, with the version after that of the
\* request's first read.  The index on the code refuses a second new one.
SaveMetric(s) ==
  LET q == saver[s]
      isNew == q.existing.status = "absent"
  IN /\ q.pc = "save" /\ Turn(s) /\ Race(s)
     /\ IF isNew /\ Present(q.on)
        THEN saver' = [saver EXCEPT ![s] = NoSaver] /\ UNCHANGED metric
        ELSE /\ metric' = [metric EXCEPT ![q.on] =
                  [status |-> IF isNew THEN "active" ELSE q.row.status,
                   def |-> q.def, version |-> VersionOf(q)]]
             /\ saver' = [saver EXCEPT ![s].pc = "resolve"]
     /\ UNCHANGED <<edges, versions, torn, lost>>

\* resolveEdges looks the metrics up once more: by now the metric itself is among them.
ResolveEdges(s) ==
  /\ saver[s].pc = "resolve" /\ Turn(s)
  /\ saver' = [saver EXCEPT ![s] = [@ EXCEPT !.pc = "clear", !.kids = Named(saver[s].def)]]
  /\ UNCHANGED tables

\* Faulty variant: the edges of the last definition stay.
Cleared_None(m) == edges

\* rebuildForParent: the edges of the metric go ...
Cleared(m) == {e \in edges : e[1] # m}

ClearEdges(s) ==
  LET q == saver[s] IN
  /\ q.pc = "clear" /\ Turn(s) /\ Race(s)
  /\ edges' = Cleared(q.on)
  /\ saver' = [saver EXCEPT ![s].pc = IF q.kids = {} THEN "version" ELSE "insert"]
  /\ UNCHANGED <<metric, versions, torn, lost>>

\* The request ends here: an error or a crash.
Ends(s) ==
  LET q == saver[s] IN
  /\ torn' = IF q.pc \in {"resolve", "clear", "insert", "version", "mark"} THEN torn \cup {q.on} ELSE torn
  /\ lost' = IF q.pc \in {"resolve", "clear", "insert", "version"} THEN lost \cup {<<q.on, VersionOf(q)>>}
             ELSE lost
  /\ saver' = [saver EXCEPT ![s] = NoSaver]

\* ... and those of its definition are added, unless another request has added one of them
\* (uk_metricdep).
InsertEdges(s) ==
  LET q == saver[s]
      new == {q.on} \X q.kids
  IN /\ q.pc = "insert" /\ Turn(s)
     /\ IF new \cap edges = {}
        THEN /\ edges' = edges \cup new /\ Race(s)
             /\ saver' = [saver EXCEPT ![s].pc = "version"] /\ UNCHANGED <<torn, lost>>
        ELSE Ends(s) /\ UNCHANGED <<edges, raced>>
     /\ UNCHANGED <<metric, versions>>

\* snapshot.
Snapshot(s) ==
  LET q == saver[s] IN
  /\ q.pc = "version" /\ Turn(s) /\ Race(s)
  /\ versions' = versions \cup {<<q.on, VersionOf(q), q.def>>}
  /\ torn' = torn \ {q.on}
  /\ saver' = [saver EXCEPT ![s] = NoSaver]
  /\ UNCHANGED <<metric, edges, lost>>

\* A query fails or the process does, with MySQL: the queries of the memory driver cannot fail
\* and its tables end with the process.  Bound: MaxLost, and none after a race.
RequestFails(s) ==
  /\ driver = "mysql" /\ saver[s].pc # "idle" /\ ~raced
  /\ Cardinality(torn) + Cardinality(lost) < MaxLost
  /\ Ends(s)
  /\ UNCHANGED <<metric, edges, versions, raced>>

\* deleteMetric: a metric that others are computed from stays.
BeginDelete(s, m) ==
  /\ saver[s].pc = "idle" /\ Turn(s)
  /\ Active(m) /\ \A p \in Metrics : m \notin Children(edges, p)
  /\ saver' = [saver EXCEPT ![s] = [@ EXCEPT !.pc = "unlink", !.on = m, !.existing = metric[m]]]
  /\ UNCHANGED tables

\* removeInvolving.
Unlinked(m) == {e \in edges : e[1] # m /\ e[2] # m}

Unlink(s) ==
  /\ saver[s].pc = "unlink" /\ Turn(s) /\ Race(s)
  /\ edges' = Unlinked(saver[s].on)
  /\ saver' = [saver EXCEPT ![s].pc = "mark"]
  /\ UNCHANGED <<metric, versions, torn, lost>>

\* The row is read again and written with the mark.
MarkDeleted(s) ==
  /\ saver[s].pc = "mark" /\ Turn(s) /\ Race(s)
  /\ metric' = [metric EXCEPT ![saver[s].on].status = "deleted"]
  /\ torn' = torn \ {saver[s].on}
  /\ saver' = [saver EXCEPT ![s] = NoSaver]
  /\ UNCHANGED <<edges, versions, lost>>

RequestStep(s) ==
  \/ Room(MaxSaves) /\ \E m \in Metrics : (\E def \in Definition : BeginSave(s, m, def)) \/ Rollback(s, m)
  \/ Room(MaxSaves + 1) /\ \E m \in Metrics : BeginDelete(s, m)
  \/ Validate(s) \/ LoadMetric(s) \/ SaveMetric(s) \/ ResolveEdges(s) \/ ClearEdges(s)
  \/ InsertEdges(s) \/ Snapshot(s) \/ Unlink(s) \/ MarkDeleted(s) \/ RequestFails(s)

MetricNext == \E s \in Savers : RequestStep(s)

MetricSpec ==
  StorageTypeOK /\ MetricInit /\ [][MetricNext /\ UNCHANGED driver]_<<driver, metricVars>>

-----------------------------------------------------------------------------
(* Properties of the code.  They hold as long as no two requests overlap, wherever  *)
(* requests end.                                                                   *)

\* No metric is computed from itself by way of another, along any chain of definitions, by any
\* sequence of saves, rollbacks and deletions that are carried out or end midway.
GraphAcyclic == raced \/ ~HasCycle(Proper(edges))

\* Do the edges of a metric fit its row?  An atomic metric may name a base that came after it,
\* to which there is no edge.
EdgesFit(m) ==
  LET named == IF Active(m) THEN metric[m].def.refs ELSE {} IN
  /\ \/ Children(edges, m) = named
     \/ metric[m].def.type = "ATOMIC" /\ Children(edges, m) = {}
  /\ Active(m) /\ metric[m].def.type = "COMPOSITE" => \A r \in named : Active(r)

\* The edges are those of the definitions, once no request is under way: active metrics have
\* the edges of their last definition and deleted ones none, and nothing a composite metric
\* is computed from has been deleted - but for metrics whose last request ended midway: the
\* next one that is carried out repairs their edges.
GraphAgrees == raced \/ Saving # {} \/ \A m \in Metrics : m \in torn \/ EdgesFit(m)

\* A version of a metric is kept for every save, but for those that ended midway, and the last
\* one is what the row says.
VersionsComplete ==
  raced \/ Saving # {} \/
  \A m \in Metrics :
    LET kept  == {v[2] : v \in {w \in versions : w[1] = m}}
        given == {n \in 1 .. metric[m].version : <<m, n>> \notin lost}
    IN /\ kept = given
       /\ metric[m].version \in given => <<m, metric[m].version, metric[m].def>> \in versions

\* The three tables a save writes one after the other agree once it is over, whatever
\* sequence of definitions, rollbacks, deletions and failures came before.
TablesAgree == GraphAgrees /\ VersionsComplete

-----------------------------------------------------------------------------
(* What comments say and the code does not do: TLC refutes each.                   *)

\* metric.service.js:3, cycles are refused (overlapping saves of MySQL make one).
NeverCyclic == ~HasCycle(Proper(edges))

\* metric.service.js:265, no metric is its own base: an atomic metric may name itself as base,
\* which the walk of assertNoCycle overlooks.  It can no longer be deleted.
NeverItsOwnBase == \A m \in Metrics : <<m, m>> \notin edges

\* metric.service.js:406, a save writes the row, its edges and its version (and not a part).
SaveWritesAll == Saving = {} => torn = {}

\* metric.service.js:285 and 300, what a metric is computed from exists: a derived metric
\* may be saved on a base that has been deleted.
BasesExist == \A m \in Metrics : Saving = {} /\ Active(m) => \A r \in metric[m].def.refs : Active(r)
=============================================================================
