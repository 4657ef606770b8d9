------------------------------- MODULE Alerts -------------------------------
(***************************************************************************)
(* The alerts of the admin backend (alert.service): an event that matches  *)
(* enabled rules writes one record per rule and channel, and the table is  *)
(* cut back to its newest rows.  Lag is reported by the engine every tick, *)
(* so a rule fires once in a window for a lagging pipeline; that memory is *)
(* the process's.  A rule that covers a pipeline is one element of Watches.*)
(***************************************************************************)
EXTENDS Storage, Naturals, FiniteSets

CONSTANTS
  Watches,     \* the pairs of a rule and a target it covers
  Firings,     \* events being handled at once
  Window,      \* LAG_DEDUPE_MS
  MaxRecords,  \* MAX_RECORDS
  MaxNow,      \* bound: the clock
  MaxSerial    \* bound: records ever written

ASSUME AlertsAssumption == Window \in Nat \ {0} /\ MaxRecords \in Nat /\ MaxNow \in Nat /\ MaxSerial \in Nat

VARIABLES
  now,       \* the clock
  lastLag,   \* lastLagAlertAt, in memory; 0 where there is no entry
  table,     \* serial number -> the record, for the rows there are
  serial,    \* ids given out
  firing,    \* the handlers of events
  reader,    \* the handler that marks a record as read: the row it holds
  since,     \* the first id after the last restart (history)
  loose      \* has a row come back, or a prune been cut short, since the rows were last counted? (history)

alertVars == <<now, lastLag, table, serial, firing, reader, since, loose>>

NoWatch == "none"

\* The handlers of events are told apart from the one that marks a record.
ASSUME FiringsAssumption == NoWatch \notin Firings

AlertRecord == [watch : Watches, lag : BOOLEAN, at : 1 .. MaxNow, read : BOOLEAN]

Firing == [pc : {"idle", "match", "create", "count", "find", "delete"},
           lag : BOOLEAN, at : 0 .. MaxNow, to : SUBSET Watches,
           total : 0 .. MaxSerial, stale : SUBSET (1 .. MaxSerial)]

NoFiring == [pc |-> "idle", lag |-> FALSE, at |-> 0, to |-> {}, total |-> 0, stale |-> {}]
NoReader == [id |-> 0, row |-> {}]

AlertsTypeOK ==
  /\ now \in 1 .. MaxNow /\ lastLag \in [Watches -> 0 .. MaxNow]
  /\ serial \in 0 .. MaxSerial /\ DOMAIN table \subseteq 1 .. serial
  /\ \A i \in DOMAIN table : table[i] \in AlertRecord
  /\ firing \in [Firings -> Firing]
  /\ reader.id \in 0 .. serial /\ reader.row \subseteq AlertRecord
  /\ since \in 1 .. MaxSerial + 1 /\ loose \in BOOLEAN

AlertsInit ==
  /\ now = 1 /\ lastLag = [w \in Watches |-> 0]
  /\ table = <<>> /\ serial = 0
  /\ firing = [f \in Firings |-> NoFiring] /\ reader = NoReader
  /\ since = 1 /\ loose = FALSE

-----------------------------------------------------------------------------

Busy         == {f \in Firings : firing[f].pc # "idle"}
AlertTurn(f) == TurnOf(f, IF reader = NoReader THEN Busy ELSE Busy \cup {NoWatch})
Ends(f)      == firing' = [firing EXCEPT ![f] = NoFiring]

\* The rows in the order of find: by time, those of a moment as they were written.
Older(i, j) == table[i].at < table[j].at \/ (table[i].at = table[j].at /\ i < j)
Rank(i)     == Cardinality({j \in DOMAIN table : Older(j, i)})
Oldest(n)   == {i \in DOMAIN table : Rank(i) < n}

\* fireEvent: the event is timed before the rules are read.  Bound: while ids are left.
FireEvent(f, lag) ==
  /\ firing[f].pc = "idle" /\ AlertTurn(f)
  /\ serial + Cardinality({g \in Firings : firing[g].pc \in {"match", "create"}}) < MaxSerial
  /\ firing' = [firing EXCEPT ![f] = [@ EXCEPT !.pc = "match", !.lag = lag, !.at = now]]
  /\ UNCHANGED <<now, lastLag, table, serial, reader, since, loose>>

\* Faulty variant: the last time is looked up, and this one is noted nowhere.
Due_CheckOnly(f, matching) ==
  LET due == {w \in matching : ~firing[f].lag \/ firing[f].at >= lastLag[w] + Window \/ lastLag[w] = 0}
  IN /\ firing' = [firing EXCEPT ![f] = IF due = {} THEN NoFiring
                                        ELSE [@ EXCEPT !.pc = "create", !.to = due]]
     /\ UNCHANGED lastLag

\* lagDuplicated, for each of the matching rules: looks the last time up and notes this one.
Due(f, matching) ==
  LET due == {w \in matching : ~firing[f].lag \/ firing[f].at >= lastLag[w] + Window \/ lastLag[w] = 0}
  IN /\ firing' = [firing EXCEPT ![f] = IF due = {} THEN NoFiring
                                        ELSE [@ EXCEPT !.pc = "create", !.to = due]]
     /\ lastLag' = IF firing[f].lag
                   THEN [w \in Watches |-> IF w \in due THEN firing[f].at ELSE lastLag[w]]
                   ELSE lastLag

\* The enabled rules are there: those whose scope and condition the event meets.
MatchRules(f, matching) ==
  /\ firing[f].pc = "match" /\ AlertTurn(f)
  /\ Due(f, matching)
  /\ UNCHANGED <<now, table, serial, reader, since, loose>>

\* The records of an event are written side by side; each gets the next id.
CreateRecord(f, w) ==
  /\ firing[f].pc = "create" /\ AlertTurn(f) /\ w \in firing[f].to /\ serial < MaxSerial
  /\ serial' = serial + 1
  /\ table' = [i \in DOMAIN table \cup {serial'} |->
                 IF i = serial' THEN [watch |-> w, lag |-> firing[f].lag, at |-> firing[f].at, read |-> FALSE]
                 ELSE table[i]]
  /\ firing' = [firing EXCEPT ![f] = [@ EXCEPT !.to = firing[f].to \ {w},
                                               !.pc = IF firing[f].to = {w} THEN "count" ELSE "create"]]
  /\ UNCHANGED <<now, lastLag, reader, since, loose>>

\* pruneRecords: first how many there are ...
PruneCount(f) ==
  /\ firing[f].pc = "count" /\ AlertTurn(f)
  /\ IF Cardinality(DOMAIN table) <= MaxRecords THEN Ends(f)
     ELSE firing' = [firing EXCEPT ![f] = [@ EXCEPT !.pc = "find", !.total = Cardinality(DOMAIN table)]]
  /\ loose' = FALSE
  /\ UNCHANGED <<now, lastLag, table, serial, reader, since>>

\* Faulty variant: newest first, as a query sorts by default.
Stale_Newest(f) ==
  {i \in DOMAIN table : Rank(i) >= Cardinality(DOMAIN table) - (firing[f].total - MaxRecords)}

\* ... then the first total - MAX_RECORDS rows, oldest first ...
Stale(f) == Oldest(firing[f].total - MaxRecords)

PruneFind(f) ==
  /\ firing[f].pc = "find" /\ AlertTurn(f)
  /\ firing' = [firing EXCEPT ![f] = [@ EXCEPT !.stale = Stale(f),
                                               !.pc = IF Stale(f) = {} THEN "idle" ELSE "delete"]]
  /\ UNCHANGED <<now, lastLag, table, serial, reader, since, loose>>

\* ... and their deletion, side by side.
PruneDelete(f, i) ==
  /\ firing[f].pc = "delete" /\ AlertTurn(f) /\ i \in firing[f].stale
  /\ table' = [j \in DOMAIN table \ {i} |-> table[j]]
  /\ IF firing[f].stale = {i} THEN Ends(f)
     ELSE firing' = [firing EXCEPT ![f].stale = @ \ {i}]
  /\ UNCHANGED <<now, lastLag, serial, reader, since, loose>>

\* markRecordRead: the row is read ...
MarkLoad(i) ==
  /\ reader = NoReader /\ AlertTurn(NoWatch) /\ i \in DOMAIN table /\ ~table[i].read
  /\ reader' = [id |-> i, row |-> {table[i]}]
  /\ UNCHANGED <<now, lastLag, table, serial, firing, since, loose>>

\* ... and written whole; updateRow inserts it if it is not there any more (MySQL).
MarkSave ==
  /\ reader # NoReader /\ AlertTurn(NoWatch)
  /\ \E r \in reader.row :
       table' = [i \in DOMAIN table \cup {reader.id} |->
                   IF i = reader.id THEN [r EXCEPT !.read = TRUE] ELSE table[i]]
  /\ loose' = (loose \/ reader.id \notin DOMAIN table)
  /\ reader' = NoReader
  /\ UNCHANGED <<now, lastLag, serial, firing, since>>

AlertClock ==
  /\ now < MaxNow /\ now' = now + 1
  /\ UNCHANGED <<lastLag, table, serial, firing, reader, since, loose>>

\* The process is restarted: the rows of the database stay, lastLagAlertAt does not.
AlertRestart ==
  /\ driver = "mysql" /\ since # serial + 1
  /\ lastLag' = [w \in Watches |-> 0] /\ since' = serial + 1
  /\ firing' = [f \in Firings |-> NoFiring] /\ reader' = NoReader
  /\ loose' = (loose \/ Busy # {})
  /\ UNCHANGED <<now, table, serial>>

AlertsNext ==
  \/ \E f \in Firings :
       \/ \E lag \in BOOLEAN : FireEvent(f, lag)
       \/ \E matching \in SUBSET Watches : MatchRules(f, matching)
       \/ \E w \in Watches : CreateRecord(f, w)
       \/ PruneCount(f) \/ PruneFind(f)
       \/ \E i \in 1 .. MaxSerial : PruneDelete(f, i)
  \/ \E i \in 1 .. MaxSerial : MarkLoad(i)
  \/ MarkSave \/ AlertClock \/ AlertRestart

AlertsSpec ==
  StorageTypeOK /\ AlertsInit /\ [][AlertsNext /\ UNCHANGED driver]_<<driver, alertVars>>

-----------------------------------------------------------------------------
(* Properties of the code *)

\* One rule alerts about the lag of one pipeline at most once in a window, whichever of the
\* reports it comes from and in whatever order they are handled; a restart forgets.
LagSpaced ==
  \A i, j \in {k \in DOMAIN table : k >= since /\ table[k].lag} :
    i # j /\ table[i].watch = table[j].watch =>
      table[i].at >= table[j].at + Window \/ table[j].at >= table[i].at + Window

\* Whatever overlaps, the table is back to its bound once every event has been handled,
\* unless a row has come back or a prune has been cut short.
AlertsBounded == Busy = {} /\ ~loose => Cardinality(DOMAIN table) <= MaxRecords

\* With the memory driver a prune takes no row that is among the newest MaxRecords.
PruneKeepsNewest ==
  [][driver = "memory" => \A i \in DOMAIN table \ DOMAIN table' :
       Cardinality({j \in DOMAIN table : Older(i, j)}) >= MaxRecords]_<<driver, table>>

\* Prunes that overlap take away enough and not too much (pruneRecords).
AlertsPruned == []AlertsBounded /\ PruneKeepsNewest
=============================================================================
