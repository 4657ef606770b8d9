--------------------------- MODULE Services_proofs ---------------------------
(***************************************************************************)
(* Proofs about three services of the admin backend that share nothing but *)
(* the storage driver: alerts, the data API gateway and the scheduler, for *)
(* any number of handlers at work, with either driver, across restarts.    *)
(***************************************************************************)
EXTENDS Alerts, DataApiGateway, Scheduler, Ranks, FiniteSetTheorems, SequenceTheorems, TLAPS

-----------------------------------------------------------------------------
(* Alerts: one rule alerts about the lag of one pipeline at most once in a window. *)

Time == Nat \ {0}

\* The records without their bounds.
AlertRow == [watch : Watches, lag : BOOLEAN, at : Time, read : BOOLEAN]
Event == [pc : {"idle", "match", "create", "count", "find", "delete"},
          lag : BOOLEAN, at : Nat, to : SUBSET Watches, total : Nat, stale : SUBSET Nat]

AlertShape ==
  /\ now \in Time /\ lastLag \in [Watches -> Nat] /\ serial \in Nat /\ since \in Nat
  /\ DOMAIN table \subseteq 1 .. serial /\ \A i \in DOMAIN table : table[i] \in AlertRow
  /\ firing \in [Firings -> Event]
  /\ \A f \in Firings : firing[f].pc # "idle" => firing[f].at \in Time
  /\ reader \in [id : Nat, row : SUBSET AlertRow] /\ reader.id <= serial
  /\ reader.row # {} => reader.id # 0

Apart(a, b) == a >= b + Window \/ b >= a + Window

\* Where the alerts of lag are since the last restart: in the table, in the handler that is
\* about to write them, and in the hands of the reader.
Told(i)       == i \in DOMAIN table /\ i >= since /\ table[i].lag
LagPending(f, w) == firing[f].pc = "create" /\ firing[f].lag /\ w \in firing[f].to
InHand(r)     == r \in reader.row /\ r.lag /\ reader.id >= since

\* lastLagAlertAt is at least as late as each of them ...
Noted ==
  /\ \A i \in DOMAIN table : Told(i) => table[i].at <= lastLag[table[i].watch]
  /\ \A f \in Firings, w \in Watches : LagPending(f, w) => firing[f].at <= lastLag[w]
  /\ \A r \in AlertRow : InHand(r) => r.at <= lastLag[r.watch]

\* ... and any two of them are a window apart.
LagApart ==
  /\ \A i, j \in DOMAIN table :
       Told(i) /\ Told(j) /\ i # j /\ table[i].watch = table[j].watch => Apart(table[i].at, table[j].at)
  /\ \A f \in Firings, i \in DOMAIN table :
       Told(i) /\ LagPending(f, table[i].watch) => Apart(firing[f].at, table[i].at)
  /\ \A f, g \in Firings, w \in Watches :
       LagPending(f, w) /\ LagPending(g, w) /\ f # g => Apart(firing[f].at, firing[g].at)
  /\ \A r \in AlertRow, i \in DOMAIN table :
       InHand(r) /\ Told(i) /\ i # reader.id /\ table[i].watch = r.watch => Apart(r.at, table[i].at)
  /\ \A r \in AlertRow, f \in Firings : InHand(r) /\ LagPending(f, r.watch) => Apart(r.at, firing[f].at)

AlertInv == AlertShape /\ Noted /\ LagApart

LEMMA AlertBlanks ==
  /\ NoFiring \in Event /\ NoFiring.pc = "idle"
  /\ NoReader \in [id : Nat, row : SUBSET AlertRow] /\ NoReader.id = 0 /\ NoReader.row = {}
  BY DEF NoFiring, NoReader, Event

LEMMA AlertBegins == AlertsInit => AlertInv
<1> SUFFICES ASSUME AlertsInit PROVE AlertInv
  OBVIOUS
<1>1. DOMAIN table = {}
  BY DEF AlertsInit
<1>2. \A f \in Firings : firing[f] = NoFiring
  BY DEF AlertsInit
<1>3. AlertShape
  BY <1>1, <1>2, AlertBlanks DEF AlertsInit, AlertShape, Time
<1>4. \A f \in Firings : \A w : ~LagPending(f, w)
  BY <1>2, AlertBlanks DEF LagPending
<1>5. \A r : ~InHand(r)
  BY AlertBlanks DEF AlertsInit, InHand
<1>6. QED
  BY <1>1, <1>3, <1>4, <1>5 DEF AlertInv, Noted, LagApart

\* A handler goes on, and announces no alert of lag it had not announced before.
LEMMA EventMoves ==
  ASSUME AlertInv, NEW f \in Firings, NEW n \in Event, firing' = [firing EXCEPT ![f] = n],
         n.pc # "idle" => n.at \in Time, n.pc # "create" \/ ~n.lag,
         UNCHANGED <<now, lastLag, table, serial, reader, since>>
  PROVE  AlertInv'
<1>1. /\ firing' \in [Firings -> Event] /\ firing'[f] = n
      /\ \A g \in Firings \ {f} : firing'[g] = firing[g]
  BY DEF AlertInv, AlertShape
<1>2. AlertShape'
  BY <1>1 DEF AlertInv, AlertShape
<1>3. /\ \A g \in Firings : \A w : LagPending(g, w)' => LagPending(g, w) /\ firing'[g] = firing[g]
      /\ (\A i : Told(i)' <=> Told(i)) /\ (\A r : InHand(r)' <=> InHand(r))
  BY <1>1 DEF LagPending, Told, InHand
<1>4. Noted'
  BY <1>3 DEF AlertInv, Noted
<1>5. LagApart'
  BY <1>3 DEF AlertInv, LagApart
<1>6. QED
  BY <1>2, <1>4, <1>5 DEF AlertInv
LEMMA TableFinite == AlertInv => Cardinality(DOMAIN table) \in Nat
<1> SUFFICES ASSUME AlertInv PROVE Cardinality(DOMAIN table) \in Nat
  OBVIOUS
<1>1. IsFiniteSet(1 .. serial)
  BY FS_Interval DEF AlertInv, AlertShape
<1>2. IsFiniteSet(DOMAIN table)
  BY <1>1, FS_Subset DEF AlertInv, AlertShape
<1>3. QED
  BY <1>2, FS_CardinalityType

LEMMA EventSteps ==
  ASSUME AlertInv, NEW f \in Firings,
         (\E lag \in BOOLEAN : FireEvent(f, lag)) \/ PruneCount(f) \/ PruneFind(f)
  PROVE  AlertInv'
<1>1. firing[f] \in Event /\ now \in Time /\ UNCHANGED <<now, lastLag, table, serial, reader, since>>
      /\ (firing[f].pc # "idle" => firing[f].at \in Time)
  BY DEF AlertInv, AlertShape, FireEvent, PruneCount, PruneFind
<1>2. ASSUME NEW lag \in BOOLEAN, FireEvent(f, lag) PROVE AlertInv'
  <2> DEFINE n == [firing[f] EXCEPT !.pc = "match", !.lag = lag, !.at = now]
  <2>1. firing' = [firing EXCEPT ![f] = n]
    BY <1>2 DEF FireEvent
  <2>2. n \in Event /\ n.pc = "match" /\ n.at = now
    BY <1>1 DEF Event, Time
  <2> HIDE DEF n
  <2>3. QED
    BY <1>1, <2>1, <2>2, EventMoves
<1>3. CASE PruneCount(f)
  <2>1. firing[f].pc = "count"
    BY <1>3 DEF PruneCount
  <2> DEFINE n == [firing[f] EXCEPT !.pc = "find", !.total = Cardinality(DOMAIN table)]
  <2>2. firing' = [firing EXCEPT ![f] = NoFiring] \/ firing' = [firing EXCEPT ![f] = n]
    BY <1>3 DEF PruneCount, Ends
  <2>3. n \in Event /\ n.pc = "find" /\ n.at = firing[f].at
    BY <1>1, TableFinite DEF Event
  <2> HIDE DEF n
  <2>4. QED
    BY <1>1, <2>1, <2>2, <2>3, AlertBlanks, EventMoves
<1>4. CASE PruneFind(f)
  <2> DEFINE p == IF Stale(f) = {} THEN "idle" ELSE "delete"
             n == [firing[f] EXCEPT !.stale = Stale(f), !.pc = p]
  <2>1. firing[f].pc = "find" /\ firing' = [firing EXCEPT ![f] = n]
    BY <1>4 DEF PruneFind
  <2>2. Stale(f) \subseteq Nat
    BY DEF Stale, Oldest, AlertInv, AlertShape
  <2>3. p \in {"idle", "delete"}
    OBVIOUS
  <2> HIDE DEF p
  <2>4. n \in Event /\ n.pc = p /\ n.at = firing[f].at
    BY <1>1, <2>2, <2>3 DEF Event
  <2> HIDE DEF n
  <2>5. QED
    BY <1>1, <2>1, <2>3, <2>4, EventMoves
<1>5. QED
  BY <1>2, <1>3, <1>4

\* A handler takes up those rules that no alert of lag in the last window names, and notes it.
LEMMA Matches ==
  ASSUME AlertInv, NEW f \in Firings, NEW matching \in SUBSET Watches, MatchRules(f, matching)
  PROVE  AlertInv'
<1> DEFINE at == firing[f].at
           due == {w \in matching : ~firing[f].lag \/ at >= lastLag[w] + Window \/ lastLag[w] = 0}
           n == [firing[f] EXCEPT !.pc = "create", !.to = due]
<1>1. /\ firing[f] \in Event /\ firing[f].pc = "match" /\ at \in Time /\ Window \in Nat \ {0}
      /\ UNCHANGED <<now, table, serial, reader, since>>
  BY AlertsAssumption DEF AlertInv, AlertShape, MatchRules
<1>2. firing' = [firing EXCEPT ![f] = IF due = {} THEN NoFiring ELSE n]
  BY DEF MatchRules, Due
<1>3. lastLag' = IF firing[f].lag THEN [w \in Watches |-> IF w \in due THEN at ELSE lastLag[w]]
                 ELSE lastLag
  BY DEF MatchRules, Due
<1>4. CASE ~firing[f].lag
  <2>1. n \in Event /\ n.lag = firing[f].lag /\ n.at = at
    BY <1>1 DEF Event
  <2>2. PICK k \in Event : /\ firing' = [firing EXCEPT ![f] = k]
                           /\ k.pc # "idle" => k.at \in Time
                           /\ k.pc # "create" \/ ~k.lag
    BY <1>1, <1>2, <1>4, <2>1, AlertBlanks
  <2>3. QED
    BY <1>1, <1>3, <1>4, <2>2, EventMoves
<1>5. CASE firing[f].lag
  <2>1. due \subseteq Watches /\ \A w \in due : lastLag[w] \in Nat /\ (at >= lastLag[w] + Window \/ lastLag[w] = 0)
    BY <1>5 DEF AlertInv, AlertShape
  <2>2. n \in Event /\ n.pc = "create" /\ n.lag = firing[f].lag /\ n.at = at /\ n.to = due
    BY <1>1, <2>1 DEF Event
  <2> DEFINE k == IF due = {} THEN NoFiring ELSE n
  <2>3. /\ firing' \in [Firings -> Event] /\ firing'[f] = k
        /\ \A g \in Firings \ {f} : firing'[g] = firing[g]
    BY <1>2, <2>2, AlertBlanks DEF AlertInv, AlertShape
  <2>4. lastLag' = [w \in Watches |-> IF w \in due THEN at ELSE lastLag[w]]
    BY <1>3, <1>5
  <2> HIDE DEF n, at, due
  <2>5. /\ lastLag' \in [Watches -> Nat]
        /\ \A w \in Watches : lastLag'[w] >= lastLag[w] /\ (w \in due => lastLag'[w] = at)
    BY <1>1, <2>1, <2>4 DEF AlertInv, AlertShape, Time
  <2>6. /\ \A w : LagPending(f, w)' => w \in due /\ w \in Watches /\ firing'[f].at = at
        /\ \A g \in Firings \ {f} : \A w : LagPending(g, w)' <=> LagPending(g, w)
        /\ (\A i : Told(i)' <=> Told(i)) /\ (\A r : InHand(r)' <=> InHand(r))
    BY <1>1, <2>1, <2>2, <2>3, AlertBlanks DEF LagPending, Told, InHand
  <2>7. AlertShape'
    BY <1>1, <2>2, <2>3, <2>5, AlertBlanks DEF AlertInv, AlertShape, at
  <2>8. Noted'
    <3>1. \A i \in DOMAIN table : Told(i) => table[i].at <= lastLag'[table[i].watch]
      BY <2>5 DEF AlertInv, Noted, AlertShape, AlertRow, Time
    <3>2. \A g \in Firings, w \in Watches : LagPending(g, w)' => firing'[g].at <= lastLag'[w]
      BY <1>1, <2>3, <2>5, <2>6 DEF AlertInv, Noted, AlertShape, Event, Time
    <3>3. \A r \in AlertRow : InHand(r) => r.at <= lastLag'[r.watch]
      BY <2>5 DEF AlertInv, Noted, AlertShape, AlertRow, Time
    <3>4. QED
      BY <1>1, <2>6, <3>1, <3>2, <3>3 DEF Noted
  \* What lastLagAlertAt is later than is a window before.
  <2>9. ASSUME NEW a \in Time, NEW w \in due, a <= lastLag[w] PROVE Apart(at, a) /\ Apart(a, at)
    BY <1>1, <2>1, <2>9 DEF Apart, Time
  <2>10. LagApart'
    <3>1. \A i \in DOMAIN table : \A w :
            Told(i) /\ w = table[i].watch /\ LagPending(f, w)' => Apart(at, table[i].at)
      BY <2>6, <2>9 DEF AlertInv, Noted, AlertShape, AlertRow
    <3>2. \A g \in Firings \ {f}, w \in Watches :
            LagPending(f, w)' /\ LagPending(g, w) => Apart(at, firing[g].at) /\ Apart(firing[g].at, at)
      BY <2>6, <2>9 DEF AlertInv, Noted, AlertShape, LagPending
    <3>3. \A r \in AlertRow : InHand(r) /\ LagPending(f, r.watch)' => Apart(r.at, at)
      BY <2>6, <2>9 DEF AlertInv, Noted, AlertRow
    <3> HIDE DEF Apart
    <3>4. /\ \A i, j \in DOMAIN table :
               Told(i) /\ Told(j) /\ i # j /\ table[i].watch = table[j].watch => Apart(table[i].at, table[j].at)
          /\ \A r \in AlertRow, i \in DOMAIN table :
               InHand(r) /\ Told(i) /\ i # reader.id /\ table[i].watch = r.watch => Apart(r.at, table[i].at)
      BY DEF AlertInv, LagApart
    <3>5. /\ \A g \in Firings \ {f}, i \in DOMAIN table :
               Told(i) /\ LagPending(g, table[i].watch) => Apart(firing[g].at, table[i].at)
          /\ \A g, h \in Firings \ {f}, w \in Watches :
               LagPending(g, w) /\ LagPending(h, w) /\ g # h => Apart(firing[g].at, firing[h].at)
          /\ \A r \in AlertRow, g \in Firings \ {f} : InHand(r) /\ LagPending(g, r.watch) => Apart(r.at, firing[g].at)
      BY DEF AlertInv, LagApart
    <3>6. \A a, b : Apart(a, b)' <=> Apart(a, b)
      BY DEF Apart
    <3>7. QED
      BY <1>1, <2>3, <2>6, <3>1, <3>2, <3>3, <3>4, <3>5, <3>6 DEF LagApart
  <2>11. QED
    BY <2>7, <2>8, <2>10 DEF AlertInv
<1>6. QED
  BY <1>4, <1>5 DEF AlertInv, AlertShape, Event
\* The record of an alert takes its place among those in the table.
LEMMA Creates ==
  ASSUME AlertInv, NEW f \in Firings, NEW w \in Watches, CreateRecord(f, w)
  PROVE  AlertInv'
<1>s. PICK s : s = serial + 1
  OBVIOUS
<1>new. PICK new : new = [watch |-> w, lag |-> firing[f].lag, at |-> firing[f].at, read |-> FALSE]
  OBVIOUS
<1> DEFINE pc == IF firing[f].to = {w} THEN "count" ELSE "create"
           n == [firing[f] EXCEPT !.to = firing[f].to \ {w}, !.pc = pc]
<1>1. /\ firing[f].pc = "create" /\ w \in firing[f].to /\ serial' = s
      /\ table' = [i \in DOMAIN table \cup {s} |-> IF i = s THEN new ELSE table[i]]
      /\ firing' = [firing EXCEPT ![f] = n]
      /\ UNCHANGED <<now, lastLag, reader, since>>
  BY <1>s, <1>new DEF CreateRecord
<1>2. /\ firing[f] \in Event /\ firing[f].at \in Time /\ serial \in Nat
      /\ DOMAIN table \subseteq 1 .. serial /\ reader.id <= serial /\ reader.id \in Nat
  BY <1>1 DEF AlertInv, AlertShape
<1>3. new \in AlertRow /\ new.watch = w /\ new.lag = firing[f].lag /\ new.at = firing[f].at
  BY <1>2, <1>new DEF AlertRow, Event
<1>4. /\ n \in Event /\ n.to = firing[f].to \ {w} /\ n.at = firing[f].at /\ n.lag = firing[f].lag
  BY <1>2 DEF Event
<1>5. s \notin DOMAIN table /\ s # reader.id /\ s \in Nat
  BY <1>2, <1>s
<1> HIDE DEF n
<1>6. /\ firing' \in [Firings -> Event] /\ firing'[f] = n
      /\ \A g \in Firings \ {f} : firing'[g] = firing[g]
  BY <1>1, <1>4 DEF AlertInv, AlertShape
<1>7. /\ DOMAIN table' = DOMAIN table \cup {s} /\ table'[s] = new
      /\ \A i \in DOMAIN table : table'[i] = table[i]
  BY <1>1, <1>5
<1>8. AlertShape'
  BY <1>s, <1>1, <1>2, <1>3, <1>4, <1>6, <1>7 DEF AlertInv, AlertShape
<1>9. /\ \A g \in Firings : \A v : LagPending(g, v)' => LagPending(g, v) /\ firing'[g].at = firing[g].at
      /\ \A v : LagPending(f, v)' => v # w
      /\ \A i \in DOMAIN table : Told(i)' <=> Told(i)
      /\ Told(s)' => LagPending(f, w) /\ new.at = firing[f].at
      /\ \A r : InHand(r)' <=> InHand(r)
  BY <1>1, <1>3, <1>4, <1>6, <1>7 DEF LagPending, Told, InHand
<1>10. Noted'
  BY <1>1, <1>3, <1>7, <1>9 DEF AlertInv, Noted
<1>11. LagApart'
  <2>1. \A a, b : (Apart(a, b) <=> Apart(b, a)) /\ (Apart(a, b)' <=> Apart(a, b))
    BY DEF Apart
  <2>2. \A i \in DOMAIN table : Told(i) /\ table[i].watch = w /\ LagPending(f, w) => Apart(new.at, table[i].at)
    BY <1>3 DEF AlertInv, LagApart
  <2>3. \A g \in Firings \ {f} : LagPending(f, w) /\ LagPending(g, w) => Apart(firing[g].at, new.at)
    BY <1>3 DEF AlertInv, LagApart
  <2>4. \A r \in AlertRow : InHand(r) /\ LagPending(f, w) /\ r.watch = w => Apart(r.at, new.at)
    BY <1>3 DEF AlertInv, LagApart
  <2> HIDE DEF Apart
  <2>5. \A i, j \in DOMAIN table' :
          Told(i)' /\ Told(j)' /\ i # j /\ table'[i].watch = table'[j].watch => Apart(table'[i].at, table'[j].at)
    BY <1>3, <1>7, <1>9, <2>1, <2>2 DEF AlertInv, LagApart
  <2>6. \A g \in Firings, i \in DOMAIN table' : \A v :
          Told(i)' /\ v = table'[i].watch /\ LagPending(g, v)' => Apart(firing'[g].at, table'[i].at)
    BY <1>3, <1>7, <1>9, <2>1, <2>3 DEF AlertInv, LagApart
  <2>7. \A g, h \in Firings, v \in Watches :
          LagPending(g, v)' /\ LagPending(h, v)' /\ g # h => Apart(firing'[g].at, firing'[h].at)
    BY <1>9 DEF AlertInv, LagApart
  <2>8. \A r \in AlertRow, i \in DOMAIN table' :
          InHand(r)' /\ Told(i)' /\ i # reader.id /\ table'[i].watch = r.watch => Apart(r.at, table'[i].at)
    BY <1>3, <1>5, <1>7, <1>9, <2>4 DEF AlertInv, LagApart
  <2>9. \A r \in AlertRow, g \in Firings : InHand(r)' /\ LagPending(g, r.watch)' => Apart(r.at, firing'[g].at)
    BY <1>9 DEF AlertInv, LagApart
  <2>10. QED
    BY <1>1, <2>1, <2>5, <2>6, <2>7, <2>8, <2>9 DEF LagApart
<1>12. QED
  BY <1>8, <1>10, <1>11 DEF AlertInv

\* Rows go, handlers end.
LEMMA Deletes ==
  ASSUME AlertInv, NEW f \in Firings, NEW i \in 1 .. MaxSerial, PruneDelete(f, i)
  PROVE  AlertInv'
<1>1. /\ firing[f].pc = "delete" /\ table' = [j \in DOMAIN table \ {i} |-> table[j]]
      /\ UNCHANGED <<now, lastLag, serial, reader, since>>
  BY DEF PruneDelete
<1>2. firing[f] \in Event /\ firing[f].at \in Time
  BY <1>1 DEF AlertInv, AlertShape
<1> DEFINE n == [firing[f] EXCEPT !.stale = firing[f].stale \ {i}]
<1>3. firing' = [firing EXCEPT ![f] = NoFiring] \/ firing' = [firing EXCEPT ![f] = n]
  BY DEF PruneDelete, Ends
<1>4. n \in Event /\ n.pc = "delete" /\ n.at = firing[f].at
  BY <1>1, <1>2 DEF Event
<1> HIDE DEF n
<1>5. /\ firing' \in [Firings -> Event] /\ firing'[f].pc # "create"
      /\ firing'[f].pc # "idle" => firing'[f].at \in Time
      /\ \A g \in Firings \ {f} : firing'[g] = firing[g]
  BY <1>2, <1>3, <1>4, AlertBlanks DEF AlertInv, AlertShape
<1>6. DOMAIN table' \subseteq DOMAIN table /\ \A j \in DOMAIN table' : table'[j] = table[j]
  BY <1>1
<1>7. AlertShape'
  BY <1>1, <1>5, <1>6 DEF AlertInv, AlertShape
<1>8. /\ \A g \in Firings : \A w : LagPending(g, w)' => LagPending(g, w) /\ firing'[g] = firing[g]
      /\ (\A j : Told(j)' => Told(j)) /\ (\A r : InHand(r)' <=> InHand(r))
  BY <1>1, <1>5, <1>6 DEF LagPending, Told, InHand
<1>9. Noted'
  BY <1>1, <1>6, <1>8 DEF AlertInv, Noted
<1>10. LagApart'
  BY <1>1, <1>6, <1>8 DEF AlertInv, LagApart, Apart
<1>11. QED
  BY <1>7, <1>9, <1>10 DEF AlertInv

\* The reader takes a row, and later puts it into its place again.
LEMMA MarkLoads == ASSUME AlertInv, NEW i \in 1 .. MaxSerial, MarkLoad(i) PROVE AlertInv'
<1>1. /\ i \in DOMAIN table /\ reader' = [id |-> i, row |-> {table[i]}]
      /\ UNCHANGED <<now, lastLag, table, serial, firing, since>>
  BY DEF MarkLoad
<1>2. /\ table[i] \in AlertRow /\ i \in Nat /\ i <= serial /\ reader'.id = i /\ reader'.row = {table[i]}
  BY <1>1 DEF AlertInv, AlertShape
<1>3. AlertShape'
  BY <1>1, <1>2 DEF AlertInv, AlertShape
<1>4. /\ (\A g, w : LagPending(g, w)' <=> LagPending(g, w)) /\ (\A j : Told(j)' <=> Told(j))
      /\ \A r : InHand(r)' => r = table[i] /\ Told(i)
  BY <1>1, <1>2 DEF LagPending, Told, InHand
<1>5. Noted'
  BY <1>1, <1>4 DEF AlertInv, Noted
<1>6. \A a, b : (Apart(a, b) <=> Apart(b, a)) /\ (Apart(a, b)' <=> Apart(a, b))
  BY DEF Apart
<1>7. LagApart'
  BY <1>1, <1>2, <1>4, <1>6 DEF AlertInv, LagApart
<1>8. QED
  BY <1>3, <1>5, <1>7 DEF AlertInv

LEMMA MarkSaves == ASSUME AlertInv, MarkSave PROVE AlertInv'
<1>s. PICK s : s = reader.id
  OBVIOUS
<1>1. PICK r \in reader.row :
        /\ table' = [i \in DOMAIN table \cup {s} |-> IF i = s THEN [r EXCEPT !.read = TRUE] ELSE table[i]]
        /\ reader' = NoReader /\ UNCHANGED <<now, lastLag, serial, firing, since>>
  BY <1>s DEF MarkSave
<1>new. PICK new : new = [r EXCEPT !.read = TRUE]
  OBVIOUS
<1>2. r \in AlertRow /\ s \in Nat /\ s <= serial /\ serial \in Nat
  BY <1>s DEF AlertInv, AlertShape
<1>3. new \in AlertRow /\ new.watch = r.watch /\ new.lag = r.lag /\ new.at = r.at
  BY <1>2, <1>new DEF AlertRow
<1>4. s # 0 /\ s \in 1 .. serial
  BY <1>s, <1>2 DEF AlertInv, AlertShape
<1>5. /\ DOMAIN table' = DOMAIN table \cup {s} /\ table'[s] = new
      /\ \A i \in DOMAIN table \ {s} : table'[i] = table[i]
  BY <1>1, <1>new
<1>6. AlertShape'
  <2>1. DOMAIN table' \subseteq 1 .. serial /\ \A i \in DOMAIN table' : table'[i] \in AlertRow
    BY <1>3, <1>4, <1>5 DEF AlertInv, AlertShape
  <2>2. /\ reader' \in [id : Nat, row : SUBSET AlertRow] /\ reader'.id <= serial
        /\ reader'.row # {} => reader'.id # 0
    BY <1>1, <1>2, AlertBlanks
  <2>3. QED
    BY <1>1, <2>1, <2>2 DEF AlertInv, AlertShape
<1>7. /\ \A g, w : LagPending(g, w)' <=> LagPending(g, w)
      /\ \A i \in DOMAIN table \ {s} : Told(i)' <=> Told(i)
      /\ Told(s)' => InHand(r)
      /\ \A q : ~InHand(q)'
  BY <1>s, <1>1, <1>3, <1>5, AlertBlanks DEF LagPending, Told, InHand
<1>8. Noted'
  BY <1>1, <1>2, <1>3, <1>5, <1>7 DEF AlertInv, Noted
<1>9. LagApart'
  <2>1. \A a, b : (Apart(a, b) <=> Apart(b, a)) /\ (Apart(a, b)' <=> Apart(a, b))
    BY DEF Apart
  <2>2. /\ \A i \in DOMAIN table \ {s} : InHand(r) /\ Told(i) /\ table[i].watch = new.watch => Apart(new.at, table[i].at)
        /\ \A g \in Firings : InHand(r) /\ LagPending(g, new.watch) => Apart(new.at, firing[g].at)
    BY <1>s, <1>2, <1>3 DEF AlertInv, LagApart
  <2> HIDE DEF Apart
  <2>3. \A i, j \in DOMAIN table' :
          Told(i)' /\ Told(j)' /\ i # j /\ table'[i].watch = table'[j].watch => Apart(table'[i].at, table'[j].at)
    BY <1>5, <1>7, <2>1, <2>2 DEF AlertInv, LagApart
  <2>4. \A g \in Firings, i \in DOMAIN table' : \A w :
          Told(i)' /\ w = table'[i].watch /\ LagPending(g, w) => Apart(firing[g].at, table'[i].at)
    BY <1>5, <1>7, <2>1, <2>2 DEF AlertInv, LagApart
  <2>5. \A g, h \in Firings, w \in Watches :
          LagPending(g, w) /\ LagPending(h, w) /\ g # h => Apart(firing[g].at, firing[h].at)
    BY DEF AlertInv, LagApart
  <2>6. QED
    BY <1>1, <1>7, <2>1, <2>3, <2>4, <2>5 DEF LagApart
<1>10. QED
  BY <1>6, <1>8, <1>9 DEF AlertInv

\* A restart forgets when a rule fired last, and with it what was told so far.
LEMMA AlertRestarts == ASSUME AlertInv, AlertRestart PROVE AlertInv'
<1>1. /\ lastLag' = [w \in Watches |-> 0] /\ since' = serial + 1
      /\ firing' = [f \in Firings |-> NoFiring] /\ reader' = NoReader
      /\ UNCHANGED <<now, table, serial>>
  BY DEF AlertRestart
<1>2. AlertShape'
  BY <1>1, AlertBlanks DEF AlertInv, AlertShape
<1>3. /\ \A i : ~Told(i)'
      /\ \A f \in Firings : \A w : ~LagPending(f, w)'
      /\ \A r : ~InHand(r)'
  BY <1>1, AlertBlanks DEF AlertInv, AlertShape, Told, LagPending, InHand
<1>4. QED
  BY <1>2, <1>3 DEF AlertInv, Noted, LagApart

LEMMA AlertClocks == ASSUME AlertInv, AlertClock \/ UNCHANGED <<driver, alertVars>> PROVE AlertInv'
<1>1. now' \in Time /\ UNCHANGED <<lastLag, table, serial, firing, reader, since>>
  BY DEF AlertClock, alertVars, AlertInv, AlertShape, Time
<1>2. AlertShape'
  BY <1>1 DEF AlertInv, AlertShape
<1>3. /\ (\A g, w : LagPending(g, w)' <=> LagPending(g, w)) /\ (\A i : Told(i)' <=> Told(i))
      /\ (\A r : InHand(r)' <=> InHand(r))
  BY <1>1 DEF LagPending, Told, InHand
<1>4. Noted' /\ LagApart'
  BY <1>1, <1>3 DEF AlertInv, Noted, LagApart, Apart
<1>5. QED
  BY <1>2, <1>4 DEF AlertInv

LEMMA AlertGoes == AlertInv /\ [AlertsNext /\ UNCHANGED driver]_<<driver, alertVars>> => AlertInv'
<1> SUFFICES ASSUME AlertInv, [AlertsNext /\ UNCHANGED driver]_<<driver, alertVars>> PROVE AlertInv'
  OBVIOUS
<1>1. ASSUME NEW f \in Firings,
             (\E lag \in BOOLEAN : FireEvent(f, lag)) \/ PruneCount(f) \/ PruneFind(f)
      PROVE  AlertInv'
  BY <1>1, EventSteps
<1>2. ASSUME NEW f \in Firings, NEW matching \in SUBSET Watches, MatchRules(f, matching) PROVE AlertInv'
  BY <1>2, Matches
<1>3. ASSUME NEW f \in Firings, NEW w \in Watches, CreateRecord(f, w) PROVE AlertInv'
  BY <1>3, Creates
<1>4. ASSUME NEW f \in Firings, NEW i \in 1 .. MaxSerial, PruneDelete(f, i) PROVE AlertInv'
  BY <1>4, Deletes
<1>5. ASSUME NEW i \in 1 .. MaxSerial, MarkLoad(i) PROVE AlertInv'
  BY <1>5, MarkLoads
<1>6. CASE MarkSave
  BY <1>6, MarkSaves
<1>7. CASE AlertRestart
  BY <1>7, AlertRestarts
<1>8. CASE AlertClock \/ UNCHANGED <<driver, alertVars>>
  BY <1>8, AlertClocks
<1>9. QED
  BY <1>1, <1>2, <1>3, <1>4, <1>5, <1>6, <1>7, <1>8 DEF AlertsNext

\* LagSpaced (alert.service.js lagDuplicated): since the last restart, no two alerts of one
\* rule about the lag of one pipeline are less than a window apart, in whatever order the
\* reports are handled and whichever rows are pruned, marked and written again.
THEOREM LagSpacedHolds == AlertsSpec => []LagSpaced
<1>1. AlertInv => LagSpaced
  BY DEF AlertInv, LagApart, Told, LagSpaced, Apart
<1>2. QED
  BY AlertBegins, AlertGoes, <1>1, PTL DEF AlertsSpec

-----------------------------------------------------------------------------
(* Alerts: prunes that overlap take away enough and not too much.          *)

Rows == DOMAIN table

\* A handler that will prune, or whose prune leaves no more than the bound.
Leaves(f) ==
  \/ firing[f].pc \in {"create", "count"}
  \/ firing[f].pc = "find" /\ Cardinality(Rows) <= firing[f].total
  \/ firing[f].pc = "delete" /\ Cardinality(Rows \ firing[f].stale) <= MaxRecords

PruneEnough == ~loose => Cardinality(Rows) <= MaxRecords \/ \E f \in Firings : Leaves(f)

\* With the memory driver nobody is at work beside a prune, and it keeps what is newest.
PruneAlone ==
  driver = "memory" =>
    /\ \A f, g \in Busy : f = g
    /\ reader # NoReader => Busy = {}
    /\ \A f \in Firings : firing[f].pc = "find" => firing[f].total = Cardinality(Rows)
    /\ \A f \in Firings : firing[f].pc = "delete" =>
         /\ Cardinality(Rows \ firing[f].stale) >= MaxRecords
         /\ \A i \in Rows \cap firing[f].stale, j \in Rows \ firing[f].stale : Older(i, j)

PruneInv ==
  /\ AlertInv /\ loose \in BOOLEAN
  /\ \A f \in Firings : firing[f].pc = "find" => firing[f].total > MaxRecords
  /\ PruneEnough /\ PruneAlone

LEMMA RowsFinite ==
  ASSUME AlertInv, NEW S \in SUBSET Rows
  PROVE  IsFiniteSet(Rows) /\ IsFiniteSet(S) /\ Cardinality(S) \in Nat /\ Cardinality(S) <= Cardinality(Rows)
<1>1. IsFiniteSet(1 .. serial)
  BY FS_Interval DEF AlertInv, AlertShape
<1>2. IsFiniteSet(Rows)
  BY <1>1, FS_Subset DEF Rows, AlertInv, AlertShape
<1>3. QED
  BY <1>2, FS_Subset, FS_CardinalityType

LEMMA RowsOrdered ==
  ASSUME AlertInv
  PROVE  \E below : /\ Orders(below, Rows)
                    /\ \A i \in Rows : Cardinality(below[i]) = Rank(i)
                    /\ \A i, j \in Rows : j \in below[i] <=> Older(j, i)
<1>1. \A i \in Rows : i \in Nat /\ table[i].at \in Nat
  BY DEF AlertInv, AlertShape, AlertRow, Time, Rows
<1>2. PICK below : below = [i \in Rows |-> {j \in Rows : Older(j, i)}]
  OBVIOUS
<1>3. below \in [Rows -> SUBSET Rows] /\ \A i, j \in Rows : j \in below[i] <=> Older(j, i)
  BY <1>2
<1>4. \A i \in Rows : ~Older(i, i)
  BY <1>1 DEF Older
<1>5. \A i, j \in Rows : i = j \/ Older(i, j) \/ Older(j, i)
  BY <1>1 DEF Older
<1>6. \A i, j, k \in Rows : Older(i, j) /\ Older(j, k) => Older(i, k)
  BY <1>1 DEF Older
<1>7. \A j, k \in Rows : j \in below[k] => below[j] \subseteq below[k]
  BY <1>3, <1>6
<1>8. Orders(below, Rows)
  BY <1>3, <1>4, <1>5, <1>7 DEF Orders
<1>9. \A i \in Rows : Cardinality(below[i]) = Rank(i)
  BY <1>2 DEF Rank, Rows
<1>10. QED
  BY <1>3, <1>8, <1>9

\* The oldest n rows are n, if there are as many, and older than the others.
LEMMA OldestRows ==
  ASSUME AlertInv, NEW n \in Nat
  PROVE  /\ Oldest(n) \subseteq Rows
         /\ n <= Cardinality(Rows) => Cardinality(Rows \ Oldest(n)) = Cardinality(Rows) - n
         /\ ~(n <= Cardinality(Rows)) => Rows \ Oldest(n) = {}
         /\ \A i \in Oldest(n), j \in Rows \ Oldest(n) : Older(i, j)
<1>1. PICK below : /\ Orders(below, Rows)
                   /\ \A i \in Rows : Cardinality(below[i]) = Rank(i)
                   /\ \A i, j \in Rows : j \in below[i] <=> Older(j, i)
  BY RowsOrdered
<1>2. IsFiniteSet(Rows) /\ Cardinality(Rows) \in Nat
  BY RowsFinite
<1>3. /\ \A i \in Rows : Rank(i) \in 0 .. Cardinality(Rows) - 1
      /\ \A i, j \in Rows : Older(j, i) <=> Rank(j) < Rank(i)
  BY <1>1, <1>2, RanksOrdered
<1>4. Oldest(n) = {i \in Rows : Rank(i) < n}
  BY DEF Oldest, Rows
<1>5. ASSUME n <= Cardinality(Rows) PROVE Cardinality(Rows \ Oldest(n)) = Cardinality(Rows) - n
  <2>1. Cardinality({i \in Rows : Cardinality(below[i]) \in 0 .. n - 1}) = n - 0
    BY <1>1, <1>2, <1>5, RanksCounted
  <2>2. Oldest(n) = {i \in Rows : Cardinality(below[i]) \in 0 .. n - 1}
    BY <1>1, <1>2, <1>3, <1>4
  <2>3. Rows \cap Oldest(n) = Oldest(n)
    BY <1>4
  <2>4. Cardinality(Rows \ Oldest(n)) = Cardinality(Rows) - Cardinality(Rows \cap Oldest(n))
    BY <1>2, FS_Difference
  <2>5. Cardinality(Oldest(n)) = n
    BY <2>1, <2>2
  <2>6. QED
    BY <2>3, <2>4, <2>5
<1>6. ~(n <= Cardinality(Rows)) => Rows \ Oldest(n) = {}
  BY <1>2, <1>3, <1>4
<1>7. \A i \in Oldest(n), j \in Rows \ Oldest(n) : Older(i, j)
  BY <1>2, <1>3, <1>4
<1>8. QED
  BY <1>4, <1>5, <1>6, <1>7

\* With the memory driver, a handler that takes its turn is the only one.
LEMMA InTurn ==
  ASSUME PruneInv, NEW f \in Firings, AlertTurn(f), driver = "memory"
  PROVE  reader = NoReader /\ Busy \subseteq {f}
  BY FiringsAssumption DEF AlertTurn, TurnOf

LEMMA PruneBegins == AlertsInit => PruneInv
<1> SUFFICES ASSUME AlertsInit PROVE PruneInv
  OBVIOUS
<1>1. AlertInv
  BY AlertBegins
<1>2. (\A f \in Firings : firing[f].pc = "idle") /\ Busy = {} /\ reader = NoReader /\ loose = FALSE
  BY AlertBlanks DEF AlertsInit, Busy
<1>3. Rows = {} /\ Cardinality(Rows) = 0 /\ MaxRecords \in Nat
  BY FS_EmptySet, AlertsAssumption DEF AlertsInit, Rows
<1>4. PruneEnough
  BY <1>3 DEF PruneEnough
<1>5. PruneAlone
  BY <1>2 DEF PruneAlone
<1>6. QED
  BY <1>1, <1>2, <1>4, <1>5 DEF PruneInv

\* A handler goes on while the rows stay as they are.
LEMMA PruneSteps ==
  ASSUME PruneInv, AlertInv', NEW f \in Firings, AlertTurn(f), UNCHANGED <<driver, table, reader>>,
         NEW q, firing' = [firing EXCEPT ![f] = q],
         loose' = loose \/ loose' = FALSE,
         q.pc = "find" => q.total > MaxRecords,
         driver = "memory" =>
           /\ q.pc = "find" => q.total = Cardinality(Rows)
           /\ q.pc = "delete" =>
                /\ Cardinality(Rows \ q.stale) >= MaxRecords
                /\ \A i \in Rows \cap q.stale, j \in Rows \ q.stale : Older(i, j),
         ~loose' => \/ Cardinality(Rows) <= MaxRecords
                    \/ Leaves(f)'
                    \/ ~loose /\ ~Leaves(f)
  PROVE  PruneInv'
<1>1. firing'[f] = q /\ (\A g \in Firings \ {f} : firing'[g] = firing[g]) /\ Rows' = Rows
  BY DEF PruneInv, AlertInv, AlertShape, Rows
<1>2. loose' \in BOOLEAN
  BY DEF PruneInv
<1>3. \A g \in Firings : firing'[g].pc = "find" => firing'[g].total > MaxRecords
  BY <1>1 DEF PruneInv
<1>4. PruneEnough'
  <2> SUFFICES ASSUME ~loose', ~(Cardinality(Rows) <= MaxRecords), ~Leaves(f)'
               PROVE  \E g \in Firings : Leaves(g)'
    BY <1>1 DEF PruneEnough
  <2>1. ~loose /\ ~Leaves(f)
    OBVIOUS
  <2>2. PICK g \in Firings : Leaves(g)
    BY <2>1 DEF PruneInv, PruneEnough
  <2>3. g # f
    BY <2>1, <2>2
  <2>4. Leaves(g)'
    BY <1>1, <2>2, <2>3 DEF Leaves
  <2>5. QED
    BY <2>4
<1>5. PruneAlone'
  <2> SUFFICES ASSUME driver = "memory" PROVE PruneAlone'
    BY DEF PruneAlone
  <2>1. reader = NoReader /\ Busy \subseteq {f}
    BY InTurn
  <2>2. \A g \in Firings \ {f} : firing'[g].pc = "idle"
    BY <1>1, <2>1 DEF Busy
  <2>3. \A g, h \in Busy' : g = h
    BY <2>2 DEF Busy
  <2>4. \A i, j : Older(i, j)' <=> Older(i, j)
    BY DEF Older
  <2>5. QED
    BY <1>1, <2>1, <2>2, <2>3, <2>4 DEF PruneAlone
<1>6. QED
  BY <1>2, <1>3, <1>4, <1>5 DEF PruneInv

LEMMA PruneEvents ==
  ASSUME PruneInv, AlertInv', UNCHANGED driver, NEW f \in Firings,
         (\E lag \in BOOLEAN : FireEvent(f, lag)) \/ (\E matching \in SUBSET Watches : MatchRules(f, matching))
  PROVE  PruneInv'
<1>0. firing[f] \in Event
  BY DEF PruneInv, AlertInv, AlertShape
<1>1. /\ AlertTurn(f) /\ UNCHANGED <<table, reader, loose>> /\ firing[f].pc \in {"idle", "match"}
      /\ ~Leaves(f)
  BY DEF FireEvent, MatchRules, Leaves
<1>2. PICK q : /\ firing' = [firing EXCEPT ![f] = q]
               /\ q.pc \in {"idle", "match", "create"}
  <2>1. ASSUME NEW lag \in BOOLEAN, FireEvent(f, lag)
        PROVE  \E q : firing' = [firing EXCEPT ![f] = q] /\ q.pc \in {"idle", "match", "create"}
    <3>1. firing' = [firing EXCEPT ![f] = [firing[f] EXCEPT !.pc = "match", !.lag = lag, !.at = now]]
      BY <2>1 DEF FireEvent
    <3>2. [firing[f] EXCEPT !.pc = "match", !.lag = lag, !.at = now].pc = "match"
      BY <1>0 DEF Event
    <3>3. QED
      BY <3>1, <3>2
  <2>2. ASSUME NEW matching \in SUBSET Watches, MatchRules(f, matching)
        PROVE  \E q : firing' = [firing EXCEPT ![f] = q] /\ q.pc \in {"idle", "match", "create"}
    <3>1. PICK due : firing' = [firing EXCEPT ![f] = IF due = {} THEN NoFiring
                                                     ELSE [firing[f] EXCEPT !.pc = "create", !.to = due]]
      BY <2>2 DEF MatchRules, Due
    <3>2. [firing[f] EXCEPT !.pc = "create", !.to = due].pc = "create"
      BY <1>0 DEF Event
    <3>3. QED
      BY <3>1, <3>2, AlertBlanks
  <2>3. QED
    BY <2>1, <2>2
<1>3. QED
  BY <1>1, <1>2, PruneSteps

LEMMA PruneCounts ==
  ASSUME PruneInv, AlertInv', UNCHANGED driver, NEW f \in Firings, PruneCount(f)
  PROVE  PruneInv'
<1>0. firing[f] \in Event /\ Cardinality(Rows) \in Nat /\ MaxRecords \in Nat
  BY RowsFinite, AlertsAssumption DEF PruneInv, AlertInv, AlertShape
<1>1. AlertTurn(f) /\ UNCHANGED <<table, reader>> /\ loose' = FALSE
  BY DEF PruneCount
<1>2. CASE Cardinality(Rows) <= MaxRecords
  <2>1. firing' = [firing EXCEPT ![f] = NoFiring]
    BY <1>2 DEF PruneCount, Ends, Rows
  <2>2. QED
    BY <1>1, <1>2, <2>1, AlertBlanks, PruneSteps
<1>3. CASE ~(Cardinality(Rows) <= MaxRecords)
  <2>1. PICK q : q = [firing[f] EXCEPT !.pc = "find", !.total = Cardinality(Rows)]
    OBVIOUS
  <2>2. q.pc = "find" /\ q.total = Cardinality(Rows) /\ q.total > MaxRecords
    BY <1>0, <1>3, <2>1 DEF Event
  <2>3. firing' = [firing EXCEPT ![f] = q]
    BY <1>3, <2>1 DEF PruneCount, Rows
  <2>4. Leaves(f)'
    <3>1. firing'[f] = q /\ Rows' = Rows
      BY <1>1, <2>3 DEF PruneInv, AlertInv, AlertShape, Rows
    <3>2. QED
      BY <1>0, <2>2, <3>1 DEF Leaves
  <2>5. QED
    BY <1>1, <2>2, <2>3, <2>4, PruneSteps
<1>4. QED
  BY <1>2, <1>3

LEMMA PruneFinds ==
  ASSUME PruneInv, AlertInv', UNCHANGED driver, NEW f \in Firings, PruneFind(f)
  PROVE  PruneInv'
<1>0. firing[f] \in Event /\ Cardinality(Rows) \in Nat /\ MaxRecords \in Nat /\ AlertInv
  BY RowsFinite, AlertsAssumption DEF PruneInv, AlertInv, AlertShape
<1>1. AlertTurn(f) /\ UNCHANGED <<table, reader, loose>> /\ firing[f].pc = "find"
  BY DEF PruneFind
<1>2. PICK n \in Nat : n = firing[f].total - MaxRecords /\ n # 0
  BY <1>0, <1>1 DEF PruneInv, Event
<1>3. PICK stale \in SUBSET Rows : stale = Oldest(n)
  BY <1>0, OldestRows
<1>4. /\ n <= Cardinality(Rows) => Cardinality(Rows \ stale) = Cardinality(Rows) - n
      /\ ~(n <= Cardinality(Rows)) => Rows \ stale = {}
      /\ \A i \in stale, j \in Rows \ stale : Older(i, j)
  BY <1>0, <1>3, OldestRows
<1>5. PICK q : q = [firing[f] EXCEPT !.stale = stale, !.pc = IF stale = {} THEN "idle" ELSE "delete"]
  OBVIOUS
<1>6. q.stale = stale /\ q.pc = IF stale = {} THEN "idle" ELSE "delete"
  BY <1>0, <1>5 DEF Event
<1>7. firing' = [firing EXCEPT ![f] = q]
  BY <1>2, <1>3, <1>5 DEF PruneFind, Stale
<1>8. ASSUME Cardinality(Rows) <= firing[f].total
      PROVE  Cardinality(Rows \ stale) <= MaxRecords
  <2>1. firing[f].total \in Nat /\ Cardinality({}) = 0
    BY <1>0, FS_EmptySet DEF Event
  <2>2. CASE n <= Cardinality(Rows)
    <3>1. Cardinality(Rows \ stale) = Cardinality(Rows) - n
      BY <1>4, <2>2
    <3>2. QED
      BY <1>0, <1>2, <1>8, <2>1, <3>1
  <2>3. CASE ~(n <= Cardinality(Rows))
    <3>1. Cardinality(Rows \ stale) = 0
      BY <1>4, <2>1, <2>3
    <3>2. QED
      BY <1>0, <3>1
  <2>4. QED
    BY <2>2, <2>3
<1>9. ~loose' => Cardinality(Rows) <= MaxRecords \/ Leaves(f)' \/ (~loose /\ ~Leaves(f))
  <2> SUFFICES ASSUME Leaves(f) PROVE Cardinality(Rows) <= MaxRecords \/ Leaves(f)'
    BY <1>1
  <2>1. Cardinality(Rows \ stale) <= MaxRecords
    BY <1>1, <1>8 DEF Leaves
  <2>2. firing'[f] = q /\ Rows' = Rows
    BY <1>1, <1>7 DEF PruneInv, AlertInv, AlertShape, Rows
  <2>3. CASE stale = {}
    <3>1. Rows \ stale = Rows
      BY <2>3
    <3>2. QED
      BY <2>1, <3>1
  <2>4. CASE stale # {}
    BY <1>6, <2>1, <2>2, <2>4 DEF Leaves
  <2>5. QED
    BY <2>3, <2>4
<1>10. driver = "memory" => Cardinality(Rows \ stale) >= MaxRecords
  <2> SUFFICES ASSUME driver = "memory" PROVE Cardinality(Rows \ stale) >= MaxRecords
    OBVIOUS
  <2>1. firing[f].total = Cardinality(Rows)
    BY <1>1 DEF PruneInv, PruneAlone
  <2>2. QED
    BY <1>0, <1>2, <1>4, <2>1
<1>11. q.pc # "find"
  BY <1>6
<1>12. \A i \in Rows \cap q.stale, j \in Rows \ q.stale : Older(i, j)
  BY <1>4, <1>6
<1>13. QED
  BY <1>1, <1>6, <1>7, <1>9, <1>10, <1>11, <1>12, PruneSteps

LEMMA PruneDeletes ==
  ASSUME PruneInv, AlertInv', UNCHANGED driver, NEW f \in Firings, NEW i \in 1 .. MaxSerial, PruneDelete(f, i)
  PROVE  PruneInv'
<1>0. firing[f] \in Event /\ firing \in [Firings -> Event] /\ AlertInv
  BY DEF PruneInv, AlertInv, AlertShape
<1>1. /\ AlertTurn(f) /\ firing[f].pc = "delete" /\ i \in firing[f].stale
      /\ table' = [j \in Rows \ {i} |-> table[j]] /\ UNCHANGED <<reader, loose>>
  BY DEF PruneDelete, Rows
<1>2. PICK q : q = IF firing[f].stale = {i} THEN NoFiring ELSE [firing[f] EXCEPT !.stale = firing[f].stale \ {i}]
  OBVIOUS
<1>3. /\ firing[f].stale = {i} => q.pc = "idle"
      /\ firing[f].stale # {i} => q.pc = "delete" /\ q.stale = firing[f].stale \ {i}
  BY <1>0, <1>1, <1>2, AlertBlanks DEF Event
<1>4. firing' = [firing EXCEPT ![f] = q]
  BY <1>0, <1>2 DEF PruneDelete, Ends
<1>5. firing'[f] = q /\ \A g \in Firings \ {f} : firing'[g] = firing[g]
  BY <1>0, <1>4
<1>6. Rows' = Rows \ {i} /\ \A j \in Rows' : table'[j] = table[j]
  BY <1>1 DEF Rows
<1>7. \A S \in SUBSET Nat : Cardinality(Rows' \ S) \in Nat /\ Cardinality(Rows \ S) \in Nat
                            /\ Cardinality(Rows' \ S) <= Cardinality(Rows \ S)
  <2> SUFFICES ASSUME NEW S \in SUBSET Nat
               PROVE  /\ Cardinality(Rows' \ S) \in Nat /\ Cardinality(Rows \ S) \in Nat
                      /\ Cardinality(Rows' \ S) <= Cardinality(Rows \ S)
    OBVIOUS
  <2>1. IsFiniteSet(Rows \ S) /\ Rows' \ S \subseteq Rows \ S
    BY <1>0, <1>6, RowsFinite
  <2>2. QED
    BY <2>1, FS_Subset, FS_CardinalityType
<1>8. Rows \ {} = Rows /\ Rows' \ {} = Rows' /\ {} \in SUBSET Nat
  OBVIOUS
<1>9. Cardinality(Rows') \in Nat /\ Cardinality(Rows) \in Nat /\ Cardinality(Rows') <= Cardinality(Rows)
  BY <1>7, <1>8
<1>10. firing[f].stale # {i} => Rows' \ q.stale = Rows \ firing[f].stale
  BY <1>1, <1>3, <1>6
<1>11. firing[f].stale = {i} => Rows' = Rows \ firing[f].stale
  BY <1>6
<1>12. MaxRecords \in Nat
  BY AlertsAssumption
<1>13. \A g \in Firings : firing[g].total \in Nat /\ firing[g].stale \in SUBSET Nat
  BY <1>0 DEF Event
<1>14. \A g \in Firings : firing'[g].pc = "find" => firing'[g].total > MaxRecords
  BY <1>3, <1>5 DEF PruneInv
<1>15. PruneEnough'
  <2> SUFFICES ASSUME ~loose, ~(Cardinality(Rows') <= MaxRecords) PROVE \E g \in Firings : Leaves(g)'
    BY <1>1 DEF PruneEnough
  <2>1. PICK g \in Firings : Leaves(g)
    BY <1>9, <1>12 DEF PruneInv, PruneEnough
  <2>2. CASE g = f
    <3>1. Cardinality(Rows \ firing[f].stale) <= MaxRecords
      BY <1>1, <2>1, <2>2 DEF Leaves
    <3>2. Leaves(f)'
      BY <1>3, <1>5, <1>10, <1>11, <3>1 DEF Leaves
    <3>3. QED
      BY <3>2
  <2>3. CASE g # f
    <3>1. firing'[g] = firing[g]
      BY <1>5, <2>3
    <3>2. CASE firing[g].pc \in {"create", "count"}
      BY <3>1, <3>2 DEF Leaves
    <3>3. CASE firing[g].pc = "find"
      <4>1. Cardinality(Rows) <= firing[g].total
        BY <2>1, <3>3 DEF Leaves
      <4>2. Cardinality(Rows') <= firing[g].total
        BY <1>9, <1>13, <4>1
      <4>3. QED
        BY <3>1, <3>3, <4>2 DEF Leaves
    <3>4. CASE firing[g].pc = "delete"
      <4>1. Cardinality(Rows \ firing[g].stale) <= MaxRecords
        BY <2>1, <3>4 DEF Leaves
      <4>2. PICK S \in SUBSET Nat : S = firing[g].stale
        BY <1>13
      <4>3. /\ Cardinality(Rows' \ S) \in Nat /\ Cardinality(Rows \ S) \in Nat
            /\ Cardinality(Rows' \ S) <= Cardinality(Rows \ S)
        BY <1>7
      <4>4. Cardinality(Rows' \ S) <= MaxRecords
        BY <1>12, <4>1, <4>2, <4>3
      <4>5. QED
        BY <3>1, <3>4, <4>2, <4>4 DEF Leaves
    <3>5. QED
      BY <2>1, <3>2, <3>3, <3>4 DEF Leaves
  <2>4. QED
    BY <2>2, <2>3
<1>16. PruneAlone'
  <2> SUFFICES ASSUME driver = "memory" PROVE PruneAlone'
    BY DEF PruneAlone
  <2>1. reader = NoReader /\ Busy \subseteq {f}
    BY <1>1, InTurn
  <2>2. \A g \in Firings \ {f} : firing'[g].pc = "idle"
    BY <1>5, <2>1 DEF Busy
  <2>3. (\A g, h \in Busy' : g = h) /\ reader' = NoReader
    BY <1>1, <2>1, <2>2 DEF Busy
  <2>4. \A k, j \in Rows' : Older(k, j) => (table'[k].at < table'[j].at \/ (table'[k].at = table'[j].at /\ k < j))
    BY <1>6 DEF Older
  <2>5. /\ Cardinality(Rows \ firing[f].stale) >= MaxRecords
        /\ \A k \in Rows \cap firing[f].stale, j \in Rows \ firing[f].stale : Older(k, j)
    BY <1>1 DEF PruneInv, PruneAlone
  <2>6. ASSUME NEW g \in Firings, firing'[g].pc = "delete"
        PROVE  /\ Cardinality(Rows' \ firing'[g].stale) >= MaxRecords
               /\ \A k \in Rows' \cap firing'[g].stale, j \in Rows' \ firing'[g].stale :
                    table'[k].at < table'[j].at \/ (table'[k].at = table'[j].at /\ k < j)
    <3>1. g = f /\ firing[f].stale # {i} /\ firing'[g].stale = firing[f].stale \ {i}
      BY <1>3, <1>5, <2>2, <2>6
    <3>2. Rows' \ firing'[g].stale = Rows \ firing[f].stale
      BY <1>3, <1>10, <3>1
    <3>3. \A k \in Rows' \cap firing'[g].stale : k \in Rows \cap firing[f].stale
      BY <1>6, <3>1
    <3>4. QED
      BY <2>4, <2>5, <3>2, <3>3
  <2>7. \A g \in Firings : firing'[g].pc # "find"
    BY <1>3, <1>5, <2>2
  <2>8. QED
    BY <2>3, <2>6, <2>7 DEF PruneAlone, Older
<1>17. QED
  BY <1>1, <1>14, <1>15, <1>16 DEF PruneInv

LEMMA PruneCreates ==
  ASSUME PruneInv, AlertInv', UNCHANGED driver, NEW f \in Firings, NEW w \in Watches, CreateRecord(f, w)
  PROVE  PruneInv'
<1>0. firing[f] \in Event /\ firing \in [Firings -> Event]
  BY DEF PruneInv, AlertInv, AlertShape
<1>1. AlertTurn(f) /\ UNCHANGED <<reader, loose>>
  BY DEF CreateRecord
<1>2. PICK q : q = [firing[f] EXCEPT !.to = firing[f].to \ {w}, !.pc = IF firing[f].to = {w} THEN "count" ELSE "create"]
  OBVIOUS
<1>3. q.pc \in {"create", "count"}
  BY <1>0, <1>2 DEF Event
<1>4. firing' = [firing EXCEPT ![f] = q]
  BY <1>2 DEF CreateRecord
<1>5. firing'[f] = q /\ \A g \in Firings \ {f} : firing'[g] = firing[g]
  BY <1>0, <1>4
<1>6. Leaves(f)'
  BY <1>3, <1>5 DEF Leaves
<1>7. \A g \in Firings : firing'[g].pc = "find" => firing'[g].total > MaxRecords
  BY <1>3, <1>5 DEF PruneInv
<1>8. PruneAlone'
  <2> SUFFICES ASSUME driver = "memory" PROVE PruneAlone'
    BY DEF PruneAlone
  <2>1. reader = NoReader /\ Busy \subseteq {f}
    BY <1>1, InTurn
  <2>2. \A g \in Firings \ {f} : firing'[g].pc = "idle"
    BY <1>5, <2>1 DEF Busy
  <2>3. (\A g, h \in Busy' : g = h) /\ reader' = NoReader
    BY <1>1, <2>1, <2>2 DEF Busy
  <2>4. \A g \in Firings : firing'[g].pc \notin {"find", "delete"}
    BY <1>3, <1>5, <2>2
  <2>5. QED
    BY <2>3, <2>4 DEF PruneAlone
<1>9. QED
  BY <1>1, <1>6, <1>7, <1>8 DEF PruneInv, PruneEnough

\* With the memory driver no handler is at work while a record is marked.
LEMMA PruneReads ==
  ASSUME PruneInv, AlertInv', UNCHANGED driver,
         (\E i \in 1 .. MaxSerial : MarkLoad(i)) \/ MarkSave
  PROVE  PruneInv'
<1>1. UNCHANGED firing /\ AlertTurn(NoWatch)
  BY DEF MarkLoad, MarkSave
<1>2. driver = "memory" => Busy = {}
  <2>1. CASE reader # NoReader
    BY <2>1 DEF PruneInv, PruneAlone
  <2>2. CASE reader = NoReader
    BY <1>1, <2>2, FiringsAssumption DEF AlertTurn, TurnOf, Busy
  <2>3. QED
    BY <2>1, <2>2
<1>3. PruneAlone'
  <2> SUFFICES ASSUME driver = "memory" PROVE PruneAlone'
    BY DEF PruneAlone
  <2>1. Busy' = {} /\ \A f \in Firings : firing'[f].pc = "idle"
    BY <1>1, <1>2 DEF Busy
  <2>2. QED
    BY <2>1 DEF PruneAlone
<1>4. \A f \in Firings : firing'[f].pc = "find" => firing'[f].total > MaxRecords
  BY <1>1 DEF PruneInv
<1>5. loose' \in BOOLEAN /\ (loose' \/ (Rows' = Rows /\ loose' = loose))
  <2>1. CASE \E i \in 1 .. MaxSerial : MarkLoad(i)
    BY <2>1 DEF MarkLoad, Rows, PruneInv
  <2>2. CASE MarkSave
    <3>1. Rows' = Rows \cup {reader.id} /\ loose' = (loose \/ reader.id \notin Rows)
      BY <2>2 DEF MarkSave, Rows
    <3>2. loose' \in BOOLEAN
      BY <3>1
    <3>3. CASE reader.id \in Rows
      BY <3>1, <3>2, <3>3 DEF PruneInv
    <3>4. CASE reader.id \notin Rows
      BY <3>1, <3>2, <3>4
    <3>5. QED
      BY <3>3, <3>4
  <2>3. QED
    BY <2>1, <2>2
<1>6. PruneEnough'
  <2> SUFFICES ASSUME ~loose' PROVE Cardinality(Rows') <= MaxRecords \/ \E f \in Firings : Leaves(f)'
    BY DEF PruneEnough
  <2>1. Rows' = Rows /\ ~loose
    BY <1>5
  <2>2. \A f \in Firings : Leaves(f)' <=> Leaves(f)
    BY <1>1, <2>1 DEF Leaves
  <2>3. QED
    BY <2>1, <2>2 DEF PruneInv, PruneEnough
<1>7. QED
  BY <1>3, <1>4, <1>5, <1>6 DEF PruneInv

LEMMA PruneRests ==
  ASSUME PruneInv, AlertInv', UNCHANGED driver, AlertClock \/ AlertRestart \/ UNCHANGED alertVars
  PROVE  PruneInv'
<1>1. CASE AlertClock \/ UNCHANGED alertVars
  <2>1. UNCHANGED <<table, firing, reader, loose>>
    BY <1>1 DEF AlertClock, alertVars
  <2>2. \A f \in Firings : Leaves(f)' <=> Leaves(f)
    BY <2>1 DEF Leaves, Rows
  <2>3. PruneEnough'
    BY <2>1, <2>2 DEF PruneInv, PruneEnough, Rows
  <2>4. PruneAlone'
    BY <2>1 DEF PruneInv, PruneAlone, Rows, Busy, Older
  <2>5. QED
    BY <2>1, <2>3, <2>4 DEF PruneInv
<1>2. CASE AlertRestart
  <2>1. /\ driver = "mysql" /\ firing' = [f \in Firings |-> NoFiring] /\ Rows' = Rows
        /\ loose' = (loose \/ Busy # {})
    BY <1>2 DEF AlertRestart, Rows
  <2>2. \A f \in Firings : firing'[f].pc = "idle"
    BY <2>1, AlertBlanks
  <2>3. PruneEnough'
    <3> SUFFICES ASSUME ~loose' PROVE Cardinality(Rows') <= MaxRecords
      BY DEF PruneEnough
    <3>1. ~loose /\ Busy = {}
      BY <2>1
    <3>2. \A f \in Firings : ~Leaves(f)
      BY <3>1 DEF Busy, Leaves
    <3>3. QED
      BY <2>1, <3>1, <3>2 DEF PruneInv, PruneEnough
  <2>4. loose' \in BOOLEAN
    BY <2>1
  <2>5. PruneAlone'
    BY <2>1 DEF PruneAlone
  <2>6. QED
    BY <2>2, <2>3, <2>4, <2>5 DEF PruneInv
<1>3. QED
  BY <1>1, <1>2

LEMMA PruneNext == PruneInv /\ [AlertsNext /\ UNCHANGED driver]_<<driver, alertVars>> => PruneInv'
<1> SUFFICES ASSUME PruneInv, [AlertsNext /\ UNCHANGED driver]_<<driver, alertVars>> PROVE PruneInv'
  OBVIOUS
<1>1. AlertInv' /\ UNCHANGED driver
  BY AlertGoes DEF PruneInv
<1>2. ASSUME NEW f \in Firings,
             (\E lag \in BOOLEAN : FireEvent(f, lag)) \/ (\E matching \in SUBSET Watches : MatchRules(f, matching))
      PROVE  PruneInv'
  BY <1>1, <1>2, PruneEvents
<1>3. ASSUME NEW f \in Firings, PruneCount(f) PROVE PruneInv'
  BY <1>1, <1>3, PruneCounts
<1>4. ASSUME NEW f \in Firings, PruneFind(f) PROVE PruneInv'
  BY <1>1, <1>4, PruneFinds
<1>5. ASSUME NEW f \in Firings, NEW i \in 1 .. MaxSerial, PruneDelete(f, i) PROVE PruneInv'
  BY <1>1, <1>5, PruneDeletes
<1>6. ASSUME NEW f \in Firings, NEW w \in Watches, CreateRecord(f, w) PROVE PruneInv'
  BY <1>1, <1>6, PruneCreates
<1>7. CASE (\E i \in 1 .. MaxSerial : MarkLoad(i)) \/ MarkSave
  BY <1>1, <1>7, PruneReads
<1>8. CASE AlertClock \/ AlertRestart \/ UNCHANGED alertVars
  BY <1>1, <1>8, PruneRests
<1>9. CASE AlertsNext
  BY <1>2, <1>3, <1>4, <1>5, <1>6, <1>7, <1>8, <1>9 DEF AlertsNext
<1>10. QED
  BY <1>8, <1>9

\* A step takes a row only in a prune, and with the memory driver one of the oldest.
LEMMA PruneTakesOldest ==
  ASSUME PruneInv, [AlertsNext /\ UNCHANGED driver]_<<driver, alertVars>>, driver = "memory",
         NEW i \in Rows \ Rows'
  PROVE  Cardinality({j \in Rows : Older(i, j)}) >= MaxRecords
<1>1. PICK f \in Firings, k \in 1 .. MaxSerial : PruneDelete(f, k)
  <2>1. Rows' # Rows
    OBVIOUS
  <2>2. ~UNCHANGED <<driver, alertVars>>
    BY <2>1 DEF alertVars, Rows
  <2>3. ASSUME NEW f \in Firings PROVE /\ \A lag \in BOOLEAN : ~FireEvent(f, lag)
                                       /\ \A matching \in SUBSET Watches : ~MatchRules(f, matching)
                                       /\ ~PruneCount(f) /\ ~PruneFind(f)
    BY <2>1 DEF FireEvent, MatchRules, PruneCount, PruneFind, Rows
  <2>4. ASSUME NEW f \in Firings, NEW w \in Watches PROVE ~CreateRecord(f, w)
    BY DEF CreateRecord, Rows
  <2>5. ~MarkSave
    BY DEF MarkSave, Rows
  <2>6. (\A k \in 1 .. MaxSerial : ~MarkLoad(k)) /\ ~AlertClock /\ ~AlertRestart
    BY <2>1 DEF MarkLoad, AlertClock, AlertRestart, Rows
  <2>7. QED
    BY <2>2, <2>3, <2>4, <2>5, <2>6 DEF AlertsNext
<1>2. firing[f].pc = "delete" /\ k \in firing[f].stale /\ Rows' = Rows \ {k}
  BY <1>1 DEF PruneDelete, Rows
<1>3. i = k /\ i \in Rows \cap firing[f].stale
  BY <1>2
<1>4. Cardinality(Rows \ firing[f].stale) >= MaxRecords /\ \A j \in Rows \ firing[f].stale : Older(i, j)
  BY <1>2, <1>3 DEF PruneInv, PruneAlone
<1>5. PICK newer : newer = {j \in Rows : Older(i, j)}
  OBVIOUS
<1>6. IsFiniteSet(newer) /\ newer \subseteq Rows /\ Rows \ firing[f].stale \subseteq newer
  BY <1>4, <1>5, RowsFinite DEF PruneInv
<1>7. /\ Cardinality(Rows \ firing[f].stale) <= Cardinality(newer)
      /\ Cardinality(Rows \ firing[f].stale) \in Nat /\ Cardinality(newer) \in Nat /\ MaxRecords \in Nat
  BY <1>6, FS_Subset, FS_CardinalityType, AlertsAssumption
<1>8. Cardinality(newer) >= MaxRecords
  BY <1>4, <1>7
<1>9. QED
  BY <1>5, <1>8

\* AlertsPruned (alert.service.js pruneRecords): however many handlers write records and prune
\* at once, and with either driver, the table is back to MAX_RECORDS once they have ended,
\* unless a row came back or a restart cut a prune short; and with the memory driver a
\* prune takes no row that is among the newest MAX_RECORDS.
THEOREM AlertsPrunedHolds == AlertsSpec => AlertsPruned
<1>1. PruneInv => AlertsBounded
  <2> SUFFICES ASSUME PruneInv, Busy = {}, ~loose PROVE Cardinality(Rows) <= MaxRecords
    BY DEF AlertsBounded, Rows
  <2>1. \A f \in Firings : ~Leaves(f)
    BY DEF Busy, Leaves
  <2>2. QED
    BY <2>1 DEF PruneInv, PruneEnough
<1>2. PruneInv /\ [AlertsNext /\ UNCHANGED driver]_<<driver, alertVars>> =>
        [driver = "memory" => \A i \in DOMAIN table \ DOMAIN table' :
           Cardinality({j \in DOMAIN table : Older(i, j)}) >= MaxRecords]_<<driver, table>>
  BY PruneTakesOldest DEF Rows
<1>3. AlertsSpec => [](PruneInv)
  BY PruneBegins, PruneNext, PTL DEF AlertsSpec
<1>4. AlertsSpec => PruneKeepsNewest
  BY <1>2, <1>3, PTL DEF AlertsSpec, PruneKeepsNewest
<1>5. QED
  BY <1>1, <1>3, <1>4, PTL DEF AlertsPruned

-----------------------------------------------------------------------------
(* The data API gateway: the counter of an API agrees with the calls it served. *)

\* The rows without their bounds.
ApiRow  == [status : {"draft", "published", "absent"}, key : Nat, count : Nat]
EditRow == [pc : {"idle", "load", "save"}, do : Edits, key : Nat, row : ApiRow]

ApiShape == /\ api \in ApiRow /\ edit \in [Editors -> EditRow]
         /\ keyCount \in Nat /\ served \in Nat /\ clash \in BOOLEAN

\* An edit writes back a row that was there when it was read: it brings no deleted API back
\* unnoticed.
EditLoaded == \A e \in Editors : edit[e].pc = "save" => edit[e].row.status # "absent"

CountInv == ApiShape /\ EditLoaded /\ CallsCounted

LEMMA CountBegins == GatewayInit => CountInv
<1> SUFFICES ASSUME GatewayInit PROVE CountInv
  OBVIOUS
<1>1. NoApi \in ApiRow /\ NoApi.count = 0 /\ [NoApi EXCEPT !.status = "draft"].count = 0
      /\ [NoApi EXCEPT !.status = "draft"] \in ApiRow
  BY DEF NoApi, ApiRow
<1>2. NoEdit \in EditRow /\ NoEdit.pc = "idle"
  BY <1>1 DEF NoEdit, EditRow, Edits
<1>3. QED
  BY <1>1, <1>2 DEF GatewayInit, CountInv, ApiShape, EditLoaded, CallsCounted

\* What an edit leaves of the other requests, once its own is in order.
LEMMA OneEdit ==
  ASSUME ApiShape, EditLoaded, NEW e \in Editors, NEW n \in EditRow,
         n.pc = "save" => n.row.status # "absent", edit' = [edit EXCEPT ![e] = n]
  PROVE  edit' \in [Editors -> EditRow] /\ EditLoaded'
  BY DEF ApiShape, EditLoaded

LEMMA EditsCount ==
  ASSUME CountInv, NEW e \in Editors,
         (\E do \in Edits : EditRead(e, do)) \/ EditLoad(e) \/ EditSave(e)
  PROVE  CountInv'
<1>0. /\ edit[e] \in EditRow /\ api \in ApiRow /\ keyCount \in Nat /\ served \in Nat
      /\ clash \in BOOLEAN
  BY DEF CountInv, ApiShape
<1>1. NoEdit \in EditRow /\ NoEdit.pc = "idle" /\ NoApi \in ApiRow /\ NoApi.status = "absent"
  BY DEF NoEdit, EditRow, Edits, NoApi, ApiRow
<1>2. ASSUME NEW do \in Edits, EditRead(e, do) PROVE CountInv'
  <2>1. /\ keyCount' \in Nat /\ api' = api /\ served' = served /\ clash' = clash
    <3>1. api' = api /\ served' = served /\ clash' = clash
      BY <1>2 DEF EditRead
    <3>2. keyCount' = IF do = "publish" /\ api.key = 0 THEN keyCount + 1 ELSE keyCount
      BY <1>2 DEF EditRead
    <3>3. QED
      BY <1>0, <3>1, <3>2
  <2> DEFINE k == IF do = "publish" /\ api.key = 0 THEN keyCount' ELSE api.key
             n == [edit[e] EXCEPT !.pc = "load", !.do = do, !.key = k]
  <2>2. k \in Nat
    BY <1>0, <2>1 DEF ApiRow
  <2>3. n \in EditRow /\ n.pc = "load"
    BY <1>0, <2>2 DEF EditRow
  <2>4. edit' = [edit EXCEPT ![e] = n]
    BY <1>2 DEF EditRead
  <2> HIDE DEF n, k
  <2>5. edit' \in [Editors -> EditRow] /\ EditLoaded'
    BY <2>3, <2>4, OneEdit DEF CountInv
  <2>6. QED
    BY <1>0, <2>1, <2>5 DEF CountInv, ApiShape, CallsCounted
<1>3. CASE EditLoad(e)
  <2>1. keyCount' = keyCount /\ api' = api /\ served' = served /\ clash' = clash
    BY <1>3 DEF EditLoad
  <2> DEFINE n == IF api.status = "absent" THEN NoEdit
                  ELSE [edit[e] EXCEPT !.pc = "save", !.row = api]
  <2>2. n \in EditRow /\ (n.pc = "save" => n.row.status # "absent")
    BY <1>0, <1>1 DEF EditRow
  <2>3. edit' = [edit EXCEPT ![e] = n]
    BY <1>3 DEF EditLoad
  <2> HIDE DEF n
  <2>4. edit' \in [Editors -> EditRow] /\ EditLoaded'
    BY <2>2, <2>3, OneEdit DEF CountInv
  <2>5. QED
    BY <1>0, <2>1, <2>4 DEF CountInv, ApiShape, CallsCounted
<1>4. CASE EditSave(e)
  <2> DEFINE q == edit[e]
  <2>1. /\ q.pc = "save" /\ q.do \in Edits /\ q.key \in Nat /\ q.row \in ApiRow
        /\ q.row.status # "absent"
    BY <1>0, <1>4 DEF EditSave, EditRow, CountInv, EditLoaded
  <2>2. /\ keyCount' = keyCount /\ api' = Edited(q) /\ edit' = [edit EXCEPT ![e] = NoEdit]
        /\ served' = IF q.do = "delete" THEN 0 ELSE served
        /\ clash' = (clash \/ api # q.row)
    BY <1>4 DEF EditSave
  <2>3. Edited(q) \in ApiRow /\ (q.do # "delete" => Edited(q).count = q.row.count)
        /\ (q.do = "delete" => Edited(q).status = "absent")
    BY <1>1, <2>1 DEF Edited, Edits, ApiRow
  <2>4. edit' \in [Editors -> EditRow] /\ EditLoaded'
    BY <1>1, <2>2, OneEdit DEF CountInv
  <2> HIDE DEF q
  <2>5. CallsCounted'
    BY <1>0, <2>1, <2>2, <2>3 DEF CountInv, CallsCounted
  <2>6. QED
    BY <1>0, <2>2, <2>3, <2>4, <2>5 DEF CountInv, ApiShape
<1>5. QED
  BY <1>2, <1>3, <1>4

LEMMA CallsCount ==
  ASSUME CountInv, NEW c \in Callers,
         \/ \E mayCall \in BOOLEAN : CallCheck(c, mayCall)
         \/ CallFind(c) \/ CallAnswer(c) \/ CallRecord(c) \/ CallCount(c)
         \/ CallLog(c) \/ CallTally(c) \/ CallTrim(c) \/ CallLogFails(c)
  PROVE  CountInv'
<1>1. CASE CallCount(c)
  <2>1. api \in ApiRow /\ served \in Nat
    BY DEF CountInv, ApiShape
  <2>2. /\ api' = Counted(c) /\ served' = IF api.status = "absent" THEN served ELSE served + 1
        /\ edit' = edit /\ keyCount' = keyCount /\ clash' = clash
    BY <1>1 DEF CallCount
  <2>3. CASE api.status = "absent"
    <3>1. api' = api /\ served' = served
      BY <2>2, <2>3 DEF Counted
    <3>2. QED
      BY <2>2, <3>1 DEF CountInv, ApiShape, EditLoaded, CallsCounted
  <2>4. CASE api.status # "absent"
    <3>1. api' = [api EXCEPT !.count = api.count + 1] /\ served' = served + 1
      BY <2>2, <2>4 DEF Counted
    <3>2. api' \in ApiRow /\ api'.count = api.count + 1 /\ api'.status = api.status
      BY <2>1, <3>1 DEF ApiRow
    <3>3. QED
      BY <2>1, <2>2, <3>1, <3>2 DEF CountInv, ApiShape, EditLoaded, CallsCounted
  <2>5. QED
    BY <2>3, <2>4
<1>2. CASE ~CallCount(c)
  <2>1. UNCHANGED <<api, edit, keyCount, served, clash>>
    BY <1>2 DEF CallCheck, CallFind, CallAnswer, CallRecord, CallLog, CallTally, CallTrim, CallLogFails
  <2>2. QED
    BY <2>1 DEF CountInv, ApiShape, EditLoaded, CallsCounted
<1>3. QED
  BY <1>1, <1>2

LEMMA CountGoes == CountInv /\ [GatewayNext /\ UNCHANGED driver]_<<driver, gatewayVars>> => CountInv'
<1> SUFFICES ASSUME CountInv, [GatewayNext /\ UNCHANGED driver]_<<driver, gatewayVars>> PROVE CountInv'
  OBVIOUS
<1>1. ASSUME NEW e \in Editors,
             (\E do \in Edits : EditRead(e, do)) \/ EditLoad(e) \/ EditSave(e)
      PROVE  CountInv'
  BY <1>1, EditsCount
<1>2. ASSUME NEW c \in Callers,
             \/ \E mayCall \in BOOLEAN : CallCheck(c, mayCall)
             \/ CallFind(c) \/ CallAnswer(c) \/ CallRecord(c) \/ CallCount(c)
             \/ CallLog(c) \/ CallTally(c) \/ CallTrim(c) \/ CallLogFails(c)
      PROVE  CountInv'
  BY <1>2, CallsCount
<1>3. CASE GatewayClock \/ UNCHANGED <<driver, gatewayVars>>
  BY <1>3 DEF GatewayClock, gatewayVars, CountInv, ApiShape, EditLoaded, CallsCounted
<1>4. CASE GatewayRestart
  <2>1. NoEdit \in EditRow /\ NoEdit.pc = "idle"
    BY DEF NoEdit, EditRow, Edits, NoApi, ApiRow
  <2>2. edit' = [e \in Editors |-> NoEdit] /\ UNCHANGED <<api, keyCount, served, clash>>
    BY <1>4 DEF GatewayRestart
  <2>3. QED
    BY <2>1, <2>2 DEF CountInv, ApiShape, EditLoaded, CallsCounted
<1>5. QED
  BY <1>1, <1>2, <1>3, <1>4 DEF GatewayNext

\* CallsCounted (dataapi.repository.js recordCall, dataapi.store.js addCall): the counter of
\* an API equals the calls served, however many overlap, as long as no edit has written a
\* row over a change.
THEOREM CallsCountedHolds == GatewaySpec => []CallsCounted
<1>1. CountInv => CallsCounted
  BY DEF CountInv
<1>2. QED
  BY CountBegins, CountGoes, <1>1, PTL DEF GatewaySpec

-----------------------------------------------------------------------------
(* Windows: what the remainder and the quotient by the length of a window are *)

LEMMA Scaled == ASSUME NEW W \in Nat \ {0}, NEW x \in Nat, NEW y \in Nat, x * W < y * W PROVE x < y
<1>1. SUFFICES ASSUME y <= x PROVE FALSE
  OBVIOUS
<1>2. PICK d \in Nat : x = y + d
  <2>1. x - y \in Nat /\ x = y + (x - y)
    BY <1>1
  <2>2. QED
    BY <2>1
<1>3. x * W = y * W + d * W /\ d * W >= 0
  BY <1>2
<1>4. y * W \in Nat /\ d * W \in Nat /\ x * W \in Nat
  BY <1>2
<1>5. QED
  BY <1>3, <1>4

LEMMA Division ==
  ASSUME NEW W \in Nat \ {0}, NEW t \in Nat
  PROVE  /\ t \div W \in Nat /\ (t \div W) * W \in Nat
         /\ (t \div W) * W <= t /\ t < (t \div W) * W + W
  OBVIOUS

LEMMA Rest ==
  ASSUME NEW W \in Nat \ {0}, NEW t \in Nat
  PROVE  t % W \in Nat /\ t % W < W /\ t = (t \div W) * W + (t % W)
  OBVIOUS

LEMMA NextRest ==
  ASSUME NEW W \in Nat \ {0}, NEW t \in Nat, (t + 1) % W # 0
  PROVE  (t + 1) % W = (t % W) + 1
<1>1. PICK a \in Nat, b \in Nat, r \in Nat, s \in Nat :
        /\ a = t \div W /\ r = t % W /\ r < W /\ t = a * W + r
        /\ b = (t + 1) \div W /\ s = (t + 1) % W /\ s < W /\ t + 1 = b * W + s
  BY Rest, Division
<1>2. a * W \in Nat /\ b * W \in Nat /\ a * W + r + 1 = b * W + s
  BY <1>1
<1>3. a * W + W = (a + 1) * W /\ b * W + W = (b + 1) * W
  BY <1>1
<1>4. a * W < (b + 1) * W
  BY <1>1, <1>2, <1>3
<1>5. b * W < (a + 1) * W
  BY <1>1, <1>2, <1>3
<1>6. a < b + 1 /\ b < a + 1
  BY <1>1, <1>4, <1>5, Scaled
<1>7. a = b
  BY <1>1, <1>6
<1>8. QED
  BY <1>1, <1>2, <1>7

LEMMA TwoWindows ==
  ASSUME NEW W \in Nat \ {0}, NEW t \in Nat, NEW p \in Nat, t <= p, p < t + W
  PROVE  (p \div W) * W \in {(t \div W) * W, (t \div W) * W + W}
<1>1. PICK a \in Nat, b \in Nat :
        /\ a = t \div W /\ a * W <= t /\ t < a * W + W
        /\ b = p \div W /\ b * W <= p /\ p < b * W + W
  BY Division
<1>2. a * W \in Nat /\ b * W \in Nat /\ a * W + W = (a + 1) * W /\ b * W + W = (b + 1) * W
      /\ a * W + W + W = (a + 2) * W
  BY <1>1
<1>3. b * W < (a + 2) * W /\ a * W < (b + 1) * W
  BY <1>1, <1>2
<1>4. b < a + 2 /\ a < b + 1
  BY <1>1, <1>3, Scaled
<1>5. b = a \/ b = a + 1
  BY <1>1, <1>4
<1>6. QED
  BY <1>1, <1>2, <1>5

LEMMA Onward ==
  ASSUME NEW W \in Nat \ {0}, NEW t \in Nat, NEW p \in Nat, t <= p
  PROVE  (t \div W) * W <= (p \div W) * W
<1>1. PICK a \in Nat, b \in Nat :
        /\ a = t \div W /\ a * W <= t /\ t < a * W + W
        /\ b = p \div W /\ b * W <= p /\ p < b * W + W
  BY Division
<1>2. SUFFICES ASSUME b * W < a * W PROVE FALSE
  BY <1>1
<1>3. b < a
  BY <1>1, <1>2, Scaled
<1>4. PICK d \in Nat : a = b + 1 + d
  <2>1. a - b - 1 \in Nat /\ a = b + 1 + (a - b - 1)
    BY <1>1, <1>3
  <2>2. QED
    BY <2>1
<1>5. a * W = b * W + W + d * W /\ d * W \in Nat
  BY <1>1, <1>4
<1>6. a * W \in Nat /\ b * W \in Nat
  BY <1>1
<1>7. QED
  BY <1>1, <1>5, <1>6

-----------------------------------------------------------------------------
(* The limiter *)

\* The calls let through in one of its windows.
In(w) == {i \in DOMAIN passes : WindowOf(passes[i]) = w}

Buckets == [window : Nat, count : Nat]

\* The bucket counts the calls of its window, the latest one with any; each has its share.
Limited ==
  /\ tick \in Nat /\ passes \in Seq(Nat) /\ \A i \in DOMAIN passes : passes[i] <= tick
  /\ bucket = <<>> \/ bucket \in Buckets
  /\ bucket = <<>> => passes = <<>>
  /\ bucket # <<>> => /\ bucket.count <= Limit /\ Cardinality(In(bucket.window)) <= bucket.count
                      /\ bucket.window <= WindowOf(tick)
                      /\ \A i \in DOMAIN passes : WindowOf(passes[i]) <= bucket.window
  /\ \A w \in Nat : Cardinality(In(w)) <= Limit

LEMMA Sizes == /\ Limit \in Nat \ {0} /\ WindowTicks \in Nat \ {0} /\ MaxDetails \in Nat \ {0}
               /\ PruneEvery \in Nat \ {0} /\ MaxTick \in Nat /\ IsFiniteSet(Callers)
  BY GatewayAssumption

LEMMA Windows ==
  /\ \A t \in Nat : WindowOf(t) \in Nat
  /\ \A t, p \in Nat : t <= p => WindowOf(t) <= WindowOf(p)
  BY Division, Onward, Sizes DEF WindowOf

LEMMA PassesFinite ==
  ASSUME passes \in Seq(Nat), NEW P \in SUBSET DOMAIN passes
  PROVE  IsFiniteSet(P) /\ Cardinality(P) \in Nat
<1>1. DOMAIN passes = 1 .. Len(passes) /\ Len(passes) \in Nat
  BY LenProperties
<1>2. IsFiniteSet(DOMAIN passes)
  BY <1>1, FS_Interval
<1>3. IsFiniteSet(P)
  BY <1>2, FS_Subset
<1>4. QED
  BY <1>3, FS_CardinalityType

LEMMA NoPasses == <<>> \in Seq(Nat) /\ DOMAIN <<>> = {} /\ Cardinality({}) = 0
  BY FS_EmptySet

LEMMA LimitedInit == GatewayInit => Limited
<1> SUFFICES ASSUME GatewayInit PROVE Limited
  OBVIOUS
<1>1. \A w : In(w) = {}
  BY NoPasses DEF GatewayInit, In
<1>2. \A w : Cardinality(In(w)) <= Limit
  BY <1>1, NoPasses, Sizes
<1>3. QED
  BY <1>2, NoPasses DEF GatewayInit, Limited

\* The limiter starts afresh.
LEMMA LimitedReset ==
  ASSUME Limited, bucket' = <<>>, passes' = <<>>, tick' = tick PROVE Limited'
<1>1. \A w : In(w)' = {}
  BY NoPasses DEF In
<1>2. \A w : Cardinality(In(w)') <= Limit
  BY <1>1, NoPasses, Sizes
<1>3. QED
  BY <1>2, NoPasses DEF Limited

LEMMA LimitedStays == ASSUME Limited, UNCHANGED <<bucket, passes, tick>> PROVE Limited'
  BY DEF Limited, In, WindowOf, Buckets

LEMMA LimitedClock == ASSUME Limited, GatewayClock PROVE Limited'
<1>1. tick' = tick + 1 /\ passes' = passes /\ bucket' = bucket /\ tick \in Nat /\ passes \in Seq(Nat)
  BY DEF GatewayClock, Limited
<1>2. WindowOf(tick) <= WindowOf(tick') /\ WindowOf(tick) \in Nat /\ WindowOf(tick') \in Nat
  <2>1. tick <= tick' /\ tick' \in Nat
    BY <1>1
  <2>2. QED
    BY <1>1, <2>1, Windows
<1>3. \A w : In(w)' = In(w)
  BY <1>1 DEF In, WindowOf
<1>4. \A i \in DOMAIN passes : passes[i] \in Nat
  BY <1>1
<1>5. \A i \in DOMAIN passes : WindowOf(passes[i])' = WindowOf(passes[i])
  BY <1>1 DEF WindowOf
<1>6. bucket # <<>> => bucket.window \in Nat
  BY DEF Limited, Buckets
<1>7. WindowOf(tick)' = WindowOf(tick')
  BY DEF WindowOf
<1>8. bucket # <<>> => bucket.window <= WindowOf(tick')
  BY <1>1, <1>2, <1>6 DEF Limited
<1>9. \A i \in DOMAIN passes : passes[i] <= tick + 1
  BY <1>1, <1>4 DEF Limited
<1>10. ASSUME NEW w, w = bucket.window, bucket # <<>> PROVE Cardinality(In(w)') <= bucket.count
  BY <1>3, <1>10 DEF Limited
<1>11. QED
  BY <1>1, <1>3, <1>5, <1>7, <1>8, <1>9, <1>10 DEF Limited, Buckets

\* One more call is let through.
LEMMA LimitedPass ==
  ASSUME Limited, RateAllows, RateTake, passes' = Append(passes, tick), tick' = tick
  PROVE  Limited'
<1> DEFINE w0 == WindowOf(tick)
           l  == Len(passes) + 1
<1>1. /\ tick \in Nat /\ passes \in Seq(Nat) /\ w0 \in Nat /\ l \in Nat
      /\ DOMAIN passes = 1 .. Len(passes) /\ Len(passes) \in Nat
  BY Windows, LenProperties DEF Limited
<1>2. /\ passes' \in Seq(Nat) /\ DOMAIN passes' = DOMAIN passes \cup {l} /\ l \notin DOMAIN passes
      /\ passes'[l] = tick /\ \A i \in DOMAIN passes : passes'[i] = passes[i]
  BY <1>1, AppendProperties
<1>3. \A w \in Nat : In(w)' = IF w = w0 THEN In(w) \cup {l} ELSE In(w)
  BY <1>2 DEF In, WindowOf
<1>4. \A w : IsFiniteSet(In(w)) /\ Cardinality(In(w)) \in Nat
  BY <1>1, PassesFinite DEF In
<1>5. Cardinality(In(w0) \cup {l}) = Cardinality(In(w0)) + 1
  <2>1. IsFiniteSet(In(w0)) /\ l \notin In(w0)
    BY <1>2, <1>4 DEF In
  <2>2. QED
    BY <2>1, FS_AddElement
<1>6. \E b \in Buckets : bucket' = b /\ b.window = w0 /\ b.count <= Limit /\ Cardinality(In(w0)) + 1 <= b.count
  <2>1. CASE NewWindow
    <3>1. In(w0) = {}
      <4>1. CASE bucket = <<>>
        BY <4>1, NoPasses DEF Limited, In
      <4>2. CASE bucket # <<>>
        <5>1. bucket.window < w0 /\ bucket.window \in Nat
          BY <1>1, <2>1, <4>2 DEF Limited, NewWindow, Buckets
        <5>2. \A i \in DOMAIN passes : WindowOf(passes[i]) <= bucket.window
          BY <4>2 DEF Limited
        <5>3. \A i \in DOMAIN passes : WindowOf(passes[i]) # w0
          BY <1>1, <5>1, <5>2
        <5>4. QED
          BY <5>3 DEF In
      <4>3. QED
        BY <4>1, <4>2
    <3>2. bucket' = [window |-> w0, count |-> 1]
      BY <2>1 DEF RateTake
    <3>3. [window |-> w0, count |-> 1] \in Buckets
      BY <1>1 DEF Buckets
    <3>4. QED
      BY <3>1, <3>2, <3>3, NoPasses, Sizes
  <2>2. CASE ~NewWindow
    <3>1. bucket # <<>> /\ bucket.window = w0 /\ bucket.count < Limit /\ bucket \in Buckets
      BY <2>2 DEF NewWindow, RateAllows, Limited
    <3>2. bucket' = [bucket EXCEPT !.count = bucket.count + 1]
      BY <2>2 DEF RateTake
    <3>3. bucket' \in Buckets /\ bucket'.window = w0 /\ bucket'.count = bucket.count + 1 /\ bucket.count \in Nat
      BY <3>1, <3>2 DEF Buckets
    <3>4. Cardinality(In(w0)) <= bucket.count
      BY <3>1 DEF Limited
    <3>5. QED
      BY <1>4, <3>1, <3>3, <3>4, Sizes
  <2>3. QED
    BY <2>1, <2>2
<1>7. PICK b \in Buckets : /\ bucket' = b /\ b.window = w0 /\ b.count <= Limit
                           /\ Cardinality(In(w0)) + 1 <= b.count
  BY <1>6
<1>8. b # <<>> /\ b.count \in Nat
  BY DEF Buckets
<1>9. ASSUME NEW w, w = w0 PROVE Cardinality(In(w)') <= b.count
  BY <1>1, <1>3, <1>5, <1>7, <1>9
<1>10. \A w \in Nat : Cardinality(In(w)') <= Limit
  <2>1. ASSUME NEW w \in Nat PROVE Cardinality(In(w)') <= Limit
    <3>1. CASE w = w0
      <4>1. Cardinality(In(w)') = Cardinality(In(w0)) + 1 /\ Cardinality(In(w0)) \in Nat
        BY <1>1, <1>3, <1>4, <1>5, <3>1
      <4>2. QED
        BY <1>7, <1>8, <4>1, Sizes
    <3>2. CASE w # w0
      BY <1>3, <3>2 DEF Limited
    <3>3. QED
      BY <3>1, <3>2
  <2>2. QED
    BY <2>1
<1>11. \A i \in DOMAIN passes' : passes'[i] <= tick /\ WindowOf(passes'[i]) <= w0
  <2>1. ASSUME NEW i \in DOMAIN passes PROVE passes[i] <= tick /\ WindowOf(passes[i]) <= w0
    <3>1. passes[i] \in Nat /\ passes[i] <= tick
      BY <1>1 DEF Limited
    <3>2. QED
      BY <1>1, <3>1, Windows
  <2>2. QED
    BY <1>1, <1>2, <2>1
<1>12. QED
  <2>1. w0 <= w0 /\ WindowOf(tick)' = w0 /\ (\A i \in DOMAIN passes' : WindowOf(passes[i])' = WindowOf(passes'[i]))
    BY <1>1 DEF WindowOf
  <2>2. QED
    BY <1>1, <1>2, <1>7, <1>8, <1>9, <1>10, <1>11, <2>1 DEF Limited

LEMMA LimitedNext == Limited /\ [GatewayNext /\ UNCHANGED driver]_<<driver, gatewayVars>> => Limited'
<1> SUFFICES ASSUME Limited, [GatewayNext /\ UNCHANGED driver]_<<driver, gatewayVars>> PROVE Limited'
  OBVIOUS
<1>1. ASSUME NEW e \in Editors, (\E do \in Edits : EditRead(e, do)) \/ EditLoad(e) \/ EditSave(e)
      PROVE  Limited'
  <2>1. /\ tick' = tick
        /\ (bucket' = <<>> /\ passes' = <<>>) \/ (bucket' = bucket /\ passes' = passes)
    BY <1>1 DEF EditRead, EditLoad, EditSave
  <2>2. QED
    BY <2>1, LimitedReset, LimitedStays
<1>2. ASSUME NEW c \in Callers, NEW mayCall \in BOOLEAN, CallCheck(c, mayCall) PROVE Limited'
  <2>1. /\ tick' = tick
        /\ \/ RateAllows /\ RateTake /\ passes' = Append(passes, tick)
           \/ UNCHANGED <<bucket, passes>>
    BY <1>2 DEF CallCheck
  <2>2. QED
    BY <2>1, LimitedPass, LimitedStays
<1>3. ASSUME NEW c \in Callers,
             \/ CallFind(c) \/ CallAnswer(c) \/ CallRecord(c) \/ CallCount(c)
             \/ CallLog(c) \/ CallTally(c) \/ CallTrim(c) \/ CallLogFails(c)
      PROVE  Limited'
  BY <1>3, LimitedStays DEF CallFind, CallAnswer, CallRecord, CallCount, CallLog, CallTally,
                            CallTrim, CallLogFails
<1>4. CASE UNCHANGED <<driver, gatewayVars>>
  BY <1>4, LimitedStays DEF gatewayVars
<1>5. CASE GatewayRestart
  BY <1>5, LimitedReset DEF GatewayRestart
<1>6. QED
  BY <1>1, <1>2, <1>3, <1>4, <1>5, LimitedClock DEF GatewayNext

LEMMA LimitedBounds == Limited => RateBounded
<1> SUFFICES ASSUME Limited, NEW t \in 0 .. MaxTick
             PROVE  Cardinality({i \in DOMAIN passes : passes[i] >= t /\ passes[i] < t + WindowTicks}) <= 2 * Limit
  BY DEF RateBounded
<1> DEFINE S == {i \in DOMAIN passes : passes[i] >= t /\ passes[i] < t + WindowTicks}
           a == WindowOf(t)
           b == WindowOf(t) + WindowTicks
<1>0. passes \in Seq(Nat) /\ t \in Nat
  BY Sizes DEF Limited
<1>1. a \in Nat /\ b \in Nat /\ \A i \in DOMAIN passes : passes[i] \in Nat
  <2>1. a \in Nat
    BY <1>0, Windows
  <2>2. b \in Nat
    BY <2>1, Sizes
  <2>3. QED
    BY <1>0, <2>1, <2>2
<1>2. S \subseteq In(a) \cup In(b)
  <2>1. ASSUME NEW i \in S PROVE WindowOf(passes[i]) \in {a, b}
    BY <1>0, <1>1, TwoWindows, Sizes DEF WindowOf
  <2>2. QED
    BY <2>1 DEF In
<1> HIDE DEF S, a, b
<1>3. \A w : IsFiniteSet(In(w)) /\ Cardinality(In(w)) \in Nat
  BY <1>0, PassesFinite DEF In
<1>4. /\ IsFiniteSet(In(a) \cup In(b)) /\ IsFiniteSet(In(a) \cap In(b))
      /\ Cardinality(In(a) \cup In(b)) = Cardinality(In(a)) + Cardinality(In(b)) - Cardinality(In(a) \cap In(b))
  BY <1>3, FS_Union, FS_Subset
<1>5. Cardinality(In(a) \cap In(b)) \in Nat
  BY <1>4, FS_CardinalityType
<1>6. /\ Cardinality(S) <= Cardinality(In(a) \cup In(b)) /\ Cardinality(S) \in Nat
  BY <1>2, <1>4, FS_Subset, FS_CardinalityType
<1>7. Cardinality(In(a)) <= Limit /\ Cardinality(In(b)) <= Limit /\ Limit \in Nat
  BY <1>1, Sizes DEF Limited
<1>8. Cardinality(S) <= 2 * Limit
  BY <1>3, <1>4, <1>5, <1>6, <1>7
<1>9. QED
  BY <1>8 DEF S

-----------------------------------------------------------------------------
(* The log of the calls *)

CallRow == [pc : {"idle", "check", "answer", "record", "count", "log", "tally", "trim"}, row : ApiRow]

\* What is over the bound is accounted for by what the process has still to prune and by what
\* it no longer knows of.
Logged ==
  /\ call \in [Callers -> CallRow]
  /\ details \in Nat /\ inserts \in Nat /\ missed \in Nat /\ driver \in {"memory", "mysql"}
  /\ LogBounded

LEMMA AtTypes ==
  ASSUME NEW pc \in {"idle", "check", "answer", "record", "count", "log", "tally", "trim"}
  PROVE  At(pc) \in CallRow /\ At(pc).pc = pc
  BY DEF At, NoApi, ApiRow, CallRow

LEMMA NumberTypes == \A p : Number(p) \in Nat /\ Number(p)' \in Nat
<1>1. ASSUME NEW P \in SUBSET Callers PROVE Cardinality(P) \in Nat
  BY Sizes, FS_Subset, FS_CardinalityType
<1>2. QED
  BY <1>1 DEF Number

\* A call that takes a step.
LEMMA NumberMoves ==
  ASSUME call \in [Callers -> CallRow], NEW c \in Callers, NEW n \in CallRow,
         call' = [call EXCEPT ![c] = n], NEW p
  PROVE  /\ call' \in [Callers -> CallRow]
         /\ n.pc = p /\ call[c].pc # p => Number(p)' = Number(p) + 1
         /\ n.pc # p /\ call[c].pc = p => Number(p)' = Number(p) - 1
         /\ (n.pc = p <=> call[c].pc = p) => Number(p)' = Number(p)
<1> DEFINE P == {d \in Callers : call[d].pc = p}
           Q == {d \in Callers : call'[d].pc = p}
<1>1. call' \in [Callers -> CallRow] /\ call'[c] = n /\ \A d \in Callers \ {c} : call'[d] = call[d]
  OBVIOUS
<1>2. /\ n.pc = p /\ call[c].pc # p => c \notin P /\ Q = P \cup {c}
      /\ n.pc # p /\ call[c].pc = p => c \in P /\ Q = P \ {c}
      /\ (n.pc = p <=> call[c].pc = p) => Q = P
  BY <1>1
<1>3. IsFiniteSet(P)
  BY Sizes, FS_Subset
<1>4. Number(p) = Cardinality(P) /\ Number(p)' = Cardinality(Q)
  BY DEF Number
<1> HIDE DEF P, Q
<1>5. /\ c \notin P => Cardinality(P \cup {c}) = Cardinality(P) + 1
      /\ c \in P => Cardinality(P \ {c}) = Cardinality(P) - 1
  BY <1>3, FS_AddElement, FS_RemoveElement
<1>6. QED
  BY <1>1, <1>2, <1>4, <1>5

LEMMA LoggedInit == StorageTypeOK /\ GatewayInit => Logged
<1> SUFFICES ASSUME StorageTypeOK, GatewayInit PROVE Logged
  OBVIOUS
<1>1. call \in [Callers -> CallRow]
  BY AtTypes DEF GatewayInit
<1>2. inserts % PruneEvery \in Nat
  BY Rest, Sizes DEF GatewayInit
<1>3. PruneEvery * Number("trim") \in Nat
  BY NumberTypes, Sizes
<1>4. Waiting \in Nat
  BY <1>2, <1>3, NumberTypes DEF Waiting
<1>5. QED
  BY <1>1, <1>4, Sizes DEF Logged, LogBounded, GatewayInit, StorageTypeOK

\* A piece of a call that has nothing to do with pruning.
LEMMA LogStays ==
  ASSUME Logged, NEW c \in Callers, NEW n \in CallRow, call' = [call EXCEPT ![c] = n],
         call[c].pc \notin {"tally", "trim"}, n.pc \notin {"tally", "trim"},
         UNCHANGED <<driver, details, inserts, missed>>
  PROVE  Logged'
<1>1. /\ call' \in [Callers -> CallRow]
      /\ Number("trim")' = Number("trim") /\ Number("tally")' = Number("tally")
  BY NumberMoves DEF Logged
<1>2. QED
  BY <1>1 DEF Logged, LogBounded, Waiting

LEMMA LogWrites == ASSUME Logged, NEW c \in Callers, CallLog(c), driver' = driver PROVE Logged'
<1>0. /\ call \in [Callers -> CallRow] /\ call[c].pc = "log" /\ inserts' = inserts /\ missed' = missed
      /\ details \in Nat /\ inserts \in Nat /\ missed \in Nat /\ driver \in {"memory", "mysql"}
      /\ LogBounded
  BY DEF CallLog, Logged
<1>1. CASE driver = "memory"
  <2>1. /\ call' = [call EXCEPT ![c] = At("idle")]
        /\ details' = IF details < MaxDetails THEN details + 1 ELSE MaxDetails
    BY <1>1 DEF CallLog
  <2>2. call' \in [Callers -> CallRow]
    BY <1>0, <2>1, AtTypes
  <2>3. details' \in Nat /\ details' <= MaxDetails
    BY <1>0, <2>1, Sizes
  <2>4. QED
    BY <1>0, <1>1, <2>2, <2>3, Sizes DEF Logged, LogBounded
<1>2. CASE driver = "mysql"
  <2>1. call' = [call EXCEPT ![c] = At("tally")] /\ details' = details + 1
    BY <1>2 DEF CallLog
  <2>2. At("tally") \in CallRow /\ At("tally").pc = "tally"
    BY AtTypes
  <2>3. /\ call' \in [Callers -> CallRow]
        /\ Number("trim")' = Number("trim") /\ Number("tally")' = Number("tally") + 1
    BY <1>0, <2>1, <2>2, NumberMoves
  <2>4. Waiting' = Waiting + 1 /\ Waiting \in Nat
    <3>1. PruneEvery * Number("trim") \in Nat /\ inserts % PruneEvery \in Nat
      BY <1>0, Rest, NumberTypes, Sizes
    <3>2. QED
      BY <1>0, <2>3, <3>1, NumberTypes DEF Waiting
  <2>5. QED
    BY <1>0, <1>2, <2>1, <2>3, <2>4, Sizes DEF Logged, LogBounded
<1>3. QED
  BY <1>0, <1>1, <1>2

LEMMA LogTallied == ASSUME Logged, NEW c \in Callers, CallTally(c), driver' = driver PROVE Logged'
<1> DEFINE pc == IF PruneDue THEN "trim" ELSE "idle"
<1>0. /\ call \in [Callers -> CallRow] /\ call[c].pc = "tally" /\ inserts' = inserts + 1
      /\ details' = details /\ missed' = missed /\ call' = [call EXCEPT ![c] = At(pc)]
      /\ details \in Nat /\ inserts \in Nat /\ missed \in Nat /\ driver \in {"memory", "mysql"}
      /\ LogBounded
  BY DEF CallTally, Logged
<1>1. At(pc) \in CallRow /\ At(pc).pc = pc
  BY AtTypes
<1>2. /\ call' \in [Callers -> CallRow]
      /\ Number("tally")' = Number("tally") - 1
      /\ Number("trim")' = IF PruneDue THEN Number("trim") + 1 ELSE Number("trim")
  BY <1>0, <1>1, NumberMoves
<1>3. /\ inserts % PruneEvery \in Nat /\ inserts % PruneEvery < PruneEvery
      /\ (inserts + 1) % PruneEvery \in Nat
      /\ (inserts + 1) % PruneEvery # 0 => (inserts + 1) % PruneEvery = (inserts % PruneEvery) + 1
  <2>1. inserts % PruneEvery \in Nat /\ inserts % PruneEvery < PruneEvery
    BY <1>0, Rest, Sizes
  <2>2. inserts + 1 \in Nat
    BY <1>0
  <2>3. (inserts + 1) % PruneEvery \in Nat
    BY <2>2, Rest, Sizes
  <2>4. (inserts + 1) % PruneEvery # 0 => (inserts + 1) % PruneEvery = (inserts % PruneEvery) + 1
    BY <1>0, NextRest, Sizes
  <2>5. QED
    BY <2>1, <2>3, <2>4
<1>4. PICK k \in Nat, t \in Nat, r \in Nat, s \in Nat :
        /\ k = Number("trim") /\ t = Number("tally")
        /\ r = inserts % PruneEvery /\ s = (inserts + 1) % PruneEvery
  BY <1>3, NumberTypes
<1>5. /\ PruneEvery * k \in Nat /\ PruneEvery * (k + 1) = PruneEvery * k + PruneEvery
  BY Sizes
<1>6. Waiting <= Waiting' /\ Waiting \in Nat /\ Waiting' \in Nat
  <2>1. Waiting = PruneEvery * k + r + t
    BY <1>4 DEF Waiting
  <2>2. CASE PruneDue
    <3>1. s = 0 /\ Waiting' = PruneEvery * (k + 1) + s + (t - 1) /\ t - 1 \in Nat
      BY <1>0, <1>2, <1>4, <2>2, NumberTypes DEF Waiting, PruneDue
    <3>2. QED
      BY <1>3, <1>4, <1>5, <2>1, <3>1, Sizes
  <2>3. CASE ~PruneDue
    <3>1. s = r + 1 /\ Waiting' = PruneEvery * k + s + (t - 1) /\ t - 1 \in Nat
      BY <1>0, <1>2, <1>3, <1>4, <2>3, NumberTypes DEF Waiting, PruneDue
    <3>2. QED
      BY <1>5, <2>1, <3>1
  <2>4. QED
    BY <2>2, <2>3
<1>7. LogBounded'
  <2>1. CASE driver = "memory"
    BY <1>0, <2>1 DEF LogBounded
  <2>2. CASE driver = "mysql"
    <3>1. details <= MaxDetails + (Waiting + missed)
      BY <1>0, <2>2 DEF LogBounded
    <3>2. details <= MaxDetails + (Waiting' + missed)
      <4>1. MaxDetails \in Nat
        BY Sizes
      <4>2. PICK w \in Nat, v \in Nat : w = Waiting /\ v = Waiting'
        BY <1>6
      <4>3. w <= v /\ details <= MaxDetails + (w + missed)
        BY <1>6, <3>1, <4>2
      <4>4. details <= MaxDetails + (v + missed)
        BY <1>0, <4>1, <4>3
      <4>5. QED
        BY <4>2, <4>4
    <3>3. QED
      BY <1>0, <2>2, <3>2 DEF LogBounded
  <2>3. QED
    BY <1>0, <2>1, <2>2
<1>8. QED
  BY <1>0, <1>2, <1>7 DEF Logged

LEMMA LogPruned == ASSUME Logged, NEW c \in Callers, CallTrim(c), driver' = driver PROVE Logged'
<1>1. /\ inserts' = inserts /\ missed' = 0 /\ details' \in Nat /\ details' <= MaxDetails
      /\ call' = [call EXCEPT ![c] = At("idle")] /\ inserts \in Nat /\ driver \in {"memory", "mysql"}
  BY Sizes DEF CallTrim, Logged
<1>2. call' \in [Callers -> CallRow]
  BY <1>1, AtTypes DEF Logged
<1>3. Waiting' \in Nat
  <2>1. inserts' % PruneEvery \in Nat
    BY <1>1, Rest, Sizes
  <2>2. PruneEvery * (Number("trim")') \in Nat
    BY NumberTypes, Sizes
  <2>3. QED
    BY <2>1, <2>2, NumberTypes DEF Waiting
<1>4. LogBounded'
  <2>1. CASE driver = "memory"
    BY <1>1, <2>1, Sizes DEF LogBounded
  <2>2. CASE driver = "mysql"
    <3>1. details' <= MaxDetails + (Waiting' + missed')
      <4>1. MaxDetails \in Nat
        BY Sizes
      <4>2. PICK v \in Nat : v = Waiting'
        BY <1>3
      <4>3. details' <= MaxDetails + (v + missed')
        BY <1>1, <4>1
      <4>4. QED
        BY <4>2, <4>3
    <3>2. QED
      BY <2>2, <3>1 DEF LogBounded
  <2>3. QED
    BY <1>1, <2>1, <2>2
<1>5. QED
  BY <1>1, <1>2, <1>4 DEF Logged

LEMMA LogFailed == ASSUME Logged, NEW c \in Callers, CallLogFails(c), driver' = driver PROVE Logged'
<1>0. /\ call \in [Callers -> CallRow] /\ call[c].pc \in {"log", "tally", "trim"} /\ inserts' = inserts
      /\ details' = details /\ call' = [call EXCEPT ![c] = At("idle")]
      /\ details \in Nat /\ inserts \in Nat /\ missed \in Nat /\ driver = "mysql"
      /\ LogBounded
  BY DEF CallLogFails, Logged
<1>1. missed' = missed + CASE call[c].pc = "log" -> 0 [] call[c].pc = "tally" -> 1
                           [] call[c].pc = "trim" -> PruneEvery
  BY DEF CallLogFails
<1>2. At("idle") \in CallRow /\ At("idle").pc = "idle"
  BY AtTypes
<1>3. /\ call' \in [Callers -> CallRow]
      /\ Number("tally")' = IF call[c].pc = "tally" THEN Number("tally") - 1 ELSE Number("tally")
      /\ Number("trim")' = IF call[c].pc = "trim" THEN Number("trim") - 1 ELSE Number("trim")
  BY <1>0, <1>2, NumberMoves
<1>4. PICK k \in Nat, t \in Nat, r \in Nat :
        k = Number("trim") /\ t = Number("tally") /\ r = inserts % PruneEvery
  BY <1>0, NumberTypes, Rest, Sizes
<1>5. PruneEvery * k \in Nat /\ PruneEvery * (k - 1) = PruneEvery * k - PruneEvery
  BY Sizes
<1>6. Waiting + missed = Waiting' + missed' /\ missed' \in Nat /\ Waiting \in Nat /\ Waiting' \in Int
  <2>1. Waiting = PruneEvery * k + r + t
    BY <1>4 DEF Waiting
  <2>2. CASE call[c].pc = "log"
    <3>1. Waiting' = PruneEvery * k + r + t /\ missed' = missed
      BY <1>0, <1>1, <1>3, <1>4, <2>2 DEF Waiting
    <3>2. QED
      BY <1>0, <1>5, <2>1, <3>1
  <2>3. CASE call[c].pc = "tally"
    <3>1. Waiting' = PruneEvery * k + r + (t - 1) /\ missed' = missed + 1
      BY <1>0, <1>1, <1>3, <1>4, <2>3 DEF Waiting
    <3>2. QED
      BY <1>0, <1>5, <2>1, <3>1
  <2>4. CASE call[c].pc = "trim"
    <3>1. Waiting' = PruneEvery * (k - 1) + r + t /\ missed' = missed + PruneEvery
      BY <1>0, <1>1, <1>3, <1>4, <2>4 DEF Waiting
    <3>2. QED
      BY <1>0, <1>5, <2>1, <3>1, Sizes
  <2>5. QED
    BY <1>0, <2>2, <2>3, <2>4
<1>7. QED
  BY <1>0, <1>3, <1>6, Sizes DEF Logged, LogBounded

LEMMA LogRestarted == ASSUME Logged, GatewayRestart, driver' = driver PROVE Logged'
<1>1. /\ details' = details /\ inserts' = 0 /\ missed' = missed + Waiting /\ driver = "mysql"
      /\ call' = [c \in Callers |-> At("idle")]
      /\ details \in Nat /\ inserts \in Nat /\ missed \in Nat /\ LogBounded
  BY DEF GatewayRestart, Logged
<1>2. call' \in [Callers -> CallRow]
  BY <1>1, AtTypes
<1>3. PruneEvery * Number("trim") \in Nat /\ inserts % PruneEvery \in Nat
      /\ PruneEvery * (Number("trim")') \in Nat /\ 0 % PruneEvery \in Nat
  BY <1>1, Rest, NumberTypes, Sizes
<1>4. Waiting \in Nat /\ Waiting' \in Nat
  BY <1>1, <1>3, NumberTypes DEF Waiting
<1>5. LogBounded'
  <2>1. details <= MaxDetails + (Waiting + missed)
    BY <1>1 DEF LogBounded
  <2>2. details' <= MaxDetails + (Waiting' + missed')
    <3>1. MaxDetails \in Nat
      BY Sizes
    <3>2. PICK w \in Nat, v \in Nat : w = Waiting /\ v = Waiting'
      BY <1>4
    <3>3. details <= MaxDetails + (w + missed) /\ missed' = missed + w
      BY <1>1, <2>1, <3>2
    <3>4. details' <= MaxDetails + (v + missed')
      BY <1>1, <3>1, <3>3
    <3>5. QED
      BY <3>2, <3>4
  <2>3. QED
    BY <1>1, <2>2 DEF LogBounded
<1>6. missed' \in Nat
  BY <1>1, <1>4
<1>7. QED
  BY <1>1, <1>2, <1>5, <1>6 DEF Logged

LEMMA LoggedNext ==
  CountInv /\ Logged /\ [GatewayNext /\ UNCHANGED driver]_<<driver, gatewayVars>> => Logged'
<1> SUFFICES ASSUME CountInv, Logged, [GatewayNext /\ UNCHANGED driver]_<<driver, gatewayVars>>
             PROVE  Logged'
  OBVIOUS
<1>1. ASSUME UNCHANGED <<driver, call, details, inserts, missed>> PROVE Logged'
  BY <1>1 DEF Logged, LogBounded, Waiting, Number
<1>2. driver' = driver
  OBVIOUS
<1>3. ASSUME NEW e \in Editors, (\E do \in Edits : EditRead(e, do)) \/ EditLoad(e) \/ EditSave(e)
      PROVE  Logged'
  BY <1>1, <1>2, <1>3 DEF EditRead, EditLoad, EditSave, logVars
<1>4. ASSUME NEW c \in Callers,
             \/ \E mayCall \in BOOLEAN : CallCheck(c, mayCall)
             \/ CallFind(c) \/ CallAnswer(c) \/ CallRecord(c) \/ CallCount(c)
      PROVE  Logged'
  <2>1. /\ api \in ApiRow /\ UNCHANGED <<driver, details, inserts, missed>>
        /\ call[c].pc \notin {"tally", "trim"}
    BY <1>2, <1>4 DEF CallCheck, CallFind, CallAnswer, CallRecord, CallCount, CountInv, ApiShape, logVars
  <2>2. PICK n : /\ call' = [call EXCEPT ![c] = n]
                 /\ \/ n \in {At("answer"), At("record"), At("log")}
                    \/ n \in {[pc |-> "check", row |-> api], [pc |-> "count", row |-> api]}
    BY <1>4 DEF CallCheck, CallFind, CallAnswer, CallRecord, CallCount
  <2>3. n \in CallRow /\ n.pc \notin {"tally", "trim"}
    <3>1. CASE n \in {At("answer"), At("record"), At("log")}
      BY <3>1, AtTypes
    <3>2. CASE n \in {[pc |-> "check", row |-> api], [pc |-> "count", row |-> api]}
      BY <2>1, <3>2 DEF CallRow
    <3>3. QED
      BY <2>2, <3>1, <3>2
  <2>4. QED
    BY <2>1, <2>2, <2>3, LogStays
<1>5. ASSUME NEW c \in Callers, CallLog(c) \/ CallTally(c) \/ CallTrim(c) \/ CallLogFails(c) PROVE Logged'
  BY <1>2, <1>5, LogWrites, LogTallied, LogPruned, LogFailed
<1>6. CASE GatewayClock \/ UNCHANGED <<driver, gatewayVars>>
  BY <1>1, <1>2, <1>6 DEF GatewayClock, gatewayVars, logVars
<1>7. CASE GatewayRestart
  BY <1>2, <1>7, LogRestarted
<1>8. QED
  BY <1>3, <1>4, <1>5, <1>6, <1>7 DEF GatewayNext

\* GatewayBounded (rateWindow.js; dataapi.store.js addCall, and the ring of the memory
\* driver): in any stretch as long as a window at most twice the limit is let through, and the
\* log holds at most the rows it is cut back to, those the process is still to have pruned and
\* those that restarts and failed writes have left to the next DELETE, however the calls and
\* the edits overlap.
THEOREM GatewayBoundedHolds == GatewaySpec => []GatewayBounded
<1>1. Limited /\ Logged => GatewayBounded
  BY LimitedBounds DEF GatewayBounded, Logged
<1>2. QED
  BY CountBegins, CountGoes, LimitedInit, LimitedNext, LoggedInit, LoggedNext, <1>1, PTL DEF GatewaySpec

-----------------------------------------------------------------------------
(* The scheduler: one scan at a time, and no record started twice for one occasion. *)

-----------------------------------------------------------------------------
(* The inductive invariant *)

\* The flag keeps all scans but one out.
OneScan == \A c, d \in Scanning : c = d

\* No trigger is later than the one lastTriggerAt knows of ...
LastKnown == \A t \in triggered : t[3] <= lastTriggerAt[t[2]]

\* ... and nothing triggers the record between the two looks of a scan.
StillElapsed ==
  \A c \in Scans : scan[c].pc = "query" => scan[c].on \in Runnables /\ Elapsed(c, scan[c].on)

ScanInv == SchedulerTypeOK /\ FlagHonest /\ OneScan /\ LastKnown /\ StillElapsed /\ TriggersSpaced

-----------------------------------------------------------------------------
(* The scans *)

LEMMA NoScanTyped == NoScan \in Scan
  BY SchedulerAssumption DEF NoScan, Scan

LEMMA ScanInvInit == SchedulerInit => ScanInv
<1> SUFFICES ASSUME SchedulerInit PROVE ScanInv
  OBVIOUS
<1>1. SchedulerTypeOK
  <2>1. scan \in [Scans -> Scan] /\ scanning \in BOOLEAN
    BY NoScanTyped DEF SchedulerInit
  <2>2. lastTriggerAt \in [Records -> {LongAgo} \cup 0 .. MaxTime] /\ clock \in 0 .. MaxTime
    BY SchedulerAssumption DEF SchedulerInit
  <2>3. QED
    BY <2>1, <2>2 DEF SchedulerInit, SchedulerTypeOK
<1>2. Scanning = {}
  BY DEF SchedulerInit, Scanning, NoScan
<1>3. QED
  BY <1>1, <1>2 DEF SchedulerInit, ScanInv, FlagHonest, OneScan, LastKnown, StillElapsed,
                    TriggersSpaced, NoScan

\* Triggers added to those there are: all of one scan's time, each of a record that has
\* not been triggered for as long as Gap.
LEMMA TriggerAdded ==
  ASSUME SchedulerTypeOK, LastKnown, TriggersSpaced, NEW c \in Scans, NEW free \in SUBSET Records,
         \A r \in free : Elapsed(c, r),
         triggered' = triggered \cup {<<c, r, scan[c].at>> : r \in free},
         lastTriggerAt' = [r \in Records |-> IF r \in free THEN scan[c].at ELSE lastTriggerAt[r]]
  PROVE  TriggersSpaced' /\ LastKnown'
<1> DEFINE at == scan[c].at
<1>0. at \in 0 .. MaxTime /\ MaxTime \in Nat /\ Gap \in Nat
  BY SchedulerAssumption DEF SchedulerTypeOK, Scan
<1>1. ASSUME NEW t \in triggered, NEW r \in free, t[2] = r
      PROVE  at - t[3] >= Gap /\ t[3] \in 0 .. MaxTime
  <2>1. t[3] \in 0 .. MaxTime /\ t[3] <= lastTriggerAt[r]
    BY <1>1 DEF SchedulerTypeOK, LastKnown
  <2>2. lastTriggerAt[r] \in Int
    BY SchedulerAssumption DEF SchedulerTypeOK, LongAgo
  <2>3. at - lastTriggerAt[r] >= Gap
    BY DEF Elapsed
  <2> HIDE DEF at
  <2>4. QED
    BY <1>0, <2>1, <2>2, <2>3
<1>2. TriggersSpaced'
  <2> SUFFICES ASSUME NEW t \in triggered', NEW u \in triggered', t # u, t[2] = u[2]
               PROVE  t[3] - u[3] >= Gap \/ u[3] - t[3] >= Gap
    BY DEF TriggersSpaced
  <2>1. CASE t \in triggered /\ u \in triggered
    BY <2>1 DEF TriggersSpaced
  <2>2. CASE t \in triggered /\ u \notin triggered
    <3>1. PICK r \in free : u = <<c, r, at>>
      BY <2>2
    <3>2. QED
      BY <1>1, <2>2, <3>1
  <2>3. CASE t \notin triggered /\ u \in triggered
    <3>1. PICK r \in free : t = <<c, r, at>>
      BY <2>3
    <3>2. QED
      BY <1>1, <2>3, <3>1
  <2>4. CASE t \notin triggered /\ u \notin triggered
    BY <2>4
  <2>5. QED
    BY <2>1, <2>2, <2>3, <2>4
<1>3. LastKnown'
  <2> SUFFICES ASSUME NEW t \in triggered' PROVE t[3] <= lastTriggerAt'[t[2]]
    BY DEF LastKnown
  <2>1. CASE t \notin triggered
    BY <1>0, <2>1
  <2>2. CASE t \in triggered /\ t[2] \in free
    <3>1. at - t[3] >= Gap /\ t[3] \in 0 .. MaxTime /\ lastTriggerAt'[t[2]] = at
      BY <1>1, <2>2
    <3>2. QED
      BY <1>0, <3>1
  <2>3. CASE t \in triggered /\ t[2] \notin free
    BY <2>3 DEF LastKnown, SchedulerTypeOK
  <2>4. QED
    BY <2>1, <2>2, <2>3
<1>4. QED
  BY <1>2, <1>3

\* What the scan's own steps do to the set of scans that are under way.
LEMMA ScanContinues ==
  ASSUME SchedulerTypeOK, FlagHonest, OneScan, NEW c \in Scans, NEW n \in Scan,
         scan[c].pc # "idle", n.pc # "idle", scan' = [scan EXCEPT ![c] = n], scanning' = scanning
  PROVE  FlagHonest' /\ OneScan' /\ scan' \in [Scans -> Scan]
<1>1. Scanning' = Scanning
  BY DEF Scanning, SchedulerTypeOK
<1>2. QED
  BY <1>1 DEF FlagHonest, OneScan, SchedulerTypeOK

LEMMA ScanStops ==
  ASSUME SchedulerTypeOK, OneScan, NEW c \in Scans, scan[c].pc # "idle",
         scan' = [scan EXCEPT ![c] = NoScan], scanning' = FALSE
  PROVE  FlagHonest' /\ OneScan' /\ scan' \in [Scans -> Scan] /\ \A d \in Scans : scan'[d].pc = "idle"
<1>1. \A d \in Scans : scan'[d].pc = "idle"
  BY DEF SchedulerTypeOK, OneScan, Scanning, NoScan
<1>2. Scanning' = {}
  BY <1>1 DEF Scanning
<1>3. QED
  BY <1>1, <1>2, NoScanTyped DEF FlagHonest, OneScan, SchedulerTypeOK

LEMMA ScanInvNext == ScanInv /\ SchedulerNext => ScanInv'
<1> SUFFICES ASSUME ScanInv, SchedulerNext PROVE ScanInv'
  OBVIOUS
<1> USE DEF ScanInv
<1>1. ASSUME NEW c \in Scans, ScanBegins(c) PROVE ScanInv'
  <2>1. scan' \in [Scans -> Scan] /\ scan'[c].pc = "list" /\ \A d \in Scans \ {c} : scan'[d] = scan[d]
    BY <1>1 DEF ScanBegins, SchedulerTypeOK, Scan
  <2>2. Scanning = {}
    BY <1>1 DEF ScanBegins, ScanMayBegin, FlagHonest, SchedulerTypeOK
  <2>3. Scanning' = {c}
    BY <2>1, <2>2 DEF Scanning
  <2>4. FlagHonest' /\ OneScan' /\ SchedulerTypeOK'
    BY <1>1, <2>1, <2>3 DEF ScanBegins, FlagHonest, OneScan, SchedulerTypeOK
  <2>5. StillElapsed'
    BY <1>1, <2>1, <2>2 DEF StillElapsed, Scanning
  <2>6. LastKnown' /\ TriggersSpaced'
    BY <1>1 DEF ScanBegins, LastKnown, TriggersSpaced
  <2>7. QED
    BY <2>4, <2>5, <2>6
<1>2. ASSUME NEW c \in Scans, NEW due \in SUBSET Records, ScanLists(c, due) PROVE ScanInv'
  <2> DEFINE n == [scan[c] EXCEPT !.pc = "next", !.todo = due, !.busy = runs]
  <2>1. n \in Scan /\ n.pc = "next"
    BY DEF Scan, SchedulerTypeOK
  <2> HIDE DEF n
  <2>2. scan' = [scan EXCEPT ![c] = n] /\ scan[c].pc # "idle"
    BY <1>2 DEF ScanLists, n
  <2>3. FlagHonest' /\ OneScan' /\ scan' \in [Scans -> Scan]
    BY <1>2, <2>1, <2>2, ScanContinues DEF ScanLists
  <2>4. QED
    BY <1>2, <2>1, <2>2, <2>3
    DEF ScanLists, SchedulerTypeOK, LastKnown, StillElapsed, Elapsed, TriggersSpaced
<1>3. ASSUME NEW c \in Scans, NEW r \in Runnables, ScanNext(c, r) PROVE ScanInv'
  <2> DEFINE n == IF Elapsed(c, r) THEN [scan[c] EXCEPT !.pc = "query", !.on = r]
                  ELSE [scan[c] EXCEPT !.todo = @ \ {r}]
  <2>1. /\ n \in Scan /\ n.pc # "idle" /\ n.at = scan[c].at
        /\ n.pc = "query" => n.on = r /\ Elapsed(c, r)
    BY <1>3 DEF Scan, SchedulerTypeOK, Records, ScanNext
  <2> HIDE DEF n
  <2>2. scan' = [scan EXCEPT ![c] = n] /\ scan[c].pc # "idle"
    BY <1>3 DEF ScanNext, n
  <2>3. FlagHonest' /\ OneScan' /\ scan' \in [Scans -> Scan]
    BY <1>3, <2>1, <2>2, ScanContinues DEF ScanNext
  <2>4. QED
    BY <1>3, <2>1, <2>2, <2>3
    DEF ScanNext, SchedulerTypeOK, LastKnown, StillElapsed, Elapsed, TriggersSpaced
<1>4. ASSUME NEW c \in Scans, ScanDecides(c) PROVE ScanInv'
  <2> DEFINE r == scan[c].on
             n == [scan[c] EXCEPT !.pc = "next", !.todo = @ \ {r}, !.on = Nothing]
  <2>1. n \in Scan /\ n.pc = "next" /\ n.at = scan[c].at
    BY DEF Scan, SchedulerTypeOK
  <2>2. scan' = [scan EXCEPT ![c] = n] /\ scan[c].pc = "query"
    BY <1>4 DEF ScanDecides
  <2> HIDE DEF n
  <2>3. FlagHonest' /\ OneScan' /\ scan' \in [Scans -> Scan]
    BY <1>4, <2>1, <2>2, ScanContinues DEF ScanDecides
  <2>4. r \in Records /\ Elapsed(c, r)
    BY <2>2 DEF StillElapsed, Records
  <2>5. StillElapsed'
    <3>1. \A d \in Scans \ {c} : scan[d].pc = "idle"
      BY <2>2 DEF OneScan, Scanning
    <3>2. \A d \in Scans : scan'[d].pc # "query"
      BY <2>1, <2>2, <3>1 DEF SchedulerTypeOK
    <3>3. QED
      BY <3>2 DEF StillElapsed
  <2>6. CASE UNCHANGED <<lastTriggerAt, starts, triggered>>
    BY <1>4, <2>3, <2>5, <2>6 DEF ScanDecides, SchedulerTypeOK, LastKnown, TriggersSpaced
  <2>7. CASE /\ lastTriggerAt' = [lastTriggerAt EXCEPT ![r] = scan[c].at]
             /\ starts' = starts \cup {r} /\ triggered' = triggered \cup {<<c, r, scan[c].at>>}
    <3>1. lastTriggerAt' = [x \in Records |-> IF x \in {r} THEN scan[c].at ELSE lastTriggerAt[x]]
      BY <2>7 DEF SchedulerTypeOK
    <3>2. triggered' = triggered \cup {<<c, x, scan[c].at>> : x \in {r}}
      BY <2>7
    <3>3. TriggersSpaced' /\ LastKnown'
      <4>1. {r} \in SUBSET Records /\ \A x \in {r} : Elapsed(c, x)
        BY <2>4
      <4> HIDE DEF r
      <4>2. QED
        BY <3>1, <3>2, <4>1, TriggerAdded
    <3>4. scan[c].at \in 0 .. MaxTime
      BY DEF SchedulerTypeOK, Scan
    <3>5. SchedulerTypeOK'
      BY <1>4, <2>3, <2>4, <2>7, <3>4 DEF ScanDecides, SchedulerTypeOK
    <3>6. QED
      BY <2>3, <2>5, <3>3, <3>5
  <2>8. QED
    BY <1>4, <2>6, <2>7 DEF ScanDecides, Trigger
<1>5. ASSUME NEW c \in Scans, ScanMetrics(c) PROVE ScanInv'
  <2> DEFINE n == [scan[c] EXCEPT !.pc = "metrics", !.busy = runs]
  <2>1. n \in Scan /\ n.pc = "metrics"
    BY DEF Scan, SchedulerTypeOK
  <2> HIDE DEF n
  <2>2. scan' = [scan EXCEPT ![c] = n] /\ scan[c].pc # "idle"
    BY <1>5 DEF ScanMetrics, n
  <2>3. FlagHonest' /\ OneScan' /\ scan' \in [Scans -> Scan]
    BY <1>5, <2>1, <2>2, ScanContinues DEF ScanMetrics
  <2>4. QED
    BY <1>5, <2>1, <2>2, <2>3
    DEF ScanMetrics, SchedulerTypeOK, LastKnown, StillElapsed, Elapsed, TriggersSpaced
<1>6. ASSUME NEW c \in Scans, ScanEnds(c) PROVE ScanInv'
  <2> DEFINE free == {r \in scan[c].todo \ scan[c].busy : Elapsed(c, r)}
  <2>1. free \in SUBSET Records /\ scan[c].at \in 0 .. MaxTime
    BY DEF SchedulerTypeOK, Scan
  <2>2. \A r \in free : Elapsed(c, r)
    OBVIOUS
  <2>3. /\ lastTriggerAt' = [r \in Records |-> IF r \in free THEN scan[c].at ELSE lastTriggerAt[r]]
        /\ triggered' = triggered \cup {<<c, r, scan[c].at>> : r \in free}
        /\ starts' = starts \cup free
    BY <1>6 DEF ScanEnds
  <2> HIDE DEF free
  <2>4. TriggersSpaced' /\ LastKnown'
    BY <2>1, <2>2, <2>3, TriggerAdded
  <2>5. FlagHonest' /\ OneScan' /\ scan' \in [Scans -> Scan] /\ \A d \in Scans : scan'[d].pc = "idle"
    BY <1>6, ScanStops DEF ScanEnds
  <2>6. SchedulerTypeOK'
    <3>1. triggered' \in SUBSET (Scans \X Records \X (0 .. MaxTime))
      BY <2>1, <2>3 DEF SchedulerTypeOK
    <3>2. lastTriggerAt' \in [Records -> {LongAgo} \cup 0 .. MaxTime] /\ starts' \in SUBSET Records
      BY <2>1, <2>3 DEF SchedulerTypeOK
    <3>3. QED
      BY <1>6, <2>5, <3>1, <3>2 DEF ScanEnds, SchedulerTypeOK
  <2>7. QED
    BY <2>4, <2>5, <2>6 DEF StillElapsed
<1>7. ASSUME NEW c \in Scans, ScanFails(c) PROVE ScanInv'
  <2>1. FlagHonest' /\ OneScan' /\ scan' \in [Scans -> Scan] /\ \A d \in Scans : scan'[d].pc = "idle"
    BY <1>7, ScanStops DEF ScanFails
  <2>2. QED
    BY <1>7, <2>1 DEF ScanFails, SchedulerTypeOK, LastKnown, StillElapsed, TriggersSpaced
<1>8. ASSUME NEW r \in Records, StartOver(r) \/ RunChanges(r) PROVE ScanInv'
  BY <1>8 DEF StartOver, RunChanges, SchedulerTypeOK, FlagHonest, OneScan, Scanning, LastKnown,
              StillElapsed, Elapsed, TriggersSpaced
<1>9. CASE Tick
  BY <1>9, SchedulerAssumption DEF Tick, SchedulerTypeOK, FlagHonest, OneScan, Scanning, LastKnown,
              StillElapsed, Elapsed, TriggersSpaced
<1>10. CASE SchedulerRestart
  <2>1. Scanning' = {}
    BY <1>10 DEF SchedulerRestart, Scanning, NoScan
  <2>2. SchedulerTypeOK'
    BY <1>10, NoScanTyped DEF SchedulerRestart, SchedulerTypeOK
  <2>3. QED
    BY <1>10, <2>1, <2>2 DEF SchedulerRestart, FlagHonest, OneScan, LastKnown, StillElapsed,
                             TriggersSpaced, NoScan
<1>11. QED
  BY <1>1, <1>2, <1>3, <1>4, <1>5, <1>6, <1>7, <1>8, <1>9, <1>10 DEF SchedulerNext

LEMMA ScanHolds == SchedulerSpec => []ScanInv
<1>1. ScanInv /\ UNCHANGED schedulerVars => ScanInv'
  BY DEF ScanInv, schedulerVars, SchedulerTypeOK, FlagHonest, OneScan, Scanning, LastKnown,
         StillElapsed, Elapsed, TriggersSpaced
<1>2. ScanInv /\ [SchedulerNext /\ UNCHANGED driver]_<<driver, schedulerVars>> => ScanInv'
  BY <1>1, ScanInvNext
<1>3. QED
  BY ScanInvInit, <1>2, PTL DEF SchedulerSpec

\* FlagHonest (startScheduler in scheduler.service.js): the flag is set exactly while a scan
\* is under way, also after scans that fail, however many overlap the timer.
THEOREM FlagHonestHolds == SchedulerSpec => []FlagHonest
  BY ScanHolds, PTL DEF ScanInv

\* TriggersSpaced (scanOnce): two triggers of a record are at least MIN_TRIGGER_GAP_MS apart,
\* although the scan looks at the last trigger before a query and triggers after it.
THEOREM TriggersSpacedHolds == SchedulerSpec => []TriggersSpaced
  BY ScanHolds, PTL DEF ScanInv
=============================================================================
