--------------------------- MODULE DataApiGateway ---------------------------
(***************************************************************************)
(* A published query (data API): its definition as editors change it       *)
(* (dataapi.service) and the calls the gateway serves (dataApiRuntime):    *)
(* found, checked, limited, answered and counted.  A change reads the row, *)
(* and repository.update reads it again and writes all of it, counters     *)
(* included.  The limiter's bucket and the count of logged calls live in   *)
(* the process: with MySQL a restart keeps the row and the log and loses   *)
(* those (with the memory driver it loses everything, and begins anew).    *)
(***************************************************************************)
EXTENDS Storage, Naturals, FiniteSets, Sequences

CONSTANTS
  Editors,      \* requests of the administration in progress at once
  Callers,      \* calls in progress at once
  Limit,        \* rateLimitQps
  WindowTicks,  \* ticks of the clock in a window of the limiter
  MaxDetails,   \* MAX_CALL_DETAILS
  PruneEvery,   \* PRUNE_EVERY
  MaxTick,      \* bound: the clock
  MaxApiKeys,   \* bound: keys ever generated
  MaxCalls,     \* bound: calls ever received
  MaxMishaps    \* bound: restarts and failed writes of the log

ASSUME GatewayAssumption ==
  /\ {Limit, WindowTicks, MaxDetails, PruneEvery, MaxTick} \subseteq Nat \ {0}
  /\ {MaxApiKeys, MaxCalls, MaxMishaps} \subseteq Nat /\ IsFiniteSet(Callers)

VARIABLES
  api,       \* the row of the data API
  edit,      \* the requests of the administration
  call,      \* the calls
  tick,      \* the clock
  bucket,    \* the limiter's bucket: window and count, none at first and after a reset
  details,   \* rows of the call log
  inserts,   \* callInserts: rows this process knows it has logged
  passes,    \* the times of the calls let through since the bucket was last reset (history)
  missed,    \* rows that restarts and failed writes have left to the next DELETE (history)
  mishaps,   \* restarts and failed writes of the log (history)
  served,    \* calls that went through serve, counted when they were recorded (history)
  received,  \* calls received (history)
  keyCount,  \* keys generated
  clash      \* has a row been written that was changed since it was read? (history)

logVars     == <<details, inserts, missed, mishaps>>
gatewayVars == <<api, edit, call, tick, bucket, logVars, passes, served, received, keyCount, clash>>

Api == [status : {"draft", "published", "absent"}, key : 0 .. MaxApiKeys, count : 0 .. MaxCalls]

Edits == {"publish", "unpublish", "change", "delete"}

Edit == [pc : {"idle", "load", "save"}, do : Edits, key : 0 .. MaxApiKeys, row : Api]
Call == [pc : {"idle", "check", "answer", "record", "count", "log", "tally", "trim"}, row : Api]

NoApi  == [status |-> "absent", key |-> 0, count |-> 0]
NoEdit == [pc |-> "idle", do |-> "change", key |-> 0, row |-> NoApi]
At(pc) == [pc |-> pc, row |-> NoApi]  \* a call that has no use for a row

GatewayTypeOK ==
  /\ api \in Api /\ edit \in [Editors -> Edit] /\ call \in [Callers -> Call]
  /\ tick \in 0 .. MaxTick
  /\ bucket = <<>> \/ bucket \in [window : 0 .. MaxTick, count : 1 .. Limit]
  /\ details \in 0 .. MaxCalls /\ inserts \in 0 .. MaxCalls
  /\ missed \in 0 .. (PruneEvery + 1) * (Cardinality(Callers) + 1) * MaxMishaps
  /\ mishaps \in 0 .. MaxMishaps
  /\ passes \in Seq(0 .. MaxTick) /\ Len(passes) <= MaxCalls
  /\ served \in 0 .. MaxCalls /\ received \in 0 .. MaxCalls
  /\ keyCount \in 0 .. MaxApiKeys /\ clash \in BOOLEAN

GatewayInit ==
  /\ api = [NoApi EXCEPT !.status = "draft"]
  /\ edit = [e \in Editors |-> NoEdit] /\ call = [c \in Callers |-> At("idle")]
  /\ tick = 0 /\ bucket = <<>> /\ details = 0 /\ inserts = 0 /\ missed = 0 /\ mishaps = 0
  /\ passes = <<>> /\ served = 0 /\ received = 0 /\ keyCount = 0 /\ clash = FALSE

-----------------------------------------------------------------------------

Midway == {e \in Editors : edit[e].pc # "idle"} \cup
          {c \in Callers : call[c].pc \notin {"idle", "answer"}}  \* a downstream system answers
MayRun(x) == TurnOf(x, Midway)

(* The administration *)

\* getOrThrow and the checks of the definition; the key of a publication is chosen now, kept
\* if there is one; taking an API off the air resets its bucket first.
EditRead(e, do) ==
  /\ edit[e].pc = "idle" /\ MayRun(e) /\ api.status # "absent" /\ ~clash
  /\ LET fresh == do = "publish" /\ api.key = 0
     IN /\ fresh => keyCount < MaxApiKeys
        /\ keyCount' = IF fresh THEN keyCount + 1 ELSE keyCount
        /\ edit' = [edit EXCEPT ![e] = [@ EXCEPT !.pc = "load", !.do = do,
                                                 !.key = IF fresh THEN keyCount' ELSE api.key]]
  /\ IF do = "unpublish" THEN bucket' = <<>> /\ passes' = <<>> ELSE UNCHANGED <<bucket, passes>>
  /\ UNCHANGED <<api, call, tick, logVars, served, received, clash>>

\* repository.update and repository.delete read the row again.
EditLoad(e) ==
  /\ edit[e].pc = "load" /\ MayRun(e)
  /\ edit' = IF api.status = "absent" THEN [edit EXCEPT ![e] = NoEdit]
             ELSE [edit EXCEPT ![e] = [@ EXCEPT !.pc = "save", !.row = api]]
  /\ UNCHANGED <<api, call, tick, bucket, logVars, passes, served, received, keyCount, clash>>

Edited(q) ==
  CASE q.do = "publish"   -> [q.row EXCEPT !.status = "published", !.key = q.key]
    [] q.do = "unpublish" -> [q.row EXCEPT !.status = "draft"]
    [] q.do = "change"    -> q.row  \* of the fields here it changes none, but it writes them
    [] q.do = "delete"    -> NoApi

\* The whole row, or its deletion (the bucket of a deleted API is dropped).
EditSave(e) ==
  LET q == edit[e]
      gone == q.do = "delete"
  IN /\ q.pc = "save" /\ MayRun(e)
     /\ api' = Edited(q)
     /\ edit' = [edit EXCEPT ![e] = NoEdit]
     /\ bucket' = IF gone THEN <<>> ELSE bucket
     /\ passes' = IF gone THEN <<>> ELSE passes
     /\ served' = IF gone THEN 0 ELSE served
     /\ clash' = (clash \/ api # q.row)
     /\ UNCHANGED <<call, tick, logVars, received, keyCount>>

(* The gateway *)

\* invokeByPath: the row as findByPath returns it.
CallFind(c) ==
  /\ call[c].pc = "idle" /\ MayRun(c) /\ received < MaxCalls /\ received' = received + 1
  /\ api.status # "absent"
  /\ call' = [call EXCEPT ![c] = [pc |-> "check", row |-> api]]
  /\ UNCHANGED <<api, edit, tick, bucket, logVars, passes, served, keyCount, clash>>

WindowOf(t) == (t \div WindowTicks) * WindowTicks
NewWindow   == bucket = <<>> \/ bucket.window # WindowOf(tick)

\* Faulty variant: one call too many.
RateAllows_OneMore == NewWindow \/ bucket.count <= Limit

\* check: the first call of a window, or the bucket of the window is not full.
RateAllows == NewWindow \/ bucket.count < Limit

RateTake == bucket' = IF NewWindow THEN [window |-> WindowOf(tick), count |-> 1]
                      ELSE [bucket EXCEPT !.count = @ + 1]

\* An unpublished API answers 404 and counts nothing.  assertAccessible: key and address are
\* good (mayCall) or not, then the limit, without a pause between looking and taking;
\* refusals are counted as calls.
CallCheck(c, mayCall) ==
  LET q == call[c]
      allowed == q.row.status = "published" /\ mayCall /\ RateAllows
      next == CASE q.row.status # "published" -> "log" [] allowed -> "answer" [] OTHER -> "record"
  IN /\ q.pc = "check" /\ MayRun(c)
     /\ call' = [call EXCEPT ![c] = At(next)]
     /\ IF allowed THEN RateTake /\ passes' = Append(passes, tick) ELSE UNCHANGED <<bucket, passes>>
     /\ UNCHANGED <<api, edit, tick, logVars, served, received, keyCount, clash>>

\* buildResult or forwardRequest: an answer, an error or a timeout, once (`settled`).
CallAnswer(c) ==
  /\ call[c].pc = "answer" /\ MayRun(c)
  /\ call' = [call EXCEPT ![c] = At("record")]
  /\ UNCHANGED <<api, edit, tick, bucket, logVars, passes, served, received, keyCount, clash>>

\* recordCall counts nothing for an API that has been deleted ...
CallRecord(c) ==
  /\ call[c].pc = "record" /\ MayRun(c)
  /\ call' = [call EXCEPT ![c] = IF api.status = "absent" THEN At("log")
                                 ELSE [pc |-> "count", row |-> api]]
  /\ UNCHANGED <<api, edit, tick, bucket, logVars, passes, served, received, keyCount, clash>>

\* Faulty variant: what was read before plus one, as the memory driver can afford to.
Counted_Stale(c) == IF api.status = "absent" THEN api ELSE [api EXCEPT !.count = call[c].row.count + 1]

\* ... and adds one to the row that is there by then (and to the counters of the day).
Counted(c) == IF api.status = "absent" THEN api ELSE [api EXCEPT !.count = @ + 1]

CallCount(c) ==
  /\ call[c].pc = "count" /\ MayRun(c)
  /\ api' = Counted(c) /\ served' = IF api.status = "absent" THEN served ELSE served + 1
  /\ call' = [call EXCEPT ![c] = At("log")]
  /\ UNCHANGED <<edit, tick, bucket, logVars, passes, received, keyCount, clash>>

\* writeCallDetail, for every call.  The memory driver drops what is over as it adds a row; with
\* MySQL an INSERT adds it ...
CallLog(c) ==
  /\ call[c].pc = "log" /\ MayRun(c)
  /\ IF driver = "memory"
     THEN /\ details' = IF details < MaxDetails THEN details + 1 ELSE MaxDetails
          /\ call' = [call EXCEPT ![c] = At("idle")]
     ELSE details' = details + 1 /\ call' = [call EXCEPT ![c] = At("tally")]
  /\ UNCHANGED <<api, edit, tick, bucket, inserts, missed, mishaps, passes, served, received, keyCount, clash>>

\* Faulty variant: looks before it counts.
PruneDue_Before == inserts > 0 /\ inserts % PruneEvery = 0

PruneDue == (inserts + 1) % PruneEvery = 0

\* ... which callInserts counts when it is answered, and every PRUNE_EVERY rows the log is cut
\* back ...
CallTally(c) ==
  /\ call[c].pc = "tally" /\ MayRun(c)
  /\ inserts' = inserts + 1
  /\ call' = [call EXCEPT ![c] = At(IF PruneDue THEN "trim" ELSE "idle")]
  /\ UNCHANGED <<api, edit, tick, bucket, details, missed, mishaps, passes, served, received, keyCount, clash>>

\* ... by a DELETE.
CallTrim(c) ==
  /\ call[c].pc = "trim" /\ MayRun(c)
  /\ details' = (IF details > MaxDetails THEN MaxDetails ELSE details) /\ missed' = 0
  /\ call' = [call EXCEPT ![c] = At("idle")]
  /\ UNCHANGED <<api, edit, tick, bucket, inserts, mishaps, passes, served, received, keyCount, clash>>

\* The INSERT or the DELETE fails, or the answer to the INSERT is lost: a warning is all.
CallLogFails(c) ==
  /\ driver = "mysql" /\ call[c].pc \in {"log", "tally", "trim"}
  /\ mishaps < MaxMishaps /\ mishaps' = mishaps + 1
  /\ missed' = missed + CASE call[c].pc = "log" -> 0 [] call[c].pc = "tally" -> 1
                           [] call[c].pc = "trim" -> PruneEvery
  /\ call' = [call EXCEPT ![c] = At("idle")]
  /\ UNCHANGED <<api, edit, tick, bucket, details, inserts, passes, served, received, keyCount, clash>>

\* The rows this process is still to have pruned, as far as it knows: those of each DELETE
\* under way, those counted since the last one was due, and those about to be counted.
Number(pc) == Cardinality({c \in Callers : call[c].pc = pc})
Waiting    == PruneEvery * Number("trim") + (inserts % PruneEvery) + Number("tally")

\* The process ends and starts again, and knows no longer what it was to prune.
GatewayRestart ==
  /\ driver = "mysql" /\ mishaps < MaxMishaps /\ mishaps' = mishaps + 1
  /\ edit' = [e \in Editors |-> NoEdit] /\ call' = [c \in Callers |-> At("idle")]
  /\ bucket' = <<>> /\ passes' = <<>> /\ inserts' = 0
  /\ missed' = missed + Waiting
  /\ UNCHANGED <<api, tick, details, served, received, keyCount, clash>>

GatewayClock ==
  /\ tick < MaxTick /\ tick' = tick + 1
  /\ UNCHANGED <<api, edit, call, bucket, logVars, passes, served, received, keyCount, clash>>

GatewayNext ==
  \/ \E e \in Editors : (\E do \in Edits : EditRead(e, do)) \/ EditLoad(e) \/ EditSave(e)
  \/ \E c \in Callers :
       \/ \E mayCall \in BOOLEAN : CallCheck(c, mayCall)
       \/ CallFind(c) \/ CallAnswer(c) \/ CallRecord(c) \/ CallCount(c)
       \/ CallLog(c) \/ CallTally(c) \/ CallTrim(c) \/ CallLogFails(c)
  \/ GatewayClock \/ GatewayRestart

GatewaySpec == /\ StorageTypeOK /\ GatewayInit
               /\ [][GatewayNext /\ UNCHANGED driver]_<<driver, gatewayVars>>

-----------------------------------------------------------------------------
(* Properties of the code *)

\* The limiter counts in windows that start afresh, so in any stretch as long as a window it
\* lets at most twice the limit through (rateWindow.js:6-7), however the calls overlap (counted
\* anew when the bucket goes: after a restart, or when the API is taken off the air).
RateBounded ==
  \A t \in 0 .. MaxTick :
    Cardinality({i \in DOMAIN passes : passes[i] >= t /\ passes[i] < t + WindowTicks}) <= 2 * Limit

\* The row's counter agrees with the calls served: none is lost or counted twice by those
\* that overlap it, unless an edit wrote a row back that had changed since it was read.
CallsCounted == ~clash /\ api.status # "absent" => api.count = served

\* The log of calls stays within its bound; with MySQL plus the rows that wait for a DELETE
\* (PRUNE_EVERY for each one under way, as others go on writing meanwhile) and those which a
\* restart or a failed write has left to the next.
LogBounded == details <= MaxDetails + IF driver = "memory" THEN 0 ELSE Waiting + missed

\* What one API may take from the system is bounded, in calls let through (by one process) and
\* in rows of the log, whatever calls overlap and wherever the process restarts.
GatewayBounded == RateBounded /\ LogBounded

-----------------------------------------------------------------------------
(* What comments say and the code does not do: TLC refutes each.                   *)

\* dataapi.store.js:10-11, no count is lost under concurrent calls (edits do lose some).
CountKept == [][api'.status # "absent" => api'.count >= api.count]_api

\* dataapi.service.js:436, a key that was given out survives a second publication.
KeyKept == [][api.key # 0 /\ api'.status # "absent" => api'.key = api.key]_api

\* dataapi.store.js:14, every PRUNE_EVERY insertions a DELETE cuts the log back (the count is
\* the process's own and begins anew after a restart).
LogRolls == Number("idle") = Cardinality(Callers) => details < MaxDetails + PruneEvery
=============================================================================
