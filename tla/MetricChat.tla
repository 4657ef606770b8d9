----------------------------- MODULE MetricChat -----------------------------
(***************************************************************************)
(* Questions about metrics (metricChat.service, metricKnowledge.service).  *)
(* A question has the index of the metadata rebuilt, or joins a build that *)
(* is going on; it then waits for the language model and the database, and *)
(* in the end adds a turn to its session.  Index and sessions are kept in  *)
(* memory.  Questions need MySQL.                                          *)
(***************************************************************************)
EXTENDS Storage, Naturals, Sequences, SequencesExt

CONSTANTS
  Askers,     \* questions in progress at once
  MaxTurns,   \* SESSION_MAX_TURNS
  MaxEdits    \* bound: changes of the metadata

ASSUME ChatAssumption == MaxTurns \in Nat \ {0} /\ MaxEdits \in Nat

VARIABLES
  metadata,   \* how often domains, models, metrics and terms have been changed
  cache,      \* the changes the cached index knows of
  build,      \* the builds: how far they are and the changes they have read
  building,   \* the variable of the same name: whose build is going on
  asker,      \* the questions
  session     \* the turns of the session

chatVars == <<metadata, cache, build, building, asker, session>>

Nobody   == "nobody"
ASSUME AskersAssumption == Nobody \notin Askers

Build    == [pc : {"none", "begun", "read"}, at : 0 .. MaxEdits]
NoBuild  == [pc |-> "none", at |-> 0]
Editions == 0 .. MaxEdits
Asker    == [pc : {"idle", "wait", "model"}, joined : Askers \cup {Nobody}, index : Editions,
             asked : Editions]
NoAsker  == [pc |-> "idle", joined |-> Nobody, index |-> 0, asked |-> 0]

ChatTypeOK ==
  /\ metadata \in Editions /\ cache \in Editions
  /\ build \in [Askers -> Build] /\ building \in Askers \cup {Nobody}
  /\ asker \in [Askers -> Asker] /\ session \in BoundedSeq(Askers, MaxTurns)

ChatInit ==
  /\ metadata = 0 /\ cache = 0 /\ build = [a \in Askers |-> NoBuild] /\ building = Nobody
  /\ asker = [a \in Askers |-> NoAsker] /\ session = << >>

-----------------------------------------------------------------------------

EditMetadata ==
  /\ driver = "mysql" /\ metadata < MaxEdits /\ metadata' = metadata + 1
  /\ UNCHANGED <<cache, build, building, asker, session>>

\* Faulty variant: every question builds an index of its own.
Joins_Never(a) == a

\* buildIndex: the build going on, or one of one's own.
Joins(a) == IF building = Nobody THEN a ELSE building

Ask(a) ==
  /\ driver = "mysql" /\ asker[a].pc = "idle" /\ build[a] = NoBuild
  /\ asker' = [asker EXCEPT ![a] = [@ EXCEPT !.pc = "wait", !.joined = Joins(a), !.asked = metadata]]
  /\ IF Joins(a) = a THEN build' = [build EXCEPT ![a].pc = "begun"] /\ building' = a
                     ELSE UNCHANGED <<build, building>>
  /\ UNCHANGED <<metadata, cache, session>>

\* The queries of a build, taken together.
BuildReads(a) ==
  /\ build[a].pc = "begun" /\ build' = [build EXCEPT ![a] = [pc |-> "read", at |-> metadata]]
  /\ UNCHANGED <<metadata, cache, building, asker, session>>

\* The index is cached, and everyone who waits for it gets it.
BuildEnds(a) ==
  /\ build[a].pc = "read"
  /\ cache' = build[a].at /\ build' = [build EXCEPT ![a] = NoBuild] /\ building' = Nobody
  /\ asker' = [b \in Askers |->
       IF asker[b].pc = "wait" /\ asker[b].joined = a
       THEN [asker[b] EXCEPT !.pc = "model", !.joined = Nobody, !.index = build[a].at] ELSE asker[b]]
  /\ UNCHANGED <<metadata, session>>

\* One of the queries fails, and with it every question that waits.
BuildFails(a) ==
  /\ build[a].pc # "none"
  /\ build' = [build EXCEPT ![a] = NoBuild] /\ building' = Nobody
  /\ asker' = [b \in Askers |-> IF asker[b].joined = a THEN NoAsker ELSE asker[b]]
  /\ UNCHANGED <<metadata, cache, session>>

\* pushTurn.
Pushed(list, turn) ==
  IF Len(list) = MaxTurns THEN Append(Tail(list), turn) ELSE Append(list, turn)

\* finish: with an answer, a question back, or an error.
Answer(a) ==
  /\ asker[a].pc = "model"
  /\ session' = Pushed(session, a) /\ asker' = [asker EXCEPT ![a] = NoAsker]
  /\ UNCHANGED <<metadata, cache, build, building>>

ClearSession == session' = << >> /\ UNCHANGED <<metadata, cache, build, building, asker>>

ChatRestart ==
  /\ cache' = 0 /\ build' = [a \in Askers |-> NoBuild] /\ building' = Nobody
  /\ asker' = [a \in Askers |-> NoAsker] /\ session' = << >>
  /\ UNCHANGED metadata

ChatNext ==
  \/ EditMetadata \/ ClearSession \/ ChatRestart
  \/ \E a \in Askers : Ask(a) \/ BuildReads(a) \/ BuildEnds(a) \/ BuildFails(a) \/ Answer(a)

ChatSpec == StorageTypeOK /\ ChatInit /\ [][ChatNext /\ UNCHANGED driver]_<<driver, chatVars>>

-----------------------------------------------------------------------------

\* The index never goes back to an older state of the metadata while the process lives, so
\* that a question asked after another was answered knows all the other knew (single flight:
\* a slow build never ends after a faster later one).
IndexForward == [][cache' >= cache \/ ChatRestart]_chatVars

(* What a comment says and the code does not do: TLC refutes it.                   *)

\* metricChat.service.js, ask: a question goes by the metadata of the present.
IndexFresh == \A a \in Askers : asker[a].pc = "model" => asker[a].index >= asker[a].asked
=============================================================================
