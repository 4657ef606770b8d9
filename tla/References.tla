----------------------------- MODULE References -----------------------------
(***************************************************************************)
(* The data sources and the records that name them (datasource.service,    *)
(* syncTask.service, dataflow.service).  A sync task names data sources    *)
(* that exist when it is saved, a canvas may be a draft that names any;    *)
(* a data source that is named by either is not deleted.                   *)
(***************************************************************************)
EXTENDS Storage, Naturals

CONSTANTS
  Sources,      \* data sources, present and future
  SyncTasks,    \* sync tasks
  Drafts,       \* canvases
  Clerks,       \* requests in progress at once
  Passwords     \* the passwords a data source may have

VARIABLES
  source,     \* the data sources: absent, or the password kept
  names,      \* the data source a record names, or no record
  clerk,      \* the requests in progress
  overlapped  \* has a request begun while another was under way? (history)

referenceVars == <<source, names, clerk, overlapped>>

Holders  == SyncTasks \cup Drafts
NoSource == "nothing"
Absent   == "absent"
ASSUME ReferencesAssumption == Absent \notin Sources

Clerk    == [pc : {"idle", "check", "load", "save", "count", "remove", "change", "put"},
             on : Sources \cup Holders \cup {NoSource}, to : Sources \cup {NoSource},
             sent : Passwords \cup {Absent}, read : Passwords \cup {Absent}]
NoClerk  == [pc |-> "idle", on |-> NoSource, to |-> NoSource, sent |-> Absent, read |-> Absent]

ReferencesTypeOK ==
  /\ source \in [Sources -> Passwords \cup {Absent}]
  /\ names \in [Holders -> Sources \cup {NoSource, Absent}]
  /\ clerk \in [Clerks -> Clerk] /\ overlapped \in BOOLEAN

ReferencesInit ==
  /\ source = [s \in Sources |-> Absent] /\ names = [h \in Holders |-> Absent]
  /\ clerk = [c \in Clerks |-> NoClerk] /\ overlapped = FALSE

-----------------------------------------------------------------------------

AtDesk     == {c \in Clerks : clerk[c].pc # "idle"}
DeskTurn(c) == TurnOf(c, AtDesk)
Known(s)   == source[s] # Absent
Begins(c, q) ==
  /\ clerk[c].pc = "idle" /\ DeskTurn(c) /\ clerk' = [clerk EXCEPT ![c] = q]
  /\ overlapped' = (overlapped \/ AtDesk # {})
  /\ UNCHANGED <<source, names>>
Continues(c, pc) == clerk' = [clerk EXCEPT ![c].pc = pc] /\ UNCHANGED <<source, names, overlapped>>
Refused(c)       == clerk' = [clerk EXCEPT ![c] = NoClerk] /\ UNCHANGED <<source, names, overlapped>>

\* createDataSource.
AddSource(c, s, p) ==
  /\ clerk[c].pc = "idle" /\ DeskTurn(c) /\ ~Known(s)
  /\ source' = [source EXCEPT ![s] = p]
  /\ UNCHANGED <<names, clerk, overlapped>>

\* createTask or updateTaskById; a canvas is saved without the check.
SaveHolder(c, h, s) ==
  Begins(c, [NoClerk EXCEPT !.pc = IF h \in SyncTasks THEN "check" ELSE "save", !.on = h, !.to = s])

\* assertDataSourceExists.
SourceKnown(q) == Known(q.to)

CheckSource(c) ==
  /\ clerk[c].pc = "check" /\ DeskTurn(c)
  /\ IF SourceKnown(clerk[c]) THEN Continues(c, "save") ELSE Refused(c)

\* An edit may find that the record has gone meanwhile: updateRow then inserts it again.
WriteHolder(c) ==
  /\ clerk[c].pc = "save" /\ DeskTurn(c)
  /\ names' = [names EXCEPT ![clerk[c].on] = clerk[c].to]
  /\ clerk' = [clerk EXCEPT ![c] = NoClerk]
  /\ UNCHANGED <<source, overlapped>>

\* deleteTaskById or deleteDataflowById.
DropHolder(c, h) ==
  /\ clerk[c].pc = "idle" /\ DeskTurn(c) /\ names[h] # Absent
  /\ names' = [names EXCEPT ![h] = Absent]
  /\ UNCHANGED <<source, clerk, overlapped>>

\* deleteDataSourceById: the source, then those who name it (queries made together).
DeleteSource(c, s) == Known(s) /\ Begins(c, [NoClerk EXCEPT !.pc = "count", !.on = s])

\* Faulty variant: only sync tasks are asked.
Namers_Tasks(s) == {h \in SyncTasks : names[h] = s}

Namers(s) == {h \in Holders : names[h] = s}

CountNamers(c) ==
  /\ clerk[c].pc = "count" /\ DeskTurn(c)
  /\ IF Namers(clerk[c].on) = {} THEN Continues(c, "remove") ELSE Refused(c)

RemoveSource(c) ==
  /\ clerk[c].pc = "remove" /\ DeskTurn(c)
  /\ source' = [source EXCEPT ![clerk[c].on] = Absent]
  /\ clerk' = [clerk EXCEPT ![c] = NoClerk]
  /\ UNCHANGED <<names, overlapped>>

\* updateDataSourceById: all of the row it has read goes into the update, with the password
\* sent or, if the mask is sent (p = Absent), with the one read.
EditSource(c, s, p) ==
  Known(s) /\ Begins(c, [NoClerk EXCEPT !.pc = "change", !.on = s, !.sent = p, !.read = source[s]])

\* repository.update: nothing if the row is gone.
LoadSource(c) ==
  /\ clerk[c].pc = "change" /\ DeskTurn(c)
  /\ IF Known(clerk[c].on) THEN Continues(c, "put") ELSE Refused(c)

\* updateRow: UPDATE, or INSERT again if the row has gone meanwhile.
PutSource(c) ==
  /\ clerk[c].pc = "put" /\ DeskTurn(c)
  /\ source' = [source EXCEPT ![clerk[c].on] =
                   IF clerk[c].sent = Absent THEN clerk[c].read ELSE clerk[c].sent]
  /\ clerk' = [clerk EXCEPT ![c] = NoClerk]
  /\ UNCHANGED <<names, overlapped>>

ReferencesNext ==
  \E c \in Clerks :
    \/ \E s \in Sources :
         \/ DeleteSource(c, s)
         \/ \E p \in Passwords : AddSource(c, s, p)
         \/ \E p \in Passwords \cup {Absent} : EditSource(c, s, p)
         \/ \E h \in Holders : SaveHolder(c, h, s)
    \/ \E h \in Holders : DropHolder(c, h)
    \/ CheckSource(c) \/ WriteHolder(c) \/ CountNamers(c) \/ RemoveSource(c)
    \/ LoadSource(c) \/ PutSource(c)

ReferencesSpec ==
  StorageTypeOK /\ ReferencesInit /\ [][ReferencesNext /\ UNCHANGED driver]_<<driver, referenceVars>>

-----------------------------------------------------------------------------

\* Unless requests overlapped (only with MySQL can they), every sync task names a data
\* source there is, through creations, edits and deletions of both.
TasksSourced ==
  ~overlapped => \A t \in SyncTasks : names[t] \in Sources => Known(names[t])

\* Nobody takes a data source away from a record that names it: a source is absent after a
\* step only if it was, or nothing names it (unless requests overlapped).
SourceHeld ==
  [][~overlapped' => \A s \in Sources : Known(s) /\ source'[s] = Absent =>
       \A h \in Holders : names[h] # s]_referenceVars

\* The check of a deletion and the check of a save hold the references between them: no task
\* names a source that is gone, and no source goes while something names it.
SourcesKept == []TasksSourced /\ SourceHeld

-----------------------------------------------------------------------------

(* What a comment says and the code does not do: TLC refutes it (MySQL).            *)

\* datasource.service.js, updateDataSourceById: an edit that sends the mask leaves the
\* password in the database as it is.
PasswordKept ==
  [][\A c \in Clerks :
       clerk[c].pc = "put" /\ clerk[c].sent = Absent /\ clerk'[c].pc = "idle" => UNCHANGED source
    ]_referenceVars
=============================================================================
