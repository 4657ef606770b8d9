---------------------------- MODULE MCKeysetSync ----------------------------
(* Small instances of KeysetSync: keys are numbers, their order is the order   *)
(* of the primary key.                                                         *)
EXTENDS KeysetSync

\* What Next comes to where nothing is deleted, an upsert meets no conflict and a run does not
\* sleep between rounds: Delete, WriteConflict and Wake are never enabled there (MCSyncModes
\* takes them).
ResumeNext ==
  \/ \E k \in Keys : Write(k)
  \/ Start \/ Prepare \/ FetchRows \/ FetchNothing \/ WriteCommit \/ WriteCut \/ Advance
  \/ Stopped \/ ReadError \/ Cancel \/ Crash
  \/ \E p \in reports : Persist(p)

ResumeSpec == Init /\ [][ResumeNext]_vars
=============================================================================
