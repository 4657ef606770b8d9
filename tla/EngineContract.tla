--------------------------- MODULE EngineContract ---------------------------
(***************************************************************************)
(* What the admin backend may rely on about the sync engine, one instance  *)
(* id at a time: an id is accepted at most once, runs, settles in exactly  *)
(* one terminal status, and its reports are "running" any number of times  *)
(* followed by at most one report of that terminal status.  A settled id   *)
(* may be forgotten (history eviction); a crash forgets everything.        *)
(* EngineTasks implements this contract; RunOrchestration is built on it.  *)
(***************************************************************************)

CONSTANT Ids            \* instance ids

VARIABLES state,        \* what the engine knows of the id
          announced     \* the last report of the id handed to the network

contractVars == <<state, announced>>

Terminal  == {"success", "failed", "stopped"}
States    == {"absent", "running", "forgotten"} \cup Terminal
Announces == {"nothing", "running"} \cup Terminal

Init ==
  /\ state = [i \in Ids |-> "absent"]
  /\ announced = [i \in Ids |-> "nothing"]

\* POST /tasks/start answered with accepted = true.
Accept(i) ==
  /\ state[i] = "absent"
  /\ state' = [state EXCEPT ![i] = "running"]
  /\ UNCHANGED announced

\* A progress report leaves the engine.
Progress(i) ==
  /\ state[i] = "running"
  /\ announced' = [announced EXCEPT ![i] = "running"]
  /\ UNCHANGED state

\* The run ends: its snapshot becomes terminal.
Settle(i, s) ==
  /\ state[i] = "running"
  /\ state' = [state EXCEPT ![i] = s]
  /\ UNCHANGED announced

\* The one terminal report leaves the engine.
Announce(i) ==
  /\ state[i] \in Terminal
  /\ announced[i] \notin Terminal
  /\ announced' = [announced EXCEPT ![i] = state[i]]
  /\ UNCHANGED state

\* History eviction of a settled instance.
Forget(i) ==
  /\ state[i] \in Terminal
  /\ state' = [state EXCEPT ![i] = "forgotten"]
  /\ UNCHANGED announced

\* The engine keeps everything in memory.
Crash ==
  /\ state' = [i \in Ids |-> IF state[i] = "absent" THEN "absent" ELSE "forgotten"]
  /\ UNCHANGED announced

Next ==
  \/ \E i \in Ids :
       \/ Accept(i) \/ Progress(i) \/ Announce(i) \/ Forget(i)
       \/ \E s \in Terminal : Settle(i, s)
  \/ Crash

Spec == Init /\ [][Next]_contractVars
=============================================================================
