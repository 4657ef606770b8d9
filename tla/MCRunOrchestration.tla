------------------------- MODULE MCRunOrchestration -------------------------
(* Small instances of RunOrchestration.  Instance ids are ordered (the latest  *)
(* running row is the one stopped).                                            *)
EXTENDS RunOrchestration

\* What Next comes to where nobody stops a run, no report is lost or given up and the engine
\* stays up: without Stops and those Faults the actions left out are never enabled
\* (MCMemoryRuns takes them).
OutcomeNext ==
  \/ \E r \in Requests :
       StartStep(r) \/ StartRead(r) \/ StartFails(r) \/ \E t \in timers : RetryFire(r, t)
  \/ \E i \in Ids :
       \/ EngineAccepts(i) \/ EngineForgets(i)
       \/ \E s \in Terminal : EngineSettles(i, s)
       \/ \E m \in Reports : SendReport(m, i)
  \/ \E m \in Reports : ReportStep(m)
  \/ NodeCrash

OutcomeSpec == Init /\ [][OutcomeNext]_vars /\ Fairness
=============================================================================
