----------------------------- MODULE MCServices -----------------------------
(***************************************************************************)
(* Services that share nothing but the storage driver, checked in one run: *)
(* in each behaviour one component moves, the one in focus.                *)
(***************************************************************************)
EXTENDS Accounts, Alerts, DataApiGateway, DataflowRuns, Scheduler, TLC

VARIABLE focus  \* the component that moves

vars == <<driver, focus, accountVars, alertVars, gatewayVars, flowVars, schedulerVars>>

Components == {"accounts", "alerts", "gateway", "dataflows", "scheduler"}

Init ==
  /\ driver \in {"memory", "mysql"} /\ focus \in Components
  /\ AccountsInit /\ AlertsInit /\ GatewayInit /\ DataflowRunsInit /\ SchedulerInit

AccountsMove ==
  focus = "accounts" /\ AccountsNext /\ UNCHANGED <<alertVars, gatewayVars, flowVars, schedulerVars>>

AlertsMove ==
  focus = "alerts" /\ AlertsNext /\ UNCHANGED <<accountVars, gatewayVars, flowVars, schedulerVars>>

GatewayMoves ==
  focus = "gateway" /\ GatewayNext /\ UNCHANGED <<accountVars, alertVars, flowVars, schedulerVars>>

DataflowsMove ==
  focus = "dataflows" /\ DataflowRunsNext /\ UNCHANGED <<accountVars, alertVars, gatewayVars, schedulerVars>>

SchedulerMoves ==
  focus = "scheduler" /\ SchedulerNext /\ UNCHANGED <<accountVars, alertVars, gatewayVars, flowVars>>

Next ==
  /\ AccountsMove \/ AlertsMove \/ GatewayMoves \/ DataflowsMove \/ SchedulerMoves
  /\ UNCHANGED <<driver, focus>>

Spec == Init /\ [][Next]_vars

\* The type invariants of the components.
TypesOK ==
  /\ StorageTypeOK /\ AccountsTypeOK /\ AlertsTypeOK /\ GatewayTypeOK /\ DataflowRunsTypeOK
  /\ SchedulerTypeOK

\* Operators, callers, users, scans and firings are interchangeable, each apart; the cfg gives them the
\* same names.
Symmetric == Permutations(Operators)
=============================================================================
