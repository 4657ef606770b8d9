----------------------------- MODULE MCMetadata -----------------------------
(***************************************************************************)
(* The metric centre, canvases and the references between records, checked *)
(* in one run: in each behaviour one component moves, the one in focus.    *)
(***************************************************************************)
EXTENDS Canvas, MetricChat, MetricGraph, MetricTaskRuns, ModelCatalog, References

VARIABLE focus  \* the component that moves

vars == <<driver, focus, canvasVars, chatVars, metricVars, taskVars, catalogVars, referenceVars>>

Components == {"canvas", "chat", "metrics", "tasks", "catalog", "references"}

Init ==
  /\ driver \in {"memory", "mysql"} /\ focus \in Components
  /\ focus = "metrics" => driver = "mysql"  \* the memory driver does less of the same
  /\ CanvasInit /\ ChatInit /\ MetricInit /\ TaskRunsInit /\ CatalogInit
  /\ ReferencesInit

CanvasMoves ==
  /\ focus = "canvas" /\ CanvasNext
  /\ UNCHANGED <<chatVars, metricVars, taskVars, catalogVars, referenceVars>>

ChatMoves ==
  /\ focus = "chat" /\ ChatNext
  /\ UNCHANGED <<canvasVars, metricVars, taskVars, catalogVars, referenceVars>>

MetricsMove ==
  /\ focus = "metrics" /\ MetricNext
  /\ UNCHANGED <<canvasVars, chatVars, taskVars, catalogVars, referenceVars>>

TasksMove ==
  /\ focus = "tasks" /\ TaskRunsNext
  /\ UNCHANGED <<canvasVars, chatVars, metricVars, catalogVars, referenceVars>>

CatalogMoves ==
  /\ focus = "catalog" /\ CatalogNext
  /\ UNCHANGED <<canvasVars, chatVars, metricVars, taskVars, referenceVars>>

ReferencesMove ==
  /\ focus = "references" /\ ReferencesNext
  /\ UNCHANGED <<canvasVars, chatVars, metricVars, taskVars, catalogVars>>

Next ==
  /\ CanvasMoves \/ ChatMoves \/ MetricsMove \/ TasksMove \/ CatalogMoves \/ ReferencesMove
  /\ UNCHANGED <<driver, focus>>

Spec == Init /\ [][Next]_vars

\* The type invariants of the components.
TypesOK ==
  /\ StorageTypeOK /\ CanvasTypeOK /\ ChatTypeOK /\ MetricTypeOK
  /\ TaskRunsTypeOK /\ CatalogTypeOK /\ ReferencesTypeOK

\* Users (savers, requests, workers, clerks) are interchangeable, and so are the things they work
\* on (metrics, domains, nodes, questions); the cfg gives the members of each kind the same names.
Symmetric == Permutations(Savers) \cup Permutations(Metrics)
=============================================================================
