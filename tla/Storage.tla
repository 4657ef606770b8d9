------------------------------ MODULE Storage -------------------------------
(***************************************************************************)
(* What the choice of the storage driver means for the handlers of the     *)
(* admin backend.  Behind the same interface the in-memory repositories    *)
(* answer within the turn of the event loop, while every call of a MySQL   *)
(* repository is a query the handler waits for.                            *)
(***************************************************************************)
VARIABLE driver  \* DB_DRIVER, fixed when the process starts

StorageTypeOK == driver \in {"memory", "mysql"}

\* May handler x run its next piece, if the handlers in midway have begun a piece and
\* have nothing but repositories to wait for?
TurnOf(x, midway) == driver = "mysql" \/ midway \subseteq {x}
=============================================================================
