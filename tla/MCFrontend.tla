----------------------------- MODULE MCFrontend -----------------------------
(***************************************************************************)
(* Two parts of the web front end, checked in one run: in each behaviour   *)
(* one of them moves.                                                      *)
(***************************************************************************)
EXTENDS CodeCheck, ProgressDrawer

VARIABLE focus  \* the component that moves

vars == <<focus, codeVars, drawerVars>>

Init == focus \in {"code check", "drawer"} /\ CodeInit /\ DrawerInit

Next ==
  /\ UNCHANGED focus
  /\ \/ focus = "code check" /\ CodeNext /\ UNCHANGED drawerVars
     \/ focus = "drawer" /\ DrawerNext /\ UNCHANGED codeVars

Spec == Init /\ [][Next]_vars /\ DrawerFairness

\* The type invariants of both.
TypesOK == CodeTypeOK /\ DrawerTypeOK
=============================================================================
