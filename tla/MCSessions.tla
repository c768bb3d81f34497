----------------------------- MODULE MCSessions -----------------------------
(***************************************************************************)
(* Values of Sessions' constants for the model checker.                    *)
(***************************************************************************)
EXTENDS Sessions, TLC

\* All tabs are in one browser.
MCBrowser == [t \in Tabs |-> CHOOSE b \in Browsers : TRUE]

Alike == Permutations(Tabs)
=============================================================================
