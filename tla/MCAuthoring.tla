----------------------------- MODULE MCAuthoring -----------------------------
EXTENDS Authoring

CONSTANTS i1, c1, c2

\* A file of two questions, the first of which inherits its points.
MCRows == i1 :> <<0, 2>>

\* The requests are alike.
Alike == Permutations({c1, c2})

\* The guards that NobodyStuck names say exactly when a request can go on, and a
\* deadlock when PostgreSQL can break one.
GuardsAreExact ==
  /\ \A c \in Callers : CanProceed(c) <=> ENABLED Proceed(c)
  /\ (\E c, d \in Callers : Deadlocked(c, d)) <=> ENABLED BreakDeadlock
=============================================================================
