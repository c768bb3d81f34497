------------------------------ MODULE MCMacQuiz ------------------------------
(***************************************************************************)
(* Values of MacQuiz's constants for the model checker.                    *)
(***************************************************************************)
EXTENDS MacQuiz

\* Every report is only logged.
MCLogOnly == {[policy |-> "warn", action |-> "flag", maxViolations |-> 1]}

\* A warning ladder and one that submits at the second violation.
MCTally ==
  {[policy |-> "warn", action |-> "auto_submit", maxViolations |-> 1],
   [policy |-> "count", action |-> "auto_submit", maxViolations |-> 2]}
=============================================================================
