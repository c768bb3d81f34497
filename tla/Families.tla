------------------------------ MODULE Families ------------------------------
(***************************************************************************)
(* What an account's sessions promise: a login opens a family of refresh   *)
(* tokens, of which one lives.  A rotation replaces it, its end is for     *)
(* ever, a change of the credential or of the account ends all of them,    *)
(* and while the account is disabled nothing is rotated.                   *)
(***************************************************************************)
EXTENDS Naturals

CONSTANT Tokens

VARIABLES live,    \* the living tokens of each family, which its first one names
          issued,  \* the tokens handed out so far
          status,  \* of the account, "active" or "disabled"
          era      \* the changes of the credential or of the account

vars == <<live, issued, status, era>>

Init == live = <<>> /\ issued = {} /\ status = "active" /\ era = 0

Issue(k) == k \in Tokens \ issued /\ issued' = issued \cup {k}

\* Also while the account is disabled, by a login that was let in before.
Open ==
  \E k \in Tokens :
    /\ Issue(k)
    /\ live' = [f \in DOMAIN live \cup {k} |-> IF f = k THEN {k} ELSE live[f]]
    /\ UNCHANGED <<status, era>>

Rotate ==
  \E f \in DOMAIN live, k \in Tokens :
    /\ status = "active"
    /\ live[f] # {}
    /\ Issue(k)
    /\ live' = [live EXCEPT ![f] = {k}]
    /\ UNCHANGED <<status, era>>

End ==
  \E f \in DOMAIN live :
    /\ live' = [live EXCEPT ![f] = {}]
    /\ UNCHANGED <<issued, status, era>>

\* A disable, a reset or a new password.
Change ==
  /\ era' = era + 1
  /\ status' \in {status, "disabled"}
  /\ live' = [f \in DOMAIN live |-> {}]
  /\ UNCHANGED issued

Enable == status' = "active" /\ UNCHANGED <<live, issued, era>>

Next == Open \/ Rotate \/ End \/ Change \/ Enable

Spec == Init /\ [][Next]_vars
=============================================================================
