----------------------------- MODULE Subscription -----------------------------
(***************************************************************************)
(* What attach and detach promise together: a machine has at most one      *)
(* subscription, only an attach gives an unattached machine one, and       *)
(* nothing but a detach takes it away.                                     *)
(***************************************************************************)
CONSTANTS Tokens, NoToken

VARIABLE sub  \* the machine token in force, or NoToken

Init == sub \in Tokens \cup {NoToken}

Attach == sub = NoToken /\ sub' \in Tokens

Detach == sub # NoToken /\ sub' = NoToken

Spec == Init /\ [][Attach \/ Detach]_sub

=============================================================================
