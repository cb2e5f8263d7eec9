------------------------------ MODULE Session ------------------------------
(***************************************************************************)
(* What the rotation of refresh tokens promises of one session: its token  *)
(* is handed on, each time to a token that was never used, until the       *)
(* session ends.  No token comes back, and no session either.              *)
(***************************************************************************)
CONSTANT Tokens

VARIABLES
  holding,  \* the token that is good for the session, if it has one
  used      \* all the tokens it has had

vars == <<holding, used>>

Init == holding = {} /\ used = {}

Hold(t) ==
  /\ t \notin used
  /\ holding' = {t}
  /\ used' = used \cup {t}

Begin(t) == used = {} /\ Hold(t)

HandOn(t) == holding # {} /\ Hold(t)

End == holding # {} /\ holding' = {} /\ UNCHANGED used

Next == End \/ \E t \in Tokens : Begin(t) \/ HandOn(t)

Spec == Init /\ [][Next]_vars
=============================================================================
