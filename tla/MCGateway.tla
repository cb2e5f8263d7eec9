----------------------------- MODULE MCGateway -----------------------------
(* Instances of Gateway for TLC.                                           *)
EXTENDS Gateway, TLC

CONSTANTS q1, q2, own, forged, foreign, register, again, a1, a2, r1, m1

Message(app, auth, signed) == [app |-> app, auth |-> auth, at |-> 1, signed |-> signed]

\* A call with an authorization, one with a wrong signature, one with the
\* authorization of another application, and two of the same new merchant.
MCSent ==
  own :> Message(a1, r1, TRUE) @@ forged :> Message(a1, r1, FALSE)
    @@ foreign :> Message(a2, r1, TRUE) @@ register :> Message(a1, NoAuth, TRUE)
    @@ again :> Message(a2, NoAuth, TRUE)
MCNamed == [m \in Msgs |-> m1]
MCOwner == r1 :> a1
MCExpires == r1 :> 1
Sym == Permutations(Reqs)
=============================================================================
