--------------------------- MODULE MCCallbackPush ---------------------------
(* Instances of CallbackPush for TLC: short waits that keep the order of   *)
(* the real ones (5 s, 30 s, 120 s; timeout 30 s, here 1).                *)
EXTENDS CallbackPush, TLC

ShortDelays == <<1, 2, 3>>
Sym == Permutations(Pushes)
=============================================================================
