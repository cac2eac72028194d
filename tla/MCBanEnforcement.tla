-------------------------- MODULE MCBanEnforcement --------------------------
(* A small instance of BanEnforcement, with the history of BanAnswers. *)
EXTENDS BanAnswers
CONSTANT p1

OnOnePod == [w \in Workers |-> p1]
=============================================================================
