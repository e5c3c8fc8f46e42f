------------------------------- MODULE MCWatch -------------------------------
(* TLC instances of Watch. *)
EXTENDS Watch

MCCallers == Sweepers \cup {Buyer}
=============================================================================
