----------------------------- MODULE MCSwapPath -----------------------------
(* TLC instances of SwapPath: two rungs, one of them filled at price 3. *)
EXTENDS SwapPath

MCRungs     == {0, 1}
MCSpots     == {2, 3}
MCFirstLots == [r \in MCRungs |-> IF r = 0 THEN 4 ELSE 0]
=============================================================================
