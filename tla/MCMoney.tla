------------------------------ MODULE MCMoney ------------------------------
(* TLC instance of Money: two ladders of three rungs, anchored low or high. *)
EXTENDS Money

LadderOf(a, b, c) == [i \in 0 .. 2 |-> CASE i = 0 -> a [] i = 1 -> b [] i = 2 -> c]
Low  == LadderOf(2, 3, 4)
High == LadderOf(3, 4, 6)

(* Re-activating at another price moves the levels under the lots.  From   *)
(* Low to High update_grid moves a lone lot down an index; from High to    *)
(* Low lots move up one, and two of them may meet on the top rung.         *)
MCPrices   == {2, 3, 4}
MCGridFor  == [p \in MCPrices |-> IF p = 4 THEN High ELSE Low]
MCReshapes == {Low, High}

(* Bounds: a behaviour is followed until update_grid has moved lots in a   *)
(* way the labels cannot follow, or the log has no room for the steps in   *)
(* flight.  The second day is followed for what the first one left on the  *)
(* log, and a reset for the day's sales it forgot: shorter, and with one   *)
(* step in flight.                                                         *)
HasRoomFor(n) == Len(trades) + ready + n <= MaxTrades
UntilFullOrTangled ==
    /\ ~tangled /\ HasRoomFor(0) /\ Len(trades) < MaxTrades
    /\ day = 1 => HasRoomFor(1) /\ ready <= 1 /\ trades # <<>> /\ trades[1].day = 0
    /\ forgotten # 0 => HasRoomFor(2) /\ ready <= 1 /\ day = 0 /\ forgotten \in -8 .. 8
=============================================================================
