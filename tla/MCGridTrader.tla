---------------------------- MODULE MCGridTrader ----------------------------
(* TLC instances of GridTrader: ladders of four rungs, some prices between *)
(* two rungs, one below the floor and one above the ceiling.               *)
EXTENDS GridTrader

MCPrices == 2 .. 9

LadderOf(a, b, c, d) ==
    [i \in 0 .. 3 |-> CASE i = 0 -> a [] i = 1 -> b [] i = 2 -> c [] i = 3 -> d]

(* lower_price and upper_price set: the same ladder whatever the price.    *)
(* range_pct set: the ladder follows the price it is anchored at.          *)
MCConfigs ==
    {[p \in MCPrices |-> LadderOf(3, 5, 7, 8)],
     [p \in MCPrices |-> IF p <= 5 THEN LadderOf(2, 3, 5, 6)
                                   ELSE LadderOf(5, 6, 8, 9)]}
=============================================================================
