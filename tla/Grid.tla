-------------------------------- MODULE Grid --------------------------------
(***************************************************************************)
(* The trading decision of app/agent/grid.py: pure arithmetic on a ladder  *)
(* of price levels, the observed price and the rungs that hold a lot.      *)
(*                                                                         *)
(* A grid is a function from 0..n-1 (the Python list's indices) to prices, *)
(* the empty grid being << >>.  Prices are integers: `decide` only compares *)
(* them.  `filled` is the set of rungs whose lot has a positive amount,    *)
(* which is what strategy._filled_map hands to `decide`.                   *)
(***************************************************************************)
EXTENDS Integers, FiniteSets

NoGrid == <<>>

(* What build_grid guarantees of the list it returns: at least two rungs,  *)
(* positive prices, strictly increasing.  build_grid raises on anything    *)
(* degenerate and validate_grid rejects a ladder whose steps are too thin. *)
IsLadder(g) ==
    /\ IsFiniteSet(DOMAIN g)
    /\ Cardinality(DOMAIN g) >= 2
    /\ DOMAIN g = 0 .. Cardinality(DOMAIN g) - 1
    /\ \A i \in DOMAIN g : g[i] \in Nat /\ g[i] > 0
    /\ \A i, j \in DOMAIN g : i < j => g[i] < g[j]

(* The rungs the scan of level_for_price passes before its `break`.        *)
Reached(g, price) == {i \in DOMAIN g : \A j \in 0 .. i : price >= g[j]}

(* Faulty variant: the index of the first level above the price. *)
LevelAbovePrice(g, price) == Cardinality(Reached(g, price))

(* Index of the highest level at or below price; -1 when below the grid.   *)
LevelForPrice(g, price) == Cardinality(Reached(g, price)) - 1

LeastOf(S) == CHOOSE i \in S : \A j \in S : i <= j

(* Faulty variants: a lot sells at the level it was bought at; a target    *)
(* counts only once the price has passed it.                               *)
SellableAtOwnLevel(g, price, filled) ==
    {i \in filled : i+1 \in DOMAIN g /\ price >= g[i]}
SellableWhenPassed(g, price, filled) ==
    {i \in filled : i+1 \in DOMAIN g /\ price > g[i+1]}

(* Lots whose one-step target has been reached.  The lot on the top rung   *)
(* has no level above it and is never in this set.                         *)
Sellable(g, price, filled) ==
    {i \in filled : i+1 \in DOMAIN g /\ price >= g[i+1]}

Hold == [action |-> "hold", level |-> -1]

(* Faulty variant: a rung is bought whether or not it holds a lot. *)
DecideBlindly(g, price, filled, center) ==
    LET idx      == LevelForPrice(g, price)
        sellable == Sellable(g, price, filled)
    IN  IF price <= 0 \/ idx < 0 THEN Hold
        ELSE IF sellable # {}
             THEN [action |-> "sell", level |-> LeastOf(sellable)]
        ELSE IF idx <= center THEN [action |-> "buy", level |-> idx]
        ELSE Hold

(* One action per poll: sell the deepest lot that reached its target, else *)
(* buy the rung the price stands on when it is at or below the centre and  *)
(* empty.  The branch for a price above the ceiling is a `pass` in the     *)
(* code: it has no effect.                                                 *)
Decide(g, price, filled, center) ==
    LET idx      == LevelForPrice(g, price)
        sellable == Sellable(g, price, filled)
    IN  IF price <= 0 \/ idx < 0 THEN Hold
        ELSE IF sellable # {}
             THEN [action |-> "sell", level |-> LeastOf(sellable)]
        ELSE IF idx <= center /\ idx \notin filled
             THEN [action |-> "buy", level |-> idx]
        ELSE Hold

(* The orders the grid announces: one sell per open lot (trigger 0 stands  *)
(* for None, the top rung's lot), one buy per empty rung up to the centre. *)
NoTrigger == 0

(* Faulty variant: buys are announced above the centre too. *)
PendingOrdersEverywhere(g, filled, center) ==
    {[level |-> i, side |-> "sell",
      trigger |-> IF i+1 \in DOMAIN g THEN g[i+1] ELSE NoTrigger] :
        i \in filled \cap DOMAIN g}
    \cup
    {[level |-> i, side |-> "buy", trigger |-> g[i]] : i \in DOMAIN g \ filled}

PendingOrders(g, filled, center) ==
    {[level |-> i, side |-> "sell",
      trigger |-> IF i+1 \in DOMAIN g THEN g[i+1] ELSE NoTrigger] :
        i \in filled \cap DOMAIN g}
    \cup
    {[level |-> i, side |-> "buy", trigger |-> g[i]] :
        i \in {k \in DOMAIN g : k \notin filled /\ k <= center}}

-----------------------------------------------------------------------------
(* strategy.update_grid re-indexes every lot onto a new ladder.            *)

(* The lots are visited in the order of the JSON object's keys, which      *)
(* save_state sorts as STRINGS ("10" before "2").  For indices below 100.  *)
LeadingDigit(i) == IF i < 10 THEN i ELSE i \div 10
KeyBefore(i, k) ==
    \/ LeadingDigit(i) < LeadingDigit(k)
    \/ LeadingDigit(i) = LeadingDigit(k) /\ i < k

(* The rung the nudging loop stops at: the first free one from `base` up,  *)
(* or the top rung, free or not.                                           *)
Top(g) == Cardinality(DOMAIN g) - 1
Nudged(g, base, taken) == LeastOf({j \in base .. Top(g) : j \notin taken \/ j = Top(g)})

(* m places every lot of `filled` on the new ladder the way the loop does: *)
(* each from the rung of its old price, past the rungs taken before it.    *)
IsPlacement(old, new, filled, m) ==
    \A i \in filled :
        LET taken == {m[k] : k \in {k \in filled : KeyBefore(k, i)}}
            level == LevelForPrice(new, old[i])
            base  == IF level < 0 THEN 0 ELSE level
        IN  m[i] = Nudged(new, base, taken)
=============================================================================
