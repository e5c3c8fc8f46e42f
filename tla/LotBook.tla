------------------------------ MODULE LotBook -------------------------------
(***************************************************************************)
(* What the wallet and its ledger promise together, as one atomic book: a  *)
(* lot is on the book exactly while its coins are in the wallet, a rung    *)
(* holds at most one lot, and coins and entry come and go in one step.     *)
(* The promise lasts as long as `ok`.                                      *)
(***************************************************************************)
EXTENDS Integers, FiniteSets

CONSTANT Rungs  \* the indices a ladder may have

VARIABLES
    lots,   \* the rungs that hold a lot
    coins,  \* base tokens in the wallet, counted in lots
    spare,  \* coins that stand for no lot
    ok      \* the promise still binds

book == <<lots, coins, spare, ok>>

Init == lots = {} /\ coins = 0 /\ spare = 0 /\ ok = TRUE

(* A rung is bought once: never while its lot is held. *)
Buy == \E l \in Rungs \ lots :
    /\ lots' = lots \cup {l}
    /\ coins' = coins + 1
    /\ spare' = spare

(* A lot is sold once: its entry and its coins leave together. *)
Sell == \E l \in lots :
    /\ lots' = lots \ {l}
    /\ coins' = coins - 1
    /\ spare' = spare

(* Coins that belong to no lot come and go beside the book. *)
Beside == \E d \in {-1, 1} :
    /\ coins' = coins + d
    /\ spare' = spare + d
    /\ lots' = lots

(* The ladder moves under the lots: other rungs, as many lots. *)
Relabel ==
    /\ Cardinality(lots') = Cardinality(lots)
    /\ UNCHANGED <<coins, spare>>

(* Once the promise is off it stays off, and binds nothing. *)
Break == ok' = FALSE

Next == \/ ok /\ ok' = TRUE /\ (Buy \/ Sell \/ Beside \/ Relabel)
        \/ Break

Spec == Init /\ [][Next]_book
=============================================================================
