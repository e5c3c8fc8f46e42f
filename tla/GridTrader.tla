----------------------------- MODULE GridTrader -----------------------------
(***************************************************************************)
(* One trader alone on one grid: the market moves, a poll decides and      *)
(* fills in one step, and an operator may re-activate.  This is what       *)
(* strategy._loop and strategy.step come to when nothing interferes;       *)
(* Strategy.tla takes the poll apart into its reads, its transaction and   *)
(* its save.                                                               *)
(***************************************************************************)
EXTENDS Grid

CONSTANTS
    Prices,   \* the pool prices the market may show
    Configs   \* the [strategy] configurations: each maps a price to the
              \* ladder that activate builds when it reads that price

ASSUME PricesArePositive ==
    Prices # {} /\ \A p \in Prices : p \in Nat /\ p > 0
ASSUME ConfigsGiveLadders ==
    \A gridFor \in Configs :
        DOMAIN gridFor = Prices /\ \A p \in Prices : IsLadder(gridFor[p])

VARIABLES
    gridFor,  \* the configuration in force, fixed for the whole run
    price,    \* what chain.get_price reads
    ladder,   \* state["grid"]
    center,   \* state["center_index"]
    paid,     \* state["filled"]: a function from the filled rungs to the
              \* decision price of the buy that filled each of them
    carried   \* history: the filled rungs bought on an earlier ladder

vars == <<gridFor, price, ladder, center, paid, carried>>

filled == DOMAIN paid

Rungs == UNION {DOMAIN c[p] : c \in Configs, p \in Prices}

-----------------------------------------------------------------------------
Init ==
    /\ gridFor \in Configs
    /\ price \in Prices
    /\ ladder = gridFor[price]
    /\ center = LevelForPrice(gridFor[price], price)
    /\ paid = <<>>
    /\ carried = {}

(* The pool moves: any price may follow any other. *)
MovePrice ==
    /\ price' \in Prices \ {price}
    /\ UNCHANGED <<gridFor, ladder, center, paid, carried>>

Decision == Decide(ladder, price, filled, center)

Buy ==
    /\ Decision.action = "buy"
    /\ paid' = [i \in filled \cup {Decision.level} |->
                    IF i = Decision.level THEN price ELSE paid[i]]
    /\ UNCHANGED <<gridFor, price, ladder, center, carried>>

Sell ==
    /\ Decision.action = "sell"
    /\ paid' = [i \in filled \ {Decision.level} |-> paid[i]]
    /\ carried' = carried \ {Decision.level}
    /\ UNCHANGED <<gridFor, price, ladder, center>>

(* One poll of the monitor.  A poll that holds changes nothing. *)
Poll == Buy \/ Sell

(* activate on a grid that may hold lots: it keeps the inventory by index, *)
(* "only the levels move".                                                 *)
Activate ==
    /\ ladder' = gridFor[price]
    /\ center' = LevelForPrice(gridFor[price], price)
    /\ carried' = IF ladder' = ladder THEN carried ELSE filled
    /\ UNCHANGED <<gridFor, price, paid>>

Next == MovePrice \/ Poll \/ Activate

(* The monitor polls for ever at a fixed interval and survives every error *)
(* (strategy._loop).  The market and the operator owe nothing.             *)
Spec == Init /\ [][Next]_vars /\ WF_vars(Poll)

-----------------------------------------------------------------------------
TypeOK ==
    /\ gridFor \in Configs
    /\ price \in Prices
    /\ ladder \in {gridFor[p] : p \in Prices}
    /\ center \in -1 .. Top(ladder)
    /\ filled \subseteq Rungs
    /\ \A i \in filled : paid[i] \in Prices
    /\ carried \subseteq filled

(* README: "A lot bought at level i sells at level i+1; that one-step      *)
(* offset is the profit": a lot leaves the book only at a price above the  *)
(* one it was bought at, if it was bought on the ladder it is sold on.  A  *)
(* buy may happen anywhere between its rung and the next, so this needs    *)
(* the one-step offset of Sellable and the band of level_for_price         *)
(* together; of a lot that was carried over a re-activation it is false.   *)
FreshLotsAreSoldAboveCost ==
    [][\A i \in filled \ carried : i \notin DOMAIN paid' => price > paid[i]]_vars

(* pending_orders "mirrors decide()'s rules exactly": what a poll does was *)
(* announced with a trigger the price has reached, and an announced order  *)
(* that qualifies is not passed over for a hold.                           *)
AnnouncedOrdersMirrorDecide ==
    LET orders    == PendingOrders(ladder, filled, center)
        triggered == {o \in orders :
                        /\ o.trigger # NoTrigger /\ price >= o.trigger
                        /\ o.side = "buy" => o.level = LevelForPrice(ladder, price)}
    IN  /\ Decision.action # "hold" =>
               \E o \in triggered : o.side = Decision.action /\ o.level = Decision.level
        /\ triggered # {} => Decision.action # "hold"

(* The rungs a poll has still to trade at the present price: the lots that *)
(* reached their target, and the rung the price stands on if it is for     *)
(* sale.                                                                   *)
Due == Sellable(ladder, price, filled) \cup
       {i \in DOMAIN ladder \ filled : i = LevelForPrice(ladder, price) /\ i <= center}

(* The trades of one price run out: each is of a rung that was due, leaves *)
(* the others due and makes no rung due, neither its own nor another.  So  *)
(* a price costs at most one swap for every lot that reached its target    *)
(* and one buy, however often the monitor polls.                           *)
TradesRunOut ==
    [][filled' # filled => \E i \in Due : Due' = Due \ {i}]_vars

(* A quiet market ends the trading: once price and ladder stay put the     *)
(* polls come to a hold for good.  The trader never sells a lot and buys   *)
(* it back at one price.                                                   *)
QuietMarketEndsTrading ==
    <>[][price' = price /\ ladder' = ladder]_vars => <>[](Decision.action = "hold")

(* A lot whose target the price has reached for good is sold and its rung  *)
(* stays empty, whatever other lots and new buys come before it.           *)
ReachedTargetsAreSold ==
    \A i \in Rungs :
        <>[](i+1 \in DOMAIN ladder /\ price >= ladder[i+1]) => <>[](i \notin filled)
=============================================================================
