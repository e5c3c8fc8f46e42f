-------------------------- MODULE GridTraderProofs --------------------------
(* The one-step offset earns, for every ladder, price and configuration.   *)
EXTENDS GridTrader, GridProofs

(* The inductive part: a lot bought on the present ladder was bought under *)
(* the level it is to be sold at.                                          *)
PaidBelowTarget ==
    \A i \in filled \ carried : i+1 \in DOMAIN ladder => paid[i] < ladder[i+1]

Inv == TypeOK /\ PaidBelowTarget

LEMMA AnchorIsTyped ==
    ASSUME NEW c \in Configs, NEW p \in Prices
    PROVE  /\ IsLadder(c[p])
           /\ LevelForPrice(c[p], p) \in -1 .. Top(c[p])
<1>1. IsLadder(c[p]) /\ p \in Int
  BY ConfigsGiveLadders, PricesArePositive
<1>2. Cardinality(DOMAIN c[p]) \in Nat /\ DOMAIN c[p] = 0 .. Cardinality(DOMAIN c[p]) - 1
  BY <1>1, FS_CardinalityType DEF IsLadder
<1>3. /\ LevelForPrice(c[p], p) \in Int
      /\ LevelForPrice(c[p], p) >= -1
      /\ LevelForPrice(c[p], p) >= 0 => LevelForPrice(c[p], p) \in DOMAIN c[p]
  BY <1>1, LevelStandsUnderPrice
<1> QED  BY <1>1, <1>2, <1>3 DEF Top

LEMMA RungsAreNat == Rungs \subseteq Nat
<1> SUFFICES ASSUME NEW c \in Configs, NEW p \in Prices  PROVE DOMAIN c[p] \subseteq Nat
  BY DEF Rungs
<1>1. IsLadder(c[p])
  BY AnchorIsTyped
<1>2. Cardinality(DOMAIN c[p]) \in Nat /\ DOMAIN c[p] = 0 .. Cardinality(DOMAIN c[p]) - 1
  BY <1>1, FS_CardinalityType DEF IsLadder
<1> QED  BY <1>2

LEMMA InitImpliesInv == Init => Inv
<1> SUFFICES ASSUME Init  PROVE Inv
  OBVIOUS
<1>1. center \in -1 .. Top(ladder)
  BY AnchorIsTyped DEF Init
<1> QED  BY <1>1 DEF Init, Inv, TypeOK, PaidBelowTarget, filled

(* What Decision is, in a state that is typed. *)
LEMMA DecisionHere ==
    ASSUME TypeOK
    PROVE  /\ Decision.action = "sell" => /\ Decision.level \in filled
                                          /\ Decision.level + 1 \in DOMAIN ladder
                                          /\ price >= ladder[Decision.level + 1]
           /\ Decision.action = "buy" => /\ Decision.level \in DOMAIN ladder
                                         /\ Decision.level \in Rungs
                                         /\ Decision.level + 1 \in DOMAIN ladder =>
                                               price < ladder[Decision.level + 1]
<1>1. PICK p \in Prices : ladder = gridFor[p]
  BY DEF TypeOK
<1>2. IsLadder(ladder)
  BY <1>1, AnchorIsTyped DEF TypeOK
<1>3. price \in Int /\ center \in Int /\ filled \subseteq Nat
  <2>1. Top(ladder) \in Int
    BY <1>2, FS_CardinalityType DEF IsLadder, Top
  <2> QED  BY <2>1, PricesArePositive, RungsAreNat DEF TypeOK
<1>4. DOMAIN ladder \subseteq Rungs
  BY <1>1 DEF Rungs, TypeOK
<1>5. Decision = Decide(ladder, price, filled, center)
  BY DEF Decision
<1> QED  BY <1>2, <1>3, <1>4, <1>5, DecisionIsSound

(* A buy is of the rung the price stands on. *)
LEMMA BuysWhereThePriceStands ==
    ASSUME TypeOK, Decision.action = "buy"
    PROVE  /\ Decision.level = LevelForPrice(ladder, price)
           /\ Decision.level \in DOMAIN ladder
           /\ Decision.level \notin filled /\ Decision.level <= center
<1> DEFINE idx   == LevelForPrice(ladder, price)
           sells == Sellable(ladder, price, filled)
<1>1. PICK p \in Prices : ladder = gridFor[p]
  BY DEF TypeOK
<1>2. IsLadder(ladder) /\ price \in Int
  BY <1>1, AnchorIsTyped, PricesArePositive DEF TypeOK
<1>3. idx \in Int /\ (idx >= 0 => idx \in DOMAIN ladder)
  BY <1>2, LevelStandsUnderPrice
<1>4. \/ Decision = Hold
      \/ Decision = [action |-> "sell", level |-> LeastOf(sells)]
      \/ /\ idx >= 0 /\ idx <= center /\ idx \notin filled
         /\ Decision = [action |-> "buy", level |-> idx]
  <2> HIDE DEF idx, sells
  <2> QED  BY <1>3 DEF Decision, Decide, idx, sells
<1> HIDE DEF idx, sells
<1>5. /\ idx >= 0 /\ idx <= center /\ idx \notin filled
      /\ Decision = [action |-> "buy", level |-> idx]
  BY <1>4 DEF Hold
<1>6. Decision.level = idx
  BY <1>5
<1> QED  BY <1>3, <1>5, <1>6 DEF idx

LEMMA NextKeepsInv == Inv /\ [Next]_vars => Inv'
<1> SUFFICES ASSUME Inv, [Next]_vars  PROVE Inv'
  OBVIOUS
<1> USE DEF Inv
<1>1. CASE MovePrice
  BY <1>1 DEF MovePrice, TypeOK, PaidBelowTarget, filled
<1>2. CASE Buy
  <2>1. filled' = filled \cup {Decision.level}
    BY <1>2 DEF Buy, filled
  <2>2. Decision.level \in Rungs
    BY <1>2, DecisionHere DEF Buy
  <2>3. TypeOK'
    BY <1>2, <2>1, <2>2 DEF Buy, TypeOK, filled
  <2>4. PaidBelowTarget'
    <3> SUFFICES ASSUME NEW i \in filled' \ carried', i+1 \in DOMAIN ladder'
                 PROVE  paid'[i] < ladder'[i+1]
      BY DEF PaidBelowTarget
    <3>1. CASE i = Decision.level
      BY <1>2, <2>1, <3>1, DecisionHere DEF Buy, filled
    <3>2. CASE i # Decision.level
      BY <1>2, <2>1, <3>2 DEF Buy, filled, PaidBelowTarget
    <3> QED  BY <3>1, <3>2
  <2> QED  BY <2>3, <2>4
<1>3. CASE Sell
  <2>1. filled' = filled \ {Decision.level}
    BY <1>3 DEF Sell, filled
  <2>2. \A i \in filled' : paid'[i] = paid[i]
    BY <1>3, <2>1 DEF Sell, filled
  <2>3. TypeOK'
    BY <1>3, <2>1, <2>2 DEF Sell, TypeOK, filled
  <2>4. PaidBelowTarget'
    BY <1>3, <2>1, <2>2 DEF Sell, PaidBelowTarget, filled
  <2> QED  BY <2>3, <2>4
<1>4. CASE Activate
  <2>1. center' \in -1 .. Top(ladder')
    BY <1>4, AnchorIsTyped DEF Activate, TypeOK
  <2>2. TypeOK'
    BY <1>4, <2>1 DEF Activate, TypeOK, filled
  <2>3. PaidBelowTarget'
    BY <1>4 DEF Activate, PaidBelowTarget, filled
  <2> QED  BY <2>2, <2>3
<1>5. CASE UNCHANGED vars
  BY <1>5 DEF vars, TypeOK, PaidBelowTarget, filled
<1> QED  BY <1>1, <1>2, <1>3, <1>4, <1>5 DEF Next, Poll

(* The trader's state stays within its types, the centre on the ladder.    *)
THEOREM TraderTypeCorrect == Spec => []TypeOK
<1>1. Inv => TypeOK
  BY DEF Inv
<1> QED  BY InitImpliesInv, NextKeepsInv, <1>1, PTL DEF Spec

(* Every sale of a lot bought on the ladder in force is at a higher price  *)
(* than its purchase, on any ladder build_grid can return.                 *)
THEOREM RoundTripsEarn == Spec => FreshLotsAreSoldAboveCost
<1> DEFINE Earns == \A i \in filled \ carried : i \notin DOMAIN paid' => price > paid[i]
<1>1. Inv /\ [Next]_vars => [Earns]_vars
  <2> SUFFICES ASSUME Inv, Next, NEW i \in filled \ carried, i \notin DOMAIN paid'
               PROVE  price > paid[i]
    OBVIOUS
  <2>1. Sell /\ i = Decision.level
    BY DEF Next, Poll, MovePrice, Buy, Sell, Activate, filled
  <2>2. i+1 \in DOMAIN ladder /\ price >= ladder[i+1]
    BY <2>1, DecisionHere DEF Sell, Inv
  <2>3. paid[i] < ladder[i+1]
    BY <2>2 DEF Inv, PaidBelowTarget
  <2>4. price \in Int /\ paid[i] \in Int /\ ladder[i+1] \in Int
    <3>1. PICK p \in Prices : ladder = gridFor[p]
      BY DEF Inv, TypeOK
    <3>2. IsLadder(ladder)
      BY <3>1, AnchorIsTyped DEF Inv, TypeOK
    <3> QED  BY <2>2, <3>2, PricesArePositive DEF Inv, TypeOK, IsLadder
  <2> QED  BY <2>2, <2>3, <2>4
<1> QED  BY InitImpliesInv, NextKeepsInv, <1>1, PTL DEF Spec, FreshLotsAreSoldAboveCost

(* Every announced order whose trigger the price has reached makes the     *)
(* decision, and every decision is one of them, for any ladder, inventory  *)
(* and price: the two rules, each written out on its own, agree.           *)
THEOREM AnnouncementsAreTrue == Spec => []AnnouncedOrdersMirrorDecide
<1>1. TypeOK => AnnouncedOrdersMirrorDecide
  <2> SUFFICES ASSUME TypeOK  PROVE AnnouncedOrdersMirrorDecide
    OBVIOUS
  <2> DEFINE idx       == LevelForPrice(ladder, price)
             sellable  == Sellable(ladder, price, filled)
             orders    == PendingOrders(ladder, filled, center)
             triggered == {o \in orders :
                             /\ o.trigger # NoTrigger /\ price >= o.trigger
                             /\ o.side = "buy" => o.level = idx}
  <2>1. IsLadder(ladder)
    BY AnchorIsTyped DEF TypeOK
  <2>2. /\ price \in Int /\ price > 0 /\ filled \subseteq Nat
        /\ \A i \in DOMAIN ladder : ladder[i] \in Int /\ ladder[i] > 0
    BY <2>1, PricesArePositive, RungsAreNat DEF TypeOK, IsLadder
  <2>3. Cardinality(DOMAIN ladder) \in Nat /\ DOMAIN ladder = 0 .. Cardinality(DOMAIN ladder) - 1
    BY <2>1, FS_CardinalityType DEF IsLadder
  <2>4. /\ idx \in Int /\ idx >= -1
        /\ idx >= 0 => idx \in DOMAIN ladder /\ ladder[idx] <= price
        /\ idx+1 \in DOMAIN ladder => price < ladder[idx+1]
    BY <2>1, <2>2, LevelStandsUnderPrice
  <2>5. sellable # {} => LeastOf(sellable) \in sellable
    BY <2>2, LeastIsThere DEF Sellable
  <2>6. sellable # {} => idx >= 0
    <3> SUFFICES ASSUME NEW i \in sellable, idx < 0  PROVE FALSE
      BY <2>4
    <3>1. i \in Nat /\ i+1 \in DOMAIN ladder /\ price >= ladder[i+1]
      BY <2>2 DEF Sellable
    <3>2. 0 \in DOMAIN ladder /\ ladder[0] < ladder[i+1]
      BY <2>1, <2>3, <3>1 DEF IsLadder
    <3>3. price < ladder[0]
      BY <2>4, <3>2
    <3> QED  BY <2>2, <3>1, <3>2, <3>3
  <2>7. /\ sellable # {} =>
               Decision = [action |-> "sell", level |-> LeastOf(sellable)]
        /\ sellable = {} /\ idx >= 0 /\ idx <= center /\ idx \notin filled =>
               Decision = [action |-> "buy", level |-> idx]
        /\ \/ Decision.action = "hold"
           \/ sellable # {}
           \/ idx >= 0 /\ idx <= center /\ idx \notin filled
    <3> HIDE DEF idx, sellable
    <3> QED  BY <2>2, <2>4, <2>6 DEF Decision, Decide, Hold, idx, sellable
  <2>8. Decision.action # "hold" =>
            \E o \in triggered : o.side = Decision.action /\ o.level = Decision.level
    <3>1. CASE sellable # {}
      <4> DEFINE i == LeastOf(sellable)
                 o == [level |-> i, side |-> "sell", trigger |-> ladder[i+1]]
      <4>1. i \in filled /\ i \in DOMAIN ladder /\ i+1 \in DOMAIN ladder /\ price >= ladder[i+1]
        <5>1. i \in sellable
          BY <2>5, <3>1
        <5>2. i \in filled /\ i \in Nat /\ i+1 \in DOMAIN ladder /\ price >= ladder[i+1]
          BY <2>2, <5>1 DEF Sellable
        <5> HIDE DEF i
        <5> QED  BY <2>3, <5>2
      <4>2. o.level = i /\ o.side = "sell" /\ o.trigger = ladder[i+1]
        OBVIOUS
      <4>3. o \in orders
        <5> HIDE DEF i
        <5> QED  BY <4>1 DEF PendingOrders
      <4>4. o \in triggered
        <5> HIDE DEF i, o, orders
        <5> QED  BY <2>2, <4>1, <4>2, <4>3 DEF NoTrigger
      <4> HIDE DEF o, triggered
      <4> QED  BY <2>7, <3>1, <4>2, <4>4
    <3>2. CASE sellable = {} /\ idx >= 0 /\ idx <= center /\ idx \notin filled
      <4> DEFINE o == [level |-> idx, side |-> "buy", trigger |-> ladder[idx]]
      <4>1. o.level = idx /\ o.side = "buy" /\ o.trigger = ladder[idx]
        OBVIOUS
      <4>2. o \in orders
        <5> HIDE DEF idx
        <5> QED  BY <2>4, <3>2 DEF PendingOrders
      <4>3. o \in triggered
        <5> HIDE DEF idx, o, orders
        <5> QED  BY <2>2, <2>4, <3>2, <4>1, <4>2 DEF NoTrigger
      <4> HIDE DEF o, triggered
      <4> QED  BY <2>7, <3>2, <4>1, <4>3
    <3> HIDE DEF triggered, sellable, idx
    <3> QED  BY <2>7, <3>1, <3>2
  <2>9. triggered # {} => Decision.action # "hold"
    <3> SUFFICES ASSUME NEW o \in triggered  PROVE Decision.action # "hold"
      OBVIOUS
    <3>1. CASE o.side = "sell"
      <4>1. o.level \in filled /\ o.level + 1 \in DOMAIN ladder /\ price >= ladder[o.level + 1]
        BY <3>1 DEF PendingOrders, NoTrigger
      <4>2. o.level \in sellable
        BY <4>1 DEF Sellable
      <4> HIDE DEF sellable
      <4> QED  BY <2>7, <4>2
    <3>2. CASE o.side = "buy"
      <4>1. o.level = idx /\ idx \in DOMAIN ladder /\ idx \notin filled /\ idx <= center
        BY <3>2 DEF PendingOrders
      <4>2. idx >= 0
        BY <2>3, <4>1
      <4> HIDE DEF sellable, idx
      <4> QED  BY <2>7, <4>1, <4>2
    <3>3. o.side \in {"sell", "buy"}
      BY DEF PendingOrders
    <3> QED  BY <3>1, <3>2, <3>3
  <2> HIDE DEF orders
  <2> QED  BY <2>8, <2>9 DEF AnnouncedOrdersMirrorDecide, orders
<1> QED  BY TraderTypeCorrect, <1>1, PTL

(* At one price, whatever it is and whatever lots there are, each trade    *)
(* uses up one of the rungs that are due and adds none.                    *)
THEOREM TradingRunsOut == Spec => TradesRunOut
<1> DEFINE RunsOut == filled' # filled => \E i \in Due : Due' = Due \ {i}
<1>1. TypeOK /\ [Next]_vars => [RunsOut]_vars
  <2> SUFFICES ASSUME TypeOK, Next, filled' # filled
               PROVE  \E i \in Due : Due' = Due \ {i}
    OBVIOUS
  <2> DEFINE idx    == LevelForPrice(ladder, price)
             i      == Decision.level
             Buyable(held) == {k \in DOMAIN ladder \ held : k = idx /\ k <= center}
  <2>1. /\ (Buy \/ Sell) /\ UNCHANGED <<price, ladder, center>>
        /\ \/ Decision.action = "buy" /\ filled' = filled \cup {i}
           \/ Decision.action = "sell" /\ filled' = filled \ {i}
    <3>1. ~MovePrice /\ ~Activate
      BY DEF MovePrice, Activate, filled
    <3>2. CASE Buy
      <4>1. filled' = filled \cup {i}
        <5> HIDE DEF i
        <5> QED  BY <3>2 DEF Buy, filled, i
      <4> QED  BY <3>2, <4>1 DEF Buy
    <3>3. CASE Sell
      <4>1. filled' = filled \ {i}
        <5> HIDE DEF i
        <5> QED  BY <3>3 DEF Sell, filled, i
      <4> QED  BY <3>3, <4>1 DEF Sell
    <3> QED  BY <3>1, <3>2, <3>3 DEF Next, Poll
  <2>2. IsLadder(ladder)
    BY AnchorIsTyped DEF TypeOK
  <2>3. /\ price \in Int /\ center \in Int /\ filled \subseteq Nat
        /\ \A k \in DOMAIN ladder : ladder[k] \in Int
    <3>1. Top(ladder) \in Int
      BY <2>2, FS_CardinalityType DEF IsLadder, Top
    <3> QED  BY <2>2, <3>1, PricesArePositive, RungsAreNat DEF TypeOK, IsLadder
  <2>4. /\ idx \in Int
        /\ idx >= 0 => idx \in DOMAIN ladder /\ ladder[idx] <= price
        /\ idx+1 \in DOMAIN ladder => price < ladder[idx+1]
    BY <2>2, <2>3, LevelStandsUnderPrice
  <2>5. /\ Due = Sellable(ladder, price, filled) \cup Buyable(filled)
        /\ Due' = Sellable(ladder, price, filled') \cup Buyable(filled')
    BY <2>1 DEF Due
  <2>6. CASE Decision.action = "buy" /\ filled' = filled \cup {i}
    <3>1. i = idx /\ i \in DOMAIN ladder /\ i \notin filled /\ i <= center
      BY <2>6, BuysWhereThePriceStands
    <3>2. Sellable(ladder, price, filled') = Sellable(ladder, price, filled)
      BY <2>3, <2>4, <2>6, <3>1 DEF Sellable
    <3>3. i \in Buyable(filled) /\ Buyable(filled') = {} /\ Buyable(filled) = {i}
      BY <2>6, <3>1
    <3>4. i \notin Sellable(ladder, price, filled)
      BY <3>1 DEF Sellable
    <3> HIDE DEF i, idx, Buyable
    <3> QED  BY <2>5, <3>2, <3>3, <3>4
  <2>7. CASE Decision.action = "sell" /\ filled' = filled \ {i}
    <3>1. i \in filled /\ i+1 \in DOMAIN ladder /\ price >= ladder[i+1]
      BY <2>7, DecisionHere
    <3>2. i # idx
      BY <2>3, <2>4, <3>1
    <3>3. Sellable(ladder, price, filled') = Sellable(ladder, price, filled) \ {i}
      BY <2>7 DEF Sellable
    <3>4. Buyable(filled') = Buyable(filled) /\ i \notin Buyable(filled)
      BY <2>7, <3>1, <3>2
    <3>5. i \in Sellable(ladder, price, filled)
      BY <3>1 DEF Sellable
    <3> HIDE DEF i, idx, Buyable
    <3> QED  BY <2>5, <3>3, <3>4, <3>5
  <2> QED  BY <2>1, <2>6, <2>7
<1> QED  BY TraderTypeCorrect, <1>1, PTL DEF Spec, TradesRunOut
=============================================================================
