---------------------------- MODULE MoneyProofs ----------------------------
(***************************************************************************)
(* Theorems of Money.tla, for every set of prices and ladders, every fee   *)
(* and limit, and every number of traders.                                 *)
(***************************************************************************)
EXTENDS Money, GridProofs, SumProofs, SequenceTheorems

-----------------------------------------------------------------------------
(* The last trade at a level *)

(* b is the position of the last of the first n trades at level l.         *)
IsLast(log, n, l, b) ==
    /\ b \in 1 .. n
    /\ log[b].level = l
    /\ \A j \in b+1 .. n : log[j].level # l

LEMMA MaxIsThere ==
    ASSUME NEW n \in Nat, NEW S \in SUBSET (1 .. n), S # {}
    PROVE  Max(S) \in S /\ \A j \in S : Max(S) >= j
<1> DEFINE R == {n - j : j \in S}
<1>1. \A j \in S : j \in Nat /\ n - j \in Nat
  OBVIOUS
<1>2. R \subseteq Nat /\ R # {}
  BY <1>1
<1>3. LeastOf(R) \in R /\ \A j \in R : LeastOf(R) <= j
  BY <1>2, LeastIsThere
<1>4. PICK x \in S : LeastOf(R) = n - x
  BY <1>3
<1>5. \A j \in S : n - x <= n - j
  BY <1>3, <1>4
<1>6. \A j \in S : x >= j
  BY <1>1, <1>5
<1> QED  BY <1>4, <1>6 DEF Max

LastAt(log, n, l) == SelectLastInSubSeq(log, 1, n, LAMBDA t : t.level = l)

LEMMA LastOfSome ==
    ASSUME NEW n \in Nat, NEW log, NEW l, NEW b, b = LastAt(log, n, l), b # 0
    PROVE  IsLast(log, n, l, b)
<1> DEFINE S == {i \in 1 .. n : log[i].level = l}
<1>1. S # {} /\ b = Max(S)
  BY DEF LastAt, SelectLastInSubSeq
<1>2. b \in S /\ \A j \in S : b >= j
  BY <1>1, MaxIsThere
<1>3. b \in 1 .. n /\ log[b].level = l
  BY <1>2
<1>4. ASSUME NEW j \in b+1 .. n  PROVE log[j].level # l
  <2>1. j \in 1 .. n /\ ~(b >= j)
    BY <1>3
  <2> QED  BY <1>2, <2>1
<1> QED  BY <1>3, <1>4 DEF IsLast

LEMMA LastIsSelected ==
    ASSUME NEW n \in Nat, NEW log, NEW l, NEW b, IsLast(log, n, l, b)
    PROVE  LastAt(log, n, l) = b
<1> DEFINE S == {i \in 1 .. n : log[i].level = l}
<1>1. b \in S /\ \A j \in S : b >= j
  BY DEF IsLast
<1>2. Max(S) = b
  <2>1. Max(S) \in S /\ \A j \in S : Max(S) >= j
    BY <1>1, MaxIsThere
  <2> HIDE DEF S
  <2>2. S \subseteq Nat
    BY DEF S
  <2>3. b >= Max(S) /\ Max(S) >= b /\ b \in Nat /\ Max(S) \in Nat
    BY <1>1, <2>1, <2>2, Zenon
  <2>4. \A x, y \in Nat : x >= y /\ y >= x => x = y
    OBVIOUS
  <2> QED  BY <2>3, <2>4, Zenon
<1>3. LastAt(log, n, l) = IF S # {} THEN Max(S) ELSE 0
  BY Zenon DEF LastAt, SelectLastInSubSeq
<1> HIDE DEF S
<1> QED  BY <1>1, <1>2, <1>3

-----------------------------------------------------------------------------
(* What each step does to the ledger and the log *)

LEMMA Assumed ==
    /\ Prices \subseteq Nat \ {0} /\ OrderSizes \subseteq Nat \ {0}
    /\ \A p \in Prices : IsLadder(GridFor[p])
    /\ \A g \in Reshapes : IsLadder(g)
    /\ Fee \in Nat /\ MaxCapital \in Nat /\ MaxDailyLoss \in Nat /\ ProbeRungs \in Nat
    /\ Traders \in Nat /\ MaxTrades \in Nat /\ LastDay \in Nat
<1>1. {Fee, MaxCapital, MaxDailyLoss, ProbeRungs, Traders, MaxTrades, LastDay} \subseteq Nat
  BY MoneyAssumption
<1>2. \A p \in Prices : IsLadder(GridFor[p])
  BY MoneyAssumption
<1>3. \A n \in Prices \cup OrderSizes : n \in Nat /\ n > 0
  BY MoneyAssumption
<1> QED  BY <1>1, <1>2, <1>3, MoneyAssumption

LEMMA DecisionFits ==
    ASSUME TypeOK
    PROVE  /\ Decision.action = "buy" =>
                Decision.level \in Nat /\ Decision.level \notin filled /\ Decision.level <= center
           /\ Decision.action = "sell" => Decision.level \in filled
<1>1. price \in Int
  BY Assumed DEF TypeOK
<1>2. (IsLadder(ladder) \/ ladder = NoGrid) /\ filled \subseteq Nat /\ center \in Int
  BY DEF TypeOK
<1>3. Decision = Decide(ladder, price, filled, center)
  BY DEF Decision
<1> QED  BY <1>1, <1>2, <1>3, DecisionIsSound DEF filled

(* A buy opens a lot and logs what it cost. *)
LEMMA BuyOpensALot ==
    ASSUME TypeOK, StepBuys
    PROVE  \E i \in Nat \ filled, order \in OrderSizes :
              /\ WithinCeiling(trades, order)
              /\ Bought(i, order) \in Trade
              /\ trades' = Append(trades, Bought(i, order))
              /\ filled' = filled \cup {i}
              /\ lots'[i] = [cost |-> order, base |-> Bought(i, order).base]
              /\ \A j \in filled : lots'[j] = lots[j]
              /\ ready > 0 /\ ready' = ready - 1
              /\ Len(trades) < MaxTrades
              /\ UNCHANGED <<price, day, ladder, center, closed, forgotten, tangled>>
<1> DEFINE i == Decision.level
<1>1. i \in Nat \ filled
  BY DecisionFits DEF StepBuys
<1>2. PICK order \in OrderSizes :
        /\ WithinCeiling(trades, order)
        /\ BaseOut(order) > 0
        /\ lots' = [j \in filled \cup {i} |->
                      IF j \in filled THEN lots[j] ELSE [cost |-> order, base |-> BaseOut(order)]]
        /\ trades' = Append(trades, Bought(i, order))
  BY DEF StepBuys
<1> HIDE DEF i
<1>3. BaseOut(order) \in Nat \ {0}
  <2>1. order \in Nat \ {0} /\ price \in Nat \ {0}
    BY Assumed DEF TypeOK
  <2>2. order \div price \in Int
    BY <2>1
  <2> QED  BY <1>2, <2>2 DEF BaseOut
<1>4. Bought(i, order) \in Trade
  <2>1. order \in Nat /\ day \in 0 .. LastDay
    BY Assumed DEF TypeOK
  <2> QED  BY <1>1, <1>3, <2>1 DEF Bought, Trade
<1>5. /\ filled' = filled \cup {i}
      /\ lots'[i] = [cost |-> order, base |-> Bought(i, order).base]
      /\ \A j \in filled : lots'[j] = lots[j]
  <2>1. filled' = filled \cup {i}
    BY <1>2 DEF filled
  <2>2. \A j \in filled \cup {i} :
          lots'[j] = IF j \in filled THEN lots[j] ELSE [cost |-> order, base |-> BaseOut(order)]
    BY <1>2
  <2>3. Bought(i, order).base = BaseOut(order)
    BY DEF Bought
  <2> QED  BY <1>1, <2>1, <2>2, <2>3
<1> QED  BY <1>1, <1>2, <1>4, <1>5 DEF StepBuys, history

(* The sales of a step: the lots of n different rungs, one after another. *)
AreSales(n, rungs) ==
    /\ n \in Nat /\ rungs \in [1 .. n -> filled]
    /\ \A a, b \in 1 .. n : rungs[a] = rungs[b] => a = b
    /\ Sell(rungs)

LEMMA SellingSteps ==
    ASSUME TypeOK, StepSells \/ Cancel
    PROVE  /\ \E n, rungs : AreSales(n, rungs)
           /\ UNCHANGED <<price, day, forgotten, tangled>>
           /\ ready' = ready \/ (ready > 0 /\ ready' = ready - 1)
           /\ ladder' \in {ladder, NoGrid} /\ center' \in {center, 0}
<1>1. CASE StepSells
  <2>1. Decision.level \in filled /\ Sell(<<Decision.level>>)
    BY <1>1, DecisionFits DEF StepSells
  <2>2. AreSales(1, <<Decision.level>>)
    <3> DEFINE i == Decision.level
    <3>1. <<i>> \in [1 .. 1 -> filled] /\ \A a, b \in 1 .. 1 : a = b
      BY <2>1
    <3> HIDE DEF i
    <3> QED  BY <2>1, <3>1 DEF AreSales, i
  <2> QED  BY <1>1, <2>2 DEF StepSells
<1>2. CASE Cancel
  <2>1. PICK sold \in SUBSET filled :
           /\ \E rungs \in Ascending(sold) : Sell(rungs)
           /\ ladder' = IF sold = filled THEN NoGrid ELSE ladder
           /\ center' = IF sold = filled THEN 0 ELSE center
           /\ UNCHANGED <<price, day, ready, forgotten, tangled>>
    BY <1>2 DEF Cancel
  <2>2. PICK rungs \in Ascending(sold) : Sell(rungs)
    BY <2>1
  <2> DEFINE n == Cardinality(sold)
  <2>3. n \in Nat /\ sold \subseteq Nat
    BY FS_CardinalityType, FS_Subset DEF TypeOK
  <2>4. rungs \in [1 .. n -> sold] /\ \A a, b \in DOMAIN rungs : a < b => rungs[a] < rungs[b]
    BY DEF Ascending
  <2> HIDE DEF n
  <2>5. ASSUME NEW a \in 1 .. n, NEW b \in 1 .. n, a < b  PROVE rungs[a] # rungs[b]
    <3>1. rungs[a] \in Nat /\ rungs[b] \in Nat /\ rungs[a] < rungs[b]
      BY <2>3, <2>4, <2>5
    <3> QED  BY <3>1
  <2>6. \A a, b \in 1 .. n : rungs[a] = rungs[b] => a = b
    <3> SUFFICES ASSUME NEW a \in 1 .. n, NEW b \in 1 .. n, rungs[a] = rungs[b], a # b
                 PROVE  FALSE
      OBVIOUS
    <3>1. a < b \/ b < a
      BY <2>3
    <3> QED  BY <2>5, <3>1
  <2>7. AreSales(n, rungs)
    BY <2>2, <2>3, <2>4, <2>6 DEF AreSales
  <2>8. UNCHANGED <<price, day, ready, forgotten, tangled>> /\ ladder' \in {ladder, NoGrid} /\ center' \in {center, 0}
    BY <2>1
  <2> QED  BY <2>7, <2>8
<1> QED  BY <1>1, <1>2

LEMMA SalesAreLogged ==
    ASSUME TypeOK, NEW n, NEW rungs, AreSales(n, rungs)
    PROVE  /\ \A a \in 1 .. n : SaleOf(rungs[a]) \in Trade
           /\ trades' \in Seq(Trade)
           /\ Len(trades') = Len(trades) + n /\ Len(trades') <= MaxTrades
           /\ \A k \in 1 .. Len(trades) : trades'[k] = trades[k]
           /\ \A a \in 1 .. n : trades'[Len(trades) + a] = SaleOf(rungs[a])
<1> DEFINE L == Len(trades)
           sales == [a \in DOMAIN rungs |-> SaleOf(rungs[a])]
<1>1. n \in Nat /\ rungs \in [1 .. n -> filled] /\ Sell(rungs) /\ DOMAIN rungs = 1 .. n
  BY DEF AreSales
<1>2. rungs \in Seq(filled) /\ Len(rungs) = n
  BY <1>1
<1>3. \A a \in 1 .. n : SaleOf(rungs[a]) \in Trade
  <2> SUFFICES ASSUME NEW a \in 1 .. n  PROVE SaleOf(rungs[a]) \in Trade
    OBVIOUS
  <2> DEFINE i == rungs[a]
             lot == lots[i]
  <2>1. i \in filled /\ i \in Nat /\ lot \in [cost : OrderSizes, base : Nat \ {0}] /\ day \in 0 .. LastDay
    BY <1>1 DEF TypeOK
  <2>2. price \in Nat /\ Fee \in Nat
    BY Assumed DEF TypeOK
  <2>3. QuoteOut(lot.base) \in Nat
    <3>1. \A b, p, f \in Nat : (IF b * p > f THEN b * p - f ELSE 0) \in Nat
      <4>1. \A b, p \in Nat : b * p \in Nat
        OBVIOUS
      <4>2. \A x, f \in Nat : (IF x > f THEN x - f ELSE 0) \in Nat
        OBVIOUS
      <4> QED  BY <4>1, <4>2, Zenon
    <3>2. lot.base \in Nat
      BY <2>1
    <3> QED  BY <2>2, <3>1, <3>2, Zenon DEF QuoteOut
  <2> DEFINE q == QuoteOut(lot.base)
             b == lot.base
  <2>4. SaleOf(i) = [side |-> "sell", level |-> i, quote |-> q, base |-> b, day |-> day]
    BY Zenon DEF SaleOf
  <2>5. i \in Nat /\ q \in Nat /\ b \in Nat \ {0} /\ day \in 0 .. LastDay
    BY <2>1, <2>3
  <2> HIDE DEF i, q, b, lot
  <2>6. [side |-> "sell", level |-> i, quote |-> q, base |-> b, day |-> day] \in Trade
    BY <2>5 DEF Trade
  <2> QED  BY <2>4, <2>6 DEF i
<1>4. trades \in Seq(Trade) /\ L \in Nat
  BY DEF TypeOK
<1>5. sales \in Seq(Trade) /\ Len(sales) = n /\ \A a \in 1 .. n : sales[a] = SaleOf(rungs[a])
  BY <1>1, <1>3
<1>6. trades' = trades \o sales /\ L + n <= MaxTrades
  BY <1>1, <1>2 DEF Sell
<1> HIDE DEF sales, L
<1>7. /\ trades' \in Seq(Trade)
      /\ Len(trades') = L + n
      /\ \A k \in 1 .. L + n : trades'[k] = IF k <= L THEN trades[k] ELSE sales[k - L]
  BY <1>4, <1>5, <1>6, ConcatProperties DEF L
<1>8. \A k \in 1 .. L : trades'[k] = trades[k]
  BY <1>1, <1>4, <1>7
<1>9. \A a \in 1 .. n : trades'[L + a] = SaleOf(rungs[a])
  <2>1. \A a \in 1 .. n : L + a \in 1 .. L + n /\ ~(L + a <= L) /\ (L + a) - L = a
    BY <1>1, <1>4
  <2> QED  BY <1>5, <1>7, <2>1
<1> QED  BY <1>3, <1>6, <1>7, <1>8, <1>9 DEF L

LEMMA SalesTakeLots ==
    ASSUME TypeOK, NEW n, NEW rungs, AreSales(n, rungs)
    PROVE  /\ filled' = filled \ {rungs[a] : a \in 1 .. n}
           /\ \A i \in filled' : lots'[i] = lots[i]
<1>1. n \in Nat /\ rungs \in [1 .. n -> filled] /\ Sell(rungs)
  BY DEF AreSales
<1>2. lots' = [i \in filled \ Range(rungs) |-> lots[i]] /\ Range(rungs) = {rungs[a] : a \in 1 .. n}
  BY <1>1 DEF Sell, Range
<1> QED  BY <1>2 DEF filled

(* What the ledger gains when n sales are booked, in the order of rungs.    *)
SalesEnter(n, rungs) ==
    /\ DOMAIN closed' = DOMAIN closed \cup {Len(trades) + a : a \in 1 .. n}
    /\ \A k \in DOMAIN closed : closed'[k] = closed[k]

SalesTell(n, rungs) ==
    \A a \in 1 .. n :
       closed'[Len(trades) + a] = [profit |-> SaleOf(rungs[a]).quote - lots[rungs[a]].cost, day |-> day]

LEMMA SalesAreBooked ==
    ASSUME TypeOK, NEW n, NEW rungs, AreSales(n, rungs)
    PROVE  SalesEnter(n, rungs) /\ SalesTell(n, rungs)
<1> DEFINE L == Len(trades)
<1>1. n \in Nat /\ rungs \in [1 .. n -> filled] /\ Sell(rungs) /\ Len(rungs) = n /\ L \in Nat
  BY DEF AreSales, TypeOK
<1>2. /\ DOMAIN closed' = DOMAIN closed \cup (L + 1 .. L + n)
      /\ \A k \in DOMAIN closed : closed'[k] = closed[k]
      /\ \A k \in (L + 1 .. L + n) \ DOMAIN closed :
            closed'[k] = [profit |-> SaleOf(rungs[k - L]).quote - lots[rungs[k - L]].cost, day |-> day]
  BY <1>1 DEF Sell
<1> HIDE DEF L
<1>3. \A a \in 1 .. n : /\ L + a \in (L + 1 .. L + n) \ DOMAIN closed
                        /\ (L + a) - L = a
  <2>1. DOMAIN closed \subseteq 1 .. L
    BY <1>1, LenProperties DEF TypeOK, L
  <2> QED  BY <1>1, <2>1
<1>4. L + 1 .. L + n = {L + a : a \in 1 .. n}
  <2>1. \A k \in L + 1 .. L + n : k - L \in 1 .. n /\ k = L + (k - L)
    BY <1>1
  <2> QED  BY <1>1, <2>1
<1>5. \A a \in 1 .. n :
         closed'[L + a] = [profit |-> SaleOf(rungs[a]).quote - lots[rungs[a]].cost, day |-> day]
  BY <1>2, <1>3
<1>6. SalesTell(n, rungs)
  BY <1>5, Zenon DEF L, SalesTell
<1> QED  BY <1>2, <1>4, <1>6, Zenon DEF L, SalesEnter

-----------------------------------------------------------------------------
(* Sums over a log that grows, and over ledgers that gain and lose lots    *)

LEMMA TotalGrows ==
    ASSUME NEW f, NEW g, NEW T, IsFiniteSet(DOMAIN f), IsFiniteSet(T),
           DOMAIN f \cap T = {}, DOMAIN g = DOMAIN f \cup T,
           \A i \in DOMAIN f : f[i] \in Int /\ g[i] = f[i],
           \A i \in T : g[i] \in Int
    PROVE  SumFunction(g) = SumFunction(f) + SumFunctionOnSet(g, T)
<1> DEFINE S == DOMAIN f
<1>1. SumFunctionOnSet(g, S \cup T) = SumFunctionOnSet(g, S) + SumFunctionOnSet(g, T)
  <2>1. \A i \in S \cup T : g[i] \in Int
    OBVIOUS
  <2> HIDE DEF S
  <2> QED  BY <2>1, SumOfUnion DEF S
<1>2. SumFunctionOnSet(f, S) = SumFunctionOnSet(g, S)
  BY SumOfSame
<1> QED  BY <1>1, <1>2, Zenon DEF SumFunction

LEMMA SumOfOne ==
    ASSUME NEW f, NEW x, f[x] \in Int
    PROVE  SumFunctionOnSet(f, {x}) = f[x]
<1>1. SumFunctionOnSet(f, {} \cup {x}) = SumFunctionOnSet(f, {}) + f[x]
  BY SumWith, FS_EmptySet
<1>2. {} \cup {x} = {x} /\ 0 + f[x] = f[x]
  OBVIOUS
<1> QED  BY <1>1, <1>2, SumOfNone

LEMMA PositionsAreFinite == ASSUME NEW n \in Nat PROVE IsFiniteSet(1 .. n)
<1>1. 1 \in Int /\ n \in Int
  OBVIOUS
<1> QED  BY <1>1, FS_Interval, Zenon

Names(h, n) == {h[a] : a \in 1 .. n}

(* Two sums over the same n things, each with names of its own.            *)
LEMMA SumsOfTheSame ==
    ASSUME NEW n \in Nat, NEW f, NEW g, NEW h, NEW r,
           \A a \in 1 .. n : f[h[a]] \in Int /\ f[h[a]] = g[r[a]],
           \A a, b \in 1 .. n : h[a] = h[b] => a = b,
           \A a, b \in 1 .. n : r[a] = r[b] => a = b
    PROVE  /\ IsFiniteSet(Names(h, n))
           /\ SumFunctionOnSet(f, Names(h, n)) = SumFunctionOnSet(g, Names(r, n))
<1> DEFINE N == 1 .. n
           e == [a \in N |-> f[h[a]]]
<1>1. IsFiniteSet(N)
  BY PositionsAreFinite
<1>2. /\ \A a \in N : e[a] \in Int /\ e[a] = f[h[a]]
      /\ \A a \in N : e[a] \in Int /\ e[a] = g[r[a]]
      /\ \A a, b \in N : h[a] = h[b] => a = b
      /\ \A a, b \in N : r[a] = r[b] => a = b
  OBVIOUS
<1> HIDE DEF N, e
<1>3. /\ IsFiniteSet({h[a] : a \in N})
      /\ SumFunctionOnSet(e, N) = SumFunctionOnSet(f, {h[a] : a \in N})
  BY <1>1, <1>2, SumRenamed
<1>4. /\ IsFiniteSet({r[a] : a \in N})
      /\ SumFunctionOnSet(e, N) = SumFunctionOnSet(g, {r[a] : a \in N})
  BY <1>1, <1>2, SumRenamed
<1> QED  BY <1>3, <1>4 DEF N, Names

QuotesOf(log, side) == [k \in Side(log, side) |-> log[k].quote]
BasesOf(log, side)  == [k \in Side(log, side) |-> log[k].base]

LEMMA SidesAreFinite ==
    ASSUME NEW log \in Seq(Trade), NEW side
    PROVE  /\ IsFiniteSet(Side(log, side)) /\ Side(log, side) \subseteq 1 .. Len(log)
           /\ \A k \in Side(log, side) : QuotesOf(log, side)[k] \in Nat /\ BasesOf(log, side)[k] \in Nat
           /\ Quote(log, side) \in Nat /\ Base(log, side) \in Nat
<1>1. Len(log) \in Nat /\ DOMAIN log = 1 .. Len(log)
  BY LenProperties
<1>2. IsFiniteSet(Side(log, side)) /\ Side(log, side) \subseteq 1 .. Len(log)
  <2>1. IsFiniteSet(1 .. Len(log)) /\ Side(log, side) \subseteq 1 .. Len(log)
    BY <1>1, PositionsAreFinite DEF Side
  <2> QED  BY <2>1, FS_Subset
<1>3. \A k \in Side(log, side) : log[k].quote \in Nat /\ log[k].base \in Nat
  <2> SUFFICES ASSUME NEW k \in Side(log, side)  PROVE log[k].quote \in Nat /\ log[k].base \in Nat
    OBVIOUS
  <2>1. log[k] \in Trade
    BY <1>2, ElementOfSeq
  <2> QED  BY <2>1 DEF Trade
<1>4. \A k \in Side(log, side) : QuotesOf(log, side)[k] \in Nat /\ BasesOf(log, side)[k] \in Nat
  BY <1>3 DEF QuotesOf, BasesOf
<1>5. /\ SumFunctionOnSet(QuotesOf(log, side), Side(log, side)) \in Nat
      /\ SumFunctionOnSet(BasesOf(log, side), Side(log, side)) \in Nat
  BY <1>2, <1>4, SumIsNat
<1>6. /\ Quote(log, side) = SumFunctionOnSet(QuotesOf(log, side), Side(log, side))
      /\ Base(log, side) = SumFunctionOnSet(BasesOf(log, side), Side(log, side))
  <2>1. DOMAIN QuotesOf(log, side) = Side(log, side) /\ DOMAIN BasesOf(log, side) = Side(log, side)
    BY DEF QuotesOf, BasesOf
  <2> QED  BY <2>1, Zenon DEF Quote, Base, QuotesOf, BasesOf, SumFunction
<1> QED  BY <1>2, <1>4, <1>5, <1>6

(* The trades of one side that a longer log adds. *)
Added(log, more, side) == {k \in Len(log) + 1 .. Len(more) : more[k].side = side}

LEMMA LongerLog ==
    ASSUME NEW log \in Seq(Trade), NEW more \in Seq(Trade), Len(log) <= Len(more),
           \A k \in 1 .. Len(log) : more[k] = log[k],
           NEW side
    PROVE  /\ Quote(more, side) =
                Quote(log, side) + SumFunctionOnSet(QuotesOf(more, side), Added(log, more, side))
           /\ Base(more, side) =
                Base(log, side) + SumFunctionOnSet(BasesOf(more, side), Added(log, more, side))
<1> DEFINE S == Side(log, side)
           T == Added(log, more, side)
<1>1. /\ Len(log) \in Nat /\ DOMAIN log = 1 .. Len(log)
      /\ Len(more) \in Nat /\ DOMAIN more = 1 .. Len(more)
  BY LenProperties
<1>2. S \cap T = {} /\ Side(more, side) = S \cup T
  <2>1. S = {k \in 1 .. Len(log) : more[k].side = side}
    BY <1>1 DEF Side
  <2>2. Side(more, side) = {k \in 1 .. Len(more) : more[k].side = side}
    BY <1>1 DEF Side
  <2> QED  BY <1>1, <2>1, <2>2 DEF Added
<1>3. IsFiniteSet(S) /\ IsFiniteSet(T)
  <2>1. IsFiniteSet(Side(more, side)) /\ IsFiniteSet(S)
    BY SidesAreFinite
  <2> QED  BY <1>2, <2>1, FS_Subset
<1>4. \A k \in S : more[k] = log[k]
  BY <1>1 DEF Side
<1>5. /\ \A k \in S : QuotesOf(log, side)[k] \in Int /\ QuotesOf(more, side)[k] = QuotesOf(log, side)[k]
      /\ \A k \in S : BasesOf(log, side)[k] \in Int /\ BasesOf(more, side)[k] = BasesOf(log, side)[k]
  <2>1. \A k \in S : QuotesOf(log, side)[k] \in Int /\ BasesOf(log, side)[k] \in Int
    BY SidesAreFinite
  <2>2. /\ \A k \in S : QuotesOf(more, side)[k] = more[k].quote /\ BasesOf(more, side)[k] = more[k].base
        /\ \A k \in S : QuotesOf(log, side)[k] = log[k].quote /\ BasesOf(log, side)[k] = log[k].base
    BY <1>2 DEF QuotesOf, BasesOf
  <2> QED  BY <1>4, <2>1, <2>2
<1>6. \A k \in T : QuotesOf(more, side)[k] \in Int /\ BasesOf(more, side)[k] \in Int
  BY <1>2, SidesAreFinite
<1>7. /\ DOMAIN QuotesOf(log, side) = S /\ DOMAIN QuotesOf(more, side) = S \cup T
      /\ DOMAIN BasesOf(log, side) = S /\ DOMAIN BasesOf(more, side) = S \cup T
  BY <1>2 DEF QuotesOf, BasesOf
<1> HIDE DEF S, T
<1>8. SumFunction(QuotesOf(more, side))
        = SumFunction(QuotesOf(log, side)) + SumFunctionOnSet(QuotesOf(more, side), T)
  BY <1>2, <1>3, <1>5, <1>6, <1>7, TotalGrows
<1>9. SumFunction(BasesOf(more, side))
        = SumFunction(BasesOf(log, side)) + SumFunctionOnSet(BasesOf(more, side), T)
  <2>1. DOMAIN BasesOf(log, side) = S /\ DOMAIN BasesOf(more, side) = S \cup T
    BY <1>7
  <2>2. \A k \in S : BasesOf(log, side)[k] \in Int /\ BasesOf(more, side)[k] = BasesOf(log, side)[k]
    BY <1>5
  <2>3. \A k \in T : BasesOf(more, side)[k] \in Int
    BY <1>6
  <2> QED  BY <1>2, <1>3, <2>1, <2>2, <2>3, TotalGrows
<1> QED  BY <1>8, <1>9, Zenon DEF Quote, Base, QuotesOf, BasesOf, T

Costs    == [i \in filled |-> lots[i].cost]
Bases    == [i \in filled |-> lots[i].base]
OpenBase == SumFunction(Bases)

LEMMA LotsAreTyped ==
    ASSUME TypeOK, NEW i \in filled
    PROVE  /\ lots[i].cost \in OrderSizes /\ lots[i].cost \in Nat /\ lots[i].base \in Nat \ {0}
           /\ Costs[i] \in Nat /\ Bases[i] \in Nat
<1>1. lots[i] \in [cost : OrderSizes, base : Nat \ {0}]
  BY DEF TypeOK
<1>2. lots[i].cost \in OrderSizes /\ lots[i].base \in Nat \ {0}
  BY <1>1
<1>3. lots[i].cost \in Nat
  BY <1>2, Assumed
<1> QED  BY <1>2, <1>3 DEF Costs, Bases

LEMMA LedgerIsTyped ==
    ASSUME TypeOK
    PROVE  /\ IsFiniteSet(filled) /\ DOMAIN Costs = filled /\ DOMAIN Bases = filled
           /\ OpenCost = SumFunction(Costs) /\ OpenCost \in Nat /\ OpenBase \in Nat
           /\ IsFiniteSet(DOMAIN closed) /\ DOMAIN Profits = DOMAIN closed
           /\ DOMAIN closed \subseteq 1 .. Len(trades)
           /\ \A k \in DOMAIN closed : Profits[k] = closed[k].profit /\ Profits[k] \in Int
           /\ TrueProfit \in Int
<1>1. IsFiniteSet(filled)
  BY DEF TypeOK
<1>2. DOMAIN Costs = filled /\ DOMAIN Bases = filled
  BY DEF Costs, Bases
<1>3. OpenCost = SumFunction(Costs)
  BY Zenon DEF OpenCost, Costs
<1>4. SumFunctionOnSet(Costs, filled) \in Nat /\ SumFunctionOnSet(Bases, filled) \in Nat
  <2>1. \A i \in filled : Costs[i] \in Nat
    BY LotsAreTyped
  <2>2. \A i \in filled : Bases[i] \in Nat
    BY LotsAreTyped
  <2> QED  BY <1>1, <2>1, <2>2, SumIsNat
<1>5. OpenCost \in Nat /\ OpenBase \in Nat
  BY <1>2, <1>3, <1>4, Zenon DEF OpenBase, SumFunction
<1>6. DOMAIN closed \subseteq 1 .. Len(trades)
  BY LenProperties DEF TypeOK
<1>7. IsFiniteSet(DOMAIN closed)
  <2>1. Len(trades) \in Nat
    BY DEF TypeOK
  <2>2. IsFiniteSet(1 .. Len(trades))
    BY <2>1, PositionsAreFinite
  <2> QED  BY <1>6, <2>2, FS_Subset
<1>8. \A k \in DOMAIN closed : Profits[k] = closed[k].profit /\ Profits[k] \in Int
  <2> SUFFICES ASSUME NEW k \in DOMAIN closed  PROVE Profits[k] = closed[k].profit /\ Profits[k] \in Int
    OBVIOUS
  <2>1. closed[k] \in [profit : Int, day : 0 .. LastDay]
    BY DEF TypeOK
  <2> QED  BY <2>1 DEF Profits
<1>9. DOMAIN Profits = DOMAIN closed
  BY DEF Profits
<1>10. SumFunctionOnSet(Profits, DOMAIN closed) \in Int
  BY <1>7, <1>8, SumIsInt
<1>11. TrueProfit \in Int
  BY <1>9, <1>10, Zenon DEF TrueProfit, SumFunction
<1> QED  BY <1>1, <1>2, <1>3, <1>5, <1>6, <1>7, <1>8, <1>9, <1>11

LEMMA BuySums ==
    ASSUME TypeOK, NEW i \in Nat \ filled, NEW order \in OrderSizes, Bought(i, order) \in Trade,
           trades' = Append(trades, Bought(i, order)),
           filled' = filled \cup {i},
           lots'[i] = [cost |-> order, base |-> Bought(i, order).base],
           \A j \in filled : lots'[j] = lots[j],
           closed' = closed
    PROVE  /\ Quote(trades', "buy") = Quote(trades, "buy") + order
           /\ Base(trades', "buy") = Base(trades, "buy") + Bought(i, order).base
           /\ Quote(trades', "sell") = Quote(trades, "sell")
           /\ Base(trades', "sell") = Base(trades, "sell")
           /\ OpenCost' = OpenCost + order
           /\ OpenBase' = OpenBase + Bought(i, order).base
           /\ TrueProfit' = TrueProfit
<1> DEFINE t == Bought(i, order)
           x == Len(trades) + 1
<1>1. /\ trades \in Seq(Trade) /\ Len(trades) \in Nat /\ x \in Nat
      /\ t \in Trade /\ t.side = "buy" /\ t.quote = order
      /\ order \in Nat /\ t.base \in Nat
  <2>1. trades \in Seq(Trade) /\ Len(trades) \in Nat
    BY DEF TypeOK
  <2>2. t.side = "buy" /\ t.quote = order
    BY DEF Bought
  <2>3. order \in Nat
    BY Assumed
  <2>4. t.base \in Nat
    BY DEF Trade
  <2> QED  BY <2>1, <2>2, <2>3, <2>4
<1> HIDE DEF t
<1>2. /\ trades' \in Seq(Trade) /\ Len(trades') = x /\ Len(trades) <= Len(trades')
      /\ trades'[x] = t
      /\ \A k \in 1 .. Len(trades) : trades'[k] = trades[k]
  BY <1>1 DEF t
<1>3. Added(trades, trades', "buy") = {x} /\ Added(trades, trades', "sell") = {}
  BY <1>1, <1>2 DEF Added
<1>4. QuotesOf(trades', "buy")[x] = order /\ BasesOf(trades', "buy")[x] = t.base
  <2>1. DOMAIN trades' = 1 .. Len(trades')
    BY <1>2, LenProperties
  <2>2. x \in Side(trades', "buy")
    BY <1>1, <1>2, <2>1 DEF Side
  <2> QED  BY <1>1, <1>2, <2>2 DEF QuotesOf, BasesOf
<1> HIDE DEF x
<1>5. ASSUME NEW side
      PROVE  /\ Quote(trades', side) =
                  Quote(trades, side) + SumFunctionOnSet(QuotesOf(trades', side), Added(trades, trades', side))
             /\ Base(trades', side) =
                  Base(trades, side) + SumFunctionOnSet(BasesOf(trades', side), Added(trades, trades', side))
  <2>1. /\ trades \in Seq(Trade) /\ trades' \in Seq(Trade) /\ Len(trades) <= Len(trades')
        /\ \A k \in 1 .. Len(trades) : trades'[k] = trades[k]
    BY <1>1, <1>2
  <2> QED  BY <2>1, LongerLog, ZenonT(30)
<1>6a. /\ Quote(trades', "buy") = Quote(trades, "buy") + order
       /\ Base(trades', "buy") = Base(trades, "buy") + t.base
  <2>0. order \in Int /\ t.base \in Int
    BY <1>1
  <2>1. SumFunctionOnSet(QuotesOf(trades', "buy"), {x}) = order
    BY <1>4, <2>0, SumOfOne, Zenon
  <2>2. SumFunctionOnSet(BasesOf(trades', "buy"), {x}) = t.base
    BY <1>4, <2>0, SumOfOne, Zenon
  <2> QED  BY <1>3, <1>5, <2>1, <2>2, Zenon
<1>6. /\ Quote(trades', "sell") = Quote(trades, "sell")
      /\ Base(trades', "sell") = Base(trades, "sell")
  <2>1. Quote(trades, "sell") + 0 = Quote(trades, "sell") /\ Base(trades, "sell") + 0 = Base(trades, "sell")
    BY <1>1, SidesAreFinite
  <2> QED  BY <1>3, <1>5, <2>1, SumOfNone, Zenon
<1>7. OpenCost' = OpenCost + order
  <2>1. /\ Costs' = [j \in filled \cup {i} |-> lots'[j].cost]
        /\ OpenCost' = SumFunction(Costs')
    BY DEF Costs, OpenCost
  <2>2. /\ DOMAIN Costs' = filled \cup {i} /\ Costs'[i] = order
        /\ \A j \in filled : Costs'[j] = Costs[j]
    BY <2>1 DEF Costs
  <2>3. SumFunction(Costs') = SumFunction(Costs) + SumFunctionOnSet(Costs', {i})
    <3>1. IsFiniteSet(filled) /\ DOMAIN Costs = filled /\ IsFiniteSet({i})
      BY LedgerIsTyped, FS_Singleton
    <3>2. \A j \in filled : Costs[j] \in Int
      BY LotsAreTyped
    <3> QED  BY <1>1, <2>2, <3>1, <3>2, TotalGrows
  <2>4. SumFunctionOnSet(Costs', {i}) = order
    BY <1>1, <2>2, SumOfOne
  <2> QED  BY <2>1, <2>3, <2>4, LedgerIsTyped, Zenon
<1>8. OpenBase' = OpenBase + t.base
  <2>1. Bases' = [j \in filled \cup {i} |-> lots'[j].base]
    BY DEF Bases
  <2>2. /\ DOMAIN Bases' = filled \cup {i} /\ Bases'[i] = t.base
        /\ \A j \in filled : Bases'[j] = Bases[j]
    BY <2>1 DEF Bases, t
  <2>3. SumFunction(Bases') = SumFunction(Bases) + SumFunctionOnSet(Bases', {i})
    <3>1. IsFiniteSet(filled) /\ DOMAIN Bases = filled /\ IsFiniteSet({i})
      BY LedgerIsTyped, FS_Singleton
    <3>2. \A j \in filled : Bases[j] \in Int
      BY LotsAreTyped
    <3> QED  BY <1>1, <2>2, <3>1, <3>2, TotalGrows
  <2>4. SumFunctionOnSet(Bases', {i}) = t.base
    BY <1>1, <2>2, SumOfOne
  <2> QED  BY <2>3, <2>4, Zenon DEF OpenBase
<1>9. TrueProfit' = TrueProfit
  BY Zenon DEF TrueProfit, Profits
<1> QED  BY <1>6, <1>6a, <1>7, <1>8, <1>9 DEF t

LEMMA SaleSums ==
    ASSUME TypeOK, NEW n, NEW rungs, AreSales(n, rungs)
    PROVE  \E quote \in Nat, base \in Nat, cost \in Nat, profit \in Int :
              /\ quote = profit + cost
              /\ Quote(trades', "sell") = Quote(trades, "sell") + quote
              /\ Base(trades', "sell") = Base(trades, "sell") + base
              /\ Quote(trades', "buy") = Quote(trades, "buy")
              /\ Base(trades', "buy") = Base(trades, "buy")
              /\ OpenCost = OpenCost' + cost
              /\ OpenBase = OpenBase' + base
              /\ TrueProfit' = TrueProfit + profit
<1> DEFINE L == Len(trades)
           R == Names(rungs, n)
           h == [a \in 1 .. n |-> L + a]
           K == Names(h, n)
           quotes  == [i \in filled |-> SaleOf(i).quote]
           profits == [i \in filled |-> SaleOf(i).quote - lots[i].cost]
<1>1. /\ trades \in Seq(Trade) /\ L \in Nat
      /\ n \in Nat /\ rungs \in [1 .. n -> filled]
      /\ \A a, b \in 1 .. n : rungs[a] = rungs[b] => a = b
  BY DEF TypeOK, AreSales
<1>2. /\ \A a \in 1 .. n : h[a] = L + a
      /\ \A a, b \in 1 .. n : h[a] = h[b] => a = b
      /\ K = {L + a : a \in 1 .. n}
      /\ K = L + 1 .. L + n
  <2> HIDE DEF L
  <2>1. \A k \in L + 1 .. L + n : k - L \in 1 .. n /\ k = L + (k - L)
    BY <1>1
  <2>2. \A a \in 1 .. n : h[a] = L + a
    BY DEF h
  <2>3. K = {L + a : a \in 1 .. n}
    BY <2>2 DEF K, Names
  <2>4. \A a \in 1 .. n : L + a \in L + 1 .. L + n
    BY <1>1
  <2>5. {L + a : a \in 1 .. n} = L + 1 .. L + n
    BY <1>1, <2>1, <2>4
  <2>6. \A a, b \in 1 .. n : h[a] = h[b] => a = b
    BY <1>1, <2>2
  <2> QED  BY <2>2, <2>3, <2>5, <2>6
<1>3. /\ \A a \in 1 .. n : SaleOf(rungs[a]) \in Trade
      /\ trades' \in Seq(Trade) /\ Len(trades') = L + n
      /\ \A k \in 1 .. L : trades'[k] = trades[k]
      /\ \A a \in 1 .. n : trades'[h[a]] = SaleOf(rungs[a])
      /\ filled' = filled \ R
      /\ \A i \in filled' : lots'[i] = lots[i]
  <2>1. /\ \A a \in 1 .. n : SaleOf(rungs[a]) \in Trade
        /\ trades' \in Seq(Trade) /\ Len(trades') = L + n
        /\ \A k \in 1 .. L : trades'[k] = trades[k]
    BY SalesAreLogged
  <2>2. \A a \in 1 .. n : trades'[L + a] = SaleOf(rungs[a])
    BY SalesAreLogged
  <2>3. filled' = filled \ R /\ \A i \in filled' : lots'[i] = lots[i]
    BY SalesTakeLots DEF Names
  <2>4. \A a \in 1 .. n : trades'[h[a]] = SaleOf(rungs[a])
    BY <1>2, <2>2, Zenon
  <2> QED  BY <2>1, <2>3, <2>4, Zenon
<1>4. /\ DOMAIN closed' = DOMAIN closed \cup K
      /\ \A k \in DOMAIN closed : closed'[k] = closed[k]
      /\ \A a \in 1 .. n :
           closed'[h[a]] = [profit |-> SaleOf(rungs[a]).quote - lots[rungs[a]].cost, day |-> day]
  <2>1. /\ DOMAIN closed' = DOMAIN closed \cup {L + a : a \in 1 .. n}
        /\ \A k \in DOMAIN closed : closed'[k] = closed[k]
    BY SalesAreBooked, Zenon DEF SalesEnter
  <2>2. \A a \in 1 .. n :
          closed'[L + a] = [profit |-> SaleOf(rungs[a]).quote - lots[rungs[a]].cost, day |-> day]
    BY SalesAreBooked, Zenon DEF SalesTell
  <2>3. \A a \in 1 .. n :
          closed'[h[a]] = [profit |-> SaleOf(rungs[a]).quote - lots[rungs[a]].cost, day |-> day]
    BY <1>2, <2>2, Zenon
  <2> QED  BY <1>2, <2>1, <2>3, Zenon
<1>5. \A a \in 1 .. n : /\ rungs[a] \in filled
                        /\ SaleOf(rungs[a]).side = "sell"
                        /\ SaleOf(rungs[a]).base = lots[rungs[a]].base
                        /\ SaleOf(rungs[a]).quote \in Nat
  <2> SUFFICES ASSUME NEW a \in 1 .. n
               PROVE  /\ rungs[a] \in filled
                      /\ SaleOf(rungs[a]).side = "sell"
                      /\ SaleOf(rungs[a]).base = lots[rungs[a]].base
                      /\ SaleOf(rungs[a]).quote \in Nat
    OBVIOUS
  <2>1. rungs[a] \in filled
    BY <1>1
  <2>2. SaleOf(rungs[a]).side = "sell" /\ SaleOf(rungs[a]).base = lots[rungs[a]].base
    BY DEF SaleOf
  <2>3. SaleOf(rungs[a]).quote \in Nat
    BY <1>3 DEF Trade
  <2> QED  BY <2>1, <2>2, <2>3
<1>1a. /\ n \in Nat
       /\ \A a, b \in 1 .. n : h[a] = h[b] => a = b
       /\ \A a, b \in 1 .. n : rungs[a] = rungs[b] => a = b
  BY <1>1, <1>2
<1> HIDE DEF L, R, h, K
<1>6. Added(trades, trades', "sell") = K /\ Added(trades, trades', "buy") = {}
  <2>1. L + 1 .. Len(trades') = K
    BY <1>2, <1>3
  <2>2. \A k \in K : trades'[k].side = "sell"
    BY <1>3, <1>5 DEF K, Names
  <2>3. /\ Added(trades, trades', "sell") = {k \in K : trades'[k].side = "sell"}
        /\ Added(trades, trades', "buy") = {k \in K : trades'[k].side = "buy"}
    BY <2>1, Zenon DEF Added, L
  <2>4. {k \in K : trades'[k].side = "sell"} = K
    BY <2>2, Zenon
  <2>5. {k \in K : trades'[k].side = "buy"} = {}
    <3>1. "buy" # "sell"
      OBVIOUS
    <3> QED  BY <2>2, <3>1, Zenon
  <2> QED  BY <2>3, <2>4, <2>5, Zenon
<1>7. ASSUME NEW side
      PROVE  /\ Quote(trades', side) =
                  Quote(trades, side) + SumFunctionOnSet(QuotesOf(trades', side), Added(trades, trades', side))
             /\ Base(trades', side) =
                  Base(trades, side) + SumFunctionOnSet(BasesOf(trades', side), Added(trades, trades', side))
  <2>1. Len(trades) <= Len(trades') /\ \A k \in 1 .. Len(trades) : trades'[k] = trades[k]
    BY <1>1, <1>3 DEF L
  <2> QED  BY <1>1, <1>3, <2>1, LongerLog
<1>8. /\ Quote(trades', "buy") = Quote(trades, "buy")
      /\ Base(trades', "buy") = Base(trades, "buy")
  <2>1. Quote(trades, "buy") + 0 = Quote(trades, "buy") /\ Base(trades, "buy") + 0 = Base(trades, "buy")
    BY <1>1, SidesAreFinite
  <2> QED  BY <1>6, <1>7, <2>1, SumOfNone, Zenon
<1>9. IsFiniteSet(R) /\ R \subseteq filled
  <2>1. R \subseteq filled
    BY <1>5 DEF R, Names
  <2> QED  BY <2>1, LedgerIsTyped, FS_Subset
<1>10. /\ IsFiniteSet(K)
       /\ SumFunctionOnSet(QuotesOf(trades', "sell"), K) = SumFunctionOnSet(quotes, R)
       /\ SumFunctionOnSet(BasesOf(trades', "sell"), K) = SumFunctionOnSet(Bases, R)
  <2>1. DOMAIN trades' = 1 .. Len(trades')
    BY <1>3, LenProperties
  <2>2. K \subseteq Side(trades', "sell")
    <3>1. K \subseteq DOMAIN trades'
      BY <1>1, <1>2, <1>3, <2>1
    <3>2. \A k \in K : trades'[k].side = "sell"
      BY <1>3, <1>5 DEF K, Names
    <3> QED  BY <3>1, <3>2 DEF Side
  <2>3. ASSUME NEW a \in 1 .. n
        PROVE  /\ QuotesOf(trades', "sell")[h[a]] \in Int
               /\ QuotesOf(trades', "sell")[h[a]] = quotes[rungs[a]]
               /\ BasesOf(trades', "sell")[h[a]] \in Int
               /\ BasesOf(trades', "sell")[h[a]] = Bases[rungs[a]]
    <3>1. h[a] \in Side(trades', "sell")
      BY <2>2 DEF K, Names
    <3>2. QuotesOf(trades', "sell")[h[a]] = trades'[h[a]].quote /\ BasesOf(trades', "sell")[h[a]] = trades'[h[a]].base
      BY <3>1, Zenon DEF QuotesOf, BasesOf
    <3>3. QuotesOf(trades', "sell")[h[a]] = SaleOf(rungs[a]).quote /\ BasesOf(trades', "sell")[h[a]] = SaleOf(rungs[a]).base
      BY <1>3, <3>2, Zenon
    <3>4. quotes[rungs[a]] = SaleOf(rungs[a]).quote /\ Bases[rungs[a]] = lots[rungs[a]].base
      BY <1>5, Zenon DEF Bases
    <3>5. lots[rungs[a]].base \in Int
      BY <1>5, LotsAreTyped
    <3> HIDE DEF quotes
    <3> QED  BY <1>5, <3>3, <3>4, <3>5
  <2> HIDE DEF quotes
  <2>4. SumFunctionOnSet(QuotesOf(trades', "sell"), K) = SumFunctionOnSet(quotes, R) /\ IsFiniteSet(K)
    <3>1. \A a \in 1 .. n : /\ QuotesOf(trades', "sell")[h[a]] \in Int
                            /\ QuotesOf(trades', "sell")[h[a]] = quotes[rungs[a]]
      BY <2>3
    <3> QED  BY <1>1a, <3>1, SumsOfTheSame DEF K, R
  <2>5. SumFunctionOnSet(BasesOf(trades', "sell"), K) = SumFunctionOnSet(Bases, R)
    <3>1. \A a \in 1 .. n : /\ BasesOf(trades', "sell")[h[a]] \in Int
                            /\ BasesOf(trades', "sell")[h[a]] = Bases[rungs[a]]
      BY <2>3
    <3> QED  BY <1>1a, <3>1, SumsOfTheSame DEF K, R
  <2> QED  BY <2>4, <2>5
<1>11. /\ Quote(trades', "sell") = Quote(trades, "sell") + SumFunctionOnSet(quotes, R)
       /\ Base(trades', "sell") = Base(trades, "sell") + SumFunctionOnSet(Bases, R)
  BY <1>6, <1>7, <1>10, Zenon
<1>12. TrueProfit' = TrueProfit + SumFunctionOnSet(profits, R)
  <2>1. Profits' = [k \in DOMAIN closed' |-> closed'[k].profit]
    BY DEF Profits
  <2>2. K \cap DOMAIN closed = {}
    <3>1. DOMAIN closed \subseteq 1 .. L
      BY LedgerIsTyped DEF L
    <3> QED  BY <1>1, <1>2, <3>1
  <2>3. /\ DOMAIN Profits' = DOMAIN closed \cup K
        /\ \A k \in DOMAIN closed : Profits'[k] = Profits[k]
        /\ \A k \in DOMAIN Profits' : Profits'[k] = closed'[k].profit
    BY <1>4, <2>1 DEF Profits
  <2>4. ASSUME NEW a \in 1 .. n
        PROVE  Profits'[h[a]] \in Int /\ Profits'[h[a]] = profits[rungs[a]]
    <3>1. h[a] \in K
      BY DEF K, Names
    <3>2. Profits'[h[a]] = SaleOf(rungs[a]).quote - lots[rungs[a]].cost
      <4>1. Profits'[h[a]] = closed'[h[a]].profit
        BY <2>3, <3>1, Zenon
      <4>2. closed'[h[a]] = [profit |-> SaleOf(rungs[a]).quote - lots[rungs[a]].cost, day |-> day]
        BY <1>4, Zenon
      <4>3. \A v, d : [profit |-> v, day |-> d].profit = v
        OBVIOUS
      <4> QED  BY <4>1, <4>2, <4>3, Zenon
    <3>3. profits[rungs[a]] = SaleOf(rungs[a]).quote - lots[rungs[a]].cost
      BY <1>5, Zenon
    <3>4. lots[rungs[a]].cost \in Int
      BY <1>5, LotsAreTyped
    <3>5. \A x, y \in Int : x - y \in Int
      OBVIOUS
    <3> HIDE DEF profits
    <3> QED  BY <1>5, <3>2, <3>3, <3>4, <3>5
  <2> HIDE DEF profits
  <2>5. SumFunctionOnSet(Profits', K) = SumFunctionOnSet(profits, R)
    BY <1>1a, <2>4, SumsOfTheSame DEF K, R
  <2>6. SumFunction(Profits') = SumFunction(Profits) + SumFunctionOnSet(Profits', K)
    <3>1. IsFiniteSet(DOMAIN Profits) /\ DOMAIN Profits = DOMAIN closed
      BY LedgerIsTyped
    <3>2. \A k \in DOMAIN closed : Profits[k] \in Int
      BY LedgerIsTyped
    <3>3. \A k \in K : Profits'[k] \in Int
      BY <2>4 DEF K, Names
    <3> QED  BY <1>10, <2>2, <2>3, <3>1, <3>2, <3>3, TotalGrows
  <2> QED  BY <2>5, <2>6, Zenon DEF TrueProfit
<1>13. /\ OpenCost = OpenCost' + SumFunctionOnSet(Costs, R)
       /\ OpenBase = OpenBase' + SumFunctionOnSet(Bases, R)
  <2>1. /\ Costs' = [i \in filled' |-> lots'[i].cost]
        /\ Bases' = [i \in filled' |-> lots'[i].base]
    BY DEF Costs, Bases
  <2>2. /\ DOMAIN Costs' = filled \ R /\ DOMAIN Bases' = filled \ R
        /\ \A i \in filled \ R : Costs'[i] = Costs[i] /\ Bases'[i] = Bases[i]
    BY <1>3, <2>1 DEF Costs, Bases
  <2>3. /\ IsFiniteSet(filled \ R) /\ (filled \ R) \cap R = {}
        /\ DOMAIN Costs = (filled \ R) \cup R /\ DOMAIN Bases = (filled \ R) \cup R
    <3>1. IsFiniteSet(filled) /\ DOMAIN Costs = filled /\ DOMAIN Bases = filled
      BY LedgerIsTyped
    <3>2. IsFiniteSet(filled \ R)
      BY <3>1, FS_Subset
    <3> QED  BY <1>9, <3>1, <3>2
  <2>4. \A i \in filled : Costs[i] \in Int /\ Bases[i] \in Int
    BY LotsAreTyped
  <2>5. SumFunction(Costs) = SumFunction(Costs') + SumFunctionOnSet(Costs, R)
    <3>1. /\ \A i \in DOMAIN Costs' : Costs'[i] \in Int /\ Costs[i] = Costs'[i]
          /\ \A i \in R : Costs[i] \in Int
      BY <1>9, <2>2, <2>4
    <3> QED  BY <1>9, <2>2, <2>3, <3>1, TotalGrows
  <2>6. SumFunction(Bases) = SumFunction(Bases') + SumFunctionOnSet(Bases, R)
    <3>1. /\ \A i \in DOMAIN Bases' : Bases'[i] \in Int /\ Bases[i] = Bases'[i]
          /\ \A i \in R : Bases[i] \in Int
      BY <1>9, <2>2, <2>4
    <3> QED  BY <1>9, <2>2, <2>3, <3>1, TotalGrows
  <2> QED  BY <2>5, <2>6, Zenon DEF OpenCost, OpenBase, Costs
<1>14. /\ SumFunctionOnSet(quotes, R) \in Nat /\ SumFunctionOnSet(Bases, R) \in Nat
       /\ SumFunctionOnSet(Costs, R) \in Nat /\ SumFunctionOnSet(profits, R) \in Int
       /\ SumFunctionOnSet(quotes, R) = SumFunctionOnSet(profits, R) + SumFunctionOnSet(Costs, R)
  <2>1. ASSUME NEW i \in R
        PROVE  /\ quotes[i] \in Nat /\ profits[i] \in Int /\ Costs[i] \in Nat /\ Bases[i] \in Nat
               /\ quotes[i] = profits[i] + Costs[i]
    <3>1. i \in filled /\ SaleOf(i).quote \in Nat
      BY <1>5, <1>9 DEF R, Names
    <3>2. /\ quotes[i] = SaleOf(i).quote
          /\ profits[i] = SaleOf(i).quote - lots[i].cost
          /\ Costs[i] = lots[i].cost
      BY <3>1, Zenon DEF Costs
    <3>3. Costs[i] \in Nat /\ Bases[i] \in Nat
      BY <3>1, LotsAreTyped
    <3>4. \A x, y \in Nat : x - y \in Int /\ x = (x - y) + y
      OBVIOUS
    <3> HIDE DEF quotes, profits
    <3> QED  BY <3>1, <3>2, <3>3, <3>4
  <2> HIDE DEF quotes, profits
  <2>2. /\ SumFunctionOnSet(quotes, R) \in Nat
        /\ SumFunctionOnSet(Bases, R) \in Nat
        /\ SumFunctionOnSet(Costs, R) \in Nat
    BY <1>9, <2>1, SumIsNat
  <2>3. SumFunctionOnSet(profits, R) \in Int
    BY <1>9, <2>1, SumIsInt
  <2>4. SumFunctionOnSet(quotes, R) = SumFunctionOnSet(profits, R) + SumFunctionOnSet(Costs, R)
    <3>1. \A i \in R : profits[i] \in Int /\ Costs[i] \in Int /\ quotes[i] = profits[i] + Costs[i]
      BY <2>1
    <3> QED  BY <1>9, <3>1, SumOfSums
  <2> QED  BY <2>2, <2>3, <2>4
<1> HIDE DEF quotes, profits
<1> QED  BY <1>8, <1>11, <1>12, <1>13, <1>14, Zenon

-----------------------------------------------------------------------------
(* update_grid visits every lot once *)

LEMMA LastVisitedIsThere ==
    ASSUME NEW S \in SUBSET Nat, IsFiniteSet(S), S # {}
    PROVE  LastVisited(S) \in S
<1> DEFINE IsLatest(s, i) == i \in s /\ \A k \in s \ {i} : KeyBefore(k, i)
           P == {s \in SUBSET S : s # {} => \E i \in s : IsLatest(s, i)}
<1>1. {} \in P
  OBVIOUS
<1>2. ASSUME NEW t \in SUBSET S, NEW x \in S, t \in P, x \notin t
      PROVE  t \cup {x} \in P
  <2>1. CASE t = {}
    <3>1. IsLatest(t \cup {x}, x)
      BY <2>1
    <3> QED  BY <3>1
  <2>2. CASE t # {}
    <3>1. PICK i \in t : \A k \in t \ {i} : KeyBefore(k, i)
      BY <1>2, <2>2
    <3>2. i \in Nat /\ x \in Nat /\ i # x /\ t \subseteq Nat
      BY <1>2
    <3>3. CASE KeyBefore(x, i)
      <4>1. \A k \in (t \cup {x}) \ {i} : KeyBefore(k, i)
        BY <3>1, <3>3
      <4> QED  BY <4>1
    <3>4. CASE KeyBefore(i, x)
      <4>1. ASSUME NEW k \in t  PROVE KeyBefore(k, x)
        <5>1. k \in Nat
          BY <3>2
        <5> QED  BY <3>1, <3>2, <3>4, <5>1, KeysAreOrdered
      <4>2. \A k \in (t \cup {x}) \ {x} : KeyBefore(k, x)
        BY <4>1
      <4> QED  BY <4>2
    <3> QED  BY <3>2, <3>3, <3>4, KeysAreOrdered
  <2> QED  BY <2>1, <2>2
<1>3. S \in P
  <2> HIDE DEF P
  <2> QED  BY <1>1, <1>2, FiniteSetInduction
<1>4. \E i \in S : \A k \in S \ {i} : KeyBefore(k, i)
  BY <1>3
<1> QED  BY <1>4 DEF LastVisited

(* g holds the log after the lots of every set of `sets` have moved.       *)
Moves(g, m, sets) ==
    g = [s \in sets |-> IF s = {} THEN trades
                        ELSE Relabel(g[s \ {LastVisited(s)}], LastVisited(s), m[LastVisited(s)])]

MoveTable(m, S) == CHOOSE g : Moves(g, m, SUBSET S)

LEMMA RelabelledIsInTable ==
    ASSUME NEW m, NEW S
    PROVE  Relabelled(m, S) = MoveTable(m, S)[S]
BY Zenon DEF Relabelled, MapThenFoldSet, MoveTable, Moves

LEMMA TableMoves ==
    ASSUME NEW m, NEW S \in SUBSET Nat, IsFiniteSet(S)
    PROVE  Moves(MoveTable(m, S), m, SUBSET S)
<1> DEFINE Small(n) == {s \in SUBSET S : Cardinality(s) <= n}
           Q == {n \in Nat : \E g : Moves(g, m, Small(n))}
           Moved(g, s) == Relabel(g[s \ {LastVisited(s)}], LastVisited(s), m[LastVisited(s)])
<1>0. \A s \in SUBSET S : IsFiniteSet(s) /\ Cardinality(s) \in Nat
  BY FS_Subset, FS_CardinalityType
<1>1. \A s \in SUBSET S : s # {} => Cardinality(s \ {LastVisited(s)}) = Cardinality(s) - 1
  <2> SUFFICES ASSUME NEW s \in SUBSET S, s # {}
               PROVE  Cardinality(s \ {LastVisited(s)}) = Cardinality(s) - 1
    OBVIOUS
  <2>1. LastVisited(s) \in s
    BY <1>0, LastVisitedIsThere
  <2> QED  BY <1>0, <2>1, FS_RemoveElement
<1>2. 0 \in Q
  <2>1. ASSUME NEW s \in Small(0)  PROVE s = {}
    <3>1. Cardinality(s) = 0 /\ IsFiniteSet(s)
      BY <1>0
    <3> QED  BY <3>1, FS_EmptySet
  <2>2. Moves([s \in Small(0) |-> trades], m, Small(0))
    <3> HIDE DEF Small
    <3> QED  BY <2>1 DEF Moves
  <2> QED  BY <2>2
<1>3. \A n \in Nat : n \in Q => n+1 \in Q
  <2> SUFFICES ASSUME NEW n \in Nat, \E g : Moves(g, m, Small(n))
               PROVE  \E h : Moves(h, m, Small(n+1))
    <3> HIDE DEF Small
    <3> QED  OBVIOUS
  <2>1. PICK g : Moves(g, m, Small(n))
    OBVIOUS
  <2> DEFINE h == [s \in Small(n+1) |-> IF s = {} THEN trades ELSE Moved(g, s)]
  <2>2. ASSUME NEW s \in Small(n)  PROVE s \in Small(n+1) /\ h[s] = g[s]
    <3>1. s \in Small(n+1)
      BY <1>0
    <3> HIDE DEF Small
    <3>2. g = [t \in Small(n) |-> IF t = {} THEN trades ELSE Moved(g, t)]
      BY <2>1, Zenon DEF Moves
    <3>3. g[s] = IF s = {} THEN trades ELSE Moved(g, s)
      <4> HIDE DEF Moved
      <4> QED  BY <3>2, Zenon
    <3>4. h[s] = IF s = {} THEN trades ELSE Moved(g, s)
      BY <3>1, Zenon
    <3> QED  BY <3>1, <3>3, <3>4, Zenon
  <2>3. \A s \in Small(n+1) : s # {} => s \ {LastVisited(s)} \in Small(n)
    <3> SUFFICES ASSUME NEW s \in Small(n+1), s # {}
                 PROVE  s \ {LastVisited(s)} \in Small(n)
      OBVIOUS
    <3> DEFINE t == s \ {LastVisited(s)}
    <3>1. s \in SUBSET S /\ Cardinality(s) <= n + 1
      OBVIOUS
    <3>2. t \in SUBSET S /\ Cardinality(t) = Cardinality(s) - 1
      BY <1>1, <3>1
    <3>3. Cardinality(s) \in Nat
      BY <1>0, <3>1
    <3> HIDE DEF t
    <3> QED  BY <3>1, <3>2, <3>3 DEF t
  <2> HIDE DEF Small
  <2>4. h = [s \in Small(n+1) |-> IF s = {} THEN trades ELSE Moved(h, s)]
    <3>1. \A s \in Small(n+1) : s # {} => Moved(g, s) = Moved(h, s)
      BY <2>2, <2>3, Zenon
    <3> HIDE DEF Moved
    <3> QED  BY <3>1
  <2> HIDE DEF h
  <2> QED  BY <2>4, Zenon DEF Moves
<1>4. Cardinality(S) \in Q
  <2> HIDE DEF Q
  <2> QED  BY <1>0, <1>2, <1>3, NatSetInduction
<1>5. Small(Cardinality(S)) = SUBSET S
  BY <1>0, FS_Subset
<1>6. \E g : Moves(g, m, SUBSET S)
  <2> HIDE DEF Small
  <2> QED  BY <1>4, <1>5
<1> QED  BY <1>6, Zenon DEF MoveTable

(* The log goes from what it was to Relabelled(m, S) one lot at a time.    *)
LEMMA LotsMoveInTurn ==
    ASSUME NEW m, NEW S \in SUBSET Nat, IsFiniteSet(S)
    PROVE  \E g : /\ g[S] = Relabelled(m, S)
                  /\ g[{}] = trades
                  /\ \A s \in SUBSET S : s # {} =>
                        \E x \in s : g[s] = Relabel(g[s \ {x}], x, m[x])
<1> DEFINE g == MoveTable(m, S)
<1>1. Moves(g, m, SUBSET S) /\ g[S] = Relabelled(m, S)
  BY TableMoves, RelabelledIsInTable
<1> HIDE DEF g
<1>2. g = [s \in SUBSET S |-> IF s = {} THEN trades
             ELSE Relabel(g[s \ {LastVisited(s)}], LastVisited(s), m[LastVisited(s)])]
  BY <1>1, Zenon DEF Moves
<1>3. \A s \in SUBSET S :
         g[s] = IF s = {} THEN trades
                ELSE Relabel(g[s \ {LastVisited(s)}], LastVisited(s), m[LastVisited(s)])
  BY <1>2, Zenon
<1>4. g[{}] = trades
  BY <1>3, {} \in SUBSET S
<1>5. ASSUME NEW s \in SUBSET S, s # {}
      PROVE  \E x \in s : g[s] = Relabel(g[s \ {x}], x, m[x])
  <2>1. LastVisited(s) \in s
    BY <1>5, FS_Subset, LastVisitedIsThere
  <2>2. g[s] = Relabel(g[s \ {LastVisited(s)}], LastVisited(s), m[LastVisited(s)])
    BY <1>3, <1>5, Zenon
  <2> QED  BY <2>1, <2>2
<1> QED  BY <1>1, <1>4, <1>5, Zenon

(* Two logs of the same trades, up to their levels. *)
SameTrades(log, other) ==
    /\ other \in Seq(Trade) /\ Len(other) = Len(log)
    /\ \A k \in 1 .. Len(log) :
         /\ other[k].side = log[k].side /\ other[k].quote = log[k].quote
         /\ other[k].base = log[k].base /\ other[k].day = log[k].day

LEMMA LastBuyIsInTheLog ==
    ASSUME NEW log \in Seq(Trade), NEW level, LastBuyAt(log, level) # 0
    PROVE  /\ LastBuyAt(log, level) \in 1 .. Len(log)
           /\ log[LastBuyAt(log, level)].side = "buy"
           /\ log[LastBuyAt(log, level)].level = level
           /\ \A k \in LastBuyAt(log, level) + 1 .. Len(log) :
                 ~(log[k].side = "buy" /\ log[k].level = level)
<1> DEFINE S == {k \in 1 .. Len(log) : log[k].side = "buy" /\ log[k].level = level}
<1>1. LastBuyAt(log, level) = IF S # {} THEN Max(S) ELSE 0
  BY Zenon DEF LastBuyAt, SelectLastInSeq
<1>2. S # {} /\ LastBuyAt(log, level) = Max(S)
  BY <1>1
<1>3. Len(log) \in Nat
  OBVIOUS
<1>4. Max(S) \in S /\ \A j \in S : Max(S) >= j
  BY <1>2, <1>3, MaxIsThere
<1>5. ASSUME NEW k \in Max(S) + 1 .. Len(log)  PROVE k \notin S
  <2>1. Max(S) \in Nat /\ ~(Max(S) >= k)
    BY <1>4
  <2> QED  BY <1>4, <2>1
<1>6. \A k \in Max(S) + 1 .. Len(log) : k \in 1 .. Len(log)
  <2>1. Max(S) \in Nat
    BY <1>4
  <2> HIDE DEF S
  <2> QED  BY <2>1, <1>3
<1> QED  BY <1>2, <1>4, <1>5, <1>6

LEMMA LastBuyIsThere ==
    ASSUME NEW log \in Seq(Trade), NEW level, NEW b \in 1 .. Len(log),
           log[b].side = "buy", log[b].level = level,
           \A k \in b+1 .. Len(log) : ~(log[k].side = "buy" /\ log[k].level = level)
    PROVE  LastBuyAt(log, level) = b
<1> DEFINE S == {k \in 1 .. Len(log) : log[k].side = "buy" /\ log[k].level = level}
<1>1. LastBuyAt(log, level) = IF S # {} THEN Max(S) ELSE 0
  BY Zenon DEF LastBuyAt, SelectLastInSeq
<1>2. b \in S
  OBVIOUS
<1>3. LastBuyAt(log, level) # 0
  <2>0. Len(log) \in Nat /\ S # {}
    BY <1>2
  <2>1. Max(S) \in S
    BY <2>0, MaxIsThere
  <2>2. 0 \notin S
    OBVIOUS
  <2> HIDE DEF S
  <2> QED  BY <1>1, <1>2, <2>1, <2>2
<1> DEFINE a == LastBuyAt(log, level)
<1>4. /\ a \in 1 .. Len(log) /\ log[a].side = "buy" /\ log[a].level = level
      /\ \A k \in a+1 .. Len(log) : ~(log[k].side = "buy" /\ log[k].level = level)
  BY <1>3, LastBuyIsInTheLog
<1> HIDE DEF a
<1>5. ~(a < b) /\ ~(b < a)
  BY <1>4
<1> QED  BY <1>4, <1>5 DEF a

(* Only the level of one buy changes. *)
LEMMA RelabelKeepsTheRest ==
    ASSUME NEW log \in Seq(Trade), NEW from, NEW to \in Nat
    PROVE  /\ SameTrades(log, Relabel(log, from, to))
           /\ \A k \in 1 .. Len(log) :
                Relabel(log, from, to)[k].level =
                  IF k = LastBuyAt(log, from) THEN to ELSE log[k].level
<1> DEFINE b == LastBuyAt(log, from)
           new == [log EXCEPT ![b].level = to]
<1>0. \A k \in 1 .. Len(log) : log[k] \in Trade
  OBVIOUS
<1>1. CASE b = 0
  <2>1. Relabel(log, from, to) = log
    BY <1>1 DEF Relabel
  <2>2. \A k \in 1 .. Len(log) : k # b
    BY <1>1
  <2> QED  BY <2>1, <2>2 DEF SameTrades
<1>2. CASE b # 0
  <2>1. Relabel(log, from, to) = new
    BY <1>2, Zenon DEF Relabel
  <2>2. b \in 1 .. Len(log)
    BY <1>2, LastBuyIsInTheLog
  <2> HIDE DEF b
  <2>3. log[b] \in Trade /\ [log[b] EXCEPT !.level = to] \in Trade
    BY <1>0, <2>2 DEF Trade
  <2>4. /\ new \in Seq(Trade) /\ Len(new) = Len(log)
        /\ \A k \in 1 .. Len(log) :
              new[k] = IF k = b THEN [log[b] EXCEPT !.level = to] ELSE log[k]
    BY <2>2, <2>3
  <2>5. /\ [log[b] EXCEPT !.level = to].side = log[b].side
        /\ [log[b] EXCEPT !.level = to].quote = log[b].quote
        /\ [log[b] EXCEPT !.level = to].base = log[b].base
        /\ [log[b] EXCEPT !.level = to].day = log[b].day
        /\ [log[b] EXCEPT !.level = to].level = to
    BY <2>3 DEF Trade
  <2> HIDE DEF new
  <2>6. SameTrades(log, new)
    BY <2>4, <2>5 DEF SameTrades
  <2>7. \A k \in 1 .. Len(log) : new[k].level = IF k = b THEN to ELSE log[k].level
    BY <2>4, <2>5
  <2> QED  BY <2>1, <2>6, <2>7, Zenon DEF b
<1> QED  BY <1>1, <1>2

LEMMA RelabelledKeepsTheRest ==
    ASSUME TypeOK, NEW m, \A i \in filled : m[i] \in Nat
    PROVE  SameTrades(trades, Relabelled(m, filled))
<1> DEFINE S == filled
<1>1. S \in SUBSET Nat /\ IsFiniteSet(S) /\ trades \in Seq(Trade)
  BY DEF TypeOK
<1> HIDE DEF S
<1>2. PICK g : /\ g[S] = Relabelled(m, S)
               /\ g[{}] = trades
               /\ \A s \in SUBSET S : s # {} =>
                     \E x \in s : g[s] = Relabel(g[s \ {x}], x, m[x])
  BY <1>1, LotsMoveInTurn
<1> DEFINE P == {s \in SUBSET S : SameTrades(trades, g[s])}
<1>3. ASSUME NEW s \in SUBSET S,
             \A t \in SUBSET S : Cardinality(t) + 1 = Cardinality(s) => t \in P
      PROVE  s \in P
  <2>1. CASE s = {}
    BY <1>1, <1>2, <2>1 DEF SameTrades
  <2>2. CASE s # {}
    <3>1. PICK x \in s : g[s] = Relabel(g[s \ {x}], x, m[x])
      BY <1>2, <2>2
    <3>2. Cardinality(s \ {x}) + 1 = Cardinality(s)
      BY <1>1, FS_Subset, OneLess
    <3>3. SameTrades(trades, g[s \ {x}])
      BY <1>3, <3>2
    <3>4. SameTrades(g[s \ {x}], Relabel(g[s \ {x}], x, m[x]))
      <4>1. m[x] \in Nat
        BY DEF S
      <4>2. g[s \ {x}] \in Seq(Trade)
        BY <3>3 DEF SameTrades
      <4> QED  BY <4>1, <4>2, RelabelKeepsTheRest
    <3>5. SameTrades(trades, g[s])
      BY <3>1, <3>3, <3>4 DEF SameTrades
    <3> QED  BY <3>5
  <2> QED  BY <2>1, <2>2
<1>4. SUBSET S \subseteq P
  <2> HIDE DEF P
  <2> QED  BY <1>1, <1>3, CardinalityInduction
<1>5. S \in P
  <2> HIDE DEF P
  <2> QED  BY <1>4
<1> QED  BY <1>2, <1>5 DEF S

LEMMA SameTradesSameSums ==
    ASSUME NEW log \in Seq(Trade), NEW other, SameTrades(log, other)
    PROVE  /\ \A side : Side(other, side) = Side(log, side)
           /\ \A side : Quote(other, side) = Quote(log, side) /\ Base(other, side) = Base(log, side)
<1>1. DOMAIN other = 1 .. Len(log) /\ DOMAIN log = 1 .. Len(log)
  BY DEF SameTrades
<1>2. ASSUME NEW side
      PROVE  /\ Side(other, side) = Side(log, side)
             /\ Quote(other, side) = Quote(log, side) /\ Base(other, side) = Base(log, side)
  <2>1. Side(other, side) = Side(log, side) /\ Side(log, side) \subseteq 1 .. Len(log)
    BY <1>1 DEF Side, SameTrades
  <2>2. \A k \in Side(log, side) : other[k].quote = log[k].quote /\ other[k].base = log[k].base
    BY <2>1 DEF SameTrades
  <2>3. /\ [k \in Side(other, side) |-> other[k].quote] = [k \in Side(log, side) |-> log[k].quote]
        /\ [k \in Side(other, side) |-> other[k].base] = [k \in Side(log, side) |-> log[k].base]
    BY <2>1, <2>2
  <2> QED  BY <2>1, <2>3, Zenon DEF Quote, Base
<1> QED  BY <1>2

(* What update_grid does: m says where each lot goes, h where the lot that *)
(* is then on a rung was before.                                           *)
Moving(m, h) ==
    /\ \A i \in filled : m[i] \in Nat
    /\ filled' = {m[i] : i \in filled}
    /\ \A r \in filled' : h[r] \in filled /\ m[h[r]] = r /\ lots'[r] = lots[h[r]]
    /\ trades' = Relabelled(m, filled)
    /\ tangled' = (tangled \/ ~Followed(m))

LEMMA UpdateMovesLots ==
    ASSUME TypeOK, UpdateGrid
    PROVE  /\ \E m, h : Moving(m, h)
           /\ lots' \in [filled' -> [cost : OrderSizes, base : Nat \ {0}]]
           /\ IsLadder(ladder') /\ center' \in Int
           /\ UNCHANGED <<price, day, ready, closed, forgotten>>
<1>0. PICK new \in Reshapes : \E m \in [filled -> DOMAIN new] :
        /\ ladder' = new
        /\ center' = LevelForPrice(new, price)
        /\ lots' = [r \in Range(m) |-> lots[LastVisited({i \in filled : m[i] = r})]]
        /\ trades' = Relabelled(m, filled)
        /\ tangled' = (tangled \/ ~Followed(m))
  BY Zenon DEF UpdateGrid
<1>1. PICK m \in [filled -> DOMAIN new] :
        /\ ladder' = new
        /\ center' = LevelForPrice(new, price)
        /\ lots' = [r \in Range(m) |-> lots[LastVisited({i \in filled : m[i] = r})]]
        /\ trades' = Relabelled(m, filled)
        /\ tangled' = (tangled \/ ~Followed(m))
  BY <1>0
<1>2. IsLadder(new) /\ DOMAIN new \subseteq Nat
  <2>1. IsLadder(new)
    BY Assumed
  <2>2. Cardinality(DOMAIN new) \in Nat
    BY <2>1, FS_CardinalityType DEF IsLadder
  <2> QED  BY <2>1, <2>2 DEF IsLadder
<1>3. \A i \in filled : m[i] \in Nat
  BY <1>2
<1>4. Range(m) = {m[i] : i \in filled}
  BY DEF Range
<1> DEFINE h == [r \in Range(m) |-> LastVisited({i \in filled : m[i] = r})]
<1>5. filled' = Range(m) /\ \A r \in Range(m) : lots'[r] = lots[h[r]]
  BY <1>1 DEF filled
<1>6. \A r \in Range(m) : h[r] \in filled /\ m[h[r]] = r
  <2> SUFFICES ASSUME NEW r \in Range(m)  PROVE h[r] \in filled /\ m[h[r]] = r
    OBVIOUS
  <2> DEFINE S == {i \in filled : m[i] = r}
  <2>1. S # {} /\ S \subseteq filled
    BY <1>4
  <2>2. IsFiniteSet(S) /\ S \in SUBSET Nat
    BY <2>1, FS_Subset DEF TypeOK
  <2>3. LastVisited(S) \in S
    BY <2>1, <2>2, LastVisitedIsThere
  <2> QED  BY <2>3
<1> HIDE DEF h
<1>7. Moving(m, h)
  BY <1>1, <1>3, <1>4, <1>5, <1>6 DEF Moving
<1>8. lots' \in [filled' -> [cost : OrderSizes, base : Nat \ {0}]]
  <2>1. lots' = [r \in Range(m) |-> lots[h[r]]]
    BY <1>1, Zenon DEF h
  <2>2. \A r \in Range(m) : lots[h[r]] \in [cost : OrderSizes, base : Nat \ {0}]
    BY <1>6 DEF TypeOK
  <2> QED  BY <1>5, <2>1, <2>2
<1>9. center' \in Int
  <2>1. price \in Int
    BY Assumed DEF TypeOK
  <2> QED  BY <1>1, <1>2, <2>1, LevelStandsUnderPrice
<1>10. UNCHANGED <<price, day, ready, closed, forgotten>>
  BY DEF UpdateGrid
<1> QED  BY <1>1, <1>2, <1>7, <1>8, <1>9, <1>10, Zenon

(* No update makes the open lots dearer, and one that brings no two lots   *)
(* together leaves their cost and their base amount as they were.          *)
LEMMA MovedSums ==
    ASSUME TypeOK, NEW m, NEW h, Moving(m, h)
    PROVE  /\ IsFiniteSet(filled') /\ filled' \subseteq Nat
           /\ OpenCost' <= OpenCost
           /\ Followed(m) => OpenCost' = OpenCost /\ OpenBase' = OpenBase
<1> DEFINE R == filled'
           S == filled
           back == {h[r] : r \in R}
<1>1. IsFiniteSet(S) /\ R = {m[i] : i \in S} /\ \A i \in S : m[i] \in Nat
  BY DEF TypeOK, Moving
<1>2. \A r \in R : h[r] \in S /\ m[h[r]] = r /\ lots'[r] = lots[h[r]]
  BY DEF Moving
<1>3. /\ Costs' = [r \in R |-> lots'[r].cost] /\ Bases' = [r \in R |-> lots'[r].base]
      /\ OpenCost' = SumFunction(Costs') /\ OpenBase' = SumFunction(Bases')
  BY DEF Costs, Bases, OpenCost, OpenBase
<1>4. /\ DOMAIN Costs' = R /\ DOMAIN Bases' = R
      /\ \A r \in R : Costs'[r] = Costs[h[r]] /\ Bases'[r] = Bases[h[r]]
  <2>1. DOMAIN Costs' = R /\ DOMAIN Bases' = R
    BY <1>3
  <2>2. \A r \in R : Costs'[r] = lots'[r].cost /\ Bases'[r] = lots'[r].base
    BY <1>3
  <2>3. \A i \in S : Costs[i] = lots[i].cost /\ Bases[i] = lots[i].base
    BY DEF Costs, Bases
  <2> QED  BY <1>2, <2>1, <2>2, <2>3
<1>5. \A i \in S : Costs[i] \in Nat /\ Bases[i] \in Nat
  BY LotsAreTyped
<1>6. DOMAIN Costs = S /\ DOMAIN Bases = S /\ OpenCost = SumFunction(Costs)
  BY LedgerIsTyped
<1> HIDE DEF R, S
<1>7. IsFiniteSet(R)
  <2> DEFINE to == [i \in S |-> m[i]]
  <2>1. to \in Surjection(S, R)
    BY <1>1 DEF Surjection
  <2> QED  BY <1>1, <2>1, FS_Surjection, Zenon
<1>8. \A r, q \in R : h[r] = h[q] => r = q
  BY <1>2
<1>9. back \in SUBSET S
  BY <1>2
<1>10. SumFunctionOnSet(Costs', R) = SumFunctionOnSet(Costs, back)
  <2>1. \A r \in R : Costs'[r] \in Int /\ Costs'[r] = Costs[h[r]]
    BY <1>2, <1>4, <1>5
  <2> QED  BY <1>7, <1>8, <2>1, SumRenamed
<1>11. SumFunctionOnSet(Bases', R) = SumFunctionOnSet(Bases, back)
  <2>1. \A r \in R : Bases'[r] \in Int /\ Bases'[r] = Bases[h[r]]
    BY <1>2, <1>4, <1>5
  <2> QED  BY <1>7, <1>8, <2>1, SumRenamed
<1>12. SumFunctionOnSet(Costs, back) <= SumFunctionOnSet(Costs, S)
  <2>1. \A i \in S : Costs[i] \in Nat
    BY <1>5
  <2> QED  BY <1>1, <1>9, <2>1, SumOfPart
<1>13. Followed(m) => back = S
  <2> SUFFICES ASSUME Followed(m), NEW i \in S  PROVE i \in back
    BY <1>9
  <2>1. m[i] \in R /\ m[h[m[i]]] = m[i] /\ h[m[i]] \in S
    BY <1>1, <1>2
  <2>2. h[m[i]] = i
    BY <2>1 DEF Followed, S
  <2> QED  BY <2>1, <2>2
<1> HIDE DEF back
<1>14. OpenCost' = SumFunctionOnSet(Costs, back) /\ OpenBase' = SumFunctionOnSet(Bases, back)
  BY <1>3, <1>4, <1>10, <1>11, Zenon DEF SumFunction
<1>15. OpenCost = SumFunctionOnSet(Costs, S) /\ OpenBase = SumFunctionOnSet(Bases, S)
  BY <1>6, Zenon DEF SumFunction, OpenBase
<1>16. R \subseteq Nat
  BY <1>1
<1>17. OpenCost' <= OpenCost
  BY <1>12, <1>14, <1>15, Zenon
<1> QED  BY <1>7, <1>13, <1>14, <1>15, <1>16, <1>17, Zenon DEF R

-----------------------------------------------------------------------------
(* Type correctness *)

Lot == [cost : OrderSizes, base : Nat \ {0}]

(* The true profit of the day, as far as it is on the log, is a number. *)
LEMMA NetIsTyped ==
    ASSUME TypeOK
    PROVE  NetToday \in Int
<1> DEFINE S == {k \in DOMAIN closed : closed[k].day = day}
           f == [k \in S |-> closed[k].profit]
<1>1. IsFiniteSet(S) /\ \A k \in S : f[k] \in Int
  <2>1. IsFiniteSet(DOMAIN closed)
    BY LedgerIsTyped
  <2> QED  BY <2>1, FS_Subset DEF TypeOK
<1>2. DOMAIN f = S
  OBVIOUS
<1>3. NetToday = SumFunction(f)
  BY Zenon DEF NetToday
<1> HIDE DEF S, f
<1>4. SumFunctionOnSet(f, S) \in Int
  BY <1>1, SumIsInt
<1> QED  BY <1>2, <1>3, <1>4, Zenon DEF SumFunction

LEMMA BuyKeepsTypes ==
    ASSUME TypeOK, StepBuys
    PROVE  TypeOK'
<1>1. PICK i \in Nat \ filled, order \in OrderSizes :
              /\ Bought(i, order) \in Trade
              /\ trades' = Append(trades, Bought(i, order))
              /\ filled' = filled \cup {i}
              /\ lots'[i] = [cost |-> order, base |-> Bought(i, order).base]
              /\ \A j \in filled : lots'[j] = lots[j]
              /\ ready > 0 /\ ready' = ready - 1
              /\ Len(trades) < MaxTrades
              /\ UNCHANGED <<price, day, ladder, center, closed, forgotten, tangled>>
  BY BuyOpensALot
<1>2. trades \in Seq(Trade) /\ MaxTrades \in Nat
  BY Assumed DEF TypeOK
<1>3. /\ trades' \in Seq(Trade) /\ Len(trades') = Len(trades) + 1 /\ Len(trades') <= MaxTrades
      /\ DOMAIN trades \subseteq DOMAIN trades'
  BY <1>1, <1>2
<1>4. filled' \subseteq Nat /\ IsFiniteSet(filled')
  BY <1>1, FS_AddElement DEF TypeOK
<1>5. lots' \in [filled' -> Lot]
  <2>1. lots' = [j \in DOMAIN lots' |-> lots'[j]]
    BY DEF StepBuys
  <2>2. Bought(i, order).base \in Nat \ {0}
    BY <1>1 DEF Trade
  <2>3. lots'[i] \in Lot
    BY <1>1, <2>2 DEF Lot
  <2>4. \A j \in filled : lots'[j] \in Lot
    BY <1>1 DEF TypeOK, Lot
  <2>5. \A j \in filled' : lots'[j] \in Lot
    BY <1>1, <2>3, <2>4
  <2>6. filled' = DOMAIN lots'
    BY DEF filled
  <2>7. [j \in DOMAIN lots' |-> lots'[j]] \in [DOMAIN lots' -> Lot]
    BY <2>5, <2>6
  <2> QED  BY <2>1, <2>6, <2>7, Zenon
<1>6. ready' \in 0 .. Traders
  <2>1. ready > 0 /\ ready' = ready - 1
    BY <1>1
  <2>2. ready \in 0 .. Traders /\ Traders \in Nat
    BY Assumed DEF TypeOK
  <2> QED  BY <2>1, <2>2
<1>7. price' \in Prices /\ day' \in 0 .. LastDay /\ (ladder' = NoGrid \/ IsLadder(ladder')) /\ center' \in Int
  BY <1>1 DEF TypeOK
<1>8. /\ DOMAIN closed' \subseteq DOMAIN trades'
      /\ closed' \in [DOMAIN closed' -> [profit : Int, day : 0 .. LastDay]]
      /\ forgotten' \in Int /\ tangled' \in BOOLEAN
  BY <1>1, <1>3 DEF TypeOK
<1> QED  BY <1>3, <1>4, <1>5, <1>6, <1>7, <1>8 DEF TypeOK, Lot

LEMMA SalesKeepTypes ==
    ASSUME TypeOK, StepSells \/ Cancel
    PROVE  TypeOK'
<1>1. PICK n, rungs : AreSales(n, rungs)
  BY SellingSteps
<1>2. n \in Nat /\ rungs \in [1 .. n -> filled] /\ Sell(rungs)
  BY <1>1 DEF AreSales
<1>3. /\ trades' \in Seq(Trade) /\ Len(trades') = Len(trades) + n /\ Len(trades') <= MaxTrades
  BY <1>1, SalesAreLogged
<1>4. /\ filled' \subseteq filled
      /\ \A i \in filled' : lots'[i] = lots[i]
  BY <1>1, SalesTakeLots
<1>5. filled' \subseteq Nat /\ IsFiniteSet(filled')
  BY <1>4, FS_Subset DEF TypeOK
<1>6. lots' \in [filled' -> Lot]
  <2>1. lots' = [j \in DOMAIN lots' |-> lots'[j]]
    BY <1>2 DEF Sell
  <2>2. \A j \in filled' : lots'[j] \in Lot
    BY <1>4 DEF TypeOK, Lot
  <2>3. filled' = DOMAIN lots'
    BY DEF filled
  <2> QED  BY <2>1, <2>2, <2>3
<1>7. /\ ready' \in 0 .. Traders /\ price' \in Prices /\ day' \in 0 .. LastDay
      /\ ladder' = NoGrid \/ IsLadder(ladder')
      /\ center' \in Int /\ forgotten' \in Int /\ tangled' \in BOOLEAN
  <2>1. /\ UNCHANGED <<price, day, forgotten, tangled>>
        /\ ready' = ready \/ (ready > 0 /\ ready' = ready - 1)
        /\ ladder' \in {ladder, NoGrid} /\ center' \in {center, 0}
    BY SellingSteps
  <2>2. ready' \in 0 .. Traders
    BY <2>1, Assumed DEF TypeOK
  <2> QED  BY <2>1, <2>2 DEF TypeOK
<1>8. DOMAIN closed' \subseteq DOMAIN trades'
  <2>1. /\ DOMAIN closed' = DOMAIN closed \cup {Len(trades) + a : a \in 1 .. n}
    BY <1>1, SalesAreBooked, Zenon DEF SalesEnter
  <2>2. Len(trades) \in Nat /\ DOMAIN closed \subseteq 1 .. Len(trades) /\ DOMAIN trades' = 1 .. Len(trades) + n
    BY <1>3, LenProperties DEF TypeOK
  <2>3. \A a \in 1 .. n : Len(trades) + a \in 1 .. Len(trades) + n
    BY <1>2, <2>2
  <2>4. 1 .. Len(trades) \subseteq 1 .. Len(trades) + n
    BY <1>2, <2>2
  <2> QED  BY <2>1, <2>2, <2>3, <2>4
<1>9. closed' \in [DOMAIN closed' -> [profit : Int, day : 0 .. LastDay]]
  <2>1. closed' = [k \in DOMAIN closed' |-> closed'[k]]
    BY <1>2 DEF Sell
  <2>2. /\ DOMAIN closed' = DOMAIN closed \cup {Len(trades) + a : a \in 1 .. n}
        /\ \A k \in DOMAIN closed : closed'[k] = closed[k]
    BY <1>1, SalesAreBooked, Zenon DEF SalesEnter
  <2>3. \A a \in 1 .. n :
          closed'[Len(trades) + a] = [profit |-> SaleOf(rungs[a]).quote - lots[rungs[a]].cost, day |-> day]
    BY <1>1, SalesAreBooked, Zenon DEF SalesTell
  <2>4. ASSUME NEW a \in 1 .. n
        PROVE  SaleOf(rungs[a]).quote - lots[rungs[a]].cost \in Int
    <3>1. SaleOf(rungs[a]) \in Trade
      BY <1>1, SalesAreLogged
    <3>2. SaleOf(rungs[a]).quote \in Nat
      BY <3>1 DEF Trade
    <3>3. lots[rungs[a]].cost \in Nat
      BY <1>2, LotsAreTyped
    <3> QED  BY <3>2, <3>3
  <2>5. \A a \in 1 .. n : closed'[Len(trades) + a] \in [profit : Int, day : 0 .. LastDay]
    <3>1. day \in 0 .. LastDay
      BY DEF TypeOK
    <3>2. \A v \in Int : [profit |-> v, day |-> day] \in [profit : Int, day : 0 .. LastDay]
      BY <3>1
    <3> QED  BY <2>3, <2>4, <3>2, Zenon
  <2>6. \A k \in DOMAIN closed : closed'[k] \in [profit : Int, day : 0 .. LastDay]
    BY <2>2 DEF TypeOK
  <2>7. \A k \in DOMAIN closed' : closed'[k] \in [profit : Int, day : 0 .. LastDay]
    BY <2>2, <2>5, <2>6
  <2> QED  BY <2>1, <2>7
<1> QED  BY <1>3, <1>5, <1>6, <1>7, <1>8, <1>9 DEF TypeOK, Lot

LEMMA UpdateKeepsTypes ==
    ASSUME TypeOK, UpdateGrid
    PROVE  TypeOK'
<1>1. PICK m, h : Moving(m, h)
  BY UpdateMovesLots
<1>2. /\ lots' \in [filled' -> [cost : OrderSizes, base : Nat \ {0}]]
      /\ IsLadder(ladder') /\ center' \in Int
      /\ UNCHANGED <<price, day, ready, closed, forgotten>>
  BY UpdateMovesLots
<1>3. IsFiniteSet(filled') /\ filled' \subseteq Nat
  BY <1>1, MovedSums
<1>4. trades' \in Seq(Trade) /\ Len(trades') = Len(trades)
  BY <1>1, RelabelledKeepsTheRest DEF Moving, SameTrades
<1>5. DOMAIN trades' = DOMAIN trades
  BY <1>4, LenProperties DEF TypeOK
<1>6. tangled' \in BOOLEAN
  BY <1>1 DEF Moving, TypeOK
<1>7. closed' \in [DOMAIN closed' -> [profit : Int, day : 0 .. LastDay]]
  BY <1>2 DEF TypeOK
<1>8. /\ price' \in Prices /\ day' \in 0 .. LastDay
      /\ ready' \in 0 .. Traders
      /\ Len(trades') <= MaxTrades
      /\ DOMAIN closed' \subseteq DOMAIN trades'
      /\ forgotten' \in Int
  BY <1>2, <1>4, <1>5 DEF TypeOK
<1> QED  BY <1>2, <1>3, <1>4, <1>6, <1>7, <1>8, Zenon DEF TypeOK

LEMMA InitIsTyped == Init => TypeOK
<1> SUFFICES ASSUME Init  PROVE TypeOK
  OBVIOUS
<1>1. filled = {} /\ IsFiniteSet(filled)
  BY FS_EmptySet DEF Init, filled
<1>2. lots \in [filled -> [cost : OrderSizes, base : Nat \ {0}]]
  BY <1>1 DEF Init
<1>3. trades \in Seq(Trade) /\ Len(trades) = 0
  BY DEF Init
<1>4. closed \in [DOMAIN closed -> [profit : Int, day : 0 .. LastDay]] /\ DOMAIN closed = {}
  BY DEF Init
<1>5. Len(trades) <= MaxTrades /\ 0 \in 0 .. LastDay /\ 0 \in 0 .. Traders
  BY <1>3, Assumed
<1>6. /\ price \in Prices /\ day \in 0 .. LastDay /\ ready \in 0 .. Traders
      /\ ladder = NoGrid /\ center \in Int /\ forgotten \in Int /\ tangled \in BOOLEAN
  <2>1. 0 \in Int /\ FALSE \in BOOLEAN
    OBVIOUS
  <2> QED  BY <1>5, <2>1, Zenon DEF Init
<1>7. filled \subseteq Nat /\ DOMAIN closed \subseteq DOMAIN trades
  BY <1>1, <1>4
<1> QED  BY <1>1, <1>2, <1>3, <1>4, <1>5, <1>6, <1>7, Zenon DEF TypeOK

(* The ledger, the log and the histories keep their types, and the log its *)
(* bound: every lot has a cost and a positive base amount.                 *)
THEOREM MoneyIsTyped == Spec => []TypeOK
<1>1. TypeOK /\ [Next]_vars => TypeOK'
  <2> SUFFICES ASSUME TypeOK, [Next]_vars  PROVE TypeOK'
    OBVIOUS
  <2>1. CASE MovePrice
    BY <2>1 DEF TypeOK, MovePrice, history, filled
  <2>2. CASE Midnight
    <3>1. day' \in 0 .. LastDay
      BY <2>2, Assumed DEF Midnight, TypeOK
    <3>2. forgotten' \in Int
      BY <2>2 DEF Midnight
    <3> QED  BY <2>2, <3>1, <3>2 DEF TypeOK, Midnight, filled
  <2>3. CASE StepStarts
    <3>1. ready' \in 0 .. Traders
      BY <2>3, Assumed DEF StepStarts, TypeOK
    <3> QED  BY <2>3, <3>1 DEF TypeOK, StepStarts, history, filled
  <2>4. CASE StepWithdraws
    <3>1. ready' \in 0 .. Traders
      BY <2>4, Assumed DEF StepWithdraws, TypeOK
    <3> QED  BY <2>4, <3>1 DEF TypeOK, StepWithdraws, history, filled
  <2>5. CASE StepBuys
    BY <2>5, BuyKeepsTypes
  <2>6. CASE StepSells \/ Cancel
    BY <2>6, SalesKeepTypes
  <2>7. CASE Activate
    <3>1. price \in Prices /\ price \in Int /\ IsLadder(GridFor[price])
      BY Assumed DEF TypeOK
    <3>2. IsLadder(ladder') /\ center' \in Int
      BY <2>7, <3>1, LevelStandsUnderPrice DEF Activate
    <3> QED  BY <2>7, <3>2 DEF TypeOK, Activate, history, filled
  <2>8. CASE Reset
    <3>1. filled' = {} /\ IsFiniteSet(filled')
      BY <2>8, FS_EmptySet DEF Reset, filled
    <3>2. lots' \in [filled' -> [cost : OrderSizes, base : Nat \ {0}]]
      BY <2>8, <3>1 DEF Reset
    <3>3. trades' \in Seq(Trade) /\ Len(trades') = 0
      BY <2>8 DEF Reset
    <3>4. closed' \in [DOMAIN closed' -> [profit : Int, day : 0 .. LastDay]] /\ DOMAIN closed' = {}
      BY <2>8 DEF Reset
    <3>5. Len(trades') <= MaxTrades
      BY <3>3, Assumed
    <3>6. /\ price' \in Prices /\ day' \in 0 .. LastDay /\ ready' \in 0 .. Traders
          /\ ladder' = NoGrid /\ center' \in Int /\ tangled' \in BOOLEAN
      <4>1. 0 \in Int /\ FALSE \in BOOLEAN
        OBVIOUS
      <4> QED  BY <2>8, <4>1, Zenon DEF Reset, TypeOK
    <3>7. filled' \subseteq Nat /\ DOMAIN closed' \subseteq DOMAIN trades'
      BY <3>1, <3>4
    <3>8. forgotten' \in Int
      <4>1. NetToday \in Int /\ forgotten \in Int
        BY NetIsTyped DEF TypeOK
      <4> QED  BY <2>8, <4>1 DEF Reset
    <3> QED  BY <3>1, <3>2, <3>3, <3>4, <3>5, <3>6, <3>7, <3>8, Zenon DEF TypeOK
  <2>9. CASE UpdateGrid
    BY <2>9, UpdateKeepsTypes
  <2>10. CASE UNCHANGED vars
    BY <2>10 DEF TypeOK, vars, history, filled
  <2> QED  BY <2>1, <2>2, <2>3, <2>4, <2>5, <2>6, <2>7, <2>8, <2>9, <2>10 DEF Next
<1> QED  BY InitIsTyped, <1>1, PTL DEF Spec

-----------------------------------------------------------------------------
(* The books: cash, profit and lots *)

(* What the open lots cost is covered by the cash in the market and the    *)
(* true profit, and the cash in the market by the ceiling.  As long as the *)
(* labels of the log could follow the lots, nothing is left over: no lot   *)
(* has been lost where two of them met.                                    *)
Balanced ==
    /\ OpenCost <= Deployed(trades) + TrueProfit
    /\ Deployed(trades) <= MaxCapital
    /\ ~tangled => /\ OpenCost = Deployed(trades) + TrueProfit
                   /\ Base(trades, "buy") = Base(trades, "sell") + OpenBase

LEMMA BooksAreTyped ==
    ASSUME TypeOK
    PROVE  /\ OpenCost \in Int /\ OpenBase \in Int /\ TrueProfit \in Int
           /\ Quote(trades, "buy") \in Int /\ Quote(trades, "sell") \in Int
           /\ Base(trades, "buy") \in Int /\ Base(trades, "sell") \in Int
           /\ Deployed(trades) = Quote(trades, "buy") - Quote(trades, "sell")
           /\ MaxCapital \in Int
<1>1. trades \in Seq(Trade)
  BY DEF TypeOK
<1>2. /\ Quote(trades, "buy") \in Int /\ Quote(trades, "sell") \in Int
      /\ Base(trades, "buy") \in Int /\ Base(trades, "sell") \in Int
  BY <1>1, SidesAreFinite
<1>3. OpenCost \in Int /\ OpenBase \in Int /\ TrueProfit \in Int
  BY LedgerIsTyped
<1> QED  BY <1>2, <1>3, Assumed DEF Deployed

OpenSumsAreInts == OpenCost \in Int /\ OpenBase \in Int

LEMMA OpenSums == TypeOK => OpenSumsAreInts
BY BooksAreTyped DEF OpenSumsAreInts

LEMMA BuyKeepsTheBalance ==
    ASSUME TypeOK, Balanced, StepBuys
    PROVE  Balanced'
<1>1. PICK i \in Nat \ filled, order \in OrderSizes :
              /\ WithinCeiling(trades, order)
              /\ Bought(i, order) \in Trade
              /\ trades' = Append(trades, Bought(i, order))
              /\ filled' = filled \cup {i}
              /\ lots'[i] = [cost |-> order, base |-> Bought(i, order).base]
              /\ \A j \in filled : lots'[j] = lots[j]
              /\ UNCHANGED <<closed, tangled>>
  BY BuyOpensALot
<1>2. order \in Int /\ Bought(i, order).base \in Int
  BY <1>1, Assumed DEF Trade
<1>3. /\ Quote(trades', "buy") = Quote(trades, "buy") + order
      /\ Base(trades', "buy") = Base(trades, "buy") + Bought(i, order).base
      /\ Quote(trades', "sell") = Quote(trades, "sell")
      /\ Base(trades', "sell") = Base(trades, "sell")
      /\ OpenCost' = OpenCost + order
      /\ OpenBase' = OpenBase + Bought(i, order).base
      /\ TrueProfit' = TrueProfit
  BY <1>1, BuySums
<1>4. Deployed(trades') = Quote(trades', "buy") - Quote(trades', "sell")
  BY DEF Deployed
<1>5. Deployed(trades) + order <= MaxCapital
  BY <1>1 DEF WithinCeiling
<1>6. tangled' = tangled
  BY <1>1
<1>7. Balanced' <=> /\ OpenCost' <= Deployed(trades') + TrueProfit'
                    /\ Deployed(trades') <= MaxCapital
                    /\ ~tangled' => /\ OpenCost' = Deployed(trades') + TrueProfit'
                                    /\ Base(trades', "buy") = Base(trades', "sell") + OpenBase'
  BY Zenon DEF Balanced
<1> QED  BY <1>2, <1>3, <1>4, <1>5, <1>6, <1>7, BooksAreTyped DEF Balanced

LEMMA SalesKeepTheBalance ==
    ASSUME TypeOK, Balanced, StepSells \/ Cancel
    PROVE  Balanced'
<1>1. PICK n, rungs : AreSales(n, rungs)
  BY SellingSteps
<1>2. PICK quote \in Nat, base \in Nat, cost \in Nat, profit \in Int :
              /\ quote = profit + cost
              /\ Quote(trades', "sell") = Quote(trades, "sell") + quote
              /\ Base(trades', "sell") = Base(trades, "sell") + base
              /\ Quote(trades', "buy") = Quote(trades, "buy")
              /\ Base(trades', "buy") = Base(trades, "buy")
              /\ OpenCost = OpenCost' + cost
              /\ OpenBase = OpenBase' + base
              /\ TrueProfit' = TrueProfit + profit
  BY <1>1, SaleSums
<1>3. tangled' = tangled
  BY SellingSteps
<1>4. Deployed(trades') = Quote(trades', "buy") - Quote(trades', "sell")
  BY DEF Deployed
<1>5. OpenCost' \in Int /\ OpenBase' \in Int
  <2>1. TypeOK'
    BY SalesKeepTypes
  <2>2. OpenSumsAreInts'
    BY <2>1, OpenSums, PTL
  <2> QED  BY <2>2 DEF OpenSumsAreInts
<1>6. Balanced' <=> /\ OpenCost' <= Deployed(trades') + TrueProfit'
                    /\ Deployed(trades') <= MaxCapital
                    /\ ~tangled' => /\ OpenCost' = Deployed(trades') + TrueProfit'
                                    /\ Base(trades', "buy") = Base(trades', "sell") + OpenBase'
  BY Zenon DEF Balanced
<1> DEFINE oc == OpenCost
           tp == TrueProfit
           d  == Deployed(trades)
           bb == Base(trades, "buy")
           bs == Base(trades, "sell")
           ocN == OpenCost'
           tpN == TrueProfit'
           dN  == Deployed(trades')
           obN == OpenBase'
           bbN == Base(trades', "buy")
           bsN == Base(trades', "sell")
<1>7. /\ oc \in Int /\ tp \in Int /\ d \in Int /\ bb \in Int /\ bs \in Int
      /\ ocN \in Int /\ obN \in Int /\ MaxCapital \in Int
  BY <1>5, BooksAreTyped
<1>8. /\ oc = ocN + cost /\ quote = profit + cost
      /\ tpN = tp + profit /\ bbN = bb /\ bsN = bs + base
  BY <1>2
<1>9. dN = d - quote
  BY <1>2, <1>4, BooksAreTyped
<1>10. oc <= d + tp /\ d <= MaxCapital
  BY DEF Balanced
<1>11. ~tangled' => oc = d + tp /\ bb = bs + (obN + base)
  BY <1>2, <1>3 DEF Balanced
<1>12. Balanced' <=> /\ ocN <= dN + tpN
                     /\ dN <= MaxCapital
                     /\ ~tangled' => ocN = dN + tpN /\ bbN = bsN + obN
  BY <1>6
<1> HIDE DEF oc, tp, d, bb, bs, ocN, tpN, dN, obN, bbN, bsN
<1>13. ocN <= dN + tpN /\ dN <= MaxCapital
  BY <1>7, <1>8, <1>9, <1>10
<1>14. ~tangled' => ocN = dN + tpN /\ bbN = bsN + obN
  BY <1>7, <1>8, <1>9, <1>11
<1> QED  BY <1>12, <1>13, <1>14

LEMMA UpdateKeepsTheBalance ==
    ASSUME TypeOK, Balanced, UpdateGrid
    PROVE  Balanced'
<1>1. PICK m, h : Moving(m, h)
  BY UpdateMovesLots
<1>2. trades \in Seq(Trade) /\ SameTrades(trades, trades')
  BY <1>1, RelabelledKeepsTheRest DEF Moving, TypeOK
<1>3. /\ Quote(trades', "buy") = Quote(trades, "buy") /\ Quote(trades', "sell") = Quote(trades, "sell")
      /\ Base(trades', "buy") = Base(trades, "buy") /\ Base(trades', "sell") = Base(trades, "sell")
  BY <1>2, SameTradesSameSums
<1>4. Deployed(trades') = Deployed(trades)
  BY <1>3 DEF Deployed
<1>5. TrueProfit' = TrueProfit
  <2>1. closed' = closed
    BY UpdateMovesLots
  <2> QED  BY <2>1, Zenon DEF TrueProfit, Profits
<1>6. OpenCost' <= OpenCost /\ (Followed(m) => OpenCost' = OpenCost /\ OpenBase' = OpenBase)
  BY <1>1, MovedSums
<1>7. ~tangled' => ~tangled /\ Followed(m)
  BY <1>1 DEF Moving
<1>8. OpenCost' \in Int
  <2>1. TypeOK'
    BY UpdateKeepsTypes
  <2>2. OpenSumsAreInts'
    BY <2>1, OpenSums, PTL
  <2> QED  BY <2>2 DEF OpenSumsAreInts
<1>9. Balanced' <=> /\ OpenCost' <= Deployed(trades') + TrueProfit'
                    /\ Deployed(trades') <= MaxCapital
                    /\ ~tangled' => /\ OpenCost' = Deployed(trades') + TrueProfit'
                                    /\ Base(trades', "buy") = Base(trades', "sell") + OpenBase'
  BY Zenon DEF Balanced
<1> QED  BY <1>3, <1>4, <1>5, <1>6, <1>7, <1>8, <1>9, BooksAreTyped DEF Balanced

NothingYet == lots = <<>> /\ trades = <<>> /\ closed = <<>>

LEMMA EmptyBooksBalance == NothingYet => Balanced
<1> SUFFICES ASSUME lots = <<>>, trades = <<>>, closed = <<>>
             PROVE  Balanced
  BY DEF NothingYet
<1>1. DOMAIN lots = {} /\ DOMAIN trades = {} /\ DOMAIN closed = {}
  OBVIOUS
<1>2. SumFunction(Costs) = 0 /\ OpenBase = 0 /\ TrueProfit = 0 /\ OpenCost = 0
  <2>1. DOMAIN Costs = {} /\ DOMAIN Bases = {} /\ DOMAIN Profits = {}
    BY <1>1 DEF Costs, Bases, Profits, filled
  <2> QED  BY <2>1, SumOfNone, Zenon DEF SumFunction, OpenBase, TrueProfit, OpenCost, Costs
<1>3. ASSUME NEW side  PROVE Quote(trades, side) = 0 /\ Base(trades, side) = 0
  <2>1. Side(trades, side) = {}
    BY <1>1 DEF Side
  <2>2. /\ DOMAIN [k \in Side(trades, side) |-> trades[k].quote] = {}
        /\ DOMAIN [k \in Side(trades, side) |-> trades[k].base] = {}
    BY <2>1
  <2> QED  BY <2>2, SumOfNone, Zenon DEF SumFunction, Quote, Base
<1>4. /\ Quote(trades, "buy") = 0 /\ Quote(trades, "sell") = 0
      /\ Base(trades, "buy") = 0 /\ Base(trades, "sell") = 0
  BY <1>3
<1>5. Deployed(trades) = 0
  BY <1>4 DEF Deployed
<1> QED  BY <1>2, <1>4, <1>5, Assumed DEF Balanced

LEMMA BooksBalance == Spec => []Balanced
<1>1. Init => Balanced
  BY EmptyBooksBalance DEF Init, NothingYet
<1>2. TypeOK /\ Balanced /\ [Next]_vars => Balanced'
  <2> SUFFICES ASSUME TypeOK, Balanced, [Next]_vars  PROVE Balanced'
    OBVIOUS
  <2>1. CASE UNCHANGED <<lots, trades, closed, tangled>>
    BY <2>1, Zenon DEF Balanced, OpenCost, OpenBase, Bases, TrueProfit, Profits, filled
  <2>2. CASE StepBuys
    BY <2>2, BuyKeepsTheBalance
  <2>3. CASE StepSells \/ Cancel
    BY <2>3, SalesKeepTheBalance
  <2>4. CASE UpdateGrid
    BY <2>4, UpdateKeepsTheBalance
  <2>5. CASE Reset
    <3>1. NothingYet'
      BY <2>5 DEF Reset, NothingYet
    <3> QED  BY <3>1, EmptyBooksBalance, PTL
  <2>6. MovePrice \/ Midnight \/ StepStarts \/ StepWithdraws \/ Activate \/ UNCHANGED vars
        => UNCHANGED <<lots, trades, closed, tangled>>
    BY DEF MovePrice, Midnight, StepStarts, StepWithdraws, Activate, vars, history
  <2> QED  BY <2>1, <2>2, <2>3, <2>4, <2>5, <2>6 DEF Next
<1> QED  BY <1>1, <1>2, MoneyIsTyped, PTL DEF Spec

(* The capital ceiling bounds what the open lots cost: they never exceed   *)
(* max_capital_usdt by more than what the closed ones have earned, for     *)
(* every fee, every edit of order_size_usdt and every number of traders    *)
(* that are past the breaker at once.                                      *)
THEOREM ExposureStaysBounded == Spec => []ExposureIsBounded
<1>1. TypeOK /\ Balanced => ExposureIsBounded
  BY BooksAreTyped DEF Balanced, ExposureIsBounded
<1> QED  BY <1>1, MoneyIsTyped, BooksBalance, PTL

(* What the lots would bring over their cost at the present price. *)
LEMMA MarkIsOfTheSums ==
    ASSUME TypeOK
    PROVE  MarkToMarket = OpenBase * price - OpenCost
<1> DEFINE marks == [i \in filled |-> lots[i].base * price - lots[i].cost]
           S == filled
<1>1. \A i \in S : Bases[i] \in Int /\ Costs[i] \in Int
  BY LotsAreTyped
<1>2. \A i \in S : marks[i] = Bases[i] * price - Costs[i]
  BY Zenon DEF Bases, Costs
<1>3. IsFiniteSet(S) /\ price \in Int
  BY Assumed DEF TypeOK
<1>4. DOMAIN marks = S /\ DOMAIN Bases = S /\ DOMAIN Costs = S
  BY DEF Bases, Costs
<1>5. MarkToMarket = SumFunction(marks) /\ OpenCost = SumFunction(Costs)
  BY LedgerIsTyped, Zenon DEF MarkToMarket
<1> HIDE DEF marks, S
<1>6. SumFunctionOnSet(marks, S) = SumFunctionOnSet(Bases, S) * price - SumFunctionOnSet(Costs, S)
  BY <1>1, <1>2, <1>3, SumOfProducts
<1> QED  BY <1>4, <1>5, <1>6, Zenon DEF SumFunction, OpenBase

(* Realised and unrealised profit together are what the closed lots earned *)
(* and the open ones are worth over their cost, at every price and after   *)
(* any sequence of partial cancels, although both figures of               *)
(* get_performance are made from the average price of all buys.            *)
THEOREM PerformanceAddsUp == Spec => []PerformanceIsEquity
<1>1. TypeOK /\ Balanced => PerformanceIsEquity
  <2> SUFFICES ASSUME TypeOK, Balanced, ~tangled
               PROVE  Realised(trades) + Unrealised(trades, price)
                        = (TrueProfit + MarkToMarket) * Base(trades, "buy")
    BY DEF PerformanceIsEquity
  <2> DEFINE q  == Quote(trades, "buy")
             qs == Quote(trades, "sell")
             b  == Base(trades, "buy")
             bs == Base(trades, "sell")
             tp == TrueProfit
             oc == OpenCost
             ob == OpenBase
             p  == price
  <2>1. /\ q \in Int /\ qs \in Int /\ b \in Int /\ bs \in Int
        /\ tp \in Int /\ oc \in Int /\ ob \in Int
    BY BooksAreTyped
  <2>2. p \in Int
    BY Assumed DEF TypeOK
  <2>3. oc = (q - qs) + tp /\ b = bs + ob
    BY BooksAreTyped DEF Balanced
  <2>4. Realised(trades) = qs * b - q * bs /\ Unrealised(trades, price) = (p * b - q) * (b - bs)
    BY Zenon DEF Realised, Unrealised
  <2>5. MarkToMarket = ob * p - oc
    BY MarkIsOfTheSums
  <2> HIDE DEF q, qs, b, bs, tp, oc, ob, p
  <2>6. (qs * b - q * bs) + (p * b - q) * (b - bs) = (tp + (ob * p - oc)) * b
    <3>1. ob = b - bs
      BY <2>1, <2>3
    <3>2. (tp + (ob * p - oc)) = (b - bs) * p + (qs - q)
      <4>1. (b - bs) * p \in Int
        BY <2>1, <2>2
      <4> DEFINE x == (b - bs) * p
      <4> HIDE DEF x
      <4>2. tp + (x - oc) = x + (qs - q)
        BY <2>1, <2>3, <4>1 DEF x
      <4> QED  BY <3>1, <4>2 DEF x
    <3>3. (qs * b - q * bs) + (p * b - q) * (b - bs) = ((b - bs) * p + (qs - q)) * b
      BY <2>1, <2>2
    <3> QED  BY <3>2, <3>3
  <2> QED  BY <2>4, <2>5, <2>6 DEF b, tp
<1> QED  BY <1>1, MoneyIsTyped, BooksBalance, PTL

(* Under a ceiling that check_config_consistency accepts, a book that has  *)
(* not lost and holds no lot above the centre can pay every buy it decides *)
(* on, if the ladder has no more buy rungs than the probe: the rung of the *)
(* buy is one of at most ProbeRungs, and the others are what was spent.    *)
THEOREM SweepStaysFunded == Spec => []SweepIsFunded
<1>1. TypeOK /\ Balanced => SweepIsFunded
  <2> SUFFICES ASSUME TypeOK, Balanced, NEW order \in OrderSizes,
                      Decision.action = "buy", ~tangled,
                      SweepFits(order), center + 1 <= ProbeRungs,
                      filled \subseteq 0 .. center, \A i \in filled : lots[i].cost <= order,
                      TrueProfit >= 0
               PROVE  WithinCeiling(trades, order)
    BY DEF SweepIsFunded
  <2> DEFINE n == Cardinality(filled)
             i == Decision.level
  <2>1. i \in Nat /\ i \notin filled /\ i <= center /\ center \in Int
    BY DecisionFits DEF TypeOK
  <2>2. IsFiniteSet(filled) /\ n \in Nat
    BY FS_CardinalityType DEF TypeOK
  <2>3. n + 1 <= ProbeRungs
    <3> HIDE DEF i
    <3>1. filled \cup {i} \subseteq 0 .. center
      BY <2>1
    <3>2. IsFiniteSet(0 .. center) /\ Cardinality(0 .. center) = center + 1
      <4>1. center \in Int /\ 0 \in Int /\ 0 <= center
        BY <2>1
      <4>2. /\ IsFiniteSet(0 .. center)
            /\ Cardinality(0 .. center) = IF 0 > center THEN 0 ELSE center - 0 + 1
        BY <4>1, FS_Interval, Zenon
      <4> QED  BY <4>1, <4>2
    <3>3. Cardinality(filled \cup {i}) = n + 1
      BY <2>1, <2>2, FS_AddElement
    <3>4. Cardinality(filled \cup {i}) <= Cardinality(0 .. center)
      BY <3>1, <3>2, FS_Subset
    <3> HIDE DEF n
    <3> QED  BY <2>1, <2>2, <3>2, <3>3, <3>4, Assumed
  <2>4. OpenCost <= order * n
    <3>1. \A j \in filled : Costs[j] \in Int /\ Costs[j] <= order
      <4>1. \A j \in filled : Costs[j] \in Int
        BY LotsAreTyped
      <4>2. \A j \in filled : Costs[j] = lots[j].cost
        BY DEF Costs
      <4> QED  BY <4>1, <4>2
    <3>2. order \in Int
      BY Assumed
    <3>3. SumFunctionOnSet(Costs, filled) <= order * n
      BY <2>2, <3>1, <3>2, SumIsAtMost
    <3>4. OpenCost = SumFunctionOnSet(Costs, filled)
      BY LedgerIsTyped, Zenon DEF SumFunction
    <3> QED  BY <3>3, <3>4, Zenon
  <2> DEFINE d  == Deployed(trades)
             tp == TrueProfit
             oc == OpenCost
  <2>5. d \in Int /\ tp \in Int /\ oc \in Int /\ order \in Nat /\ ProbeRungs \in Nat /\ MaxCapital \in Nat
    BY BooksAreTyped, Assumed
  <2>6. oc = d + tp /\ oc <= order * n /\ tp >= 0
    BY <2>4 DEF Balanced
  <2>7. order * ProbeRungs <= MaxCapital
    BY DEF SweepFits
  <2> HIDE DEF n, d, tp, oc
  <2>8. order * n + order <= order * ProbeRungs
    <3>1. order * (n + 1) <= order * ProbeRungs
      <4>1. \A x, y, z \in Nat : x <= y => z * x <= z * y
        OBVIOUS
      <4> QED  BY <2>2, <2>3, <2>5, <4>1
    <3>2. order * (n + 1) = order * n + order
      BY <2>2, <2>5
    <3> QED  BY <3>1, <3>2
  <2>9. order * n \in Int /\ order * ProbeRungs \in Int
    BY <2>2, <2>5
  <2>10. d + order <= MaxCapital
    <3> DEFINE x == order * n
               y == order * ProbeRungs
    <3>1. x \in Int /\ y \in Int /\ oc <= x /\ x + order <= y /\ y <= MaxCapital
      BY <2>6, <2>7, <2>8, <2>9
    <3> HIDE DEF x, y
    <3> QED  BY <2>5, <2>6, <3>1
  <2> QED  BY <2>10 DEF WithinCeiling, d
<1> QED  BY <1>1, MoneyIsTyped, BooksBalance, PTL

-----------------------------------------------------------------------------
(* Round trips *)

LEMMA PairIsBefore ==
    ASSUME NEW log, NEW k \in Nat, k > 0, PairOf(log, k) # 0
    PROVE  /\ PairOf(log, k) \in 1 .. k-1
           /\ IsLast(log, k-1, log[k].level, PairOf(log, k))
           /\ log[PairOf(log, k)].side = "buy"
<1> DEFINE before == LastAt(log, k-1, log[k].level)
<1>1. PairOf(log, k) = IF before # 0 /\ log[before].side = "buy" THEN before ELSE 0
  BY Zenon DEF PairOf, LastAt
<1> HIDE DEF before
<1>2. PairOf(log, k) = before /\ before # 0 /\ log[before].side = "buy"
  BY <1>1
<1>3. k-1 \in Nat
  OBVIOUS
<1>4. IsLast(log, k-1, log[k].level, before)
  BY <1>2, <1>3, LastOfSome DEF before
<1> QED  BY <1>2, <1>4 DEF IsLast

LEMMA PairIsTheLast ==
    ASSUME NEW log, NEW k \in Nat, k > 0, NEW b, IsLast(log, k-1, log[k].level, b),
           log[b].side = "buy"
    PROVE  PairOf(log, k) = b /\ b # 0
<1>1. k-1 \in Nat
  OBVIOUS
<1>2. LastAt(log, k-1, log[k].level) = b
  BY <1>1, LastIsSelected
<1>3. b # 0
  BY <1>1 DEF IsLast
<1> QED  BY <1>2, <1>3, Zenon DEF PairOf, LastAt

(* A pair depends on where the level of the sell was traded before it, and *)
(* on the sides of those trades.                                           *)
LEMMA SamePair ==
    ASSUME NEW log, NEW other, NEW k \in Nat, k > 0,
           \A j \in 1 .. k-1 : other[j].level = other[k].level <=> log[j].level = log[k].level,
           \A j \in 1 .. k-1 : other[j].side = log[j].side
    PROVE  PairOf(other, k) = PairOf(log, k)
<1> DEFINE S == {j \in 1 .. k-1 : log[j].level = log[k].level}
           before == IF S # {} THEN Max(S) ELSE 0
<1>1. {j \in 1 .. k-1 : other[j].level = other[k].level} = S
  OBVIOUS
<1>2. /\ SelectLastInSubSeq(log, 1, k-1, LAMBDA t : t.level = log[k].level) = before
      /\ SelectLastInSubSeq(other, 1, k-1, LAMBDA t : t.level = other[k].level) = before
  BY <1>1, Zenon DEF SelectLastInSubSeq
<1>3. before # 0 => other[before].side = log[before].side
  <2> SUFFICES ASSUME before # 0  PROVE other[before].side = log[before].side
    OBVIOUS
  <2>1. S # {} /\ before = Max(S)
    OBVIOUS
  <2>2. k-1 \in Nat
    OBVIOUS
  <2>3. Max(S) \in S
    BY <2>1, <2>2, MaxIsThere
  <2>4. Max(S) \in 1 .. k-1
    BY <2>3
  <2> HIDE DEF S, before
  <2> QED  BY <2>1, <2>4
<1>4. /\ PairOf(log, k) = IF before # 0 /\ log[before].side = "buy" THEN before ELSE 0
      /\ PairOf(other, k) = IF before # 0 /\ other[before].side = "buy" THEN before ELSE 0
  BY <1>2, Zenon DEF PairOf
<1> HIDE DEF before
<1> QED  BY <1>3, <1>4

LEMMA PairsOfLongerLog ==
    ASSUME NEW log \in Seq(Trade), NEW more \in Seq(Trade), Len(log) <= Len(more),
           \A k \in 1 .. Len(log) : more[k] = log[k]
    PROVE  /\ Pairs(log) \subseteq 1 .. Len(log) /\ Pairs(more) \subseteq 1 .. Len(more)
           /\ \A k \in 1 .. Len(log) : k \in Pairs(more) <=> k \in Pairs(log)
           /\ \A k \in Pairs(log) : Profit(more, k) = Profit(log, k)
<1>1. /\ Len(log) \in Nat /\ DOMAIN log = 1 .. Len(log)
      /\ Len(more) \in Nat /\ DOMAIN more = 1 .. Len(more)
  BY LenProperties
<1>2. Pairs(log) \subseteq 1 .. Len(log) /\ Pairs(more) \subseteq 1 .. Len(more)
  BY <1>1 DEF Pairs, Side
<1>3. ASSUME NEW k \in 1 .. Len(log)
      PROVE  PairOf(more, k) = PairOf(log, k) /\ (k \in Pairs(more) <=> k \in Pairs(log))
  <2>1. k \in Nat /\ k > 0 /\ \A j \in 1 .. k-1 : j \in 1 .. Len(log)
    BY <1>1
  <2>2. /\ more[k] = log[k]
        /\ \A j \in 1 .. k-1 : more[j] = log[j]
    BY <2>1
  <2>3. PairOf(more, k) = PairOf(log, k)
    BY <2>1, <2>2, SamePair
  <2>4. k \in DOMAIN log /\ k \in DOMAIN more
    BY <1>1
  <2> QED  BY <2>2, <2>3, <2>4 DEF Pairs, Side
<1>4. ASSUME NEW k \in Pairs(log)  PROVE Profit(more, k) = Profit(log, k)
  <2>1. k \in 1 .. Len(log) /\ k \in Nat /\ k > 0 /\ PairOf(log, k) # 0
    BY <1>1, <1>2 DEF Pairs
  <2>2. PairOf(log, k) \in 1 .. k-1
    BY <2>1, PairIsBefore
  <2>3. PairOf(log, k) \in 1 .. Len(log)
    BY <1>1, <2>1, <2>2
  <2>4. PairOf(more, k) = PairOf(log, k)
    BY <1>3, <2>1
  <2> QED  BY <2>1, <2>3, <2>4 DEF Profit
<1> QED  BY <1>2, <1>3, <1>4

(* The buy of every open lot is the last trade at its rung, and says what  *)
(* the lot cost.                                                           *)
IsBuyOf(i, b) ==
    /\ IsLast(trades, Len(trades), i, b)
    /\ trades[b].side = "buy" /\ trades[b].quote = lots[i].cost

Told == /\ \A i \in filled : \E b : IsBuyOf(i, b)
        /\ RoundTrips(trades) = Profits

LEMMA BuyKeepsItTold ==
    ASSUME TypeOK, Told, StepBuys
    PROVE  Told'
<1>1. PICK i \in Nat \ filled, order \in OrderSizes :
              /\ Bought(i, order) \in Trade
              /\ trades' = Append(trades, Bought(i, order))
              /\ filled' = filled \cup {i}
              /\ lots'[i] = [cost |-> order, base |-> Bought(i, order).base]
              /\ \A j \in filled : lots'[j] = lots[j]
              /\ UNCHANGED <<closed, tangled>>
  BY BuyOpensALot
<1> DEFINE t == Bought(i, order)
<1>2. t.side = "buy" /\ t.level = i /\ t.quote = order
  BY DEF Bought
<1> HIDE DEF t
<1>0. PICK L \in Nat : L = Len(trades)
  BY DEF TypeOK
<1>3. trades \in Seq(Trade) /\ L \in Nat /\ Len(trades) = L
  BY <1>0 DEF TypeOK
<1>4. /\ trades' \in Seq(Trade) /\ Len(trades') = L + 1
      /\ trades'[L + 1] = t
      /\ \A k \in 1 .. L : trades'[k] = trades[k]
  BY <1>1, <1>3 DEF t
<1>5. ASSUME NEW j \in filled'  PROVE \E b : IsBuyOf(j, b)'
  <2>1. CASE j = i
    <3>1. IsLast(trades', L + 1, i, L + 1)
      BY <1>2, <1>3, <1>4 DEF IsLast
    <3>2. lots'[i].cost = order
      BY <1>1
    <3>3. IsBuyOf(i, L + 1)'
      BY <1>2, <1>4, <3>1, <3>2 DEF IsBuyOf
    <3> QED  BY <2>1, <3>3
  <2>2. CASE j # i
    <3>1. j \in filled
      BY <1>1, <2>2
    <3>2. PICK b : IsBuyOf(j, b)
      BY <3>1 DEF Told
    <3>3. /\ b \in 1 .. L /\ trades[b].level = j /\ trades[b].side = "buy"
          /\ trades[b].quote = lots[j].cost
          /\ \A k \in b+1 .. L : trades[k].level # j
      BY <3>2, <1>3 DEF IsBuyOf, IsLast
    <3>4. \A k \in b+1 .. L+1 : trades'[k].level # j
      <4> SUFFICES ASSUME NEW k \in b+1 .. L+1  PROVE trades'[k].level # j
        OBVIOUS
      <4>1. k = L+1 \/ (k \in b+1 .. L /\ k \in 1 .. L)
        BY <1>3, <3>3
      <4> QED  BY <1>2, <1>4, <2>2, <3>3, <4>1
    <3>5. IsLast(trades', L + 1, j, b)
      BY <1>3, <1>4, <3>3, <3>4 DEF IsLast
    <3>6. IsBuyOf(j, b)'
      BY <1>1, <1>4, <3>1, <3>3, <3>5 DEF IsBuyOf
    <3> QED  BY <3>6
  <2> QED  BY <2>1, <2>2
<1>6. RoundTrips(trades') = RoundTrips(trades)
  <2>0. L <= Len(trades') /\ \A k \in 1 .. Len(trades) : trades'[k] = trades[k]
    BY <1>3, <1>4
  <2>1. /\ Pairs(trades) \subseteq 1 .. L /\ Pairs(trades') \subseteq 1 .. L + 1
        /\ \A k \in 1 .. L : k \in Pairs(trades') <=> k \in Pairs(trades)
        /\ \A k \in Pairs(trades) : Profit(trades', k) = Profit(trades, k)
    BY <1>3, <1>4, <2>0, PairsOfLongerLog
  <2>2. L + 1 \notin Pairs(trades')
    BY <1>2, <1>4 DEF Pairs, Side
  <2>3. \A k \in 1 .. L + 1 : k # L + 1 => k \in 1 .. L
    BY <1>3
  <2>4. Pairs(trades') = Pairs(trades)
    BY <2>1, <2>2, <2>3
  <2> QED  BY <2>1, <2>4 DEF RoundTrips
<1>7. Profits' = Profits
  BY <1>1, Zenon DEF Profits
<1>8. Told' <=> (\A j \in filled' : \E b : IsBuyOf(j, b)') /\ RoundTrips(trades') = Profits'
  BY Zenon DEF Told
<1> QED  BY <1>5, <1>6, <1>7, <1>8 DEF Told

LEMMA SalesKeepItTold ==
    ASSUME TypeOK, Told, StepSells \/ Cancel
    PROVE  Told'
<1>1. PICK n, rungs : AreSales(n, rungs)
  BY SellingSteps
<1>2. /\ n \in Nat /\ rungs \in [1 .. n -> filled]
      /\ \A a, b \in 1 .. n : rungs[a] = rungs[b] => a = b
  BY <1>1 DEF AreSales
<1>3. PICK L \in Nat : L = Len(trades)
  BY DEF TypeOK
<1>4. trades \in Seq(Trade) /\ Len(trades) = L
  BY <1>3 DEF TypeOK
<1>5. /\ trades' \in Seq(Trade) /\ Len(trades') = L + n
      /\ \A k \in 1 .. L : trades'[k] = trades[k]
      /\ \A a \in 1 .. n : trades'[L + a] = SaleOf(rungs[a])
  BY <1>1, <1>3, SalesAreLogged
<1>6. /\ filled' = filled \ {rungs[a] : a \in 1 .. n}
      /\ \A i \in filled' : lots'[i] = lots[i]
  BY <1>1, SalesTakeLots
<1>7. /\ DOMAIN closed' = DOMAIN closed \cup {L + a : a \in 1 .. n}
      /\ \A k \in DOMAIN closed : closed'[k] = closed[k]
      /\ \A a \in 1 .. n : closed'[L + a].profit = SaleOf(rungs[a]).quote - lots[rungs[a]].cost
  <2>1. /\ DOMAIN closed' = DOMAIN closed \cup {Len(trades) + a : a \in 1 .. n}
        /\ \A k \in DOMAIN closed : closed'[k] = closed[k]
    BY <1>1, SalesAreBooked, Zenon DEF SalesEnter
  <2>2. \A a \in 1 .. n :
          closed'[Len(trades) + a] = [profit |-> SaleOf(rungs[a]).quote - lots[rungs[a]].cost, day |-> day]
    BY <1>1, SalesAreBooked, Zenon DEF SalesTell
  <2>3. ASSUME NEW a \in 1 .. n
        PROVE  closed'[Len(trades) + a].profit = SaleOf(rungs[a]).quote - lots[rungs[a]].cost
    <3>1. closed'[Len(trades) + a] = [profit |-> SaleOf(rungs[a]).quote - lots[rungs[a]].cost, day |-> day]
      BY <2>2, Zenon
    <3> QED  BY <3>1
  <2>4. \A a \in 1 .. n :
          closed'[Len(trades) + a].profit = SaleOf(rungs[a]).quote - lots[rungs[a]].cost
    BY <2>3, Zenon
  <2> QED  BY <1>3, <2>1, <2>4, Zenon
<1>8. \A a \in 1 .. n : trades'[L + a].side = "sell" /\ trades'[L + a].level = rungs[a]
  <2>1. \A i : SaleOf(i).side = "sell" /\ SaleOf(i).level = i
    BY DEF SaleOf
  <2> QED  BY <1>5, <2>1, Zenon
<1>9. \A k \in 1 .. L + n : k \in 1 .. L \/ \E a \in 1 .. n : k = L + a
  <2> SUFFICES ASSUME NEW k \in 1 .. L + n, k \notin 1 .. L
               PROVE  \E a \in 1 .. n : k = L + a
    OBVIOUS
  <2>1. k - L \in 1 .. n /\ k = L + (k - L)
    BY <1>2
  <2> QED  BY <2>1
<1>10. ASSUME NEW i \in filled
       PROVE  \E b : /\ b \in 1 .. L /\ trades[b].level = i /\ trades[b].side = "buy"
                     /\ trades[b].quote = lots[i].cost
                     /\ \A k \in b+1 .. L : trades[k].level # i
  BY <1>4 DEF Told, IsBuyOf, IsLast
<1>11. ASSUME NEW i \in filled'  PROVE \E b : IsBuyOf(i, b)'
  <2>1. i \in filled /\ \A a \in 1 .. n : rungs[a] # i
    BY <1>6
  <2>2. PICK b : /\ b \in 1 .. L /\ trades[b].level = i /\ trades[b].side = "buy"
                 /\ trades[b].quote = lots[i].cost
                 /\ \A k \in b+1 .. L : trades[k].level # i
    BY <1>10, <2>1
  <2>3. ASSUME NEW k \in b+1 .. L + n  PROVE trades'[k].level # i
    <3>1. k \in 1 .. L + n /\ k >= b+1 /\ b \in Nat
      BY <1>2, <2>2
    <3>2. CASE k \in 1 .. L
      <4>1. k \in b+1 .. L
        BY <3>1, <3>2
      <4> QED  BY <1>5, <2>2, <3>2, <4>1
    <3>3. CASE \E a \in 1 .. n : k = L + a
      BY <1>8, <2>1, <3>3
    <3> QED  BY <1>9, <3>1, <3>2, <3>3
  <2>4. b \in 1 .. L + n /\ trades'[b] = trades[b]
    BY <1>2, <1>5, <2>2
  <2>5. IsLast(trades', L + n, i, b)
    BY <2>2, <2>3, <2>4 DEF IsLast
  <2>6. IsBuyOf(i, b)'
    BY <1>5, <1>6, <2>2, <2>4, <2>5 DEF IsBuyOf
  <2> QED  BY <2>6
<1>12. ASSUME NEW a \in 1 .. n
       PROVE  /\ L + a \in Pairs(trades')
              /\ Profit(trades', L + a) = closed'[L + a].profit
  <2> DEFINE i == rungs[a]
             k == L + a
  <2>1. i \in filled
    BY <1>2
  <2>2. PICK b : /\ b \in 1 .. L /\ trades[b].level = i /\ trades[b].side = "buy"
                 /\ trades[b].quote = lots[i].cost
                 /\ \A j \in b+1 .. L : trades[j].level # i
    BY <1>10, <2>1
  <2>3. k \in Nat /\ k > 0 /\ k \in 1 .. L + n /\ trades'[k].level = i /\ trades'[k].side = "sell"
    BY <1>2, <1>8
  <2>4. ASSUME NEW j \in b+1 .. k-1  PROVE trades'[j].level # i
    <3>1. j \in Nat /\ b \in Nat /\ j >= b+1 /\ j <= k-1 /\ a \in Nat
      BY <2>2, <2>3
    <3>2. CASE j <= L
      <4>1. j \in b+1 .. L /\ j \in 1 .. L
        BY <3>1, <3>2
      <4> QED  BY <1>5, <2>2, <4>1
    <3>3. CASE j > L
      <4>1. j - L \in 1 .. n /\ j = L + (j - L) /\ j - L # a
        BY <1>2, <3>1, <3>3
      <4>2. trades'[j].level = rungs[j - L]
        BY <1>8, <4>1
      <4> QED  BY <1>2, <4>1, <4>2
    <3> QED  BY <3>1, <3>2, <3>3
  <2>5. b \in 1 .. k-1 /\ trades'[b] = trades[b]
    BY <1>5, <2>2
  <2> HIDE DEF i, k
  <2>6. IsLast(trades', k-1, trades'[k].level, b)
    BY <2>2, <2>3, <2>4, <2>5 DEF IsLast
  <2>7. PairOf(trades', k) = b /\ b # 0
    BY <2>2, <2>3, <2>5, <2>6, PairIsTheLast
  <2>8. k \in Pairs(trades')
    <3>1. DOMAIN trades' = 1 .. L + n
      BY <1>5, LenProperties
    <3> QED  BY <2>3, <2>7, <3>1 DEF Pairs, Side
  <2>9. Profit(trades', k) = SaleOf(i).quote - lots[i].cost
    <3>1. Profit(trades', k) = trades'[k].quote - trades'[b].quote
      BY <2>7, Zenon DEF Profit
    <3>2. trades'[k] = SaleOf(i)
      BY <1>5 DEF k, i
    <3> QED  BY <2>2, <2>5, <3>1, <3>2, Zenon
  <2>10. closed'[k].profit = SaleOf(i).quote - lots[i].cost
    BY <1>7, Zenon DEF k, i
  <2> QED  BY <2>8, <2>9, <2>10 DEF k
<1>13. /\ Pairs(trades) \subseteq 1 .. L /\ Pairs(trades') \subseteq 1 .. L + n
       /\ \A k \in 1 .. L : k \in Pairs(trades') <=> k \in Pairs(trades)
       /\ \A k \in Pairs(trades) : Profit(trades', k) = Profit(trades, k)
  <2>1. Len(trades) <= Len(trades') /\ \A k \in 1 .. Len(trades) : trades'[k] = trades[k]
    BY <1>2, <1>4, <1>5
  <2> QED  BY <1>4, <1>5, <2>1, PairsOfLongerLog
<1>14. /\ Pairs(trades) = DOMAIN closed
       /\ \A k \in DOMAIN closed : Profit(trades, k) = closed[k].profit
  <2>1. RoundTrips(trades) = Profits
    BY DEF Told
  <2>2. /\ Pairs(trades) = DOMAIN RoundTrips(trades)
        /\ \A k \in Pairs(trades) : RoundTrips(trades)[k] = Profit(trades, k)
    BY DEF RoundTrips
  <2>3. DOMAIN Profits = DOMAIN closed /\ \A k \in DOMAIN closed : Profits[k] = closed[k].profit
    BY DEF Profits
  <2> QED  BY <2>1, <2>2, <2>3
<1>15. Pairs(trades') = DOMAIN closed'
  <2>1. ASSUME NEW k \in Pairs(trades')  PROVE k \in DOMAIN closed'
    <3>1. k \in 1 .. L + n
      BY <1>13
    <3> QED  BY <1>7, <1>9, <1>13, <1>14, <3>1
  <2>2. ASSUME NEW k \in DOMAIN closed'  PROVE k \in Pairs(trades')
    <3>1. CASE k \in DOMAIN closed
      BY <1>13, <1>14, <3>1
    <3>2. CASE \E a \in 1 .. n : k = L + a
      BY <1>12, <3>2
    <3> QED  BY <1>7, <3>1, <3>2
  <2> QED  BY <2>1, <2>2
<1>16. ASSUME NEW k \in DOMAIN closed'  PROVE Profit(trades', k) = closed'[k].profit
  <2>1. CASE k \in DOMAIN closed
    BY <1>7, <1>13, <1>14, <2>1
  <2>2. CASE \E a \in 1 .. n : k = L + a
    BY <1>12, <2>2
  <2> QED  BY <1>7, <2>1, <2>2
<1>17. RoundTrips(trades') = Profits'
  <2>1. RoundTrips(trades') = [k \in DOMAIN closed' |-> closed'[k].profit]
    BY <1>15, <1>16 DEF RoundTrips
  <2> QED  BY <2>1, Zenon DEF Profits
<1>18. Told' <=> (\A i \in filled' : \E b : IsBuyOf(i, b)') /\ RoundTrips(trades') = Profits'
  BY Zenon DEF Told
<1> QED  BY <1>11, <1>17, <1>18

(* While the labels can follow the lots, relabelling gives the buy of each *)
(* open lot the lot's new rung, and changes nothing else.                  *)
BuyOf(i) == LastBuyAt(trades, i)

RelabelsBuysOf(log, m, S) ==
    /\ SameTrades(trades, log)
    /\ \A k \in 1 .. Len(trades) :
         log[k].level = IF \E i \in S : k = BuyOf(i) THEN m[trades[k].level] ELSE trades[k].level

LEMMA BuysAreFound ==
    ASSUME TypeOK, NEW i \in filled, \E b : IsBuyOf(i, b)
    PROVE  /\ BuyOf(i) \in 1 .. Len(trades)
           /\ trades[BuyOf(i)].level = i /\ trades[BuyOf(i)].side = "buy"
           /\ trades[BuyOf(i)].quote = lots[i].cost
           /\ \A k \in BuyOf(i) + 1 .. Len(trades) : trades[k].level # i
<1>1. PICK b : IsBuyOf(i, b)
  OBVIOUS
<1>2. /\ b \in 1 .. Len(trades) /\ trades[b].level = i /\ trades[b].side = "buy"
      /\ trades[b].quote = lots[i].cost
      /\ \A k \in b+1 .. Len(trades) : trades[k].level # i
  BY <1>1 DEF IsBuyOf, IsLast
<1>3. BuyOf(i) = b
  <2>1. trades \in Seq(Trade)
    BY DEF TypeOK
  <2> QED  BY <1>2, <2>1, LastBuyIsThere DEF BuyOf
<1> QED  BY <1>2, <1>3

LEMMA LabelsFollow ==
    ASSUME TypeOK, \A i \in filled : \E b : IsBuyOf(i, b),
           NEW m, \A i \in filled : m[i] \in Nat, Followed(m)
    PROVE  RelabelsBuysOf(Relabelled(m, filled), m, filled)
<1> DEFINE S == filled
<1>0. PICK L \in Nat : L = Len(trades)
  BY DEF TypeOK
<1>1. S \in SUBSET Nat /\ IsFiniteSet(S) /\ trades \in Seq(Trade)
  BY DEF TypeOK
<1>1a. \A i \in S : /\ BuyOf(i) \in 1 .. L
                    /\ trades[BuyOf(i)].level = i /\ trades[BuyOf(i)].side = "buy"
                    /\ \A k \in BuyOf(i) + 1 .. L : trades[k].level # i
  BY <1>0, BuysAreFound
<1>1b. \A i \in S : m[i] \in Nat /\ (m[i] # i => m[i] \notin S)
  BY DEF Followed
<1> HIDE DEF S
<1>2. PICK g : /\ g[S] = Relabelled(m, S)
               /\ g[{}] = trades
               /\ \A s \in SUBSET S : s # {} =>
                     \E x \in s : g[s] = Relabel(g[s \ {x}], x, m[x])
  BY <1>1, LotsMoveInTurn
<1> DEFINE P == {s \in SUBSET S : RelabelsBuysOf(g[s], m, s)}
<1>3. ASSUME NEW s \in SUBSET S,
             \A t \in SUBSET S : Cardinality(t) + 1 = Cardinality(s) => t \in P
      PROVE  s \in P
  <2>1. CASE s = {}
    BY <1>1, <1>2, <2>1 DEF RelabelsBuysOf, SameTrades
  <2>2. CASE s # {}
    <3>1. PICK x \in s : g[s] = Relabel(g[s \ {x}], x, m[x])
      BY <1>2, <2>2
    <3> DEFINE t == s \ {x}
    <3>2. Cardinality(t) + 1 = Cardinality(s)
      BY <1>1, FS_Subset, OneLess
    <3>3. RelabelsBuysOf(g[t], m, t)
      BY <1>3, <3>2
    <3>4. /\ g[t] \in Seq(Trade) /\ Len(g[t]) = L /\ SameTrades(trades, g[t])
          /\ \A k \in 1 .. L : g[t][k].side = trades[k].side
      BY <1>0, <3>3 DEF RelabelsBuysOf, SameTrades
    <3>5. \A k \in 1 .. L :
            g[t][k].level = IF \E i \in t : k = BuyOf(i) THEN m[trades[k].level] ELSE trades[k].level
      BY <1>0, <3>3 DEF RelabelsBuysOf
    <3>6. x \in S /\ x \notin t /\ t \subseteq S /\ s = t \cup {x}
      BY <3>1
    <3> HIDE DEF t
    <3>7. \A i \in t : BuyOf(i) # BuyOf(x)
      BY <1>1a, <3>6
    <3>8. g[t][BuyOf(x)].side = "buy" /\ g[t][BuyOf(x)].level = x
      BY <1>1a, <3>4, <3>5, <3>6, <3>7
    <3>9. ASSUME NEW k \in BuyOf(x) + 1 .. L  PROVE g[t][k].level # x
      <4>1. k \in 1 .. L /\ trades[k].level # x
        BY <1>1a, <3>6
      <4>2. CASE \E i \in t : k = BuyOf(i)
        <5>1. PICK i \in t : k = BuyOf(i)
          BY <4>2
        <5>2. g[t][k].level = m[i]
          BY <1>1a, <3>5, <3>6, <4>1, <5>1
        <5>3. m[i] # x
          BY <1>1b, <3>6
        <5> QED  BY <5>2, <5>3
      <4>3. CASE ~ \E i \in t : k = BuyOf(i)
        BY <3>5, <4>1, <4>3
      <4> QED  BY <4>2, <4>3
    <3>10. LastBuyAt(g[t], x) = BuyOf(x)
      <4>1. BuyOf(x) \in 1 .. Len(g[t])
        BY <1>1a, <3>4, <3>6
      <4>2. \A k \in BuyOf(x) + 1 .. Len(g[t]) : ~(g[t][k].side = "buy" /\ g[t][k].level = x)
        BY <3>4, <3>9
      <4>3. g[t] \in Seq(Trade)
        BY <3>4
      <4> HIDE DEF BuyOf
      <4> QED  BY <3>8, <4>1, <4>2, <4>3, LastBuyIsThere
    <3>11. m[x] \in Nat
      BY <1>1b, <3>6
    <3>12. /\ SameTrades(g[t], g[s])
           /\ \A k \in 1 .. L : g[s][k].level = IF k = BuyOf(x) THEN m[x] ELSE g[t][k].level
      <4>1. g[s] = Relabel(g[t], x, m[x])
        BY <3>1 DEF t
      <4>2. g[t] \in Seq(Trade) /\ Len(g[t]) = L
        BY <3>4
      <4>3. /\ SameTrades(g[t], g[s])
            /\ \A k \in 1 .. L : g[s][k].level = IF k = LastBuyAt(g[t], x) THEN m[x] ELSE g[t][k].level
        BY <3>11, <4>1, <4>2, RelabelKeepsTheRest
      <4> QED  BY <3>10, <4>3
    <3>13. SameTrades(trades, g[s])
      BY <3>4, <3>12 DEF SameTrades
    <3>14. ASSUME NEW k \in 1 .. L
           PROVE  g[s][k].level = IF \E i \in s : k = BuyOf(i) THEN m[trades[k].level]
                                  ELSE trades[k].level
      <4>1. CASE k = BuyOf(x)
        <5>1. trades[k].level = x
          BY <1>1a, <3>6, <4>1
        <5> QED  BY <3>6, <3>12, <4>1, <5>1
      <4>2. CASE k # BuyOf(x)
        <5>1. (\E i \in s : k = BuyOf(i)) <=> (\E i \in t : k = BuyOf(i))
          BY <3>6, <4>2
        <5>2. g[s][k].level = g[t][k].level
          BY <3>12, <4>2
        <5> QED  BY <3>5, <5>1, <5>2
      <4> QED  BY <4>1, <4>2
    <3>15. RelabelsBuysOf(g[s], m, s)
      BY <1>0, <3>13, <3>14 DEF RelabelsBuysOf
    <3> QED  BY <3>15
  <2> QED  BY <2>1, <2>2
<1>4. SUBSET S \subseteq P
  <2> HIDE DEF P
  <2> QED  BY <1>1, <1>3, CardinalityInduction
<1>5. S \in P
  <2> HIDE DEF P
  <2> QED  BY <1>4
<1> QED  BY <1>2, <1>5 DEF S

LEMMA FollowedUpdateKeepsItTold ==
    ASSUME TypeOK, Told, NEW m, NEW h, Moving(m, h), Followed(m), closed' = closed
    PROVE  Told'
<1>0. PICK L \in Nat : L = Len(trades)
  BY DEF TypeOK
<1>1. trades \in Seq(Trade) /\ Len(trades) = L
  BY <1>0 DEF TypeOK
<1>2. \A i \in filled : /\ BuyOf(i) \in 1 .. L
                        /\ trades[BuyOf(i)].level = i /\ trades[BuyOf(i)].side = "buy"
                        /\ trades[BuyOf(i)].quote = lots[i].cost
                        /\ \A k \in BuyOf(i) + 1 .. L : trades[k].level # i
  BY <1>1, BuysAreFound DEF Told
<1>3. /\ trades' \in Seq(Trade) /\ Len(trades') = L
      /\ \A k \in 1 .. L : trades'[k].side = trades[k].side /\ trades'[k].quote = trades[k].quote
      /\ \A k \in 1 .. L : trades'[k].level =
            IF \E i \in filled : k = BuyOf(i) THEN m[trades[k].level] ELSE trades[k].level
  <2>1. RelabelsBuysOf(trades', m, filled)
    BY LabelsFollow DEF Moving, Told
  <2> QED  BY <1>1, <2>1 DEF RelabelsBuysOf, SameTrades
<1>4. /\ \A i, j \in filled : m[i] = m[j] => i = j
      /\ \A i \in filled : m[i] # i => \A k \in BuyOf(i) .. L : trades[k].level # m[i]
  BY <1>1 DEF Followed, BuyOf
<1>5. ASSUME NEW i \in filled
      PROVE  /\ trades'[BuyOf(i)].level = m[i]
             /\ \A k \in BuyOf(i) + 1 .. L : trades'[k].level # m[i]
  <2>1. trades'[BuyOf(i)].level = m[i]
    BY <1>2, <1>3
  <2>2. ASSUME NEW k \in BuyOf(i) + 1 .. L  PROVE trades'[k].level # m[i]
    <3>1. k \in 1 .. L /\ k \in BuyOf(i) .. L /\ k # BuyOf(i)
      BY <1>2
    <3>2. CASE \E j \in filled : k = BuyOf(j)
      <4>1. PICK j \in filled : k = BuyOf(j)
        BY <3>2
      <4>2. trades'[k].level = m[j] /\ j # i
        BY <1>2, <1>3, <3>1, <4>1
      <4> QED  BY <1>4, <4>2
    <3>3. CASE ~ \E j \in filled : k = BuyOf(j)
      <4>1. trades'[k].level = trades[k].level
        BY <1>3, <3>1, <3>3
      <4>2. trades[k].level # i /\ (m[i] # i => trades[k].level # m[i])
        BY <1>2, <1>4, <3>1
      <4> QED  BY <4>1, <4>2
    <3> QED  BY <3>2, <3>3
  <2> QED  BY <2>1, <2>2
<1>6. ASSUME NEW r \in filled'  PROVE \E b : IsBuyOf(r, b)'
  <2>1. PICK i \in filled : m[i] = r /\ lots'[r] = lots[i]
    BY DEF Moving
  <2>2. PICK b \in 1 .. L : b = BuyOf(i)
    BY <1>2
  <2>3. IsLast(trades', L, r, b)
    BY <1>5, <2>1, <2>2 DEF IsLast
  <2>4. trades'[b].side = "buy" /\ trades'[b].quote = lots[i].cost
    BY <1>2, <1>3, <2>2
  <2>5. IsBuyOf(r, b)'
    BY <1>3, <2>1, <2>3, <2>4 DEF IsBuyOf
  <2> QED  BY <2>5
<1>7. ASSUME NEW k \in 1 .. L, trades[k].side = "sell"
      PROVE  PairOf(trades', k) = PairOf(trades, k)
  <2>1. trades'[k].level = trades[k].level
    BY <1>2, <1>3, <1>7
  <2>2. ASSUME NEW j \in 1 .. k-1
        PROVE  trades'[j].level = trades'[k].level <=> trades[j].level = trades[k].level
    <3>1. j \in 1 .. L
      OBVIOUS
    <3>2. CASE \E i \in filled : j = BuyOf(i)
      <4>1. PICK i \in filled : j = BuyOf(i)
        BY <3>2
      <4>2. trades'[j].level = m[i] /\ trades[j].level = i
        BY <1>2, <1>5, <4>1
      <4>3. k \in BuyOf(i) + 1 .. L /\ k \in BuyOf(i) .. L
        BY <4>1
      <4>4. trades[k].level # i /\ (m[i] # i => trades[k].level # m[i])
        BY <1>2, <1>4, <4>3
      <4> QED  BY <2>1, <4>2, <4>4
    <3>3. CASE ~ \E i \in filled : j = BuyOf(i)
      BY <1>3, <2>1, <3>1, <3>3
    <3> QED  BY <3>2, <3>3
  <2>3. \A j \in 1 .. k-1 : trades'[j].side = trades[j].side
    <3>1. \A j \in 1 .. k-1 : j \in 1 .. L
      OBVIOUS
    <3> QED  BY <1>3, <3>1
  <2>4. k \in Nat /\ k > 0
    OBVIOUS
  <2> QED  BY <2>2, <2>3, <2>4, SamePair
<1>8. Side(trades', "sell") = Side(trades, "sell") /\ Side(trades, "sell") \subseteq 1 .. L
  <2>1. DOMAIN trades' = 1 .. L /\ DOMAIN trades = 1 .. L
    BY <1>1, <1>3, LenProperties
  <2> QED  BY <1>3, <2>1 DEF Side
<1>9. Pairs(trades') = Pairs(trades)
  <2>1. \A k \in Side(trades, "sell") : PairOf(trades', k) = PairOf(trades, k)
    BY <1>7, <1>8 DEF Side
  <2> QED  BY <1>8, <2>1 DEF Pairs
<1>10. ASSUME NEW k \in Pairs(trades)  PROVE Profit(trades', k) = Profit(trades, k)
  <2>1. k \in 1 .. L /\ trades[k].side = "sell" /\ PairOf(trades, k) # 0
    BY <1>8 DEF Pairs, Side
  <2>2. PairOf(trades, k) \in 1 .. k-1
    BY <2>1, PairIsBefore
  <2>3. PairOf(trades, k) \in 1 .. L /\ PairOf(trades', k) = PairOf(trades, k)
    BY <1>7, <2>1, <2>2
  <2> QED  BY <1>3, <2>1, <2>3 DEF Profit
<1>11. RoundTrips(trades') = RoundTrips(trades)
  BY <1>9, <1>10 DEF RoundTrips
<1>12. Profits' = Profits
  BY Zenon DEF Profits
<1>13. Told' <=> (\A r \in filled' : \E b : IsBuyOf(r, b)') /\ RoundTrips(trades') = Profits'
  BY Zenon DEF Told
<1> QED  BY <1>6, <1>11, <1>12, <1>13 DEF Told

LEMMA NothingIsTold == NothingYet => Told
<1> SUFFICES ASSUME lots = <<>>, trades = <<>>, closed = <<>>
             PROVE  Told
  BY DEF NothingYet
<1>1. DOMAIN lots = {} /\ DOMAIN trades = {} /\ DOMAIN closed = {}
  OBVIOUS
<1>2. Pairs(trades) = {}
  BY <1>1 DEF Pairs, Side
<1>3. RoundTrips(trades) = Profits
  BY <1>1, <1>2 DEF RoundTrips, Profits
<1>4. filled = {}
  BY <1>1 DEF filled
<1> QED  BY <1>3, <1>4 DEF Told

(* The invariant: as long as the labels could follow the lots. *)
Faithful == ~tangled => Told

LEMMA LogStaysFaithful == Spec => []Faithful
<1>1. Init => Faithful
  BY NothingIsTold DEF Init, NothingYet, Faithful
<1>2. TypeOK /\ Faithful /\ [Next]_vars => Faithful'
  <2> SUFFICES ASSUME TypeOK, Faithful, [Next]_vars, ~tangled'  PROVE Told'
    BY Zenon DEF Faithful
  <2>1. CASE UNCHANGED <<lots, trades, closed, tangled>>
    <3>1. Told
      BY <2>1 DEF Faithful
    <3>2. filled' = filled /\ RoundTrips(trades)' = RoundTrips(trades) /\ Profits' = Profits
      BY <2>1 DEF filled, RoundTrips, Profits
    <3>3. ASSUME NEW i, NEW b, IsBuyOf(i, b)  PROVE IsBuyOf(i, b)'
      BY <2>1, <3>3 DEF IsBuyOf, IsLast
    <3> QED  BY <3>1, <3>2, <3>3, Zenon DEF Told
  <2>2. CASE StepBuys
    <3>1. tangled' = tangled
      BY <2>2 DEF StepBuys, history
    <3> QED  BY <2>2, <3>1, BuyKeepsItTold DEF Faithful
  <2>3. CASE StepSells \/ Cancel
    <3>1. tangled' = tangled
      BY <2>3, SellingSteps
    <3> QED  BY <2>3, <3>1, SalesKeepItTold DEF Faithful
  <2>4. CASE UpdateGrid
    <3>1. PICK m, h : Moving(m, h)
      BY <2>4, UpdateMovesLots
    <3>2. ~tangled /\ Followed(m)
      BY <3>1 DEF Moving
    <3>3. closed' = closed
      BY <2>4, UpdateMovesLots
    <3> QED  BY <3>1, <3>2, <3>3, FollowedUpdateKeepsItTold DEF Faithful
  <2>5. CASE Reset
    <3>1. NothingYet'
      BY <2>5 DEF Reset, NothingYet
    <3> QED  BY <3>1, NothingIsTold, PTL
  <2>6. MovePrice \/ Midnight \/ StepStarts \/ StepWithdraws \/ Activate \/ UNCHANGED vars
        => UNCHANGED <<lots, trades, closed, tangled>>
    BY DEF MovePrice, Midnight, StepStarts, StepWithdraws, Activate, vars, history
  <2> QED  BY <2>1, <2>2, <2>3, <2>4, <2>5, <2>6 DEF Next
<1> QED  BY <1>1, <1>2, MoneyIsTyped, PTL DEF Spec

(* round_trips tells the true profit of every lot at its sale, through     *)
(* re-activations, partial cancels and every update_grid that the labels   *)
(* can follow: the buy it pairs a sell with is the one that opened the lot *)
(* the sell closed, whatever was traded at that rung before.               *)
THEOREM RoundTripsStayTrue == Spec => []RoundTripsAreTrue
<1>1. Faithful => RoundTripsAreTrue
  BY DEF Faithful, Told, RoundTripsAreTrue
<1> QED  BY <1>1, LogStaysFaithful, PTL

-----------------------------------------------------------------------------
(* The daily loss, and the breaker that reads it *)

(* A sale was booked on the day its log entry bears. *)
DatesMatch == \A k \in DOMAIN closed : closed[k].day = trades[k].day

LEMMA SalesKeepTheDates ==
    ASSUME TypeOK, DatesMatch, StepSells \/ Cancel
    PROVE  DatesMatch'
<1>1. PICK n, rungs : AreSales(n, rungs)
  BY SellingSteps
<1>2. PICK L \in Nat : L = Len(trades)
  BY DEF TypeOK
<1>3. /\ \A k \in 1 .. L : trades'[k] = trades[k]
      /\ \A a \in 1 .. n : trades'[L + a] = SaleOf(rungs[a])
  BY <1>1, <1>2, SalesAreLogged
<1>4. /\ DOMAIN closed' = DOMAIN closed \cup {L + a : a \in 1 .. n}
      /\ \A k \in DOMAIN closed : closed'[k] = closed[k]
      /\ \A a \in 1 .. n : closed'[L + a].day = day
  <2>1. /\ DOMAIN closed' = DOMAIN closed \cup {Len(trades) + a : a \in 1 .. n}
        /\ \A k \in DOMAIN closed : closed'[k] = closed[k]
    BY <1>1, SalesAreBooked, Zenon DEF SalesEnter
  <2>2. \A a \in 1 .. n :
          closed'[Len(trades) + a] = [profit |-> SaleOf(rungs[a]).quote - lots[rungs[a]].cost, day |-> day]
    BY <1>1, SalesAreBooked, Zenon DEF SalesTell
  <2>3. ASSUME NEW a \in 1 .. n  PROVE closed'[Len(trades) + a].day = day
    <3>1. closed'[Len(trades) + a] = [profit |-> SaleOf(rungs[a]).quote - lots[rungs[a]].cost, day |-> day]
      BY <2>2, Zenon
    <3> QED  BY <3>1
  <2>4. \A a \in 1 .. n : closed'[Len(trades) + a].day = day
    BY <2>3, Zenon
  <2> QED  BY <1>2, <2>1, <2>4, Zenon
<1>5. DOMAIN closed \subseteq 1 .. L
  BY <1>2, LedgerIsTyped
<1>6. ASSUME NEW k \in DOMAIN closed'  PROVE closed'[k].day = trades'[k].day
  <2>1. CASE k \in DOMAIN closed
    BY <1>3, <1>4, <1>5, <2>1 DEF DatesMatch
  <2>2. CASE \E a \in 1 .. n : k = L + a
    <3>1. PICK a \in 1 .. n : k = L + a
      BY <2>2
    <3>3. closed'[k].day = day
      BY <1>4, <3>1
    <3>4. \A i : SaleOf(i).day = day
      BY DEF SaleOf
    <3>5. trades'[k].day = day
      BY <1>3, <3>1, <3>4, Zenon
    <3> QED  BY <3>3, <3>5
  <2> QED  BY <1>4, <2>1, <2>2
<1> QED  BY <1>6 DEF DatesMatch

LEMMA DatesStayMatched == Spec => []DatesMatch
<1>1. Init => DatesMatch
  BY DEF Init, DatesMatch
<1>2. TypeOK /\ DatesMatch /\ [Next]_vars => DatesMatch'
  <2> SUFFICES ASSUME TypeOK, DatesMatch, [Next]_vars  PROVE DatesMatch'
    OBVIOUS
  <2>1. CASE UNCHANGED <<trades, closed>>
    BY <2>1 DEF DatesMatch
  <2>2. CASE StepBuys
    <3>1. PICK i, order : Bought(i, order) \in Trade /\ trades' = Append(trades, Bought(i, order))
      BY <2>2, BuyOpensALot
    <3>2. closed' = closed
      BY <2>2 DEF StepBuys, history
    <3>3. trades \in Seq(Trade) /\ DOMAIN trades = 1 .. Len(trades)
      BY LenProperties DEF TypeOK
    <3>4. \A k \in DOMAIN trades : trades'[k] = trades[k]
      BY <3>1, <3>3, AppendProperties
    <3> QED  BY <3>2, <3>4 DEF DatesMatch, TypeOK
  <2>3. CASE StepSells \/ Cancel
    BY <2>3, SalesKeepTheDates
  <2>4. CASE UpdateGrid
    <3>1. PICK m, h : Moving(m, h)
      BY <2>4, UpdateMovesLots
    <3>2. closed' = closed
      BY <2>4, UpdateMovesLots
    <3>3. SameTrades(trades, trades') /\ DOMAIN trades = 1 .. Len(trades)
      BY <3>1, RelabelledKeepsTheRest, LenProperties DEF Moving, TypeOK
    <3>4. \A k \in DOMAIN trades : trades'[k].day = trades[k].day
      BY <3>3 DEF SameTrades
    <3> QED  BY <3>2, <3>4 DEF DatesMatch, TypeOK
  <2>5. CASE Reset
    BY <2>5 DEF Reset, DatesMatch
  <2>6. MovePrice \/ Midnight \/ StepStarts \/ StepWithdraws \/ Activate \/ UNCHANGED vars
        => UNCHANGED <<trades, closed>>
    BY DEF MovePrice, Midnight, StepStarts, StepWithdraws, Activate, vars, history
  <2> QED  BY <2>1, <2>2, <2>3, <2>4, <2>5, <2>6 DEF Next
<1> QED  BY <1>1, <1>2, MoneyIsTyped, PTL DEF Spec

(* daily_loss tells the true loss of today's sales since the last reset,   *)
(* also of lots bought on an earlier day or an earlier grid, because it    *)
(* pairs today's sells against the whole history.                          *)
THEOREM DailyLossStaysTrue == Spec => []DailyLossIsTrue
<1>1. Faithful /\ DatesMatch => DailyLossIsTrue
  <2> SUFFICES ASSUME Told, DatesMatch  PROVE DailyLoss(trades, day) = TrueLossToday
    BY DEF Faithful, DailyLossIsTrue
  <2> DEFINE sold == {k \in Pairs(trades) : trades[k].day = day}
             booked == {k \in DOMAIN closed : closed[k].day = day}
  <2>1. RoundTrips(trades) = Profits
    BY DEF Told
  <2>2. Pairs(trades) = DOMAIN closed
    <3>1. DOMAIN RoundTrips(trades) = Pairs(trades) /\ DOMAIN Profits = DOMAIN closed
      BY DEF RoundTrips, Profits
    <3> QED  BY <2>1, <3>1
  <2>3. \A k \in DOMAIN closed : Profit(trades, k) = closed[k].profit
    <3>1. \A k \in Pairs(trades) : RoundTrips(trades)[k] = Profit(trades, k)
      BY DEF RoundTrips
    <3>2. \A k \in DOMAIN closed : Profits[k] = closed[k].profit
      BY DEF Profits
    <3> QED  BY <2>1, <2>2, <3>1, <3>2
  <2>4. sold = booked
    BY <2>2 DEF DatesMatch
  <2>5. [k \in sold |-> Profit(trades, k)] = [k \in booked |-> closed[k].profit]
    BY <2>3, <2>4
  <2> QED  BY <2>5, Zenon DEF DailyLoss, TrueLossToday, NetToday
<1> QED  BY <1>1, LogStaysFaithful, DatesStayMatched, PTL

(* The buys a step of the system adds to the log. *)
LEMMA NoNewBuys ==
    ASSUME TypeOK, \A k \in Len(trades) + 1 .. Len(trades') : trades'[k].side # "buy"
    PROVE  NewBuys = 0
<1>1. {k \in Len(trades) + 1 .. Len(trades') : trades'[k].side = "buy"} = {}
  OBVIOUS
<1> QED  BY <1>1, FS_EmptySet DEF NewBuys

LEMMA ABuyIsOne ==
    ASSUME TypeOK, StepBuys
    PROVE  NewBuys = 1
<1>1. PICK i, order : Bought(i, order) \in Trade /\ trades' = Append(trades, Bought(i, order))
  BY BuyOpensALot
<1>2. PICK L \in Nat : L = Len(trades)
  BY DEF TypeOK
<1>3. Len(trades') = L + 1 /\ trades'[L + 1] = Bought(i, order)
  BY <1>1, <1>2, AppendProperties DEF TypeOK
<1>4. trades'[L + 1].side = "buy"
  BY <1>3 DEF Bought
<1>5. L + 1 .. L + 1 = {L + 1}
  OBVIOUS
<1>6. {k \in Len(trades) + 1 .. Len(trades') : trades'[k].side = "buy"} = {L + 1}
  BY <1>2, <1>3, <1>4, <1>5
<1> QED  BY <1>6, FS_Singleton DEF NewBuys

LEMMA SalesAreNoBuys ==
    ASSUME TypeOK, StepSells \/ Cancel
    PROVE  NewBuys = 0
<1>1. PICK n, rungs : AreSales(n, rungs)
  BY SellingSteps
<1>2. PICK L \in Nat : L = Len(trades)
  BY DEF TypeOK
<1>3. Len(trades') = L + n /\ \A a \in 1 .. n : trades'[L + a] = SaleOf(rungs[a])
  BY <1>1, <1>2, SalesAreLogged
<1>4. n \in Nat /\ \A i : SaleOf(i).side = "sell"
  BY <1>1 DEF AreSales, SaleOf
<1>5. ASSUME NEW k \in L + 1 .. L + n  PROVE trades'[k].side # "buy"
  <2>1. k - L \in 1 .. n /\ k = L + (k - L)
    BY <1>4
  <2>2. trades'[k] = SaleOf(rungs[k - L])
    BY <1>3, <2>1
  <2> QED  BY <1>4, <2>2
<1> QED  BY <1>2, <1>3, <1>5, NoNewBuys

(* A losing day stops trading, as far as the log still tells of the loss.  *)
(* Without a reset that day no step gets past the breaker once the day's   *)
(* sales have truly lost max_daily_loss, and every buy until midnight uses *)
(* up one of the steps that were past it by then.  A reset opens the       *)
(* breaker again, until the day has lost max_daily_loss once more on top   *)
(* of what the reset took off the log.                                     *)
THEOREM LosingDayStaysOver == Spec => LosingDayIsOver
<1> DEFINE Kept == ready' + NewBuys > ready =>
                      \/ tangled \/ MaxDailyLoss = 0
                      \/ LossOfTheDay < MaxDailyLoss + LossOf(forgotten)
<1>1. TypeOK /\ DailyLossIsTrue /\ [Next]_vars => [Kept]_vars
  <2> SUFFICES ASSUME TypeOK, DailyLossIsTrue, Next  PROVE Kept
    OBVIOUS
  <2>0. ready \in Nat
    BY Assumed DEF TypeOK
  <2>1. CASE StepStarts
    <3>1. ~Tripped(trades, day)
      BY <2>1 DEF StepStarts
    <3>2. ~tangled => DailyLoss(trades, day) = LossOf(NetToday)
      BY DEF DailyLossIsTrue, TrueLossToday
    <3>3. ~tangled => ~(MaxDailyLoss > 0 /\ LossOf(NetToday) >= MaxDailyLoss)
      BY <3>1, <3>2, Zenon DEF Tripped
    <3> DEFINE onLog == NetToday
    <3>4. onLog \in Int /\ forgotten \in Int /\ MaxDailyLoss \in Nat
      BY NetIsTyped, Assumed DEF TypeOK
    <3>5. ~tangled => ~(MaxDailyLoss > 0 /\ LossOf(onLog) >= MaxDailyLoss)
      BY <3>3
    <3>6. LossOfTheDay = LossOf(onLog + forgotten)
      BY DEF LossOfTheDay
    <3> HIDE DEF onLog
    <3>7. LossOf(onLog) \in Nat /\ LossOf(onLog + forgotten) <= LossOf(onLog) + LossOf(forgotten)
      BY <3>4 DEF LossOf
    <3>8. LossOf(onLog + forgotten) \in Nat /\ LossOf(forgotten) \in Nat
      BY <3>4 DEF LossOf
    <3>9. CASE tangled
      BY <3>9
    <3>10. CASE ~tangled
      <4>1. MaxDailyLoss = 0 \/ LossOf(onLog) < MaxDailyLoss
        BY <3>4, <3>5, <3>7, <3>10
      <4>2. MaxDailyLoss = 0 \/ LossOf(onLog + forgotten) < MaxDailyLoss + LossOf(forgotten)
        BY <3>4, <3>7, <3>8, <4>1
      <4> QED  BY <3>6, <4>2, Zenon
    <3> QED  BY <3>9, <3>10
  <2>2. CASE StepBuys
    <3>1. NewBuys = 1 /\ ready' = ready - 1
      BY <2>2, ABuyIsOne DEF StepBuys
    <3> QED  BY <2>0, <3>1
  <2>3. CASE StepSells \/ Cancel
    <3>1. NewBuys = 0
      BY <2>3, SalesAreNoBuys
    <3>2. ready' = ready \/ ready' = ready - 1
      BY <2>3, SellingSteps
    <3>3. CASE ready' = ready
      BY <2>0, <3>1, <3>3
    <3>4. CASE ready' = ready - 1
      BY <2>0, <3>1, <3>4
    <3> QED  BY <3>2, <3>3, <3>4
  <2>4. CASE UpdateGrid
    <3>1. PICK m, h : Moving(m, h)
      BY <2>4, UpdateMovesLots
    <3>2. Len(trades') = Len(trades)
      BY <3>1, RelabelledKeepsTheRest DEF Moving, SameTrades
    <3>3. NewBuys = 0
      BY <3>2, NoNewBuys DEF TypeOK
    <3>4. ready' = ready
      BY <2>4 DEF UpdateGrid
    <3> QED  BY <2>0, <3>3, <3>4
  <2>5. CASE Reset
    <3>1. trades' = <<>> /\ ready' = ready
      BY <2>5 DEF Reset
    <3>2. NewBuys = 0
      BY <3>1, NoNewBuys DEF TypeOK
    <3> QED  BY <2>0, <3>1, <3>2
  <2>6. CASE MovePrice \/ Midnight \/ StepWithdraws \/ Activate
    <3>1. trades' = trades /\ (ready' = ready \/ ready' = ready - 1)
      BY <2>6 DEF MovePrice, Midnight, StepWithdraws, Activate
    <3>2. NewBuys = 0
      BY <3>1, NoNewBuys DEF TypeOK
    <3>3. CASE ready' = ready
      BY <2>0, <3>2, <3>3
    <3>4. CASE ready' = ready - 1
      BY <2>0, <3>2, <3>4
    <3> QED  BY <3>1, <3>3, <3>4
  <2> QED  BY <2>1, <2>2, <2>3, <2>4, <2>5, <2>6 DEF Next
<1> QED  BY <1>1, MoneyIsTyped, DailyLossStaysTrue, PTL DEF Spec, LosingDayIsOver
=============================================================================
