------------------------------- MODULE Money -------------------------------
(***************************************************************************)
(* What the trade log of strategy.py is worth: the figures the agent       *)
(* publishes and the two guards that read them (capital ceiling, daily     *)
(* loss), against what every lot really cost and brought.                  *)
(*                                                                         *)
(* Every operation is one step, and one that fails leaves the log as it    *)
(* was (Strategy.tla has the races); but a step looks at the breaker       *)
(* before it takes the lock, and others may trade in between.  Amounts     *)
(* are integers; a sale loses the pool's fee.  The status is left out,     *)
(* since a forced step trades on a paused grid.                            *)
(***************************************************************************)
EXTENDS Grid, SequencesExt

CONSTANTS
    Prices,         \* what chain.get_price may read
    GridFor,        \* the ladder activate builds at each price
    Reshapes,       \* the ladders an operator may ask update_grid for
    OrderSizes,     \* the values order_size_usdt may be edited to
    Fee,            \* quote currency the pool keeps of a sale
    MaxCapital,     \* max_capital_usdt
    MaxDailyLoss,   \* max_daily_loss
    ProbeRungs,     \* buy rungs of the probe grid of check_config_consistency
    Traders,        \* how many steps may be under way at once
    MaxTrades,      \* bound: length of the log
    LastDay         \* bound: the days are 0..LastDay

ASSUME MoneyAssumption ==
    /\ \A n \in Prices \cup OrderSizes : n \in Nat /\ n > 0
    /\ DOMAIN GridFor = Prices /\ \A p \in Prices : IsLadder(GridFor[p])
    /\ \A g \in Reshapes : IsLadder(g)
    /\ {Fee, MaxCapital, MaxDailyLoss, ProbeRungs, Traders, MaxTrades, LastDay} \subseteq Nat

VARIABLES
    price, day,        \* the market and the UTC date
    ladder, center,    \* state["grid"], state["center_index"]
    lots,              \* state["filled"]: rung -> base amount, with the lot's
                       \* true cost as history
    trades,            \* state["trades"]
    ready,             \* steps that are past the breaker and not yet done
    (* history variables: read by no guard *)
    closed,            \* the true profit and the day of every sale on the
                       \* log, at its position there
    forgotten,         \* the true profit of today's sales that a reset has
                       \* taken off the log
    tangled            \* update_grid has moved lots in a way the labels of
                       \* the log cannot follow

history == <<closed, forgotten, tangled>>
vars    == <<price, day, ladder, center, lots, trades, ready, history>>

filled == DOMAIN lots

-----------------------------------------------------------------------------
(* Sums over the log, and the pairs of a buy and a sell: each sell closes  *)
(* the buy last seen at its level, which is then forgotten.                *)

Side(log, side) == {k \in DOMAIN log : log[k].side = side}
Quote(log, side) == SumFunction([k \in Side(log, side) |-> log[k].quote])
Base(log, side)  == SumFunction([k \in Side(log, side) |-> log[k].base])

(* The buy that the sell at position k of the log is paired with: 0 when   *)
(* the latest trade at its level is not a buy.                             *)
PairOf(log, k) ==
    LET before == SelectLastInSubSeq(log, 1, k-1, LAMBDA t : t.level = log[k].level)
    IN  IF before # 0 /\ log[before].side = "buy" THEN before ELSE 0

Pairs(log) == {k \in Side(log, "sell") : PairOf(log, k) # 0}

Profit(log, k) == log[k].quote - log[PairOf(log, k)].quote

(* Profit of each completed round trip, at the position of its sell.       *)
RoundTrips(log) == [k \in Pairs(log) |-> Profit(log, k)]

LossOf(net) == IF net < 0 THEN -net ELSE 0

(* Faulty variant: only today's trades are paired. *)
LossOfTodaysTrades(log, today) ==
    LossOf(SumFunction(RoundTrips(SelectSeq(log, LAMBDA t : t.day = today))))

(* Realised loss of today's sells, paired against the whole history.       *)
DailyLoss(log, today) ==
    LET closedToday == {k \in Pairs(log) : log[k].day = today}
    IN  LossOf(SumFunction([k \in closedToday |-> Profit(log, k)]))

(* realised_quote and unrealised_quote of get_performance, both times the  *)
(* base amount bought, so that the average price needs no division.        *)
(* Faulty variant: cash in minus cash out.                                 *)
RealisedAsCashFlow(log) ==
    (Quote(log, "sell") - Quote(log, "buy")) * Base(log, "buy")
Realised(log) ==
    Quote(log, "sell") * Base(log, "buy") - Quote(log, "buy") * Base(log, "sell")
Unrealised(log, p) ==
    (p * Base(log, "buy") - Quote(log, "buy")) * (Base(log, "buy") - Base(log, "sell"))

-----------------------------------------------------------------------------
(* The guards of step.                                                     *)

(* Faulty variant: cash that came back from sales is not counted. *)
EverSpent(log) == Quote(log, "buy")

(* The cash the log says is in the market.                                 *)
Deployed(log) == Quote(log, "buy") - Quote(log, "sell")

(* Faulty variant: the order itself is not counted. *)
CeilingNotReached(log, order) == Deployed(log) <= MaxCapital
WithinCeiling(log, order) == Deployed(log) + order <= MaxCapital

(* Faulty variant: the limit itself does not trip the breaker. *)
TrippedLate(log, today) ==
    MaxDailyLoss > 0 /\ DailyLoss(log, today) > MaxDailyLoss
Tripped(log, today) ==
    MaxDailyLoss > 0 /\ DailyLoss(log, today) >= MaxDailyLoss

(* check_config_consistency: a full sweep of the probe grid, which spans   *)
(* range_pct around 100 whatever bounds are configured, fits the ceiling.  *)
SweepFits(order) == order * ProbeRungs <= MaxCapital

-----------------------------------------------------------------------------
Init ==
    /\ price \in Prices
    /\ day = 0
    /\ ladder = NoGrid /\ center = 0
    /\ lots = <<>> /\ trades = <<>>
    /\ ready = 0
    /\ closed = <<>> /\ forgotten = 0 /\ tangled = FALSE

(* The market and the calendar.                                            *)
MovePrice ==
    /\ price' \in Prices \ {price}
    /\ UNCHANGED <<day, ladder, center, lots, trades, ready, history>>
Midnight ==
    /\ day < LastDay
    /\ day' = day + 1
    /\ forgotten' = 0
    /\ UNCHANGED <<price, ladder, center, lots, trades, ready, closed, tangled>>

Decision == Decide(ladder, price, filled, center)
BaseOut(order) == order \div price

Bought(i, order) == [side |-> "buy", level |-> i, quote |-> order,
                     base |-> BaseOut(order), day |-> day]
QuoteOut(base) == IF base * price > Fee THEN base * price - Fee ELSE 0
SaleOf(i) == [side |-> "sell", level |-> i, quote |-> QuoteOut(lots[i].base),
              base |-> lots[i].base, day |-> day]

(* The sales of `rungs` in the order given: log, ledger and true profit.   *)
Sell(rungs) ==
    /\ Len(trades) + Len(rungs) <= MaxTrades
    /\ trades' = trades \o [n \in DOMAIN rungs |-> SaleOf(rungs[n])]
    /\ lots' = [i \in filled \ Range(rungs) |-> lots[i]]
    /\ closed' =
        [k \in DOMAIN closed \cup (Len(trades) + 1 .. Len(trades) + Len(rungs)) |->
            IF k \in DOMAIN closed THEN closed[k]
            ELSE LET i == rungs[k - Len(trades)]
                 IN  [profit |-> SaleOf(i).quote - lots[i].cost, day |-> day]]

(* A step looks at the breaker, outside the lock.                          *)
StepStarts ==
    /\ ready < Traders
    /\ ladder # NoGrid
    /\ ~Tripped(trades, day)
    /\ ready' = ready + 1
    /\ UNCHANGED <<price, day, ladder, center, lots, trades, history>>

(* It holds, is over the ceiling, finds the lock taken, or fails.          *)
StepWithdraws ==
    /\ ready > 0
    /\ ready' = ready - 1
    /\ UNCHANGED <<price, day, ladder, center, lots, trades, history>>

(* Under the lock it decides on what it now reads.  Each step has read     *)
(* order_size_usdt for itself, so that may differ from buy to buy.         *)
StepBuys ==
    /\ ready > 0
    /\ Decision.action = "buy"
    /\ Len(trades) < MaxTrades
    /\ \E order \in OrderSizes :
        /\ WithinCeiling(trades, order)
        /\ BaseOut(order) > 0
        /\ lots' = [i \in filled \cup {Decision.level} |->
                      IF i \in filled THEN lots[i]
                      ELSE [cost |-> order, base |-> BaseOut(order)]]
        /\ trades' = Append(trades, Bought(Decision.level, order))
    /\ ready' = ready - 1
    /\ UNCHANGED <<price, day, ladder, center, history>>

StepSells ==
    /\ ready > 0
    /\ Decision.action = "sell"
    /\ Sell(<<Decision.level>>)
    /\ ready' = ready - 1
    /\ UNCHANGED <<price, day, ladder, center, forgotten, tangled>>

(* The one sequence of a set of rungs in ascending order. *)
Ascending(S) ==
    {s \in [1 .. Cardinality(S) -> S] : \A a, b \in DOMAIN s : a < b => s[a] < s[b]}

(* cancel_grid: any of the legs may fail; the grid goes when none did.     *)
Cancel ==
    \E sold \in SUBSET filled :
        /\ \E rungs \in Ascending(sold) : Sell(rungs)
        /\ ladder' = IF sold = filled THEN NoGrid ELSE ladder
        /\ center' = IF sold = filled THEN 0 ELSE center
        /\ UNCHANGED <<price, day, ready, forgotten, tangled>>

Activate ==
    /\ \E order \in OrderSizes : SweepFits(order)
    /\ ladder' = GridFor[price]
    /\ center' = LevelForPrice(GridFor[price], price)
    /\ UNCHANGED <<price, day, lots, trades, ready, history>>

(* The true profit of today's sales, as far as they are on the log. *)
NetToday == SumFunction(
    [k \in {k \in DOMAIN closed : closed[k].day = day} |-> closed[k].profit])

(* reset forgets lots and log.  The day's sales happened all the same.     *)
Reset ==
    /\ ladder' = NoGrid /\ center' = 0
    /\ lots' = <<>> /\ trades' = <<>>
    /\ closed' = <<>> /\ tangled' = FALSE
    /\ forgotten' = forgotten + NetToday
    /\ UNCHANGED <<price, day, ready>>

-----------------------------------------------------------------------------
(* update_grid: every lot moves to a rung of the new ladder, and so does   *)
(* the label of its buy in the log.                                        *)

LastBuyAt(log, level) ==
    SelectLastInSeq(log, LAMBDA t : t.side = "buy" /\ t.level = level)

(* Faulty variants: the log keeps its labels; they are one rung low. *)
LabelKept(log, from, to) == log
LabelBelow(log, from, to) ==
    IF LastBuyAt(log, from) = 0 THEN log
    ELSE [log EXCEPT ![LastBuyAt(log, from)].level = to - 1]
Relabel(log, from, to) ==
    IF LastBuyAt(log, from) = 0 THEN log
    ELSE [log EXCEPT ![LastBuyAt(log, from)].level = to]

(* The lots are visited in the order of their keys. *)
LastVisited(S) == CHOOSE i \in S : \A k \in S \ {i} : KeyBefore(k, i)

(* The log after the lots of S have moved, each as m says. *)
Relabelled(m, S) ==
    MapThenFoldSet(LAMBDA i, log : Relabel(log, i, m[i]), trades, LAMBDA i : i, LastVisited, S)

(* The labels can follow: no two lots meet, and a lot moves to a rung that *)
(* holds none and where nothing was traded since the lot was bought.       *)
Followed(m) ==
    /\ \A i, j \in filled : m[i] = m[j] => i = j
    /\ \A i \in filled : m[i] # i =>
        /\ m[i] \notin filled
        /\ \A k \in LastBuyAt(trades, i) .. Len(trades) : trades[k].level # m[i]

UpdateGrid ==
    /\ ladder # NoGrid
    /\ filled \subseteq DOMAIN ladder   \* else old[old_idx] raises
    /\ \E new \in Reshapes : \E m \in [filled -> DOMAIN new] :
        /\ IsPlacement(ladder, new, filled, m)
        /\ ladder' = new
        /\ center' = LevelForPrice(new, price)
        /\ lots' = [r \in Range(m) |-> lots[LastVisited({i \in filled : m[i] = r})]]
        /\ trades' = Relabelled(m, filled)
        /\ tangled' = (tangled \/ ~Followed(m))
    /\ UNCHANGED <<price, day, ready, closed, forgotten>>

Next ==
    \/ MovePrice \/ Midnight
    \/ StepStarts \/ StepWithdraws \/ StepBuys \/ StepSells
    \/ Cancel \/ Activate \/ Reset \/ UpdateGrid

Spec == Init /\ [][Next]_vars

-----------------------------------------------------------------------------
Profits       == [k \in DOMAIN closed |-> closed[k].profit]
TrueProfit    == SumFunction(Profits)
TrueLossToday == LossOf(NetToday)
LossOfTheDay  == LossOf(NetToday + forgotten)
OpenCost      == SumFunction([i \in filled |-> lots[i].cost])
MarkToMarket  == SumFunction([i \in filled |-> lots[i].base * price - lots[i].cost])

Trade == [side : {"buy", "sell"}, level : Nat, quote : Nat, base : Nat \ {0}, day : 0 .. LastDay]

TypeOK ==
    /\ price \in Prices /\ day \in 0 .. LastDay
    /\ ladder = NoGrid \/ IsLadder(ladder)
    /\ center \in Int
    /\ filled \subseteq Nat /\ IsFiniteSet(filled)
    /\ lots \in [filled -> [cost : OrderSizes, base : Nat \ {0}]]
    /\ trades \in Seq(Trade) /\ Len(trades) <= MaxTrades
    /\ ready \in 0 .. Traders
    /\ DOMAIN closed \subseteq DOMAIN trades
    /\ closed \in [DOMAIN closed -> [profit : Int, day : 0 .. LastDay]]
    /\ forgotten \in Int
    /\ tangled \in BOOLEAN

(* round_trips, and with it grid_profit, completed_grids and win_rate,     *)
(* tells the true profit of every lot at its sale, through re-activations, *)
(* partial cancels and every update_grid that the labels can follow.       *)
RoundTripsAreTrue ==
    ~tangled => RoundTrips(trades) = Profits

(* update_grid's comment: the relabelling keeps the pairs matchable, so    *)
(* that grid_profit and completed_grids tell what really happened.         *)
UpdatesKeepThePairs == RoundTrips(trades) = Profits

(* daily_loss tells the true loss of today's sales since the last reset,   *)
(* also of lots bought on an earlier day or an earlier grid.               *)
DailyLossIsTrue == ~tangled => DailyLoss(trades, day) = TrueLossToday

NewBuys ==
    Cardinality({k \in Len(trades) + 1 .. Len(trades') : trades'[k].side = "buy"})

(* step's breaker, against the true loss of the whole UTC day.  Only a     *)
(* reset lets a step past it on a day that has lost max_daily_loss, and    *)
(* only as far as the log no longer tells of the loss; without one, the    *)
(* buys still to come until midnight are no more than the steps that were  *)
(* past the breaker by then, since each uses up one of them.  Through      *)
(* re-activations, partial cancels and every update_grid that the labels   *)
(* can follow.                                                             *)
LosingDayIsOver ==
    [][ready' + NewBuys > ready =>
           \/ tangled \/ MaxDailyLoss = 0
           \/ LossOfTheDay < MaxDailyLoss + LossOf(forgotten)]_vars

(* The capital ceiling: what the open lots cost never exceeds              *)
(* max_capital_usdt by more than what the lots closed since the last reset *)
(* have earned.                                                            *)
ExposureIsBounded == OpenCost <= MaxCapital + TrueProfit

(* get_performance: realised and unrealised together are what the closed   *)
(* lots earned and the open ones are worth over their cost, although both  *)
(* figures are made from average prices.                                   *)
PerformanceIsEquity ==
    ~tangled => Realised(trades) + Unrealised(trades, price)
                  = (TrueProfit + MarkToMarket) * Base(trades, "buy")

(* check_config_consistency refuses a ceiling below which "the lowest      *)
(* rungs would never fill".  On a ladder with no more buy rungs than the   *)
(* probe, a book that has not lost and holds no lot above the centre can   *)
(* pay every buy it decides on, if its ceiling was accepted.               *)
SweepIsFunded ==
    \A order \in OrderSizes :
        /\ Decision.action = "buy" /\ ~tangled
        /\ SweepFits(order) /\ center + 1 <= ProbeRungs
        /\ filled \subseteq 0 .. center /\ \A i \in filled : lots[i].cost <= order
        /\ TrueProfit >= 0
        => WithinCeiling(trades, order)

-----------------------------------------------------------------------------
(* What a comment says of the breaker *)

(* step: "a losing day stops trading outright rather than after one more   *)
(* trade": no buy on the log comes after sales of its day that have truly  *)
(* lost max_daily_loss.                                                    *)
LossBefore(k) == LossOf(SumFunction(
    [n \in {n \in DOMAIN closed : n < k /\ closed[n].day = trades[k].day}
        |-> closed[n].profit]))
LosingDayStopsBuying ==
    tangled \/ MaxDailyLoss = 0
        \/ \A k \in Side(trades, "buy") : LossBefore(k) < MaxDailyLoss
=============================================================================
