--------------------------- MODULE StrategyProofs ---------------------------
(* Safety of strategy.py's concurrent operations, for any number of        *)
(* processes, any ladders and prices, and any operations and faults.       *)
EXTENDS Strategy, GridProofs

-----------------------------------------------------------------------------
(* Types *)

LEMMA LaddersAreLadders == \A g \in Ladders : IsLadder(g) /\ g # NoGrid
<1> SUFFICES ASSUME NEW g \in Ladders  PROVE IsLadder(g) /\ g # NoGrid
  OBVIOUS
<1>1. IsLadder(g)
  BY GridForIsALadder, ReshapesAreLadders DEF Ladders
<1>2. Cardinality(DOMAIN g) >= 2 /\ DOMAIN NoGrid = {} /\ Cardinality({}) = 0
  BY <1>1, FS_EmptySet DEF IsLadder, NoGrid
<1> QED  BY <1>1, <1>2

LEMMA AnchorIsInt ==
    \A g \in Ladders, price \in Prices : LevelForPrice(g, price) \in Int
<1> SUFFICES ASSUME NEW g \in Ladders, NEW price \in Prices
             PROVE  LevelForPrice(g, price) \in Int
  OBVIOUS
<1>1. IsLadder(g) /\ price \in Int
  BY LaddersAreLadders, PricesAreNat
<1> QED  BY <1>1, LevelStandsUnderPrice

(* What a step carries into its swap: a decision that fits its own copy.   *)
OrderFits(state, d) ==
    /\ d.action \in {"buy", "sell"}
    /\ d.level \in Nat
    /\ d.action = "buy" => d.level \in DOMAIN state.grid /\ d.level \notin state.filled
    /\ d.action = "sell" => d.level \in state.filled

OrdersFit == \A p \in Procs : pc[p] = "swap" => OrderFits(snap[p], order[p])

LEMMA DecisionFits ==
    ASSUME NEW state \in State, NEW price \in Prices,
           NEW d, d = Decide(state.grid, price, state.filled, state.center),
           d.action # "hold"
    PROVE  /\ OrderFits(state, d)
           /\ d \in [action : {"hold", "buy", "sell"}, level : Int]
<1>1. /\ IsLadder(state.grid) \/ state.grid = NoGrid
      /\ price \in Int /\ state.filled \subseteq Nat /\ state.center \in Int
  BY LaddersAreLadders, PricesAreNat DEF State
<1> QED  BY <1>1, DecisionIsSound DEF OrderFits

LEMMA EmptyStateIsState == EmptyState \in State
  BY DEF EmptyState, State

TypeInv == TypeOK /\ OrdersFit

LEMMA InitTypeInv == Init => TypeInv
<1> SUFFICES ASSUME Init  PROVE TypeInv
  OBVIOUS
<1>1. order \in [Procs -> [action : {"hold", "buy", "sell"}, level : Int]]
  BY DEF Init, Hold
<1>2. file \in State /\ snap \in [Procs -> State]
  BY EmptyStateIsState DEF Init
<1> QED  BY <1>1, <1>2 DEF Init, TypeInv, TypeOK, OrdersFit, PCs

LEMMA SoldIsState ==
    ASSUME NEW state \in State, NEW level, NEW quote \in Proceeds
    PROVE  Sold(state, level, quote) \in State
<1>1. state.filled \ {level} \in SUBSET Nat /\ state.deployed - quote \in Int
  BY MoneyIsInt DEF State
<1> QED  BY <1>1 DEF Sold, State

LEMMA MinedIsTyped ==
    ASSUME TypeOK, NEW kind \in Kinds, Mined(kind)
    PROVE  wbnb' \in Nat /\ spare' \in Nat
  BY DEF TypeOK, Mined, Kinds

LEMMA TimesOutIsTyped ==
    ASSUME TypeOK, NEW kind \in Kinds, TimesOut(kind) \/ UNCHANGED chain
    PROVE  wbnb' \in Nat /\ spare' \in Nat /\ late' \in [Kinds -> Nat]
  BY DEF TypeOK, TimesOut, Kinds, chain

LEMMA StepKeepsTypeInv ==
    ASSUME TypeInv, NEW p \in Procs, StepCheck(p) \/ Step(p)
    PROVE  TypeInv'
<1> USE DEF TypeInv
<1>1. CASE StepCheck(p)
  BY <1>1 DEF StepCheck, Goto, TypeOK, OrdersFit, PCs, local, chain, history
<1>2. CASE StepPreview(p)
  BY <1>2 DEF StepPreview, Goto, TypeOK, OrdersFit, PCs, local, chain, history
<1>3. CASE StepLock(p)
  <2>1. PICK price \in Prices :
           LET d == Decide(file.grid, price, file.filled, file.center)
           IN  d.action # "hold" /\ order' = [order EXCEPT ![p] = d]
    BY <1>3 DEF StepLock
  <2> DEFINE d == Decide(file.grid, price, file.filled, file.center)
  <2>2. OrderFits(file, d) /\ d \in [action : {"hold", "buy", "sell"}, level : Int]
    BY <2>1, DecisionFits DEF TypeOK
  <2> HIDE DEF d
  <2>3. order' = [order EXCEPT ![p] = d]
    BY <2>1 DEF d
  <2>4. TypeOK'
    BY <1>3, <2>2, <2>3 DEF StepLock, Acquire, Load, Goto, TypeOK, PCs, Locked, chain
  <2>5. OrdersFit'
    BY <1>3, <2>2, <2>3 DEF StepLock, Load, Goto, TypeOK, OrdersFit
  <2> QED  BY <2>4, <2>5
<1>4. CASE Withdraw(p)
  BY <1>4, EmptyStateIsState
     DEF Withdraw, Return, Goto, TypeOK, OrdersFit, PCs, Hold, chain, history
<1>5. CASE BuyMined(p)
  <2>1. wbnb' \in Nat /\ spare' \in Nat
    BY <1>5, MinedIsTyped DEF BuyMined, Kinds
  <2>2. order[p].level \in Nat
    BY <1>5 DEF BuyMined, OrdersFit, OrderFits
  <2>3. snap' \in [Procs -> State]
    <3> DEFINE bought == [snap[p] EXCEPT !.filled = @ \cup {order[p].level},
                                         !.deployed = @ + OrderSize]
    <3>1. bought \in State
      <4>1. /\ snap[p].filled \cup {order[p].level} \in SUBSET Nat
            /\ snap[p].deployed + OrderSize \in Int
        BY <2>2, MoneyIsInt DEF TypeOK, State
      <4> QED  BY <4>1 DEF TypeOK, State
    <3>2. snap' = [snap EXCEPT ![p] = bought]
      BY <1>5 DEF BuyMined
    <3> QED  BY <3>1, <3>2 DEF TypeOK
  <2>4. TypeOK'
    BY <1>5, <2>1, <2>3 DEF BuyMined, Goto, TypeOK, PCs, Locked, local, history
  <2> QED  BY <1>5, <2>4 DEF BuyMined, Goto, TypeOK, OrdersFit, local
<1>6. CASE SellMined(p)
  <2>1. wbnb' \in Nat /\ spare' \in Nat
    BY <1>6, MinedIsTyped DEF SellMined, Kinds
  <2>2. PICK quote \in Proceeds :
           snap' = [snap EXCEPT ![p] = Sold(@, order[p].level, quote)]
    BY <1>6 DEF SellMined
  <2>3. snap' \in [Procs -> State]
    BY <2>2, SoldIsState DEF TypeOK
  <2>4. TypeOK'
    BY <1>6, <2>1, <2>3 DEF SellMined, Goto, TypeOK, PCs, Locked, local, history
  <2> QED  BY <1>6, <2>2, <2>4 DEF SellMined, Goto, TypeOK, OrdersFit, local
<1>7. CASE SwapFails(p)
  <2>1. wbnb' \in Nat /\ spare' \in Nat /\ late' \in [Kinds -> Nat]
    <3>1. order[p].action \in Kinds
      BY <1>7 DEF SwapFails, OrdersFit, OrderFits, Kinds
    <3> QED  BY <1>7, <3>1, TimesOutIsTyped DEF SwapFails
  <2> QED  BY <1>7, <2>1 DEF SwapFails, Goto, TypeOK, OrdersFit, PCs, Locked, local, history
<1>8. CASE StepRecord(p)
  BY <1>8, EmptyStateIsState
     DEF StepRecord, Save, Release, Return, Goto, TypeOK, OrdersFit, PCs, Hold, chain
<1> QED  BY <1>1, <1>2, <1>3, <1>4, <1>5, <1>6, <1>7, <1>8 DEF Step

LEMMA CancelKeepsTypeInv ==
    ASSUME TypeInv, NEW p \in Procs, CancelLock(p) \/ Cancel(p)
    PROVE  TypeInv'
<1> USE DEF TypeInv
<1>1. CASE CancelLock(p)
  <2>1. file.filled \in SUBSET Nat
    BY DEF TypeOK, State
  <2> QED
    BY <1>1, <2>1 DEF CancelLock, Acquire, Load, Goto, TypeOK, OrdersFit, PCs, Locked, chain
<1>2. CASE LegMined(p)
  <2>1. wbnb' \in Nat /\ spare' \in Nat
    BY <1>2, MinedIsTyped DEF LegMined, Kinds
  <2>2. PICK quote \in Proceeds :
           snap' = [snap EXCEPT ![p] = Sold(@, LeastOf(todo[p]), quote)]
    BY <1>2 DEF LegMined
  <2>3. snap' \in [Procs -> State]
    BY <2>2, SoldIsState DEF TypeOK
  <2>4. TypeOK'
    BY <1>2, <2>1, <2>3 DEF LegMined, Goto, TypeOK, PCs, Locked, history
  <2> QED  BY <1>2, <2>2, <2>4 DEF LegMined, Goto, TypeOK, OrdersFit
<1>3. CASE LegFails(p)
  <2>1. wbnb' \in Nat /\ spare' \in Nat /\ late' \in [Kinds -> Nat]
    BY <1>3, TimesOutIsTyped DEF LegFails, Kinds
  <2> QED  BY <1>3, <2>1 DEF LegFails, TypeOK, OrdersFit, history
<1>4. CASE LegRecord(p)
  BY <1>4 DEF LegRecord, Save, Goto, TypeOK, OrdersFit, PCs, Locked, local, chain
<1>5. CASE CancelFinish(p)
  <2>1. Cancelled(p) \in State
    <3>1. snap[p] \in State
      BY DEF TypeOK
    <3>2. CASE failed[p]
      BY <3>1, <3>2 DEF Cancelled, State
    <3>3. CASE ~failed[p]
      <4>1. ASSUME NEW s \in State
            PROVE  [s EXCEPT !.status = "paused", !.grid = NoGrid, !.center = 0] \in State
        <5>1. NoGrid \in Ladders \cup {NoGrid} /\ 0 \in Int
          OBVIOUS
        <5> QED  BY <5>1 DEF State
      <4> QED  BY <3>1, <3>3, <4>1 DEF Cancelled
    <3> QED  BY <3>2, <3>3
  <2> QED
    BY <1>5, <2>1, EmptyStateIsState
       DEF CancelFinish, Save, Release, Return, Goto, TypeOK, OrdersFit, PCs, Hold, chain
<1> QED  BY <1>1, <1>2, <1>3, <1>4, <1>5 DEF Cancel

LEMMA SeedKeepsTypeInv ==
    ASSUME TypeInv, NEW p \in Procs, SeedLock(p) \/ Seed(p)
    PROVE  TypeInv'
<1> USE DEF TypeInv
<1>1. CASE SeedLock(p)
  BY <1>1 DEF SeedLock, Acquire, Goto, TypeOK, OrdersFit, PCs, Locked, local, chain, history
<1>2. CASE SeedWrap(p)
  <2>1. wbnb' \in Nat /\ spare' \in Nat
    BY <1>2, MinedIsTyped DEF SeedWrap, Kinds
  <2> QED  BY <1>2, <2>1 DEF SeedWrap, Goto, TypeOK, OrdersFit, PCs, Locked, local, history
<1>3. CASE SeedSwap(p)
  <2>1. wbnb' \in Nat /\ spare' \in Nat
    BY <1>3, MinedIsTyped DEF SeedSwap, Kinds
  <2> QED
    BY <1>3, <2>1, EmptyStateIsState
       DEF SeedSwap, Release, Return, Goto, TypeOK, OrdersFit, PCs, Hold
<1>4. CASE SeedFails(p)
  <2>1. wbnb' \in Nat /\ spare' \in Nat /\ late' \in [Kinds -> Nat]
    BY <1>4, TimesOutIsTyped DEF SeedFails, Kinds
  <2> QED
    BY <1>4, <2>1, EmptyStateIsState
       DEF SeedFails, Release, Return, Goto, TypeOK, OrdersFit, PCs, Hold, history
<1> QED  BY <1>1, <1>2, <1>3, <1>4 DEF Seed

LEMMA FlaggedIsState ==
    ASSUME NEW state \in State, NEW op \in {"pause", "stop", "resume"}
    PROVE  Flagged(state, op) \in State
  BY DEF Flagged, State

LEMMA ReshapedIsState ==
    ASSUME NEW state \in State, NEW new \in Reshapes, NEW price \in Prices,
           NEW m \in [state.filled -> DOMAIN new]
    PROVE  Reshaped(state, new, price, m) \in State
<1>1. new \in Ladders /\ LevelForPrice(new, price) \in Int
  BY AnchorIsInt DEF Ladders
<1>2. DOMAIN new \subseteq Nat
  BY <1>1, LaddersAreLadders, FS_CardinalityType DEF IsLadder
<1>3. {m[i] : i \in state.filled} \in SUBSET Nat
  BY <1>2
<1> QED  BY <1>1, <1>3 DEF Reshaped, State

LEMMA WriteKeepsTypeInv ==
    ASSUME TypeInv, NEW p \in Procs,
           FlagLoad(p) \/ Reset(p) \/ ActivateCheck(p) \/ ReshapeLoad(p) \/ Write(p)
    PROVE  TypeInv'
<1> USE DEF TypeInv
<1>1. CASE FlagLoad(p)
  <2>1. PICK op \in {"pause", "stop", "resume"} :
           Load(p, Flagged(file, op)) /\ Goto(p, op)
    BY <1>1 DEF FlagLoad
  <2>2. Flagged(file, op) \in State
    BY FlaggedIsState DEF TypeOK
  <2>3. snap' \in [Procs -> State]
    BY <2>1, <2>2 DEF Load, TypeOK
  <2> QED
    BY <1>1, <2>1, <2>3 DEF FlagLoad, Load, Goto, TypeOK, OrdersFit, PCs, Holding, local, chain
<1>2. CASE Reset(p)
  BY <1>2, EmptyStateIsState DEF Reset, Save, TypeOK, OrdersFit, local, chain
<1>3. CASE ActivateCheck(p)
  BY <1>3 DEF ActivateCheck, Goto, TypeOK, OrdersFit, PCs, local, chain, history
<1>4. CASE ReshapeLoad(p)
  BY <1>4 DEF ReshapeLoad, Load, Goto, TypeOK, OrdersFit, PCs, Holding, local, chain
<1>5. CASE FlagSave(p)
  <2>1. quiet' \in BOOLEAN
    <3>1. CASE pc[p] = "resume"
      BY <1>5, <3>1 DEF FlagSave
    <3>2. CASE pc[p] = "stop"
      BY <1>5, <3>2 DEF FlagSave
    <3>3. CASE pc[p] = "pause"
      BY <1>5, <3>3 DEF FlagSave, TypeOK
    <3> QED  BY <1>5, <3>1, <3>2, <3>3 DEF FlagSave
  <2>2. Save(p, snap[p], TRUE) /\ Return(p) /\ UNCHANGED <<lock, chain>>
    BY <1>5 DEF FlagSave
  <2>3. TypeOK'
    BY <2>1, <2>2, EmptyStateIsState DEF Save, Return, Goto, TypeOK, PCs, Hold, chain
  <2>4. OrdersFit'
    BY <2>2 DEF Return, Goto, TypeOK, OrdersFit
  <2> QED  BY <2>3, <2>4
<1>6. CASE ActivateLoad(p)
  <2>1. PICK price \in Prices :
           Load(p, [file EXCEPT !.status = "active", !.grid = GridFor[price],
                                !.center = LevelForPrice(GridFor[price], price)])
    BY <1>6 DEF ActivateLoad
  <2> DEFINE ladder == GridFor[price]
             anchor == LevelForPrice(ladder, price)
  <2>2. ladder \in Ladders /\ anchor \in Int
    BY AnchorIsInt DEF Ladders
  <2> HIDE DEF ladder, anchor
  <2>3. [file EXCEPT !.status = "active", !.grid = ladder, !.center = anchor] \in State
    BY <2>2 DEF TypeOK, State
  <2>4. snap' \in [Procs -> State]
    BY <2>1, <2>3 DEF Load, TypeOK, ladder, anchor
  <2> QED
    BY <1>6, <2>1, <2>4
       DEF ActivateLoad, Load, Goto, TypeOK, OrdersFit, PCs, Holding, local, chain
<1>7. CASE ActivateSave(p)
  BY <1>7, EmptyStateIsState
     DEF ActivateSave, Save, Return, Goto, TypeOK, OrdersFit, PCs, Hold, chain
<1>8. CASE ReshapeSave(p)
  <2>1. PICK state, kept : state \in State /\ Save(p, state, kept)
    <3>1. PICK new \in Reshapes, price \in Prices :
             \E m \in [snap[p].filled -> DOMAIN new] :
               Save(p, Reshaped(snap[p], new, price, m),
                    SameLots(snap[p], Reshaped(snap[p], new, price, m)))
      BY <1>8 DEF ReshapeSave
    <3>2. PICK m \in [snap[p].filled -> DOMAIN new] :
               Save(p, Reshaped(snap[p], new, price, m),
                    SameLots(snap[p], Reshaped(snap[p], new, price, m)))
      BY <3>1
    <3>3. Reshaped(snap[p], new, price, m) \in State
      BY ReshapedIsState DEF TypeOK
    <3> QED  BY <3>2, <3>3
  <2> QED
    BY <1>8, <2>1, EmptyStateIsState
       DEF ReshapeSave, Save, Return, Goto, TypeOK, OrdersFit, PCs, Hold, chain
<1> QED  BY <1>1, <1>2, <1>3, <1>4, <1>5, <1>6, <1>7, <1>8 DEF Write

LEMMA FaultKeepsTypeInv ==
    ASSUME TypeInv,
           \/ \E p \in Procs : Crash(p)
           \/ \E kind \in Kinds : LateMined(kind) \/ LateDropped(kind)
    PROVE  TypeInv'
<1> USE DEF TypeInv
<1>1. ASSUME NEW p \in Procs, Crash(p)  PROVE TypeInv'
  BY <1>1, EmptyStateIsState
     DEF Crash, Release, Return, Goto, TypeOK, OrdersFit, PCs, Hold, chain
<1>2. ASSUME NEW kind \in Kinds, LateMined(kind)  PROVE TypeInv'
  <2>1. wbnb' \in Nat /\ spare' \in Nat
    BY <1>2, MinedIsTyped DEF LateMined
  <2>2. late' \in [Kinds -> Nat]
    BY <1>2 DEF LateMined, TypeOK
  <2> QED  BY <1>2, <2>1, <2>2 DEF LateMined, TypeOK, OrdersFit, local
<1>3. ASSUME NEW kind \in Kinds, LateDropped(kind)  PROVE TypeInv'
  BY <1>3 DEF LateDropped, TypeOK, OrdersFit, local, history
<1> QED  BY <1>1, <1>2, <1>3

LEMMA NextKeepsTypeInv == TypeInv /\ [Next]_vars => TypeInv'
<1> SUFFICES ASSUME TypeInv, [Next]_vars  PROVE TypeInv'
  OBVIOUS
<1>1. ASSUME NEW p \in Procs, Begin(p) \/ Advance(p)  PROVE TypeInv'
  BY <1>1, StepKeepsTypeInv, CancelKeepsTypeInv, SeedKeepsTypeInv, WriteKeepsTypeInv
     DEF Begin, Advance
<1>2. CASE UNCHANGED vars
  BY <1>2 DEF vars, TypeInv, TypeOK, OrdersFit, local, chain, history
<1> QED  BY <1>1, <1>2, FaultKeepsTypeInv DEF Next

LEMMA TypeInvAlways == Spec => []TypeInv
  BY InitTypeInv, NextKeepsTypeInv, PTL DEF Spec

(* Every operation leaves file, copies, decisions and wallet in their      *)
(* types: no interleaving saves a state that load_state could not return,  *)
(* sells more than the wallet has, or trades a rung no ladder has.         *)
THEOREM StrategyTypeCorrect == Spec => []TypeOK
  BY TypeInvAlways, PTL DEF TypeInv

-----------------------------------------------------------------------------
(* Mutual exclusion: inductive as it stands, given the types *)

LEMMA LoneActionKeepsOneTrader ==
    ASSUME TypeOK, OneTraderAtATime, NEW p \in Procs,
           Begin(p) \/ Advance(p) \/ Crash(p)
    PROVE  OneTraderAtATime'
<1> USE NoneIsNoProc DEF TypeOK, OneTraderAtATime, Locked, Goto
<1>1. CASE StepCheck(p) \/ FlagLoad(p) \/ Reset(p) \/ ActivateCheck(p) \/ ReshapeLoad(p)
  BY <1>1 DEF StepCheck, FlagLoad, Reset, ActivateCheck, ReshapeLoad, Starts, local
<1>2. CASE CancelLock(p) \/ SeedLock(p) \/ StepLock(p)
  BY <1>2 DEF CancelLock, SeedLock, StepLock, Acquire, Starts
<1>3. CASE StepPreview(p) \/ BuyMined(p) \/ SellMined(p) \/ SwapFails(p)
  BY <1>3 DEF StepPreview, BuyMined, SellMined, SwapFails
<1>4. CASE Withdraw(p)
  BY <1>4 DEF Withdraw, Return
<1>5. CASE StepRecord(p) \/ CancelFinish(p) \/ SeedSwap(p) \/ SeedFails(p) \/ Crash(p)
  BY <1>5 DEF StepRecord, CancelFinish, SeedSwap, SeedFails, Crash, Release, Return
<1>6. CASE LegMined(p) \/ LegFails(p) \/ LegRecord(p) \/ SeedWrap(p)
  BY <1>6 DEF LegMined, LegFails, LegRecord, SeedWrap
<1>7. CASE FlagSave(p) \/ ActivateSave(p) \/ ReshapeSave(p)
  BY <1>7 DEF FlagSave, ActivateSave, ReshapeSave, Return
<1>8. CASE ActivateLoad(p)
  BY <1>8 DEF ActivateLoad
<1> QED
  BY <1>1, <1>2, <1>3, <1>4, <1>5, <1>6, <1>7, <1>8 DEF Begin, Advance, Step, Cancel, Seed, Write

LEMMA NextKeepsOneTrader == TypeOK /\ OneTraderAtATime /\ [Next]_vars => OneTraderAtATime'
<1> SUFFICES ASSUME TypeOK, OneTraderAtATime, [Next]_vars  PROVE OneTraderAtATime'
  OBVIOUS
<1>1. CASE \E kind \in Kinds : LateMined(kind) \/ LateDropped(kind)
  BY <1>1 DEF LateMined, LateDropped, OneTraderAtATime
<1>2. CASE UNCHANGED vars
  BY <1>2 DEF vars, OneTraderAtATime
<1> QED  BY <1>1, <1>2, LoneActionKeepsOneTrader DEF Next

(* Two processes never trade the same grid at once: whoever is between the *)
(* read of the ledger and the save of the trade holds the lock, and a lock *)
(* is held by nobody else, through crashes and failed swaps.               *)
THEOREM MutualExclusion == Spec => []OneTraderAtATime
<1>1. Init => OneTraderAtATime
  BY NoneIsNoProc DEF Init, OneTraderAtATime, Locked
<1> QED  BY <1>1, StrategyTypeCorrect, NextKeepsOneTrader, PTL DEF Spec

-----------------------------------------------------------------------------
(* The emergency stop *)

(* Quiet is not inductive: a copy without the latch could still be saved   *)
(* over it.  The copies of a stopped grid all carry it, those of resume    *)
(* excepted, and no activate has passed its check.                         *)
StopCopiesLatch == \A p \in Procs : pc[p] = "stop" => snap[p].emergency

LatchHeld ==
    quiet => /\ file.emergency
             /\ \A p \in Procs :
                   /\ pc[p] \notin {"preview", "lock", "swap", "record", "recordError",
                                    "activateRead", "activateSave"}
                   /\ pc[p] \in Holding \ {"resume"} => snap[p].emergency

StopInv == StopCopiesLatch /\ LatchHeld

LEMMA FlagsOfCopies ==
    ASSUME NEW state \in State
    PROVE  /\ Flagged(state, "pause").emergency = state.emergency
           /\ Flagged(state, "stop").emergency = TRUE
  BY DEF State, Flagged

LEMMA SaleKeepsTheLatch ==
    ASSUME TypeOK, NEW p \in Procs, NEW level, NEW quote
    PROVE  Sold(snap[p], level, quote).emergency = snap[p].emergency
  BY DEF TypeOK, State, Sold

LEMMA ReshapeKeepsTheLatch ==
    ASSUME TypeOK, NEW p \in Procs, NEW new, NEW price, NEW m
    PROVE  Reshaped(snap[p], new, price, m).emergency = snap[p].emergency
  BY DEF TypeOK, State, Reshaped

LEMMA LoneActionKeepsStop ==
    ASSUME TypeOK, StopInv, NEW p \in Procs, Begin(p) \/ Advance(p) \/ Crash(p)
    PROVE  StopInv'
<1> USE DEF TypeOK, StopInv, StopCopiesLatch, LatchHeld, Holding, Goto
<1>1. CASE StepCheck(p) \/ ActivateCheck(p) \/ StepPreview(p)
  <2>1. CASE StepCheck(p)
    BY <2>1 DEF StepCheck, history
  <2>2. CASE ActivateCheck(p)
    BY <2>2 DEF ActivateCheck, history
  <2>3. CASE StepPreview(p)
    BY <2>3 DEF StepPreview, history
  <2> QED  BY <1>1, <2>1, <2>2, <2>3
<1>2. CASE StepLock(p) \/ CancelLock(p) \/ ReshapeLoad(p)
  <2>1. CASE StepLock(p)
    BY <2>1 DEF StepLock, Load
  <2>2. CASE CancelLock(p)
    BY <2>2 DEF CancelLock, Load
  <2>3. CASE ReshapeLoad(p)
    BY <2>3 DEF ReshapeLoad, Load
  <2> QED  BY <1>2, <2>1, <2>2, <2>3
<1>3. CASE BuyMined(p) \/ SwapFails(p)
  BY <1>3 DEF BuyMined, SwapFails, history
<1>4. CASE SellMined(p)
  BY <1>4 DEF SellMined, history
<1>5. CASE LegMined(p)
  <2>1. PICK quote \in Proceeds :
           snap' = [snap EXCEPT ![p] = Sold(@, LeastOf(todo[p]), quote)]
    BY <1>5 DEF LegMined
  <2>2. Sold(snap[p], LeastOf(todo[p]), quote).emergency = snap[p].emergency
    BY SaleKeepsTheLatch
  <2>3. /\ snap'[p].emergency = snap[p].emergency
        /\ \A q \in Procs \ {p} : snap'[q] = snap[q]
    BY <2>1, <2>2
  <2> QED  BY <1>5, <2>3 DEF LegMined, history
<1>6. CASE LegFails(p) \/ SeedLock(p) \/ SeedWrap(p)
  BY <1>6 DEF LegFails, SeedLock, SeedWrap, history
<1>7. CASE LegRecord(p)
  BY <1>7 DEF LegRecord, Save
<1>8. CASE Withdraw(p) \/ SeedSwap(p) \/ SeedFails(p) \/ Crash(p)
  BY <1>8 DEF Withdraw, SeedSwap, SeedFails, Crash, Return, history
<1>9. CASE StepRecord(p) \/ ActivateSave(p)
  BY <1>9 DEF StepRecord, ActivateSave, Save, Return
<1>10. CASE CancelFinish(p)
  <2>1. Cancelled(p).emergency = snap[p].emergency
    BY DEF Cancelled, State
  <2> QED  BY <1>10, <2>1 DEF CancelFinish, Save, Return
<1>11. CASE FlagLoad(p)
  <2>1. PICK op \in {"pause", "stop", "resume"} :
           Load(p, Flagged(file, op)) /\ Goto(p, op) /\ UNCHANGED <<file, quiet>>
    BY <1>11 DEF FlagLoad
  <2> QED  BY <2>1, FlagsOfCopies DEF Load
<1>12. CASE FlagSave(p)
  <2>1. file' = snap[p] /\ Return(p)
    BY <1>12 DEF FlagSave, Save
  <2>2. CASE pc[p] = "resume"
    BY <1>12, <2>1, <2>2 DEF FlagSave, Return
  <2>3. CASE pc[p] = "stop"
    BY <1>12, <2>1, <2>3 DEF FlagSave, Return
  <2>4. CASE pc[p] = "pause"
    BY <1>12, <2>1, <2>4 DEF FlagSave, Return
  <2> QED  BY <1>12, <2>2, <2>3, <2>4 DEF FlagSave
<1>13. CASE Reset(p)
  BY <1>13 DEF Reset
<1>14. CASE ActivateLoad(p)
  <2>1. ~quiet /\ ~quiet'
    BY <1>14 DEF ActivateLoad
  <2>2. /\ pc' = [pc EXCEPT ![p] = "activateSave"]
        /\ \A q \in Procs \ {p} : snap'[q] = snap[q]
    BY <1>14 DEF ActivateLoad, Load
  <2> QED  BY <2>1, <2>2
<1>15. CASE ReshapeSave(p)
  <2>1. PICK new, price, m, kept :
           Save(p, Reshaped(snap[p], new, price, m), kept)
    BY <1>15 DEF ReshapeSave
  <2>2. file'.emergency = snap[p].emergency
    <3>1. file' = Reshaped(snap[p], new, price, m)
      BY <2>1 DEF Save
    <3>2. Reshaped(snap[p], new, price, m).emergency = snap[p].emergency
      BY ReshapeKeepsTheLatch
    <3> QED  BY <3>1, <3>2
  <2> QED  BY <1>15, <2>2 DEF ReshapeSave, Return
<1> QED
  BY <1>1, <1>2, <1>3, <1>4, <1>5, <1>6, <1>7, <1>8, <1>9, <1>10, <1>11, <1>12, <1>13,
     <1>14, <1>15 DEF Begin, Advance, Step, Cancel, Seed, Write

LEMMA NextKeepsStop == TypeOK /\ StopInv /\ [Next]_vars => StopInv'
<1> SUFFICES ASSUME TypeOK, StopInv, [Next]_vars  PROVE StopInv'
  OBVIOUS
<1>1. CASE \E kind \in Kinds : LateMined(kind) \/ LateDropped(kind)
  BY <1>1 DEF LateMined, LateDropped, history, StopInv, StopCopiesLatch, LatchHeld
<1>2. CASE UNCHANGED vars
  BY <1>2 DEF vars, history, StopInv, StopCopiesLatch, LatchHeld
<1> QED  BY <1>1, <1>2, LoneActionKeepsStop DEF Next

(* An emergency stop that finds the other processes idle stays in force    *)
(* until resume or reset, and no step gets past its first check, for any   *)
(* number of processes and any interleaving of the other operations.       *)
THEOREM QuietStopHolds == Spec => []QuietStopIsAbsolute
<1>1. Init => StopInv
  BY DEF Init, StopInv, StopCopiesLatch, LatchHeld
<1>2. StopInv => QuietStopIsAbsolute
  BY DEF StopInv, LatchHeld, QuietStopIsAbsolute
<1> QED  BY <1>1, <1>2, StrategyTypeCorrect, NextKeepsStop, PTL DEF Spec

-----------------------------------------------------------------------------
(* No lot without a grid *)

Anchored(state) == state.grid = NoGrid => state.filled = {}

(* While cancel_grid has lots to visit they are lots of its copy, and as   *)
(* long as no sale has failed they are all its lots.                       *)
Visiting(p) ==
    pc[p] \in {"legs", "legRecord"} =>
        /\ todo[p] \subseteq snap[p].filled
        /\ ~failed[p] => todo[p] = snap[p].filled

GridInv ==
    /\ Anchored(file)
    /\ \A p \in Procs : Anchored(snap[p]) /\ Visiting(p)

LEMMA EmptyStateIsAnchored == Anchored(EmptyState)
  BY DEF Anchored, EmptyState

(* What the changes an operation makes to a state do to its grid and lots. *)
LEMMA GridAndLotsOfChanges ==
    ASSUME NEW state \in State
    PROVE  /\ \A level, quote :
                 /\ Sold(state, level, quote).grid = state.grid
                 /\ Sold(state, level, quote).filled = state.filled \ {level}
           /\ \A op \in {"pause", "stop", "resume"} :
                 /\ Flagged(state, op).grid = state.grid
                 /\ Flagged(state, op).filled = state.filled
  BY DEF State, Sold, Flagged

LEMMA LoneActionKeepsGridInv ==
    ASSUME TypeInv, GridInv, NEW p \in Procs, Begin(p) \/ Advance(p) \/ Crash(p)
    PROVE  GridInv'
<1> USE DEF TypeInv, TypeOK, GridInv, Visiting, Goto
<1>1. CASE StepCheck(p) \/ ActivateCheck(p) \/ StepPreview(p)
  BY <1>1 DEF StepCheck, ActivateCheck, StepPreview, local
<1>2. CASE StepLock(p) \/ CancelLock(p) \/ ReshapeLoad(p)
  BY <1>2 DEF StepLock, CancelLock, ReshapeLoad, Load, local
<1>3. CASE BuyMined(p)
  <2> DEFINE bought == [snap[p] EXCEPT !.filled = @ \cup {order[p].level},
                                       !.deployed = @ + OrderSize]
  <2>1. snap[p].grid # NoGrid
    <3>1. order[p].level \in DOMAIN snap[p].grid
      BY <1>3 DEF BuyMined, OrdersFit, OrderFits
    <3> QED  BY <3>1 DEF NoGrid
  <2>2. bought.grid = snap[p].grid
    BY DEF State
  <2>3. snap' = [snap EXCEPT ![p] = bought]
    BY <1>3 DEF BuyMined
  <2> HIDE DEF bought
  <2> QED  BY <1>3, <2>1, <2>2, <2>3 DEF BuyMined, local, Anchored
<1>4. CASE SellMined(p)
  <2>1. PICK quote \in Proceeds :
           snap' = [snap EXCEPT ![p] = Sold(@, order[p].level, quote)]
    BY <1>4 DEF SellMined
  <2>2. Anchored(Sold(snap[p], order[p].level, quote))
    BY GridAndLotsOfChanges DEF Anchored
  <2> QED  BY <1>4, <2>1, <2>2 DEF SellMined, local
<1>5. CASE LegMined(p)
  <2> DEFINE level == LeastOf(todo[p])
  <2>1. PICK quote \in Proceeds : snap' = [snap EXCEPT ![p] = Sold(@, level, quote)]
    BY <1>5 DEF LegMined
  <2>2. /\ Sold(snap[p], level, quote).grid = snap[p].grid
        /\ Sold(snap[p], level, quote).filled = snap[p].filled \ {level}
    BY GridAndLotsOfChanges
  <2>3. todo' = [todo EXCEPT ![p] = @ \ {level}]
    BY <1>5 DEF LegMined
  <2> HIDE DEF level
  <2> QED  BY <1>5, <2>1, <2>2, <2>3 DEF LegMined, Anchored
<1>6. CASE LegFails(p)
  BY <1>6 DEF LegFails
<1>7. CASE SwapFails(p) \/ SeedLock(p) \/ SeedWrap(p)
  BY <1>7 DEF SwapFails, SeedLock, SeedWrap, local
<1>8. CASE LegRecord(p)
  BY <1>8 DEF LegRecord, Save, local
<1>9. CASE Withdraw(p) \/ SeedSwap(p) \/ SeedFails(p) \/ Crash(p)
  BY <1>9, EmptyStateIsAnchored DEF Withdraw, SeedSwap, SeedFails, Crash, Return
<1>10. CASE StepRecord(p) \/ ActivateSave(p) \/ FlagSave(p)
  BY <1>10, EmptyStateIsAnchored DEF StepRecord, ActivateSave, FlagSave, Save, Return
<1>11. CASE CancelFinish(p)
  <2>1. Anchored(Cancelled(p))
    <3>1. CASE failed[p]
      BY <3>1 DEF Cancelled, Anchored, State
    <3>2. CASE ~failed[p]
      <4>1. snap[p].filled = {}
        BY <1>11, <3>2 DEF CancelFinish
      <4>2. Cancelled(p).filled = snap[p].filled
        BY <3>2 DEF Cancelled, State
      <4> QED  BY <4>1, <4>2 DEF Anchored
    <3> QED  BY <3>1, <3>2
  <2> QED  BY <1>11, <2>1, EmptyStateIsAnchored DEF CancelFinish, Save, Return
<1>12. CASE FlagLoad(p)
  <2>1. PICK op \in {"pause", "stop", "resume"} :
           Load(p, Flagged(file, op)) /\ Goto(p, op) /\ UNCHANGED <<file, local>>
    BY <1>12 DEF FlagLoad
  <2>2. Anchored(Flagged(file, op))
    BY GridAndLotsOfChanges DEF Anchored
  <2> QED  BY <2>1, <2>2 DEF Load, local
<1>13. CASE Reset(p)
  BY <1>13, EmptyStateIsAnchored DEF Reset, Save, local
<1>14. CASE ActivateLoad(p)
  <2>1. PICK price \in Prices :
           Load(p, [file EXCEPT !.status = "active", !.grid = GridFor[price],
                                !.center = LevelForPrice(GridFor[price], price)])
    BY <1>14 DEF ActivateLoad
  <2> DEFINE anchor == LevelForPrice(GridFor[price], price)
             armed  == [file EXCEPT !.status = "active", !.grid = GridFor[price],
                                    !.center = anchor]
  <2>2. armed.grid # NoGrid
    <3> HIDE DEF anchor
    <3>1. armed.grid = GridFor[price]
      BY DEF State
    <3> QED  BY <3>1, LaddersAreLadders DEF Ladders
  <2>3. snap' = [snap EXCEPT ![p] = armed]
    BY <2>1 DEF Load
  <2> HIDE DEF armed
  <2> QED  BY <1>14, <2>2, <2>3 DEF ActivateLoad, Anchored, local
<1>15. CASE ReshapeSave(p)
  <2>1. PICK new \in Reshapes : \E price, m, kept :
           Save(p, Reshaped(snap[p], new, price, m), kept)
    BY <1>15 DEF ReshapeSave
  <2>2. PICK price, m, kept : Save(p, Reshaped(snap[p], new, price, m), kept)
    BY <2>1
  <2>3. Reshaped(snap[p], new, price, m).grid = new
    BY DEF Reshaped, State
  <2>4. new # NoGrid
    BY LaddersAreLadders DEF Ladders
  <2> QED  BY <1>15, <2>2, <2>3, <2>4, EmptyStateIsAnchored
           DEF ReshapeSave, Save, Return, Anchored
<1> QED
  BY <1>1, <1>2, <1>3, <1>4, <1>5, <1>6, <1>7, <1>8, <1>9, <1>10, <1>11, <1>12, <1>13,
     <1>14, <1>15 DEF Begin, Advance, Step, Cancel, Seed, Write

LEMMA NextKeepsGridInv == TypeInv /\ GridInv /\ [Next]_vars => GridInv'
<1> SUFFICES ASSUME TypeInv, GridInv, [Next]_vars  PROVE GridInv'
  OBVIOUS
<1>1. CASE \E kind \in Kinds : LateMined(kind) \/ LateDropped(kind)
  BY <1>1 DEF LateMined, LateDropped, local, GridInv, Visiting
<1>2. CASE UNCHANGED vars
  BY <1>2 DEF vars, local, GridInv, Visiting, Anchored
<1> QED  BY <1>1, <1>2, LoneActionKeepsGridInv DEF Next

LEMMA GridInvAlways == Spec => []GridInv
<1>1. Init => GridInv
  BY EmptyStateIsAnchored DEF Init, GridInv, Visiting
<1> QED  BY <1>1, TypeInvAlways, NextKeepsGridInv, PTL DEF Spec

(* A grid is only cleared when it holds no lot, by cancel_grid whose every *)
(* sale went through or by reset, in every interleaving and through every  *)
(* lost update and crash: no lot is on file without a ladder to sell it on.*)
THEOREM LotsKeepTheirGrid == Spec => []NoLotWithoutGrid
<1>1. GridInv => NoLotWithoutGrid
  BY DEF GridInv, Anchored, NoLotWithoutGrid
<1> QED  BY <1>1, GridInvAlways, PTL

-----------------------------------------------------------------------------
(* The ledger and the wallet *)

Lots(state) == Cardinality(state.filled)

LotsAreFinite ==
    /\ IsFiniteSet(file.filled)
    /\ \A p \in Procs : IsFiniteSet(snap[p].filled)

(* The file is right unless the holder of the lock has a sale or purchase  *)
(* to save; the holder's copy is right; and a copy without a trade of its  *)
(* own in it is as right as the file while nobody saved since.             *)
Books ==
    /\ lock = None \/ pc[lock] \notin Unsaved => wbnb = Lots(file) + spare
    /\ \A p \in Procs :
          /\ lock = p /\ pc[p] \in Holding => wbnb = Lots(snap[p]) + spare
          /\ pc[p] \in Holding \ Unsaved /\ ~stale[p] => Lots(snap[p]) = Lots(file)

LedgerInv == LotsAreFinite /\ (intact => Books)

LEMMA LotsOfChanges ==
    ASSUME NEW state \in State, IsFiniteSet(state.filled)
    PROVE  /\ Lots(state) \in Nat
           /\ \A level, quote :
                 /\ IsFiniteSet(Sold(state, level, quote).filled)
                 /\ level \in state.filled => Lots(Sold(state, level, quote)) = Lots(state) - 1
           /\ \A op \in {"pause", "stop", "resume"} :
                 /\ IsFiniteSet(Flagged(state, op).filled)
                 /\ Lots(Flagged(state, op)) = Lots(state)
<1>1. Lots(state) \in Nat
  BY FS_CardinalityType DEF Lots
<1>2. ASSUME NEW level, NEW quote
      PROVE  /\ IsFiniteSet(Sold(state, level, quote).filled)
             /\ level \in state.filled => Lots(Sold(state, level, quote)) = Lots(state) - 1
  <2>1. Sold(state, level, quote).filled = state.filled \ {level}
    BY GridAndLotsOfChanges
  <2> QED  BY <2>1, FS_RemoveElement DEF Lots
<1>3. ASSUME NEW op \in {"pause", "stop", "resume"}
      PROVE  IsFiniteSet(Flagged(state, op).filled) /\ Lots(Flagged(state, op)) = Lots(state)
  BY GridAndLotsOfChanges DEF Lots
<1> QED  BY <1>1, <1>2, <1>3

LEMMA LotsOfEmptyState == IsFiniteSet(EmptyState.filled) /\ Lots(EmptyState) = 0
  BY FS_EmptySet DEF EmptyState, Lots

LEMMA LotsOfReshaped ==
    ASSUME NEW state \in State, NEW new \in Reshapes, NEW price,
           NEW m \in [state.filled -> DOMAIN new]
    PROVE  IsFiniteSet(Reshaped(state, new, price, m).filled)
<1>1. Reshaped(state, new, price, m).filled = {m[i] : i \in state.filled}
  BY DEF Reshaped, State
<1>2. {m[i] : i \in state.filled} \in SUBSET (DOMAIN new)
  OBVIOUS
<1>3. IsFiniteSet(DOMAIN new)
  BY ReshapesAreLadders DEF IsLadder
<1> QED  BY <1>1, <1>2, <1>3, FS_Subset

LEMMA MinedMoves ==
    ASSUME TypeOK, NEW kind \in Kinds, Mined(kind)
    PROVE  /\ kind = "buy" => wbnb' = wbnb + 1 /\ spare' = spare
           /\ kind = "sell" => wbnb' = wbnb - 1 /\ spare' = spare
           /\ kind = "wrap" => wbnb' = wbnb + 1 /\ spare' = spare + 1
           /\ kind = "seed" /\ ~SeedSellsALot => wbnb' = wbnb - 1 /\ spare' = spare - 1
<1>1. CASE kind = "buy"
  BY <1>1 DEF Mined
<1>2. CASE kind = "sell"
  BY <1>2 DEF Mined
<1>3. CASE kind = "wrap"
  BY <1>3 DEF Mined
<1>4. CASE kind = "seed"
  <2>1. ~SeedSellsALot => spare > 0
    BY DEF SeedSellsALot, TypeOK
  <2> QED  BY <1>4, <2>1 DEF Mined
<1> QED  BY <1>1, <1>2, <1>3, <1>4 DEF Kinds

LEMMA LoneActionKeepsLedgerInv ==
    ASSUME TypeInv, OneTraderAtATime, GridInv, LedgerInv,
           NEW p \in Procs, Begin(p) \/ Advance(p) \/ Crash(p)
    PROVE  LedgerInv'
<1> USE NoneIsNoProc
        DEF TypeInv, TypeOK, OneTraderAtATime, LedgerInv, LotsAreFinite, Books,
            Goto, Locked, Holding, Unsaved
<1>0. /\ Lots(file) \in Nat
      /\ \A q \in Procs : Lots(snap[q]) \in Nat
  BY LotsOfChanges
<1>1. CASE StepCheck(p) \/ ActivateCheck(p) \/ StepPreview(p)
  BY <1>1 DEF StepCheck, ActivateCheck, StepPreview, Starts, local, chain, history
<1>2. CASE StepLock(p)
  BY <1>2 DEF StepLock, Acquire, Load, chain
<1>3. CASE CancelLock(p)
  BY <1>3 DEF CancelLock, Acquire, Load, chain
<1>4. CASE ReshapeLoad(p)
  BY <1>4 DEF ReshapeLoad, Starts, Load, local, chain
<1>5. CASE BuyMined(p)
  <2> DEFINE bought == [snap[p] EXCEPT !.filled = @ \cup {order[p].level},
                                       !.deployed = @ + OrderSize]
  <2>1. order[p].level \notin snap[p].filled
    BY <1>5 DEF BuyMined, OrdersFit, OrderFits
  <2>2. bought.filled = snap[p].filled \cup {order[p].level}
    BY DEF State
  <2>3. snap' = [snap EXCEPT ![p] = bought]
    BY <1>5 DEF BuyMined
  <2> HIDE DEF bought
  <2>4. IsFiniteSet(bought.filled) /\ Lots(bought) = Lots(snap[p]) + 1
    <3>1. /\ IsFiniteSet(snap[p].filled \cup {order[p].level})
          /\ Cardinality(snap[p].filled \cup {order[p].level}) = Cardinality(snap[p].filled) + 1
      BY <2>1, FS_AddElement
    <3> QED  BY <2>2, <3>1 DEF Lots
  <2>5. wbnb' = wbnb + 1 /\ spare' = spare
    BY <1>5, MinedMoves DEF BuyMined, Kinds
  <2>6. /\ pc[p] = "swap" /\ pc' = [pc EXCEPT ![p] = "record"]
        /\ UNCHANGED <<file, lock, history>>
    BY <1>5 DEF BuyMined
  <2> QED  BY <1>0, <2>3, <2>4, <2>5, <2>6 DEF history
<1>6. CASE SellMined(p)
  <2>1. PICK quote \in Proceeds :
           snap' = [snap EXCEPT ![p] = Sold(@, order[p].level, quote)]
    BY <1>6 DEF SellMined
  <2>2. order[p].level \in snap[p].filled
    BY <1>6 DEF SellMined, OrdersFit, OrderFits
  <2> DEFINE sold == Sold(snap[p], order[p].level, quote)
  <2>3. IsFiniteSet(sold.filled) /\ Lots(sold) = Lots(snap[p]) - 1
    BY <2>2, LotsOfChanges
  <2>4. wbnb' = wbnb - 1 /\ spare' = spare
    BY <1>6 DEF SellMined, Mined
  <2> HIDE DEF sold
  <2>5. snap' = [snap EXCEPT ![p] = sold]
    BY <2>1 DEF sold
  <2> QED  BY <1>0, <1>6, <2>3, <2>4, <2>5 DEF SellMined, local, history
<1>7. CASE SwapFails(p)
  <2>1. wbnb' = wbnb /\ spare' = spare
    BY <1>7 DEF SwapFails, TimesOut, chain
  <2> QED  BY <1>7, <2>1 DEF SwapFails, local, history
<1>8. CASE StepRecord(p)
  BY <1>8, LotsOfEmptyState DEF StepRecord, Save, Release, Return, chain
<1>9. CASE LegMined(p)
  <2> DEFINE level == LeastOf(todo[p])
             sold(quote) == Sold(snap[p], level, quote)
  <2>1. PICK quote \in Proceeds : snap' = [snap EXCEPT ![p] = sold(quote)]
    BY <1>9 DEF LegMined
  <2>2. level \in snap[p].filled
    <3>1. level \in todo[p]
      BY <1>9, LeastIsThere DEF LegMined
    <3> QED  BY <1>9, <3>1 DEF LegMined, GridInv, Visiting
  <2>3. IsFiniteSet(sold(quote).filled) /\ Lots(sold(quote)) = Lots(snap[p]) - 1
    BY <2>2, LotsOfChanges
  <2>4. wbnb' = wbnb - 1 /\ spare' = spare
    BY <1>9 DEF LegMined, Mined
  <2> HIDE DEF sold
  <2> QED  BY <1>0, <1>9, <2>1, <2>3, <2>4 DEF LegMined, history
<1>10. CASE LegFails(p)
  <2>1. wbnb' = wbnb /\ spare' = spare
    BY <1>10 DEF LegFails, TimesOut, chain
  <2> QED  BY <1>10, <2>1 DEF LegFails, history
<1>11. CASE LegRecord(p)
  BY <1>11 DEF LegRecord, Save, local, chain
<1>12. CASE CancelFinish(p)
  <2>1. Cancelled(p).filled = snap[p].filled
    <3>1. CASE failed[p]
      BY <3>1 DEF Cancelled, State
    <3>2. CASE ~failed[p]
      BY <3>2 DEF Cancelled, State
    <3> QED  BY <3>1, <3>2
  <2>2. IsFiniteSet(Cancelled(p).filled) /\ Lots(Cancelled(p)) = Lots(snap[p])
    BY <2>1 DEF Lots
  <2> QED  BY <1>12, <2>2, LotsOfEmptyState DEF CancelFinish, Save, Release, Return, chain
<1>13. CASE SeedLock(p)
  BY <1>13 DEF SeedLock, Acquire, local, chain, history
<1>14. CASE SeedWrap(p)
  <2>1. wbnb' = wbnb + 1 /\ spare' = spare + 1
    BY <1>14, MinedMoves DEF SeedWrap, Kinds
  <2> QED  BY <1>0, <1>14, <2>1 DEF SeedWrap, local, history
<1>15. CASE SeedSwap(p)
  <2>1. intact' => intact /\ wbnb' = wbnb - 1 /\ spare' = spare - 1
    BY <1>15, MinedMoves DEF SeedSwap, Kinds
  <2>2. /\ pc[p] = "seedSwap" /\ Release(p) /\ Return(p)
        /\ UNCHANGED <<file, stale>>
    BY <1>15 DEF SeedSwap
  <2>3. lock = p /\ lock' = None
    BY <2>2 DEF Release
  <2>4. intact' => wbnb' = Lots(file) + spare'
    BY <1>0, <2>1, <2>2, <2>3
  <2> QED  BY <2>1, <2>2, <2>3, <2>4, LotsOfEmptyState DEF Return
<1>16. CASE SeedFails(p)
  <2>1. wbnb' = wbnb /\ spare' = spare
    BY <1>16 DEF SeedFails, TimesOut, chain
  <2> QED  BY <1>16, <2>1, LotsOfEmptyState DEF SeedFails, Release, Return, history
<1>17. CASE Withdraw(p)
  BY <1>17, LotsOfEmptyState DEF Withdraw, Return, chain, history
<1>18. CASE FlagLoad(p)
  <2>1. PICK op \in {"pause", "stop", "resume"} :
           /\ Load(p, Flagged(file, op)) /\ Goto(p, op)
           /\ UNCHANGED <<file, lock, chain, quiet, intact>>
    BY <1>18 DEF FlagLoad
  <2> DEFINE flagged == Flagged(file, op)
  <2>2. IsFiniteSet(flagged.filled) /\ Lots(flagged) = Lots(file)
    BY LotsOfChanges
  <2> HIDE DEF flagged
  <2>3. pc[p] = "idle" /\ Load(p, flagged)
    BY <1>18, <2>1 DEF FlagLoad, Starts, flagged
  <2> QED  BY <2>1, <2>2, <2>3 DEF Load, chain
<1>19. CASE FlagSave(p) \/ ActivateSave(p)
  <2>1. /\ Save(p, snap[p], TRUE) /\ Return(p) /\ UNCHANGED <<lock, chain>>
        /\ pc[p] \in {"pause", "stop", "resume", "activateSave"}
    BY <1>19 DEF FlagSave, ActivateSave
  <2> QED  BY <2>1, LotsOfEmptyState DEF Save, Aged, Return, chain
<1>20. CASE Reset(p)
  <2>1. file' = EmptyState /\ (intact' => intact /\ Lots(file) = 0)
    BY <1>20, FS_EmptySet DEF Reset, Save, Lots
  <2>2. /\ stale' = [q \in Procs |-> q # p /\ (stale[q] \/ pc[q] \in Holding)]
        /\ pc[p] = "idle" /\ UNCHANGED <<lock, pc, snap, chain>>
    BY <1>20 DEF Reset, Starts, Save
  <2> QED  BY <2>1, <2>2, LotsOfEmptyState DEF chain
<1>21. CASE ActivateLoad(p)
  <2>1. PICK price \in Prices :
           Load(p, [file EXCEPT !.status = "active", !.grid = GridFor[price],
                                !.center = LevelForPrice(GridFor[price], price)])
    BY <1>21 DEF ActivateLoad
  <2> DEFINE anchor == LevelForPrice(GridFor[price], price)
             armed  == [file EXCEPT !.status = "active", !.grid = GridFor[price],
                                    !.center = anchor]
  <2>2. armed.filled = file.filled
    <3> HIDE DEF anchor
    <3> QED  BY DEF State
  <2>3. IsFiniteSet(armed.filled) /\ Lots(armed) = Lots(file)
    BY <2>2 DEF Lots
  <2>4. Load(p, armed)
    BY <2>1
  <2> HIDE DEF armed
  <2> QED  BY <1>21, <2>3, <2>4 DEF ActivateLoad, Load, local, chain
<1>22. CASE ReshapeSave(p)
  <2>1. PICK new \in Reshapes, price \in Prices :
           \E m \in [snap[p].filled -> DOMAIN new] :
              Save(p, Reshaped(snap[p], new, price, m),
                   SameLots(snap[p], Reshaped(snap[p], new, price, m)))
    BY <1>22 DEF ReshapeSave
  <2>2. PICK m \in [snap[p].filled -> DOMAIN new] :
           Save(p, Reshaped(snap[p], new, price, m),
                SameLots(snap[p], Reshaped(snap[p], new, price, m)))
    BY <2>1
  <2> DEFINE state == Reshaped(snap[p], new, price, m)
  <2>3. IsFiniteSet(state.filled)
    BY LotsOfReshaped
  <2> HIDE DEF state
  <2>4. file' = state /\ (intact' => intact /\ ~stale[p] /\ Lots(state) = Lots(snap[p]))
    BY <1>22, <2>2 DEF ReshapeSave, Save, Aged, SameLots, Lots, state
  <2>5. stale' = [q \in Procs |-> q # p /\ (stale[q] \/ pc[q] \in Holding)]
    BY <2>2 DEF Save
  <2> QED  BY <1>22, <2>3, <2>4, <2>5, LotsOfEmptyState DEF ReshapeSave, Return, chain
<1>23. CASE Crash(p)
  BY <1>23, LotsOfEmptyState DEF Crash, Release, Return, chain
<1> QED
  BY <1>1, <1>2, <1>3, <1>4, <1>5, <1>6, <1>7, <1>8, <1>9, <1>10, <1>11, <1>12, <1>13,
     <1>14, <1>15, <1>16, <1>17, <1>18, <1>19, <1>20, <1>21, <1>22, <1>23
     DEF Begin, Advance, Step, Cancel, Seed, Write

LEMMA LateKeepsLedgerInv ==
    ASSUME TypeInv, LedgerInv, NEW kind \in Kinds, LateMined(kind) \/ LateDropped(kind)
    PROVE  LedgerInv'
<1> USE DEF TypeInv, TypeOK, LedgerInv, LotsAreFinite, Books, Kinds
<1>1. CASE LateMined(kind)
  <2>1. /\ Lots(file) \in Nat
        /\ \A q \in Procs : Lots(snap[q]) \in Nat
    BY LotsOfChanges
  <2>2. /\ intact' => intact /\ kind \notin {"buy", "sell"} /\ (kind = "seed" => ~SeedSellsALot)
        /\ UNCHANGED <<file, lock, pc, snap, stale>>
    BY <1>1 DEF LateMined
  <2>3. intact' => \E d \in {-1, 1} : wbnb' = wbnb + d /\ spare' = spare + d
    BY <1>1, <2>2, MinedMoves DEF LateMined
  <2> QED  BY <2>1, <2>2, <2>3
<1>2. CASE LateDropped(kind)
  BY <1>2 DEF LateDropped, history
<1> QED  BY <1>1, <1>2

LEMMA NextKeepsLedgerInv ==
    TypeInv /\ OneTraderAtATime /\ GridInv /\ LedgerInv /\ [Next]_vars => LedgerInv'
<1> SUFFICES ASSUME TypeInv, OneTraderAtATime, GridInv, LedgerInv, [Next]_vars
             PROVE  LedgerInv'
  OBVIOUS
<1>1. CASE UNCHANGED vars
  BY <1>1 DEF vars, chain, history, LedgerInv, LotsAreFinite, Books
<1> QED  BY <1>1, LoneActionKeepsLedgerInv, LateKeepsLedgerInv DEF Next

(* All of it together. *)
BookInv == TypeInv /\ OneTraderAtATime /\ GridInv /\ LedgerInv

LEMMA BookInvAlways == Spec => []BookInv
<1>1. Init => LedgerInv
  BY LotsOfEmptyState DEF Init, LedgerInv, LotsAreFinite, Books, Holding
<1> QED
  BY <1>1, TypeInvAlways, MutualExclusion, GridInvAlways, NextKeepsLedgerInv, PTL
     DEF Spec, BookInv

LEMMA BookInvMatches == BookInv => LedgerMatchesWallet
  BY NoneIsNoProc DEF BookInv, TypeInv, TypeOK, LedgerInv, Books, Lots, LedgerMatchesWallet,
     Ledger, Unsaved, Holding

(* The ledger has one entry for every lot in the wallet and no other, for  *)
(* any number of processes and in every interleaving, until one of the     *)
(* five damaging events has happened.                                      *)
THEOREM LedgerIsRight == Spec => []LedgerMatchesWallet
  BY BookInvAlways, BookInvMatches, PTL

-----------------------------------------------------------------------------
(* Strategy implements LotBook *)

Rungs == UNION {DOMAIN g : g \in Ladders}

LEMMA TradesAreOnTheBook ==
    ASSUME BookInv, NEW p \in Procs, BuyMined(p) \/ SellMined(p) \/ LegMined(p)
    PROVE  intact => intact' /\ (Book!Buy \/ Book!Sell)
<1> USE NoneIsNoProc DEF BookInv, TypeInv, TypeOK
<1>1. /\ pc[p] \in {"swap", "legs"} /\ pc'[p] \in {"record", "legRecord"}
      /\ lock = p /\ lock' = p /\ intact' = intact
  BY DEF BuyMined, SellMined, LegMined, Goto, history, OneTraderAtATime, Locked
<1>2. Ledger = snap[p] /\ Ledger' = snap'[p]
  BY <1>1 DEF Ledger, Holding
<1>3. CASE BuyMined(p)
  <2> DEFINE bought == [snap[p] EXCEPT !.filled = @ \cup {order[p].level},
                                       !.deployed = @ + OrderSize]
  <2>1. order[p].level \in DOMAIN snap[p].grid /\ order[p].level \notin snap[p].filled
    BY <1>3 DEF BuyMined, OrdersFit, OrderFits
  <2>2. order[p].level \in Rungs
    <3>1. snap[p].grid \in Ladders
      BY <2>1 DEF State, NoGrid
    <3> QED  BY <2>1, <3>1 DEF Rungs
  <2>3. bought.filled = snap[p].filled \cup {order[p].level}
    BY DEF State
  <2>4. snap'[p] = bought
    BY <1>3 DEF BuyMined
  <2> HIDE DEF bought
  <2>5. wbnb' = wbnb + 1 /\ spare' = spare
    BY <1>3, MinedMoves DEF BuyMined, Kinds
  <2> QED  BY <1>1, <1>2, <2>1, <2>2, <2>3, <2>4, <2>5 DEF Book!Buy, Rungs
<1>4. CASE SellMined(p)
  <2>1. PICK quote \in Proceeds :
           snap' = [snap EXCEPT ![p] = Sold(@, order[p].level, quote)]
    BY <1>4 DEF SellMined
  <2>2. order[p].level \in snap[p].filled
    BY <1>4 DEF SellMined, OrdersFit, OrderFits
  <2>3. snap'[p].filled = snap[p].filled \ {order[p].level}
    BY <2>1, GridAndLotsOfChanges
  <2>4. wbnb' = wbnb - 1 /\ spare' = spare
    BY <1>4, MinedMoves DEF SellMined, Kinds
  <2> QED  BY <1>1, <1>2, <2>2, <2>3, <2>4 DEF Book!Sell
<1>5. CASE LegMined(p)
  <2> DEFINE level == LeastOf(todo[p])
  <2>1. PICK quote \in Proceeds : snap' = [snap EXCEPT ![p] = Sold(@, level, quote)]
    BY <1>5 DEF LegMined
  <2>2. level \in snap[p].filled
    <3>1. level \in todo[p]
      BY <1>5, LeastIsThere DEF LegMined
    <3> QED  BY <1>5, <3>1 DEF LegMined, GridInv, Visiting
  <2>3. snap'[p].filled = snap[p].filled \ {level}
    BY <2>1, GridAndLotsOfChanges
  <2>4. wbnb' = wbnb - 1 /\ spare' = spare
    BY <1>5, MinedMoves DEF LegMined, Kinds
  <2> HIDE DEF level
  <2> QED  BY <1>1, <1>2, <2>2, <2>3, <2>4 DEF Book!Sell
<1> QED  BY <1>3, <1>4, <1>5

(* seed and late transactions move coins that no lot stands for. *)
LEMMA SpareCoinsAreBesideTheBook ==
    ASSUME BookInv,
           \/ \E p \in Procs : SeedWrap(p) \/ SeedSwap(p)
           \/ \E kind \in Kinds : LateMined(kind)
    PROVE  intact' => intact /\ Book!Beside
<1> USE NoneIsNoProc DEF BookInv, TypeInv, TypeOK
<1>1. ASSUME NEW p \in Procs, SeedWrap(p) \/ SeedSwap(p)
      PROVE  intact' => intact /\ Book!Beside
  <2>1. /\ pc[p] \in {"seedWrap", "seedSwap"} /\ file' = file
        /\ \/ lock' = p /\ pc'[p] = "seedSwap"
           \/ lock' = None
    BY <1>1 DEF SeedWrap, SeedSwap, Goto, Release, OneTraderAtATime, Locked
  <2>2. lock = p
    BY <2>1 DEF OneTraderAtATime, Locked
  <2>3. Ledger = file /\ Ledger' = file
    BY <2>1, <2>2 DEF Ledger, Holding
  <2>4. intact' => intact /\ \E d \in {-1, 1} : wbnb' = wbnb + d /\ spare' = spare + d
    <3>1. CASE SeedWrap(p)
      BY <3>1, MinedMoves DEF SeedWrap, Kinds, history
    <3>2. CASE SeedSwap(p)
      BY <3>2, MinedMoves DEF SeedSwap, Kinds
    <3> QED  BY <1>1, <3>1, <3>2
  <2> QED  BY <2>3, <2>4 DEF Book!Beside
<1>2. ASSUME NEW kind \in Kinds, LateMined(kind)
      PROVE  intact' => intact /\ Book!Beside
  <2>1. /\ intact' => intact /\ kind \notin {"buy", "sell"} /\ (kind = "seed" => ~SeedSellsALot)
        /\ UNCHANGED <<file, lock, pc, snap>>
    BY <1>2 DEF LateMined
  <2>2. Ledger' = Ledger
    BY <2>1 DEF Ledger
  <2>3. intact' => \E d \in {-1, 1} : wbnb' = wbnb + d /\ spare' = spare + d
    BY <1>2, <2>1, MinedMoves DEF LateMined, Kinds
  <2> QED  BY <2>1, <2>2, <2>3 DEF Book!Beside
<1> QED  BY <1>1, <1>2

(* No other action moves coins, so by the ledger's invariant in both       *)
(* states the book has as many lots after it as before.                    *)
LEMMA CoinsStayPut ==
    ASSUME TypeOK, NEW p \in Procs, Begin(p) \/ Advance(p) \/ Crash(p),
           ~(BuyMined(p) \/ SellMined(p) \/ LegMined(p) \/ SeedWrap(p) \/ SeedSwap(p))
    PROVE  wbnb' = wbnb /\ spare' = spare /\ (intact' => intact)
<1> USE DEF chain, history
<1>1. \A state, kept : Save(p, state, kept) => (intact' => intact)
  BY DEF Save
<1>2. CASE StepCheck(p) \/ StepPreview(p) \/ StepLock(p) \/ Withdraw(p) \/ SeedLock(p)
  BY <1>2 DEF StepCheck, StepPreview, StepLock, Withdraw, SeedLock
<1>9. CASE FlagLoad(p) \/ CancelLock(p) \/ ActivateCheck(p) \/ ReshapeLoad(p)
  BY <1>9 DEF FlagLoad, CancelLock, ActivateCheck, ReshapeLoad
<1>10. CASE ActivateLoad(p)
  BY <1>10 DEF ActivateLoad
<1>3. CASE SwapFails(p) \/ LegFails(p) \/ SeedFails(p)
  BY <1>3 DEF SwapFails, LegFails, SeedFails, TimesOut
<1>4. CASE StepRecord(p) \/ LegRecord(p) \/ CancelFinish(p) \/ ActivateSave(p)
  BY <1>1, <1>4 DEF StepRecord, LegRecord, CancelFinish, ActivateSave
<1>5. CASE FlagSave(p)
  BY <1>1, <1>5 DEF FlagSave
<1>6. CASE Reset(p)
  BY <1>1, <1>6 DEF Reset
<1>7. CASE ReshapeSave(p)
  <2>1. PICK state, kept : Save(p, state, kept)
    BY <1>7 DEF ReshapeSave
  <2> QED  BY <1>1, <1>7, <2>1 DEF ReshapeSave
<1>8. CASE Crash(p)
  BY <1>8 DEF Crash
<1> QED
  BY <1>2, <1>3, <1>4, <1>5, <1>6, <1>7, <1>8, <1>9, <1>10
     DEF Begin, Advance, Step, Cancel, Seed, Write

(* The book has a number of lots, and it is the right one. *)
LotsAreCounted == Cardinality(Ledger.filled) \in Nat /\ LedgerMatchesWallet

LEMMA BookIsCounted == BookInv => LotsAreCounted
<1> SUFFICES ASSUME BookInv  PROVE LotsAreCounted
  OBVIOUS
<1>1. IsFiniteSet(Ledger.filled)
  BY DEF BookInv, TypeInv, TypeOK, LedgerInv, LotsAreFinite, Ledger
<1> QED  BY <1>1, FS_CardinalityType, BookInvMatches DEF LotsAreCounted

LEMMA StepsAreOnTheBook ==
    BookInv /\ BookInv' /\ LotsAreCounted /\ LotsAreCounted' /\ [Next]_vars
        => [Book!Next]_(Book!book)
<1> SUFFICES ASSUME BookInv, BookInv', LotsAreCounted, LotsAreCounted', [Next]_vars
             PROVE  [Book!Next]_(Book!book)
  OBVIOUS
<1> USE DEF Book!Next
<1>1. CASE ~intact'
  BY <1>1 DEF Book!Break, BookInv, TypeInv, TypeOK
<1>2. CASE intact'
  <2>1. intact' = TRUE
    BY <1>2 DEF BookInv, TypeInv, TypeOK
  <2>2. ASSUME wbnb' = wbnb, spare' = spare, intact  PROVE Book!Next
    <3>1. Cardinality(Ledger'.filled) = Cardinality(Ledger.filled)
      <4> DEFINE before == Cardinality(Ledger.filled)
                 after  == Cardinality(Ledger'.filled)
      <4>1. wbnb = before + spare /\ wbnb' = after + spare'
        BY <1>2, <2>2 DEF LotsAreCounted, LedgerMatchesWallet
      <4>2. before \in Nat /\ after \in Nat
        BY DEF LotsAreCounted
      <4>3. spare \in Nat
        BY DEF BookInv, TypeInv, TypeOK
      <4> HIDE DEF before, after
      <4>4. before + spare = after + spare
        BY <2>2, <4>1
      <4>5. after = before
        BY <4>2, <4>3, <4>4
      <4> QED  BY <4>5 DEF before, after
    <3>2. Book!Relabel
      BY <2>2, <3>1 DEF Book!Relabel, Book!Cardinality, Cardinality
    <3> QED  BY <2>1, <2>2, <3>2
  <2>3. ASSUME NEW p \in Procs, Begin(p) \/ Advance(p) \/ Crash(p)  PROVE Book!Next
    <3>1. CASE BuyMined(p) \/ SellMined(p) \/ LegMined(p)
      <4>1. intact
        BY <1>2, <3>1 DEF BuyMined, SellMined, LegMined, history
      <4> QED  BY <2>1, <3>1, <4>1, TradesAreOnTheBook
    <3>2. CASE SeedWrap(p) \/ SeedSwap(p)
      BY <2>1, <3>2, SpareCoinsAreBesideTheBook
    <3>3. CASE ~(BuyMined(p) \/ SellMined(p) \/ LegMined(p) \/ SeedWrap(p) \/ SeedSwap(p))
      BY <1>2, <2>2, <2>3, <3>3, CoinsStayPut DEF BookInv, TypeInv
    <3> QED  BY <3>1, <3>2, <3>3
  <2>4. ASSUME NEW kind \in Kinds, LateMined(kind)  PROVE Book!Next
    BY <2>1, <2>4, SpareCoinsAreBesideTheBook
  <2>5. ASSUME NEW kind \in Kinds, LateDropped(kind)  PROVE Book!Next
    BY <1>2, <2>2, <2>5 DEF LateDropped, history
  <2>6. CASE UNCHANGED vars
    BY <2>6 DEF vars, chain, history, Book!book, Ledger
  <2> QED  BY <2>3, <2>4, <2>5, <2>6 DEF Next
<1> QED  BY <1>1, <1>2

(* The concurrent operations implement the atomic book: until `intact` is  *)
(* lost a rung is bought only when empty, a lot is sold once, and entry    *)
(* and coins move in one step, for any number of processes.                *)
THEOREM StrategyImplementsLotBook == Spec => ImplementsLotBook
<1>1. Init => Book!Init
  BY DEF Init, EmptyState, Ledger, Book!Init
<1> QED
  BY <1>1, BookInvAlways, BookIsCounted, StepsAreOnTheBook, PTL DEF Spec, ImplementsLotBook, Book!Spec
=============================================================================
