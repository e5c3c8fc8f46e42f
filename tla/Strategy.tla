------------------------------ MODULE Strategy ------------------------------
(***************************************************************************)
(* app/agent/strategy.py: the state file, the trade lock, and the          *)
(* operations that the monitor, the operator's REST calls and the CLI run  *)
(* on them at the same time, against one wallet.                           *)
(*                                                                         *)
(* Every operation loads the whole state, works on its copy and saves the  *)
(* whole state.  Only step, cancel_grid and seed take the lock.  A load    *)
(* and a save are atomic (save_state replaces the file by a rename); what  *)
(* happens between them, a price read or a swap that may take minutes, is  *)
(* where other operations interleave.                                      *)
(***************************************************************************)
EXTENDS Grid

CONSTANTS
    Procs,       \* the threads of control: the monitor, REST handlers, the CLI
    None,        \* no holder of the lock
    Prices,      \* the prices chain.get_price may return
    GridFor,     \* GridFor[p]: the ladder activate builds at price p
    Reshapes,    \* the ladders update_grid may be asked for
    OrderSize,   \* cfg["order_size_usdt"]
    MaxCapital,  \* cfg["max_capital_usdt"]
    Proceeds,    \* what the sale of a lot may be quoted at
    MaxWbnb,     \* bound: lots the wallet's quote balance can pay for
    MaxLate,     \* bound: transactions whose receipt was not awaited
    Ops          \* the operations and faults this instance allows

AllOps == {"step", "force", "cancel", "seed", "pause", "stop", "resume", "reset",
           "activate", "update", "timeout", "crash"}

ASSUME NoneIsNoProc == None \notin Procs
ASSUME PricesAreNat == Prices \subseteq Nat
ASSUME GridForIsALadder ==
    DOMAIN GridFor = Prices /\ \A p \in Prices : IsLadder(GridFor[p])
ASSUME ReshapesAreLadders == \A g \in Reshapes : IsLadder(g)
ASSUME MoneyIsInt ==
    /\ OrderSize \in Int /\ MaxCapital \in Int /\ Proceeds \subseteq Int
    /\ MaxWbnb \in Nat /\ MaxLate \in Nat
ASSUME OpsAreKnown == Ops \subseteq AllOps

VARIABLES
    file,    \* the state in .grid_state.<network>.json
    lock,    \* the process that holds the flock, or None
    pc,      \* where each process is
    snap,    \* the copy of the state each process is going to save
    order,   \* the decision a step is executing
    todo,    \* the lots cancel_grid has not visited yet
    failed,  \* whether some leg of cancel_grid failed
    wbnb,    \* the wallet's base tokens, counted in lots
    late,    \* broadcast transactions nobody waits for any more, by kind
    (* history variables: read by no guard of the program *)
    spare,   \* the part of wbnb that seed wrapped and no lot stands for
    stale,   \* whether the file was saved by another since snap was loaded
    quiet,   \* an emergency stop found every other process idle
    intact   \* nothing has happened yet that can part ledger and wallet

local   == <<order, todo, failed>>
chain   == <<wbnb, late, spare>>
history == <<stale, quiet, intact>>
vars    == <<file, lock, pc, snap, local, chain, history>>

-----------------------------------------------------------------------------
Ladders == {GridFor[p] : p \in Prices} \cup Reshapes

(* The trade log enters the decisions only through the cash it says is     *)
(* deployed: the quote amounts of the buys less those of the sells.        *)
State ==
    [status : {"active", "paused"}, emergency : BOOLEAN,
     grid : Ladders \cup {NoGrid}, center : Int,
     filled : SUBSET Nat, deployed : Int]

EmptyState ==
    [status |-> "paused", emergency |-> FALSE, grid |-> NoGrid, center |-> 0,
     filled |-> {}, deployed |-> 0]

Kinds == {"buy", "sell", "wrap", "seed"}

(* Where a process holds the lock; where it holds a copy it may save; and  *)
(* where a swap of its own is mined but not in the file yet.               *)
Locked   == {"swap", "record", "recordError", "legs", "legRecord", "seedWrap", "seedSwap"}
Holding  == {"swap", "record", "recordError", "legs", "legRecord",
             "pause", "stop", "resume", "activateSave", "reshape"}
Unsaved  == {"record", "legRecord"}
PCs      == {"idle", "preview", "lock", "activateRead"} \cup Locked \cup Holding

Init ==
    /\ file = EmptyState
    /\ lock = None
    /\ pc = [p \in Procs |-> "idle"]
    /\ snap = [p \in Procs |-> EmptyState]
    /\ order = [p \in Procs |-> Hold]
    /\ todo = [p \in Procs |-> {}]
    /\ failed = [p \in Procs |-> FALSE]
    /\ wbnb = 0
    /\ late = [k \in Kinds |-> 0]
    /\ spare = 0
    /\ stale = [p \in Procs |-> FALSE]
    /\ quiet = FALSE
    /\ intact = TRUE

-----------------------------------------------------------------------------
(* Building blocks *)

Starts(p, op) == pc[p] = "idle" /\ op \in Ops

Goto(p, label) == pc' = [pc EXCEPT ![p] = label]

(* load_state: p's working copy, here with the changes it makes at once. *)
Load(p, state) ==
    /\ snap' = [snap EXCEPT ![p] = state]
    /\ stale' = [stale EXCEPT ![p] = FALSE]

(* p's copy is older than the file. *)
Aged(p) == stale[p] /\ pc[p] \in Holding

(* save_state: the whole file becomes p's state; every other copy ages.    *)
(* A save from an aged copy is a lost update; `kept` says that the state   *)
(* itself accounts for every lot p knew of.                                *)
Save(p, state, kept) ==
    /\ file' = state
    /\ stale' = [q \in Procs |-> q # p /\ (stale[q] \/ pc[q] \in Holding)]
    /\ intact' = (intact /\ ~Aged(p) /\ kept)

(* Faulty variant: a lock that is held by another is taken all the same. *)
AcquireAnyway(p) == lock' = p
Acquire(p) == lock = None /\ lock' = p
Release(p) == lock' = IF lock = p THEN None ELSE lock

(* The operation returns or raises: its locals are gone. *)
Return(p) ==
    /\ Goto(p, "idle")
    /\ snap' = [snap EXCEPT ![p] = EmptyState]
    /\ order' = [order EXCEPT ![p] = Hold]
    /\ todo' = [todo EXCEPT ![p] = {}]
    /\ failed' = [failed EXCEPT ![p] = FALSE]

(* Faulty variant: a sale goes through on an empty wallet. *)
MinedOverdrawn(kind) ==
    /\ kind = "buy" => wbnb < MaxWbnb
    /\ wbnb' = IF kind \in {"buy", "wrap"} THEN wbnb + 1 ELSE wbnb - 1
    /\ spare' = CASE kind = "wrap" -> spare + 1
                  [] kind = "seed" /\ spare > 0 -> spare - 1
                  [] OTHER -> spare

(* What a transaction of each kind does to the wallet once it is mined. *)
Mined(kind) ==
    /\ kind = "buy" => wbnb < MaxWbnb
    /\ kind \in {"sell", "seed"} => wbnb > 0
    /\ wbnb' = IF kind \in {"buy", "wrap"} THEN wbnb + 1 ELSE wbnb - 1
    /\ spare' = CASE kind = "wrap" -> spare + 1
                  [] kind = "seed" /\ spare > 0 -> spare - 1
                  [] OTHER -> spare

(* seed sells whatever base tokens the wallet has: with no spare ones the  *)
(* tokens of a lot go.                                                     *)
SeedSellsALot == spare = 0

(* The receipt is not seen within the timeout: the transaction stays out.  *)
TimesOut(kind) ==
    /\ "timeout" \in Ops
    /\ late["buy"] + late["sell"] + late["wrap"] + late["seed"] < MaxLate
    /\ late' = [late EXCEPT ![kind] = @ + 1]
    /\ UNCHANGED <<wbnb, spare>>

-----------------------------------------------------------------------------
(* step: one decision, executed if it is a trade *)

(* Faulty variant: a forced step ignores the latch as well. *)
StepCheckForced(p) ==
    /\ \/ Starts(p, "step") /\ file.status = "active" /\ ~file.emergency
       \/ Starts(p, "force")
    /\ file.grid # NoGrid
    /\ Goto(p, "preview")
    /\ UNCHANGED <<file, lock, snap, local, chain, history>>

(* The early returns outside the lock.  `force` bypasses the paused check  *)
(* but not the emergency latch.                                            *)
StepCheck(p) ==
    /\ \/ Starts(p, "step") /\ file.status = "active"
       \/ Starts(p, "force")
    /\ ~file.emergency
    /\ file.grid # NoGrid
    /\ Goto(p, "preview")
    /\ UNCHANGED <<file, lock, snap, local, chain, history>>

(* check(): a decision on a fresh read, which only says whether to go on.  *)
StepPreview(p) ==
    /\ pc[p] = "preview"
    /\ \E price \in Prices :
           Decide(file.grid, price, file.filled, file.center).action # "hold"
    /\ Goto(p, "lock")
    /\ UNCHANGED <<file, lock, snap, local, chain, history>>

WithinCapital(state) == state.deployed + OrderSize <= MaxCapital

(* Lock, read again, decide again.  Neither the latch nor the status is    *)
(* looked at a second time.                                                *)
StepLock(p) ==
    /\ pc[p] = "lock"
    /\ Acquire(p)
    /\ \E price \in Prices :
           LET decision == Decide(file.grid, price, file.filled, file.center)
           IN  /\ decision.action # "hold"
               /\ decision.action = "buy" => WithinCapital(file)
               /\ order' = [order EXCEPT ![p] = decision]
    /\ Load(p, file)
    /\ Goto(p, "swap")
    /\ UNCHANGED <<file, todo, failed, chain, quiet, intact>>

(* The ways out before anything was done: the daily-loss breaker, a hold   *)
(* from either decision, the capital ceiling, a lock that is held, a price *)
(* read that fails, a ladder that is refused, a lot off the old ladder.    *)
Withdraw(p) ==
    /\ pc[p] \in {"preview", "lock", "activateRead", "reshape"}
    /\ Return(p)
    /\ UNCHANGED <<file, lock, chain, history>>

(* execute_swap returned: the copy takes the lot at the quoted amount.     *)
BuyMined(p) ==
    /\ pc[p] = "swap" /\ order[p].action = "buy"
    /\ Mined("buy")
    /\ snap' = [snap EXCEPT ![p].filled = @ \cup {order[p].level},
                            ![p].deployed = @ + OrderSize]
    /\ Goto(p, "record")
    /\ UNCHANGED <<file, lock, local, late, history>>

(* Faulty variant: the sale is logged and its lot stays on the ledger. *)
SoldButKept(state, level, quote) == [state EXCEPT !.deployed = @ - quote]

Sold(state, level, quote) ==
    [state EXCEPT !.filled = @ \ {level}, !.deployed = @ - quote]

SellMined(p) ==
    /\ pc[p] = "swap" /\ order[p].action = "sell"
    /\ Mined("sell")
    /\ \E quote \in Proceeds :
           snap' = [snap EXCEPT ![p] = Sold(@, order[p].level, quote)]
    /\ Goto(p, "record")
    /\ UNCHANGED <<file, lock, local, late, history>>

(* execute_swap raised.  Nothing was sent, or it reverted, or the receipt  *)
(* did not come in time and the transaction may still be mined.            *)
SwapFails(p) ==
    /\ pc[p] = "swap"
    /\ TimesOut(order[p].action) \/ UNCHANGED chain
    /\ Goto(p, "recordError")
    /\ UNCHANGED <<file, lock, snap, local, history>>

(* The one save of a step, after success and after failure alike. *)
StepRecord(p) ==
    /\ pc[p] \in {"record", "recordError"}
    /\ Save(p, snap[p], TRUE)
    /\ Release(p)
    /\ Return(p)
    /\ UNCHANGED <<chain, quiet>>

-----------------------------------------------------------------------------
(* cancel_grid: sell every lot, save after each, then clear the grid *)

CancelLock(p) ==
    /\ Starts(p, "cancel")
    /\ Acquire(p)
    /\ Load(p, file)
    /\ todo' = [todo EXCEPT ![p] = file.filled]
    /\ Goto(p, "legs")
    /\ UNCHANGED <<file, order, failed, chain, quiet, intact>>

LegMined(p) ==
    /\ pc[p] = "legs" /\ todo[p] # {}
    /\ Mined("sell")
    /\ \E quote \in Proceeds :
           snap' = [snap EXCEPT ![p] = Sold(@, LeastOf(todo[p]), quote)]
    /\ todo' = [todo EXCEPT ![p] = @ \ {LeastOf(@)}]
    /\ Goto(p, "legRecord")
    /\ UNCHANGED <<file, lock, order, failed, late, history>>

(* Faulty variant: a lot that could not be sold is tried again at once. *)
LegFailsAndStays(p) ==
    /\ pc[p] = "legs" /\ todo[p] # {}
    /\ TimesOut("sell") \/ UNCHANGED chain
    /\ failed' = [failed EXCEPT ![p] = TRUE]
    /\ UNCHANGED <<file, lock, pc, snap, order, todo, history>>

LegFails(p) ==
    /\ pc[p] = "legs" /\ todo[p] # {}
    /\ TimesOut("sell") \/ UNCHANGED chain
    /\ todo' = [todo EXCEPT ![p] = @ \ {LeastOf(@)}]
    /\ failed' = [failed EXCEPT ![p] = TRUE]
    /\ UNCHANGED <<file, lock, pc, snap, order, history>>

(* Faulty variant: no save after each sale. *)
LegGoesUnrecorded(p) ==
    /\ pc[p] = "legRecord"
    /\ Goto(p, "legs")
    /\ UNCHANGED <<file, lock, snap, local, chain, history>>

LegRecord(p) ==
    /\ pc[p] = "legRecord"
    /\ Save(p, snap[p], TRUE)
    /\ Goto(p, "legs")
    /\ UNCHANGED <<lock, snap, local, chain, quiet>>

(* Faulty variants: the grid is cleared with lots on it; the latch is      *)
(* cleared with the grid.                                                  *)
CancelledRegardless(p) ==
    [snap[p] EXCEPT !.status = "paused", !.grid = NoGrid, !.center = 0]
CancelledAsReset(p) ==
    IF failed[p]
    THEN [snap[p] EXCEPT !.status = "paused"]
    ELSE EmptyState

Cancelled(p) ==
    IF failed[p]
    THEN [snap[p] EXCEPT !.status = "paused"]
    ELSE [snap[p] EXCEPT !.status = "paused", !.grid = NoGrid, !.center = 0]

CancelFinish(p) ==
    /\ pc[p] = "legs" /\ todo[p] = {}
    /\ Save(p, Cancelled(p), TRUE)
    /\ Release(p)
    /\ Return(p)
    /\ UNCHANGED <<chain, quiet>>

-----------------------------------------------------------------------------
(* seed: turn one lot's worth of native coins into quote currency *)

SeedLock(p) ==
    /\ Starts(p, "seed")
    /\ Acquire(p)
    /\ Goto(p, IF wbnb < 1 THEN "seedWrap" ELSE "seedSwap")
    /\ UNCHANGED <<file, snap, local, chain, history>>

SeedWrap(p) ==
    /\ pc[p] = "seedWrap"
    /\ Mined("wrap")
    /\ Goto(p, "seedSwap")
    /\ UNCHANGED <<file, lock, snap, local, late, history>>

SeedSwap(p) ==
    /\ pc[p] = "seedSwap"
    /\ Mined("seed")
    /\ intact' = (intact /\ ~SeedSellsALot)
    /\ Release(p)
    /\ Return(p)
    /\ UNCHANGED <<file, late, stale, quiet>>

SeedFails(p) ==
    /\ pc[p] \in {"seedWrap", "seedSwap"}
    /\ \/ TimesOut(IF pc[p] = "seedWrap" THEN "wrap" ELSE "seed")
       \/ UNCHANGED chain
    /\ Release(p)
    /\ Return(p)
    /\ UNCHANGED <<file, history>>

-----------------------------------------------------------------------------
(* The operator actions that take no lock *)

(* _update: pause, emergency_stop and resume load, set flags, save. *)
Flagged(state, op) ==
    CASE op = "pause"  -> [state EXCEPT !.status = "paused"]
      [] op = "stop"   -> [state EXCEPT !.status = "paused", !.emergency = TRUE]
      [] op = "resume" -> [state EXCEPT !.emergency = FALSE]

FlagLoad(p) ==
    \E op \in {"pause", "stop", "resume"} :
        /\ Starts(p, op)
        /\ Load(p, Flagged(file, op))
        /\ Goto(p, op)
        /\ UNCHANGED <<file, lock, local, chain, quiet, intact>>

FlagSave(p) ==
    /\ pc[p] \in {"pause", "stop", "resume"}
    /\ Save(p, snap[p], TRUE)
    /\ quiet' = CASE pc[p] = "resume" -> FALSE
                  [] pc[p] = "stop"   -> quiet \/ \A q \in Procs \ {p} : pc[q] = "idle"
                  [] OTHER            -> quiet
    /\ Return(p)
    /\ UNCHANGED <<lock, chain>>

(* reset: forgets everything, the latch included, and sells nothing. *)
Reset(p) ==
    /\ Starts(p, "reset")
    /\ Save(p, EmptyState, file.filled = {})
    /\ quiet' = FALSE
    /\ UNCHANGED <<lock, pc, snap, local, chain>>

(* activate: the latch is checked on a first load, the ladder is built     *)
(* around a price read after it, and laid over a second load.              *)
ActivateCheck(p) ==
    /\ Starts(p, "activate")
    /\ ~file.emergency
    /\ Goto(p, "activateRead")
    /\ UNCHANGED <<file, lock, snap, local, chain, history>>

ActivateLoad(p) ==
    /\ pc[p] = "activateRead"
    /\ \E price \in Prices :
           Load(p, [file EXCEPT !.status = "active", !.grid = GridFor[price],
                                !.center = LevelForPrice(GridFor[price], price)])
    /\ Goto(p, "activateSave")
    /\ UNCHANGED <<file, lock, local, chain, quiet, intact>>

ActivateSave(p) ==
    /\ pc[p] = "activateSave"
    /\ Save(p, snap[p], TRUE)
    /\ Return(p)
    /\ UNCHANGED <<lock, chain, quiet>>

(* update_grid: one load before the price read, the save after it. *)
ReshapeLoad(p) ==
    /\ Starts(p, "update")
    /\ file.grid # NoGrid
    /\ Load(p, file)
    /\ Goto(p, "reshape")
    /\ UNCHANGED <<file, lock, local, chain, quiet, intact>>

Reshaped(state, new, price, m) ==
    [state EXCEPT !.grid = new, !.center = LevelForPrice(new, price),
                  !.filled = {m[i] : i \in state.filled}]

(* Two lots that end on the top rung become one entry of the dict. *)
SameLots(state, new) == Cardinality(new.filled) = Cardinality(state.filled)

ReshapeSave(p) ==
    /\ pc[p] = "reshape"
    /\ snap[p].filled \subseteq DOMAIN snap[p].grid
    /\ \E new \in Reshapes, price \in Prices :
           \E m \in [snap[p].filled -> DOMAIN new] :
              LET state == Reshaped(snap[p], new, price, m)
              IN  /\ IsPlacement(snap[p].grid, new, snap[p].filled, m)
                  /\ Save(p, state, SameLots(snap[p], state))
    /\ Return(p)
    /\ UNCHANGED <<lock, chain, quiet>>

-----------------------------------------------------------------------------
(* Faults *)

(* A transaction nobody waits for is mined after all, or never will be.    *)
LateMined(kind) ==
    /\ late[kind] > 0
    /\ Mined(kind)
    /\ late' = [late EXCEPT ![kind] = @ - 1]
    /\ intact' = (intact /\ kind \notin {"buy", "sell"}
                        /\ (kind = "seed" => ~SeedSellsALot))
    /\ UNCHANGED <<file, lock, pc, snap, local, stale, quiet>>

LateDropped(kind) ==
    /\ late[kind] > 0
    /\ late' = [late EXCEPT ![kind] = @ - 1]
    /\ UNCHANGED <<file, lock, pc, snap, local, wbnb, spare, history>>

(* The process dies.  The kernel drops its flock, its copy is gone. *)
Crash(p) ==
    /\ "crash" \in Ops /\ pc[p] # "idle"
    /\ Release(p)
    /\ Return(p)
    /\ intact' = (intact /\ pc[p] \notin Unsaved)
    /\ UNCHANGED <<file, chain, stale, quiet>>

-----------------------------------------------------------------------------
Step(p)   == StepPreview(p) \/ StepLock(p) \/ Withdraw(p) \/ BuyMined(p)
                \/ SellMined(p) \/ SwapFails(p) \/ StepRecord(p)
Cancel(p) == LegMined(p) \/ LegFails(p) \/ LegRecord(p) \/ CancelFinish(p)
Seed(p)   == SeedWrap(p) \/ SeedSwap(p) \/ SeedFails(p)
Write(p)  == FlagSave(p) \/ ActivateLoad(p) \/ ActivateSave(p) \/ ReshapeSave(p)

(* An operation that has begun goes on; a new one is begun.                *)
Advance(p) == Step(p) \/ Cancel(p) \/ Seed(p) \/ Write(p)
Begin(p)   == StepCheck(p) \/ CancelLock(p) \/ SeedLock(p) \/ FlagLoad(p)
                \/ Reset(p) \/ ActivateCheck(p) \/ ReshapeLoad(p)

Next ==
    \/ \E p \in Procs : Begin(p) \/ Advance(p) \/ Crash(p)
    \/ \E kind \in Kinds : LateMined(kind) \/ LateDropped(kind)

Spec == Init /\ [][Next]_vars

(* Every remote call an operation makes is bounded: reads are retried a    *)
(* fixed number of times, a receipt is awaited for 180 seconds.            *)
FairSpec == Spec /\ \A p \in Procs : WF_vars(Advance(p))

-----------------------------------------------------------------------------
TypeOK ==
    /\ file \in State
    /\ lock \in Procs \cup {None}
    /\ pc \in [Procs -> PCs]
    /\ snap \in [Procs -> State]
    /\ order \in [Procs -> [action : {"hold", "buy", "sell"}, level : Int]]
    /\ todo \in [Procs -> SUBSET Nat]
    /\ failed \in [Procs -> BOOLEAN]
    /\ wbnb \in Nat
    /\ late \in [Kinds -> Nat]
    /\ spare \in Nat
    /\ stale \in [Procs -> BOOLEAN]
    /\ quiet \in BOOLEAN
    /\ intact \in BOOLEAN

(* _trade_lock: "two processes never trade the same grid at once".  From   *)
(* the read of the ledger to the save of the trade there is one process,   *)
(* through crashes, failed swaps and operations that raise.                *)
OneTraderAtATime ==
    \A p \in Procs : pc[p] \in Locked <=> lock = p

(* The ledger that counts: the holder's copy during a trade, else the file.*)
Ledger == IF lock # None /\ pc[lock] \in Holding THEN snap[lock] ELSE file

(* step and cancel_grid: the ledger has one entry for every lot in the     *)
(* wallet and no other, in every interleaving, until one of five things    *)
(* has happened: a save over someone else's save, a swap that was mined    *)
(* but not recorded, two lots merged by update_grid, a reset or a seed     *)
(* while lots are open.                                                    *)
LedgerMatchesWallet ==
    intact => wbnb = Cardinality(Ledger.filled) + spare

(* step, cancel_grid, seed against the abstract book: until `intact` is    *)
(* lost a rung is bought only when empty, a lot is sold once, and the      *)
(* entry on the ledger and the coins in the wallet change in one step.     *)
Book == INSTANCE LotBook WITH
            Rungs <- UNION {DOMAIN g : g \in Ladders},
            lots <- Ledger.filled, coins <- wbnb, ok <- intact
ImplementsLotBook == Book!Spec

(* emergency_stop: one that finds the other processes idle is absolute.    *)
(* Until resume or reset the latch stays on file and no step, forced or    *)
(* not, gets as far as the lock, whatever pause, activate, update and      *)
(* cancel do meanwhile and whatever crashes.                               *)
QuietStopIsAbsolute ==
    quiet => /\ file.emergency
             /\ \A p \in Procs :
                   pc[p] \notin {"preview", "lock", "swap", "record", "recordError"}

(* cancel_grid, activate, reset: a grid is only cleared when it holds no   *)
(* lot, so no lot is ever left on file without a ladder to sell it on.     *)
NoLotWithoutGrid ==
    file.grid = NoGrid => file.filled = {}

(* Nothing waits for ever: every operation returns.                        *)
EveryOperationReturns ==
    \A p \in Procs : pc[p] # "idle" ~> pc[p] = "idle"

(* emergency_stop: "Halt trading".  Once the latch stays on file, the      *)
(* steps in flight finish and no other begins to trade, forced or not.     *)
StopSilencesTrading ==
    <>[]file.emergency
        => <>[](\A p \in Procs : pc[p] \notin {"swap", "record", "recordError"})

-----------------------------------------------------------------------------
(* What the documentation says of the emergency stop *)

(* emergency_stop: "`resume` is the only release". *)
OnlyResumeReleases ==
    [][file.emergency /\ ~file'.emergency => \E p \in Procs : pc[p] = "resume"]_vars
=============================================================================
