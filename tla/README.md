# bnbGridTrader in TLA+

A verification project for the grid trader: what can be lost, bought twice, sold
below cost or left running when its operations, its crashes and its unanswered
transactions interleave.

## The system

Two processes are started from one image and share one volume and one wallet:

* the **agent** (`app/agent/main.py`) answers buyers over A2A, holds the key and may
  run the grid monitor;
* the **service** (`app/service/main.py`) offers the REST operations, may run the grid
  monitor too, and sweeps the chain for funded jobs.

Both import `app/agent/strategy.py`, and an operator may run the same operations from
the command line. They meet in a JSON file (`.grid_state.<network>.json`), in an
`flock` beside it, and in the wallet.

| component | source | state it keeps | operations |
|---|---|---|---|
| grid arithmetic | `grid.py` | none | `build_grid`, `validate_grid`, `level_for_price`, `decide`, `pending_orders`, `realised_pnl`, `round_trips`, `plan_for` |
| strategy | `strategy.py` | the state file: status, latch, ladder, centre, filled lots, trade log | `activate`, `pause`, `reset`, `emergency_stop`, `resume`, `cancel_grid`, `update_grid`, `seed`, `check`, `step`, reports |
| monitor | `strategy.py` | a thread and a stop event, per process | `_loop`, `start_monitor`, `stop_monitor` |
| write path | `grid_signing.py` | none; on chain: balances, allowances, nonce | `wrap_bnb`, `unwrap_bnb`, `approve_exact`, `execute_swap`, guards |
| chain reads | `chain.py` | caches of config and decimals | `get_price`, `get_balances`, `quote_swap`, config checks |
| seller core | `seller_core.py`, `executor.py` | set of jobs in flight, set of tasks | `negotiate`, `notify_funded`, `_run_job`, `_sweep` |
| signing | `signing.py` | none; on chain: the job | `sign_quote`, `verify_signed_job`, `submit_result`, `settle` |
| service sweep | `service/sweep.py` | last notification and permanent rejections, per process | `sweep_once`, `start` |
| REST | `service/main.py` | none | one handler per strategy operation |
| A2A server, LLM, cards, tools | `main.py`, `managed_model.py`, `agent_card.py`, `tools.py` | none | request plumbing |
| deployment, client scripts | `agentcore/`, `deploy/`, `tools/` | none | |

How they interact: the monitor calls `step` at a fixed interval while the status is
active; `step` reads the file, reads a price, decides, takes the lock, reads file and
price again, decides again, swaps, saves the whole state and lets go of the lock.
`cancel_grid` and `seed` take the lock as well; `pause`, `emergency_stop`, `resume`,
`reset`, `activate` and `update_grid` do not. The lock is non-blocking: an operation
that finds it held raises. Every operation saves the WHOLE state it loaded.

What is hard here: a state read before a swap that takes minutes is saved after it;
the latch is looked at before the lock only; a crash between a mined swap and its save;
a receipt that is not seen within 180 seconds although the transaction is mined later; a
cancellation of which some sales fail; ladders that move under open lots; two processes
that poll at once. The hazards are listed, each at its line, in `PROJECT.json`.

What makes each component correct:

* *grid arithmetic*: a sale is of a held lot at its target, a buy of an empty rung the
  price stands on; what is announced is what is done; a lot earns its step; no rung is
  traded for ever at one price.
* *strategy*: one trader at a time; the ledger has an entry for every lot in the wallet
  and no other; no lot without a ladder; a stop stops, and only its release restarts;
  every operation returns and lets go of the lock.
* *monitor*: while it is started exactly one loop per process polls, and it survives
  errors.
* *state file*: a save that meets no other is atomic, through crashes and full disks.
* *write path*: nothing is sent after a failed guard; an allowance is exact and pays for
  one swap; a retry takes no other transaction's place; what a call moves it moves once;
  what the ledger believes is in the wallet, but for the tolerated slippage.
* *seller, sweep*: a funded job is delivered once, never given up on while it can be
  delivered, never notified again after a permanent refusal.

## The modules

| module | what it is |
|---|---|
| `Grid` | `level_for_price`, `decide`, `pending_orders` and the re-indexing loop of `update_grid`, as operators on ladders, prices and sets of rungs |
| `GridTrader` | one trader alone on one grid while the market moves and an operator re-activates |
| `Strategy` | every state-changing operation of `strategy.py` by several processes at once, over the state file, the lock and the wallet |
| `LotBook` | the abstract promise of `Strategy`: an atomic book in which a lot's entry and its coins come and go together |
| `StateFile` | `load_state` and `save_state` as open, write and rename, by threads that share one `.tmp` name |
| `StateRegister` | the abstract promise of `StateFile`: a register whose saves are atomic as long as they do not overlap |
| `SwapPath` | `execute_swap`, `wrap_bnb`, `approve_exact` and `_send`, transaction by transaction, on a chain with a second sender of the same wallet |
| `SwapPromise` | the abstract promise of `SwapPath`, which is what `Strategy` assumes of a swap |
| `Seller` | the agent's paid jobs: `notify_funded`, the background deliveries and sweeps, the set `_inflight`, and the chain they work on |
| `Watch` | the service's `sweep_once`, by its loop and by `GET /sweep`, composed with `Seller` |
| `Money` | the trade log with its amounts: the figures made from it, the guards that read it, and its relabelling by `update_grid` |
| `SumProofs` | lemmas: induction over finite sets, and the sums that `SwapPath` and `Money` are made of |
| `GridProofs`, `GridTraderProofs`, `StrategyProofs`, `StateFileProofs`, `SwapPathProofs`, `MoneyProofs`, `SellerProofs` (with `Watch`) | the theorems and their proofs |
| `MCGridTrader`, `MCStrategy`, `MCStateFile`, `MCSwapPath`, `MCMoney`, `MCWatch` | the constants of the TLC runs |

### Grid

A ladder is a function from `0..n-1` to prices; prices are integers because `decide`
only compares them. `IsLadder` is what `build_grid` guarantees: two rungs at least,
positive, strictly increasing. `filled` is the set of rungs with a positive amount, as
`_filled_map` returns it. `IsPlacement` states `update_grid`'s loop as a relation
between the old and the new rung of every lot, visited in the order of the JSON
object's keys (`save_state` sorts them as strings).

### GridTrader

`Buy` and `Sell` are a poll of the monitor that decides and fills at one price;
`Activate` re-anchors the ladder and keeps the lots by index, as `activate` does; a
configuration (`Configs`) maps the price read to the ladder built. `paid` remembers the
decision price of each lot's buy, `carried` (a history variable) which lots were bought
on an earlier ladder.

### Strategy

`file` is the state file, `lock` the holder of the flock, `pc[p]` the place of process
`p` inside its operation, `snap[p]` the copy of the state it is going to save. An action
is what happens between two points at which another process can be seen: a load, a
save, a price read, a swap. Correspondence:

| code | actions |
|---|---|
| `step` | `StepCheck` (403-412), `StepPreview` (`check`, 424), `StepLock` (428-448), `BuyMined`/`SellMined`/`SwapFails` (449-475), `StepRecord` (476-483), `Withdraw` (every early return or error before the swap) |
| `cancel_grid` | `CancelLock`, `LegMined`/`LegFails`, `LegRecord` (the save after each sale), `CancelFinish` |
| `seed` | `SeedLock`, `SeedWrap`, `SeedSwap`, `SeedFails` |
| `pause`, `emergency_stop`, `resume` | `FlagLoad`, `FlagSave` (`_update`) |
| `reset` | `Reset` |
| `activate` | `ActivateCheck` (first load), `ActivateLoad` (price and second load), `ActivateSave` |
| `update_grid` | `ReshapeLoad`, `ReshapeSave` |
| the network | `LateMined`, `LateDropped`: a transaction whose receipt was given up on |
| a killed process | `Crash`: the kernel drops the flock, the copy is lost |

The wallet's base tokens are counted in lots (`wbnb`): every buy is of one order size.
`spare`, `stale`, `quiet` and `intact` are history variables that no guard of the
program reads: the tokens `seed` wrapped, whether a copy is older than the file, whether
an emergency stop found all others idle, and whether one of the five damaging events has
happened yet (a save from an old copy, a swap mined and not recorded, two lots merged by
`update_grid`, a reset with open lots, a seed that sold a lot).

### StateFile

`file` and `tmp` are the inodes that the two names stand for, `data` what each inode
holds: the text of one document from the start, how much there is, and whether it is that
text and nothing else. A document's length (`Size`) is all that matters of its text: a
shorter one written over a longer one leaves its tail. `want[p]` is the document a thread
is saving. `alone`, `saved` and `clean` are history variables: whether a save has met
another one since it began, and the last save that took effect.

| code | actions |
|---|---|
| `load_state` | `Loads` (`Parsed`: no file, and a file that does not parse, is `_EMPTY`) |
| `save_state`, line 100 | `SaveOpens` (`write_text` opens the `.tmp` name and cuts the file off), `SaveWrites` |
| `save_state`, line 101 | `SaveRenames`, `SaveFindsNothing` (`FileNotFoundError`) |
| a full disk, a killed process | `SaveBreaks`, in the middle of the write or between two steps |

The file system is external, as far as `open`, `write` and `rename` are concerned.
`Strategy` loads and saves in one step each; `ImplementsRegister` is what allows it.

### SwapPath

One caller at a time, since `step`, `cancel_grid` and `seed` hold the flock. `pc` is the
place inside the call, `stage` which of its transactions it is at: an approval of zero,
the approval, the swap, or a wrap.

| code | actions |
|---|---|
| `execute_buy`, `execute_sell`, `wrap_bnb` | `Buys`, `Sells`, `Wraps` |
| `execute_swap` 306-308 (`quote_swap`, `_min_out`) | `Quotes` |
| `approve_exact` | `ReadsAllowance`, then `NextStage` after each approval |
| `_send`, guards | `Checks` |
| `_send`, nonce and simulation and broadcast | `ReadsNonce`, `Sends` |
| `_send`, receipt | `HasSucceeded`, in `NextStage` and `Returns` |
| every guard, read, simulation, revert or timeout that raises, and the death of the process | `Fails` |
| the caller's ledger (`strategy.py` 450-466) | in `Returns` |
| blocks, the mempool, the pool's price | `ApprovalMined`, `SwapMined`, `WrapMined`, `Reverted`, `Dropped`, `SpotMoves` |
| the seller's `submit` | `ForeignSends`, `ForeignMined` |

A transaction stays in `pool` after its call has given up on it. `moved`, `approvals`,
`bought`, `shortfall`, `unguarded` and `foreign` are history variables.

### Money

Amounts as integers; every operation is one step, except that a step of the strategy looks
at the breaker before it takes the lock (`StepStarts`; `ready` counts the steps past it),
and anything may happen in between. What interleaving does to the file is the business of
`Strategy`. `trades` is the log, `lots` the ledger with
each lot's base amount. Two history variables keep what the log should tell: `closed`,
the true profit and the day of every lot sold, at the position that its sale has in the
log, and `lots[i].cost`. `forgotten` is the true profit of the day's sales that a reset
has taken off the log, so that the day's loss is known to the properties when the code no
longer knows it. `tangled` is a history variable too, see the runs.

| code | definitions |
|---|---|
| `round_trips`, `realised_pnl`, `daily_loss` | `RoundTrips`, `Realised`, `DailyLoss`, from one pairing of sells with buys (`PairOf`) that the code writes out twice |
| `get_performance` | `Realised` and `Unrealised`, multiplied by the base bought, since their average price is a quotient |
| `step` | `StepStarts` with the breaker (`Tripped`), then under the lock `StepBuys` with the ceiling (`WithinCeiling`) or `StepSells`, or `StepWithdraws` |
| `cancel_grid` | `Cancel`: any of the legs may fail |
| `activate`, `reset` | `Activate` (with the sweep test of `check_config_consistency`), `Reset` |
| `update_grid` | `UpdateGrid`: `Grid!IsPlacement` moves the lots, `Relabelled` their buys, one lot after another in the order of their keys (`LastVisited`) |

### Seller and Watch

The agent is one event loop: coroutines interleave at awaits, and what they read in a
thread may be old when they go on. `call[c]` is a `notify_funded` being handled,
`scan[s]` a background `_sweep`, `run[r]` a `_run_job` task or, with `awaited` false, a
submit that its task gave up on. `job` is the truth on chain, `node` what the agent's
node shows of it, `pool` the submits that were broadcast and that nobody waits for.

| code | actions |
|---|---|
| `notify_funded` | `Notify`, `NotifyBare` (no job id), `PreVerify`/`PreVerifyFails` (the read in a thread), `Accept` (what follows the await), `Reply` |
| `_spawn_job` | `Spawn`: for all jobs of a list at once, since there is no await between them |
| `_run_job`, `_fulfill_job`, `_do_work_and_submit` | `Verify`, `Work`, `Submit`, `SubmitMined`, `RunFails`, `RunTimesOut` |
| `_sweep` | `ScanReads`/`ScanFails`, `ScanSpawns` |
| `verify_signed_job` | `Verdicts` |
| `sweep_once` | `SweepScans`, `Passes` (the `continue`s), `Pushes`, `Acked`, `PushFails`, `SweepEnds` |
| restarts | `Restart` (agent), `ServiceRestarts` |

The commerce contract, the SDK and the buyers are external: `Lands`, `BuyerActs`,
`CatchesUp` and `PoolDrains` say of them what `seller_core.py` and `signing.py` rely on.
`Watch` has no clock: a job is in `recent` for `RENOTIFY_AFTER_SECONDS`, whose end is an
action, and in `beyond` when too little time is left, its budget is below the list price
or `SCAN_DEPTH` newer jobs exist. `delivered` and `skipped` are history variables: the
jobs settled in this life of the process.

Definitions called "faulty variant" are not part of the model: each is a plausible bug in
the definition that follows it, with which the property named in `PROJECT.json` is
violated. They show that the properties can tell the code from its near misses.

## The runs

| run | configuration | shows |
|---|---|---|
| trader | `GridTrader.cfg` | announced orders mirror `decide`; lots bought on the ladder in force are sold above cost; at one price the trades run out, and a quiet market ends the trading; a lot whose target stays reached is sold |
| ledger | `StrategyLedger.cfg` | mutual exclusion, ledger equals wallet until damaged, refinement of `LotBook` |
| progress | `StrategyProgress.cfg` | a stop that found the system idle is absolute; no lot without a grid; every operation returns; a stop that stays on file silences the trading; through lost updates and crashes |
| latch | `StrategyLatch.cfg` | finding: a step or an activate in flight saves over the emergency latch |
| statefile | `StateFile.cfg` | a save that meets no other is atomic; refinement of `StateRegister` |
| torn | `StateFileTorn.cfg` | finding: two saves that overlap leave a torn state file |
| swap | `SwapPath.cfg` | the ledger is covered by the wallet; one approval, one buy; no nonce taken twice; the gas reserve is kept; refinement of `SwapPromise` |
| money | `Money.cfg` | profits, daily loss and performance are the true ones while the labels can follow `update_grid`; what ceiling and breaker do bound; a sweep is funded on ladders like the probe |
| money_relabel | `MoneyRelabel.cfg` | finding: `update_grid` makes the log pair a sale with another lot's buy |
| money_late_buy | `MoneyLateBuy.cfg` | finding: a step that had passed the breaker buys after the day is lost |
| watch | `Watch.cfg` | a good funded job within reach does not stay funded for ever; one delivery per job; no slot of `_inflight` leaks; no job is given up on for good that could still be delivered |
| watch_refusal | `WatchRefusal.cfg` | finding: a node behind the chain has a good job refused for good |

Bounds, and why they are enough:

* *trader*: ladders of four rungs with gaps of one and of two price units and eight
  prices: below the floor, on a rung, between two rungs, above the ceiling. One
  configuration is fixed (`lower_price`/`upper_price`), one follows the price
  (`range_pct`) with overlapping ladders. `decide` compares a price with adjacent rungs
  only, so longer ladders repeat these cases.
* *strategy runs*: two processes, since every race in the code is between one
  process's load and save and one other save; two rungs, so that a lot can be bought
  while another is held and two can merge; `MaxWbnb` (2) lots of quote balance,
  `MaxLate` (1) transaction outside, one sale quote. Of the two ladders `update_grid` may
  build one merges two lots on its top rung and one nudges the second lot up.
* *ledger* runs every operation but `emergency_stop` (and `resume`), which touch only the
  latch, and stops following a behaviour when `intact` is lost: what can happen after
  the ledger is wrong is unbounded and promises nothing. *progress* keeps the forced step,
  `cancel_grid`, `activate`, `emergency_stop` and crashes: the operations with loops and
  several steps, and those that read or could undo the latch.
* *statefile*: two threads, three documents of three lengths, one of them the empty one,
  so that a write can be shorter or longer than what it meets; four inodes, one more than
  two names and two open files that were renamed away can hold at once.
* *swap*: two rungs, one of which holds a lot already, so that a retry may meet the buy or
  the sale it repeats; two prices, whose distance is more than the slippage one way and
  such that amounts do not divide evenly; four nonces (`MaxNonce`), which is a whole
  swap with both approvals and one more transaction; one transaction of the other sender
  (`MaxForeign`); native coins for four transactions above the reserve.
* *money*: three rungs and two ladders, so that `update_grid` moves lots up and down and
  lets two meet; order sizes of which two fill the ceiling (`MaxCapital`) and three
  exceed it; two steps past the breaker at once (`Traders`), of which one may make the
  loss that the other does not see; four trades (`MaxTrades`), enough for a pair that is
  closed before and one after an update; two days, so that a lot may be bought on one
  and sold on the other. A behaviour is followed until the log has no room
  for the steps in flight, or until it is `tangled`. An update is *followed* by the labels
  when no two lots meet and every lot that moves goes to a rung that holds none and where
  nothing was traded since the lot was bought; the first that is not sets `tangled`. So the
  passing run says exactly when `update_grid` is safe for the published figures, and
  *money_relabel* that otherwise it is not. The second day is followed if the first one left
  trades on the log (else it is the first day over again), for one trade less; a reset that
  forgets a profit of the day between -8 and 8, for two trades. Both have one step in flight
  at a time, since what they change for the breaker is to be seen at the next step.
* *money_late_buy*: the same ladders, with a limit that the sale of one lot reaches.
* *watch*: one job, since what jobs share is only the set `_inflight`, in which they do not
  meet: `DeliveriesAreSingle`, `NoSlotLeaks` and `SkipsAreHopeless` are proved for any
  number, good and bad ones. The loop, one request and the buyer call the agent one at a
  time; with the background sweep that makes the two deliveries at once that a race for
  one job takes, one of them abandoned. One fault (`MaxFaults`): a failure, a timeout or
  a restart of either side. The job exists when the agent starts (`Early` is empty): with
  one that does not, the finding of *watch_refusal* breaks the liveness too.
* Symmetry of processes and threads is used in *ledger* and *statefile*, which have no
  liveness property.

Fairness: in `GridTrader`, weak fairness of a poll: `_loop` polls at a fixed interval and
survives every exception. In `Strategy`, weak fairness of going on with an operation
that has begun (`Advance(p)`): reads are retried a fixed number of times (`_retry_rpc`), a
receipt is awaited for 180 seconds, and failure is always an enabled alternative, so
nothing assumes that a transaction succeeds. Beginning an operation, the market, crashes
and late transactions have no fairness. In `Watch`, weak fairness of every task the agent
has begun and of every sweep under way, of the loop's next sweep (`_loop` survives every
exception), of the passing of `RENOTIFY_AFTER_SECONDS` and of the agent's node catching up
with the chain. Faults, buyers and the mempool have none; that faults are finitely many
is `MaxFaults`.

## The proofs

All theorems hold for every value of the constants that meets the named assumptions:
ladders are what `build_grid` returns, prices and amounts are integers, `None` is no
process.

* `SumProofs`: the library's induction theorems take the statement to be proved as an
  operator, which the provers cannot instantiate. Here it is a SET instead: a set that
  holds 0 and every successor of a member holds every natural number
  (`NatSetInduction`, from the well-foundedness of `<`), and a set of subsets of a
  finite set that is closed under adding one element holds that set
  (`FiniteSetInduction`). With it the folds of the community modules can be unfolded:
  that the function over all subsets by which `MapThenFoldSet` is defined exists and
  meets its equation (`TableSumsUp`), that a sum does not depend on the order in which
  the elements are picked (`SumWithout`), and what a sum is of a union, of a renamed or
  of a changed function, or bounded by.

* `GridProofs!DecisionIsSound`: a sale is of a held lot whose target is reached, a buy of
  an empty rung that the price stands on and has not passed. It rests on
  `LevelStandsUnderPrice` (what `level_for_price` returns) and on the existence of least
  elements of non-empty sets of naturals, by well-foundedness.
* `GridProofs!UpdatesKeepTargetsAbovePrice`, `LotsMeetOnTheTopRung`: what the docstring of
  `update_grid` and the comment in its loop promise, of any two ladders: a lot placed by
  the nudging loop is sold above the price of its old rung, and two lots meet on the top
  rung only. The search begins right under the old price and only goes up
  (`SearchBegins`, `NudgedUpwards`); the second needs of the visiting order that it has
  no ties (`KeysAreOrdered`), whatever it has to do with the order of the rungs.
* `GridTraderProofs!TraderTypeCorrect` and `RoundTripsEarn`: the inductive invariant says
  that a lot bought on the present ladder was bought below the rung it is to be sold at
  (`PaidBelowTarget`); a sale happens at or above that rung.
* `GridTraderProofs!TradingRunsOut`, an action property: a lot bought where the price
  stands has its target above the price, and a lot sold has its own rung below the one the
  price stands on; so neither trade makes another one due. It is the part of
  `QuietMarketEndsTrading` that needs no fairness.
* `StrategyProofs!StrategyTypeCorrect`: the types are not inductive alone, because a step
  adds the rung of its decision to its copy after a swap; the invariant adds that the
  decision a step carries into the swap fits its own copy (`OrdersFit`).
* `StrategyProofs!MutualExclusion`: being at a locked label is the same as holding the
  lock; inductive as it stands.
* `StrategyProofs!QuietStopHolds`: besides the latch on file, every copy that may still
  be saved carries the latch, except that of `resume`, and no `activate` has passed its
  check (`LatchHeld`, `StopCopiesLatch`).

* `StrategyProofs!LotsKeepTheirGrid`: a file with lots has a ladder. Not inductive alone:
  the invariant (`Anchored`, `Visiting`) says the same of every copy that may still be
  saved, and that the rungs `cancel_grid` has yet to visit are lots of its copy, so that
  it clears the ladder only of an empty book.
* `StrategyProofs!LedgerIsRight`: ledger and wallet agree while `intact`. The invariant
  (`LedgerInv`) adds that the lots are finite in number, and what the holder's copy, the
  file and the wallet have to do with one another while the ledger passes from the file
  to the copy and back.
* `StrategyProofs!StrategyImplementsLotBook`: the initial states of `Strategy` map to
  those of `LotBook`, and every step to a step of the book or a stutter. The trades map
  to `Buy` and `Sell`, the native coins to `Beside`; every other action moves no coins,
  and since `LedgerIsRight` holds before and after it, it leaves as many lots as there
  were (`Relabel`). A step that loses `intact` is `Break`.

* `SellerProofs!DeliveriesAreSingle`, `NoSlotLeaks`: each needs the other. A delivery that
  fails frees the slot of its own job only because no other delivery holds the same slot,
  and no second delivery starts because every live one is in `_inflight`; `Slots` is their
  conjunction, and `SpawnIsSound`, `EndIsSound`, `GoingOnIsSound` and `TimeoutIsSound` say
  what each building block of the actions does to it.
* `SellerProofs!SkipsAreHopeless`: a verdict is called permanent on what the node shows,
  which may be older than the chain. The invariant (`Hopeless`) adds that what the node
  shows as expired is expired, and that it misses no job that was there when the agent
  started (`NodeFollows`); no job comes back from being expired. A job that was not there
  yet is the exception the theorem states: its refusal may be wrong, which is the finding
  of *watch_refusal*.

* `GridTraderProofs!AnnouncementsAreTrue`: `pending_orders` and `decide` agree in both
  directions, from the types alone: the least sellable lot is announced at its target, the
  rung the price stands on at its own level, and nothing announced is passed over.
* `StateFileProofs!CleanSavesStay`, `StateFileImplementsRegister`: the invariant
  (`FileInv`) says that after a clean save no thread has the state file's inode open
  (`FileIsLeftAlone`), and that the `.tmp` inode of a save that is alone is its own and
  holds exactly what that save has written so far (`OwnsTmp`).
* `SwapPathProofs!OwnNoncesAreOwn`, `SwapPathTypeCorrect`: neither is inductive alone.
  `PathInv` adds the shape of the transactions the write path sends, that the nonce of the
  one awaited is taken by nobody but the other sender, that a sale awaited and mined is
  still owed by the ledger, and that what has moved lies behind the next nonce.
* `SwapPathProofs!BuysAreApproved`: `ApprovalInv` says that an approval for a buy is of
  exactly one order, so that its allowance is a whole order or nothing, and every fill
  uses one up.
* `SwapPathProofs!ReserveHolds`: from the guard to the receipt the invariant
  (`ReserveInv`) carries what the transaction may still cost.
* `SwapPathProofs!SwapPathImplementsPromise`: a receipt that is ok has its transaction
  mined and not yet credited; a call that raises leaves its one swap in the mempool or
  moved or nowhere; the rest of the chain moves only what was left.
* `SellerProofs!WatchTypeCorrect`, `SweepsStartNothingTwice`, `SweepsLeakNothing`: a step
  of the composition is a step of `Seller`, or a sweeper leaves a call behind that the
  agent goes on to handle (`StepsOfSeller`, `LeavingIsSound`); so the agent's safety
  carries over to the two together.

* `SwapPathProofs!LedgerStaysCovered`: what the ledger claims is a sum over the rungs.
  `CoverInv` counts the floor of a buy that was mined and not yet acknowledged as tokens
  that nothing claims yet (`Credit`), so that the quote it is put on the ledger with
  exceeds them by the tolerance at most; a call's rung is empty before its buy and holds
  exactly what its sale sells (`CallHasItsLot`), so each return changes one summand.

* `MoneyProofs!MoneyIsTyped`: types, for a log of any length and ladders of any number of
  rungs. `BuyOpensALot`, `SellingSteps` and `UpdateMovesLots` say of the three kinds of
  step that touch the log what they do to it and to the ledger, and every later proof
  rests on them: a buy opens one lot on an empty rung, a sale (of a step or of
  `cancel_grid`) closes n lots of different rungs, an update moves all lots.
* `MoneyProofs!ExposureStaysBounded`, `PerformanceAddsUp`, `SweepStaysFunded`: `Balanced`
  is the books' invariant. What the open lots cost is at most the cash that the log says
  is in the market and the true profit, and that cash is within the ceiling; as long as
  the labels could follow, the cost is exactly that, and the base amounts bought are those
  sold and those open. An update brings two lots together at the expense of one of them,
  so it may only lower the cost (`MovedSums`). The identity of `PerformanceAddsUp` then
  is arithmetic, and the sweep follows since the lots below the centre are fewer than the
  probe's rungs.
* `MoneyProofs!RoundTripsStayTrue`: the pairing of sells with buys is not inductive, since
  it says nothing of the sales to come. `Told` adds that the last trade at the rung of
  every open lot is the buy that opened it, with its cost. A buy at another rung, or a
  sale, leaves that alone; an update is folded over the lots, and while no lot moves to a
  rung that holds one, or where something was traded since the lot's buy, relabelling one
  lot's buy disturbs neither another lot's nor a pair that is closed (`LabelsFollow`,
  `FollowedUpdateKeepsItTold`).
* `MoneyProofs!DailyLossStaysTrue`: besides `Told`, a booked sale has the day of its entry
  (`DatesMatch`); the two sums then range over the same positions.
* `MoneyProofs!LosingDayStaysOver`, an action property: a step gets past the breaker only
  while `daily_loss`, which is the true one since the last reset, is below the limit, so
  the loss of the whole day is below the limit and what a reset took off the log; every
  other action adds no buy to the log, except `StepBuys`, which adds one and is one of
  the steps counted. After a reset the second summand is not zero, and steps pass the breaker
  again on a day that has lost the limit; that buys come after the loss at all is the
  finding of *money_late_buy*.

Only model-checked: every liveness property (`QuietMarketEndsTrading`,
`ReachedTargetsAreSold`, `EveryOperationReturns`, `StopSilencesTrading`,
`FundedJobsAreServed`), since fairness and ENABLED are beyond the prover. Every safety
invariant, action property and refinement that a passing run checks is a theorem.

## What the code does and no property forbids

Met while modelling. These have no run of their own: each follows from a few lines read
together, and the properties either stop where it happens or state the bound that is left.
Some depart from what the source says of itself (`strategy.py:297` "keeping inventory" and
`strategy.py:328` "keep them separate", the README's line 102, `strategy.py:422` "no more
trades today").

* A buy happens anywhere between its rung and the next one, so a round trip may earn less
  than `step_ratio`.
* A swap that is mined and not recorded, because the process died before the save or the
  receipt came too late, parts ledger and wallet for good: nothing compares the two. Such
  an event ends `intact`, and `LedgerMatchesWallet` and `ImplementsLotBook` say of it only
  that there are no others of its kind.
* `reset` drops open lots from the ledger while their tokens stay in the wallet, as its
  docstring says (`strategy.py:190`); no property counts these lots. It clears the log too
  (`strategy.py:194`), so `daily_loss` reads 0 and after an `activate` steps pass the breaker
  again on a day that has lost its limit. `LosingDayIsOver` remembers the loss
  (`forgotten`) and says how far that goes: until the day has lost the limit once more.
* `activate` with open lots keeps their indexes while the levels move
  (`strategy.py:168`), so a lot bought on an earlier ladder may be sold below what it cost.
  `FreshLotsAreSoldAboveCost` is about the lots bought on the ladder in force.
* `update_grid` saves the state it loaded without the lock (`strategy.py:307`), and a trade
  recorded in between is off the ledger; two lots that its loop nudges onto the top rung
  become one entry (`strategy.py:329`). `seed` swaps the tokens of open lots, which it takes for
  spare ones (`strategy.py:373`). All three end `intact`.
* The ceiling compares the net cash flow of the log with `max_capital_usdt`
  (`strategy.py:445`): profit is room for further lots. `ExposureIsBounded` is that weaker
  bound, not the "Total exposure" of the repository's README (line 102).
* The sweep test probes a grid of `range_pct` around 100 (`chain.py:275`) also when
  `lower_price` and `upper_price` are set, where the real grid may have more buy rungs and
  the ceiling stop the sweep. `SweepIsFunded` is about grids with no more than the probe.
* On mainnet a swap carries no deadline: the Smart Router's parameters have none. A swap
  that was given up on stays valid until it is mined or dropped, and its floor is all that
  protects it.

## Not modelled

* A trade's own impact on the pool, and the gas price of each transaction: `SwapPath` has
  one price and an upper bound of the gas. `Strategy` counts lots; `Money` and `SwapPath`
  have amounts.
* The sale inside `seed`: `SwapPath` has its wrap, `Strategy` its sale. `unwrap_bnb`,
  which nothing calls.
* `total_pnl`, which adds a profit made of each lot's own cost to a mark made of the
  average price of all buys: `PerformanceIsEquity` shows that `realised_quote` and
  `unrealised_quote` belong together, and they are the two that add up.
* A price above the ceiling: `decide` has a branch for it whose body is `pass`, and buys
  the top rung there although its comment says that nothing is left to buy. `Decide`
  models the code.
* `plan_for` and `validate_grid`: arithmetic on a ladder, without state.
* A state file that cannot be read (`OSError`, `strategy.py:87`), which becomes an empty
  state like one that does not parse.
* The life of the monitor's thread: `start_monitor` is called once in each process, on
  import, and `stop_monitor` by nothing. Its polls are `Strategy`'s steps.
* Ladders of more than ten rungs in the runs, where the string order of `update_grid`
  departs from the order of the numbers; the theorems hold for them (`KeyBefore` is the
  string order up to a hundred rungs, and the proofs need only that it has no ties and is
  transitive).
* Quotes and their signatures; `signing.settle`, which nothing in the repository calls.
* Request plumbing, the language model, cards, deployment and client scripts.

## Plan

Done, in this order, the most important behaviour first: `Grid`, `GridTrader`, `Strategy`
with `LotBook`; `Seller`; `Watch`; `Money`; `StateFile` with `StateRegister`; `SwapPath`
with `SwapPromise`; the proofs of each; `SumProofs`, and with it the proofs about amounts.

Left: `plan_for`; the ceiling under lost updates, which wants the amounts of `Money` in
the steps of `Strategy`; the rate at which jobs fall out of the scan window. Of the
proofs: the steps without fairness of the other liveness arguments.
