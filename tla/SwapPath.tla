------------------------------ MODULE SwapPath ------------------------------
(***************************************************************************)
(* app/agent/grid_signing.py: execute_swap, wrap_bnb and _send, against a  *)
(* chain on which the wallet has a second sender.                          *)
(*                                                                         *)
(* One caller at a time is in execute_swap or wrap_bnb (strategy's lock);  *)
(* the agent's seller sends from the same wallet and knows no lock.  A     *)
(* swap is up to three transactions: an approval of zero, an approval of   *)
(* the exact amount, the swap.  Each is checked, given the pending nonce,  *)
(* simulated, broadcast and awaited for 180 seconds; it may be mined after *)
(* its sender has given up on it.                                          *)
(***************************************************************************)
EXTENDS Integers, FiniteSets, FiniteSetsExt

CONSTANTS
    Rungs,       \* the rungs a lot may stand on
    NoRung,      \* the rung of a wrap
    OrderSize,   \* a buy spends this much of the quote token
    WrapSize,    \* a wrap turns this much native into base tokens
    Spots,       \* prices the pool may have, in quote per base
    Slippage,    \* cfg["max_slippage_pct"]
    Gas,         \* the gas limit of a transaction times the gas price
    Reserve,     \* cfg["min_gas_reserve_bnb"]
    FirstLots,   \* FirstLots[r]: what the ledger holds at the start
    FirstBase,   \* the wallet's base tokens at the start
    FirstQuote,  \* its quote tokens
    FirstNative, \* and its native coins
    MaxNonce,    \* bound: nonces are below it
    MaxForeign   \* bound: transactions of the other sender

ASSUME SizesArePositive == OrderSize \in Nat \ {0} /\ WrapSize \in Nat \ {0} /\ Gas \in Nat \ {0}
ASSUME SpotsArePositive == Spots \subseteq Nat \ {0}
ASSUME SlippageIsPercent == Slippage \in 0 .. 100
ASSUME FirstHoldings == /\ FirstLots \in [Rungs -> Nat] /\ NoRung \notin Rungs /\ IsFiniteSet(Rungs)
                        /\ FirstBase \in Nat /\ FirstQuote \in Nat /\ FirstNative \in Nat /\ Reserve \in Nat
ASSUME BoundsAreNat == MaxNonce \in Nat /\ MaxForeign \in Nat

LotsOf(l) == SumFunctionOnSet(l, Rungs)

ASSUME FirstLotsAreCovered == LotsOf(FirstLots) <= FirstBase

VARIABLES
    (* the chain *)
    spot,       \* the pool's price
    mined,      \* transactions of the wallet mined so far: the next nonce
    pool,       \* its pending transactions
    allowance,  \* what the router may draw, by token
    bal,        \* the wallet's tokens
    native,     \* and its native coins
    (* the call *)
    pc,         \* where it is
    call,       \* what it was asked, and its quote
    stage,      \* which of its transactions it is at
    nonce,      \* the nonce _send has read
    sent,       \* the transaction it waits for
    receipt,    \* what the chain says of it
    lots,       \* strategy's ledger: the quoted amount at each rung
    (* history variables: read by no guard of the program *)
    foreign,    \* how many transactions the other sender has sent
    moved,      \* swaps and wraps that moved coins, but for the one awaited
    answer,     \* how the last call ended
    approvals,  \* approvals for a buy that were mined
    bought,     \* buys that were mined
    shortfall,  \* by how much the ledger may exceed the wallet
    unguarded   \* native spent by transactions that no call was waiting for

chainVars   == <<spot, mined, pool, allowance, bal, native>>
callVars    == <<pc, call, stage, nonce, sent, receipt, lots>>
historyVars == <<foreign, moved, answer, approvals, bought, shortfall, unguarded>>
vars        == <<chainVars, callVars, historyVars>>

-----------------------------------------------------------------------------
Tokens == {"quote", "base"}
Kinds  == {"buy", "sell", "wrap"}
Stages == {"zero", "approve", "swap", "wrap", "foreign"}

Tx   == [nonce : Nat, stage : Stages, kind : Kinds \cup {"none"}, amount : Nat, floor : Nat]
NoTx == [nonce |-> 0, stage |-> "none", kind |-> "none", amount |-> 0, floor |-> 0]
ForeignTx(n) == [nonce |-> n, stage |-> "foreign", kind |-> "none", amount |-> 0, floor |-> 0]
NoCall == [kind |-> "none", rung |-> NoRung, amount |-> 0, quoted |-> 0, floor |-> 0]

TokenIn(kind)  == IF kind = "buy" THEN "quote" ELSE "base"
TokenOut(kind) == IF kind = "buy" THEN "base" ELSE "quote"

(* What the pool gives for `amount`; the trade's own impact is left out.   *)
Fill(kind, amount) == IF kind = "buy" THEN amount \div spot ELSE amount * spot

(* Faulty variant: a floor above the quote. *)
MinOutAbove(quoted) == (quoted * (100 + Slippage)) \div 100

(* _min_out: the least output the swap may have. *)
MinOut(quoted) == (quoted * (100 - Slippage)) \div 100

(* What a fill may lack of its quote: the slippage, rounded up. *)
Tolerated(quoted) == -((-(quoted * Slippage)) \div 100)

Moves(tx)   == tx.stage \in {"swap", "wrap"}
Id(tx)      == <<tx.nonce, tx.kind>>
Awaited(tx) == pc = "wait" /\ tx = sent
Value(tx)   == IF tx.stage = "wrap" THEN tx.amount ELSE 0
Free(n)     == n >= mined /\ \A tx \in pool : tx.nonce # n

(* The chain would execute it now: so says the simulation, and the block.  *)
Works(tx) ==
    tx.stage = "swap" =>
        /\ allowance[TokenIn(tx.kind)] >= tx.amount
        /\ bal[TokenIn(tx.kind)] >= tx.amount
        /\ Fill(tx.kind, tx.amount) >= tx.floor

Init ==
    /\ spot \in Spots
    /\ mined = 0 /\ pool = {}
    /\ allowance = [t \in Tokens |-> 0]
    /\ bal = [t \in Tokens |-> IF t = "quote" THEN FirstQuote ELSE FirstBase]
    /\ native = FirstNative
    /\ pc = "idle" /\ call = NoCall /\ stage = "none" /\ nonce = 0
    /\ sent = NoTx /\ receipt = "none" /\ lots = FirstLots
    /\ foreign = 0 /\ moved = {} /\ answer = "none"
    /\ approvals = 0 /\ bought = 0 /\ shortfall = 0 /\ unguarded = 0

-----------------------------------------------------------------------------
(* The calls *)

Calls(kind, rung, amount) ==
    /\ pc = "idle"
    /\ call' = [NoCall EXCEPT !.kind = kind, !.rung = rung, !.amount = amount]
    /\ answer' = "none"
    /\ UNCHANGED <<chainVars, nonce, sent, receipt, lots,
                   foreign, moved, approvals, bought, shortfall, unguarded>>

(* step fills an empty rung; step or cancel_grid sells a lot, all of it;   *)
(* seed wraps.                                                             *)
Buys == \E r \in Rungs :
    /\ lots[r] = 0
    /\ Calls("buy", r, OrderSize)
    /\ pc' = "quote" /\ stage' = "none"
Sells == \E r \in Rungs :
    /\ lots[r] > 0
    /\ Calls("sell", r, lots[r])
    /\ pc' = "quote" /\ stage' = "none"
Wraps ==
    /\ Calls("wrap", NoRung, WrapSize)
    /\ pc' = "check" /\ stage' = "wrap"

(* quote_swap and _min_out.  A quote of zero is refused, an impact above   *)
(* the ceiling too: see Fails.                                             *)
Quotes ==
    /\ pc = "quote"
    /\ LET quoted == Fill(call.kind, call.amount) IN
           /\ quoted > 0
           /\ call' = [call EXCEPT !.quoted = quoted, !.floor = MinOut(quoted)]
    /\ pc' = "allowance"
    /\ UNCHANGED <<chainVars, stage, nonce, sent, receipt, lots, historyVars>>

(* approve_exact: enough is left alone, less is set to zero first. *)
ReadsAllowance ==
    /\ pc = "allowance"
    /\ LET current == allowance[TokenIn(call.kind)] IN
           stage' = IF current >= call.amount THEN "swap"
                    ELSE IF current > 0 THEN "zero" ELSE "approve"
    /\ pc' = "check"
    /\ UNCHANGED <<chainVars, call, nonce, sent, receipt, lots, historyVars>>

(* Faulty variants: an approval with headroom; the reserve is compared     *)
(* with the balance before the spending.                                   *)
OwnTxWithHeadroom == [nonce |-> nonce, stage |-> stage, kind |-> call.kind,
          amount |-> IF stage = "zero" THEN 0
                     ELSE IF stage = "approve" THEN 2 * call.amount ELSE call.amount,
          floor |-> call.floor]
AffordsNow == native >= Reserve

(* The transaction of the present stage. *)
OwnTx == [nonce |-> nonce, stage |-> stage, kind |-> call.kind,
          amount |-> IF stage = "zero" THEN 0 ELSE call.amount,
          floor |-> call.floor]

(* _require_gas_reserve *)
Affords == native - (Value(OwnTx) + Gas) >= Reserve

Checks ==
    /\ pc = "check"
    /\ Affords
    /\ pc' = "nonce"
    /\ UNCHANGED <<chainVars, call, stage, nonce, sent, receipt, lots, historyVars>>

(* Faulty variant: the count of mined transactions ("latest"). *)
IsLatestNonce(n) == n = mined

(* get_transaction_count(sender, "pending"): the first that is not taken.  *)
IsPendingNonce(n) == Free(n) /\ \A m \in mined .. n - 1 : ~Free(m)

ReadsNonce ==
    /\ pc = "nonce"
    /\ \E n \in 0 .. MaxNonce - 1 : IsPendingNonce(n) /\ nonce' = n
    /\ pc' = "sign"
    /\ UNCHANGED <<chainVars, call, stage, sent, receipt, lots, historyVars>>

(* It enters the pool, in the place of one with its nonce if it pays more. *)
Enters(tx) == pool' = {t \in pool : t.nonce # tx.nonce} \cup {tx}

(* Simulated, signed and broadcast. *)
Sends ==
    /\ pc = "sign"
    /\ nonce >= mined
    /\ Works(OwnTx)
    /\ Enters(OwnTx)
    /\ sent' = OwnTx /\ receipt' = "none"
    /\ pc' = "wait" /\ nonce' = 0
    /\ UNCHANGED <<spot, mined, allowance, bal, native, call, stage, lots, historyVars>>

Over(how) ==
    /\ pc' = "idle" /\ call' = NoCall /\ stage' = "none" /\ nonce' = 0
    /\ sent' = NoTx /\ receipt' = "none"
    /\ answer' = how

(* Faulty variant: the receipt's status is not looked at. *)
HasReceipt == pc = "wait" /\ receipt # "none"

HasSucceeded == pc = "wait" /\ receipt = "ok"

(* An approval has landed: on to the next transaction. *)
NextStage ==
    /\ HasSucceeded
    /\ stage \in {"zero", "approve"}
    /\ stage' = IF stage = "zero" THEN "approve" ELSE "swap"
    /\ pc' = "check"
    /\ sent' = NoTx /\ receipt' = "none"
    /\ UNCHANGED <<chainVars, call, nonce, lots, historyVars>>

(* The call returns, and its caller puts the quoted amount on the ledger.  *)
Returns ==
    /\ HasSucceeded
    /\ stage \in {"swap", "wrap"}
    /\ Over("ok")
    /\ lots' = CASE call.kind = "buy"  -> [lots EXCEPT ![call.rung] = call.quoted]
                 [] call.kind = "sell" -> [lots EXCEPT ![call.rung] = 0]
                 [] call.kind = "wrap" -> lots
    /\ shortfall' = CASE call.kind = "buy"  -> shortfall + Tolerated(call.quoted)
                      [] call.kind = "sell" -> shortfall - call.amount
                      [] call.kind = "wrap" -> shortfall
    /\ moved' = moved \cup {Id(sent)}
    /\ UNCHANGED <<chainVars, foreign, approvals, bought, unguarded>>

(* Faulty variant: a receipt that does not come is a reason to try again.  *)
TriesAgain ==
    /\ pc = "wait"
    /\ pc' = "check" /\ sent' = NoTx /\ receipt' = "none"
    /\ UNCHANGED <<chainVars, call, stage, nonce, lots, historyVars>>

HasMoved == HasSucceeded /\ Moves(sent)

(* A guard, a read, the simulation or the broadcast refuses, the receipt   *)
(* reverts or does not come, or the process dies: the call is over, the    *)
(* ledger is as before, and what was broadcast stays out.                  *)
Fails ==
    /\ pc # "idle"
    /\ Over("raised")
    /\ moved' = IF HasMoved THEN moved \cup {Id(sent)} ELSE moved
    /\ UNCHANGED <<chainVars, lots, foreign, approvals, bought, shortfall, unguarded>>

-----------------------------------------------------------------------------
(* The chain *)

(* A block includes tx: its gas is paid, and a receipt is there for who    *)
(* waits for it.                                                           *)
Included(tx, value, status) ==
    /\ tx.nonce = mined
    /\ native >= Gas + Value(tx)
    /\ mined' = mined + 1
    /\ pool' = pool \ {tx}
    /\ \E gas \in 1 .. Gas :
           /\ native' = native - (gas + value)
           /\ unguarded' = IF Awaited(tx) THEN unguarded ELSE unguarded + gas + value
    /\ receipt' = IF Awaited(tx) THEN status ELSE receipt
    /\ UNCHANGED <<spot, pc, call, stage, nonce, sent, lots, foreign, answer>>

ApprovalMined(tx) ==
    /\ tx.stage \in {"zero", "approve"}
    /\ Included(tx, 0, "ok")
    /\ allowance' = [allowance EXCEPT ![TokenIn(tx.kind)] = tx.amount]
    /\ approvals' = IF tx.stage = "approve" /\ tx.kind = "buy" THEN approvals + 1 ELSE approvals
    /\ UNCHANGED <<bal, moved, bought, shortfall>>

(* A sale is on the ledger until its call returns. *)
SwapMined(tx) ==
    /\ tx.stage = "swap" /\ Works(tx)
    /\ Included(tx, 0, "ok")
    /\ allowance' = [allowance EXCEPT ![TokenIn(tx.kind)] = @ - tx.amount]
    /\ bal' = [bal EXCEPT ![TokenIn(tx.kind)] = @ - tx.amount,
                          ![TokenOut(tx.kind)] = @ + Fill(tx.kind, tx.amount)]
    /\ moved' = IF Awaited(tx) THEN moved ELSE moved \cup {Id(tx)}
    /\ bought' = IF tx.kind = "buy" THEN bought + 1 ELSE bought
    /\ shortfall' = IF tx.kind = "sell" THEN shortfall + tx.amount ELSE shortfall
    /\ UNCHANGED approvals

WrapMined(tx) ==
    /\ tx.stage = "wrap"
    /\ Included(tx, tx.amount, "ok")
    /\ bal' = [bal EXCEPT !["base"] = @ + tx.amount]
    /\ moved' = IF Awaited(tx) THEN moved ELSE moved \cup {Id(tx)}
    /\ UNCHANGED <<allowance, approvals, bought, shortfall>>

ForeignMined(tx) ==
    /\ tx.stage = "foreign"
    /\ Included(tx, 0, "ok")
    /\ UNCHANGED <<allowance, bal, moved, approvals, bought, shortfall>>

(* A swap too large for the allowance or the wallet, below its floor, out  *)
(* of gas or, on the V3 router only, past its deadline.                    *)
Reverted(tx) ==
    /\ Included(tx, 0, "reverted")
    /\ UNCHANGED <<allowance, bal, moved, approvals, bought, shortfall>>

Dropped(tx) ==
    /\ pool' = pool \ {tx}
    /\ UNCHANGED <<spot, mined, allowance, bal, native, callVars, historyVars>>

(* seller_core's submit: the pending nonce, or one that was pending when   *)
(* it was read.                                                            *)
ForeignSends ==
    /\ foreign < MaxForeign
    /\ foreign' = foreign + 1
    /\ \E n \in 0 .. MaxNonce - 1 :
           /\ IsPendingNonce(n) \/ \E tx \in pool : tx.nonce = n
           /\ Enters(ForeignTx(n))
    /\ UNCHANGED <<spot, mined, allowance, bal, native, callVars,
                   moved, answer, approvals, bought, shortfall, unguarded>>

SpotMoves ==
    /\ spot' \in Spots \ {spot}
    /\ UNCHANGED <<mined, pool, allowance, bal, native, callVars, historyVars>>

Call == Buys \/ Sells \/ Wraps \/ Quotes \/ ReadsAllowance \/ Checks \/ ReadsNonce
            \/ Sends \/ NextStage \/ Returns \/ Fails

Chain == \/ ForeignSends \/ SpotMoves
         \/ \E tx \in pool : ApprovalMined(tx) \/ SwapMined(tx) \/ WrapMined(tx)
                                \/ ForeignMined(tx) \/ Reverted(tx) \/ Dropped(tx)

Next == Call \/ Chain

Spec == Init /\ [][Next]_vars

-----------------------------------------------------------------------------
TypeOK ==
    /\ spot \in Spots
    /\ mined \in Nat
    /\ pool \subseteq Tx
    /\ \A tx \in pool : tx.nonce >= mined
    /\ \A s, t \in pool : s.nonce = t.nonce => s = t
    /\ allowance \in [Tokens -> Nat]
    /\ bal \in [Tokens -> Nat]
    /\ native \in Nat
    /\ pc \in {"idle", "quote", "allowance", "check", "nonce", "sign", "wait"}
    /\ call \in [kind : Kinds \cup {"none"}, rung : Rungs \cup {NoRung},
                 amount : Nat, quoted : Nat, floor : Nat]
    /\ call.floor <= call.quoted
    /\ pc = "idle" <=> call.kind = "none"
    /\ call.kind \in {"buy", "sell"} => call.rung \in Rungs
    /\ stage \in Stages \cup {"none"}
    /\ nonce \in Nat
    /\ sent \in Tx \cup {NoTx}
    /\ pc = "wait" <=> sent # NoTx
    /\ receipt \in {"none", "ok", "reverted"}
    /\ lots \in [Rungs -> Nat]
    /\ foreign \in Nat /\ moved \subseteq Nat \X Kinds
    /\ answer \in {"none", "ok", "raised"}
    /\ approvals \in Nat /\ bought \in Nat /\ shortfall \in Nat /\ unguarded \in Nat

(* strategy.py:451 puts the quoted amount on the ledger, whatever was      *)
(* received.  The ledger exceeds the wallet's base tokens by no more than  *)
(* the slippage tolerated in the buys that returned and the sales that     *)
(* were mined and not acknowledged: retries, reverts and transactions      *)
(* mined late add nothing to that.                                         *)
LedgerIsCovered ==
    LotsOf(lots) <= bal["base"] + shortfall

(* "Approvals are EXACT-amount": a buy that was given up on and tried      *)
(* again cannot be filled twice out of one approval, although both         *)
(* transactions may be out at once.                                        *)
EachBuyHasItsApproval ==
    bought + (IF allowance["quote"] > 0 THEN 1 ELSE 0) <= approvals

(* _send: "'pending', not the default 'latest'".  The nonce to be signed   *)
(* belongs to no transaction of the write path that is still out, however  *)
(* long ago its call gave up: a retry never takes a swap's place.          *)
OwnNoncesNeverClash ==
    pc = "sign" => \A tx \in pool : tx.nonce = nonce => tx.stage = "foreign"

(* _require_gas_reserve: "a wallet with inventory but no gas cannot sell". *)
(* The reserve is eaten into only by transactions no call was waiting for: *)
(* the seller's, and those mined after they were given up on.              *)
ReserveIsKept ==
    FirstNative >= Reserve => native + unguarded >= Reserve

(* execute_swap and wrap_bnb against their promise: what a call moves it   *)
(* moves once, a call that returns has moved it, and a call that raised    *)
(* leaves at most one transaction that may move it later.                  *)
KindOfId(id) == id[2]
Late    == {tx \in pool : Moves(tx) /\ ~Awaited(tx)}
Promise == INSTANCE SwapPromise WITH
               NoCall <- "none",
               Txs    <- (0 .. MaxNonce - 1) \X Kinds,
               KindOf <- KindOfId,
               call   <- call.kind,
               moved  <- moved,
               late   <- {Id(tx) : tx \in Late}
ImplementsPromise == Promise!Spec
=============================================================================
