--------------------------- MODULE SwapPathProofs ---------------------------
(* The write path, for any amounts, prices, slippage, gas and number of    *)
(* transactions, and any behaviour of the chain and of the other sender.   *)
EXTENDS SwapPath, SumProofs

-----------------------------------------------------------------------------
(* The invariant: what is out was made by a call as it should be; the      *)
(* awaited transaction is the one of the present stage, nobody but the     *)
(* other sender takes its nonce, and no nonce moves coins twice.           *)
SoundTx(tx) ==
    /\ tx.stage = "foreign" <=> tx.kind = "none"
    /\ tx.stage = "wrap" <=> tx.kind = "wrap"
    /\ tx.stage = "zero" => tx.amount = 0
    /\ tx.kind = "buy" /\ tx.stage # "zero" => tx.amount = OrderSize
    /\ tx.nonce < MaxNonce

PoolIsSound == \A tx \in pool : SoundTx(tx)

CallIsSound ==
    /\ pc \in {"check", "nonce", "sign", "wait"} =>
           /\ stage \in {"zero", "approve", "swap", "wrap"}
           /\ stage = "wrap" <=> call.kind = "wrap"
    /\ pc \in {"quote", "allowance"} => call.kind \in {"buy", "sell"}
    /\ call.kind = "buy" => call.amount = OrderSize
    /\ pc = "sign" => nonce < MaxNonce

SentIsSound ==
    /\ pc = "wait" =>
           /\ sent \in Tx /\ SoundTx(sent)
           /\ sent.stage = stage /\ sent.kind = call.kind
           /\ stage # "zero" => sent.amount = call.amount
           /\ \A tx \in pool : tx.nonce = sent.nonce => tx = sent \/ tx.stage = "foreign"
           /\ Id(sent) \notin moved
    /\ receipt # "none" => pc = "wait" /\ sent.nonce < mined

SaleIsOwed ==
    HasMoved /\ call.kind = "sell" => shortfall >= call.amount

MovedIsPast == \A id \in moved : id[1] < mined /\ id[1] < MaxNonce

PathInv ==
    TypeOK /\ OwnNoncesNeverClash /\ PoolIsSound /\ CallIsSound /\ SentIsSound
           /\ SaleIsOwed /\ MovedIsPast

-----------------------------------------------------------------------------
(* Arithmetic of quotes *)

LEMMA FillIsNat ==
    ASSUME spot \in Spots, NEW kind, NEW amount \in Nat
    PROVE  Fill(kind, amount) \in Nat
<1>1. spot \in Nat \ {0}
  BY SpotsArePositive
<1>2. amount \div spot \in Nat /\ amount * spot \in Nat
  BY <1>1
<1> QED  BY <1>2 DEF Fill

LEMMA MinOutIsNoMoreThanQuoted ==
    ASSUME NEW quoted \in Nat
    PROVE  /\ MinOut(quoted) \in Nat /\ MinOut(quoted) <= quoted
           /\ Tolerated(quoted) \in Nat
<1> DEFINE x == quoted * Slippage
           y == quoted * (100 - Slippage)
<1>1. x \in Nat /\ y \in Nat /\ x + y = 100 * quoted
  BY SlippageIsPercent
<1>2. (y \div 100) \in Nat /\ y \div 100 <= quoted
  <2> HIDE DEF x, y
  <2> QED  BY <1>1
<1>3. -((-x) \div 100) \in Nat
  <2> HIDE DEF x, y
  <2> QED  BY <1>1
<1> QED  BY <1>2, <1>3 DEF MinOut, Tolerated

(* What the floor leaves out of a quote is the slippage tolerated in it.   *)
LEMMA QuoteIsFloorAndTolerance ==
    ASSUME NEW quoted \in Nat
    PROVE  quoted <= MinOut(quoted) + Tolerated(quoted)
<1> DEFINE x == quoted * Slippage
           y == quoted * (100 - Slippage)
<1>1. x \in Nat /\ y \in Nat /\ x + y = 100 * quoted
  BY SlippageIsPercent
<1>2. quoted <= (y \div 100) + (-((-x) \div 100))
  <2> HIDE DEF x, y
  <2> QED  BY <1>1
<1> QED  BY <1>2 DEF MinOut, Tolerated

LEMMA NoTxIsNoTx == NoTx \notin Tx
  BY DEF NoTx, Tx, Stages

LEMMA InitPathInv == Init => PathInv
<1> SUFFICES ASSUME Init  PROVE PathInv
  OBVIOUS
<1>1. TypeOK
  BY SizesArePositive, FirstHoldings DEF Init, TypeOK, NoCall, NoTx, Tx, Stages, Kinds, Tokens
<1>2. OwnNoncesNeverClash /\ PoolIsSound /\ CallIsSound /\ SentIsSound /\ SaleIsOwed /\ MovedIsPast
  BY DEF Init, OwnNoncesNeverClash, PoolIsSound, CallIsSound, SentIsSound, SaleIsOwed,
         HasMoved, HasSucceeded, MovedIsPast, NoCall
<1> QED  BY <1>1, <1>2 DEF PathInv

-----------------------------------------------------------------------------
(* The calls *)

LEMMA CallsKeepInv ==
    ASSUME PathInv, Buys \/ Sells \/ Wraps
    PROVE  PathInv'
<1> USE DEF PathInv, TypeOK, chainVars, historyVars
<1>1. \E kind \in Kinds, rung \in Rungs \cup {NoRung}, amount \in Nat :
          /\ Calls(kind, rung, amount)
          /\ kind \in {"buy", "sell"} =>
                 rung \in Rungs /\ pc' = "quote" /\ stage' = "none"
          /\ kind = "buy" => amount = OrderSize
          /\ kind = "wrap" => pc' = "check" /\ stage' = "wrap"
  <2>1. CASE Buys
    <3>1. PICK r \in Rungs : Calls("buy", r, OrderSize) /\ pc' = "quote" /\ stage' = "none"
      BY <2>1 DEF Buys
    <3> QED  BY <3>1, SizesArePositive DEF Kinds
  <2>2. CASE Sells
    <3>1. PICK r \in Rungs : Calls("sell", r, lots[r]) /\ pc' = "quote" /\ stage' = "none"
      BY <2>2 DEF Sells
    <3>2. lots[r] \in Nat
      OBVIOUS
    <3> QED  BY <3>1, <3>2 DEF Kinds
  <2>3. CASE Wraps
    BY <2>3, SizesArePositive DEF Wraps, Kinds
  <2> QED  BY <2>1, <2>2, <2>3
<1>2. PICK kind \in Kinds, rung \in Rungs \cup {NoRung}, amount \in Nat :
          /\ Calls(kind, rung, amount)
          /\ kind \in {"buy", "sell"} =>
                 rung \in Rungs /\ pc' = "quote" /\ stage' = "none"
          /\ kind = "buy" => amount = OrderSize
          /\ kind = "wrap" => pc' = "check" /\ stage' = "wrap"
  BY <1>1
<1>3. call' = [kind |-> kind, rung |-> rung, amount |-> amount, quoted |-> 0, floor |-> 0]
  BY <1>2 DEF Calls, NoCall
<1>4. pc' \in {"quote", "check"} /\ stage' \in {"none", "wrap"}
  BY <1>2 DEF Kinds
<1>5. UNCHANGED <<chainVars, nonce, sent, receipt, lots,
                 foreign, moved, approvals, bought, shortfall, unguarded>>
      /\ answer' = "none" /\ pc = "idle"
  BY <1>2 DEF Calls
<1>6. TypeOK'
  BY <1>2, <1>3, <1>4, <1>5 DEF Kinds, Stages
<1>7. (OwnNoncesNeverClash /\ PoolIsSound /\ CallIsSound /\ MovedIsPast)'
  BY <1>2, <1>3, <1>4, <1>5 DEF OwnNoncesNeverClash, PoolIsSound, CallIsSound,
     MovedIsPast, SoundTx, Kinds
<1>8. (SentIsSound /\ SaleIsOwed)'
  BY <1>4, <1>5 DEF SentIsSound, SaleIsOwed, HasMoved, HasSucceeded
<1> QED  BY <1>6, <1>7, <1>8

LEMMA QuotesKeepsInv ==
    ASSUME PathInv, Quotes
    PROVE  PathInv'
<1> USE DEF PathInv, TypeOK, chainVars, historyVars, Quotes
<1>1. Fill(call.kind, call.amount) \in Nat
  BY FillIsNat
<1>2. PICK quoted \in Nat :
          call' = [call EXCEPT !.quoted = quoted, !.floor = MinOut(quoted)]
  BY <1>1
<1>3. MinOut(quoted) \in Nat /\ MinOut(quoted) <= quoted
  BY MinOutIsNoMoreThanQuoted
<1>4. TypeOK'
  BY <1>2, <1>3
<1>5. (OwnNoncesNeverClash /\ PoolIsSound /\ CallIsSound /\ MovedIsPast)'
  BY <1>2 DEF OwnNoncesNeverClash, PoolIsSound, CallIsSound, MovedIsPast, SoundTx
<1>6. (SentIsSound /\ SaleIsOwed)'
  BY <1>2 DEF SentIsSound, SaleIsOwed, HasMoved, HasSucceeded
<1> QED  BY <1>4, <1>5, <1>6

LEMMA ReadsKeepInv ==
    ASSUME PathInv, ReadsAllowance \/ Checks \/ ReadsNonce
    PROVE  PathInv'
<1> USE DEF PathInv, TypeOK, chainVars, historyVars
<1>1. TypeOK'
  BY DEF ReadsAllowance, Checks, ReadsNonce, Stages
<1>2. OwnNoncesNeverClash'
  BY DEF ReadsAllowance, Checks, ReadsNonce, IsPendingNonce, Free, OwnNoncesNeverClash
<1>3. (PoolIsSound /\ MovedIsPast)'
  BY DEF ReadsAllowance, Checks, ReadsNonce, PoolIsSound, MovedIsPast, SoundTx
<1>4. CallIsSound'
  BY BoundsAreNat DEF ReadsAllowance, Checks, ReadsNonce, CallIsSound
<1>5. (SentIsSound /\ SaleIsOwed)'
  BY DEF ReadsAllowance, Checks, ReadsNonce, SentIsSound, SaleIsOwed, HasMoved, HasSucceeded
<1> QED  BY <1>1, <1>2, <1>3, <1>4, <1>5

(* The transaction of the present stage is one the invariant knows.        *)
LEMMA OwnTxIsSound ==
    ASSUME PathInv, pc = "sign"
    PROVE  /\ OwnTx \in Tx /\ SoundTx(OwnTx)
           /\ OwnTx.nonce = nonce /\ OwnTx.stage = stage /\ OwnTx.kind = call.kind
           /\ stage # "zero" => OwnTx.amount = call.amount
<1>1. /\ call.kind \in Kinds /\ call.amount \in Nat /\ call.floor \in Nat /\ nonce \in Nat
      /\ stage \in {"zero", "approve", "swap", "wrap"}
      /\ stage = "wrap" <=> call.kind = "wrap"
      /\ call.kind = "buy" => call.amount = OrderSize
      /\ nonce < MaxNonce
  BY DEF PathInv, TypeOK, CallIsSound
<1>2. OwnTx \in Tx
  BY <1>1 DEF OwnTx, Tx, Stages
<1>3. SoundTx(OwnTx)
  BY <1>1 DEF SoundTx, OwnTx, Kinds
<1> QED  BY <1>1, <1>2, <1>3 DEF OwnTx

LEMMA SendsKeepsInv ==
    ASSUME PathInv, Sends
    PROVE  PathInv'
<1> USE DEF PathInv, TypeOK, chainVars, historyVars
<1>1. /\ OwnTx \in Tx /\ SoundTx(OwnTx)
      /\ OwnTx.nonce = nonce /\ OwnTx.stage = stage /\ OwnTx.kind = call.kind
      /\ stage # "zero" => OwnTx.amount = call.amount
  BY OwnTxIsSound DEF Sends
<1>2. /\ pc = "sign" /\ nonce >= mined
      /\ pool' = {t \in pool : t.nonce # nonce} \cup {OwnTx}
      /\ sent' = OwnTx /\ receipt' = "none" /\ pc' = "wait" /\ nonce' = 0
      /\ UNCHANGED <<spot, mined, allowance, bal, native, call, stage, lots, historyVars>>
  BY <1>1 DEF Sends, Enters
<1> HIDE DEF PathInv, TypeOK
<1>3. TypeOK'
  <2>1. /\ pool' \subseteq Tx
        /\ \A tx \in pool' : tx.nonce >= mined
        /\ \A s, t \in pool' : s.nonce = t.nonce => s = t
    BY <1>1, <1>2 DEF PathInv, TypeOK
  <2>2. sent' \in Tx /\ sent' # NoTx
    BY <1>1, <1>2, NoTxIsNoTx
  <2> QED  BY <1>2, <2>1, <2>2 DEF PathInv, TypeOK, historyVars
<1>4. (OwnNoncesNeverClash /\ CallIsSound /\ MovedIsPast)'
  BY <1>2 DEF OwnNoncesNeverClash, CallIsSound, MovedIsPast, PathInv, historyVars
<1>5. PoolIsSound'
  BY <1>1, <1>2 DEF PoolIsSound, SoundTx, PathInv
<1>6. Id(OwnTx) \notin moved
  BY <1>1, <1>2, BoundsAreNat DEF PathInv, MovedIsPast, TypeOK, Id
<1>7. SentIsSound'
  BY <1>1, <1>2, <1>6 DEF SentIsSound, SoundTx, historyVars, Id
<1>8. SaleIsOwed'
  BY <1>2 DEF SaleIsOwed, HasMoved, HasSucceeded
<1> QED  BY <1>3, <1>4, <1>5, <1>7, <1>8 DEF PathInv

LEMMA NextStageKeepsInv ==
    ASSUME PathInv, NextStage
    PROVE  PathInv'
<1> USE DEF PathInv, TypeOK, chainVars, historyVars, NextStage, HasSucceeded
<1>1. TypeOK'
  BY NoTxIsNoTx DEF Stages
<1>2. (OwnNoncesNeverClash /\ PoolIsSound /\ MovedIsPast)'
  BY DEF OwnNoncesNeverClash, PoolIsSound, MovedIsPast, SoundTx
<1>3. CallIsSound'
  BY DEF CallIsSound
<1>4. (SentIsSound /\ SaleIsOwed)'
  BY DEF SentIsSound, SaleIsOwed, HasMoved
<1> QED  BY <1>1, <1>2, <1>3, <1>4

LEMMA OverKeepsInv ==
    ASSUME PathInv, NEW how \in {"ok", "raised"}, Over(how), UNCHANGED <<chainVars, foreign>>,
           lots' \in [Rungs -> Nat], shortfall' \in Nat, UNCHANGED <<approvals, bought, unguarded>>,
           moved' = moved \/ (HasMoved /\ moved' = moved \cup {Id(sent)})
    PROVE  PathInv'
<1> USE DEF PathInv, TypeOK, chainVars, Over
<1>1. HasMoved => /\ Id(sent) \in Nat \X Kinds /\ Id(sent)[1] = sent.nonce
                  /\ sent.nonce < mined /\ sent.nonce < MaxNonce
  BY DEF HasMoved, HasSucceeded, SentIsSound, SoundTx, Id, Moves, Tx, Stages
<1>2. moved' \subseteq Nat \X Kinds /\ MovedIsPast'
  BY <1>1 DEF MovedIsPast
<1>3. TypeOK'
  BY <1>2 DEF NoCall
<1>4. (OwnNoncesNeverClash /\ PoolIsSound /\ CallIsSound)'
  BY DEF OwnNoncesNeverClash, PoolIsSound, CallIsSound, SoundTx, NoCall
<1>5. (SentIsSound /\ SaleIsOwed)'
  BY DEF SentIsSound, SaleIsOwed, HasMoved, HasSucceeded
<1> QED  BY <1>2, <1>3, <1>4, <1>5

LEMMA ReturnsKeepsInv ==
    ASSUME PathInv, Returns
    PROVE  PathInv'
<1>1. HasMoved
  BY DEF Returns, HasMoved, Moves, HasSucceeded, PathInv, SentIsSound
<1>2. call.kind \in Kinds /\ call.quoted \in Nat /\ call.amount \in Nat /\ shortfall \in Nat
      /\ (call.kind \in {"buy", "sell"} => call.rung \in Rungs)
  BY <1>1 DEF PathInv, TypeOK, HasMoved, HasSucceeded
<1>3. Tolerated(call.quoted) \in Nat
  BY <1>2, MinOutIsNoMoreThanQuoted
<1>4. lots' \in [Rungs -> Nat]
  BY <1>2 DEF Returns, Kinds, PathInv, TypeOK
<1>5. shortfall' \in Nat
  BY <1>1, <1>2, <1>3 DEF Returns, Kinds, PathInv, SaleIsOwed
<1>6. Over("ok") /\ UNCHANGED <<chainVars, foreign, approvals, bought, unguarded>>
      /\ moved' = moved \cup {Id(sent)}
  BY DEF Returns
<1> QED  BY <1>1, <1>4, <1>5, <1>6, OverKeepsInv

LEMMA FailsKeepsInv ==
    ASSUME PathInv, Fails
    PROVE  PathInv'
<1>1. Over("raised") /\ UNCHANGED <<chainVars, lots, foreign, approvals, bought, shortfall, unguarded>>
      /\ (moved' = moved \/ (HasMoved /\ moved' = moved \cup {Id(sent)}))
  BY DEF Fails
<1>2. lots' \in [Rungs -> Nat] /\ shortfall' \in Nat
  BY <1>1 DEF PathInv, TypeOK
<1> QED  BY <1>1, <1>2, OverKeepsInv

-----------------------------------------------------------------------------
(* The chain *)

(* A transaction that is included is not the one a call has a receipt of.  *)
LEMMA AwaitedHasNoReceipt ==
    ASSUME PathInv, NEW tx \in pool, Awaited(tx)
    PROVE  receipt = "none"
  BY DEF PathInv, TypeOK, SentIsSound, Awaited, Tx

LEMMA IncludedKeepsInv ==
    ASSUME PathInv, NEW tx \in pool, NEW value \in {0, Value(tx)}, NEW status \in {"ok", "reverted"},
           Included(tx, value, status),
           allowance' \in [Tokens -> Nat], bal' \in [Tokens -> Nat],
           approvals' \in Nat, bought' \in Nat, shortfall' \in Nat, shortfall' >= shortfall,
           status = "ok" /\ tx.stage = "swap" /\ tx.kind = "sell" => shortfall' >= tx.amount,
           moved' = moved \/ (Moves(tx) /\ ~Awaited(tx) /\ moved' = moved \cup {Id(tx)})
    PROVE  PathInv'
<1>1. /\ tx \in Tx /\ SoundTx(tx) /\ tx.nonce = mined /\ mined \in Nat
      /\ mined' = mined + 1 /\ pool' = pool \ {tx}
      /\ receipt' = IF Awaited(tx) THEN status ELSE receipt
      /\ UNCHANGED <<spot, pc, call, stage, nonce, sent, lots, foreign, answer>>
  BY DEF PathInv, TypeOK, PoolIsSound, Included
<1>2. native' \in Nat /\ unguarded' \in Nat
  <2>1. PICK gas \in 1 .. Gas :
            /\ native' = native - (gas + value)
            /\ unguarded' = IF Awaited(tx) THEN unguarded ELSE unguarded + gas + value
    BY DEF Included
  <2>2. native >= Gas + Value(tx) /\ Value(tx) \in Nat
    BY <1>1 DEF Included, Value, Tx
  <2>3. native \in Nat /\ unguarded \in Nat
    BY DEF PathInv, TypeOK
  <2> QED  BY <2>1, <2>2, <2>3, SizesArePositive
<1>3. moved' \subseteq Nat \X Kinds /\ MovedIsPast'
  <2>1. Moves(tx) => Id(tx) \in Nat \X Kinds /\ Id(tx)[1] = mined /\ mined < MaxNonce
    BY <1>1 DEF Moves, Id, SoundTx, Tx, Stages
  <2> QED  BY <1>1, <2>1 DEF PathInv, TypeOK, MovedIsPast
<1>4. TypeOK'
  <2>1. /\ pool' \subseteq Tx
        /\ \A t \in pool' : t.nonce >= mined'
        /\ \A t, u \in pool' : t.nonce = u.nonce => t = u
    BY <1>1 DEF PathInv, TypeOK, Tx
  <2>2. receipt' \in {"none", "ok", "reverted"}
    BY <1>1 DEF PathInv, TypeOK
  <2> QED  BY <1>1, <1>2, <1>3, <2>1, <2>2 DEF PathInv, TypeOK
<1>5. (OwnNoncesNeverClash /\ PoolIsSound /\ CallIsSound)'
  BY <1>1 DEF PathInv, OwnNoncesNeverClash, PoolIsSound, CallIsSound, SoundTx
<1>6. SentIsSound'
  <2>1. receipt' # "none" => pc' = "wait" /\ sent'.nonce < mined'
    BY <1>1 DEF PathInv, TypeOK, SentIsSound, Awaited, Tx
  <2>2. pc = "wait" => Id(sent) \notin moved'
    BY <1>1 DEF PathInv, SentIsSound, Id, Awaited, Moves
  <2> QED  BY <1>1, <2>1, <2>2 DEF PathInv, SentIsSound, SoundTx, Id
<1>7. SaleIsOwed'
  <2> SUFFICES ASSUME HasMoved', call'.kind = "sell"  PROVE shortfall' >= call'.amount
    BY DEF SaleIsOwed
  <2>1. CASE Awaited(tx)
    BY <1>1, <2>1 DEF PathInv, SentIsSound, HasMoved, HasSucceeded, Moves, Awaited, CallIsSound
  <2>2. CASE ~Awaited(tx)
    <3>1. HasMoved /\ call.kind = "sell"
      BY <1>1, <2>2 DEF HasMoved, HasSucceeded, Moves
    <3>2. shortfall >= call.amount /\ shortfall \in Nat /\ call.amount \in Nat
      BY <3>1 DEF PathInv, SaleIsOwed, TypeOK
    <3> QED  BY <1>1, <3>2
  <2> QED  BY <2>1, <2>2
<1> QED  BY <1>3, <1>4, <1>5, <1>6, <1>7 DEF PathInv

LEMMA MinedKeepsInv ==
    ASSUME PathInv, NEW tx \in pool,
           ApprovalMined(tx) \/ SwapMined(tx) \/ WrapMined(tx) \/ ForeignMined(tx) \/ Reverted(tx)
    PROVE  PathInv'
<1>1. /\ tx \in Tx /\ tx.amount \in Nat /\ tx.stage \in Stages
      /\ allowance \in [Tokens -> Nat] /\ bal \in [Tokens -> Nat]
      /\ approvals \in Nat /\ bought \in Nat /\ shortfall \in Nat
      /\ TokenIn(tx.kind) \in Tokens /\ TokenOut(tx.kind) \in Tokens
      /\ Value(tx) \in {0, Value(tx)} /\ 0 \in {0, Value(tx)}
  BY DEF PathInv, TypeOK, Tx, TokenIn, TokenOut, Tokens
<1>2. CASE ApprovalMined(tx)
  <2>1. allowance' \in [Tokens -> Nat] /\ approvals' \in Nat
    BY <1>1, <1>2 DEF ApprovalMined
  <2> QED  BY <1>1, <1>2, <2>1, IncludedKeepsInv DEF ApprovalMined
<1>3. CASE SwapMined(tx)
  <2>1. Fill(tx.kind, tx.amount) \in Nat
    BY <1>1, FillIsNat DEF PathInv, TypeOK
  <2>2. allowance[TokenIn(tx.kind)] >= tx.amount /\ bal[TokenIn(tx.kind)] >= tx.amount
    BY <1>3 DEF SwapMined, Works
  <2>3. allowance' \in [Tokens -> Nat]
    BY <1>1, <1>3, <2>2 DEF SwapMined
  <2>4. bal' \in [Tokens -> Nat]
    <3>1. TokenIn(tx.kind) # TokenOut(tx.kind)
      BY DEF TokenIn, TokenOut
    <3> QED  BY <1>1, <1>3, <2>1, <2>2, <3>1 DEF SwapMined
  <2>5. /\ shortfall' \in Nat /\ shortfall' >= shortfall
        /\ tx.kind = "sell" => shortfall' >= tx.amount
        /\ bought' \in Nat /\ approvals' \in Nat
    BY <1>1, <1>3 DEF SwapMined
  <2>6. /\ Included(tx, 0, "ok")
        /\ moved' = moved \/ (Moves(tx) /\ ~Awaited(tx) /\ moved' = moved \cup {Id(tx)})
    BY <1>3 DEF SwapMined, Moves
  <2> QED  BY <1>1, <2>3, <2>4, <2>5, <2>6, IncludedKeepsInv
<1>4. CASE WrapMined(tx)
  <2>1. Value(tx) = tx.amount /\ tx.stage = "wrap" /\ Included(tx, tx.amount, "ok")
        /\ (moved' = moved \/ (Moves(tx) /\ ~Awaited(tx) /\ moved' = moved \cup {Id(tx)}))
        /\ UNCHANGED <<allowance, approvals, bought, shortfall>>
    BY <1>4 DEF WrapMined, Value, Moves
  <2>2. bal' \in [Tokens -> Nat]
    BY <1>1, <1>4 DEF WrapMined, Tokens
  <2> QED  BY <1>1, <2>1, <2>2, IncludedKeepsInv
<1>5. CASE ForeignMined(tx)
  BY <1>1, <1>5, IncludedKeepsInv DEF ForeignMined
<1>6. CASE Reverted(tx)
  BY <1>1, <1>6, IncludedKeepsInv DEF Reverted
<1> QED  BY <1>2, <1>3, <1>4, <1>5, <1>6

LEMMA ForeignTxIsSound ==
    ASSUME NEW n \in 0 .. MaxNonce - 1
    PROVE  /\ ForeignTx(n) \in Tx /\ SoundTx(ForeignTx(n))
           /\ ForeignTx(n).nonce = n /\ ForeignTx(n).stage = "foreign"
  BY BoundsAreNat DEF ForeignTx, Tx, Stages, SoundTx

LEMMA ForeignSendsKeepsInv ==
    ASSUME PathInv, ForeignSends
    PROVE  PathInv'
<1>1. PICK n \in 0 .. MaxNonce - 1 :
          /\ IsPendingNonce(n) \/ \E tx \in pool : tx.nonce = n
          /\ Enters(ForeignTx(n))
  BY DEF ForeignSends
<1> DEFINE f == ForeignTx(n)
<1>2. f \in Tx /\ SoundTx(f) /\ f.nonce = n /\ f.stage = "foreign"
  BY ForeignTxIsSound
<1>3. pool' = {t \in pool : t.nonce # n} \cup {f}
  BY <1>1, <1>2 DEF Enters
<1> HIDE DEF f
<1>4. n >= mined
  BY <1>1 DEF IsPendingNonce, Free, PathInv, TypeOK
<1>5. foreign' \in Nat
      /\ UNCHANGED <<spot, mined, allowance, bal, native, callVars,
                     moved, answer, approvals, bought, shortfall, unguarded>>
  BY DEF ForeignSends, PathInv, TypeOK
<1>6. TypeOK'
  <2>1. /\ pool' \subseteq Tx
        /\ \A t \in pool' : t.nonce >= mined
        /\ \A t, u \in pool' : t.nonce = u.nonce => t = u
    BY <1>2, <1>3, <1>4 DEF PathInv, TypeOK
  <2> QED  BY <1>5, <2>1 DEF PathInv, TypeOK, callVars
<1>7. (OwnNoncesNeverClash /\ PoolIsSound /\ CallIsSound /\ MovedIsPast)'
  BY <1>2, <1>3, <1>5 DEF PathInv, OwnNoncesNeverClash, PoolIsSound, CallIsSound, MovedIsPast,
     SoundTx, callVars
<1>8. (SentIsSound /\ SaleIsOwed)'
  BY <1>2, <1>3, <1>5 DEF PathInv, SentIsSound, SaleIsOwed, HasMoved, HasSucceeded, Moves,
     SoundTx, Id, callVars
<1> QED  BY <1>6, <1>7, <1>8 DEF PathInv

LEMMA DroppedKeepsInv ==
    ASSUME PathInv, (\E tx \in pool : Dropped(tx)) \/ SpotMoves
    PROVE  PathInv'
<1>1. /\ pool' \subseteq pool /\ spot' \in Spots
      /\ UNCHANGED <<mined, allowance, bal, native, callVars, historyVars>>
  BY DEF Dropped, SpotMoves, PathInv, TypeOK
<1>2. TypeOK'
  BY <1>1 DEF PathInv, TypeOK, callVars, historyVars
<1>3. (OwnNoncesNeverClash /\ PoolIsSound /\ CallIsSound /\ MovedIsPast)'
  BY <1>1 DEF PathInv, OwnNoncesNeverClash, PoolIsSound, CallIsSound, MovedIsPast,
     SoundTx, callVars, historyVars
<1>4. (SentIsSound /\ SaleIsOwed)'
  BY <1>1 DEF PathInv, SentIsSound, SaleIsOwed, HasMoved, HasSucceeded, Moves, SoundTx, Id,
     callVars, historyVars
<1> QED  BY <1>2, <1>3, <1>4 DEF PathInv

LEMMA StutterKeepsInv ==
    ASSUME PathInv, UNCHANGED vars
    PROVE  PathInv'
  BY DEF PathInv, TypeOK, OwnNoncesNeverClash, PoolIsSound, CallIsSound, SentIsSound, SaleIsOwed,
     HasMoved, HasSucceeded, Moves, MovedIsPast, SoundTx, Id, vars, chainVars, callVars, historyVars

LEMMA NextKeepsPathInv == PathInv /\ [Next]_vars => PathInv'
<1> SUFFICES ASSUME PathInv, [Next]_vars  PROVE PathInv'
  OBVIOUS
<1>1. CASE Call
  BY <1>1, CallsKeepInv, QuotesKeepsInv, ReadsKeepInv, SendsKeepsInv, NextStageKeepsInv,
     ReturnsKeepsInv, FailsKeepsInv DEF Call
<1>2. CASE Chain
  BY <1>2, MinedKeepsInv, ForeignSendsKeepsInv, DroppedKeepsInv DEF Chain
<1>3. CASE UNCHANGED vars
  BY <1>3, StutterKeepsInv
<1> QED  BY <1>1, <1>2, <1>3 DEF Next

LEMMA PathInvHolds == Spec => []PathInv
  BY InitPathInv, NextKeepsPathInv, PTL DEF Spec

(* The write path's calls and transactions are well formed, whatever the   *)
(* chain and the other sender do: no balance or allowance is overdrawn, no *)
(* floor is above its quote, and a nonce is out once.                      *)
THEOREM SwapPathTypeCorrect == Spec => []TypeOK
<1>1. PathInv => TypeOK
  BY DEF PathInv
<1> QED  BY <1>1, PathInvHolds, PTL

(* _send with the pending nonce: a retry never takes the place of a        *)
(* transaction that an earlier call has given up on.                       *)
THEOREM OwnNoncesAreOwn == Spec => []OwnNoncesNeverClash
<1>1. PathInv => OwnNoncesNeverClash
  BY DEF PathInv
<1> QED  BY <1>1, PathInvHolds, PTL

-----------------------------------------------------------------------------
(* Exact approvals: the router may draw one order or nothing. *)
OneOrderOrNone == allowance["quote"] \in {0, OrderSize}

ApprovalInv == PathInv /\ OneOrderOrNone /\ EachBuyHasItsApproval

LEMMA MinedKeepsApprovals ==
    ASSUME ApprovalInv, NEW tx \in pool,
           ApprovalMined(tx) \/ SwapMined(tx) \/ WrapMined(tx) \/ ForeignMined(tx) \/ Reverted(tx)
    PROVE  (OneOrderOrNone /\ EachBuyHasItsApproval)'
<1>1. /\ tx \in Tx /\ SoundTx(tx) /\ allowance \in [Tokens -> Nat]
      /\ "quote" \in Tokens /\ TokenIn(tx.kind) \in Tokens
      /\ approvals \in Nat /\ bought \in Nat /\ OrderSize \in Nat \ {0}
  BY SizesArePositive DEF ApprovalInv, PathInv, TypeOK, PoolIsSound, TokenIn, Tokens
<1>2. OneOrderOrNone /\ EachBuyHasItsApproval
  BY DEF ApprovalInv
<1>3. CASE WrapMined(tx) \/ ForeignMined(tx) \/ Reverted(tx)
  <2>1. UNCHANGED <<allowance, approvals, bought>>
    BY <1>3 DEF WrapMined, ForeignMined, Reverted
  <2> QED  BY <1>2, <2>1 DEF OneOrderOrNone, EachBuyHasItsApproval
<1>4. CASE tx.kind # "buy" /\ (ApprovalMined(tx) \/ SwapMined(tx))
  <2>1. allowance'["quote"] = allowance["quote"] /\ approvals' = approvals /\ bought' = bought
    BY <1>1, <1>4 DEF ApprovalMined, SwapMined, TokenIn
  <2> QED  BY <1>2, <2>1 DEF OneOrderOrNone, EachBuyHasItsApproval
<1>5. CASE tx.kind = "buy" /\ ApprovalMined(tx)
  <2>1. allowance'["quote"] = tx.amount /\ bought' = bought
        /\ approvals' = IF tx.stage = "approve" THEN approvals + 1 ELSE approvals
    BY <1>1, <1>5 DEF ApprovalMined, TokenIn
  <2>2. tx.stage = "zero" => tx.amount = 0
    BY <1>1 DEF SoundTx
  <2>3. tx.stage # "zero" => tx.amount = OrderSize /\ tx.stage = "approve"
    BY <1>1, <1>5 DEF SoundTx, ApprovalMined
  <2> QED  BY <1>1, <1>2, <2>1, <2>2, <2>3 DEF OneOrderOrNone, EachBuyHasItsApproval
<1>6. CASE tx.kind = "buy" /\ SwapMined(tx)
  <2>1. tx.amount = OrderSize /\ allowance["quote"] >= tx.amount
    BY <1>1, <1>6 DEF SoundTx, SwapMined, Works, TokenIn
  <2>2. allowance'["quote"] = allowance["quote"] - OrderSize /\ bought' = bought + 1
        /\ approvals' = approvals
    BY <1>1, <1>6, <2>1 DEF SwapMined, TokenIn
  <2> QED  BY <1>1, <1>2, <2>1, <2>2 DEF OneOrderOrNone, EachBuyHasItsApproval
<1> QED  BY <1>3, <1>4, <1>5, <1>6

(* approve_exact: for any order size, any number of retries and any order  *)
(* in which the chain takes what was given up on, as many buys can be      *)
(* filled as approvals were mined for one, less the one still unspent.     *)
THEOREM BuysAreApproved == Spec => []EachBuyHasItsApproval
<1>1. Init => ApprovalInv
  BY InitPathInv DEF Init, ApprovalInv, OneOrderOrNone, EachBuyHasItsApproval, Tokens
<1>2. ApprovalInv /\ [Next]_vars => ApprovalInv'
  <2> SUFFICES ASSUME ApprovalInv, [Next]_vars  PROVE ApprovalInv'
    OBVIOUS
  <2>1. PathInv'
    BY NextKeepsPathInv DEF ApprovalInv
  <2>2. CASE \E tx \in pool : \/ ApprovalMined(tx) \/ SwapMined(tx) \/ WrapMined(tx)
                              \/ ForeignMined(tx) \/ Reverted(tx)
    BY <2>1, <2>2, MinedKeepsApprovals DEF ApprovalInv
  <2>3. CASE UNCHANGED <<allowance, approvals, bought>>
    BY <2>1, <2>3 DEF ApprovalInv, OneOrderOrNone, EachBuyHasItsApproval
  <2>4. Call \/ ForeignSends \/ SpotMoves \/ (\E tx \in pool : Dropped(tx)) \/ UNCHANGED vars
            => UNCHANGED <<allowance, approvals, bought>>
    BY DEF Call, Buys, Sells, Wraps, Calls, Quotes, ReadsAllowance, Checks, ReadsNonce, Sends,
       NextStage, Returns, Fails, ForeignSends, SpotMoves, Dropped, vars, chainVars, historyVars
  <2> QED  BY <2>2, <2>3, <2>4 DEF Next, Chain
<1>3. ApprovalInv => EachBuyHasItsApproval
  BY DEF ApprovalInv
<1> QED  BY <1>1, <1>2, <1>3, PTL DEF Spec

-----------------------------------------------------------------------------
(* The gas reserve: what was checked is still there when it is spent, but  *)
(* for what others spent meanwhile.                                        *)
CallValue == IF stage = "wrap" THEN call.amount ELSE 0

ReserveIsFree(cost) == native + unguarded >= Reserve + cost

ReserveInv ==
    /\ PathInv
    /\ FirstNative >= Reserve => ReserveIsFree(0)
    /\ pc \in {"nonce", "sign"} \/ (pc = "wait" /\ receipt = "none")
           => ReserveIsFree(CallValue + Gas)

LEMMA InitReserveInv == Init => ReserveInv
  BY InitPathInv, FirstHoldings DEF Init, ReserveInv, ReserveIsFree

LEMMA MinedKeepsReserve ==
    ASSUME ReserveInv, NEW tx \in pool,
           ApprovalMined(tx) \/ SwapMined(tx) \/ WrapMined(tx) \/ ForeignMined(tx) \/ Reverted(tx)
    PROVE  /\ (FirstNative >= Reserve => ReserveIsFree(0))'
           /\ (pc \in {"nonce", "sign"} \/ (pc = "wait" /\ receipt = "none")
                  => ReserveIsFree(CallValue + Gas))'
<1>1. PICK value \in {0, Value(tx)}, status \in {"ok", "reverted"} : Included(tx, value, status)
  BY DEF ApprovalMined, SwapMined, WrapMined, ForeignMined, Reverted, Value
<1>2. PICK gas \in 1 .. Gas :
          /\ native' = native - (gas + value)
          /\ unguarded' = IF Awaited(tx) THEN unguarded ELSE unguarded + gas + value
  BY <1>1 DEF Included
<1>3. /\ tx \in Tx /\ Value(tx) \in Nat /\ native \in Nat /\ unguarded \in Nat /\ Gas \in Nat
      /\ call.amount \in Nat /\ CallValue \in Nat /\ Reserve \in Nat
  BY SizesArePositive, FirstHoldings DEF ReserveInv, PathInv, TypeOK, Value, Tx, CallValue
<1>4. /\ UNCHANGED <<pc, call, stage>> /\ CallValue' = CallValue
      /\ receipt' = IF Awaited(tx) THEN status ELSE receipt
  BY <1>1 DEF Included, CallValue
<1>5. CASE ~Awaited(tx)
  <2>1. native' + unguarded' = native + unguarded
    BY <1>2, <1>3, <1>5
  <2> QED  BY <1>4, <1>5, <2>1 DEF ReserveInv, ReserveIsFree
<1>6. CASE Awaited(tx)
  <2>1. pc = "wait" /\ receipt = "none" /\ Value(tx) = CallValue
    BY <1>6, AwaitedHasNoReceipt
       DEF ReserveInv, PathInv, SentIsSound, Awaited, Value, CallValue
  <2>2. native + unguarded >= Reserve + (CallValue + Gas)
    BY <2>1 DEF ReserveInv, ReserveIsFree
  <2>3. native' + unguarded' >= Reserve
    BY <1>2, <1>3, <1>6, <2>1, <2>2
  <2> QED  BY <1>3, <1>4, <1>6, <2>1, <2>3 DEF ReserveIsFree
<1> QED  BY <1>5, <1>6

LEMMA CallKeepsReserve ==
    ASSUME ReserveInv, Call
    PROVE  /\ (FirstNative >= Reserve => ReserveIsFree(0))'
           /\ (pc \in {"nonce", "sign"} \/ (pc = "wait" /\ receipt = "none")
                  => ReserveIsFree(CallValue + Gas))'
<1>1. UNCHANGED <<native, unguarded>>
  BY DEF Call, Buys, Sells, Wraps, Calls, Quotes, ReadsAllowance, Checks, ReadsNonce, Sends,
     NextStage, Returns, Fails, chainVars, historyVars
<1>2. (FirstNative >= Reserve => ReserveIsFree(0))'
  BY <1>1 DEF ReserveInv, ReserveIsFree
<1>3. CASE Checks
  <2>1. native \in Nat /\ unguarded \in Nat /\ CallValue \in Nat /\ Gas \in Nat /\ Reserve \in Nat
    BY SizesArePositive, FirstHoldings DEF ReserveInv, PathInv, TypeOK, CallValue
  <2>2. Value(OwnTx) = CallValue
    BY DEF Value, OwnTx, CallValue
  <2>3. ReserveIsFree(CallValue + Gas)
    BY <1>3, <2>1, <2>2 DEF Checks, Affords, ReserveIsFree
  <2> QED  BY <1>1, <1>2, <1>3, <2>3 DEF Checks, ReserveIsFree, CallValue
<1>4. CASE ReadsNonce \/ Sends
  BY <1>1, <1>2, <1>4 DEF ReadsNonce, Sends, ReserveInv, ReserveIsFree, CallValue
<1>5. CASE ~(Checks \/ ReadsNonce \/ Sends)
  <2>1. pc' \notin {"nonce", "sign", "wait"}
    BY <1>5 DEF Call, Buys, Sells, Wraps, Quotes, ReadsAllowance, NextStage, Returns, Fails, Over
  <2> QED  BY <1>2, <2>1
<1> QED  BY <1>3, <1>4, <1>5

(* _require_gas_reserve: for any gas, amounts and reserve, the reserve is  *)
(* eaten into only by transactions that no call was waiting for.           *)
THEOREM ReserveHolds == Spec => []ReserveIsKept
<1>1. ReserveInv /\ [Next]_vars => ReserveInv'
  <2> SUFFICES ASSUME ReserveInv, [Next]_vars  PROVE ReserveInv'
    OBVIOUS
  <2>1. PathInv'
    BY NextKeepsPathInv DEF ReserveInv
  <2>2. CASE Call
    BY <2>1, <2>2, CallKeepsReserve DEF ReserveInv
  <2>3. CASE \E tx \in pool : \/ ApprovalMined(tx) \/ SwapMined(tx) \/ WrapMined(tx)
                              \/ ForeignMined(tx) \/ Reverted(tx)
    BY <2>1, <2>3, MinedKeepsReserve DEF ReserveInv
  <2>4. CASE ForeignSends \/ SpotMoves \/ (\E tx \in pool : Dropped(tx)) \/ UNCHANGED vars
    <3>1. UNCHANGED <<native, unguarded, pc, call, stage, receipt>>
      BY <2>4 DEF ForeignSends, SpotMoves, Dropped, vars, chainVars, callVars, historyVars
    <3> QED  BY <2>1, <3>1 DEF ReserveInv, ReserveIsFree, CallValue
  <2> QED  BY <2>2, <2>3, <2>4 DEF Next, Chain
<1>2. ReserveInv => ReserveIsKept
  <2> SUFFICES ASSUME ReserveInv, FirstNative >= Reserve  PROVE native + unguarded >= Reserve
    BY DEF ReserveIsKept
  <2> QED  BY FirstHoldings DEF ReserveInv, ReserveIsFree
<1> QED  BY InitReserveInv, <1>1, <1>2, PTL DEF Spec

-----------------------------------------------------------------------------
(* The ledger: a buy that was mined and not yet acknowledged has brought   *)
(* its floor at least, and the ledger does not know of it.                 *)
Credit == IF HasMoved /\ call.kind = "buy" THEN call.floor ELSE 0

CallHasItsLot ==
    /\ call.kind = "buy"  => lots[call.rung] = 0
    /\ call.kind = "sell" => lots[call.rung] = call.amount

FloorIsOfQuote ==
    /\ call.floor = MinOut(call.quoted)
    /\ pc = "wait" => sent.floor = call.floor

CreditIsCovered == LotsOf(lots) + Credit <= bal["base"] + shortfall

CoverInv == PathInv /\ CallHasItsLot /\ FloorIsOfQuote /\ CreditIsCovered

(* One rung's lot is replaced. *)
LEMMA LotsOfChange ==
    ASSUME lots \in [Rungs -> Nat], NEW r \in Rungs, NEW amount \in Nat
    PROVE  /\ LotsOf(lots) \in Nat
           /\ LotsOf([lots EXCEPT ![r] = amount]) = (LotsOf(lots) - lots[r]) + amount
<1> DEFINE new == [lots EXCEPT ![r] = amount]
           rest == Rungs \ {r}
<1>1. IsFiniteSet(Rungs) /\ IsFiniteSet(rest)
  BY FirstHoldings, FS_Subset
<1>2. LotsOf(lots) \in Nat
  BY <1>1, SumIsNat DEF LotsOf
<1>3. LotsOf(lots) = SumFunctionOnSet(lots, rest) + lots[r]
  BY <1>1, SumWithout DEF LotsOf
<1>4. LotsOf(new) = SumFunctionOnSet(new, rest) + amount
  <2>1. \A i \in Rungs : new[i] \in Int
    OBVIOUS
  <2>2. new[r] = amount
    OBVIOUS
  <2> HIDE DEF new
  <2>3. SumFunctionOnSet(new, Rungs) = SumFunctionOnSet(new, Rungs \ {r}) + new[r]
    BY <1>1, <2>1, SumWithout
  <2> QED  BY <2>2, <2>3 DEF LotsOf
<1>5. SumFunctionOnSet(new, rest) = SumFunctionOnSet(lots, rest)
  <2>1. \A i \in rest : lots[i] \in Int /\ lots[i] = new[i]
    OBVIOUS
  <2> HIDE DEF new, rest
  <2> QED  BY <1>1, <2>1, SumOfSame
<1>6. SumFunctionOnSet(lots, rest) \in Int /\ lots[r] \in Int
  <2>1. \A i \in rest : lots[i] \in Int
    OBVIOUS
  <2> QED  BY <1>1, <2>1, SumIsInt
<1> HIDE DEF new, rest
<1>7. LotsOf(new) = (LotsOf(lots) - lots[r]) + amount
  BY <1>3, <1>4, <1>5, <1>6
<1> QED  BY <1>2, <1>7 DEF new

LEMMA CoverTypes ==
    ASSUME PathInv
    PROVE  /\ LotsOf(lots) \in Nat /\ Credit \in Nat /\ bal["base"] \in Nat /\ shortfall \in Nat
           /\ call.floor \in Nat /\ call.quoted \in Nat /\ call.amount \in Nat
           /\ Credit > 0 => HasMoved
<1>1. lots \in [Rungs -> Nat] /\ IsFiniteSet(Rungs)
  BY FirstHoldings DEF PathInv, TypeOK
<1>2. LotsOf(lots) \in Nat
  BY <1>1, SumIsNat DEF LotsOf
<1> QED  BY <1>2 DEF PathInv, TypeOK, Tokens, Credit

LEMMA InitCoverInv == Init => CoverInv
<1> SUFFICES ASSUME Init  PROVE CoverInv
  OBVIOUS
<1>1. MinOut(0) = 0
  BY SlippageIsPercent DEF MinOut
<1>2. Credit = 0 /\ LotsOf(lots) <= bal["base"]
  BY FirstLotsAreCovered DEF Init, Credit, HasMoved, HasSucceeded, Tokens
<1>3. CreditIsCovered
  <2>1. LotsOf(lots) \in Nat /\ bal["base"] \in Nat /\ shortfall = 0
    BY InitPathInv, CoverTypes DEF Init
  <2> QED  BY <1>2, <2>1 DEF CreditIsCovered
<1> QED  BY <1>1, <1>3, InitPathInv DEF Init, CoverInv, CallHasItsLot, FloorIsOfQuote, NoCall

(* A buy that returns adds its quote to the ledger, and what the fill may  *)
(* lack of it to the tolerance; a sale that returns takes both away.       *)
LEMMA ReturnsKeepsCover ==
    ASSUME CoverInv, PathInv', Returns
    PROVE  CreditIsCovered'
<1>1. /\ HasSucceeded /\ stage \in {"swap", "wrap"} /\ pc' = "idle" /\ bal' = bal
      /\ sent.stage = stage /\ (stage = "wrap" <=> call.kind = "wrap")
  BY DEF Returns, Over, chainVars, HasSucceeded, CoverInv, PathInv, SentIsSound, CallIsSound
<1>2. Credit' = 0
  BY <1>1 DEF Credit, HasMoved, HasSucceeded
<1>3. /\ LotsOf(lots) \in Nat /\ bal["base"] \in Nat /\ shortfall \in Nat
      /\ call.floor \in Nat /\ call.quoted \in Nat /\ call.amount \in Nat
      /\ LotsOf(lots) + Credit <= bal["base"] + shortfall
  BY CoverTypes DEF CoverInv, CreditIsCovered
<1>4. CASE call.kind = "buy"
  <2>1. HasMoved /\ Credit = call.floor
    BY <1>1, <1>4 DEF HasMoved, Moves, Credit
  <2>2. call.rung \in Rungs /\ lots \in [Rungs -> Nat] /\ lots[call.rung] = 0
    BY <1>4 DEF CoverInv, PathInv, TypeOK, CallHasItsLot
  <2>3. LotsOf(lots') = LotsOf(lots) + call.quoted
    <3>1. lots' = [lots EXCEPT ![call.rung] = call.quoted]
      BY <1>4 DEF Returns
    <3>2. LotsOf(lots') = (LotsOf(lots) - lots[call.rung]) + call.quoted
      BY <1>3, <2>2, <3>1, LotsOfChange
    <3> QED  BY <1>3, <2>2, <3>2
  <2>4. shortfall' = shortfall + Tolerated(call.quoted)
    BY <1>4 DEF Returns
  <2>5. call.quoted <= call.floor + Tolerated(call.quoted) /\ Tolerated(call.quoted) \in Nat
    BY <1>3, QuoteIsFloorAndTolerance, MinOutIsNoMoreThanQuoted DEF CoverInv, FloorIsOfQuote
  <2>6. LotsOf(lots') <= bal'["base"] + shortfall'
    BY <1>1, <1>3, <2>1, <2>3, <2>4, <2>5
  <2> QED  BY <1>2, <1>3, <2>3, <2>6 DEF CreditIsCovered
<1>5. CASE call.kind = "sell"
  <2>1. call.rung \in Rungs /\ lots \in [Rungs -> Nat] /\ lots[call.rung] = call.amount
    BY <1>5 DEF CoverInv, PathInv, TypeOK, CallHasItsLot
  <2>2. LotsOf(lots') = LotsOf(lots) - call.amount
    <3>1. lots' = [lots EXCEPT ![call.rung] = 0]
      BY <1>5 DEF Returns
    <3>2. LotsOf(lots') = (LotsOf(lots) - lots[call.rung]) + 0
      BY <2>1, <3>1, LotsOfChange
    <3> QED  BY <1>3, <2>1, <3>2
  <2>3. shortfall' = shortfall - call.amount /\ Credit = 0
    BY <1>5 DEF Returns, Credit
  <2>4. LotsOf(lots') <= bal'["base"] + shortfall'
    BY <1>1, <1>3, <2>2, <2>3
  <2> QED  BY <1>2, <1>3, <2>2, <2>4 DEF CreditIsCovered
<1>6. CASE call.kind = "wrap"
  <2>1. UNCHANGED <<lots, shortfall>> /\ Credit = 0
    BY <1>6 DEF Returns, Credit
  <2> QED  BY <1>1, <1>2, <1>3, <2>1 DEF CreditIsCovered
<1>7. call.kind \in Kinds
  BY <1>1 DEF CoverInv, PathInv, TypeOK, HasSucceeded
<1> QED  BY <1>4, <1>5, <1>6, <1>7 DEF Kinds

(* A call that has not just moved coins may go on or end as it likes.      *)
LEMMA CallKeepsCover ==
    ASSUME CoverInv, PathInv', Call
    PROVE  CoverInv'
<1>1. CASE Returns
  <2>1. call' = NoCall /\ pc' = "idle"
    BY <1>1 DEF Returns, Over
  <2>2. MinOut(0) = 0
    BY SlippageIsPercent DEF MinOut
  <2> QED  BY <1>1, <2>1, <2>2, ReturnsKeepsCover
           DEF CoverInv, CallHasItsLot, FloorIsOfQuote, NoCall
<1>2. CASE Call /\ ~Returns
  <2>1. UNCHANGED <<lots, bal, shortfall>>
    BY <1>2 DEF Call, Buys, Sells, Wraps, Calls, Quotes, ReadsAllowance, Checks, ReadsNonce, Sends,
       NextStage, Fails, chainVars, historyVars
  <2>2. Credit' = 0
    BY <1>2 DEF Call, Buys, Sells, Wraps, Calls, Quotes, ReadsAllowance, Checks, ReadsNonce, Sends,
       NextStage, Fails, Over, Credit, HasMoved, HasSucceeded
  <2>3. CreditIsCovered'
    <3>1. /\ LotsOf(lots) \in Nat /\ Credit \in Nat /\ bal["base"] \in Nat /\ shortfall \in Nat
          /\ LotsOf(lots) + Credit <= bal["base"] + shortfall
      BY CoverTypes DEF CoverInv, CreditIsCovered
    <3> QED  BY <2>1, <2>2, <3>1 DEF CreditIsCovered
  <2>4. CallHasItsLot'
    <3>1. CASE Buys \/ Sells \/ Wraps
      BY <2>1, <3>1 DEF Buys, Sells, Wraps, Calls, NoCall, CallHasItsLot
    <3>2. CASE Quotes
      BY <2>1, <3>2 DEF Quotes, CoverInv, CallHasItsLot, PathInv, TypeOK
    <3>3. CASE Fails
      BY <3>3 DEF Fails, Over, NoCall, CallHasItsLot
    <3>4. CASE ReadsAllowance \/ Checks \/ ReadsNonce \/ Sends \/ NextStage
      <4>1. call' = call
        BY <3>4 DEF ReadsAllowance, Checks, ReadsNonce, Sends, NextStage
      <4> QED  BY <2>1, <4>1 DEF CoverInv, CallHasItsLot
    <3> QED  BY <1>2, <3>1, <3>2, <3>3, <3>4 DEF Call
  <2>5. FloorIsOfQuote'
    <3>1. MinOut(0) = 0
      BY SlippageIsPercent DEF MinOut
    <3>2. CASE Buys \/ Sells \/ Wraps
      BY <3>1, <3>2 DEF Buys, Sells, Wraps, Calls, NoCall, FloorIsOfQuote
    <3>3. CASE Quotes
      BY <3>3 DEF Quotes, FloorIsOfQuote, PathInv, TypeOK, CoverInv
    <3>4. CASE Fails
      BY <3>1, <3>4 DEF Fails, Over, NoCall, FloorIsOfQuote
    <3>5. CASE ReadsAllowance \/ Checks \/ ReadsNonce \/ NextStage
      BY <3>5 DEF ReadsAllowance, Checks, ReadsNonce, NextStage, FloorIsOfQuote, CoverInv
    <3>6. CASE Sends
      BY <3>6 DEF Sends, OwnTx, FloorIsOfQuote, CoverInv
    <3> QED  BY <1>2, <3>2, <3>3, <3>4, <3>5, <3>6 DEF Call
  <2> QED  BY <2>3, <2>4, <2>5 DEF CoverInv
<1> QED  BY <1>1, <1>2

(* Whatever is mined: a buy brings its floor, a sale that nobody knows of  *)
(* yet adds to the tolerance what it takes.                                *)
LEMMA MinedKeepsCover ==
    ASSUME CoverInv, PathInv', NEW tx \in pool,
           ApprovalMined(tx) \/ SwapMined(tx) \/ WrapMined(tx) \/ ForeignMined(tx) \/ Reverted(tx)
    PROVE  CoverInv'
<1>1. PICK value, status : Included(tx, value, status)
  BY DEF ApprovalMined, SwapMined, WrapMined, ForeignMined, Reverted
<1>2. /\ UNCHANGED <<pc, call, stage, sent, lots>>
      /\ receipt' = IF Awaited(tx) THEN status ELSE receipt
  BY <1>1 DEF Included
<1>3. CallHasItsLot' /\ FloorIsOfQuote'
  BY <1>2 DEF CoverInv, CallHasItsLot, FloorIsOfQuote
<1>4. /\ LotsOf(lots) \in Nat /\ Credit \in Nat /\ bal["base"] \in Nat /\ shortfall \in Nat
      /\ LotsOf(lots) + Credit <= bal["base"] + shortfall
      /\ Credit' \in Nat /\ bal'["base"] \in Nat /\ shortfall' \in Nat
      /\ tx \in Tx /\ tx.amount \in Nat
      /\ bal \in [Tokens -> Nat] /\ bal' \in [Tokens -> Nat]
  <2>1. /\ bal' \in [Tokens -> Nat] /\ shortfall' \in Nat /\ call'.floor \in Nat
    BY DEF PathInv, TypeOK
  <2>2. Credit' \in Nat /\ bal'["base"] \in Nat
    BY <2>1 DEF Credit, Tokens
  <2> QED  BY <2>1, <2>2, CoverTypes DEF CoverInv, CreditIsCovered, PathInv, TypeOK, Tx
<1>5. bal'["base"] + shortfall' >= (bal["base"] + shortfall) + (Credit' - Credit)
  <2>1. ~Awaited(tx) => Credit' = Credit
    BY <1>2 DEF Credit, HasMoved, HasSucceeded
  <2>2. Awaited(tx) /\ ~(SwapMined(tx) /\ tx.kind = "buy") => Credit' = 0 /\ Credit = 0
    <3> SUFFICES ASSUME Awaited(tx), ~(SwapMined(tx) /\ tx.kind = "buy")
                 PROVE  Credit' = 0 /\ Credit = 0
      OBVIOUS
    <3>1. receipt = "none" /\ tx = sent /\ pc = "wait"
      BY AwaitedHasNoReceipt DEF CoverInv, Awaited
    <3>2. sent.kind = call.kind /\ (sent.stage = "wrap" <=> sent.kind = "wrap")
      BY <3>1 DEF CoverInv, PathInv, SentIsSound, SoundTx
    <3>3. CASE call.kind # "buy"
      BY <1>2, <3>1, <3>3 DEF Credit
    <3>4. CASE call.kind = "buy"
      <4>1. ~SwapMined(tx) /\ tx.stage # "wrap"
        BY <3>1, <3>2, <3>4
      <4>2. CASE Reverted(tx)
        <5>1. receipt' = "reverted"
          BY <3>1, <4>2 DEF Reverted, Included, Awaited
        <5> QED  BY <1>2, <3>1, <5>1 DEF Credit, HasMoved, HasSucceeded
      <4>3. CASE tx.stage \notin {"swap", "wrap"}
        BY <1>2, <3>1, <4>3 DEF Credit, HasMoved, Moves
      <4> QED  BY <4>1, <4>2, <4>3 DEF ApprovalMined, WrapMined, ForeignMined
    <3> QED  BY <3>3, <3>4
  <2>3. CASE ApprovalMined(tx) \/ ForeignMined(tx) \/ Reverted(tx)
    <3>1. UNCHANGED <<bal, shortfall>>
      BY <2>3 DEF ApprovalMined, ForeignMined, Reverted
    <3>2. Credit' = Credit
      <4>1. ~(SwapMined(tx) /\ tx.kind = "buy") \/ Reverted(tx)
        BY <2>3 DEF ApprovalMined, ForeignMined, SwapMined
      <4>2. Reverted(tx) /\ Awaited(tx) => Credit' = 0 /\ Credit = 0
        BY <1>2, AwaitedHasNoReceipt
           DEF CoverInv, Reverted, Included, Credit, HasMoved, HasSucceeded
      <4> QED  BY <2>1, <2>2, <4>1, <4>2
    <3> QED  BY <1>4, <3>1, <3>2
  <2>4. CASE WrapMined(tx)
    <3>1. bal'["base"] = bal["base"] + tx.amount /\ shortfall' = shortfall
      BY <1>4, <2>4 DEF WrapMined, Tokens
    <3>2. Credit' = Credit
      BY <2>1, <2>2, <2>4 DEF WrapMined, SwapMined
    <3> QED  BY <1>4, <3>1, <3>2
  <2>5. CASE SwapMined(tx) /\ tx.kind = "buy"
    <3>1. /\ bal'["base"] = bal["base"] + Fill("buy", tx.amount) /\ shortfall' = shortfall
          /\ Fill("buy", tx.amount) >= tx.floor
      BY <1>4, <2>5 DEF SwapMined, TokenIn, TokenOut, Works, Tokens
    <3>2. Fill("buy", tx.amount) \in Nat /\ tx.floor \in Nat
      BY <1>4, FillIsNat DEF CoverInv, PathInv, TypeOK, Tx
    <3>3. Awaited(tx) => Credit' <= tx.floor /\ Credit = 0
      <4> SUFFICES ASSUME Awaited(tx)  PROVE Credit' <= tx.floor /\ Credit = 0
        OBVIOUS
      <4>1. receipt = "none" /\ tx = sent /\ tx.floor = call.floor
        BY AwaitedHasNoReceipt DEF CoverInv, Awaited, FloorIsOfQuote
      <4>2. Credit = 0
        BY <4>1 DEF Credit, HasMoved, HasSucceeded
      <4>3. Credit' \in {0, call.floor}
        BY <1>2 DEF Credit
      <4> QED  BY <3>2, <4>1, <4>2, <4>3
    <3> QED  BY <1>4, <2>1, <3>1, <3>2, <3>3
  <2>6. CASE SwapMined(tx) /\ tx.kind # "buy"
    <3>1. tx.kind = "sell"
      BY <1>4, <2>6 DEF SwapMined, CoverInv, PathInv, PoolIsSound, SoundTx, Tx, Kinds
    <3>2. bal'["base"] = bal["base"] - tx.amount /\ shortfall' = shortfall + tx.amount
      BY <1>4, <2>6, <3>1 DEF SwapMined, TokenIn, TokenOut, Tokens
    <3>3. Credit' = Credit
      BY <2>1, <2>2, <3>1
    <3> QED  BY <1>4, <3>2, <3>3
  <2> QED  BY <2>3, <2>4, <2>5, <2>6
<1>6. CreditIsCovered'
  <2>1. LotsOf(lots') = LotsOf(lots)
    BY <1>2
  <2> QED  BY <1>4, <1>5, <2>1 DEF CreditIsCovered
<1> QED  BY <1>3, <1>6 DEF CoverInv

(* For any order sizes, prices, slippage and number of rungs, retries,     *)
(* reverts and transactions mined late: the ledger exceeds the wallet by   *)
(* no more than the slippage that was tolerated.                           *)
THEOREM LedgerStaysCovered == Spec => []LedgerIsCovered
<1>1. CoverInv /\ [Next]_vars => CoverInv'
  <2> SUFFICES ASSUME CoverInv, [Next]_vars  PROVE CoverInv'
    OBVIOUS
  <2>1. PathInv'
    BY NextKeepsPathInv DEF CoverInv
  <2>2. CASE Call
    BY <2>1, <2>2, CallKeepsCover
  <2>3. CASE \E tx \in pool : \/ ApprovalMined(tx) \/ SwapMined(tx) \/ WrapMined(tx)
                              \/ ForeignMined(tx) \/ Reverted(tx)
    BY <2>1, <2>3, MinedKeepsCover
  <2>4. CASE ForeignSends \/ SpotMoves \/ (\E tx \in pool : Dropped(tx)) \/ UNCHANGED vars
    <3>1. UNCHANGED <<callVars, bal, shortfall>>
      BY <2>4 DEF ForeignSends, SpotMoves, Dropped, vars, chainVars, callVars, historyVars
    <3>2. UNCHANGED <<pc, call, sent, receipt, lots, bal, shortfall>>
      BY <3>1 DEF callVars
    <3> QED  BY <2>1, <3>2 DEF CoverInv, CallHasItsLot, FloorIsOfQuote, CreditIsCovered, Credit,
                HasMoved, HasSucceeded
  <2> QED  BY <2>2, <2>3, <2>4 DEF Next, Chain
<1>2. CoverInv => LedgerIsCovered
  <2> SUFFICES ASSUME CoverInv  PROVE LedgerIsCovered
    OBVIOUS
  <2>1. /\ LotsOf(lots) \in Nat /\ Credit \in Nat /\ bal["base"] \in Nat /\ shortfall \in Nat
        /\ LotsOf(lots) + Credit <= bal["base"] + shortfall
    BY CoverTypes DEF CoverInv, CreditIsCovered
  <2> QED  BY <2>1 DEF LedgerIsCovered
<1> QED  BY <1>1, <1>2, InitCoverInv, PTL DEF Spec

-----------------------------------------------------------------------------
(* The refinement *)

LateIds == {Id(tx) : tx \in Late}

LEMMA CallLeavesThePool ==
    ASSUME PathInv, Buys \/ Sells \/ Wraps \/ Quotes \/ ReadsAllowance \/ Checks \/ ReadsNonce \/ NextStage
    PROVE  LateIds' = LateIds /\ UNCHANGED moved
<1>1. UNCHANGED <<pool, moved>>
  BY DEF Buys, Sells, Wraps, Calls, Quotes, ReadsAllowance, Checks, ReadsNonce, NextStage,
     chainVars, historyVars
<1>2. CASE ~NextStage
  <2>1. pc # "wait" /\ pc' # "wait"
    BY <1>2 DEF Buys, Sells, Wraps, Calls, Quotes, ReadsAllowance, Checks, ReadsNonce
  <2> QED  BY <1>1, <2>1 DEF LateIds, Late, Awaited, Moves, Id
<1>3. CASE NextStage
  <2>1. pc = "wait" /\ ~Moves(sent) /\ pc' = "check"
    BY <1>3 DEF NextStage, HasSucceeded, Moves, PathInv, SentIsSound
  <2>2. Late' = Late
    BY <1>1, <2>1 DEF Late, Awaited, Moves
  <2> QED  BY <1>1, <2>2 DEF LateIds, Id
<1> QED  BY <1>2, <1>3

LEMMA SendsLeavesTheLate ==
    ASSUME PathInv, Sends
    PROVE  LateIds' = LateIds
<1>1. /\ OwnTx.nonce = nonce
      /\ pool' = {t \in pool : t.nonce # nonce} \cup {OwnTx}
      /\ sent' = OwnTx /\ pc = "sign" /\ pc' = "wait"
  BY DEF Sends, Enters, OwnTx
<1>2. \A t \in pool : Moves(t) => t.nonce # nonce
  BY <1>1 DEF PathInv, OwnNoncesNeverClash, Moves
<1>3. Late' = Late
  BY <1>1, <1>2 DEF Late, Awaited, Moves
<1> QED  BY <1>3 DEF LateIds, Id

(* What happens to the late transactions when one leaves the pool, or is   *)
(* replaced by one of the other sender's.                                  *)
LEMMA OneLeaves ==
    ASSUME PathInv, NEW tx \in pool, UNCHANGED <<pc, sent>>,
           \/ pool' = pool \ {tx}
           \/ \E n \in Nat : tx.nonce = n /\ pool' = {t \in pool : t.nonce # n} \cup {ForeignTx(n)}
    PROVE  LateIds' = IF tx \in Late THEN LateIds \ {Id(tx)} ELSE LateIds
<1>1. \A s, t \in pool : Id(s) = Id(t) => s = t
  BY DEF PathInv, TypeOK, Id
<1>2. \A n \in Nat : ~Moves(ForeignTx(n))
  BY DEF Moves, ForeignTx
<1>3. Late' = Late \ {tx}
  <2>1. CASE pool' = pool \ {tx}
    BY <2>1 DEF Late, Awaited, Moves
  <2>2. CASE \E n \in Nat : tx.nonce = n /\ pool' = {t \in pool : t.nonce # n} \cup {ForeignTx(n)}
    <3>1. PICK n \in Nat : tx.nonce = n /\ pool' = {t \in pool : t.nonce # n} \cup {ForeignTx(n)}
      BY <2>2
    <3>2. {t \in pool : t.nonce # n} = pool \ {tx}
      BY <3>1 DEF PathInv, TypeOK
    <3> QED  BY <1>2, <3>1, <3>2 DEF Late, Awaited, Moves
  <2> QED  BY <2>1, <2>2
<1>4. Late \subseteq pool
  BY DEF Late
<1> QED  BY <1>1, <1>3, <1>4 DEF LateIds, Id

LEMMA LateIsTxs ==
    ASSUME PathInv, NEW tx \in pool \cup {sent}, Moves(tx), tx = sent => pc = "wait"
    PROVE  Id(tx) \in (0 .. MaxNonce - 1) \X Kinds /\ KindOfId(Id(tx)) = tx.kind
<1>1. tx \in Tx /\ SoundTx(tx)
  BY DEF PathInv, TypeOK, PoolIsSound, SentIsSound
<1>2. tx.kind \in Kinds /\ tx.nonce \in Nat /\ tx.nonce < MaxNonce
  BY <1>1 DEF SoundTx, Moves, Tx, Stages
<1> QED  BY <1>2, BoundsAreNat DEF Id, KindOfId

(* The awaited transaction, when it moves coins, has done nothing before.  *)
LEMMA AwaitedIsNew ==
    ASSUME PathInv, pc = "wait", Moves(sent)
    PROVE  Id(sent) \notin moved \cup LateIds
<1>1. Id(sent) \notin moved
  BY DEF PathInv, SentIsSound
<1>2. \A tx \in Late : tx.nonce # sent.nonce
  BY DEF PathInv, SentIsSound, Late, Awaited, Moves
<1> QED  BY <1>1, <1>2 DEF LateIds, Id

LEMMA SentIsOwn ==
    ASSUME PathInv, pc = "wait", Moves(sent)
    PROVE  Id(sent) \in Promise!Own
<1>1. Id(sent) \in (0 .. MaxNonce - 1) \X Kinds /\ KindOfId(Id(sent)) = call.kind
  BY LateIsTxs DEF PathInv, SentIsSound
<1>2. Id(sent) \notin moved \cup {Id(tx) : tx \in Late}
  BY AwaitedIsNew DEF LateIds
<1> QED  BY <1>1, <1>2 DEF Promise!Own

LEMMA AskingIsAsking ==
    ASSUME PathInv, Buys \/ Sells \/ Wraps
    PROVE  Promise!Ask
<1>1. call.kind = "none" /\ call'.kind \in Kinds /\ answer' = "none"
  BY DEF PathInv, TypeOK, Buys, Sells, Wraps, Calls, NoCall, Kinds
<1>2. LateIds' = LateIds /\ UNCHANGED moved
  BY CallLeavesThePool
<1> QED  BY <1>1, <1>2 DEF Promise!Ask, LateIds

LEMMA WorkingIsStuttering ==
    ASSUME PathInv, Quotes \/ ReadsAllowance \/ Checks \/ ReadsNonce \/ Sends \/ NextStage
    PROVE  UNCHANGED Promise!promise
<1>1. call'.kind = call.kind /\ UNCHANGED <<moved, answer>>
  BY DEF PathInv, TypeOK, Quotes, ReadsAllowance, Checks, ReadsNonce, Sends, NextStage, historyVars
<1>2. LateIds' = LateIds
  BY CallLeavesThePool, SendsLeavesTheLate
<1> QED  BY <1>1, <1>2 DEF Promise!promise, LateIds

(* A call that ends without a receipt leaves what it has out behind.       *)
LEMMA OverLeaves ==
    ASSUME PathInv, NEW how, Over(how), UNCHANGED chainVars
    PROVE  \/ LateIds' = LateIds
           \/ pc = "wait" /\ ~HasMoved /\ Moves(sent) /\ LateIds' = LateIds \cup {Id(sent)}
<1>1. pool' = pool /\ pc' = "idle"
  BY DEF Over, chainVars
<1>2. Late' = {tx \in pool : Moves(tx)}
  BY <1>1 DEF Late, Awaited, Moves
<1>3. CASE pc = "wait" /\ sent \in pool /\ Moves(sent)
  <2>1. ~HasMoved
    BY <1>3 DEF PathInv, TypeOK, SentIsSound, HasMoved, HasSucceeded, Tx
  <2>2. Late' = Late \cup {sent}
    BY <1>2, <1>3 DEF Late, Awaited
  <2>3. LateIds' = LateIds \cup {Id(sent)}
    BY <2>2 DEF LateIds, Id
  <2> QED  BY <1>3, <2>1, <2>3
<1>4. CASE ~(pc = "wait" /\ sent \in pool /\ Moves(sent))
  <2>1. Late' = Late
    BY <1>2, <1>4 DEF Late, Awaited
  <2> QED  BY <2>1 DEF LateIds, Id
<1> QED  BY <1>3, <1>4

LEMMA ReturningIsOk ==
    ASSUME PathInv, Returns
    PROVE  Promise!Ok
<1>1. pc = "wait" /\ HasMoved /\ Moves(sent)
  BY DEF Returns, HasMoved, HasSucceeded, Moves, PathInv, SentIsSound
<1>2. call.kind # "none" /\ call'.kind = "none" /\ answer' = "ok"
      /\ moved' = moved \cup {Id(sent)} /\ Over("ok") /\ UNCHANGED chainVars
  BY <1>1 DEF Returns, Over, NoCall, PathInv, TypeOK
<1>3. LateIds' = LateIds
  BY <1>1, <1>2, OverLeaves
<1>4. Id(sent) \in Promise!Own
  BY <1>1, SentIsOwn
<1> QED  BY <1>2, <1>3, <1>4 DEF Promise!Ok, Promise!Ends, LateIds

LEMMA FailingIsRaising ==
    ASSUME PathInv, Fails
    PROVE  Promise!Raise
<1>1. call.kind # "none" /\ call'.kind = "none" /\ answer' = "raised"
      /\ Over("raised") /\ UNCHANGED chainVars
  BY DEF Fails, Over, NoCall, PathInv, TypeOK
<1>2. Promise!Ends("raised")
  BY <1>1 DEF Promise!Ends
<1>3. CASE HasMoved
  <2>1. moved' = moved \cup {Id(sent)} /\ pc = "wait" /\ Moves(sent)
    BY <1>3 DEF Fails, HasMoved, HasSucceeded
  <2>2. LateIds' = LateIds
    BY <1>1, <1>3, OverLeaves
  <2> QED  BY <1>2, <2>1, <2>2, SentIsOwn DEF Promise!Raise, LateIds
<1>4. CASE ~HasMoved /\ LateIds' = LateIds
  <2>1. moved' = moved
    BY <1>4 DEF Fails
  <2> QED  BY <1>2, <1>4, <2>1 DEF Promise!Raise, LateIds
<1>5. CASE ~HasMoved /\ pc = "wait" /\ Moves(sent) /\ LateIds' = LateIds \cup {Id(sent)}
  <2>1. moved' = moved
    BY <1>5 DEF Fails
  <2> QED  BY <1>2, <1>5, <2>1, SentIsOwn DEF Promise!Raise, LateIds
<1> QED  BY <1>1, <1>3, <1>4, <1>5, OverLeaves

LEMMA MiningIsMoving ==
    ASSUME PathInv, NEW tx \in pool,
           \/ ApprovalMined(tx) \/ SwapMined(tx) \/ WrapMined(tx) \/ ForeignMined(tx)
           \/ Reverted(tx) \/ Dropped(tx)
    PROVE  Promise!Next \/ UNCHANGED Promise!promise
<1>1. pool' = pool \ {tx} /\ UNCHANGED <<pc, sent, call, answer>>
  BY DEF ApprovalMined, SwapMined, WrapMined, ForeignMined, Reverted, Included, Dropped,
     callVars, historyVars
<1>2. LateIds' = IF tx \in Late THEN LateIds \ {Id(tx)} ELSE LateIds
  BY <1>1, OneLeaves
<1>3. \/ moved' = moved
      \/ tx \in Late /\ moved' = moved \cup {Id(tx)}
  BY DEF ApprovalMined, SwapMined, WrapMined, ForeignMined, Reverted, Dropped, Late, Moves,
     historyVars
<1>4. tx \in Late => Id(tx) \in LateIds
  BY DEF LateIds
<1>5. CASE tx \notin Late
  BY <1>1, <1>2, <1>3, <1>5 DEF Promise!promise, LateIds
<1>6. CASE tx \in Late /\ moved' = moved
  BY <1>1, <1>2, <1>4, <1>6 DEF Promise!Next, Promise!LateDropped, LateIds
<1>7. CASE tx \in Late /\ moved' = moved \cup {Id(tx)}
  BY <1>1, <1>2, <1>4, <1>7 DEF Promise!Next, Promise!LateMoves, LateIds
<1> QED  BY <1>3, <1>5, <1>6, <1>7

LEMMA OthersMayDrop ==
    ASSUME PathInv, ForeignSends \/ SpotMoves
    PROVE  Promise!LateDropped \/ UNCHANGED Promise!promise
<1>1. UNCHANGED <<callVars, moved, answer>>
  BY DEF ForeignSends, SpotMoves, historyVars
<1>2. CASE SpotMoves
  BY <1>1, <1>2 DEF SpotMoves, Promise!promise, Late, Awaited, Moves, Id, callVars
<1>3. CASE ForeignSends
  <2>1. PICK n \in 0 .. MaxNonce - 1 : Enters(ForeignTx(n))
    BY <1>3 DEF ForeignSends
  <2>2. pool' = {t \in pool : t.nonce # n} \cup {ForeignTx(n)} /\ n \in Nat
    BY <2>1 DEF Enters, ForeignTx
  <2>3. CASE \E tx \in pool : tx.nonce = n
    <3>1. PICK tx \in pool : tx.nonce = n
      BY <2>3
    <3>2. LateIds' = IF tx \in Late THEN LateIds \ {Id(tx)} ELSE LateIds
      BY <1>1, <2>2, <3>1, OneLeaves DEF callVars
    <3>3. tx \in Late => Id(tx) \in LateIds
      BY DEF LateIds
    <3> QED  BY <1>1, <3>2, <3>3 DEF Promise!LateDropped, Promise!promise, LateIds, callVars
  <2>4. CASE ~\E tx \in pool : tx.nonce = n
    <3>1. Late' = Late
      BY <1>1, <2>2, <2>4 DEF Late, Awaited, Moves, ForeignTx, callVars
    <3> QED  BY <1>1, <3>1 DEF Promise!promise, Id, callVars
  <2> QED  BY <2>3, <2>4
<1> QED  BY <1>2, <1>3

(* execute_swap and wrap_bnb keep the promise that the ledger operations   *)
(* rest on, for any amounts, prices and limits: coins are moved once, by a *)
(* call that returns or by the one transaction of a call that raised.      *)
THEOREM SwapPathImplementsPromise == Spec => ImplementsPromise
<1>1. Init => Promise!Init
  BY DEF Init, Promise!Init, Late, NoCall
<1>2. PathInv /\ [Next]_vars => [Promise!Next]_(Promise!promise)
  <2> SUFFICES ASSUME PathInv, [Next]_vars  PROVE Promise!Next \/ UNCHANGED Promise!promise
    OBVIOUS
  <2>1. CASE Buys \/ Sells \/ Wraps
    BY <2>1, AskingIsAsking DEF Promise!Next
  <2>2. CASE Quotes \/ ReadsAllowance \/ Checks \/ ReadsNonce \/ Sends \/ NextStage
    BY <2>2, WorkingIsStuttering
  <2>3. CASE Returns \/ Fails
    BY <2>3, ReturningIsOk, FailingIsRaising DEF Promise!Next
  <2>4. CASE ForeignSends \/ SpotMoves
    BY <2>4, OthersMayDrop DEF Promise!Next
  <2>5. CASE \E tx \in pool : \/ ApprovalMined(tx) \/ SwapMined(tx) \/ WrapMined(tx)
                              \/ ForeignMined(tx) \/ Reverted(tx) \/ Dropped(tx)
    BY <2>5, MiningIsMoving
  <2>6. CASE UNCHANGED vars
    BY <2>6 DEF vars, chainVars, callVars, historyVars, Promise!promise, Late, Awaited, Moves, Id
  <2> QED  BY <2>1, <2>2, <2>3, <2>4, <2>5, <2>6 DEF Next, Call, Chain
<1> QED  BY <1>1, <1>2, PathInvHolds, PTL DEF Spec, ImplementsPromise, Promise!Spec
=============================================================================
