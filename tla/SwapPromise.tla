---------------------------- MODULE SwapPromise ----------------------------
(***************************************************************************)
(* What a caller of the write path is promised, which is what Strategy     *)
(* assumes of it: a call that returns ok has moved its coins, once; a call *)
(* that raises has moved nothing, or has one transaction that did or still *)
(* may; and nothing else moves coins.                                      *)
(***************************************************************************)
CONSTANTS
    Kinds,   \* what may be called: a buy, a sale, a wrap
    NoCall,  \* no call under way
    Txs,     \* the transactions that move coins
    KindOf(_)

VARIABLES
    call,    \* the kind of the call under way, or NoCall
    moved,   \* the transactions whose coins have moved
    late,    \* transactions of calls that gave up on them
    answer   \* how the last call ended, or none

promise == <<call, moved, late, answer>>

Init == call = NoCall /\ moved = {} /\ late = {} /\ answer = "none"

(* A transaction of the call under way that has done nothing before. *)
Own == {t \in Txs \ (moved \cup late) : KindOf(t) = call}

Ask == /\ call = NoCall
       /\ call' \in Kinds
       /\ answer' = "none"
       /\ UNCHANGED <<moved, late>>

Ends(how) == call # NoCall /\ call' = NoCall /\ answer' = how

Ok == /\ Ends("ok")
      /\ UNCHANGED late
      /\ \E t \in Own : moved' = moved \cup {t}

Raise == /\ Ends("raised")
         /\ \/ UNCHANGED <<moved, late>>
            \/ \E t \in Own : late' = late \cup {t} /\ UNCHANGED moved
            \/ \E t \in Own : moved' = moved \cup {t} /\ UNCHANGED late

LateMoves == /\ UNCHANGED <<call, answer>>
             /\ \E t \in late : late' = late \ {t} /\ moved' = moved \cup {t}

LateDropped == /\ UNCHANGED <<call, answer, moved>>
               /\ \E t \in late : late' = late \ {t}

Next == Ask \/ Ok \/ Raise \/ LateMoves \/ LateDropped

Spec == Init /\ [][Next]_promise
=============================================================================
