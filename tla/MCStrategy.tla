----------------------------- MODULE MCStrategy -----------------------------
(* TLC instances of Strategy. *)
EXTENDS Strategy, TLC

LadderOf(a, b) == [i \in 0 .. 1 |-> IF i = 0 THEN a ELSE b]

(* Two rungs and a price on each.  Re-activating moves the centre.  Of the *)
(* ladders update_grid may build, one lies so low that both rungs of the   *)
(* first fall on its top rung, where two lots become one; on the other     *)
(* both fall on the lower rung and the second lot is nudged up.            *)
MCPrices   == {2, 4}
MCGridFor  == [p \in MCPrices |-> LadderOf(2, 4)]
MCReshapes == {LadderOf(1, 2), LadderOf(2, 5)}
Symmetry   == Permutations(Procs)

(* Bound of the ledger run: a behaviour is followed until the ledger and   *)
(* the wallet may have parted.                                             *)
UntilDamaged == intact

(* The operations of the ledger run: all but the emergency stop, which     *)
(* touches the latch only and is what the progress run is about.           *)
LedgerOps == AllOps \ {"stop"}

(* The operations of the progress run: those with several steps and loops, *)
(* the forced step, a stop that nobody releases, crashes.                  *)
LiveOps == {"force", "cancel", "activate", "stop", "crash"}

(* An emergency stop against a running grid, and its release.              *)
LatchOps == {"step", "activate", "stop", "resume"}
=============================================================================
