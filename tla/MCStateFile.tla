---------------------------- MODULE MCStateFile -----------------------------
(* TLC instances of StateFile. *)
EXTENDS StateFile, TLC

CONSTANTS fresh, traded, stopped  \* three documents, by length of their text

MCSize == (fresh :> 1) @@ (stopped :> 2) @@ (traded :> 3)

Symmetry == Permutations(Procs) \cup Permutations(Inodes)
=============================================================================
