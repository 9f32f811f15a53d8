--------------------------- MODULE MCAtomicWrite ---------------------------
(***************************************************************************)
(* A run of fmt on the source, and a run of lint --fix whose two workers   *)
(* are handed the source and the link to it.                               *)
(***************************************************************************)
EXTENDS AtomicWrite, TLC

CONSTANTS fmt, lint, j1, j2, j3

MCRunOf  == [j \in Jobs |-> IF j = j1 THEN fmt ELSE lint]
MCPathOf == [j \in Jobs |-> IF j = j3 THEN Link ELSE Src]
Symmetry == Permutations(Inodes)
=============================================================================
