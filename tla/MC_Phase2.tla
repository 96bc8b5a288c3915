------------------------------ MODULE MC_Phase2 ------------------------------
(***************************************************************************)
(* Small instances of Phase 2.  In the chain, 1-2 and 2-3 are duplicates,  *)
(* 1-3 are not: 1 and 2 have the same length, so the direction of their    *)
(* edge depends on which one is processed, and 3 is longer.  In the star,  *)
(* 2 is the duplicate of all others, most strongly of 3.                   *)
(***************************************************************************)
EXTENDS Phase2

SymmetricMatrix(level(_)) == [p \in Docs \X Docs |-> level({p[1], p[2]})]

ChainLevel(p) == IF p \in {{1, 2}, {2, 3}} THEN 1 ELSE 0
Chain == SymmetricMatrix(ChainLevel)
ChainLength == [d \in Docs |-> IF d = 3 THEN 105 ELSE 100]

StarLevel(p) == CASE p = {2, 3} -> 2
                  [] p \in {{1, 2}, {2, 4}} -> 1
                  [] OTHER -> 0
Star == SymmetricMatrix(StarLevel)
StarLength == [d \in Docs |-> IF d = 1 THEN 0 ELSE 100 + d]
===============================================================================
