------------------------------ MODULE MC_SyncMode ------------------------------
(***************************************************************************)
(* A small instance of SyncMode: a cluster of four in which 3, with a      *)
(* self-edge of the oldest files, is the preferred root.                   *)
(***************************************************************************)
EXTENDS SyncMode

Path == {{1, 2}, {2, 3}, {3, 4}}

Rows4(p) == {<<d, p>> : d \in Docs \ {p}}

Left(rows, parents, children) ==
  [dupes    |-> rows,
   isParent |-> [d \in Docs |-> IF d \in parents THEN "true"
                               ELSE IF d \in children THEN "false" ELSE "null"]]

(* What other runs leave in the database: nothing; the whole cluster, with *)
(* whichever document came first as its parent; its rows but no marks, by  *)
(* a death or a reset; its rows and the marks of its children, by a death; *)
(* two clusters, and a document that is not settled yet.                   *)
Earlier ==
  {Left({}, {}, {})}
    \cup {Left(Rows4(p), {p}, Docs \ {p}) : p \in Docs}
    \cup {Left(Rows4(p), {}, {}) : p \in {1, 4}}
    \cup {Left(Rows4(p), {}, Docs \ {p}) : p \in {2, 4}}
    \cup {Left({<<1, 2>>, <<3, 4>>}, {2, 4}, {1, 3}), Left({<<3, 2>>}, {2, 4}, {3})}
===============================================================================
