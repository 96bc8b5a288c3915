--------------------------- MODULE MC_IncrementalRun ---------------------------
(***************************************************************************)
(* Small instances of IncrementalRun.  In the bridge, 1-3 and 2-4 are two  *)
(* clusters until 3-4 joins them; documents arrive in any order, so each   *)
(* of them can be the one that bridges.  Otherwise all documents of a      *)
(* pathological cluster are duplicates of each other.                      *)
(***************************************************************************)
EXTENDS IncrementalRun

Bridge == {{1, 3}, {3, 4}, {2, 4}}
Everybody == {{a, b} : a \in Cluster, b \in Cluster} \ {{d} : d \in Cluster}
Path   == {{1, 2}, {2, 3}}
===============================================================================
