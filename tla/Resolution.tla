------------------------------ MODULE Resolution ------------------------------
(***************************************************************************)
(* Clusters of documents and their canonical parents: what the union-find  *)
(* of src/union_find.rs computes, without the paths of its forest.  An     *)
(* edge is the set of its two ends; a self-edge of the oldest files, which *)
(* joins nothing, has one.                                                 *)
(***************************************************************************)

(* The sets that no edge leaves.                                           *)
Closed(documents, edges) ==
  {S \in SUBSET documents : \A edge \in edges : edge \cap S = {} \/ edge \subseteq S}

(* The cluster of a document: whatever unions join it with.                *)
ClusterOf(d, documents, edges) ==
  {e \in documents : \A S \in Closed(documents, edges) : d \in S => e \in S}

(* Each union keeps the root that precedes the other one.                  *)
RootOf(K, Precedes(_, _)) == CHOOSE m \in K : \A x \in K : Precedes(m, x)
===============================================================================
