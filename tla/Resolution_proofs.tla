---------------------------- MODULE Resolution_proofs ----------------------------
(***************************************************************************)
(* Lemmas about Resolution, for any documents and edges, on which the      *)
(* proofs about Phase 3 and about the standalone synchronisation rest.     *)
(***************************************************************************)
EXTENDS Naturals, Resolution, WellFoundedInduction, TLAPS

(* A document is in its cluster, which is made of documents.               *)
LEMMA ClusterContains ==
  ASSUME NEW Ds, NEW edges, NEW d \in Ds
  PROVE  d \in ClusterOf(d, Ds, edges) /\ ClusterOf(d, Ds, edges) \subseteq Ds
BY DEF ClusterOf

(* No edge leaves a cluster.                                               *)
LEMMA ClusterClosed ==
  ASSUME NEW Ds, NEW edges, edges \subseteq SUBSET Ds, NEW d \in Ds,
         NEW p \in edges, p \cap ClusterOf(d, Ds, edges) # {}
  PROVE  p \subseteq ClusterOf(d, Ds, edges)
<1>1. PICK x \in p : x \in ClusterOf(d, Ds, edges)
  OBVIOUS
<1>2. ASSUME NEW y \in p, NEW S \in Closed(Ds, edges), d \in S
      PROVE  y \in S
  <2>1. x \in S
    BY <1>1, <1>2 DEF ClusterOf
  <2> QED
    BY <2>1 DEF Closed
<1> QED
  BY <1>2 DEF ClusterOf

(* Two documents of a cluster have the same cluster.                       *)
LEMMA SameCluster ==
  ASSUME NEW Ds, NEW edges, edges \subseteq SUBSET Ds, NEW d \in Ds,
         NEW e \in ClusterOf(d, Ds, edges)
  PROVE  ClusterOf(e, Ds, edges) = ClusterOf(d, Ds, edges)
<1> DEFINE D == ClusterOf(d, Ds, edges)
           E == ClusterOf(e, Ds, edges)
<1>1. e \in Ds /\ D \subseteq Ds /\ d \in D /\ e \in E
  BY ClusterContains
<1>2. D \in Closed(Ds, edges)
  BY <1>1, ClusterClosed DEF Closed
<1>3. E \in Closed(Ds, edges)
  BY <1>1, ClusterContains, ClusterClosed DEF Closed
<1>4. E \subseteq D
  BY <1>2 DEF ClusterOf
<1>5. D \ E \in Closed(Ds, edges)
  BY <1>1, <1>2, <1>3 DEF Closed
<1>6. d \in E
  <2>1. d \notin D \ E
    BY <1>1, <1>5 DEF ClusterOf
  <2> QED
    BY <1>1, <2>1
<1>7. D \subseteq E
  BY <1>3, <1>6 DEF ClusterOf
<1> QED
  BY <1>4, <1>7

(* A set of numbers has a least one.                                       *)
LEMMA MinimumExists ==
  ASSUME NEW T \in SUBSET Nat, T # {}
  PROVE  \E m \in T : \A x \in T : m <= x
<1> DEFINE Less == {ss \in Nat \X Nat : ss[1] < ss[2]}
<1>1. IsWellFoundedOn(Less, Nat)
  BY NatLessThanWellFounded DEF OpToRel
<1> HIDE DEF Less
<1>2. PICK m \in T : \A x \in T : ~ (<<x, m>> \in Less)
  BY <1>1, WFMin
<1>3. \A x \in T : ~ (x < m)
  BY <1>2 DEF Less
<1> QED
  BY <1>3

===============================================================================
