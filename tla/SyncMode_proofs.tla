---------------------------- MODULE SyncMode_proofs ----------------------------
(***************************************************************************)
(* Proofs about SyncMode, for any documents and edges, any number of tasks *)
(* and any sizes of batches, transactions and checkpoint intervals.        *)
(*                                                                         *)
(* SyncInv says what a sync has achieved at each of its steps.  What       *)
(* state.redb promises counts only as long as the sidecars are those that  *)
(* the sync started on; since sidecars only grow, and a sync that is taken *)
(* up keeps what it started on, they can never become so again; and only   *)
(* as long as no other run has written to the database.                    *)
(***************************************************************************)
EXTENDS SyncMode, Resolution_proofs, FiniteSetTheorems, SequenceTheorems

(* The lesser of two numbers.                                              *)
LEMMA MinOfTwo ==
  ASSUME NEW a \in Int, NEW b \in Int
  PROVE  Min({a, b}) = IF a <= b THEN a ELSE b
BY DEF Min

(* The elements of a part of a sequence.                                   *)
LEMMA PartOfSequence ==
  ASSUME NEW S, NEW s \in Seq(S), NEW m \in Nat \ {0}, NEW n \in Int, n <= Len(s)
  PROVE  /\ SubSeq(s, m, n) \in Seq(S)
         /\ \A x \in ToSet(SubSeq(s, m, n)) : \E i \in m..n : x = s[i]
         /\ \A i \in m..n : s[i] \in ToSet(SubSeq(s, m, n))
<1> DEFINE part == SubSeq(s, m, n)
<1>1. \A i \in m..n : i \in 1..Len(s) /\ s[i] \in S
  OBVIOUS
<1>2. /\ part \in Seq(S)
      /\ Len(part) = IF m <= n THEN n - m + 1 ELSE 0
      /\ \A i \in 1..(n - m + 1) : part[i] = s[m + i - 1]
  BY <1>1, SubSeqProperties
<1>3. DOMAIN part = 1..Len(part)
  BY <1>2
<1> HIDE DEF part
<1>4. ASSUME NEW x \in ToSet(part)
      PROVE  \E i \in m..n : x = s[i]
  <2>1. PICK i \in 1..Len(part) : x = part[i]
    BY <1>3, <1>4 DEF ToSet
  <2>2. m <= n /\ i \in 1..(n - m + 1)
    BY <1>2, <2>1
  <2>3. m + i - 1 \in m..n /\ x = s[m + i - 1]
    BY <1>2, <2>1, <2>2
  <2> QED
    BY <2>3
<1>5. ASSUME NEW i \in m..n
      PROVE  s[i] \in ToSet(part)
  <2>1. i - m + 1 \in 1..(n - m + 1) /\ i - m + 1 \in DOMAIN part
    BY <1>2, <1>3, <1>5
  <2>2. part[i - m + 1] = s[m + (i - m + 1) - 1]
    BY <1>2, <2>1
  <2>3. part[i - m + 1] = s[i]
    BY <2>2
  <2> QED
    BY <2>1, <2>3 DEF ToSet
<1> QED
  BY <1>2, <1>4, <1>5 DEF part

(* A sequence is its first elements and the rest.                          *)
LEMMA CutSequence ==
  ASSUME NEW S, NEW s \in Seq(S), NEW n \in 0..Len(s)
  PROVE  /\ SubSeq(s, 1, n) \in Seq(S) /\ SubSeq(s, n + 1, Len(s)) \in Seq(S)
         /\ ToSet(SubSeq(s, 1, n)) \subseteq ToSet(s)
         /\ ToSet(SubSeq(s, n + 1, Len(s))) \subseteq ToSet(s)
         /\ \A x \in ToSet(s) : \/ x \in ToSet(SubSeq(s, 1, n))
                                \/ x \in ToSet(SubSeq(s, n + 1, Len(s)))
<1>1. /\ SubSeq(s, 1, n) \in Seq(S)
      /\ \A x \in ToSet(SubSeq(s, 1, n)) : \E i \in 1..n : x = s[i]
      /\ \A i \in 1..n : s[i] \in ToSet(SubSeq(s, 1, n))
  BY PartOfSequence, 1 \in Nat \ {0}
<1>2. /\ SubSeq(s, n + 1, Len(s)) \in Seq(S)
      /\ \A x \in ToSet(SubSeq(s, n + 1, Len(s))) : \E i \in (n + 1)..Len(s) : x = s[i]
      /\ \A i \in (n + 1)..Len(s) : s[i] \in ToSet(SubSeq(s, n + 1, Len(s)))
  <2>1. n + 1 \in Nat \ {0} /\ Len(s) \in Int /\ Len(s) <= Len(s)
    OBVIOUS
  <2> QED
    BY <2>1, PartOfSequence
<1>3. DOMAIN s = 1..Len(s)
  OBVIOUS
<1>4. \A i \in 1..Len(s) : i \in 1..n \/ i \in (n + 1)..Len(s)
  OBVIOUS
<1>5. ASSUME NEW x \in ToSet(s)
      PROVE  \/ x \in ToSet(SubSeq(s, 1, n))
             \/ x \in ToSet(SubSeq(s, n + 1, Len(s)))
  <2>1. PICK i \in 1..Len(s) : x = s[i]
    BY <1>3, <1>5 DEF ToSet
  <2> QED
    BY <1>1, <1>2, <1>4, <2>1
<1>6. \A i \in 1..Len(s) : s[i] \in ToSet(s)
  BY <1>3 DEF ToSet
<1>7. ToSet(SubSeq(s, 1, n)) \subseteq ToSet(s)
  BY <1>1, <1>6
<1>8. ToSet(SubSeq(s, n + 1, Len(s))) \subseteq ToSet(s)
  BY <1>2, <1>6
<1> QED
  BY <1>1, <1>2, <1>5, <1>7, <1>8

(* In a finite set of numbers, the rank of a number is how many are not    *)
(* above it; a greater number has a greater rank.                          *)
LEMMA SortedListExists ==
  ASSUME NEW D \in SUBSET Nat, IsFiniteSet(D)
  PROVE  \E s \in [1..Cardinality(D) -> D] : \A i, j \in DOMAIN s : i < j => s[i] < s[j]
<1> DEFINE n == Cardinality(D)
           UpTo(d) == {x \in D : x <= d}
           rank == [d \in D |-> Cardinality(UpTo(d))]
<1>1. n \in Nat
  BY FS_CardinalityType
<1>2. ASSUME NEW d \in D
      PROVE  rank[d] \in 1..n
  <2>1. IsFiniteSet(UpTo(d)) /\ Cardinality(UpTo(d)) <= n
    BY FS_Subset
  <2>2. Cardinality(UpTo(d)) \in Nat
    BY <2>1, FS_CardinalityType
  <2>3. UpTo(d) # {}
    BY <1>2
  <2>4. Cardinality(UpTo(d)) # 0
    BY <2>1, <2>3, FS_EmptySet
  <2> QED
    BY <1>1, <2>1, <2>2, <2>4
<1>3. ASSUME NEW d \in D, NEW e \in D, d < e
      PROVE  rank[d] < rank[e]
  <2>1. IsFiniteSet(UpTo(e)) /\ UpTo(d) \in SUBSET UpTo(e)
    <3>1. \A x \in UpTo(d) : x <= e
      BY <1>3
    <3>2. UpTo(e) \in SUBSET D
      OBVIOUS
    <3> QED
      BY <3>1, <3>2, FS_Subset
  <2>2. UpTo(d) # UpTo(e)
    BY <1>3
  <2>3. /\ Cardinality(UpTo(d)) <= Cardinality(UpTo(e))
        /\ Cardinality(UpTo(d)) # Cardinality(UpTo(e))
    BY <2>1, <2>2, FS_Subset
  <2>4. rank[d] \in Nat /\ rank[e] \in Nat
    BY <1>2
  <2> QED
    BY <2>3, <2>4
<1> HIDE DEF rank
<1>4. rank \in Injection(D, 1..n)
  <2>1. rank \in [D -> 1..n]
    BY <1>2 DEF rank
  <2>2. ASSUME NEW d \in D, NEW e \in D, rank[d] = rank[e]
        PROVE  d = e
    BY <1>2, <1>3, <2>2
  <2> QED
    BY <2>1, <2>2 DEF Injection, IsInjective
<1>5. rank \in Surjection(D, 1..n)
  <2>1. IsFiniteSet(1..n) /\ Cardinality(1..n) = n
    BY <1>1, FS_Interval
  <2> QED
    BY <1>4, <2>1, FS_Injection
<1>6. \A i \in 1..n : \E d \in D : rank[d] = i
  BY <1>5 DEF Surjection
<1> DEFINE list == [i \in 1..n |-> CHOOSE d \in D : rank[d] = i]
<1>7. \A i \in 1..n : list[i] \in D /\ rank[list[i]] = i
  BY <1>6
<1>8. list \in [1..n -> D] /\ DOMAIN list = 1..n
  BY <1>7
<1> HIDE DEF list
<1>9. ASSUME NEW i \in 1..n, NEW j \in 1..n, i < j
      PROVE  list[i] < list[j]
  <2>1. list[i] \in D /\ list[j] \in D /\ rank[list[i]] = i /\ rank[list[j]] = j
    BY <1>7
  <2>2. list[j] < list[i] => j < i
    BY <1>3, <2>1
  <2>3. ~ (list[j] < list[i]) /\ list[j] # list[i]
    BY <1>1, <1>9, <2>1, <2>2
  <2>4. list[i] \in Nat /\ list[j] \in Nat
    BY <2>1
  <2> QED
    BY <2>3, <2>4
<1> QED
  BY <1>8, <1>9 DEF n

(* A sorted list has each element of its set, once.                        *)
LEMMA ListInOrder ==
  ASSUME NEW D \in SUBSET Nat, IsFiniteSet(D)
  PROVE  /\ InOrder(D) \in Seq(D) /\ DOMAIN InOrder(D) = 1..Cardinality(D)
         /\ Len(InOrder(D)) = Cardinality(D) /\ Cardinality(D) \in Nat
         /\ \A i, j \in DOMAIN InOrder(D) : i # j => InOrder(D)[i] # InOrder(D)[j]
         /\ ToSet(InOrder(D)) = D
<1> DEFINE n == Cardinality(D)
<1>1. n \in Nat
  BY FS_CardinalityType
<1> DEFINE list == InOrder(D)
<1>2. list \in [1..n -> D] /\ \A i, j \in DOMAIN list : i < j => list[i] < list[j]
  BY SortedListExists DEF InOrder
<1> HIDE DEF list
<1>3. DOMAIN list = 1..n /\ list \in Seq(D) /\ Len(list) = n
  BY <1>1, <1>2
<1>4. \A i, j \in 1..n : i # j => list[i] # list[j]
  <2> SUFFICES ASSUME NEW i \in 1..n, NEW j \in 1..n, i # j PROVE list[i] # list[j]
    OBVIOUS
  <2>1. list[i] \in Nat /\ list[j] \in Nat
    BY <1>2
  <2>2. i < j \/ j < i
    OBVIOUS
  <2> QED
    BY <1>2, <1>3, <2>1, <2>2
<1>5. \A d \in D : \E i \in 1..n : list[i] = d
  <2>1. list \in Injection(1..n, D)
    BY <1>2, <1>3, <1>4 DEF Injection, IsInjective
  <2>2. IsFiniteSet(1..n) /\ Cardinality(1..n) = n
    BY <1>1, FS_Interval
  <2>3. list \in Surjection(1..n, D)
    BY <2>1, <2>2, FS_Injection
  <2> QED
    BY <2>3 DEF Surjection
<1>6. ToSet(list) = D
  BY <1>2, <1>3, <1>5 DEF ToSet
<1> QED
  BY <1>1, <1>3, <1>4, <1>6 DEF list

(* The tasks get all of the list between them.                             *)
LEMMA SlicesCover ==
  ASSUME NEW S, NEW list \in Seq(S)
  PROVE  /\ SlicesOf(list) \in [Workers -> Seq(S)]
         /\ \A w \in Workers : ToSet(SlicesOf(list)[w]) \subseteq ToSet(list)
         /\ \A x \in ToSet(list) : \E w \in Workers : x \in ToSet(SlicesOf(list)[w])
<1> DEFINE L == Len(list)
           size == (L + WorkerCount - 1) \div WorkerCount
           from(w) == (w - 1) * size + 1
           to(w) == Min({w * size, L})
<1>1. L \in Nat /\ WorkerCount \in Nat \ {0} /\ DOMAIN list = 1..L
  BY SizesAssumption
<1>2. size \in Nat /\ WorkerCount * size >= L
  BY <1>1
<1> HIDE DEF size, L
<1>3. ASSUME NEW w \in Workers
      PROVE  /\ from(w) \in Nat \ {0} /\ to(w) \in Int /\ to(w) <= L
             /\ w \in Nat \ {0} /\ w * size \in Nat
             /\ to(w) = IF w * size <= L THEN w * size ELSE L
  <2>1. w \in Nat \ {0} /\ w * size \in Nat /\ (w - 1) * size \in Nat
    BY <1>1, <1>2 DEF Workers
  <2> QED
    BY <1>1, <2>1, MinOfTwo
<1> HIDE DEF from, to
<1>4. ASSUME NEW w \in Workers
      PROVE  /\ SubSeq(list, from(w), to(w)) \in Seq(S)
             /\ \A x \in ToSet(SubSeq(list, from(w), to(w))) : \E i \in from(w)..to(w) : x = list[i]
             /\ \A i \in from(w)..to(w) : list[i] \in ToSet(SubSeq(list, from(w), to(w)))
  BY <1>3, PartOfSequence DEF L
<1>5. SlicesOf(list) = [w \in Workers |-> SubSeq(list, from(w), to(w))]
  BY DEF SlicesOf, from, to, size, L
<1>6. ASSUME NEW w \in Workers, NEW x \in ToSet(SlicesOf(list)[w])
      PROVE  x \in ToSet(list)
  <2>1. PICK i \in from(w)..to(w) : x = list[i]
    BY <1>4, <1>5, <1>6
  <2>2. i \in 1..L
    BY <1>1, <1>3, <2>1
  <2> QED
    BY <1>1, <2>1, <2>2 DEF ToSet
<1>7. ASSUME NEW x \in ToSet(list)
      PROVE  \E w \in Workers : x \in ToSet(SlicesOf(list)[w])
  <2>1. PICK i \in 1..L : x = list[i]
    BY <1>1, <1>7 DEF ToSet
  <2>2. size # 0
    BY <1>1, <1>2, <2>1
  <2> DEFINE k == (i - 1) \div size
  <2>3. k \in Nat /\ k * size <= i - 1 /\ i - 1 < (k + 1) * size
    BY <1>1, <1>2, <2>1, <2>2
  <2> HIDE DEF k
  <2>4. k < WorkerCount
    <3>1. k * size < WorkerCount * size
      BY <1>1, <1>2, <2>1, <2>3
    <3>2. WorkerCount <= k => WorkerCount * size <= k * size
      BY <1>1, <1>2, <2>3
    <3>3. k * size \in Nat /\ WorkerCount * size \in Nat
      BY <1>1, <1>2, <2>3
    <3> QED
      BY <1>1, <2>3, <3>1, <3>2, <3>3
  <2>5. k + 1 \in Workers
    BY <1>1, <2>3, <2>4 DEF Workers
  <2>6. from(k + 1) = k * size + 1 /\ to(k + 1) = IF (k + 1) * size <= L THEN (k + 1) * size ELSE L
    BY <1>3, <2>3, <2>5 DEF from
  <2>7. i \in from(k + 1)..to(k + 1)
    BY <1>1, <1>2, <2>1, <2>3, <2>6
  <2> QED
    BY <1>4, <1>5, <2>1, <2>5, <2>7
<1> QED
  BY <1>4, <1>5, <1>6, <1>7

-------------------------------------------------------------------------------
(* The invariant.                                                          *)

Marking == {"MarkingParents", "MarkingChildren"}

(* Memory follows the step, and state.redb is at the same step or, if a    *)
(* sync has not come to its first checkpoint, at none.                     *)
Stages ==
  /\ mine = Off \/ mine.step \in {"WritingDupes"} \cup Marking
  /\ mine # Off => \/ progress.step = mine.step
                   \/ progress = NotStarted /\ mine.step = "WritingDupes"
  /\ progress.step = "NotStarted" => progress = NotStarted
  /\ mine.step \notin Marking => slices = NoSlices /\ ~broken
  /\ due => mine.step = "WritingDupes"
  /\ mine.step = "WritingDupes" => written < mine.dupes_written + BatchSize

Grown == startedOn \in (SUBSET indexed) \X (SUBSET matches)

(* Which rows state.redb and memory promise.                               *)
Promised(i) ==
  \/ progress.step = "WritingDupes" /\ i <= progress.dupes_written
  \/ mine.step = "WritingDupes" /\ i <= written
  \/ progress.step \in Marking \cup {"Completed"}

RowsWritten ==
  Unchanged => \A i \in DOMAIN Rows : Promised(i) => Rows[i] \in dupes

(* The marking tasks have between them what is still to be marked, and     *)
(* nothing else, unless one of them has given up.                          *)
Shared(D, m) ==
  /\ \A w \in Workers : ToSet(slices[w]) \subseteq D
  /\ ~broken => \A d \in D : isParent[d] = m \/ \E w \in Workers : d \in ToSet(slices[w])

TasksShare ==
  /\ mine.step = "MarkingParents" => Shared(Parents, "true")
  /\ mine.step = "MarkingChildren" => Shared(Children, "false")

(* Which marks state.redb promises.                                        *)
MarksWritten ==
  Unchanged =>
    /\ progress.step \in {"MarkingChildren", "Completed"} =>
         \A d \in Parents \ Children : isParent[d] = "true"
    /\ progress.step = "Completed" => \A d \in Children : isParent[d] = "false"

SyncInv == TypeOK /\ Stages /\ Grown /\ RowsWritten /\ TasksShare /\ MarksWritten

-------------------------------------------------------------------------------
(* What a resolution from scratch yields.                                  *)

(* Every cluster has a root, which precedes all of it.                     *)
LEMMA RootInCluster ==
  ASSUME NEW d \in Docs
  PROVE  Root(d) \in Cluster(d) /\ Root(d) \in Docs
<1> DEFINE K == Cluster(d)
<1>1. d \in K /\ K \subseteq Docs /\ K \subseteq Nat
  BY ClusterContains, EdgesAssumption DEF Cluster
<1>2. \E n \in K : \A x \in K : Precedes(n, x)
  <2>1. CASE \E x \in K : Marker(x)
    <3>1. PICK m \in {x \in K : Marker(x)} : \A x \in {y \in K : Marker(y)} : m <= x
      BY <1>1, <2>1, MinimumExists
    <3> QED
      BY <3>1 DEF Precedes
  <2>2. CASE \A x \in K : ~ Marker(x)
    <3>1. PICK m \in K : \A x \in K : m <= x
      BY <1>1, MinimumExists
    <3> QED
      BY <2>2, <3>1 DEF Precedes
  <2> QED
    BY <2>1, <2>2
<1> QED
  BY <1>1, <1>2 DEF Root, RootOf

(* A root is nobody's child.                                               *)
LEMMA RootIsParent ==
  ASSUME matches \subseteq SUBSET Docs, NEW d \in Children
  PROVE  Root(d) \in Parents \ Children
<1>1. d \in Docs /\ Root(d) \in Cluster(d)
  BY RootInCluster DEF Children
<1>2. Cluster(Root(d)) = Cluster(d)
  BY <1>1, SameCluster DEF Cluster
<1>3. Root(Root(d)) = Root(d)
  BY <1>2 DEF Root
<1> QED
  BY <1>3 DEF Parents, Children

(* The lists of children and of parents are finite sets of documents.      *)
LEMMA Lists ==
  ASSUME indexed \subseteq Docs
  PROVE  /\ Children \in SUBSET Docs /\ IsFiniteSet(Children)
         /\ Parents \in SUBSET Docs /\ IsFiniteSet(Parents)
         /\ Children \in SUBSET Nat /\ Parents \in SUBSET Nat
         /\ Cardinality(Children) \in Nat /\ Cardinality(Docs) \in Nat
         /\ Cardinality(Children) <= Cardinality(Docs)
<1>1. Children \in SUBSET Docs
  BY DEF Children
<1>2. Parents \in SUBSET Docs
  BY <1>1, RootInCluster DEF Parents
<1>3. IsFiniteSet(Children) /\ Cardinality(Children) <= Cardinality(Docs)
  BY <1>1, EdgesAssumption, FS_Subset
<1>4. IsFiniteSet(Parents)
  BY <1>2, EdgesAssumption, FS_Subset
<1>5. Cardinality(Children) \in Nat /\ Cardinality(Docs) \in Nat
  BY <1>3, EdgesAssumption, FS_CardinalityType
<1> QED
  BY <1>1, <1>2, <1>3, <1>4, <1>5, EdgesAssumption

(* There is one row for each child.                                        *)
LEMMA RowsOfChildren ==
  ASSUME indexed \subseteq Docs
  PROVE  /\ DOMAIN Rows = 1..Len(Rows) /\ Len(Rows) \in 0..Cardinality(Docs)
         /\ Rows \in Seq(Docs \X Docs)
         /\ \A i \in DOMAIN Rows : Rows[i][1] \in Children /\ Rows[i] = <<Rows[i][1], Root(Rows[i][1])>>
         /\ \A i, j \in DOMAIN Rows : Rows[i][1] = Rows[j][1] => i = j
         /\ \A d \in Children : \E i \in DOMAIN Rows : Rows[i] = <<d, Root(d)>>
<1> DEFINE child == InOrder(Children)
           n == Cardinality(Children)
<1>1. /\ n \in 0..Cardinality(Docs)
      /\ Children \in SUBSET Docs
  BY Lists
<1>2. /\ child \in Seq(Children) /\ DOMAIN child = 1..n
      /\ \A i, j \in 1..n : i # j => child[i] # child[j]
      /\ ToSet(child) = Children
  BY Lists, ListInOrder
<1> HIDE DEF child, n
<1>3. \A i \in 1..n : child[i] \in Children
  <2>1. \A i \in DOMAIN child : child[i] \in ToSet(child)
    BY DEF ToSet
  <2> QED
    BY <1>2, <2>1
<1>4. \A d \in Children : \E i \in 1..n : child[i] = d
  BY <1>2 DEF ToSet
<1>5. Rows = [i \in 1..n |-> <<child[i], Root(child[i])>>]
  BY <1>2 DEF Rows, child
<1>6. \A i \in 1..n : Root(child[i]) \in Docs /\ child[i] \in Docs
  BY <1>1, <1>3, RootInCluster
<1>7. Rows \in Seq(Docs \X Docs) /\ Len(Rows) = n /\ DOMAIN Rows = 1..n
  BY <1>1, <1>5, <1>6
<1> QED
  BY <1>1, <1>2, <1>3, <1>4, <1>5, <1>7

(* What the tasks get at a step.                                           *)
LEMMA SlicesTyped ==
  ASSUME indexed \subseteq Docs, NEW step
  PROVE  /\ SlicesFor(step) \in [Workers -> Seq(Docs)]
         /\ step \notin Marking => SlicesFor(step) = NoSlices
<1>1. NoSlices \in [Workers -> Seq(Docs)]
  BY DEF NoSlices
<1>2. InOrder(Parents) \in Seq(Docs) /\ InOrder(Children) \in Seq(Docs)
  BY Lists, ListInOrder
<1> QED
  BY <1>1, <1>2, SlicesCover DEF SlicesFor, Marking

(* The tasks get the list of the step between them, and nothing else.      *)
LEMMA SlicesAreShares ==
  ASSUME indexed \subseteq Docs
  PROVE  /\ \A w \in Workers : ToSet(SlicesFor("MarkingParents")[w]) \subseteq Parents
         /\ \A d \in Parents : \E w \in Workers : d \in ToSet(SlicesFor("MarkingParents")[w])
         /\ \A w \in Workers : ToSet(SlicesFor("MarkingChildren")[w]) \subseteq Children
         /\ \A d \in Children : \E w \in Workers : d \in ToSet(SlicesFor("MarkingChildren")[w])
<1>1. /\ InOrder(Parents) \in Seq(Parents) /\ ToSet(InOrder(Parents)) = Parents
      /\ InOrder(Children) \in Seq(Children) /\ ToSet(InOrder(Children)) = Children
  BY Lists, ListInOrder
<1>2. /\ SlicesFor("MarkingParents") = SlicesOf(InOrder(Parents))
      /\ SlicesFor("MarkingChildren") = SlicesOf(InOrder(Children))
  BY DEF SlicesFor
<1>3. /\ \A w \in Workers : ToSet(SlicesOf(InOrder(Parents))[w]) \subseteq Parents
      /\ \A d \in Parents : \E w \in Workers : d \in ToSet(SlicesOf(InOrder(Parents))[w])
  BY <1>1, SlicesCover
<1>4. /\ \A w \in Workers : ToSet(SlicesOf(InOrder(Children))[w]) \subseteq Children
      /\ \A d \in Children : \E w \in Workers : d \in ToSet(SlicesOf(InOrder(Children))[w])
  BY <1>1, SlicesCover
<1> QED
  BY <1>2, <1>3, <1>4


(* As long as the sidecars stay, so does all that is resolved from them.   *)
LEMMA ResolutionStays ==
  ASSUME UNCHANGED sidecars
  PROVE  /\ UNCHANGED indexed /\ UNCHANGED matches
         /\ \A d \in Docs : Root(d)' = Root(d)
         /\ Children' = Children /\ Parents' = Parents /\ Rows' = Rows
<1>1. UNCHANGED indexed /\ UNCHANGED matches
  BY DEF sidecars
<1>2. \A d \in Docs : Root(d)' = Root(d)
  BY <1>1 DEF Root, RootOf, Cluster, Precedes, Marker
<1>3. Children' = Children
  BY <1>2 DEF Children
<1>4. Parents' = Parents
  BY <1>1, <1>2, <1>3 DEF Parents, Marker, Children
<1>5. Rows' = Rows
  BY <1>1 DEF Rows, InOrder, Children, Root, RootOf, Cluster, Precedes, Marker
<1> QED
  BY <1>1, <1>2, <1>3, <1>4, <1>5

-------------------------------------------------------------------------------
(* The invariant holds at first, and every action keeps it.                *)

(* At first nothing has been promised.                                     *)
LEMMA InitSync == Init => SyncInv
<1> SUFFICES ASSUME Init PROVE SyncInv
  OBVIOUS
<1>1. indexed \subseteq Docs /\ UNION matches \subseteq indexed
  BY EdgesAssumption DEF Init
<1>2. isParent \in [Docs -> {"null", "true", "false"}]
  BY DatabasesAssumption DEF Init
<1>3. dupes \subseteq Docs \X Docs /\ \A r, s \in dupes : r[1] = s[1] => r = s
  BY DatabasesAssumption DEF Init
<1>4. Cardinality(Docs) \in Nat
  BY EdgesAssumption, FS_CardinalityType
<1>5. NotStarted \in Progress /\ 0 \in 0..Cardinality(Docs) /\ 0 \in 0..MaxFaults
  BY <1>4, SizesAssumption DEF Progress, NotStarted
<1>6. /\ progress = NotStarted /\ mine = Off /\ Off.dupes_written = 0 /\ written = 0
      /\ due = FALSE /\ broken = FALSE /\ disturbed = FALSE
      /\ slices = NoSlices /\ faults = 0
  BY DEF Init, Off
<1>7. NoSlices \in [Workers -> Seq(Docs)]
  BY DEF NoSlices
<1>8. TypeOK
  <2>1. /\ progress \in Progress /\ mine = Off /\ written \in 0..Cardinality(Docs)
        /\ slices \in [Workers -> Seq(Docs)] /\ faults \in 0..MaxFaults
    BY <1>5, <1>6, <1>7
  <2>2. mine.dupes_written <= written
    BY <1>6
  <2>3. due \in BOOLEAN /\ broken \in BOOLEAN /\ disturbed \in BOOLEAN
    BY <1>6
  <2> QED
    BY <1>1, <1>2, <1>3, <2>1, <2>2, <2>3 DEF TypeOK
<1>9. Stages /\ Grown
  BY <1>6 DEF Init, Stages, Grown, Marking, NotStarted, Off
<1>10. RowsWritten /\ TasksShare /\ MarksWritten
  BY <1>6 DEF RowsWritten, Promised, TasksShare, MarksWritten, Marking, NotStarted, Off
<1> QED
  BY <1>8, <1>9, <1>10 DEF SyncInv

(* When the sidecars grow, nothing that was promised counts any more.      *)
LEMMA SidecarsGrow ==
  ASSUME SyncInv, mine = Off, sidecars' # sidecars,
         UNCHANGED <<database, progress, mine, written, due, tasks, startedOn, disturbed, faults>>,
         indexed \subseteq indexed', indexed' \subseteq Docs,
         matches \subseteq matches', UNION matches' \subseteq indexed'
  PROVE  SyncInv'
<1>1. TypeOK'
  BY DEF SyncInv, TypeOK, database, tasks
<1>2. Stages'
  BY DEF SyncInv, Stages, tasks
<1>3. Grown' /\ ~ Unchanged'
  <2>1. startedOn' = startedOn
    OBVIOUS
  <2>2. PICK a \in SUBSET indexed, b \in SUBSET matches : startedOn = <<a, b>>
    BY DEF SyncInv, Grown
  <2>3. a \subseteq indexed' /\ b \subseteq matches'
    BY <2>2
  <2>4. Grown'
    BY <2>1, <2>2, <2>3 DEF Grown
  <2>5. a = indexed' /\ b = matches' => indexed' = indexed /\ matches' = matches
    BY <2>2
  <2>6. ~ (a = indexed' /\ b = matches')
    BY <2>5 DEF sidecars
  <2> QED
    BY <2>1, <2>2, <2>4, <2>6 DEF Unchanged, sidecars
<1>4. RowsWritten' /\ MarksWritten'
  BY <1>3 DEF RowsWritten, MarksWritten
<1>5. TasksShare'
  BY DEF TasksShare, Off
<1> QED
  BY <1>1, <1>2, <1>3, <1>4, <1>5 DEF SyncInv

(* A document is indexed that was not.                                     *)
LEMMA IndexDocumentKeeps ==
  ASSUME SyncInv, NEW d \in Docs \ indexed, IndexDocument(d)
  PROVE  SyncInv'
<1>1. indexed \subseteq Docs /\ UNION matches \subseteq indexed
  BY DEF SyncInv, TypeOK
<1>2. /\ indexed' = indexed \cup {d} /\ matches' = matches /\ mine = Off
      /\ UNCHANGED <<database, progress, mine, written, due, tasks, startedOn, disturbed, faults>>
  BY DEF IndexDocument
<1>3. sidecars' # sidecars
  BY <1>2 DEF sidecars
<1> QED
  BY <1>1, <1>2, <1>3, SidecarsGrow

(* An edge is recorded that was not.                                       *)
LEMMA RecordPairKeeps ==
  ASSUME SyncInv, NEW p \in Pairs \ matches, RecordPair(p)
  PROVE  SyncInv'
<1>1. indexed \subseteq Docs /\ UNION matches \subseteq indexed
  BY DEF SyncInv, TypeOK
<1>2. /\ matches' = matches \cup {p} /\ indexed' = indexed /\ mine = Off /\ p \subseteq indexed
      /\ UNCHANGED <<database, progress, mine, written, due, tasks, startedOn, disturbed, faults>>
  BY DEF RecordPair
<1>3. sidecars' # sidecars
  BY <1>2 DEF sidecars
<1> QED
  BY <1>1, <1>2, <1>3, SidecarsGrow

(* Another run writes to the database: from then on a sync that died       *)
(* promises nothing of it.                                                 *)
LEMMA OtherRunWritesKeeps ==
  ASSUME SyncInv, NEW db \in Databases, OtherRunWrites(db)
  PROVE  SyncInv'
<1>1. /\ mine = Off /\ isParent' = db.isParent /\ dupes' = db.dupes /\ disturbed' = TRUE
      /\ UNCHANGED <<sidecars, progress, mine, written, due, tasks, startedOn, faults>>
  BY DEF OtherRunWrites
<1>2. TypeOK'
  <2>1. /\ isParent' \in [Docs -> {"null", "true", "false"}] /\ dupes' \subseteq Docs \X Docs
        /\ \A r, s \in dupes' : r[1] = s[1] => r = s
    BY <1>1, DatabasesAssumption
  <2>2. disturbed' \in BOOLEAN
    BY <1>1
  <2>3. UNCHANGED <<indexed, matches, progress, mine, written, due, slices, broken, faults>>
    BY <1>1 DEF sidecars, tasks
  <2> QED
    BY <2>1, <2>2, <2>3 DEF SyncInv, TypeOK
<1>3. Stages' /\ Grown'
  BY <1>1 DEF SyncInv, Stages, Grown, sidecars, tasks
<1>4. ~ Unchanged'
  BY <1>1 DEF Unchanged
<1>5. RowsWritten' /\ MarksWritten'
  BY <1>4 DEF RowsWritten, MarksWritten
<1>6. TasksShare'
  BY <1>1 DEF TasksShare, Off
<1> QED
  BY <1>2, <1>3, <1>5, <1>6 DEF SyncInv

(* Once the tasks have their lists, they share what is to be marked.       *)
LEMMA HandedOut ==
  ASSUME indexed \subseteq Docs, UNCHANGED sidecars, ~ broken',
         slices' = SlicesFor(mine'.step)
  PROVE  TasksShare'
<1>1. Children' = Children /\ Parents' = Parents
  BY ResolutionStays
<1>2. mine'.step = "MarkingParents" => Shared(Parents, "true")'
  BY <1>1, SlicesAreShares DEF Shared
<1>3. mine'.step = "MarkingChildren" => Shared(Children, "false")'
  BY <1>1, SlicesAreShares DEF Shared
<1> QED
  BY <1>2, <1>3 DEF TasksShare

(* A sync starts, or is taken up where state.redb says it died.            *)
LEMMA StartSyncKeeps ==
  ASSUME SyncInv, StartSync
  PROVE  SyncInv'
<1> DEFINE resumed == progress.step \notin {"NotStarted", "Completed"}
           first == [step |-> "WritingDupes", dupes_written |-> 0]
<1>1. /\ mine = Off /\ slices' = SlicesFor(mine'.step) /\ written' = mine'.dupes_written
      /\ disturbed' = (resumed /\ disturbed)
      /\ UNCHANGED <<database, sidecars, due, broken, faults>>
  BY DEF StartSync
<1>2. IF resumed THEN progress' = progress /\ mine' = progress /\ startedOn' = startedOn
      ELSE progress' = NotStarted /\ mine' = first /\ startedOn' = sidecars
  BY DEF StartSync
<1> HIDE DEF resumed, first
<1>3. /\ indexed \subseteq Docs /\ progress \in Progress /\ ~ broken /\ ~ due
      /\ progress.step = "NotStarted" => progress = NotStarted
  BY <1>1 DEF SyncInv, TypeOK, Stages, Off, Marking
<1>4. Cardinality(Docs) \in Nat
  BY EdgesAssumption, FS_CardinalityType
<1>5. /\ first \in Progress /\ NotStarted \in Progress
      /\ first.step = "WritingDupes" /\ first.dupes_written = 0
  BY <1>4 DEF first, Progress, NotStarted
<1>6. /\ progress' \in Progress /\ mine' \in Progress
      /\ mine'.step \in {"WritingDupes"} \cup Marking
      /\ \/ progress'.step = mine'.step
         \/ progress' = NotStarted /\ mine'.step = "WritingDupes"
  <2>1. CASE resumed
    <3>1. progress' = progress /\ mine' = progress
      BY <1>2, <2>1
    <3>2. progress.step \in {"NotStarted", "WritingDupes", "Completed"} \cup Marking
      BY <1>3 DEF Progress, Marking
    <3> QED
      BY <1>3, <2>1, <3>1, <3>2 DEF resumed
  <2>2. CASE ~ resumed
    BY <1>2, <1>5, <2>2
  <2> QED
    BY <2>1, <2>2
<1>7. TypeOK'
  <2>1. written' \in 0..Cardinality(Docs) /\ mine'.dupes_written <= written'
    BY <1>1, <1>4, <1>6 DEF Progress
  <2>2. slices' \in [Workers -> Seq(Docs)]
    BY <1>1, <1>3, SlicesTyped
  <2>3. UNCHANGED <<isParent, dupes, indexed, matches, due, broken, faults>>
    BY <1>1 DEF database, sidecars
  <2>4. disturbed' \in BOOLEAN
    BY <1>1
  <2> QED
    BY <1>6, <2>1, <2>2, <2>3, <2>4 DEF SyncInv, TypeOK
<1>8. Stages'
  <2>1. progress'.step = "NotStarted" => progress' = NotStarted
    BY <1>2, <1>3 DEF resumed
  <2>2. mine'.step \notin Marking => slices' = NoSlices /\ ~ broken'
    BY <1>1, <1>3, SlicesTyped
  <2>3. mine'.step = "WritingDupes" => written' < mine'.dupes_written + BatchSize
    BY <1>1, <1>6, SizesAssumption DEF Progress
  <2> QED
    BY <1>1, <1>3, <1>6, <2>1, <2>2, <2>3 DEF Stages
<1>9. Grown'
  BY <1>1, <1>2 DEF SyncInv, Grown, sidecars
<1>10. RowsWritten'
  <2>1. CASE resumed
    <3>1. Unchanged' => Unchanged
      BY <1>1, <1>2, <2>1 DEF Unchanged
    <3>2. \A i \in DOMAIN Rows : Promised(i)' => Promised(i)
      BY <1>1, <1>2, <2>1 DEF Promised
    <3> QED
      BY <1>1, <3>1, <3>2, ResolutionStays DEF SyncInv, RowsWritten, database
  <2>2. CASE ~ resumed
    <3>1. \A i \in DOMAIN Rows : i \in Nat \ {0}
      BY <1>3, RowsOfChildren
    <3>2. \A i \in DOMAIN Rows : ~ Promised(i)'
      BY <1>1, <1>2, <1>5, <2>2, <3>1 DEF Promised, NotStarted, Marking
    <3> QED
      BY <1>1, <3>2, ResolutionStays DEF RowsWritten
  <2> QED
    BY <2>1, <2>2
<1>11. TasksShare'
  BY <1>1, <1>3, HandedOut
<1>12. MarksWritten'
  <2>1. CASE resumed
    BY <1>1, <1>2, <2>1, ResolutionStays DEF SyncInv, MarksWritten, Unchanged, database
  <2>2. CASE ~ resumed
    BY <1>2, <2>2 DEF MarksWritten, NotStarted
  <2> QED
    BY <2>1, <2>2
<1> QED
  BY <1>7, <1>8, <1>9, <1>10, <1>11, <1>12 DEF SyncInv

(* A transaction of rows is committed: the rows of other children stay,    *)
(* and those of the same children are the same rows.                       *)
LEMMA WriteDupesKeeps ==
  ASSUME SyncInv, WriteDupes
  PROVE  SyncInv'
<1> DEFINE batchEnd == Min({mine.dupes_written + BatchSize, Len(Rows)})
           to       == Min({written + ChunkSize, batchEnd})
           chunk    == ToSet(SubSeq(Rows, written + 1, to))
           counted  == [mine EXCEPT !.dupes_written = to]
           isDue    == to % ReportInterval < BatchSize \/ to = Len(Rows)
<1>1. /\ mine.step = "WritingDupes" /\ written < Len(Rows) /\ written' = to
      /\ dupes' = {r \in dupes : \A s \in chunk : s[1] # r[1]} \cup chunk
      /\ IF to = batchEnd THEN mine' = counted /\ due' = isDue ELSE UNCHANGED <<mine, due>>
      /\ UNCHANGED <<isParent, sidecars, progress, tasks, startedOn, disturbed, faults>>
  BY DEF WriteDupes
<1>2. /\ indexed \subseteq Docs /\ mine \in Progress /\ written \in Nat
      /\ mine.dupes_written <= written /\ written < mine.dupes_written + BatchSize
  BY <1>1 DEF SyncInv, TypeOK, Stages, Off
<1>3. /\ mine.dupes_written \in Nat /\ BatchSize \in Nat \ {0} /\ ChunkSize \in Nat \ {0}
      /\ Len(Rows) \in Nat /\ Len(Rows) <= Cardinality(Docs) /\ Cardinality(Docs) \in Nat
      /\ DOMAIN Rows = 1..Len(Rows) /\ Rows \in Seq(Docs \X Docs)
  BY <1>2, SizesAssumption, RowsOfChildren, Lists DEF Progress
<1>4. /\ batchEnd \in Nat /\ batchEnd <= Len(Rows) /\ batchEnd <= mine.dupes_written + BatchSize
      /\ written < batchEnd
  <2>1. mine.dupes_written + BatchSize \in Nat
    BY <1>3
  <2>2. batchEnd = IF mine.dupes_written + BatchSize <= Len(Rows)
                   THEN mine.dupes_written + BatchSize ELSE Len(Rows)
    BY <1>3, <2>1, MinOfTwo
  <2> HIDE DEF batchEnd
  <2> QED
    BY <1>1, <1>2, <1>3, <2>1, <2>2
<1> HIDE DEF batchEnd
<1>5. to \in Nat /\ to <= batchEnd /\ written < to
  <2>1. written + ChunkSize \in Nat
    BY <1>2, <1>3
  <2>2. to = IF written + ChunkSize <= batchEnd THEN written + ChunkSize ELSE batchEnd
    BY <1>4, <2>1, MinOfTwo
  <2> HIDE DEF to
  <2> QED
    BY <1>2, <1>3, <1>4, <2>1, <2>2
<1> HIDE DEF to, counted, isDue
<1>6. /\ \A x \in chunk : \E i \in (written + 1)..to : x = Rows[i]
      /\ \A i \in (written + 1)..to : Rows[i] \in chunk
  <2>1. written + 1 \in Nat \ {0} /\ to \in Int /\ to <= Len(Rows)
    BY <1>2, <1>3, <1>4, <1>5
  <2> QED
    BY <1>3, <2>1, PartOfSequence
<1> HIDE DEF chunk
<1>7. \A x \in chunk : \E i \in DOMAIN Rows : x = Rows[i]
  <2>1. \A i \in (written + 1)..to : i \in DOMAIN Rows
    BY <1>2, <1>3, <1>4, <1>5
  <2> QED
    BY <1>6, <2>1
<1>8. \A x, y \in chunk : x[1] = y[1] => x = y
  BY <1>2, <1>7, RowsOfChildren
<1>9. \A i \in DOMAIN Rows : Rows[i] \in dupes => Rows[i] \in dupes'
  <2> SUFFICES ASSUME NEW i \in DOMAIN Rows, Rows[i] \in dupes, Rows[i] \notin chunk
               PROVE  Rows[i] \in dupes'
    BY <1>1
  <2>1. \A s \in chunk : s[1] # Rows[i][1]
    BY <1>2, <1>7, RowsOfChildren
  <2> QED
    BY <1>1, <2>1
<1>10. /\ mine' \in Progress /\ mine'.step = "WritingDupes" /\ mine'.dupes_written <= to
       /\ to < mine'.dupes_written + BatchSize
  <2>1. CASE to = batchEnd
    <3>1. mine' = counted
      BY <1>1, <2>1
    <3>2. to \in 0..Cardinality(Docs)
      BY <1>3, <1>4, <1>5
    <3>3. counted \in Progress /\ counted.step = "WritingDupes" /\ counted.dupes_written = to
      BY <1>1, <1>2, <3>2 DEF Progress, counted
    <3> QED
      BY <1>3, <1>5, <3>1, <3>3
  <2>2. CASE to # batchEnd
    BY <1>1, <1>2, <1>3, <1>4, <1>5, <2>2
  <2> QED
    BY <2>1, <2>2
<1>11. TypeOK'
  <2>1. dupes' \subseteq Docs \X Docs /\ \A r, s \in dupes' : r[1] = s[1] => r = s
    <3>1. \A x \in chunk : x \in Docs \X Docs
      BY <1>3, <1>7
    <3>2. dupes \subseteq Docs \X Docs /\ \A r, s \in dupes : r[1] = s[1] => r = s
      BY DEF SyncInv, TypeOK
    <3> QED
      BY <1>1, <1>8, <3>1, <3>2
  <2>2. written' \in 0..Cardinality(Docs) /\ mine'.dupes_written <= written'
    BY <1>1, <1>3, <1>4, <1>5, <1>10
  <2>3. due' \in BOOLEAN
    <3>1. due \in BOOLEAN /\ isDue \in BOOLEAN
      BY DEF SyncInv, TypeOK, isDue
    <3> QED
      BY <1>1, <3>1
  <2>4. UNCHANGED <<isParent, indexed, matches, progress, slices, broken, disturbed, faults>>
    BY <1>1 DEF sidecars, tasks
  <2> QED
    BY <1>10, <2>1, <2>2, <2>3, <2>4 DEF SyncInv, TypeOK
<1>12. Stages'
  <2>1. mine' # Off /\ mine # Off
    BY <1>1, <1>10 DEF Off
  <2>2. /\ progress' = progress /\ slices' = slices /\ broken' = broken
        /\ mine'.step = mine.step
    BY <1>1, <1>10 DEF tasks
  <2>3. mine'.step = "WritingDupes" => written' < mine'.dupes_written + BatchSize
    BY <1>1, <1>10
  <2> QED
    BY <1>10, <2>1, <2>2, <2>3 DEF SyncInv, Stages
<1>13. Grown'
  BY <1>1 DEF SyncInv, Grown, sidecars
<1>14. RowsWritten'
  <2> SUFFICES ASSUME Unchanged, NEW i \in DOMAIN Rows, Promised(i)'
               PROVE  Rows[i] \in dupes'
    BY <1>1, ResolutionStays DEF RowsWritten, Unchanged
  <2>1. i \in Nat \ {0}
    BY <1>3
  <2>2. CASE i \in (written + 1)..to
    BY <1>1, <1>6, <2>2
  <2>3. CASE i \notin (written + 1)..to
    <3>1. i <= to => i <= written
      BY <1>2, <1>5, <2>1, <2>3
    <3>2. Promised(i)
      BY <1>1, <3>1 DEF Promised
    <3>3. Rows[i] \in dupes
      BY <3>2 DEF SyncInv, RowsWritten
    <3> QED
      BY <1>9, <3>3
  <2> QED
    BY <2>2, <2>3
<1>15. TasksShare'
  BY <1>10 DEF TasksShare
<1>16. MarksWritten'
  BY <1>1, ResolutionStays DEF SyncInv, MarksWritten, Unchanged
<1> QED
  BY <1>11, <1>12, <1>13, <1>14, <1>15, <1>16 DEF SyncInv

(* A checkpoint saves what memory counts, which is in the database.        *)
LEMMA SetSyncProgressKeeps ==
  ASSUME SyncInv, SetSyncProgress
  PROVE  SyncInv'
<1>1. /\ due /\ progress' = mine /\ due' = FALSE
      /\ UNCHANGED <<database, sidecars, mine, written, tasks, startedOn, disturbed, faults>>
  BY DEF SetSyncProgress
<1>2. mine.step = "WritingDupes" /\ mine # Off /\ mine \in Progress
  BY <1>1 DEF SyncInv, TypeOK, Stages, Off
<1>3. mine.dupes_written \in Nat /\ written \in Nat /\ mine.dupes_written <= written
  BY <1>2 DEF SyncInv, TypeOK, Progress
<1>4. TypeOK'
  <2>1. UNCHANGED <<isParent, dupes, indexed, matches, mine, written, slices, broken, faults>>
    BY <1>1 DEF database, sidecars, tasks
  <2>2. due' \in BOOLEAN
    BY <1>1
  <2> QED
    BY <1>1, <1>2, <2>1, <2>2 DEF SyncInv, TypeOK
<1>5. Stages' /\ Grown'
  BY <1>1, <1>2 DEF SyncInv, Stages, Grown, sidecars, tasks
<1>6. RowsWritten'
  <2> SUFFICES ASSUME Unchanged, NEW i \in DOMAIN Rows, Promised(i)'
               PROVE  Rows[i] \in dupes
    BY <1>1, ResolutionStays DEF RowsWritten, Unchanged, database
  <2>1. i \in Nat
    BY RowsOfChildren DEF SyncInv, TypeOK
  <2>2. i <= written
    BY <1>1, <1>2, <1>3, <2>1 DEF Promised, Marking
  <2>3. Promised(i)
    BY <1>2, <2>2 DEF Promised
  <2> QED
    BY <2>3 DEF SyncInv, RowsWritten
<1>7. TasksShare' /\ MarksWritten'
  BY <1>1, <1>2 DEF TasksShare, MarksWritten
<1> QED
  BY <1>4, <1>5, <1>6, <1>7 DEF SyncInv

(* The rows are through, and state.redb is told so.                        *)
LEMMA FinishDupesKeeps ==
  ASSUME SyncInv, FinishDupes
  PROVE  SyncInv'
<1> DEFINE next == [mine EXCEPT !.step = "MarkingParents"]
<1>1. /\ mine.step = "WritingDupes" /\ written >= Len(Rows) /\ ~ due
      /\ progress' = next /\ mine' = next /\ slices' = SlicesFor("MarkingParents")
      /\ UNCHANGED <<database, sidecars, written, due, broken, startedOn, disturbed, faults>>
  BY DEF FinishDupes, NextStep
<1>2. indexed \subseteq Docs /\ mine \in Progress /\ ~ broken
  BY <1>1 DEF SyncInv, TypeOK, Stages, Off, Marking
<1>3. next \in Progress /\ next.step = "MarkingParents" /\ next.dupes_written = mine.dupes_written
  BY <1>2 DEF Progress
<1> HIDE DEF next
<1>4. TypeOK'
  <2>1. mine'.dupes_written <= written'
    BY <1>1, <1>3 DEF SyncInv, TypeOK
  <2>2. slices' \in [Workers -> Seq(Docs)]
    BY <1>1, <1>2, SlicesTyped
  <2>3. UNCHANGED <<isParent, dupes, indexed, matches, written, due, broken, disturbed, faults>>
    BY <1>1 DEF database, sidecars
  <2> QED
    BY <1>1, <1>3, <2>1, <2>2, <2>3 DEF SyncInv, TypeOK
<1>5. Stages'
  BY <1>1, <1>2, <1>3 DEF Stages, Marking
<1>6. Grown'
  BY <1>1 DEF SyncInv, Grown, sidecars
<1>7. RowsWritten'
  <2> SUFFICES ASSUME Unchanged, NEW i \in DOMAIN Rows
               PROVE  Rows[i] \in dupes
    BY <1>1, ResolutionStays DEF RowsWritten, Unchanged, database
  <2>1. i <= written
    BY <1>1, <1>2, RowsOfChildren DEF SyncInv, TypeOK
  <2>2. Promised(i)
    BY <1>1, <2>1 DEF Promised
  <2> QED
    BY <2>2 DEF SyncInv, RowsWritten
<1>8. TasksShare'
  BY <1>1, <1>2, <1>3, HandedOut
<1>9. MarksWritten'
  BY <1>1, <1>3 DEF MarksWritten
<1> QED
  BY <1>4, <1>5, <1>6, <1>7, <1>8, <1>9 DEF SyncInv

(* Once all tasks have ended without an error, everything is marked.       *)
LEMMA AllMarked ==
  ASSUME SyncInv, slices = NoSlices, ~ broken
  PROVE  /\ mine.step = "MarkingParents" => \A d \in Parents : isParent[d] = "true"
         /\ mine.step = "MarkingChildren" => \A d \in Children : isParent[d] = "false"
<1>1. \A w \in Workers : ToSet(slices[w]) = {}
  BY DEF NoSlices, ToSet
<1> QED
  BY <1>1 DEF SyncInv, TasksShare, Shared

(* The marks are through, and state.redb is told so.                       *)
LEMMA JoinAllKeeps ==
  ASSUME SyncInv, JoinAll
  PROVE  SyncInv'
<1> DEFINE to == IF mine.step = "MarkingParents" THEN "MarkingChildren" ELSE "Completed"
           next == [mine EXCEPT !.step = to]
<1>1. /\ mine.step \in Marking /\ slices = NoSlices /\ ~ broken
      /\ progress' = next /\ slices' = SlicesFor(to)
      /\ mine' = IF to = "Completed" THEN Off ELSE next
      /\ UNCHANGED <<database, sidecars, written, due, broken, startedOn, disturbed, faults>>
  BY DEF JoinAll, NextStep, Marking
<1>2. /\ indexed \subseteq Docs /\ mine \in Progress /\ progress.step = mine.step /\ ~ due
  BY <1>1 DEF SyncInv, TypeOK, Stages, Off, Marking
<1>3. /\ to \in {"MarkingChildren", "Completed"}
      /\ next \in Progress /\ next.step = to /\ next.dupes_written = mine.dupes_written
  BY <1>2 DEF Progress
<1>4. mine.step = "MarkingChildren" <=> to = "Completed"
  BY <1>1 DEF Marking
<1> HIDE DEF next, to
<1>5. TypeOK'
  <2>1. mine'.dupes_written <= written' /\ written \in 0..Cardinality(Docs)
    <3>1. mine.dupes_written <= written /\ written \in 0..Cardinality(Docs) /\ written' = written
      BY <1>1 DEF SyncInv, TypeOK
    <3>2. Cardinality(Docs) \in Nat
      BY EdgesAssumption, FS_CardinalityType
    <3> QED
      BY <1>1, <1>3, <3>1, <3>2 DEF Off
  <2>2. slices' \in [Workers -> Seq(Docs)]
    BY <1>1, <1>2, SlicesTyped
  <2>3. UNCHANGED <<isParent, dupes, indexed, matches, written, due, broken, disturbed, faults>>
    BY <1>1 DEF database, sidecars
  <2>4. progress' \in Progress /\ (mine' = Off \/ mine' \in Progress)
    BY <1>1, <1>3
  <2> QED
    BY <2>1, <2>2, <2>3, <2>4 DEF SyncInv, TypeOK
<1>6. Stages'
  <2>1. CASE to = "Completed"
    BY <1>1, <1>2, <1>3, <2>1, SlicesTyped DEF Stages, Marking, Off
  <2>2. CASE to = "MarkingChildren"
    BY <1>1, <1>2, <1>3, <2>2 DEF Stages, Marking, Off
  <2> QED
    BY <1>3, <2>1, <2>2
<1>7. Grown'
  BY <1>1 DEF SyncInv, Grown, sidecars
<1>8. RowsWritten'
  <2>1. \A i \in DOMAIN Rows : Promised(i)
    BY <1>1, <1>2 DEF Promised
  <2> QED
    BY <1>1, <2>1, ResolutionStays DEF SyncInv, RowsWritten, Unchanged, database
<1>9. TasksShare'
  <2>1. CASE to = "Completed"
    BY <1>1, <2>1 DEF TasksShare, Off
  <2>2. CASE to = "MarkingChildren"
    BY <1>1, <1>2, <1>3, <2>2, HandedOut
  <2> QED
    BY <1>3, <2>1, <2>2
<1>10. MarksWritten'
  <2> SUFFICES ASSUME Unchanged
               PROVE  /\ \A d \in Parents \ Children : isParent[d] = "true"
                      /\ to = "Completed" => \A d \in Children : isParent[d] = "false"
    BY <1>1, <1>3, ResolutionStays DEF MarksWritten, Unchanged, database
  <2>1. CASE mine.step = "MarkingParents"
    BY <1>1, <1>4, <2>1, AllMarked
  <2>2. CASE mine.step = "MarkingChildren"
    BY <1>1, <1>2, <2>2, AllMarked DEF SyncInv, MarksWritten
  <2> QED
    BY <1>1, <2>1, <2>2 DEF Marking
<1> QED
  BY <1>5, <1>6, <1>7, <1>8, <1>9, <1>10 DEF SyncInv

(* A task marks a batch of its share.                                      *)
LEMMA MarkBatchKeeps ==
  ASSUME SyncInv, NEW w \in Workers, MarkBatch(w)
  PROVE  SyncInv'
<1> DEFINE n == Min({BatchSize, Len(slices[w])})
           batch == ToSet(SubSeq(slices[w], 1, n))
           rest == SubSeq(slices[w], n + 1, Len(slices[w]))
           m == IF mine.step = "MarkingParents" THEN "true" ELSE "false"
<1>1. /\ slices[w] # <<>>
      /\ isParent' = [d \in Docs |-> IF d \in batch THEN m ELSE isParent[d]]
      /\ slices' = [slices EXCEPT ![w] = rest]
      /\ UNCHANGED <<dupes, sidecars, progress, mine, written, due, broken, startedOn, disturbed, faults>>
  BY DEF MarkBatch, Mark
<1>2. slices \in [Workers -> Seq(Docs)] /\ isParent \in [Docs -> {"null", "true", "false"}]
  BY DEF SyncInv, TypeOK
<1>3. mine.step \in Marking /\ mine # Off /\ progress.step = mine.step
  <2>1. mine.step \in Marking
    BY <1>1 DEF SyncInv, Stages, NoSlices
  <2> QED
    BY <2>1 DEF SyncInv, Stages, Marking, Off
<1>4. /\ rest \in Seq(Docs) /\ batch \subseteq ToSet(slices[w]) /\ ToSet(rest) \subseteq ToSet(slices[w])
      /\ \A x \in ToSet(slices[w]) : x \in batch \/ x \in ToSet(rest)
  <2>1. Len(slices[w]) \in Nat /\ slices[w] \in Seq(Docs)
    BY <1>2
  <2>2. n \in 0..Len(slices[w])
    BY <2>1, SizesAssumption, MinOfTwo
  <2> HIDE DEF n
  <2> QED
    BY <2>1, <2>2, CutSequence
<1> HIDE DEF batch, rest
<1>5. m \in {"true", "false"}
  OBVIOUS
<1>6. TypeOK'
  <2>1. isParent' \in [Docs -> {"null", "true", "false"}]
    BY <1>1, <1>2, <1>5
  <2>2. slices' \in [Workers -> Seq(Docs)]
    BY <1>1, <1>2, <1>4
  <2>3. UNCHANGED <<dupes, indexed, matches, progress, mine, written, due, broken, disturbed, faults>>
    BY <1>1 DEF sidecars
  <2> QED
    BY <2>1, <2>2, <2>3 DEF SyncInv, TypeOK
<1>7. Stages'
  BY <1>1, <1>3 DEF SyncInv, Stages
<1>8. Grown'
  BY <1>1 DEF SyncInv, Grown, sidecars
<1>9. RowsWritten'
  <2>1. \A i \in DOMAIN Rows : Promised(i)
    BY <1>3 DEF Promised
  <2> QED
    BY <1>1, <2>1, ResolutionStays DEF SyncInv, RowsWritten, Unchanged
<1>10. ASSUME NEW D \in SUBSET Docs, Shared(D, m)
       PROVE  /\ batch \subseteq D
              /\ \A v \in Workers : ToSet(slices'[v]) \subseteq D
              /\ ~ broken => \A d \in D : isParent'[d] = m \/ \E v \in Workers : d \in ToSet(slices'[v])
  <2>1. batch \subseteq D /\ \A v \in Workers : ToSet(slices'[v]) \subseteq D
    BY <1>1, <1>2, <1>4, <1>10 DEF Shared
  <2>2. ASSUME ~ broken, NEW d \in D
        PROVE  isParent'[d] = m \/ \E v \in Workers : d \in ToSet(slices'[v])
    <3>1. CASE isParent[d] = m \/ d \in batch
      BY <1>1, <3>1
    <3>2. ASSUME NEW v \in Workers, d \in ToSet(slices[v]), d \notin batch
          PROVE  d \in ToSet(slices'[v])
      BY <1>1, <1>2, <1>4, <3>2
    <3> QED
      BY <1>10, <2>2, <3>1, <3>2 DEF Shared
  <2> QED
    BY <2>1, <2>2
<1>11. /\ Children' = Children /\ Parents' = Parents
       /\ Children \in SUBSET Docs /\ Parents \in SUBSET Docs
  BY <1>1, ResolutionStays, Lists DEF SyncInv, TypeOK
<1>12. TasksShare'
  <2>1. ASSUME mine.step = "MarkingParents"
        PROVE  Shared(Parents, "true")'
    <3>1. m = "true" /\ Shared(Parents, m)
      BY <2>1 DEF SyncInv, TasksShare
    <3>2. /\ \A v \in Workers : ToSet(slices'[v]) \subseteq Parents
          /\ ~ broken => \A d \in Parents : isParent'[d] = m \/ \E v \in Workers : d \in ToSet(slices'[v])
      BY <1>10, <1>11, <3>1
    <3> QED
      BY <1>1, <1>11, <3>1, <3>2 DEF Shared
  <2>2. ASSUME mine.step = "MarkingChildren"
        PROVE  Shared(Children, "false")'
    <3>1. m = "false" /\ Shared(Children, m)
      BY <2>2 DEF SyncInv, TasksShare
    <3>2. /\ \A v \in Workers : ToSet(slices'[v]) \subseteq Children
          /\ ~ broken => \A d \in Children : isParent'[d] = m \/ \E v \in Workers : d \in ToSet(slices'[v])
      BY <1>10, <1>11, <3>1
    <3> QED
      BY <1>1, <1>11, <3>1, <3>2 DEF Shared
  <2> QED
    BY <1>1, <2>1, <2>2 DEF TasksShare
<1>13. MarksWritten'
  <2>1. CASE mine.step = "MarkingParents"
    BY <1>1, <1>3, <2>1 DEF MarksWritten
  <2>2. CASE mine.step = "MarkingChildren"
    <3>1. batch \subseteq Children
      BY <1>10, <1>11, <2>2 DEF SyncInv, TasksShare
    <3>2. \A d \in Parents \ Children : isParent'[d] = isParent[d]
      BY <1>1, <1>11, <3>1
    <3> QED
      BY <1>1, <1>3, <1>11, <2>2, <3>2 DEF SyncInv, MarksWritten, Unchanged, sidecars
  <2> QED
    BY <1>3, <2>1, <2>2 DEF Marking
<1> QED
  BY <1>6, <1>7, <1>8, <1>9, <1>12, <1>13 DEF SyncInv

(* A task gives up, and what it had left stays unmarked.                   *)
LEMMA MarkerFailsKeeps ==
  ASSUME SyncInv, NEW w \in Workers, MarkerFails(w)
  PROVE  SyncInv'
<1>1. /\ slices[w] # <<>> /\ slices' = [slices EXCEPT ![w] = <<>>] /\ broken' = TRUE
      /\ faults' = faults + 1 /\ faults < MaxFaults
      /\ UNCHANGED <<database, sidecars, progress, mine, written, due, startedOn, disturbed>>
  BY DEF MarkerFails
<1>2. slices \in [Workers -> Seq(Docs)] /\ faults \in 0..MaxFaults
  BY DEF SyncInv, TypeOK
<1>3. mine.step \in Marking
  BY <1>1 DEF SyncInv, Stages, NoSlices
<1>4. TypeOK'
  <2>1. slices' \in [Workers -> Seq(Docs)]
    BY <1>1, <1>2
  <2>2. broken' \in BOOLEAN
    BY <1>1
  <2>3. faults' \in 0..MaxFaults
    BY <1>1, <1>2, SizesAssumption
  <2>4. UNCHANGED <<isParent, dupes, indexed, matches, progress, mine, written, due, disturbed>>
    BY <1>1 DEF database, sidecars
  <2> QED
    BY <2>1, <2>2, <2>3, <2>4 DEF SyncInv, TypeOK
<1>5. Stages'
  BY <1>1, <1>3 DEF SyncInv, Stages
<1>6. Grown'
  BY <1>1 DEF SyncInv, Grown, sidecars
<1>7. RowsWritten' /\ MarksWritten'
  <2>1. \A i \in DOMAIN Rows : Promised(i)' <=> Promised(i)
    BY <1>1 DEF Promised
  <2> QED
    BY <1>1, <2>1, ResolutionStays DEF SyncInv, RowsWritten, MarksWritten, Unchanged, database
<1>8. TasksShare'
  <2>1. Children' = Children /\ Parents' = Parents
    BY <1>1, ResolutionStays
  <2>2. \A v \in Workers : ToSet(slices'[v]) \subseteq ToSet(slices[v])
    BY <1>1, <1>2 DEF ToSet
  <2> QED
    BY <1>1, <2>1, <2>2 DEF SyncInv, TasksShare, Shared
<1> QED
  BY <1>4, <1>5, <1>6, <1>7, <1>8 DEF SyncInv

(* A sync that stops, for whatever reason, keeps what state.redb promises. *)
LEMMA StopKeeps ==
  ASSUME SyncInv, Stop, faults' \in 0..MaxFaults,
         UNCHANGED <<database, sidecars, progress, startedOn, disturbed>>
  PROVE  SyncInv'
<1>1. /\ mine' = Off /\ written' = 0 /\ due' = FALSE /\ slices' = NoSlices /\ broken' = FALSE
      /\ UNCHANGED <<isParent, dupes, indexed, matches, progress, startedOn, disturbed>>
  BY DEF Stop, database, sidecars
<1>2. TypeOK'
  <2>1. written' \in 0..Cardinality(Docs)
    BY <1>1, EdgesAssumption, FS_CardinalityType
  <2>2. mine'.dupes_written <= written'
    BY <1>1 DEF Off
  <2>3. due' \in BOOLEAN /\ broken' \in BOOLEAN
    BY <1>1
  <2>4. slices' \in [Workers -> Seq(Docs)]
    BY <1>1 DEF NoSlices
  <2> QED
    BY <1>1, <2>1, <2>2, <2>3, <2>4 DEF SyncInv, TypeOK
<1>3. Stages'
  BY <1>1 DEF SyncInv, Stages, Off, Marking
<1>4. Grown'
  BY <1>1 DEF SyncInv, Grown
<1>5. RowsWritten'
  <2>1. \A i \in DOMAIN Rows : Promised(i)' => Promised(i)
    BY <1>1 DEF Promised, Off
  <2> QED
    BY <1>1, <2>1, ResolutionStays DEF SyncInv, RowsWritten, Unchanged
<1>6. TasksShare'
  BY <1>1 DEF TasksShare, Off
<1>7. MarksWritten'
  BY <1>1, ResolutionStays DEF SyncInv, MarksWritten, Unchanged
<1> QED
  BY <1>2, <1>3, <1>4, <1>5, <1>6, <1>7 DEF SyncInv

(* Nothing else happens.                                                   *)
LEMMA StutterKeeps ==
  ASSUME SyncInv, UNCHANGED vars
  PROVE  SyncInv'
<1>1. /\ UNCHANGED <<isParent, dupes, indexed, matches, progress, mine, written, due>>
      /\ UNCHANGED <<slices, broken, startedOn, disturbed, faults, sidecars>>
  BY DEF vars, database, sidecars, tasks
<1>2. TypeOK' /\ Stages' /\ Grown'
  BY <1>1 DEF SyncInv, TypeOK, Stages, Grown
<1>3. RowsWritten' /\ MarksWritten'
  <2>1. \A i \in DOMAIN Rows : Promised(i)' <=> Promised(i)
    BY <1>1 DEF Promised
  <2> QED
    BY <1>1, <2>1, ResolutionStays DEF SyncInv, RowsWritten, MarksWritten, Unchanged
<1>4. TasksShare'
  BY <1>1, ResolutionStays DEF SyncInv, TasksShare, Shared
<1> QED
  BY <1>2, <1>3, <1>4 DEF SyncInv

(* Every step keeps the invariant.                                         *)
LEMMA NextKeeps ==
  ASSUME SyncInv, [Next]_vars
  PROVE  SyncInv'
<1>1. ASSUME ReportMarkerError
      PROVE  SyncInv'
  BY <1>1, StopKeeps DEF ReportMarkerError, SyncInv, TypeOK
<1>2. ASSUME Interrupt
      PROVE  SyncInv'
  <2>1. faults' \in 0..MaxFaults
    BY <1>2, SizesAssumption DEF Interrupt, SyncInv, TypeOK
  <2> QED
    BY <1>2, <2>1, StopKeeps DEF Interrupt
<1>3. ASSUME NEW w \in Workers, MarkBatch(w) \/ MarkerFails(w)
      PROVE  SyncInv'
  BY <1>3, MarkBatchKeeps, MarkerFailsKeeps
<1>4. ASSUME NEW d \in Docs \ indexed, IndexDocument(d)
      PROVE  SyncInv'
  BY <1>4, IndexDocumentKeeps
<1>5. ASSUME NEW p \in Pairs \ matches, RecordPair(p)
      PROVE  SyncInv'
  BY <1>5, RecordPairKeeps
<1>6. ASSUME NEW db \in Databases, OtherRunWrites(db)
      PROVE  SyncInv'
  BY <1>6, OtherRunWritesKeeps
<1> QED
  BY <1>1, <1>2, <1>3, <1>4, <1>5, <1>6, StartSyncKeeps, WriteDupesKeeps,
     SetSyncProgressKeeps, FinishDupesKeeps, JoinAllKeeps, StutterKeeps DEF Next

(* The invariant holds throughout.                                         *)
LEMMA SyncInvHolds == Spec => []SyncInv
<1>1. Init => SyncInv
  BY InitSync
<1>2. SyncInv /\ [Next]_vars => SyncInv'
  BY NextKeeps
<1> QED
  BY <1>1, <1>2, PTL DEF Spec

-------------------------------------------------------------------------------
(* The theorems.                                                           *)

(* Type correctness: among it, that the dupes table never has two rows for *)
(* a child, and that written rows are never more than there are documents. *)
THEOREM SyncTyped == Spec => []TypeOK
<1>1. SyncInv => TypeOK
  BY DEF SyncInv
<1> QED
  BY <1>1, SyncInvHolds, PTL

(* What state.redb promises is in the database: a sync that is taken up    *)
(* again skips no row (the checkpoint after write_dupes).                  *)
THEOREM CheckpointsAreCovered == Spec => []CheckpointNeverAhead
<1>1. SyncInv => CheckpointNeverAhead
  <2> SUFFICES ASSUME SyncInv, Unchanged, progress.step # "NotStarted",
                      NEW i \in 1..Min({progress.dupes_written, Len(Rows)})
               PROVE  Rows[i] \in dupes
    BY DEF CheckpointNeverAhead
  <2>1. /\ progress.dupes_written \in Nat /\ Len(Rows) \in Nat /\ DOMAIN Rows = 1..Len(Rows)
        /\ progress.step \in {"WritingDupes", "Completed"} \cup Marking
    BY RowsOfChildren, Lists DEF SyncInv, TypeOK, Progress, Marking
  <2>2. i \in DOMAIN Rows /\ i <= progress.dupes_written
    BY <2>1, MinOfTwo
  <2>3. Promised(i)
    BY <2>1, <2>2 DEF Promised
  <2> QED
    BY <2>2, <2>3 DEF SyncInv, RowsWritten
<1> QED
  BY <1>1, SyncInvHolds, PTL

(* A sync that is complete has replayed the sidecars, wherever it died     *)
(* and whichever marking task failed.                                      *)
THEOREM CompletedIsExact == Spec => []CompletedSyncIsExact
<1>1. SyncInv => CompletedSyncIsExact
  <2> SUFFICES ASSUME SyncInv, Unchanged, progress.step = "Completed", NEW d \in indexed
               PROVE  IF d \in Children
                      THEN isParent[d] = "false" /\ <<d, Root(d)>> \in dupes
                      ELSE isParent[d] = "true"
    BY DEF CompletedSyncIsExact
  <2>1. CASE d \in Children
    <3>1. PICK i \in DOMAIN Rows : Rows[i] = <<d, Root(d)>>
      BY <2>1, RowsOfChildren DEF SyncInv, TypeOK
    <3>2. Promised(i)
      BY DEF Promised
    <3> QED
      BY <2>1, <3>1, <3>2 DEF SyncInv, RowsWritten, MarksWritten
  <2>2. CASE d \notin Children
    BY <2>2 DEF SyncInv, MarksWritten, Parents
  <2> QED
    BY <2>1, <2>2
<1> QED
  BY <1>1, SyncInvHolds, PTL

(* Who is marked a child has a row, and the parent of the row is marked    *)
(* (parents are marked before children).                                   *)
THEOREM ChildrenFollowParents == Spec => DemotedForParent
<1> DEFINE Demotion ==
      Unchanged /\ mine # Off => \A d \in Docs : isParent'[d] = "false" /\ isParent[d] # "false" =>
        \E r \in dupes : r[1] = d /\ isParent[r[2]] = "true" /\ isParent'[r[2]] = "true"
<1>1. SyncInv /\ [Next]_vars => [Demotion]_vars
  <2> SUFFICES ASSUME SyncInv, Next, Unchanged, mine # Off, NEW d \in Docs,
                      isParent'[d] = "false", isParent[d] # "false"
               PROVE  \E r \in dupes : /\ r[1] = d /\ isParent[r[2]] = "true"
                                       /\ isParent'[r[2]] = "true"
    OBVIOUS
  <2>1. PICK w \in Workers : MarkBatch(w)
    BY DEF Next, IndexDocument, RecordPair, OtherRunWrites, StartSync, WriteDupes,
           SetSyncProgress, FinishDupes, MarkerFails, JoinAll, NextStep, ReportMarkerError, Interrupt, database
  <2> DEFINE batch == ToSet(SubSeq(slices[w], 1, Min({BatchSize, Len(slices[w])})))
             m == IF mine.step = "MarkingParents" THEN "true" ELSE "false"
  <2>2. /\ slices[w] # <<>>
        /\ isParent' = [e \in Docs |-> IF e \in batch THEN m ELSE isParent[e]]
    BY <2>1 DEF MarkBatch, Mark
  <2>3. d \in batch /\ m = "false"
    BY <2>2
  <2>4. mine.step = "MarkingChildren" /\ progress.step = "MarkingChildren"
    <3>1. mine.step \in Marking
      BY <2>2 DEF SyncInv, Stages, NoSlices
    <3>2. mine.step = "MarkingChildren" /\ mine # Off
      BY <2>3, <3>1 DEF Marking, Off
    <3> QED
      BY <3>2 DEF SyncInv, Stages
  <2>5. batch \subseteq Children
    <3>1. ToSet(slices[w]) \subseteq Children
      BY <2>4 DEF SyncInv, TasksShare, Shared
    <3>2. slices[w] \in Seq(Docs) /\ Len(slices[w]) \in Nat
      BY DEF SyncInv, TypeOK
    <3>3. Min({BatchSize, Len(slices[w])}) \in 0..Len(slices[w])
      BY <3>2, SizesAssumption, MinOfTwo
    <3> QED
      BY <3>1, <3>2, <3>3, CutSequence
  <2>6. d \in Children /\ Root(d) \in Parents \ Children /\ Root(d) \in Docs
    BY <2>3, <2>5, RootIsParent, RootInCluster DEF SyncInv, TypeOK
  <2>7. isParent[Root(d)] = "true" /\ isParent'[Root(d)] = "true"
    BY <2>2, <2>4, <2>5, <2>6 DEF SyncInv, MarksWritten
  <2>8. PICK i \in DOMAIN Rows : Rows[i] = <<d, Root(d)>>
    BY <2>6, RowsOfChildren DEF SyncInv, TypeOK
  <2>9. Promised(i)
    BY <2>4 DEF Promised, Marking
  <2>10. <<d, Root(d)>> \in dupes
    BY <2>8, <2>9 DEF SyncInv, RowsWritten
  <2> QED
    BY <2>7, <2>10
<1> QED
  BY <1>1, SyncInvHolds, PTL DEF Spec, DemotedForParent

===============================================================================
