--------------------------- MODULE MatchStore_proofs ---------------------------
(***************************************************************************)
(* Proofs about MatchStore and EdgeLookup, for any old file, any rows that *)
(* are inserted and any size of transactions: types and keys, that the     *)
(* adjacency index tracks the table through backfills that die, and that   *)
(* both lookups give Phase 3 the edges of the clusters of any seeds.       *)
(***************************************************************************)
EXTENDS EdgeLookup, SequenceTheorems, TLAPS

(* A backfill in progress has indexed what it has passed; none leaves rows *)
(* over when it is not running.                                            *)
Progressing ==
  /\ builder = "on" => Indexes(table \ left)
  /\ builder = "off" => left = {}

StoreInv == TypeOK /\ IndexTracksTable /\ Progressing

-------------------------------------------------------------------------------
(* What an entry of the index is made of.                                  *)
LEMMA EntryOf ==
  ASSUME NEW R, NEW e
  PROVE  e \in AdjacencyEntries(R) <=>
           \E r \in R : /\ r.child # r.parent
                        /\ \E n \in {r.child, r.parent} :
                             e = [node |-> n, child |-> r.child,
                                  parent |-> r.parent, score |-> r.score]
BY DEF AdjacencyEntries, RealRows

LEMMA EntriesTyped ==
  ASSUME NEW R \in SUBSET Rows
  PROVE  AdjacencyEntries(R) \subseteq Entries
<1> SUFFICES ASSUME NEW e \in AdjacencyEntries(R) PROVE e \in Entries
  OBVIOUS
<1>1. PICK r \in R : \E n \in {r.child, r.parent} :
        e = [node |-> n, child |-> r.child, parent |-> r.parent, score |-> r.score]
  BY EntryOf
<1>2. r.child \in Docs /\ r.parent \in Docs /\ r.score \in Nat
  BY DEF Rows
<1> QED
  BY <1>1, <1>2 DEF Entries

(* Entries of different slots come from rows of different edges.           *)
LEMMA OneEntryPerSlot ==
  ASSUME NEW R \in SUBSET Rows,
         \A r, s \in R : SameEdge(r, s) => r = s,
         NEW e \in AdjacencyEntries(R), NEW f \in AdjacencyEntries(R), SameSlot(e, f)
  PROVE  e = f
<1>1. PICK r \in R : \E n \in {r.child, r.parent} :
        e = [node |-> n, child |-> r.child, parent |-> r.parent, score |-> r.score]
  BY EntryOf
<1>2. PICK s \in R : \E n \in {s.child, s.parent} :
        f = [node |-> n, child |-> s.child, parent |-> s.parent, score |-> s.score]
  BY EntryOf
<1>3. e.node = f.node /\ r.child = s.child /\ r.parent = s.parent
  BY <1>1, <1>2 DEF SameSlot, SameEdge
<1>4. r = s
  BY <1>3 DEF SameEdge
<1> QED
  BY <1>1, <1>2, <1>3, <1>4

(* A row of the same edge has entries in the same slots.                   *)
LEMMA SlotsOfEdge ==
  ASSUME NEW R \in SUBSET Rows, NEW S \in SUBSET Rows, NEW s \in S,
         NEW f \in AdjacencyEntries(R),
         s.child = f.child, s.parent = f.parent
  PROVE  \E e \in AdjacencyEntries(S) : SameSlot(e, f)
<1>1. PICK r \in R :
        /\ r.child # r.parent
        /\ \E n \in {r.child, r.parent} :
             f = [node |-> n, child |-> r.child, parent |-> r.parent, score |-> r.score]
  BY EntryOf
<1>2. s.child = r.child /\ s.parent = r.parent /\ f.node \in {s.child, s.parent}
  BY <1>1
<1> DEFINE e == [node |-> f.node, child |-> s.child, parent |-> s.parent, score |-> s.score]
<1>3. e \in AdjacencyEntries(S)
  BY <1>1, <1>2, EntryOf
<1>4. SameSlot(e, f)
  BY DEF SameSlot, SameEdge
<1> QED
  BY <1>3, <1>4

LEMMA EntriesOfMore ==
  ASSUME NEW R, NEW S, R \subseteq S
  PROVE  AdjacencyEntries(R) \subseteq AdjacencyEntries(S)
BY DEF AdjacencyEntries, RealRows

(* Each entry comes from a row, which is real and of the same edge.        *)
LEMMA RowOfEntry ==
  ASSUME NEW R \in SUBSET Rows, NEW f \in AdjacencyEntries(R)
  PROVE  \E r \in RealRows(R) : /\ r.child = f.child /\ r.parent = f.parent
                                /\ f \in AdjacencyEntries({r})
<1>1. PICK r \in R :
        /\ r.child # r.parent
        /\ \E n \in {r.child, r.parent} :
             f = [node |-> n, child |-> r.child, parent |-> r.parent, score |-> r.score]
  BY EntryOf
<1>2. f \in AdjacencyEntries({r})
  BY <1>1, EntryOf
<1>3. r \in RealRows(R) /\ r.child = f.child /\ r.parent = f.parent
  BY <1>1 DEF RealRows
<1> QED
  BY <1>2, <1>3

-------------------------------------------------------------------------------
LEMMA InitStoreInv == Init => StoreInv
<1> SUFFICES ASSUME Init PROVE StoreInv
  OBVIOUS
<1>1. TypeOK
  BY RowsAssumption DEF Init, TypeOK
<1>2. IndexTracksTable
  BY DEF Init, IndexTracksTable
<1> QED
  BY <1>1, <1>2 DEF Init, StoreInv, Progressing

(* Of a batch, one row per key stays, and all are of the new key format.   *)
LEMMA FreshRows ==
  ASSUME NEW batch \in Batches
  PROVE  /\ Improving(batch) \subseteq {r \in Rows : ~r.legacy /\ r.child # r.parent}
         /\ \A r, s \in Improving(batch) : SameEdge(r, s) => r = s
<1> DEFINE fresh == Improving(batch)
<1>1. fresh \subseteq batch
  BY DEF Improving
<1>2. fresh \subseteq {r \in Rows : ~r.legacy /\ r.child # r.parent}
  BY <1>1, RowsAssumption DEF Batches
<1>3. ASSUME NEW r \in fresh, NEW s \in fresh, SameEdge(r, s), r # s
      PROVE  FALSE
  <2>1. SameKey(r, s) /\ SameKey(s, r)
    BY <1>2, <1>3 DEF SameKey, SameEdge, Rows
  <2>2. s.score < r.score /\ r.score < s.score
    BY <1>1, <1>3, <2>1 DEF Improving
  <2>3. r.score \in Nat /\ s.score \in Nat
    BY <1>2 DEF Rows
  <2> QED
    BY <2>2, <2>3
<1> QED
  BY <1>2, <1>3

(* A row that a batch replaces gives way to one of the same edge.          *)
LEMMA InsertBatchKeeps ==
  ASSUME StoreInv, NEW batch \in Batches, InsertBatch(batch)
  PROVE  StoreInv'
<1> USE DEF StoreInv
<1> DEFINE fresh == Improving(batch)
           entries == AdjacencyEntries(fresh)
           kept == {f \in adjacency : \A e \in entries : ~SameSlot(e, f)}
<1>1. /\ builder = "off" /\ left = {}
      /\ table' = {s \in table : \A r \in fresh : ~SameKey(r, s)} \cup fresh
      /\ adjacency' = kept \cup entries
      /\ UNCHANGED <<built, builder, left>>
  BY DEF InsertBatch, Progressing
<1>2. /\ fresh \subseteq Rows
      /\ \A r \in fresh : ~r.legacy /\ r.child # r.parent
      /\ \A r, s \in fresh : SameEdge(r, s) => r = s
  BY FreshRows
<1>3. table \subseteq Rows /\ table' \subseteq Rows
  BY <1>1, <1>2 DEF TypeOK
<1>4. TypeOK'
  <2>1. ASSUME NEW r \in table', NEW s \in table', SameKey(r, s)
        PROVE  r = s
    <3>1. SameKey(s, r)
      BY <2>1 DEF SameKey
    <3>2. CASE r \in fresh /\ s \in fresh
      BY <1>2, <2>1, <3>2 DEF SameKey, SameEdge
    <3> QED
      BY <1>1, <2>1, <3>1, <3>2 DEF TypeOK
  <2>2. adjacency' \subseteq Entries
    BY <1>1, <1>2, EntriesTyped DEF TypeOK
  <2>3. ASSUME NEW e \in adjacency', NEW f \in adjacency', SameSlot(e, f)
        PROVE  e = f
    <3>1. SameSlot(f, e)
      BY <2>3 DEF SameSlot, SameEdge
    <3>2. CASE e \in entries /\ f \in entries
      BY <1>2, <2>3, <3>2, OneEntryPerSlot
    <3>3. CASE e \in kept /\ f \in kept
      BY <2>3, <3>3 DEF TypeOK
    <3> QED
      BY <1>1, <2>3, <3>1, <3>2, <3>3
  <2> QED
    BY <1>1, <1>3, <2>1, <2>2, <2>3 DEF TypeOK
<1>5. adjacency' \subseteq AdjacencyEntries(table')
  <2>1. entries \subseteq AdjacencyEntries(table')
    BY <1>1, EntriesOfMore
  <2>2. ASSUME NEW f \in kept
        PROVE  f \in AdjacencyEntries(table')
    <3>1. f \in AdjacencyEntries(table)
      BY <2>2 DEF IndexTracksTable
    <3>2. PICK s \in RealRows(table) : /\ s.child = f.child /\ s.parent = f.parent
                                      /\ f \in AdjacencyEntries({s})
      BY <1>3, <3>1, RowOfEntry
    <3>3. ASSUME NEW r \in fresh, SameKey(r, s)
          PROVE  FALSE
      <4>1. r.child = f.child /\ r.parent = f.parent
        BY <1>2, <3>2, <3>3 DEF SameKey
      <4> QED
        BY <1>2, <1>3, <3>1, <4>1, SlotsOfEdge, <2>2
    <3>4. {s} \subseteq table'
      BY <1>1, <3>2, <3>3 DEF RealRows
    <3> QED
      BY <3>2, <3>4, EntriesOfMore
  <2> QED
    BY <1>1, <2>1, <2>2
<1>6. ASSUME built'
      PROVE  \A f \in AdjacencyEntries(table') : \E e \in adjacency' : SameSlot(e, f)
  <2> SUFFICES ASSUME NEW f \in AdjacencyEntries(table')
               PROVE  \E e \in adjacency' : SameSlot(e, f)
    OBVIOUS
  <2>1. PICK s \in RealRows(table') : f \in AdjacencyEntries({s})
    BY <1>3, RowOfEntry
  <2>2. CASE s \in fresh
    <3>1. f \in entries
      BY <2>1, <2>2, EntriesOfMore
    <3> QED
      BY <1>1, <3>1 DEF SameSlot, SameEdge
  <2>3. CASE s \in table
    <3>1. f \in AdjacencyEntries(table)
      BY <2>1, <2>3, EntriesOfMore
    <3>2. PICK e \in adjacency : SameSlot(e, f)
      BY <1>1, <1>6, <3>1 DEF IndexTracksTable, Indexes
    <3>3. CASE \E g \in entries : SameSlot(g, e)
      BY <1>1, <3>2, <3>3 DEF SameSlot, SameEdge
    <3> QED
      BY <1>1, <3>2, <3>3
  <2> QED
    BY <1>1, <2>2, <2>3 DEF RealRows
<1> QED
  BY <1>1, <1>4, <1>5, <1>6 DEF IndexTracksTable, Indexes, Progressing

LEMMA StartBuildKeeps ==
  ASSUME StoreInv, StartBuild
  PROVE  StoreInv'
<1> USE DEF StoreInv
<1>1. /\ builder' = "on" /\ left' = RealRows(table)
      /\ UNCHANGED <<table, adjacency, built>>
  BY DEF StartBuild
<1>2. AdjacencyEntries(table \ RealRows(table)) = {}
  BY DEF AdjacencyEntries, RealRows
<1>3. TypeOK'
  BY <1>1 DEF TypeOK, RealRows
<1> QED
  BY <1>1, <1>2, <1>3 DEF IndexTracksTable, Indexes, Progressing

(* Of the rows of one transaction of the backfill, the first of each edge  *)
(* is written; what it writes, or finds there, stands for all rows of the  *)
(* edge.                                                                   *)
LEMMA FlushAdjacencyKeeps ==
  ASSUME StoreInv, FlushAdjacency
  PROVE  StoreInv'
<1> USE DEF StoreInv
<1>1. PICK chunk \in SUBSET left :
        /\ left' = left \ chunk
        /\ adjacency' = adjacency \cup
             {e \in AdjacencyEntries({r \in chunk : \A s \in chunk : SameEdge(r, s) => ~KeyBefore(s, r)}) :
                \A f \in adjacency : ~SameSlot(e, f)}
  BY DEF FlushAdjacency
<1> DEFINE first == {r \in chunk : \A s \in chunk : SameEdge(r, s) => ~KeyBefore(s, r)}
           missing == {e \in AdjacencyEntries(first) : \A f \in adjacency : ~SameSlot(e, f)}
<1>2. builder = "on" /\ UNCHANGED <<table, built, builder>>
  BY DEF FlushAdjacency
<1>3. left \subseteq table /\ table \subseteq Rows /\ first \subseteq Rows /\ chunk \subseteq Rows
  BY DEF TypeOK
<1>4. adjacency' = adjacency \cup missing
  BY <1>1
<1>5. \A r, s \in first : SameEdge(r, s) => r = s
  <2> SUFFICES ASSUME NEW r \in first, NEW s \in first, SameEdge(r, s) PROVE r = s
    OBVIOUS
  <2>1. ~KeyBefore(s, r) /\ ~KeyBefore(r, s)
    BY DEF SameEdge
  <2>2. r.legacy \in BOOLEAN /\ s.legacy \in BOOLEAN
    BY <1>3 DEF Rows
  <2>3. r.legacy = s.legacy
    BY <2>1, <2>2 DEF KeyBefore, SameEdge
  <2>4. r \in table /\ s \in table
    BY <1>3
  <2> QED
    BY <2>3, <2>4 DEF SameKey, SameEdge, TypeOK
<1>6. \A r \in chunk : \E s \in first : SameEdge(s, r)
  <2> SUFFICES ASSUME NEW r \in chunk, r \notin first PROVE \E s \in first : SameEdge(s, r)
    BY DEF SameEdge
  <2>1. PICK s \in chunk : SameEdge(r, s) /\ KeyBefore(s, r)
    OBVIOUS
  <2>2. /\ r.child \in Nat /\ r.parent \in Nat
        /\ s.child = r.child /\ s.parent = r.parent
    BY <1>3, <2>1, RowsAssumption DEF Rows, SameEdge
  <2>3. s.legacy /\ ~r.legacy
    BY <2>1, <2>2 DEF KeyBefore
  <2>4. ASSUME NEW t \in chunk, SameEdge(s, t), KeyBefore(t, s)
        PROVE  FALSE
    <3>1. t.child = s.child /\ t.parent = s.parent
      BY <2>4 DEF SameEdge
    <3>2. ~(t.child < s.child) /\ ~(t.parent < s.parent)
      BY <2>2, <3>1
    <3> QED
      BY <2>3, <2>4, <3>2 DEF KeyBefore
  <2> QED
    BY <2>1, <2>4 DEF SameEdge
<1>7. TypeOK'
  <2>1. adjacency' \subseteq Entries
    BY <1>3, <1>4, EntriesTyped DEF TypeOK
  <2>2. ASSUME NEW e \in adjacency', NEW f \in adjacency', SameSlot(e, f)
        PROVE  e = f
    <3>1. SameSlot(f, e)
      BY <2>2 DEF SameSlot, SameEdge
    <3>2. CASE e \in adjacency /\ f \in adjacency
      BY <2>2, <3>2 DEF TypeOK
    <3>3. CASE e \in missing /\ f \in missing
      BY <1>3, <1>5, <2>2, <3>3, OneEntryPerSlot
    <3> QED
      BY <1>4, <2>2, <3>1, <3>2, <3>3
  <2> QED
    BY <1>1, <1>2, <2>1, <2>2 DEF TypeOK
<1>8. adjacency' \subseteq AdjacencyEntries(table')
  <2>1. AdjacencyEntries(first) \subseteq AdjacencyEntries(table)
    BY <1>3, EntriesOfMore
  <2> QED
    BY <1>2, <1>4, <2>1 DEF IndexTracksTable
<1>9. ASSUME NEW f \in AdjacencyEntries(table' \ left')
      PROVE  \E e \in adjacency' : SameSlot(e, f)
  <2>1. PICK r \in RealRows(table' \ left') :
          r.child = f.child /\ r.parent = f.parent /\ f \in AdjacencyEntries({r})
    BY <1>2, <1>3, RowOfEntry
  <2>2. CASE r \in chunk
    <3>1. PICK s \in first : s.child = f.child /\ s.parent = f.parent
      BY <1>6, <2>1, <2>2 DEF SameEdge
    <3>2. f \in AdjacencyEntries(table)
      BY <1>2, <2>1, EntriesOfMore DEF RealRows
    <3>3. PICK e \in AdjacencyEntries(first) : SameSlot(e, f)
      BY <1>3, <3>1, <3>2, SlotsOfEdge
    <3>4. CASE e \in missing
      BY <1>4, <3>3, <3>4
    <3>5. CASE \E g \in adjacency : SameSlot(e, g)
      BY <1>4, <3>3, <3>5 DEF SameSlot, SameEdge
    <3> QED
      BY <3>4, <3>5
  <2>3. CASE r \notin chunk
    <3>1. {r} \subseteq table \ left
      BY <1>1, <1>2, <2>1, <2>3 DEF RealRows
    <3>2. f \in AdjacencyEntries(table \ left)
      BY <2>1, <3>1, EntriesOfMore
    <3> QED
      BY <1>2, <1>4, <3>2 DEF Progressing, Indexes
  <2> QED
    BY <2>2, <2>3
<1>10. ASSUME built'
       PROVE  \A f \in AdjacencyEntries(table') : \E e \in adjacency' : SameSlot(e, f)
  BY <1>2, <1>4, <1>10 DEF IndexTracksTable, Indexes
<1> QED
  BY <1>2, <1>7, <1>8, <1>9, <1>10 DEF IndexTracksTable, Indexes, Progressing

(* The flag is set with nothing left; a backfill that dies leaves what it  *)
(* wrote.                                                                  *)
LEMMA BuildEndKeeps ==
  ASSUME StoreInv, SetAdjacencyBuilt \/ CrashBuild
  PROVE  StoreInv'
<1> USE DEF StoreInv
<1>1. UNCHANGED <<table, adjacency>> /\ builder' = "off" /\ left' = {}
  BY DEF SetAdjacencyBuilt, CrashBuild
<1>2. built' => Indexes(table)
  <2>1. CASE SetAdjacencyBuilt
    <3>1. table \ left = table
      BY <2>1 DEF SetAdjacencyBuilt
    <3> QED
      BY <2>1, <3>1 DEF SetAdjacencyBuilt, Progressing
  <2>2. CASE CrashBuild
    BY <2>2 DEF CrashBuild, IndexTracksTable
  <2> QED
    BY <2>1, <2>2
<1>3. built' \in BOOLEAN
  BY DEF SetAdjacencyBuilt, CrashBuild, TypeOK
<1> QED
  BY <1>1, <1>2, <1>3 DEF TypeOK, IndexTracksTable, Indexes, Progressing

LEMMA NextStoreInv == StoreInv /\ [Next]_vars => StoreInv'
<1> SUFFICES ASSUME StoreInv, [Next]_vars PROVE StoreInv'
  OBVIOUS
<1>1. CASE UNCHANGED vars
  BY <1>1 DEF vars, StoreInv, TypeOK, IndexTracksTable, Indexes, Progressing
<1> QED
  BY <1>1, InsertBatchKeeps, StartBuildKeeps, FlushAdjacencyKeeps, BuildEndKeeps DEF Next

-------------------------------------------------------------------------------
(* The invariant behind the two theorems.                                  *)
THEOREM StoreInvariant == Spec => []StoreInv
<1> QED
  BY InitStoreInv, NextStoreInv, PTL DEF Spec

(* Every variable keeps its type, each key has one row and each slot one   *)
(* entry, whatever keys and scores the old file had.                       *)
THEOREM StoreTyped == Spec => []TypeOK
<1>1. StoreInv => TypeOK
  BY DEF StoreInv
<1> QED
  BY <1>1, StoreInvariant, PTL

(* The index has no entry that the table does not justify, and all of them *)
(* once the flag is set: for files of any age and size, any insertions,    *)
(* and backfills that die at any point (build_adjacency_index: "Idempotent *)
(* and resumable").                                                        *)
THEOREM IndexIsFaithful == Spec => []IndexTracksTable
<1>1. StoreInv => IndexTracksTable
  BY DEF StoreInv
<1> QED
  BY <1>1, StoreInvariant, PTL

-------------------------------------------------------------------------------
(* Lookups.                                                                *)

Edges == [child : Docs, parent : Docs, score : Nat]

(* What a lookup has reached is part of the clusters of its seeds.         *)
Reading ==
  /\ reader \in {"off", "scanning", "emitting", "scanned", "walking", "walked"}
  /\ seeds \subseteq known /\ known \subseteq Reached(seeds)
  /\ emitted \in Seq(Edges)
  /\ reader = "off" => Idle
  /\ reader = "scanning" => emitted = <<>>

(* The rows of this pass, or the entries of visited nodes, that have been  *)
(* read.                                                                   *)
PassedRows == RealRows(table) \ unread
PassedEntries == {e \in adjacency \ unread : e.node \in known \ stack}

Scanning ==
  reader = "scanning" =>
    /\ unread \subseteq RealRows(table) /\ before \subseteq known
    /\ \A r \in PassedRows : Ends(r) \cap before # {} => Ends(r) \subseteq known

(* The last pass goes over a set that is closed.                           *)
Emitting ==
  reader = "emitting" =>
    /\ Closed(known) /\ unread \subseteq RealRows(table)
    /\ \A r \in PassedRows : Ends(r) \cap known # {} => Edge(r) \in Range(emitted)
    /\ \A x \in Range(emitted) :
         \E r \in PassedRows : Ends(r) \cap known # {} /\ x = Edge(r)
    /\ \A i, j \in DOMAIN emitted :
         SameEdge(emitted[i], emitted[j]) => i = j \/ InBothFormats(emitted[i])

(* The walk has been at the other ends of what it has passed, or has put   *)
(* them on its stack.                                                      *)
Walking ==
  reader = "walking" =>
    /\ built = TRUE /\ stack \subseteq known
    /\ unread \subseteq adjacency /\ \A e \in unread : e.node \in known \ stack
    /\ \A e \in PassedEntries : OtherEnd(e) \in known
    /\ \A e \in PassedEntries : EmittedHere(e) => Edge(e) \in Range(emitted)
    /\ \A x \in Range(emitted) : \E e \in PassedEntries : EmittedHere(e) /\ x = Edge(e)
    /\ \A i, j \in DOMAIN emitted : SameEdge(emitted[i], emitted[j]) => i = j

LookupInv == StoreInv /\ Reading /\ Scanning /\ Emitting /\ Walking /\ LookupsAgree

LEMMA AppendRange ==
  ASSUME NEW S, NEW s \in Seq(S), NEW x \in S
  PROVE  /\ Append(s, x) \in Seq(S) /\ Range(Append(s, x)) = Range(s) \cup {x}
         /\ DOMAIN Append(s, x) = DOMAIN s \cup {Len(s) + 1}
         /\ \A i \in DOMAIN s : Append(s, x)[i] = s[i] /\ s[i] \in Range(s)
         /\ Append(s, x)[Len(s) + 1] = x
<1>1. /\ Append(s, x) \in Seq(S) /\ Len(Append(s, x)) = Len(s) + 1
      /\ \A i \in 1 .. Len(s) : Append(s, x)[i] = s[i]
      /\ Append(s, x)[Len(s) + 1] = x
  BY AppendProperties
<1>2. DOMAIN s = 1 .. Len(s) /\ DOMAIN Append(s, x) = 1 .. Len(s) + 1 /\ Len(s) \in Nat
  BY <1>1
<1>3. 1 .. Len(s) + 1 = (1 .. Len(s)) \cup {Len(s) + 1}
  BY <1>2
<1> QED
  BY <1>1, <1>2, <1>3 DEF Range

(* The clusters of some documents are the least closed set around them.    *)
LEMMA ReachedIsClosed ==
  ASSUME table \subseteq Rows, NEW S \in SUBSET Docs
  PROVE  /\ S \subseteq Reached(S) /\ Reached(S) \subseteq Docs
         /\ Closed(Reached(S))
         /\ \A C \in SUBSET Docs : S \subseteq C /\ Closed(C) => Reached(S) \subseteq C
<1>1. \A r \in RealRows(table) : Ends(r) \subseteq Docs
  BY DEF RealRows, Rows, Ends
<1>2. ASSUME NEW r \in RealRows(table), NEW d \in Ends(r) \cap Reached(S), NEW x \in Ends(r)
      PROVE  x \in Reached(S)
  BY <1>1, <1>2 DEF Reached, Closed
<1>3. Closed(Reached(S))
  BY <1>2 DEF Closed
<1> QED
  BY <1>3 DEF Reached

LEMMA ClosedIsReached ==
  ASSUME table \subseteq Rows, Reading, Closed(known)
  PROVE  /\ known = Reached(seeds)
         /\ \A r \in RealRows(table) :
              Ends(r) \cap known # {} <=> r.child \in Reached(seeds)
<1>1. seeds \in SUBSET Docs /\ known \in SUBSET Docs
  BY DEF Reading, Reached
<1>2. known = Reached(seeds)
  BY <1>1, ReachedIsClosed DEF Reading
<1> QED
  BY <1>2 DEF Closed, Ends

(* A row that touches what is reached is itself within the clusters.       *)
LEMMA RowsWithinReach ==
  ASSUME table \subseteq Rows, Reading, NEW r \in RealRows(table), Ends(r) \cap known # {}
  PROVE  Ends(r) \subseteq Reached(seeds)
<1>1. seeds \in SUBSET Docs
  BY DEF Reading, Reached
<1> QED
  BY <1>1, ReachedIsClosed DEF Closed, Reading

(* An entry leads from a node to the other end of a row.                   *)
LEMMA EntryLeads ==
  ASSUME StoreInv, NEW e \in adjacency
  PROVE  /\ Edge(e) \in Edges /\ e.node \in {e.child, e.parent}
         /\ Ends(e) = {e.node, OtherEnd(e)}
         /\ \E r \in RealRows(table) : Ends(r) = Ends(e) /\ Edge(r) = Edge(e)
<1>1. PICK r \in table :
        /\ r.child # r.parent
        /\ \E n \in {r.child, r.parent} :
             e = [node |-> n, child |-> r.child, parent |-> r.parent, score |-> r.score]
  BY EntryOf DEF StoreInv, IndexTracksTable
<1>2. e \in Entries
  BY DEF StoreInv, TypeOK
<1>3. e.node \in {e.child, e.parent} /\ Ends(r) = Ends(e) /\ Edge(r) = Edge(e)
  BY <1>1 DEF Ends, Edge
<1> QED
  BY <1>1, <1>2, <1>3 DEF Ends, OtherEnd, RealRows, Edge, Edges, Entries

-------------------------------------------------------------------------------
(* The scan.                                                               *)

LEMMA BeginKeeps ==
  ASSUME LookupInv, NEW S \in SUBSET Docs, Visit(S), UNCHANGED vars
  PROVE  LookupInv'
<1>1. /\ reader = "off" /\ seeds' = S /\ known' = S /\ emitted' = <<>>
      /\ \/ /\ before' = S /\ unread' = RealRows(table)
            /\ reader' = IF S = {} THEN "scanned" ELSE "scanning"
         \/ /\ stack' = S /\ unread' = {} /\ built = TRUE
            /\ reader' = IF S = {} THEN "walked" ELSE "walking"
  <2>1. reader = "off" => emitted = <<>> /\ unread = {}
    BY DEF LookupInv, Reading, Idle
  <2>2. built = TRUE \/ built = FALSE
    BY DEF LookupInv, StoreInv, TypeOK
  <2> QED
    BY <2>1, <2>2 DEF Visit, StartScan, StartWalk, Begin
<1>2. StoreInv' /\ table \subseteq Rows /\ table' = table
  BY NextStoreInv DEF LookupInv, vars, StoreInv, TypeOK
<1>3. Range(<<>>) = {} /\ DOMAIN <<>> = {} /\ <<>> \in Seq(Edges)
  BY DEF Range
<1>4. Reached(seeds)' = Reached(S) /\ S \subseteq Reached(S) /\ (S = {} => Reached(S) = {})
  <2>1. Reached(seeds)' = Reached(S)
    BY <1>1, <1>2 DEF Reached, Closed
  <2>2. Closed({})
    BY DEF Closed
  <2>3. S \subseteq Reached(S) /\ (S = {} => Reached(S) \subseteq {})
    BY <1>2, <2>2, ReachedIsClosed
  <2> QED
    BY <2>1, <2>3
<1>5. Reading'
  BY <1>1, <1>3, <1>4 DEF Reading
<1>6. Scanning' /\ Emitting' /\ Walking'
  BY <1>1, <1>2, <1>3 DEF Scanning, Emitting, Walking, PassedRows, PassedEntries, vars
<1>7. LookupsAgree'
  <2>1. S = {} => ClusterEdges(seeds)' = {}
    BY <1>1, <1>2, <1>4 DEF ClusterEdges, Reached, Closed
  <2> QED
    BY <1>1, <1>3, <2>1 DEF LookupsAgree
<1> QED
  BY <1>2, <1>5, <1>6, <1>7 DEF LookupInv

(* Steps of a lookup leave the store alone, and what depends on it only.   *)
LEMMA StoreStays ==
  ASSUME LookupInv, UNCHANGED vars
  PROVE  /\ StoreInv' /\ table \subseteq Rows
         /\ \A S : Reached(S)' = Reached(S) /\ (Closed(S)' <=> Closed(S))
         /\ \A S : ClusterEdges(S)' = ClusterEdges(S)
         /\ \A x : InBothFormats(x)' <=> InBothFormats(x)
<1>1. StoreInv' /\ table \subseteq Rows /\ table' = table
  BY NextStoreInv DEF LookupInv, vars, StoreInv, TypeOK
<1> QED
  BY <1>1 DEF Reached, Closed, ClusterEdges, InBothFormats

LEMMA ReadRowKeeps ==
  ASSUME LookupInv, ReadRow, UNCHANGED vars
  PROVE  LookupInv'
<1>1. PICK r \in unread :
        /\ unread' = unread \ {r}
        /\ known' = IF Ends(r) \cap known = {} THEN known ELSE known \cup Ends(r)
  BY DEF ReadRow
<1>2. reader = "scanning" /\ UNCHANGED <<reader, seeds, before, stack, emitted>>
  BY DEF ReadRow
<1>3. /\ unread \subseteq RealRows(table) /\ before \subseteq known
      /\ \A s \in PassedRows : Ends(s) \cap before # {} => Ends(s) \subseteq known
  BY <1>2 DEF LookupInv, Scanning
<1>4. Reading'
  <2>1. known' \subseteq Reached(seeds)
    BY <1>1, <1>3, StoreStays, RowsWithinReach DEF LookupInv, Reading
  <2> QED
    BY <1>1, <1>2, <2>1, StoreStays DEF LookupInv, Reading
<1>5. Scanning'
  <2>1. ASSUME NEW s \in RealRows(table) \ unread', Ends(s) \cap before # {}
        PROVE  Ends(s) \subseteq known'
    <3>1. CASE s = r
      BY <1>1, <1>3, <2>1, <3>1
    <3>2. CASE s # r
      BY <1>1, <1>3, <2>1, <3>2 DEF PassedRows
    <3> QED
      BY <3>1, <3>2
  <2> QED
    BY <1>1, <1>2, <1>3, <2>1 DEF Scanning, PassedRows, vars
<1> QED
  BY <1>2, <1>4, <1>5, StoreStays DEF LookupInv, Emitting, Walking, LookupsAgree

(* A pass that reaches nothing new has gone over a closed set.             *)
LEMMA EndPassKeeps ==
  ASSUME LookupInv, EndPass, UNCHANGED vars
  PROVE  LookupInv'
<1>1. /\ reader = "scanning" /\ unread = {}
      /\ reader' = IF known = before THEN "emitting" ELSE "scanning"
      /\ before' = known /\ unread' = RealRows(table)
      /\ UNCHANGED <<seeds, known, stack, emitted>>
  BY DEF EndPass
<1>2. table' = table
  BY DEF vars
<1>3. known = before => Closed(known)
  BY <1>1 DEF LookupInv, Scanning, PassedRows, Closed
<1>4. Reading'
  BY <1>1, StoreStays DEF LookupInv, Reading
<1>5. Scanning'
  BY <1>1, <1>2 DEF Scanning, PassedRows
<1>6. Emitting'
  <2>1. emitted = <<>>
    BY <1>1 DEF LookupInv, Reading
  <2> QED
    BY <1>1, <1>2, <1>3, <2>1, StoreStays DEF Emitting, PassedRows, Range
<1> QED
  BY <1>1, <1>4, <1>5, <1>6, StoreStays DEF LookupInv, Walking, LookupsAgree

LEMMA EmitRowKeeps ==
  ASSUME LookupInv, EmitRow, UNCHANGED vars
  PROVE  LookupInv'
<1>1. PICK r \in unread :
        /\ unread' = unread \ {r}
        /\ emitted' = IF Ends(r) \cap known = {} THEN emitted ELSE Append(emitted, Edge(r))
  BY DEF EmitRow
<1>2. reader = "emitting" /\ UNCHANGED <<reader, seeds, known, before, stack>> /\ table' = table
  BY DEF EmitRow, vars
<1>3. /\ Closed(known) /\ unread \subseteq RealRows(table)
      /\ \A s \in PassedRows : Ends(s) \cap known # {} => Edge(s) \in Range(emitted)
      /\ \A x \in Range(emitted) :
           \E s \in PassedRows : Ends(s) \cap known # {} /\ x = Edge(s)
      /\ \A i, j \in DOMAIN emitted :
           SameEdge(emitted[i], emitted[j]) => i = j \/ InBothFormats(emitted[i])
      /\ emitted \in Seq(Edges)
  BY <1>2 DEF LookupInv, Emitting, Reading
<1>4. Edge(r) \in Edges /\ r \in table /\ r \in RealRows(table) /\ PassedRows' = PassedRows \cup {r}
  BY <1>1, <1>2, <1>3, StoreStays DEF Edge, Edges, RealRows, Rows, PassedRows
<1>5. CASE Ends(r) \cap known = {}
  <2>1. emitted' = emitted
    BY <1>1, <1>5
  <2>2. Emitting'
    BY <1>1, <1>2, <1>3, <1>4, <1>5, <2>1, StoreStays DEF Emitting
  <2> QED
    BY <1>2, <2>1, <2>2, StoreStays DEF LookupInv, Reading, Scanning, Walking, LookupsAgree
<1>6. CASE Ends(r) \cap known # {}
  <2> DEFINE n == Len(emitted) + 1
  <2>1. /\ emitted' \in Seq(Edges) /\ Range(emitted') = Range(emitted) \cup {Edge(r)}
        /\ DOMAIN emitted' = DOMAIN emitted \cup {n} /\ emitted'[n] = Edge(r)
        /\ \A i \in DOMAIN emitted : emitted'[i] = emitted[i] /\ emitted[i] \in Range(emitted)
    BY <1>1, <1>3, <1>4, <1>6, AppendRange
  <2>2. ASSUME NEW i \in DOMAIN emitted, SameEdge(emitted[i], Edge(r))
        PROVE  InBothFormats(emitted[i]) /\ InBothFormats(Edge(r))
    <3>1. PICK s \in PassedRows : emitted[i] = Edge(s)
      BY <1>3, <2>1
    <3>2. s \in table /\ s # r
      BY <3>1 DEF PassedRows, RealRows
    <3> QED
      BY <1>4, <2>2, <3>1, <3>2 DEF InBothFormats, SameEdge, Edge
  <2>3. ASSUME NEW i \in DOMAIN emitted', NEW j \in DOMAIN emitted',
               SameEdge(emitted'[i], emitted'[j])
        PROVE  i = j \/ InBothFormats(emitted'[i])
    <3>1. SameEdge(emitted'[j], emitted'[i])
      BY <2>3 DEF SameEdge
    <3> HIDE DEF n
    <3>2. CASE i \in DOMAIN emitted /\ j \in DOMAIN emitted
      BY <1>3, <2>1, <2>3, <3>2
    <3>3. CASE i \in DOMAIN emitted /\ j = n
      BY <2>1, <2>2, <2>3, <3>3
    <3>4. CASE i = n /\ j \in DOMAIN emitted
      BY <2>1, <2>2, <3>1, <3>4
    <3> QED
      BY <2>1, <2>3, <3>2, <3>3, <3>4
  <2>4. Emitting'
    <3> HIDE DEF n
    <3>1. /\ \A s \in PassedRows' : Ends(s) \cap known # {} => Edge(s) \in Range(emitted')
          /\ \A x \in Range(emitted') :
               \E s \in PassedRows' : Ends(s) \cap known # {} /\ x = Edge(s)
      BY <1>3, <1>4, <1>6, <2>1
    <3> QED
      BY <1>1, <1>2, <1>3, <2>3, <3>1, StoreStays DEF Emitting
  <2> QED
    BY <1>2, <2>1, <2>4, StoreStays DEF LookupInv, Reading, Scanning, Walking, LookupsAgree
<1> QED
  BY <1>5, <1>6

LEMMA EndScanKeeps ==
  ASSUME LookupInv, EndScan, UNCHANGED vars
  PROVE  LookupInv'
<1>1. /\ reader = "emitting" /\ unread = {} /\ reader' = "scanned"
      /\ UNCHANGED <<seeds, known, before, stack, unread, emitted>>
  BY DEF EndScan
<1>2. /\ Closed(known)
      /\ \A r \in RealRows(table) : Ends(r) \cap known # {} => Edge(r) \in Range(emitted)
      /\ \A x \in Range(emitted) :
           \E r \in RealRows(table) : Ends(r) \cap known # {} /\ x = Edge(r)
      /\ \A i, j \in DOMAIN emitted :
           SameEdge(emitted[i], emitted[j]) => i = j \/ InBothFormats(emitted[i])
  BY <1>1 DEF LookupInv, Emitting, PassedRows
<1>3. Range(emitted) = ClusterEdges(seeds)
  <2>1. \A r \in RealRows(table) : Ends(r) \cap known # {} <=> r.child \in Reached(seeds)
    BY <1>2, StoreStays, ClosedIsReached DEF LookupInv
  <2> QED
    BY <1>2, <2>1 DEF ClusterEdges
<1>4. LookupsAgree'
  BY <1>1, <1>2, <1>3, StoreStays DEF LookupsAgree, SameEdge
<1>5. Reading'
  BY <1>1, StoreStays DEF LookupInv, Reading
<1> QED
  BY <1>1, <1>4, <1>5, StoreStays DEF LookupInv, Scanning, Emitting, Walking

-------------------------------------------------------------------------------
(* The walk.                                                               *)

LEMMA PopNodeKeeps ==
  ASSUME LookupInv, PopNode, UNCHANGED vars
  PROVE  LookupInv'
<1>1. PICK n \in stack :
        stack' = stack \ {n} /\ unread' = {e \in adjacency : e.node = n}
  BY DEF PopNode
<1>2. /\ reader = "walking" /\ unread = {} /\ adjacency' = adjacency /\ built' = built
      /\ UNCHANGED <<reader, seeds, known, before, emitted>>
  BY DEF PopNode, vars
<1>3. PassedEntries' = PassedEntries
  BY <1>1, <1>2 DEF PassedEntries
<1>4. Walking'
  <2>1. stack \subseteq known
    BY <1>2 DEF LookupInv, Walking
  <2>2. stack' \subseteq known /\ unread' \subseteq adjacency
        /\ \A e \in unread' : e.node \in known \ stack'
    BY <1>1, <2>1
  <2> QED
    BY <1>2, <1>3, <2>2 DEF LookupInv, Walking
<1>5. Reading'
  BY <1>2, StoreStays DEF LookupInv, Reading
<1> QED
  BY <1>2, <1>4, <1>5, StoreStays DEF LookupInv, Scanning, Emitting, LookupsAgree

(* An entry is only emitted at the lower end of its edge, and there is one *)
(* of each edge there.                                                     *)
LEMMA EmittedOnce ==
  ASSUME StoreInv, NEW e \in adjacency, NEW f \in adjacency,
         EmittedHere(e), EmittedHere(f), SameEdge(e, f)
  PROVE  e = f
<1>1. /\ e.node \in {e.child, e.parent} /\ f.node \in {f.child, f.parent}
      /\ e.child = f.child /\ e.parent = f.parent
  BY EntryLeads DEF SameEdge
<1>2. e.child \in Nat /\ e.parent \in Nat
  BY RowsAssumption DEF StoreInv, TypeOK, Entries
<1>3. e.node = f.node
  BY <1>1, <1>2 DEF EmittedHere
<1> QED
  BY <1>3 DEF StoreInv, TypeOK, SameSlot

LEMMA ReadEntryKeeps ==
  ASSUME LookupInv, ReadEntry, UNCHANGED vars
  PROVE  LookupInv'
<1>1. PICK e \in unread :
        /\ unread' = unread \ {e}
        /\ emitted' = IF EmittedHere(e) THEN Append(emitted, Edge(e)) ELSE emitted
        /\ known' = known \cup {OtherEnd(e)}
        /\ stack' = stack \cup ({OtherEnd(e)} \ known)
  BY DEF ReadEntry
<1>2. /\ reader = "walking" /\ UNCHANGED <<reader, seeds, before>>
      /\ table' = table /\ adjacency' = adjacency /\ built' = built
  BY DEF ReadEntry, vars
<1>3. /\ built = TRUE /\ stack \subseteq known
      /\ unread \subseteq adjacency /\ \A f \in unread : f.node \in known \ stack
      /\ \A f \in PassedEntries : OtherEnd(f) \in known
      /\ \A f \in PassedEntries : EmittedHere(f) => Edge(f) \in Range(emitted)
      /\ \A x \in Range(emitted) : \E f \in PassedEntries : EmittedHere(f) /\ x = Edge(f)
      /\ \A i, j \in DOMAIN emitted : SameEdge(emitted[i], emitted[j]) => i = j
      /\ emitted \in Seq(Edges)
  BY <1>2 DEF LookupInv, Walking, Reading
<1>4. /\ e \in adjacency /\ Edge(e) \in Edges
      /\ OtherEnd(e) \in Reached(seeds)
  <2>1. PICK r \in RealRows(table) : Ends(r) = {e.node, OtherEnd(e)}
    BY <1>3, EntryLeads DEF LookupInv
  <2>2. Ends(r) \cap known # {}
    BY <1>3, <2>1
  <2>3. Ends(r) \subseteq Reached(seeds)
    BY <2>1, <2>2, StoreStays, RowsWithinReach DEF LookupInv
  <2> QED
    BY <1>3, <2>1, <2>3, EntryLeads DEF LookupInv
<1>5. known' \ stack' = known \ stack /\ PassedEntries' = PassedEntries \cup {e}
  <2>1. known' \ stack' = known \ stack
    BY <1>1, <1>3
  <2> QED
    BY <1>1, <1>2, <1>3, <1>4, <2>1 DEF PassedEntries
<1>6. /\ emitted' \in Seq(Edges)
      /\ \A f \in PassedEntries' : EmittedHere(f) => Edge(f) \in Range(emitted')
      /\ \A x \in Range(emitted') : \E f \in PassedEntries' : EmittedHere(f) /\ x = Edge(f)
      /\ \A i, j \in DOMAIN emitted' : SameEdge(emitted'[i], emitted'[j]) => i = j
  <2>1. CASE ~EmittedHere(e)
    BY <1>1, <1>3, <1>5, <2>1
  <2>2. CASE EmittedHere(e)
    <3> DEFINE n == Len(emitted) + 1
    <3>1. /\ emitted' \in Seq(Edges) /\ Range(emitted') = Range(emitted) \cup {Edge(e)}
          /\ DOMAIN emitted' = DOMAIN emitted \cup {n} /\ emitted'[n] = Edge(e)
          /\ \A i \in DOMAIN emitted : emitted'[i] = emitted[i] /\ emitted[i] \in Range(emitted)
      BY <1>1, <1>3, <1>4, <2>2, AppendRange
    <3> HIDE DEF n
    <3>2. ASSUME NEW i \in DOMAIN emitted
          PROVE  ~SameEdge(emitted[i], Edge(e)) /\ ~SameEdge(Edge(e), emitted[i])
      <4>1. PICK f \in PassedEntries : EmittedHere(f) /\ emitted[i] = Edge(f)
        BY <1>3, <3>1
      <4>2. f \in adjacency /\ f # e
        BY <4>1 DEF PassedEntries
      <4>3. ~SameEdge(f, e)
        BY <1>4, <2>2, <4>1, <4>2, EmittedOnce DEF LookupInv
      <4> QED
        BY <4>1, <4>3 DEF SameEdge, Edge
    <3>3. \A i, j \in DOMAIN emitted' : SameEdge(emitted'[i], emitted'[j]) => i = j
      BY <1>3, <3>1, <3>2
    <3> QED
      BY <1>3, <1>5, <2>2, <3>1, <3>3
  <2> QED
    BY <2>1, <2>2
<1>7. Reading'
  BY <1>1, <1>2, <1>4, <1>6, StoreStays DEF LookupInv, Reading
<1>8. Walking'
  <2>1. stack' \subseteq known' /\ \A f \in PassedEntries' : OtherEnd(f) \in known'
    BY <1>1, <1>3, <1>5
  <2>2. unread' \subseteq adjacency' /\ \A f \in unread' : f.node \in known' \ stack'
    BY <1>1, <1>2, <1>3, <1>5
  <2> QED
    BY <1>2, <1>3, <1>6, <2>1, <2>2 DEF Walking
<1> QED
  BY <1>2, <1>7, <1>8, StoreStays DEF LookupInv, Scanning, Emitting, LookupsAgree

(* A walk that has nothing left has been at every entry of a closed set,   *)
(* since the index leads from both ends of every row.                      *)
LEMMA EndWalkKeeps ==
  ASSUME LookupInv, EndWalk, UNCHANGED vars
  PROVE  LookupInv'
<1>1. /\ reader = "walking" /\ unread = {} /\ stack = {} /\ reader' = "walked"
      /\ UNCHANGED <<seeds, known, before, stack, unread, emitted>>
  BY DEF EndWalk
<1>2. /\ built = TRUE
      /\ \A e \in adjacency : e.node \in known =>
           /\ OtherEnd(e) \in known
           /\ EmittedHere(e) => Edge(e) \in Range(emitted)
      /\ \A x \in Range(emitted) :
           \E e \in adjacency : e.node \in known /\ x = Edge(e)
      /\ \A i, j \in DOMAIN emitted : SameEdge(emitted[i], emitted[j]) => i = j
  BY <1>1 DEF LookupInv, Walking, PassedEntries
<1>3. ASSUME NEW r \in RealRows(table), NEW n \in Ends(r)
      PROVE  \E e \in adjacency : e.node = n /\ SameEdge(e, r)
  <2> DEFINE f == [node |-> n, child |-> r.child, parent |-> r.parent, score |-> r.score]
  <2>1. f \in AdjacencyEntries(table)
    BY EntryOf DEF RealRows, Ends
  <2>2. PICK e \in adjacency : SameSlot(e, f)
    BY <1>2, <2>1 DEF LookupInv, StoreInv, IndexTracksTable, Indexes
  <2> QED
    BY <2>2 DEF SameSlot, SameEdge
<1>4. Closed(known)
  <2> SUFFICES ASSUME NEW r \in RealRows(table), NEW n \in Ends(r), n \in known
               PROVE  Ends(r) \subseteq known
    BY DEF Closed
  <2>1. PICK e \in adjacency : e.node = n /\ SameEdge(e, r)
    BY <1>3
  <2>2. Ends(r) = {e.node, OtherEnd(e)}
    BY <2>1, EntryLeads DEF LookupInv, SameEdge, Ends
  <2> QED
    BY <1>2, <2>1, <2>2
<1>5. \A r \in RealRows(table) : Ends(r) \cap known # {} <=> r.child \in Reached(seeds)
  BY <1>4, StoreStays, ClosedIsReached DEF LookupInv
<1>6. Range(emitted) \subseteq ClusterEdges(seeds)
  <2> SUFFICES ASSUME NEW e \in adjacency, e.node \in known PROVE Edge(e) \in ClusterEdges(seeds)
    BY <1>2
  <2>1. PICK r \in RealRows(table) : Ends(r) = {e.node, OtherEnd(e)} /\ Edge(r) = Edge(e)
    BY EntryLeads DEF LookupInv
  <2> QED
    BY <1>5, <2>1 DEF ClusterEdges
<1>7. ASSUME NEW x \in ClusterEdges(seeds)
      PROVE  \E y \in Range(emitted) : SameEdge(y, x) /\ (y = x \/ InBothFormats(x))
  <2>1. PICK r \in RealRows(table) : x = Edge(r) /\ Ends(r) \cap known # {}
    BY <1>5 DEF ClusterEdges
  <2>2. r \in Rows /\ r \in table
    BY StoreStays DEF RealRows
  <2>3. PICK n \in Ends(r) : n <= r.child /\ n <= r.parent
    <3>1. r.child \in Nat /\ r.parent \in Nat
      BY <2>2, RowsAssumption DEF Rows
    <3>2. r.child <= r.parent \/ r.parent <= r.child
      BY <3>1
    <3> QED
      BY <3>1, <3>2 DEF Ends
  <2>4. PICK e \in adjacency : e.node = n /\ SameEdge(e, r)
    BY <1>3
  <2>5. e.node \in known /\ EmittedHere(e)
    BY <1>4, <2>1, <2>3, <2>4 DEF Closed, EmittedHere, SameEdge
  <2>6. Edge(e) \in Range(emitted)
    BY <1>2, <2>5
  <2>7. PICK s \in RealRows(table) : Edge(s) = Edge(e)
    BY EntryLeads DEF LookupInv
  <2>8. Edge(e) = x \/ InBothFormats(x)
    <3>1. CASE s = r
      BY <2>1, <2>7, <3>1
    <3>2. CASE s # r
      <4>1. s \in table /\ SameEdge(s, x) /\ SameEdge(r, x)
        BY <2>1, <2>4, <2>7 DEF SameEdge, Edge, RealRows
      <4> QED
        BY <2>2, <3>2, <4>1 DEF InBothFormats
    <3> QED
      BY <3>1, <3>2
  <2>9. SameEdge(Edge(e), x)
    BY <2>1, <2>4 DEF SameEdge, Edge
  <2> QED
    BY <2>6, <2>8, <2>9
<1>8. LookupsAgree'
  BY <1>1, <1>2, <1>6, <1>7, StoreStays DEF LookupsAgree, SameEdge
<1>9. Reading'
  BY <1>1, StoreStays DEF LookupInv, Reading
<1> QED
  BY <1>1, <1>8, <1>9, StoreStays DEF LookupInv, Scanning, Emitting, Walking

-------------------------------------------------------------------------------

LEMMA IdleKeeps ==
  ASSUME StoreInv', Idle'
  PROVE  LookupInv'
<1>1. Reading'
  BY DEF Idle, Reading
<1> QED
  BY <1>1 DEF Idle, LookupInv, Scanning, Emitting, Walking, LookupsAgree

LEMMA LookupStepKeeps ==
  ASSUME LookupInv, [LookupNext]_lookupVars
  PROVE  LookupInv'
<1>1. CASE Next /\ reader = "off" /\ UNCHANGED lookup
  BY <1>1, NextStoreInv, IdleKeeps DEF LookupInv, Reading, Idle, lookup
<1>2. CASE LookupStep /\ UNCHANGED vars
  BY <1>2, ReadRowKeeps, EndPassKeeps, EmitRowKeeps, EndScanKeeps, PopNodeKeeps,
     ReadEntryKeeps, EndWalkKeeps DEF LookupStep
<1>3. CASE Return /\ UNCHANGED vars
  BY <1>3, StoreStays, IdleKeeps DEF Return, Idle
<1>4. CASE (\E S \in SUBSET Docs : Visit(S)) /\ UNCHANGED vars
  BY <1>4, BeginKeeps
<1>5. CASE UNCHANGED lookupVars
  <2>1. UNCHANGED vars /\ UNCHANGED lookup
    BY <1>5 DEF lookupVars, vars, lookup
  <2>2. PassedRows' = PassedRows /\ PassedEntries' = PassedEntries
    BY <2>1 DEF lookup, vars, PassedRows, PassedEntries
  <2>3. Reading' /\ Scanning'
    BY <2>1, <2>2, StoreStays DEF LookupInv, lookup, vars, Reading, Idle, Scanning
  <2>4. Emitting'
    BY <2>1, <2>2, StoreStays DEF LookupInv, lookup, vars, Emitting
  <2>5. Walking'
    BY <2>1, <2>2 DEF LookupInv, lookup, vars, Walking
  <2>6. LookupsAgree'
    BY <2>1, StoreStays DEF LookupInv, lookup, LookupsAgree
  <2> QED
    BY <2>1, <2>3, <2>4, <2>5, <2>6, StoreStays DEF LookupInv
<1> QED
  BY <1>1, <1>2, <1>3, <1>4, <1>5 DEF LookupNext

LEMMA InitLookupInv == LookupInit => LookupInv
<1> SUFFICES ASSUME LookupInit PROVE LookupInv
  OBVIOUS
<1>1. Reading
  BY DEF LookupInit, Idle, Reading
<1> QED
  BY <1>1, InitStoreInv DEF LookupInit, Idle, LookupInv, Scanning, Emitting, Walking, LookupsAgree

(* A lookup that ends has handed over the edges of the clusters of its     *)
(* seeds, each of them once, by whichever way: for files of any age and    *)
(* size, any seeds, any order in which the walk visits the nodes, and an   *)
(* index that was built and kept up in any way (the merge gate of          *)
(* edge_lookup_equivalence_tests.rs).                                      *)
THEOREM LookupsAreEquivalent == LookupSpec => []LookupsAgree
<1>1. LookupInv /\ [LookupNext]_lookupVars => LookupInv'
  BY LookupStepKeeps
<1>2. LookupInv => LookupsAgree
  BY DEF LookupInv
<1> QED
  BY <1>1, <1>2, InitLookupInv, PTL DEF LookupSpec

(* Lookups change nothing: what holds of the store holds under them, too.  *)
THEOREM LookupsAreReadOnly == LookupSpec => Spec
<1>1. LookupInit => Init
  BY DEF LookupInit
<1>2. [LookupNext]_lookupVars => [Next]_vars
  BY DEF LookupNext, lookupVars, vars
<1> QED
  BY <1>1, <1>2, PTL DEF LookupSpec, Spec

===============================================================================
