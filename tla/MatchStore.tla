------------------------------ MODULE MatchStore ------------------------------
(***************************************************************************)
(* The file matches.redb (src/storage/mod.rs): the raw duplicate edges,    *)
(* the adjacency side-index over them, and the resumable backfill that     *)
(* makes the index usable for a file older than it.                        *)
(*                                                                         *)
(* A row is keyed by its child and parent, or, in the oldest files, by its *)
(* child alone (legacy).  One action is one redb transaction.  redb's file *)
(* lock keeps writers out while --build-adjacency has the file open.       *)
(* A score stands for jaccard_similarity; the size columns travel with it. *)
(***************************************************************************)
EXTENDS Naturals, FiniteSets

CONSTANTS
  Docs,        \* UUIDs
  OldRows,     \* rows written before there was an adjacency table
  NewRows,     \* rows that insert_batch may be given
  BatchLimit,  \* bound: rows per insert_batch
  FlushEvery   \* rows per transaction of the backfill

Rows == [legacy : BOOLEAN, child : Docs, parent : Docs, score : Nat]

SameEdge(r, s) == r.child = s.child /\ r.parent = s.parent
SameKey(r, s)  == /\ r.legacy = s.legacy /\ r.child = s.child
                  /\ r.legacy \/ r.parent = s.parent

ASSUME RowsAssumption ==
  /\ Docs \subseteq Nat
  /\ OldRows \subseteq Rows
  /\ \A r, s \in OldRows : SameKey(r, s) => r = s
  /\ NewRows \subseteq {r \in Rows : ~r.legacy /\ r.child # r.parent}
ASSUME LimitsAssumption == BatchLimit \in Nat /\ FlushEvery \in Nat \ {0}

VARIABLES
  table,      \* MATCHES_TABLE
  adjacency,  \* ADJACENCY_TABLE: a node, the edge it lies on, its score
  built,      \* the adjacency_built flag
  builder,    \* is --build-adjacency running?
  left        \* the real rows it has yet to index

vars == <<table, adjacency, built, builder, left>>

Entries == [node : Docs, child : Docs, parent : Docs, score : Nat]

SameSlot(e, f) == e.node = f.node /\ SameEdge(e, f)

RealRows(R) == {r \in R : r.child # r.parent}

(* Two entries for each real edge, one per endpoint; none for a self-edge. *)
AdjacencyEntries(R) ==
  UNION {{[node |-> n, child |-> r.child, parent |-> r.parent, score |-> r.score] :
            n \in {r.child, r.parent}} : r \in RealRows(R)}

(* The order of the keys: a child's legacy row comes first.                *)
KeyBefore(r, s) ==
  \/ r.child < s.child
  \/ r.child = s.child /\ r.legacy /\ ~s.legacy
  \/ r.child = s.child /\ r.legacy = s.legacy /\ r.parent < s.parent

-------------------------------------------------------------------------------

Init ==
  /\ table = OldRows
  /\ adjacency = {} /\ built = FALSE
  /\ builder = "off" /\ left = {}

(* Mutant: every row of the batch that is not there already is written.    *)
ImprovingAlways(batch) == batch \ table

(* Of the rows of a batch, those that stay: a row replaces one of the same *)
(* key only if its score is higher.                                        *)
Improving(batch) ==
  {r \in batch : \A s \in table \cup batch :
     SameKey(r, s) /\ s # r => s.score < r.score}
    \ table

(* Mutant: the index is written only for rows that are new.                *)
InsertBatchOnce(batch) ==
  LET fresh == Improving(batch)
  IN  /\ builder = "off"
      /\ table' = {s \in table : \A r \in fresh : ~SameKey(r, s)} \cup fresh
      /\ adjacency' = adjacency \cup
           {e \in AdjacencyEntries(fresh) : \A f \in adjacency : ~SameSlot(e, f)}
      /\ UNCHANGED <<built, builder, left>>

(* Rows and entries change in one transaction.                             *)
InsertBatch(batch) ==
  LET fresh   == Improving(batch)
      entries == AdjacencyEntries(fresh)
  IN  /\ builder = "off"
      /\ table' = {s \in table : \A r \in fresh : ~SameKey(r, s)} \cup fresh
      /\ adjacency' = {f \in adjacency : \A e \in entries : ~SameSlot(e, f)} \cup entries
      /\ UNCHANGED <<built, builder, left>>

StartBuild ==
  /\ builder = "off"
  /\ builder' = "on"
  /\ left' = RealRows(table)
  /\ UNCHANGED <<table, adjacency, built>>

(* The next rows in key order.  An entry that is there already stays; of   *)
(* two rows for the same edge, the one read first counts.                  *)
FlushAdjacency ==
  LET chunk == {r \in left : Cardinality({s \in left : KeyBefore(s, r)}) < FlushEvery}
      first == {r \in chunk : \A s \in chunk : SameEdge(r, s) => ~KeyBefore(s, r)}
  IN  /\ builder = "on"
      /\ left # {}
      /\ adjacency' = adjacency \cup
           {e \in AdjacencyEntries(first) : \A f \in adjacency : ~SameSlot(e, f)}
      /\ left' = left \ chunk
      /\ UNCHANGED <<table, built, builder>>

(* Mutant: the flag is set although rows are left.                         *)
SetBuiltEarly ==
  /\ builder = "on"
  /\ built' = TRUE /\ builder' = "off" /\ left' = {}
  /\ UNCHANGED <<table, adjacency>>

SetAdjacencyBuilt ==
  /\ builder = "on"
  /\ left = {}
  /\ built' = TRUE /\ builder' = "off"
  /\ UNCHANGED <<table, adjacency, left>>

(* The backfill dies; it starts over when it is run again.                 *)
CrashBuild ==
  /\ builder = "on"
  /\ builder' = "off" /\ left' = {}
  /\ UNCHANGED <<table, adjacency, built>>

Batches == {B \in SUBSET NewRows : B # {} /\ Cardinality(B) <= BatchLimit}

Next ==
  \/ \E batch \in Batches : InsertBatch(batch)
  \/ StartBuild
  \/ FlushAdjacency
  \/ SetAdjacencyBuilt
  \/ CrashBuild

Spec == Init /\ [][Next]_vars

-------------------------------------------------------------------------------
(* Properties.                                                             *)

(* Every variable has its type, and each key occurs once.                  *)
TypeOK ==
  /\ table \subseteq Rows
  /\ \A r, s \in table : SameKey(r, s) => r = s
  /\ adjacency \subseteq Entries
  /\ \A e, f \in adjacency : SameSlot(e, f) => e = f
  /\ built \in BOOLEAN
  /\ builder \in {"off", "on"}
  /\ left \subseteq table

(* There is an entry for each of the rows, at both of its ends.            *)
Indexes(R) == \A f \in AdjacencyEntries(R) : \E e \in adjacency : SameSlot(e, f)

(* The index never leads Phase 3 to an edge or a score that is not in the  *)
(* table, and once it is declared built it leads to all edges from both    *)
(* sides, for good: whatever was inserted before, between or after the     *)
(* attempts to build it (comment at ADJACENCY_TABLE).                      *)
IndexTracksTable ==
  /\ adjacency \subseteq AdjacencyEntries(table)
  /\ built => Indexes(table)
===============================================================================
