------------------------------ MODULE EdgeLookup ------------------------------
(***************************************************************************)
(* The two ways in which Phase 3 finds the edges of the clusters that its  *)
(* seeds belong to (src/storage/mod.rs): repeated passes over the table    *)
(* until nothing new is reached, and a walk over the adjacency side-index. *)
(*                                                                         *)
(* One action reads one row or entry.  The process that looks up has the   *)
(* file open: nobody else writes to it meanwhile.  The order in which the  *)
(* walk takes nodes from its stack depends on a hash set and is left open. *)
(***************************************************************************)
EXTENDS MatchStore, Sequences, Functions

VARIABLES
  reader,   \* "off", "scanning", "emitting", "scanned"; "walking", "walked"
  seeds,    \* seed_doc_ids
  known,    \* known_docs or visited_nodes: the documents reached so far
  before,   \* the documents that were known when the pass began
  stack,    \* the nodes that are still to be visited
  unread,   \* what is left of this pass over the table, or of this node
  emitted   \* the edges handed to the visitor, in that order

lookup     == <<reader, seeds, known, before, stack, unread, emitted>>
lookupVars == <<table, adjacency, built, builder, left,
                reader, seeds, known, before, stack, unread, emitted>>

Ends(r) == {r.child, r.parent}
Edge(r) == [child |-> r.child, parent |-> r.parent, score |-> r.score]

Idle ==
  /\ reader = "off"
  /\ seeds = {} /\ known = {} /\ before = {} /\ stack = {} /\ unread = {}
  /\ emitted = <<>>

(* No seeds have no edges: either function returns at once.                *)
Begin(S, stage, finished) ==
  /\ reader = "off" /\ builder = "off"
  /\ reader' = IF S = {} THEN finished ELSE stage
  /\ seeds' = S /\ known' = S
  /\ UNCHANGED emitted

-------------------------------------------------------------------------------
(* visit_real_edges_connected_to                                           *)

StartScan(S) ==
  /\ Begin(S, "scanning", "scanned")
  /\ before' = S /\ unread' = RealRows(table)
  /\ UNCHANGED stack

NextRow(r) == r \in unread /\ \A s \in unread : ~KeyBefore(s, r)

(* A row that touches a known document adds both its ends.                 *)
ReadRow ==
  /\ reader = "scanning"
  /\ \E r \in unread :
       /\ NextRow(r)
       /\ unread' = unread \ {r}
       /\ known' = IF Ends(r) \cap known = {} THEN known ELSE known \cup Ends(r)
  /\ UNCHANGED <<reader, seeds, before, stack, emitted>>

(* Mutant: the size is noted before the loop, not before each pass.        *)
EndPassFromFirst ==
  /\ reader = "scanning" /\ unread = {}
  /\ reader' = IF known = before THEN "emitting" ELSE "scanning"
  /\ unread' = RealRows(table)
  /\ UNCHANGED <<seeds, known, before, stack, emitted>>

(* Another pass if this one has reached more; the code compares the sizes  *)
(* of sets of which one contains the other.                                *)
EndPass ==
  /\ reader = "scanning" /\ unread = {}
  /\ reader' = IF known = before THEN "emitting" ELSE "scanning"
  /\ before' = known
  /\ unread' = RealRows(table)
  /\ UNCHANGED <<seeds, known, stack, emitted>>

EmitRow ==
  /\ reader = "emitting"
  /\ \E r \in unread :
       /\ NextRow(r)
       /\ unread' = unread \ {r}
       /\ emitted' = IF Ends(r) \cap known = {} THEN emitted ELSE Append(emitted, Edge(r))
  /\ UNCHANGED <<reader, seeds, known, before, stack>>

EndScan ==
  /\ reader = "emitting" /\ unread = {}
  /\ reader' = "scanned"
  /\ UNCHANGED <<seeds, known, before, stack, unread, emitted>>

-------------------------------------------------------------------------------
(* visit_real_edges_connected_to_indexed                                   *)

StartWalk(S) ==
  /\ Begin(S, "walking", "walked")
  /\ stack' = S
  /\ UNCHANGED <<before, unread>>

PopNode ==
  /\ reader = "walking" /\ unread = {}
  /\ \E n \in stack :
       /\ stack' = stack \ {n}
       /\ unread' = {e \in adjacency : e.node = n}
  /\ UNCHANGED <<reader, seeds, known, before, emitted>>

NextEntry(e) ==
  \A f \in unread : \/ e.child < f.child
                    \/ e.child = f.child /\ e.parent <= f.parent

OtherEnd(e) == IF e.child = e.node THEN e.parent ELSE e.child

(* An edge has an entry at both ends and is emitted at the lower one.      *)
EmittedHere(e) == e.node <= e.child /\ e.node <= e.parent

(* A node that has not been visited is put on the stack.                   *)
ReadEntry ==
  /\ reader = "walking"
  /\ \E e \in unread :
       /\ NextEntry(e)
       /\ unread' = unread \ {e}
       /\ emitted' = IF EmittedHere(e) THEN Append(emitted, Edge(e)) ELSE emitted
       /\ known' = known \cup {OtherEnd(e)}
       /\ stack' = stack \cup ({OtherEnd(e)} \ known)
  /\ UNCHANGED <<reader, seeds, before>>

EndWalk ==
  /\ reader = "walking" /\ unread = {} /\ stack = {}
  /\ reader' = "walked"
  /\ UNCHANGED <<seeds, known, before, stack, unread, emitted>>

-------------------------------------------------------------------------------

(* --edge-lookup scan, or auto: the index is used once it is declared      *)
(* built.                                                                  *)
Visit(S) == \/ StartScan(S)
            \/ IF built THEN StartWalk(S) ELSE StartScan(S)

LookupStep == ReadRow \/ EndPass \/ EmitRow \/ EndScan \/ PopNode \/ ReadEntry \/ EndWalk

Return ==
  /\ reader \in {"scanned", "walked"}
  /\ reader' = "off"
  /\ seeds' = {} /\ known' = {} /\ before' = {} /\ stack' = {} /\ unread' = {}
  /\ emitted' = <<>>

LookupInit == Init /\ Idle

LookupNext ==
  \/ Next /\ reader = "off" /\ UNCHANGED lookup
  \/ (LookupStep \/ Return \/ \E S \in SUBSET Docs : Visit(S)) /\ UNCHANGED vars

LookupSpec == LookupInit /\ [][LookupNext]_lookupVars

(* A lookup does not wait for anything.                                    *)
FairLookupSpec == LookupSpec /\ WF_lookupVars(LookupStep /\ UNCHANGED vars)

-------------------------------------------------------------------------------
(* Properties.                                                             *)

(* What a cluster is, independently of both lookups.                       *)
Closed(S) == \A r \in RealRows(table) : Ends(r) \cap S # {} => Ends(r) \subseteq S

Reached(S) == {d \in Docs : \A C \in SUBSET Docs : S \subseteq C /\ Closed(C) => d \in C}

ClusterEdges(S) == {Edge(r) : r \in {s \in RealRows(table) : s.child \in Reached(S)}}

(* Files that have been written to by an early version and a later one.    *)
InBothFormats(x) == \E r, s \in table : r # s /\ SameEdge(r, x) /\ SameEdge(s, x)

(* Whichever lookup is used, Phase 3 sees each edge of the clusters of its *)
(* seeds, with its score in the table, exactly once, and no other edge     *)
(* (edge_lookup_equivalence_tests.rs: optimized_lookup = full_scan_lookup);*)
(* of an edge in both formats, a scan sees both rows and the walk one.     *)
LookupsAgree ==
  reader \in {"scanned", "walked"} =>
    /\ Range(emitted) \subseteq ClusterEdges(seeds)
    /\ \A e \in ClusterEdges(seeds) :
         \E x \in Range(emitted) :
           SameEdge(x, e) /\ (x = e \/ (reader = "walked" /\ InBothFormats(e)))
    /\ \A i, j \in DOMAIN emitted :
         SameEdge(emitted[i], emitted[j]) =>
           i = j \/ (reader = "scanned" /\ InBothFormats(emitted[i]))

(* No lookup goes round in circles.                                        *)
LookupEnds ==
  (reader \in {"scanning", "emitting", "walking"}) ~> (reader \in {"scanned", "walked"})
===============================================================================
