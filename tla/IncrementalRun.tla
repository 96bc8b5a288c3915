---------------------------- MODULE IncrementalRun ----------------------------
(***************************************************************************)
(* One incremental run after another over a database that keeps growing    *)
(* (run_dedupe and run_dedupe_with_source of src/dedupe/mod.rs): Phase 1   *)
(* indexes the unprocessed documents, Phase 1.5 sets pathological clusters *)
(* apart, Phase 2 records duplicate pairs and Phase 3 resolves the touched *)
(* clusters and writes the result, in chunks, to the source database.      *)
(*                                                                         *)
(* `isParent' and `dupes' are the database; `index' and `matches' are the  *)
(* sidecar files; the rest is memory.  A run may die or fail between any   *)
(* two of its transactions, MaxFaults times.  What Phase 2 does inside is  *)
(* module Phase2; here it records every duplicate pair of the documents it *)
(* is given, or, if it is interrupted, some of them.                       *)
(*                                                                         *)
(* A run takes the unprocessed documents and writes its result to the      *)
(* database.  Started by hand, it may be full (--all, --fresh): it deletes *)
(* the sidecar files one by one and takes all documents; and it may leave  *)
(* the database alone (--skip-db-write).  A user may put documents back    *)
(* into the queue at any time, and --cleanup may mark or delete the        *)
(* documents of a pathological cluster.  Left out: a --cleanup that        *)
(* overlaps Phase 3, when no run holds lsh.redb any more and nothing keeps *)
(* it out; --max-matches-per-doc, which is off unless it is asked for (it  *)
(* is in Phase2); and runs with different thresholds (they are in          *)
(* FromIndex).                                                             *)
(*                                                                         *)
(* The direction and similarity of an edge play no part in who becomes the *)
(* canonical parent, so an edge is a set of two documents.                 *)
(***************************************************************************)
EXTENDS Naturals, FiniteSets, Resolution

CONSTANTS
  Docs,        \* UUIDs of all documents that may ever arrive
  Pairs,       \* the pairs that Phase 2 finds to be duplicates
  Filtered,    \* the short and boilerplate documents
  Cluster,     \* documents that agree in at least min_bands bands
  ClusterMin,  \* min_bucket_size: from how many they are pathological
  IndexBatch,  \* index_batch_size, documents per index transaction
  BatchSize,   \* --batch-size, rows or marks per database transaction
  MaxFaults,   \* bound: how many runs may die or fail
  MaxManual,   \* bound: how many runs are full or leave the database alone
  MaxResets,   \* bound: how often a user puts documents back in the queue
  MaxCleanups  \* bound: how often documents are marked or deleted by --cleanup

ASSUME DocumentsAssumption ==
  /\ Docs \subseteq Nat
  /\ Pairs \subseteq {p \in SUBSET (Docs \ Filtered) : \E a, b \in p : a # b /\ p = {a, b}}
  /\ Cluster \subseteq Docs \ Filtered
ASSUME SizesAssumption == /\ ClusterMin \in Nat \ {0}
                          /\ IndexBatch \in Nat \ {0}
                          /\ BatchSize \in Nat \ {0}
                          /\ MaxFaults \in Nat
                          /\ MaxManual \in Nat /\ MaxResets \in Nat
                          /\ MaxCleanups \in Nat

VARIABLES
  isParent,  \* the is_parent column; "absent" for a document yet to arrive,
             \* "deleted" for one that is gone
  dupes,     \* the dupes table, rows <<child, parent>>
  index,     \* lsh.redb: the indexed documents
  matches,   \* matches.redb: the recorded pairs
  filteredParents,  \* filtered_parents.redb: filtered documents left unmarked
  run,       \* what the run was started as
  step,      \* where it is
  scan,      \* Phase 1: how far the source is read, whether that is all of
             \* it, and the documents still to index and parents still to mark
  newDocs,   \* new_doc_ids
  seeds,     \* phase3_seed_doc_ids
  plan,      \* Phase 3: rows, child marks and parent marks still to write
  outcome,   \* how the last run ended
  faults,    \* how many runs have died or failed
  manual,    \* how many runs were started by hand
  resets,    \* how often documents were put back in the queue
  cleanups,  \* how often documents were marked or deleted by --cleanup
  whole      \* has no full run begun to delete sidecars without getting
             \* through Phase 2, or has a later one? (for the properties)

database == <<isParent, dupes>>
sidecars == <<index, matches, filteredParents>>
memory   == <<run, step, scan, newDocs, seeds, plan>>
history  == <<faults, manual, resets, cleanups, whole>>
vars     == <<database, sidecars, memory, outcome, history>>

Runs == [full : BOOLEAN, writes : BOOLEAN]
Daily == [full |-> FALSE, writes |-> TRUE]

NoScan == [past |-> {}, done |-> FALSE, toIndex |-> {}, toMark |-> {}]
NoPlan == [rows |-> {}, children |-> {}, parents |-> {}]

Marked(m) == {d \in Docs : isParent[d] = m}
Present   == {d \in Docs : isParent[d] \notin {"absent", "deleted"}}
Settled   == Marked("true") \cup Marked("false")

(* An update touches the documents that are in the table.                  *)
Mark(D, m) ==
  isParent' = [d \in Docs |-> IF d \in D \cap Present THEN m ELSE isParent[d]]

(* The n lowest UUIDs of D: one chunk of a sorted list.                    *)
Lowest(D, n) == {d \in D : Cardinality({e \in D : e < d}) < n}

-------------------------------------------------------------------------------
(* Resolution of the recorded pairs into clusters.                         *)

Component(d) == ClusterOf(d, Docs, matches)

(* The documents on the edges that Phase 3 streams for its seeds.          *)
Touched == (UNION matches) \cap UNION {Component(d) : d \in seeds}

ExistingParents == Touched \cap Marked("true")
ExistingRows    == {r \in dupes : r[1] \in Touched}

(* Mutant: the smallest UUID wins, as in a resolution from scratch.        *)
PriorityByUuidOnly(d) == 0

(* Who wins the union of two sets: an existing canonical parent, then a    *)
(* document of an earlier batch, then one of this batch; then the UUID.    *)
Priority(d) == IF isParent[d] = "true" THEN 0
               ELSE IF d \in newDocs THEN 2 ELSE 1

Precedes(d, e) == \/ Priority(d) < Priority(e)
                  \/ Priority(d) = Priority(e) /\ d <= e

Root(d) == RootOf(Component(d), Precedes)

Children    == {d \in Touched : Root(d) # d}
Roots       == {Root(d) : d \in Touched}
Assignments == {<<d, Root(d)>> : d \in Children}

AssignmentsRequiringWrite ==
  {a \in Assignments : a[1] \in newDocs \/ a \notin ExistingRows}

(* Mutant: only documents of the batch are marked.                         *)
ChildMarksOfBatch == Children \cap newDocs

ChildMarks == {d \in Children : d \in newDocs \cup ExistingParents}

(* Mutant: historical children that became roots keep their mark.          *)
ParentMarksOfBatch == newDocs \ Children

ParentMarks ==
  (newDocs \ Children) \cup {d \in Roots : \E r \in ExistingRows : r[1] = d}

-------------------------------------------------------------------------------

Init ==
  /\ isParent = [d \in Docs |-> "absent"] /\ dupes = {}
  /\ index = {} /\ matches = {} /\ filteredParents = {}
  /\ run = Daily /\ step = "idle" /\ scan = NoScan /\ newDocs = {} /\ seeds = {}
  /\ plan = NoPlan /\ outcome = "none"
  /\ faults = 0 /\ manual = 0 /\ resets = 0 /\ cleanups = 0 /\ whole = TRUE

(* Somebody inserts a document into the source table, at any time.         *)
Arrive(d) ==
  /\ isParent[d] = "absent"
  /\ isParent' = [isParent EXCEPT ![d] = "null"]
  /\ UNCHANGED <<dupes, sidecars, memory, outcome, history>>

(* A user has documents processed again; their rows in dupes stay.         *)
Reset(D) ==
  /\ resets < MaxResets
  /\ D # {} /\ D \subseteq Settled
  /\ Mark(D, "null")
  /\ resets' = resets + 1
  /\ UNCHANGED <<dupes, sidecars, memory, outcome, faults, manual, cleanups, whole>>

(* A run begins with a count and ends there if it finds nothing to do.     *)
StartRun(writes) ==
  /\ step = "idle"
  /\ Marked("null") # {}
  /\ writes \/ manual < MaxManual
  /\ manual' = IF writes THEN manual ELSE manual + 1
  /\ run' = [full |-> FALSE, writes |-> writes]
  /\ step' = "indexing"
  /\ outcome' = "none"
  /\ UNCHANGED <<database, sidecars, scan, newDocs, seeds, plan, faults, resets,
                 cleanups, whole>>

(* A full run begins by deleting the sidecar files.  That of state.redb,   *)
(* between the last two, is left out: in Phase 2 the batch overrules it.   *)
StartFullRun(writes) ==
  /\ step = "idle"
  /\ Present # {}
  /\ manual < MaxManual
  /\ manual' = manual + 1
  /\ run' = [full |-> TRUE, writes |-> writes]
  /\ step' = "clearing"
  /\ outcome' = "none"
  /\ UNCHANGED <<database, sidecars, scan, newDocs, seeds, plan, faults, resets,
                 cleanups, whole>>

ClearIndex ==
  /\ step = "clearing"
  /\ index' = {} /\ whole' = FALSE
  /\ step' = "clearing matches"
  /\ UNCHANGED <<database, matches, filteredParents, run, scan, newDocs, seeds, plan,
                 outcome, faults, manual, resets, cleanups>>

ClearMatches ==
  /\ step = "clearing matches"
  /\ matches' = {}
  /\ step' = "clearing filtered"
  /\ UNCHANGED <<database, index, filteredParents, run, scan, newDocs, seeds, plan,
                 outcome, history>>

ClearFiltered ==
  /\ step = "clearing filtered"
  /\ filteredParents' = {}
  /\ step' = "indexing"
  /\ UNCHANGED <<database, index, matches, run, scan, newDocs, seeds, plan,
                 outcome, history>>

(* Mutant: a full run, too, takes the unprocessed documents only.          *)
UnprocessedOnly == Marked("null")

Source == IF run.full THEN Present ELSE Marked("null")

(* Mutant: what is in the index already is taken to be finished.           *)
BatchOfUnindexed(page) == (page \ Filtered) \ index

(* A document that an interrupted run has left in the index is not indexed *)
(* again but stays in the batch.                                           *)
BatchOf(page) == page \ Filtered

(* Phase 1 walks over the source in the order of the UUIDs, a page at a    *)
(* time, while documents come, go and are marked.                          *)
FetchPage ==
  LET page == Lowest(Source \ scan.past, BatchSize)
  IN  /\ step = "indexing" /\ ~scan.done
      /\ Cardinality(scan.toIndex) < IndexBatch
      /\ Cardinality(scan.toMark) < BatchSize
      /\ newDocs' = newDocs \cup BatchOf(page)
      /\ scan' = [past    |-> {d \in Docs : \E e \in scan.past \cup page : d <= e},
                  done    |-> page = {},
                  toIndex |-> scan.toIndex \cup ((page \ Filtered) \ index),
                  toMark  |-> scan.toMark \cup (page \cap Filtered)]
      /\ UNCHANGED <<database, sidecars, run, step, seeds, plan, outcome, history>>

(* What has been collected is flushed when there is enough of it, and at   *)
(* the end.                                                                *)
InsertBatch ==
  LET chunk == Lowest(scan.toIndex, IndexBatch)
  IN  /\ chunk # {}
      /\ Cardinality(chunk) = IndexBatch \/ scan.done
      /\ index' = index \cup chunk
      /\ scan' = [scan EXCEPT !.toIndex = @ \ chunk]
      /\ UNCHANGED <<database, matches, filteredParents, run, step, newDocs, seeds,
                     plan, outcome, history>>

(* Filtered documents are parents; without database writes they are noted  *)
(* in a sidecar file.                                                      *)
FlushFilteredParents ==
  LET chunk == Lowest(scan.toMark, BatchSize)
  IN  /\ chunk # {}
      /\ Cardinality(chunk) = BatchSize \/ scan.done
      /\ IF run.writes
         THEN Mark(chunk, "true") /\ UNCHANGED filteredParents
         ELSE filteredParents' = filteredParents \cup chunk /\ UNCHANGED isParent
      /\ scan' = [scan EXCEPT !.toMark = @ \ chunk]
      /\ UNCHANGED <<dupes, index, matches, run, step, newDocs, seeds, plan, outcome,
                     history>>

Forget ==
  /\ run' = Daily /\ step' = "idle" /\ scan' = NoScan
  /\ newDocs' = {} /\ seeds' = {} /\ plan' = NoPlan

PathologicalBatch(P) == newDocs \cap P

(* Mutant: Phase 3 is seeded with the regular documents in any case.       *)
SeedsWithoutPathological(P) == newDocs \ P

(* A batch of pathological documents only skips Phase 2 and seeds Phase 3  *)
(* itself.                                                                 *)
Phase3Seeds(P) == IF PathologicalBatch(P) = newDocs THEN newDocs ELSE newDocs \ P

(* Phase 1.5 links the pathological documents to the lowest one, over the  *)
(* whole index, and keeps those of the batch from Phase 2.  A detection    *)
(* that fails is logged and otherwise ignored.                             *)
Pathological ==
  IF Cardinality(index \cap Cluster) >= ClusterMin THEN index \cap Cluster ELSE {}

ClusterEdges(P) == {{a, b} : a \in Lowest(P, 1), b \in P \ Lowest(P, 1)}

DetectPathological(P) ==
  /\ step = "indexing"
  /\ scan.done /\ scan.toIndex = {} /\ scan.toMark = {}
  /\ matches' = matches \cup ClusterEdges(P)
  /\ IF newDocs = {}
     THEN Forget /\ outcome' = "ok"
     ELSE /\ step' = IF newDocs \subseteq P THEN "resolving" ELSE "comparing"
          /\ seeds' = Phase3Seeds(P)
          /\ scan' = NoScan
          /\ UNCHANGED <<run, newDocs, plan, outcome>>
  /\ whole' = (whole \/ (run.full /\ newDocs \subseteq P))
  /\ UNCHANGED <<database, index, filteredParents, faults, manual, resets, cleanups>>

(* Mutant: documents are compared with those of their own batch only.      *)
FoundPairsInBatch == {p \in Pairs : p \subseteq seeds}

(* Phase 2: each document it is given is compared with the whole index.    *)
FoundPairs == {p \in Pairs : p \subseteq index /\ p \cap seeds # {}}

FindDuplicates ==
  /\ step = "comparing"
  /\ matches' = matches \cup FoundPairs
  /\ step' = "resolving"
  /\ whole' = (whole \/ run.full)
  /\ UNCHANGED <<database, index, filteredParents, run, scan, newDocs, seeds, plan,
                 outcome, faults, manual, resets, cleanups>>

(* Phase 3 reads what the database says of the touched clusters and        *)
(* decides what to write.                                                  *)
Resolve ==
  /\ step = "resolving"
  /\ run.writes
  /\ plan' = [rows     |-> AssignmentsRequiringWrite,
              children |-> ChildMarks,
              parents  |-> ParentMarks]
  /\ step' = "syncing"
  /\ UNCHANGED <<database, sidecars, run, scan, newDocs, seeds, outcome, history>>

(* Mutant: the old row of a child stays, as the composite key allows.      *)
WriteDupesKeepingOldRows ==
  LET chunk == Lowest({r[1] : r \in plan.rows}, BatchSize)
      rows  == {r \in plan.rows : r[1] \in chunk}
  IN  /\ rows # {}
      /\ dupes' = dupes \cup rows
      /\ plan' = [plan EXCEPT !.rows = @ \ rows]
      /\ UNCHANGED <<isParent, sidecars, run, step, scan, newDocs, seeds, outcome, history>>

(* First the rows, sorted by child; a child's old row goes in the same     *)
(* transaction.                                                            *)
WriteDupes ==
  LET chunk == Lowest({r[1] : r \in plan.rows}, BatchSize)
      rows  == {r \in plan.rows : r[1] \in chunk}
  IN  /\ rows # {}
      /\ dupes' = {r \in dupes : r[1] \notin chunk} \cup rows
      /\ plan' = [plan EXCEPT !.rows = @ \ rows]
      /\ UNCHANGED <<isParent, sidecars, run, step, scan, newDocs, seeds, outcome, history>>

(* Mutant: the marks do not wait for the rows.                             *)
MarkAsChildrenEarly(chunk) ==
  /\ chunk # {}
  /\ Mark(chunk, "false")
  /\ plan' = [plan EXCEPT !.children = @ \ chunk]
  /\ UNCHANGED <<dupes, sidecars, run, step, scan, newDocs, seeds, outcome, history>>

(* Then the child marks, in the order of a hash set.                       *)
MarkAsChildren(chunk) ==
  /\ plan.rows = {}
  /\ chunk # {}
  /\ \/ Cardinality(chunk) = BatchSize
     \/ chunk = plan.children /\ Cardinality(chunk) < BatchSize
  /\ Mark(chunk, "false")
  /\ plan' = [plan EXCEPT !.children = @ \ chunk]
  /\ UNCHANGED <<dupes, sidecars, run, step, scan, newDocs, seeds, outcome, history>>

(* Then the parent marks, sorted.                                          *)
MarkAsParents ==
  LET chunk == Lowest(plan.parents, BatchSize)
  IN  /\ plan.rows = {} /\ plan.children = {}
      /\ chunk # {}
      /\ Mark(chunk, "true")
      /\ plan' = [plan EXCEPT !.parents = @ \ chunk]
      /\ UNCHANGED <<dupes, sidecars, run, step, scan, newDocs, seeds, outcome, history>>

(* A run that leaves the database alone ends without Phase 3.              *)
EndRun ==
  /\ \/ step = "syncing" /\ plan = NoPlan
     \/ step = "resolving" /\ ~run.writes
  /\ Forget
  /\ outcome' = "ok"
  /\ UNCHANGED <<database, sidecars, history>>

(* The process dies, or an operation fails and the run returns its error.  *)
(* Phase 2 may have recorded some of its pairs by then.                    *)
Interrupt(recorded) ==
  /\ step # "idle"
  /\ faults < MaxFaults
  /\ matches' = matches \cup recorded
  /\ Forget
  /\ outcome' = "failed"
  /\ faults' = faults + 1
  /\ UNCHANGED <<database, index, filteredParents, manual, resets, cleanups, whole>>

(* A document that cannot be deleted is skipped.                           *)
DeleteDocuments(D) == Mark(D, "deleted")

(* --cleanup mark-parent, between runs: in chunks, of which one may fail.  *)
CleanupMarkParents(D) ==
  /\ step = "idle"
  /\ cleanups < MaxCleanups
  /\ D # {}
  /\ Mark(D, "true")
  /\ cleanups' = cleanups + 1
  /\ UNCHANGED <<dupes, sidecars, memory, outcome, faults, manual, resets, whole>>

(* --cleanup delete leaves the lowest UUID of the cluster.  The sidecars   *)
(* keep them all.                                                          *)
CleanupDelete(D) ==
  /\ step = "idle"
  /\ cleanups < MaxCleanups
  /\ D # {} /\ D \cap Lowest(Pathological, 1) = {}
  /\ DeleteDocuments(D)
  /\ cleanups' = cleanups + 1
  /\ UNCHANGED <<dupes, sidecars, memory, outcome, faults, manual, resets, whole>>

-------------------------------------------------------------------------------

Phase1 ==
  \/ ClearIndex \/ ClearMatches \/ ClearFiltered
  \/ FetchPage
  \/ InsertBatch
  \/ FlushFilteredParents

Phase3 ==
  \/ Resolve
  \/ WriteDupes
  \/ \E chunk \in SUBSET plan.children : MarkAsChildren(chunk)
  \/ MarkAsParents
  \/ EndRun

Work ==
  \/ Phase1
  \/ \E P \in {Pathological, {}} : DetectPathological(P)
  \/ FindDuplicates
  \/ Phase3

Run == StartRun(TRUE) \/ Work

ByHand == StartRun(FALSE) \/ StartFullRun(TRUE) \/ StartFullRun(FALSE)

Cleanup == \E D \in SUBSET Pathological : CleanupMarkParents(D) \/ CleanupDelete(D)

Next ==
  \/ \E d \in Docs : Arrive(d)
  \/ \E D \in SUBSET Docs : Reset(D)
  \/ Cleanup
  \/ Run
  \/ ByHand
  \/ \E recorded \in SUBSET (IF step = "comparing" THEN FoundPairs ELSE {}) :
       Interrupt(recorded)

Spec == Init /\ [][Next]_vars

(* The daemon polls for unprocessed documents for ever and starts a run    *)
(* when it finds some; a run is a sequential program.                      *)
FairSpec == Spec /\ WF_vars(Run)

-------------------------------------------------------------------------------
(* Properties.                                                             *)

(* Every variable has its type, and a child never has two rows, also under *)
(* a schema that would allow it (write_dupes).                             *)
TypeOK ==
  /\ isParent \in [Docs -> {"absent", "null", "true", "false", "deleted"}]
  /\ dupes \subseteq Docs \X Docs
  /\ \A r, s \in dupes : r[1] = s[1] => r = s
  /\ index \subseteq Docs \ Filtered /\ matches \subseteq SUBSET Docs
  /\ filteredParents \subseteq Filtered
  /\ run \in Runs
  /\ step \in {"idle", "clearing", "clearing matches", "clearing filtered",
              "indexing", "comparing", "resolving", "syncing"}
  /\ scan \in [past : SUBSET Docs, done : BOOLEAN,
              toIndex : SUBSET (Docs \ Filtered), toMark : SUBSET Filtered]
  /\ newDocs \subseteq Docs \ Filtered /\ seeds \subseteq newDocs
  /\ plan \in [rows : SUBSET (Docs \X Docs), children : SUBSET Docs,
               parents : SUBSET Docs]
  /\ outcome \in {"none", "ok", "failed"}
  /\ faults \in 0..MaxFaults /\ manual \in 0..MaxManual /\ resets \in 0..MaxResets
  /\ cleanups \in 0..MaxCleanups /\ whole \in BOOLEAN

(* No duplicate pair is lost: once two documents are out of the queue,     *)
(* their edge is in matches.redb, or, in a pathological cluster, an edge   *)
(* from each to the same document.  This holds whichever run settled which *)
(* of the two, wherever runs were interrupted, and after any reset (the    *)
(* batch of Phase 1 keeps documents that are indexed already, and marks    *)
(* come after Phase 2).  Sidecars that a full run has deleted are no       *)
(* history to compare with until a full run gets through Phase 2: then the *)
(* property holds again for all documents, whatever happened in between.   *)
(* The parents that --cleanup marks leave the queue without an edge.       *)
Linked(p) ==
  \/ p \in matches
  \/ p \subseteq Cluster /\ \E c \in Cluster : \A d \in p : d = c \/ {c, d} \in matches

SettledPairsRecorded ==
  whole =>
    \A p \in Pairs :
      p \subseteq Settled =>
        \/ Linked(p)
        \/ ~ p \subseteq Cluster /\ p \cap Cluster # {}
        \/ p \subseteq Cluster /\ cleanups > 0

(* A document is marked as a duplicate only if the database says of what:  *)
(* the row is committed before the mark (perform_incremental_sync).        *)
ChildHasRow == \A d \in Marked("false") : \E r \in dupes : r[1] = d

(* The documents are all regular, or all pathological and duplicates of    *)
(* each other.  A batch that mixes the two kinds leaves clusters           *)
(* unresolved, as EdgesResolved shows.                                     *)
OneKind == \/ Cluster = {}
           \/ /\ Cluster = Docs \ Filtered
              /\ \A a, b \in Cluster : a # b => {a, b} \in Pairs

Canonical(root, K) ==
  /\ isParent[root] = "true"
  /\ \A x \in K \ {root} : isParent[x] = "false" /\ <<x, root>> \in dupes
  /\ resets = 0 => \A r \in dupes : r[1] # root

(* As long as no run is interrupted, a run leaves exactly one canonical    *)
(* parent in a cluster, as soon as all its documents are settled; all      *)
(* others are its children, by mark and by row: also if the batch joined   *)
(* clusters that had a canonical parent each (sync_tests.rs, COMPLETENESS  *)
(* and CORRECTNESS), after full runs, and after runs without database      *)
(* writes or resets that split a cluster between batches.  Unless somebody *)
(* has reset documents, the parent has no row of its own.                  *)
OneCanonicalParent ==
  step = "idle" /\ faults = 0 /\ cleanups = 0 /\ OneKind =>
    \A d \in Settled : Component(d) \subseteq Settled =>
      \E root \in Component(d) : Canonical(root, Component(d))

(* No step of the program, in an interrupted run or not, demotes a         *)
(* canonical parent unless another one of its cluster stays in place, or   *)
(* waits in the queue where a user has put it back meanwhile: applications *)
(* that follow is_parent keep one document of each cluster (union_by_key   *)
(* prefers existing parents, in full runs too).                            *)
NoClusterDemoted ==
  [][\A d \in Docs : isParent[d] = "true" /\ isParent'[d] = "false" =>
       \E e \in Component(d) :
         \/ isParent[e] = "true" /\ isParent'[e] = "true"
         \/ resets > 0 /\ isParent'[e] = "null"]_vars

(* Every document that arrives is settled in the end, also if runs die     *)
(* while it is in the batch: the queue is the is_parent column itself.     *)
EveryDocumentSettled ==
  \A d \in Docs : isParent[d] = "null" ~> d \in Settled \cup Marked("deleted")

(* A cluster whose documents are all settled has a canonical parent, since *)
(* nothing will touch it again before another duplicate arrives.           *)
ClusterKeepsParent ==
  step = "idle" =>
    \A d \in Settled : Component(d) \subseteq Settled =>
      \E e \in Component(d) : isParent[e] = "true"

(* One interrupted run is always repaired by the next one that settles the *)
(* rest of its cluster (parent_marks_to_apply promotes a root that has a   *)
(* row), and so is one reset; and a full run that is interrupted is        *)
(* repaired by one that is not.                                            *)
RetryRestoresParent ==
  whole /\ cleanups = 0 /\ faults + resets <= 1 /\ OneKind => ClusterKeepsParent

(* Of a cluster that --cleanup has thinned out, what is left still has a   *)
(* canonical parent (run_cleanup keeps one document "as canonical").       *)
ThinnedClusterKeepsParent ==
  step = "idle" =>
    \A d \in Settled : Component(d) \subseteq Settled \cup Marked("deleted") =>
      \E e \in Component(d) : isParent[e] = "true"

(* Two documents that an edge declares duplicates are not both canonical.  *)
EdgesResolved ==
  step = "idle" =>
    \A p \in matches : ~ p \subseteq Marked("true")

===============================================================================
