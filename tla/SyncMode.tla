------------------------------- MODULE SyncMode -------------------------------
(***************************************************************************)
(* Standalone synchronisation (run_sync_mode of src/main.rs): it resolves  *)
(* all edges of matches.redb from scratch and pushes rows, parent marks    *)
(* and child marks to PostgreSQL, in this order.  How far it came is kept  *)
(* in state.redb, so that a sync that died can be taken up again, possibly *)
(* after the sidecar files, or the database, have changed.                 *)
(*                                                                         *)
(* The rows are written one transaction after the other, the marks by      *)
(* several tasks at once.  The branch that takes up marking at an offset   *)
(* is left out: the progress of marking is only ever saved together with   *)
(* the next step, so that it finds no offset to start from.                *)
(***************************************************************************)
EXTENDS Naturals, FiniteSets, SequencesExt, Resolution

CONSTANTS
  Docs,            \* UUIDs
  Pairs,           \* the duplicate pairs that Phase 2 may record
  SelfRows,        \* documents with a self-edge in an old matches.redb
  Filtered,        \* documents that filtered_parents.redb lists once indexed
  Databases,       \* what other runs may leave in the two database columns
  WorkerCount,     \* SYNC_WORKERS, the number of marking tasks
  BatchSize,       \* --batch-size, rows or marks until they are counted
  ChunkSize,       \* DUPE_WRITE_CHUNK_SIZE, rows per transaction
  ReportInterval,  \* rows from one checkpoint to the next
  MaxFaults        \* bound: how many times something may fail or die

ASSUME EdgesAssumption ==
  /\ Docs \subseteq Nat /\ IsFiniteSet(Docs)
  /\ Pairs \subseteq {p \in SUBSET Docs : \E a, b \in p : a # b /\ p = {a, b}}
  /\ SelfRows \subseteq Docs /\ Filtered \subseteq Docs
ASSUME DatabasesAssumption ==
  \A db \in Databases :
    /\ db.isParent \in [Docs -> {"null", "true", "false"}]
    /\ db.dupes \subseteq Docs \X Docs
    /\ \A r, s \in db.dupes : r[1] = s[1] => r = s
ASSUME SizesAssumption == /\ WorkerCount \in Nat \ {0}
                          /\ BatchSize \in Nat \ {0}
                          /\ ChunkSize \in Nat \ {0}
                          /\ ReportInterval \in Nat \ {0}
                          /\ MaxFaults \in Nat

VARIABLES
  isParent,   \* the is_parent column
  dupes,      \* the dupes table, rows <<child, parent>>
  indexed,    \* documents in lsh.redb or filtered_parents.redb
  matches,    \* matches.redb: edges and, as singletons, self-edges
  progress,   \* SyncProgress in state.redb
  mine,       \* SyncProgress in memory; its step is "Off" if no sync runs
  written,    \* rows committed so far, counted or not
  due,        \* is a checkpoint due?
  slices,     \* what each marking task has still to mark
  broken,     \* has a marking task failed?
  startedOn,  \* the sidecars on which the sync in state.redb started
  disturbed,  \* has another run written to the database since?
  faults

database == <<isParent, dupes>>
sidecars == <<indexed, matches>>
tasks    == <<slices, broken>>
vars     == <<database, sidecars, progress, mine, written, due, tasks, startedOn,
              disturbed, faults>>

Workers == 1..WorkerCount

NotStarted == [step |-> "NotStarted", dupes_written |-> 0]
Off        == [step |-> "Off", dupes_written |-> 0]
NoSlices   == [w \in Workers |-> <<>>]

-------------------------------------------------------------------------------
(* resolve_transitivity, and the lists that the sync walks along.          *)

Cluster(d) == ClusterOf(d, Docs, matches)

(* The old markers make a document a preferred root and a parent.          *)
Marker(d) == {d} \in matches

Precedes(d, e) == \/ Marker(d) /\ ~Marker(e)
                  \/ (Marker(d) <=> Marker(e)) /\ d <= e

Root(d) == RootOf(Cluster(d), Precedes)

Children == {d \in Docs : Root(d) # d}
Parents  == {d \in Docs : Marker(d)} \cup {Root(d) : d \in Children}
              \cup (indexed \ Children) \cup (indexed \cap Filtered)

InOrder(D) ==
  CHOOSE s \in [1..Cardinality(D) -> D] : \A i, j \in DOMAIN s : i < j => s[i] < s[j]

(* The resolved assignments, sorted by child: there is one for each.       *)
Rows == LET child == InOrder(Children)
        IN  [i \in DOMAIN child |-> <<child[i], Root(child[i])>>]

(* The contiguous parts of a list that the marking tasks get.              *)
SlicesOf(list) ==
  LET size == (Len(list) + WorkerCount - 1) \div WorkerCount
  IN  [w \in Workers |-> SubSeq(list, (w - 1) * size + 1, Min({w * size, Len(list)}))]

SlicesFor(step) ==
  CASE step = "MarkingParents"  -> SlicesOf(InOrder(Parents))
    [] step = "MarkingChildren" -> SlicesOf(InOrder(Children))
    [] OTHER -> NoSlices

-------------------------------------------------------------------------------

Init ==
  /\ \E edges \in SUBSET Pairs : matches = edges \cup {{d} : d \in SelfRows}
  /\ indexed = UNION matches
  /\ \E db \in Databases : isParent = db.isParent /\ dupes = db.dupes
  /\ progress = NotStarted /\ mine = Off /\ written = 0 /\ due = FALSE
  /\ slices = NoSlices /\ broken = FALSE
  /\ startedOn = <<{}, {}>> /\ disturbed = FALSE /\ faults = 0

(* Other runs of the program change the sidecars while no sync runs.       *)
IndexDocument(d) ==
  /\ mine = Off
  /\ indexed' = indexed \cup {d}
  /\ UNCHANGED <<database, matches, progress, mine, written, due, tasks, startedOn, disturbed, faults>>

RecordPair(p) ==
  /\ mine = Off
  /\ p \subseteq indexed
  /\ matches' = matches \cup {p}
  /\ UNCHANGED <<database, indexed, progress, mine, written, due, tasks, startedOn, disturbed, faults>>

(* They write rows and marks too, of other edges or with other parents,    *)
(* and not all of them if they die; and a user resets marks.               *)
OtherRunWrites(db) ==
  /\ mine = Off
  /\ isParent' = db.isParent /\ dupes' = db.dupes
  /\ disturbed' = TRUE
  /\ UNCHANGED <<sidecars, progress, mine, written, due, tasks, startedOn, faults>>

(* A sync that died is taken up at its step, one that is complete done     *)
(* over.                                                                   *)
StartSync ==
  LET resumed == progress.step \notin {"NotStarted", "Completed"}
  IN  /\ mine = Off
      /\ progress' = IF resumed THEN progress ELSE NotStarted
      /\ mine' = IF resumed THEN progress
                 ELSE [step |-> "WritingDupes", dupes_written |-> 0]
      /\ written' = mine'.dupes_written
      /\ slices' = SlicesFor(mine'.step)
      /\ startedOn' = IF resumed THEN startedOn ELSE sidecars
      /\ disturbed' = (resumed /\ disturbed)
      /\ UNCHANGED <<database, sidecars, due, broken, faults>>

(* Mutant: the composite key of the table is trusted.                      *)
WriteDupesKeepingOldRows ==
  LET batchEnd == Min({mine.dupes_written + BatchSize, Len(Rows)})
      to       == Min({written + ChunkSize, batchEnd})
      chunk    == ToSet(SubSeq(Rows, written + 1, to))
  IN  /\ mine.step = "WritingDupes"
      /\ ~due
      /\ written < Len(Rows)
      /\ dupes' = dupes \cup chunk
      /\ written' = to
      /\ IF to = batchEnd
         THEN /\ mine' = [mine EXCEPT !.dupes_written = to]
              /\ due' = (to % ReportInterval < BatchSize \/ to = Len(Rows))
         ELSE UNCHANGED <<mine, due>>
      /\ UNCHANGED <<isParent, sidecars, progress, tasks, startedOn, disturbed, faults>>

(* Mutant: the batch is counted and saved, then written.                   *)
WriteDupesCountedFirst ==
  LET batchEnd == Min({mine.dupes_written + BatchSize, Len(Rows)})
      to       == Min({written + ChunkSize, batchEnd})
      chunk    == ToSet(SubSeq(Rows, written + 1, to))
  IN  /\ mine.step = "WritingDupes"
      /\ written < Len(Rows)
      /\ dupes' = {r \in dupes : \A s \in chunk : s[1] # r[1]} \cup chunk
      /\ written' = to
      /\ progress' = [mine EXCEPT !.dupes_written = batchEnd]
      /\ mine' = IF to = batchEnd THEN progress' ELSE mine
      /\ UNCHANGED <<isParent, sidecars, due, tasks, startedOn, disturbed, faults>>

(* One transaction of write_dupes.  The rows count when the batch is       *)
(* through; then, from time to time, a checkpoint is due.                  *)
WriteDupes ==
  LET batchEnd == Min({mine.dupes_written + BatchSize, Len(Rows)})
      to       == Min({written + ChunkSize, batchEnd})
      chunk    == ToSet(SubSeq(Rows, written + 1, to))
  IN  /\ mine.step = "WritingDupes"
      /\ ~due
      /\ written < Len(Rows)
      /\ dupes' = {r \in dupes : \A s \in chunk : s[1] # r[1]} \cup chunk
      /\ written' = to
      /\ IF to = batchEnd
         THEN /\ mine' = [mine EXCEPT !.dupes_written = to]
              /\ due' = (to % ReportInterval < BatchSize \/ to = Len(Rows))
         ELSE UNCHANGED <<mine, due>>
      /\ UNCHANGED <<isParent, sidecars, progress, tasks, startedOn, disturbed, faults>>

SetSyncProgress ==
  /\ due
  /\ progress' = mine
  /\ due' = FALSE
  /\ UNCHANGED <<database, sidecars, mine, written, tasks, startedOn, disturbed, faults>>

(* A step is through: state.redb says so before the next one begins.       *)
NextStep(step) ==
  /\ progress' = [mine EXCEPT !.step = step]
  /\ mine' = IF step = "Completed" THEN Off ELSE progress'
  /\ slices' = SlicesFor(step)
  /\ UNCHANGED <<database, sidecars, written, due, broken, startedOn, disturbed, faults>>

(* Mutant: the children are marked while their roots are not.              *)
FinishDupesChildrenFirst ==
  /\ mine.step = "WritingDupes"
  /\ ~due
  /\ written >= Len(Rows)
  /\ NextStep("MarkingChildren")

FinishDupes ==
  /\ mine.step = "WritingDupes"
  /\ ~due
  /\ written >= Len(Rows)
  /\ NextStep("MarkingParents")

Mark(D, m) == isParent' = [d \in Docs |-> IF d \in D THEN m ELSE isParent[d]]

MarkBatch(w) ==
  LET n == Min({BatchSize, Len(slices[w])})
  IN  /\ slices[w] # <<>>
      /\ Mark(ToSet(SubSeq(slices[w], 1, n)),
              IF mine.step = "MarkingParents" THEN "true" ELSE "false")
      /\ slices' = [slices EXCEPT ![w] = SubSeq(@, n + 1, Len(@))]
      /\ UNCHANGED <<dupes, sidecars, progress, mine, written, due, broken, startedOn, disturbed, faults>>

(* A task gives up at its first error; the others are not told.            *)
MarkerFails(w) ==
  /\ slices[w] # <<>>
  /\ faults < MaxFaults
  /\ slices' = [slices EXCEPT ![w] = <<>>]
  /\ broken' = TRUE
  /\ faults' = faults + 1
  /\ UNCHANGED <<database, sidecars, progress, mine, written, due, startedOn, disturbed>>

(* Mutant: the results of the tasks are dropped.                           *)
JoinAllUnchecked ==
  /\ mine.step \in {"MarkingParents", "MarkingChildren"}
  /\ slices = NoSlices
  /\ NextStep(IF mine.step = "MarkingParents" THEN "MarkingChildren" ELSE "Completed")

(* All tasks are waited for, then their errors count.                      *)
JoinAll ==
  /\ mine.step \in {"MarkingParents", "MarkingChildren"}
  /\ slices = NoSlices
  /\ ~broken
  /\ NextStep(IF mine.step = "MarkingParents" THEN "MarkingChildren" ELSE "Completed")

Stop ==
  /\ mine' = Off /\ written' = 0 /\ due' = FALSE
  /\ slices' = NoSlices /\ broken' = FALSE

ReportMarkerError ==
  /\ slices = NoSlices
  /\ broken
  /\ Stop
  /\ UNCHANGED <<database, sidecars, progress, startedOn, disturbed, faults>>

(* The process dies, or a transaction fails outside the marking tasks.     *)
Interrupt ==
  /\ mine # Off
  /\ faults < MaxFaults
  /\ Stop
  /\ faults' = faults + 1
  /\ UNCHANGED <<database, sidecars, progress, startedOn, disturbed>>

-------------------------------------------------------------------------------

Next ==
  \/ \E d \in Docs \ indexed : IndexDocument(d)
  \/ \E p \in Pairs \ matches : RecordPair(p)
  \/ \E db \in Databases : OtherRunWrites(db)
  \/ StartSync
  \/ WriteDupes
  \/ SetSyncProgress
  \/ FinishDupes
  \/ \E w \in Workers : MarkBatch(w) \/ MarkerFails(w)
  \/ JoinAll
  \/ ReportMarkerError
  \/ Interrupt

Spec == Init /\ [][Next]_vars

-------------------------------------------------------------------------------
(* Properties.                                                             *)

(* Every variable has its type, and a child never has two rows.            *)
Progress == [step : {"NotStarted", "WritingDupes", "MarkingParents",
                     "MarkingChildren", "Completed"},
             dupes_written : 0..Cardinality(Docs)]

TypeOK ==
  /\ isParent \in [Docs -> {"null", "true", "false"}]
  /\ dupes \subseteq Docs \X Docs
  /\ \A r, s \in dupes : r[1] = s[1] => r = s
  /\ indexed \subseteq Docs /\ UNION matches \subseteq indexed
  /\ progress \in Progress
  /\ mine = Off \/ mine \in Progress
  /\ written \in 0..Cardinality(Docs) /\ mine.dupes_written <= written
  /\ due \in BOOLEAN /\ broken \in BOOLEAN /\ disturbed \in BOOLEAN
  /\ slices \in [Workers -> Seq(Docs)]
  /\ faults \in 0..MaxFaults

(* Nothing but the sync itself has been at work since it started.          *)
Unchanged == startedOn = sidecars /\ ~disturbed

(* As long as the sidecars are those on which a sync started, and the      *)
(* database holds what it wrote, state.redb never promises more rows than  *)
(* the database has: a sync that is taken up again skips nothing           *)
(* (checkpoint after write_dupes).                                         *)
CheckpointNeverAhead ==
  Unchanged /\ progress.step # "NotStarted" =>
    \A i \in 1..Min({progress.dupes_written, Len(Rows)}) : Rows[i] \in dupes

(* A sync that is complete has replayed the sidecars, whatever other runs  *)
(* had left in the database when it started, wherever it died and          *)
(* whichever marking task failed: each child has its canonical parent and  *)
(* its mark, everybody else is a parent ("Each child now has exactly ONE   *)
(* canonical parent").                                                     *)
CompletedSyncIsExact ==
  Unchanged /\ progress.step = "Completed" =>
    \A d \in indexed :
      IF d \in Children
      THEN isParent[d] = "false" /\ <<d, Root(d)>> \in dupes
      ELSE isParent[d] = "true"

(* A document loses its place, or leaves the queue, as a duplicate only    *)
(* when the database says of what and that document is in place: at no     *)
(* time is a cluster without a canonical parent on account of a sync       *)
(* (parents are marked before children).                                   *)
DemotedForParent ==
  [][Unchanged /\ mine # Off =>
       \A d \in Docs : isParent'[d] = "false" /\ isParent[d] # "false" =>
         \E r \in dupes : r[1] = d /\ isParent[r[2]] = "true" /\ isParent'[r[2]] = "true"]_vars

===============================================================================
