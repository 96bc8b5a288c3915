-------------------------------- MODULE Phase2 --------------------------------
(***************************************************************************)
(* Phase 2 of the pipeline (src/disk_dedupe.rs): worker threads compare    *)
(* the documents of a run with their LSH candidates, collect the edges     *)
(* they find in a buffer behind a mutex, and flush that buffer in two      *)
(* steps, first the edges to matches.redb, then the ids of the compared    *)
(* documents to state.redb, which is the checkpoint a later run resumes    *)
(* from.                                                                   *)
(*                                                                         *)
(* `index', `matches', `adjacency' and `processed' are files; all the rest *)
(* is memory that a crash loses.  One action is one redb transaction or    *)
(* one critical section of the code.  The process that runs Phase 2 holds  *)
(* redb's file lock, so the index does not change during a run.            *)
(*                                                                         *)
(* A document is its UUID, a number, because the code compares UUIDs.      *)
(* Jaccard[a, b] is the MinHash similarity of a and b as a level; 0 stands *)
(* for two documents that share no LSH bucket, which are never compared.   *)
(* Not modelled: the counters of Phase2Metadata (statistics only), the     *)
(* progress bar and the log.                                               *)
(***************************************************************************)
EXTENDS Naturals, FiniteSets

CONSTANTS
  Docs,          \* UUIDs of all documents that may ever be indexed
  Jaccard,       \* similarity level of two documents
  Length,        \* content_len of a document
  Threshold,     \* the level from which two documents are duplicates
  SizeDiffPct,   \* size_diff_threshold, in percent
  MaxMatches,    \* max_matches_per_doc, NoCap for None
  NoCap,
  Workers,       \* the threads of the rayon pool
  Main,          \* the thread that calls run()
  FlushAt        \* batch_size and state_save_interval, 10000 in the code

ASSUME DocsAssumption == Docs \subseteq Nat
ASSUME JaccardAssumption ==
  /\ Jaccard \in [Docs \X Docs -> Nat]
  /\ \A a, b \in Docs : Jaccard[a, b] = Jaccard[b, a]
ASSUME LengthAssumption == Length \in [Docs -> Nat]
ASSUME LimitsAssumption == /\ Threshold \in Nat \ {0}
                           /\ SizeDiffPct \in Nat
                           /\ MaxMatches \in (Nat \ {0}) \cup {NoCap}
                           /\ NoCap \notin Nat
                           /\ FlushAt \in Nat \ {0}
ASSUME ThreadsAssumption == Main \notin Workers

VARIABLES
  index,       \* lsh.redb: the indexed documents
  matches,     \* matches.redb: edges <<child, parent>>
  adjacency,   \* matches.redb: entries <<node, child, parent>>
  processed,   \* state.redb: the acknowledged documents
  phase,       \* where the run as a whole is
  docIds,      \* doc_id_set, the documents of this run
  todo,        \* documents no worker has picked yet
  thread,      \* per thread: what it does, its document, the batch it took
  pending,     \* the mutex-protected PendingPhase2Writes
  failed,      \* phase2_failed
  outcome,     \* how the last run ended
  stale        \* history: the acknowledged documents whose edges a fresh run
               \* deleted and whose acknowledgement it has not deleted yet

durable == <<index, matches, adjacency, processed>>
run     == <<phase, docIds, outcome>>
vars    == <<durable, run, todo, thread, pending, failed, stale>>

Threads == Workers \cup {Main}
Edges   == Docs \X Docs

(* Two lengths are compatible if they differ by at most the threshold,     *)
(* relative to the larger one; an unknown length is compatible with all.   *)
SizeWithinThreshold(m, n) ==
  \/ m = 0 \/ n = 0
  \/ m <= n /\ (n - m) * 100 <= SizeDiffPct * n
  \/ n <= m /\ (m - n) * 100 <= SizeDiffPct * m

Duplicates(a, b) ==
  /\ a # b
  /\ Jaccard[a, b] >= Threshold
  /\ SizeWithinThreshold(Length[a], Length[b])

(* The longer document is the child; on a tie, the document being          *)
(* processed is.                                                           *)
MatchRecord(d, c) == IF Length[d] >= Length[c] THEN <<d, c>> ELSE <<c, d>>

(* Mutant: every pair is left to its lower UUID, also one with a document  *)
(* of an earlier run.                                                      *)
ComparesUpwards(d, c, run_ids) == d < c

(* A pair with both ends in the run is left to its lower UUID; a candidate *)
(* outside the run is always compared.                                     *)
Compares(d, c, run_ids) == c \notin run_ids \/ d < c

(* The order in which max_matches_per_doc keeps the edges of a document.   *)
Before(e, f) ==
  LET je == Jaccard[e[1], e[2]]
      jf == Jaccard[f[1], f[2]]
  IN  \/ je > jf
      \/ je = jf /\ e[1] < f[1]
      \/ je = jf /\ e[1] = f[1] /\ e[2] < f[2]

(* Mutant: the weakest edges are kept.                                     *)
TruncatedToWeakest(E) ==
  IF MaxMatches = NoCap THEN E
  ELSE {e \in E : Cardinality({f \in E : Before(e, f)}) < MaxMatches}

Truncated(E) ==
  IF MaxMatches = NoCap THEN E
  ELSE {e \in E : Cardinality({f \in E : Before(f, e)}) < MaxMatches}

(* The edges that processing d contributes in a run over run_ids.          *)
LocalMatches(d, run_ids) ==
  Truncated({MatchRecord(d, c) :
               c \in {x \in index : Duplicates(d, x) /\ Compares(d, x, run_ids)}})

AdjacencyEntries(E) ==
  {<<e[1], e[1], e[2]>> : e \in E} \cup {<<e[2], e[1], e[2]>> : e \in E}

Empty == [matches |-> {}, ids |-> {}]
Idle  == [pc |-> "idle", doc |-> {}, batch |-> Empty]

-------------------------------------------------------------------------------

Init ==
  /\ index = {} /\ matches = {} /\ adjacency = {} /\ processed = {}
  /\ phase = "idle" /\ docIds = {} /\ outcome = "none"
  /\ todo = {} /\ thread = [t \in Threads |-> Idle]
  /\ pending = Empty /\ failed = FALSE /\ stale = {}

(* Phase 1 adds a document to the index, between two runs of Phase 2.      *)
IndexDocument(d) ==
  /\ phase = "idle"
  /\ d \notin index
  /\ index' = index \cup {d}
  /\ UNCHANGED <<matches, adjacency, processed, run, todo, thread, pending,
                 failed, stale>>

(* Mutant: the workers go through the whole index.                         *)
LaunchOverIndex(ids) ==
  /\ docIds' = ids
  /\ todo' = index
  /\ failed' = FALSE
  /\ pending' = Empty
  /\ phase' = IF ids = {} THEN "idle" ELSE "running"
  /\ outcome' = IF ids = {} THEN "ok" ELSE "none"
  /\ UNCHANGED <<index, thread>>

(* The part of run() that all the ways to start it share.  A run with      *)
(* nothing left to process returns at once.                                *)
Launch(ids) ==
  /\ docIds' = ids
  /\ todo' = ids
  /\ failed' = FALSE
  /\ pending' = Empty
  /\ phase' = IF ids = {} THEN "idle" ELSE "running"
  /\ outcome' = IF ids = {} THEN "ok" ELSE "none"
  /\ UNCHANGED <<index, thread>>

(* Full mode, resuming: everything in the index that is not acknowledged.  *)
StartFull ==
  /\ phase = "idle"
  /\ Launch(index \ processed)
  /\ UNCHANGED <<matches, adjacency, processed, stale>>

(* Incremental mode, resuming: the given documents, acknowledged or not.   *)
StartIncremental(ids) ==
  /\ phase = "idle"
  /\ processed' = processed \ ids
  /\ stale' = stale \ ids
  /\ Launch(ids)
  /\ UNCHANGED <<matches, adjacency>>

(* A fresh run deletes matches.redb and then state.redb; it may die, or    *)
(* fail, between the two.                                                  *)
FreshRemoveMatches ==
  /\ phase = "idle"
  /\ phase' = "clearing"
  /\ matches' = {} /\ adjacency' = {}
  /\ stale' = processed
  /\ UNCHANGED <<index, processed, docIds, outcome, todo, thread, pending,
                 failed>>

(* Mutant: the second file is forgotten.                                   *)
FreshKeepState(ids) ==
  /\ phase = "clearing"
  /\ stale' = {}
  /\ Launch(ids)
  /\ UNCHANGED <<matches, adjacency, processed>>

FreshRemoveState(ids) ==
  /\ phase = "clearing"
  /\ processed' = {} /\ stale' = {}
  /\ Launch(ids)
  /\ UNCHANGED <<matches, adjacency>>

-------------------------------------------------------------------------------
(* The closure each worker runs for each document.                         *)

Goto(t, pc, batch) == thread' = [thread EXCEPT ![t].pc = pc, ![t].batch = batch]

(* A document picked after a failure is dropped without being looked at.   *)
PickDocument(w, d) ==
  /\ phase = "running"
  /\ thread[w].pc = "idle"
  /\ d \in todo
  /\ todo' = todo \ {d}
  /\ IF failed THEN UNCHANGED thread
               ELSE thread' = [thread EXCEPT ![w].pc = "comparing", ![w].doc = {d}]
  /\ UNCHANGED <<durable, run, pending, failed, stale>>

(* Reading the document, a bucket or a candidate fails.                    *)
ReadFails(w) ==
  /\ thread[w].pc = "comparing"
  /\ thread' = [thread EXCEPT ![w] = Idle]
  /\ failed' = TRUE
  /\ UNCHANGED <<durable, run, todo, pending, stale>>

(* The results enter the shared buffer together with the id they           *)
(* acknowledge; whoever fills the buffer flushes it.                       *)
PushMatches(w, d) ==
  /\ thread[w].pc = "comparing"
  /\ thread[w].doc = {d}
  /\ pending' = [matches |-> pending.matches \cup LocalMatches(d, docIds),
                 ids     |-> pending.ids \cup {d}]
  /\ LET full == \/ Cardinality(pending'.matches) >= FlushAt
                 \/ Cardinality(pending'.ids) >= FlushAt
     IN  thread' = [thread EXCEPT ![w] =
                      [Idle EXCEPT !.pc = IF full THEN "flush" ELSE "idle"]]
  /\ UNCHANGED <<durable, run, todo, failed, stale>>

-------------------------------------------------------------------------------
(* flush_pending_writes, run by a worker or, at the end, by Main.          *)

(* Mutant: a thread that wants to flush waits until there is something.    *)
TakePendingWaits(t) ==
  /\ thread[t].pc = "flush"
  /\ pending # Empty
  /\ Goto(t, "write", pending)
  /\ pending' = Empty
  /\ UNCHANGED <<durable, run, todo, failed, stale>>

TakePending(t) ==
  /\ thread[t].pc = "flush"
  /\ IF pending = Empty THEN Goto(t, "idle", Empty)
                        ELSE Goto(t, "write", pending)
  /\ pending' = Empty
  /\ UNCHANGED <<durable, run, todo, failed, stale>>

(* Mutant: the adjacency entries are left to the next backfill.            *)
WriteMatchesWithoutAdjacency(t) ==
  /\ thread[t].pc = "write"
  /\ matches' = matches \cup thread[t].batch.matches
  /\ Goto(t, "acknowledge", thread[t].batch)
  /\ UNCHANGED <<index, adjacency, processed, run, todo, pending, failed, stale>>

WriteMatchesBatch(t) ==
  /\ thread[t].pc = "write"
  /\ matches' = matches \cup thread[t].batch.matches
  /\ adjacency' = adjacency \cup
                    AdjacencyEntries(thread[t].batch.matches \ matches)
  /\ Goto(t, "acknowledge", thread[t].batch)
  /\ UNCHANGED <<index, processed, run, todo, pending, failed, stale>>

MarkProcessedBatch(t) ==
  /\ thread[t].pc = "acknowledge"
  /\ processed' = processed \cup thread[t].batch.ids
  /\ Goto(t, "metadata", Empty)
  /\ UNCHANGED <<index, matches, adjacency, run, todo, pending, failed, stale>>

SaveMetadata(t) ==
  /\ thread[t].pc = "metadata"
  /\ Goto(t, "idle", Empty)
  /\ UNCHANGED <<durable, run, todo, pending, failed, stale>>

(* Mutant: a failed flush is logged and forgotten.                         *)
FlushFailsSilently(t) ==
  /\ thread[t].pc \in {"write", "acknowledge", "metadata"}
  /\ Goto(t, "idle", Empty)
  /\ UNCHANGED <<durable, run, todo, pending, failed, stale>>

(* One of the three transactions fails: the batch that was taken is gone,  *)
(* the other threads go on.                                                *)
FlushFails(t) ==
  /\ thread[t].pc \in {"write", "acknowledge", "metadata"}
  /\ Goto(t, "idle", Empty)
  /\ failed' = TRUE
  /\ UNCHANGED <<durable, run, todo, pending, stale>>

-------------------------------------------------------------------------------
(* The end of run(), and the end of the process.                           *)

(* The pool has drained.  Main flushes what is left, failure or not.       *)
FinalFlush ==
  /\ phase = "running"
  /\ todo = {}
  /\ \A t \in Threads : thread[t].pc = "idle"
  /\ phase' = "finishing"
  /\ Goto(Main, "flush", Empty)
  /\ UNCHANGED <<durable, docIds, outcome, todo, pending, failed, stale>>

(* The last save_metadata may itself fail, which fails the run.            *)
Return(saved) ==
  /\ phase = "finishing"
  /\ thread[Main].pc = "idle"
  /\ phase' = "idle"
  /\ outcome' = IF failed \/ ~saved THEN "error" ELSE "ok"
  /\ UNCHANGED <<durable, docIds, todo, thread, pending, failed, stale>>

Crash ==
  /\ phase # "idle"
  /\ phase' = "idle" /\ docIds' = {} /\ outcome' = "crashed"
  /\ todo' = {} /\ thread' = [t \in Threads |-> Idle]
  /\ pending' = Empty /\ failed' = FALSE
  /\ UNCHANGED <<durable, stale>>

-------------------------------------------------------------------------------

Start ==
  \/ StartFull
  \/ \E ids \in SUBSET index : StartIncremental(ids)
  \/ FreshRemoveMatches
  \/ \E ids \in SUBSET index : FreshRemoveState(ids)

Work(w) ==
  \/ \E d \in todo : PickDocument(w, d)
  \/ ReadFails(w)
  \/ \E d \in docIds : PushMatches(w, d)

Flush(t) ==
  \/ TakePending(t)
  \/ WriteMatchesBatch(t)
  \/ MarkProcessedBatch(t)
  \/ SaveMetadata(t)
  \/ FlushFails(t)

Finish == FinalFlush \/ \E saved \in BOOLEAN : Return(saved)

Next ==
  \/ \E d \in Docs : IndexDocument(d)
  \/ Start
  \/ \E w \in Workers : Work(w)
  \/ \E t \in Threads : Flush(t)
  \/ Finish
  \/ Crash

Spec == Init /\ [][Next]_vars

(* Once started, the threads of a run are not stopped for ever: the        *)
(* operating system schedules every thread of the pool and the main one.   *)
Fairness == /\ \A w \in Workers : WF_vars(Work(w))
            /\ \A t \in Threads : WF_vars(Flush(t))
            /\ WF_vars(Finish)
            /\ WF_vars(\E ids \in SUBSET index : FreshRemoveState(ids))

FairSpec == Spec /\ Fairness

-------------------------------------------------------------------------------
(* Properties.                                                             *)

PendingWrites == [matches : SUBSET Edges, ids : SUBSET Docs]
ThreadState ==
  [pc    : {"idle", "comparing", "flush", "write", "acknowledge", "metadata"},
   doc   : SUBSET Docs,
   batch : PendingWrites]

(* Every variable has its type.                                            *)
TypeOK ==
  /\ index \subseteq Docs
  /\ matches \subseteq Edges
  /\ adjacency \subseteq Docs \X Docs \X Docs
  /\ processed \subseteq Docs
  /\ phase \in {"idle", "clearing", "running", "finishing"}
  /\ docIds \subseteq Docs
  /\ outcome \in {"none", "ok", "error", "crashed"}
  /\ todo \subseteq docIds
  /\ thread \in [Threads -> ThreadState]
  /\ pending \in PendingWrites
  /\ failed \in BOOLEAN
  /\ stale \subseteq processed

Linked(a, b) == <<a, b>> \in matches \/ <<b, a>> \in matches

(* Under a cap an edge may be left out, but only for a document that has   *)
(* its full number of edges, none of them weaker.                          *)
Saturated(d, level) ==
  /\ MaxMatches # NoCap
  /\ Cardinality({e \in matches : d \in {e[1], e[2]} /\ Jaccard[e] >= level})
       >= MaxMatches

OnRecord(a, b) ==
  Linked(a, b) \/ \E d \in {a, b} : Saturated(d, Jaccard[a, b])

(* "Phase 2 must write matches before marking IDs processed": two          *)
(* duplicates that state.redb both acknowledges, which no resumed run will *)
(* compare again, have their edge in matches.redb, whatever threads        *)
(* flushed, failed or crashed in between and whichever of the two was left *)
(* with the comparison (flush_pending_writes and the skip in run).  A      *)
(* fresh run that dies between its deletions loses no more than the edges  *)
(* between documents that were both acknowledged when it began.            *)
CheckpointCovers ==
  \A a, b \in processed :
    Duplicates(a, b) /\ ~({a, b} \subseteq stale) => OnRecord(a, b)

(* The adjacency side-index holds exactly the two entries of each edge at  *)
(* every point where a process may stop: it is written in the transaction  *)
(* of the edge (write_matches_batch).                                      *)
AdjacencyNeverDiverges == adjacency = AdjacencyEntries(matches)

(* A run that reports success has acknowledged every document it was given *)
(* and recorded each of their indexed duplicates, so Phase 3 can resolve   *)
(* the batch: no failed read or lost batch of any thread goes unnoticed    *)
(* (the error flags of run and its final bail).                            *)
SuccessIsComplete ==
  [][phase = "finishing" /\ phase' = "idle" /\ outcome' = "ok" =>
       /\ docIds \subseteq processed'
       /\ \A d \in docIds, c \in index : Duplicates(d, c) => OnRecord(d, c)']_vars

(* A run that was started returns or dies: neither a failure flag nor two  *)
(* threads that want to flush the same buffer leave it hanging.            *)
RunEnds == (phase # "idle") ~> (phase = "idle")

(* The ledger this module implements when no cap is set.  A fresh run      *)
(* discards it with the first of its two deletions; what is still          *)
(* acknowledged from before is not done.                                   *)
DuplicatePairs == {p \in SUBSET Docs : \E a, b \in Docs : p = {a, b} /\ Duplicates(a, b)}

Ledger == INSTANCE PairLedger WITH
            Pairs    <- DuplicatePairs,
            onRecord <- {{e[1], e[2]} : e \in matches},
            done     <- processed \ stale

(* Phase 2 implements the ledger: no step of any thread declares a         *)
(* document done while one of its pairs with a done document is missing.   *)
LedgerSpec == Ledger!Spec

===============================================================================
