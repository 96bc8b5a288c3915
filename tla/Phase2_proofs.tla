----------------------------- MODULE Phase2_proofs -----------------------------
(***************************************************************************)
(* Theorems about Phase 2, for every set of documents and workers, every   *)
(* similarity relation and every flush threshold.                          *)
(***************************************************************************)
EXTENDS Phase2, FiniteSetTheorems, TLAPS

Running == phase \in {"running", "finishing"}

-------------------------------------------------------------------------------
(* Type correctness.                                                       *)

LEMMA RecordIsEdge ==
  ASSUME NEW d \in Docs, NEW c \in Docs
  PROVE  MatchRecord(d, c) \in Edges
BY DEF MatchRecord, Edges

(* Whatever the cap keeps, it keeps from the edges it is given.            *)
LEMMA TruncatedSubset == ASSUME NEW E PROVE Truncated(E) \subseteq E
BY DEF Truncated

LEMMA LocalMatchesType ==
  ASSUME index \subseteq Docs, NEW d \in Docs, NEW ids
  PROVE  LocalMatches(d, ids) \subseteq Edges
<1> DEFINE C == {x \in index : Duplicates(d, x) /\ Compares(d, x, ids)}
<1>1. {MatchRecord(d, c) : c \in C} \subseteq Edges
  BY RecordIsEdge
<1> QED BY <1>1, TruncatedSubset DEF LocalMatches

LEMMA AdjacencyType ==
  ASSUME NEW E \in SUBSET Edges
  PROVE  AdjacencyEntries(E) \subseteq Docs \X Docs \X Docs
BY DEF AdjacencyEntries, Edges

LEMMA EmptyType == Empty \in PendingWrites
BY DEF Empty, PendingWrites

LEMMA IdleType == Idle \in ThreadState
BY EmptyType DEF Idle, ThreadState

LEMMA GotoType ==
  ASSUME TypeOK, NEW t \in Threads, NEW b \in PendingWrites, NEW pc,
         pc \in {"idle", "flush", "write", "acknowledge", "metadata"},
         Goto(t, pc, b)
  PROVE  thread' \in [Threads -> ThreadState]
BY DEF Goto, TypeOK, ThreadState

LEMMA InitType == Init => TypeOK
BY IdleType, EmptyType DEF Init, TypeOK

LEMMA LaunchType ==
  ASSUME TypeOK, NEW ids \in SUBSET index, Launch(ids)
  PROVE  /\ phase' \in {"idle", "clearing", "running", "finishing"}
         /\ docIds' \subseteq Docs /\ todo' \subseteq docIds'
         /\ outcome' \in {"none", "ok", "error", "crashed"}
         /\ pending' \in PendingWrites /\ failed' \in BOOLEAN
         /\ index' = index /\ thread' = thread
BY DEF Launch, TypeOK, PendingWrites, Empty

LEMMA NextType == TypeOK /\ [Next]_vars => TypeOK'
<1> SUFFICES ASSUME TypeOK, [Next]_vars PROVE TypeOK'
  OBVIOUS
<1>1. ASSUME NEW d \in Docs, IndexDocument(d) PROVE TypeOK'
  BY <1>1 DEF IndexDocument, TypeOK, run
<1>2. CASE StartFull
  BY <1>2, LaunchType DEF StartFull, TypeOK
<1>3. ASSUME NEW ids \in SUBSET index, StartIncremental(ids) PROVE TypeOK'
  BY <1>3, LaunchType DEF StartIncremental, TypeOK
<1>4. CASE FreshRemoveMatches
  BY <1>4 DEF FreshRemoveMatches, TypeOK
<1>5. ASSUME NEW ids \in SUBSET index, FreshRemoveState(ids) PROVE TypeOK'
  BY <1>5, LaunchType DEF FreshRemoveState, TypeOK
<1>6. ASSUME NEW w \in Workers, NEW d \in todo, PickDocument(w, d) PROVE TypeOK'
  BY <1>6 DEF PickDocument, TypeOK, ThreadState, durable, run, Threads
<1>7. ASSUME NEW w \in Workers, ReadFails(w) PROVE TypeOK'
  BY <1>7, IdleType DEF ReadFails, TypeOK, durable, run, Threads
<1>8. ASSUME NEW w \in Workers, NEW d \in docIds, PushMatches(w, d) PROVE TypeOK'
  <2>1. LocalMatches(d, docIds) \subseteq Edges
    BY LocalMatchesType DEF TypeOK
  <2>2. pending' \in PendingWrites
    BY <1>8, <2>1 DEF PushMatches, TypeOK, PendingWrites
  <2> QED BY <1>8, <2>2, EmptyType DEF PushMatches, TypeOK, durable, run,
                                       Threads, Idle, ThreadState
<1>9. ASSUME NEW t \in Threads, TakePending(t) PROVE TypeOK'
  BY <1>9, GotoType, EmptyType DEF TakePending, TypeOK, durable, run
<1>10. ASSUME NEW t \in Threads, WriteMatchesBatch(t) PROVE TypeOK'
  <2>1. thread[t].batch.matches \in SUBSET Edges
    BY DEF TypeOK, ThreadState, PendingWrites
  <2>2. matches' \subseteq Edges
    BY <1>10, <2>1 DEF WriteMatchesBatch, TypeOK
  <2>3. adjacency' \subseteq Docs \X Docs \X Docs
    BY <1>10, <2>1, AdjacencyType DEF WriteMatchesBatch, TypeOK
  <2>4. thread[t].batch \in PendingWrites
    BY DEF TypeOK, ThreadState
  <2> QED BY <1>10, <2>2, <2>3, GotoType, <2>4 DEF WriteMatchesBatch, TypeOK, run
<1>11. ASSUME NEW t \in Threads, MarkProcessedBatch(t) PROVE TypeOK'
  BY <1>11, GotoType, EmptyType DEF MarkProcessedBatch, TypeOK, PendingWrites, ThreadState, run
<1>12. ASSUME NEW t \in Threads, SaveMetadata(t) PROVE TypeOK'
  BY <1>12, GotoType, EmptyType DEF SaveMetadata, TypeOK, durable, run
<1>13. ASSUME NEW t \in Threads, FlushFails(t) PROVE TypeOK'
  BY <1>13, GotoType, EmptyType DEF FlushFails, TypeOK, durable, run
<1>14. CASE FinalFlush
  BY <1>14, GotoType, EmptyType DEF FinalFlush, TypeOK, durable, Threads
<1>15. ASSUME NEW saved \in BOOLEAN, Return(saved) PROVE TypeOK'
  BY <1>15 DEF Return, TypeOK, durable
<1>16. CASE Crash
  BY <1>16, IdleType, EmptyType DEF Crash, TypeOK, durable
<1>17. CASE UNCHANGED vars
  BY <1>17 DEF TypeOK, vars, durable, run
<1> QED
  BY <1>1, <1>2, <1>3, <1>4, <1>5, <1>6, <1>7, <1>8, <1>9, <1>10, <1>11,
     <1>12, <1>13, <1>14, <1>15, <1>16, <1>17
  DEF Next, Start, Work, Flush, Finish

(* Every variable of Phase 2 keeps its type in every behaviour.            *)
THEOREM TypeCorrect == Spec => []TypeOK
BY InitType, NextType, PTL DEF Spec

-------------------------------------------------------------------------------
(* The inductive invariant behind the checkpoint.  Its parts:              *)
(*   Quiet      a thread is busy only during a run, has a document only    *)
(*              while it compares it and a batch only while it flushes it; *)
(*              at the end of a run only Main is at work                   *)
(*   Confined   the ids in files, buffers and batches are indexed, and     *)
(*              those of buffers and batches belong to the run             *)
(*   Finite     the index is finite, and no edge leaves it: the cap counts *)
(*              edges                                                      *)
(*   Backed     an id never travels ahead of the edges it acknowledges     *)
(*   Apart      documents with a stale acknowledgement are none of a run,   *)
(*              and between the two deletions of a fresh run every          *)
(*              acknowledgement is stale                                    *)
(*   Accounted  until something fails, each document of the run is in the  *)
(*              hands of somebody or acknowledged                          *)

Quiet ==
  /\ \A t \in Threads :
       /\ thread[t].pc # "idle" => Running
       /\ thread[t].pc # "comparing" => thread[t].doc = {}
       /\ thread[t].pc \notin {"write", "acknowledge"} => thread[t].batch = Empty
  /\ phase = "finishing" =>
       /\ todo = {}
       /\ \A w \in Workers : thread[w].pc = "idle"
       /\ thread[Main].pc # "flush" => pending = Empty

Confined ==
  /\ processed \subseteq index
  /\ docIds \subseteq index
  /\ pending.ids \subseteq docIds
  /\ \A t \in Threads : thread[t].batch.ids \subseteq docIds

Inside(E) == E \subseteq index \X index

Finite ==
  /\ IsFiniteSet(index)
  /\ Inside(matches)
  /\ Inside(pending.matches)
  /\ \A t \in Threads : Inside(thread[t].batch.matches)

Backed ==
  Running =>
    /\ \A d \in pending.ids : LocalMatches(d, docIds) \subseteq pending.matches
    /\ \A d \in processed \cap docIds : LocalMatches(d, docIds) \subseteq matches
    /\ \A t \in Threads : \A d \in thread[t].batch.ids :
         LocalMatches(d, docIds) \subseteq
           IF thread[t].pc = "write" THEN thread[t].batch.matches ELSE matches

Apart ==
  /\ Running => stale \cap docIds = {}
  /\ phase = "clearing" => processed \subseteq stale

InHand(d) ==
  \/ d \in todo
  \/ d \in pending.ids
  \/ d \in processed
  \/ \E t \in Threads : d \in thread[t].doc \cup thread[t].batch.ids

Accounted == Running /\ ~failed => \A d \in docIds : InHand(d)

-------------------------------------------------------------------------------

LEMMA QuietNext == TypeOK /\ Quiet /\ [Next]_vars => Quiet'
<1> SUFFICES ASSUME TypeOK, Quiet, [Next]_vars PROVE Quiet'
  OBVIOUS
<1> USE DEF Quiet, Running, Threads
<1>1. ASSUME NEW d \in Docs, IndexDocument(d) PROVE Quiet'
  BY <1>1 DEF IndexDocument, run
<1>2. ASSUME phase \in {"idle", "clearing"}, NEW ids, Launch(ids) PROVE Quiet'
  BY <1>2 DEF Launch, TypeOK
<1>3. CASE FreshRemoveMatches
  BY <1>3 DEF FreshRemoveMatches
<1>4. ASSUME NEW w \in Workers, NEW d \in todo, PickDocument(w, d) PROVE Quiet'
  BY <1>4, ThreadsAssumption DEF PickDocument, run, TypeOK, ThreadState
<1>5. ASSUME NEW w \in Workers, ReadFails(w) PROVE Quiet'
  BY <1>5, ThreadsAssumption DEF ReadFails, run, TypeOK, ThreadState, Idle
<1>6. ASSUME NEW w \in Workers, NEW d \in docIds, PushMatches(w, d) PROVE Quiet'
  BY <1>6, ThreadsAssumption DEF PushMatches, run, TypeOK, ThreadState, Idle
<1>7. ASSUME NEW t \in Threads, TakePending(t) PROVE Quiet'
  BY <1>7, ThreadsAssumption DEF TakePending, Goto, run, TypeOK, ThreadState
<1>8. ASSUME NEW t \in Threads, WriteMatchesBatch(t) PROVE Quiet'
  BY <1>8, ThreadsAssumption DEF WriteMatchesBatch, Goto, run, TypeOK, ThreadState
<1>9. ASSUME NEW t \in Threads, MarkProcessedBatch(t) PROVE Quiet'
  BY <1>9, ThreadsAssumption DEF MarkProcessedBatch, Goto, run, TypeOK, ThreadState
<1>10. ASSUME NEW t \in Threads, SaveMetadata(t) PROVE Quiet'
  BY <1>10, ThreadsAssumption DEF SaveMetadata, Goto, run, TypeOK, ThreadState
<1>11. ASSUME NEW t \in Threads, FlushFails(t) PROVE Quiet'
  BY <1>11, ThreadsAssumption DEF FlushFails, Goto, run, TypeOK, ThreadState
<1>12. CASE FinalFlush
  BY <1>12, ThreadsAssumption DEF FinalFlush, Goto, TypeOK, ThreadState
<1>13. ASSUME NEW saved \in BOOLEAN, Return(saved) PROVE Quiet'
  BY <1>13 DEF Return
<1>14. CASE Crash
  BY <1>14 DEF Crash, Idle
<1>15. CASE UNCHANGED vars
  BY <1>15 DEF vars, run
<1> QED
  BY <1>1, <1>2, <1>3, <1>4, <1>5, <1>6, <1>7, <1>8, <1>9, <1>10, <1>11,
     <1>12, <1>13, <1>14, <1>15
  DEF Next, Start, StartFull, StartIncremental, FreshRemoveState, Work, Flush,
      Finish

LEMMA ConfinedNext == TypeOK /\ Quiet /\ Confined /\ [Next]_vars => Confined'
<1> SUFFICES ASSUME TypeOK, Quiet, Confined, [Next]_vars PROVE Confined'
  OBVIOUS
<1> USE DEF Confined
<1>1. ASSUME NEW d \in Docs, IndexDocument(d) PROVE Confined'
  BY <1>1 DEF IndexDocument, run
<1>2. ASSUME phase \in {"idle", "clearing"}, NEW ids \in SUBSET index,
             Launch(ids), processed' \subseteq processed
      PROVE  Confined'
  BY <1>2 DEF Launch, Quiet, Running, Empty
<1>3. CASE FreshRemoveMatches
  BY <1>3 DEF FreshRemoveMatches
<1>4. ASSUME NEW w \in Workers, NEW d \in todo, PickDocument(w, d) PROVE Confined'
  BY <1>4 DEF PickDocument, run, durable, TypeOK, ThreadState
<1>5. ASSUME NEW w \in Workers, ReadFails(w) PROVE Confined'
  BY <1>5 DEF ReadFails, run, durable, TypeOK, Idle, Empty
<1>6. ASSUME NEW w \in Workers, NEW d \in docIds, PushMatches(w, d) PROVE Confined'
  BY <1>6 DEF PushMatches, run, durable, TypeOK, Idle, Empty
<1>7. ASSUME NEW t \in Threads, NEW pc, NEW b, b \in {Empty, pending, thread[t].batch},
             Goto(t, pc, b), UNCHANGED <<index, docIds>>,
             processed' \subseteq processed \cup thread[t].batch.ids,
             pending' \in {pending, Empty}
      PROVE  Confined'
  BY <1>7 DEF Goto, TypeOK, ThreadState, Empty
<1>8. ASSUME NEW t \in Threads, Flush(t) PROVE Confined'
  BY <1>7, <1>8 DEF Flush, TakePending, WriteMatchesBatch, MarkProcessedBatch,
                    SaveMetadata, FlushFails, durable, run
<1>9. CASE FinalFlush
  <2>1. Main \in Threads
    BY DEF Threads
  <2> QED BY <1>7, <1>9, <2>1 DEF FinalFlush, durable
<1>10. ASSUME NEW saved \in BOOLEAN, Return(saved) PROVE Confined'
  BY <1>10 DEF Return, durable
<1>11. CASE Crash
  BY <1>11 DEF Crash, Idle, Empty, durable
<1>12. CASE UNCHANGED vars
  BY <1>12 DEF vars, run, durable
<1> QED
  BY <1>1, <1>2, <1>3, <1>4, <1>5, <1>6, <1>8, <1>9, <1>10, <1>11, <1>12
  DEF Next, Start, StartFull, StartIncremental, FreshRemoveState, Work, Finish

LEMMA ApartNext == TypeOK /\ Quiet /\ Confined /\ Apart /\ [Next]_vars => Apart'
<1> SUFFICES ASSUME TypeOK, Quiet, Confined, Apart, [Next]_vars PROVE Apart'
  OBVIOUS
<1> USE DEF Apart, Running
<1>1. ASSUME phase' # "clearing", UNCHANGED <<docIds, stale>>,
             phase' = "idle" \/ phase \in {"running", "finishing"}
      PROVE  Apart'
  BY <1>1
<1>2. ASSUME NEW d \in Docs, IndexDocument(d) PROVE Apart'
  BY <1>2 DEF IndexDocument, run
<1>3. CASE StartFull
  BY <1>3 DEF StartFull, Launch, TypeOK
<1>4. ASSUME NEW ids \in SUBSET index, StartIncremental(ids) PROVE Apart'
  BY <1>4 DEF StartIncremental, Launch
<1>5. CASE FreshRemoveMatches
  BY <1>5 DEF FreshRemoveMatches
<1>6. ASSUME NEW ids \in SUBSET index, FreshRemoveState(ids) PROVE Apart'
  BY <1>6 DEF FreshRemoveState, Launch
<1>7. ASSUME NEW w \in Workers, Work(w) PROVE Apart'
  BY <1>7 DEF Work, PickDocument, ReadFails, PushMatches, durable, run, Quiet, Threads
<1>8. ASSUME NEW t \in Threads, Flush(t) PROVE Apart'
  BY <1>8 DEF Flush, TakePending, WriteMatchesBatch, MarkProcessedBatch,
              SaveMetadata, FlushFails, durable, run, Quiet
<1>9. CASE Finish
  BY <1>9 DEF Finish, FinalFlush, Return, durable
<1>10. CASE Crash
  BY <1>10 DEF Crash, durable
<1>11. CASE UNCHANGED vars
  BY <1>11 DEF vars, durable, run
<1> QED
  BY <1>2, <1>3, <1>4, <1>5, <1>6, <1>7, <1>8, <1>9, <1>10, <1>11 DEF Next, Start

LEMMA LocalMatchesInside ==
  ASSUME NEW d \in index, NEW ids
  PROVE  Inside(LocalMatches(d, ids))
<1> DEFINE C == {x \in index : Duplicates(d, x) /\ Compares(d, x, ids)}
<1>1. {MatchRecord(d, c) : c \in C} \subseteq index \X index
  BY DEF MatchRecord
<1> QED BY <1>1, TruncatedSubset DEF LocalMatches, Inside

LEMMA FiniteNext == TypeOK /\ Confined /\ Finite /\ [Next]_vars => Finite'
<1> SUFFICES ASSUME TypeOK, Confined, Finite, [Next]_vars PROVE Finite'
  OBVIOUS
<1>0. Inside({}) /\ Empty.matches = {}
  BY DEF Inside, Empty
<1>1. ASSUME index' = index, pending' \in {pending, Empty}, matches' \in {matches, {}},
             \A t \in Threads : thread'[t].batch \in
                {thread[t].batch, pending, Empty}
      PROVE  Finite'
  BY <1>0, <1>1 DEF Finite, Inside
<1>2. ASSUME NEW d \in Docs, IndexDocument(d) PROVE Finite'
  <2>1. IsFiniteSet(index')
    BY <1>2, FS_AddElement DEF IndexDocument, Finite
  <2>2. index \subseteq index' /\ UNCHANGED <<matches, pending, thread>>
    BY <1>2 DEF IndexDocument
  <2>3. \A E : Inside(E) => E \subseteq index' \X index'
    BY <2>2 DEF Inside
  <2> QED BY <2>1, <2>2, <2>3 DEF Finite, Inside
<1>3. CASE Start
  BY <1>1, <1>3 DEF Start, StartFull, StartIncremental, FreshRemoveMatches,
                    FreshRemoveState, Launch
<1>4. ASSUME NEW w \in Workers, NEW d \in todo, PickDocument(w, d) PROVE Finite'
  BY <1>1, <1>4 DEF PickDocument, durable, TypeOK, ThreadState
<1>5. ASSUME NEW w \in Workers, ReadFails(w) PROVE Finite'
  BY <1>1, <1>5 DEF ReadFails, durable, TypeOK, Idle
<1>6. ASSUME NEW w \in Workers, NEW d \in docIds, PushMatches(w, d) PROVE Finite'
  <2>1. Inside(LocalMatches(d, docIds))
    BY LocalMatchesInside DEF Confined
  <2>2. Inside(pending'.matches)
    BY <1>6, <2>1 DEF PushMatches, Inside, Finite
  <2>3. \A t \in Threads : thread'[t].batch \in {thread[t].batch, Empty}
    BY <1>6 DEF PushMatches, TypeOK, Idle
  <2>4. UNCHANGED <<index, matches>>
    BY <1>6 DEF PushMatches, durable
  <2> QED BY <1>0, <2>2, <2>3, <2>4 DEF Finite, Inside
<1>7. ASSUME NEW t \in Threads, NEW pc, NEW b, b \in {Empty, pending, thread[t].batch},
             Goto(t, pc, b)
      PROVE  \A u \in Threads : thread'[u].batch \in {thread[u].batch, pending, Empty}
  BY <1>7 DEF Goto, TypeOK, ThreadState
<1>8. ASSUME NEW t \in Threads, Flush(t) PROVE Finite'
  <2>1. CASE WriteMatchesBatch(t)
    <3>1. Inside(matches') /\ UNCHANGED <<index, pending>>
      BY <2>1 DEF WriteMatchesBatch, Finite, Inside
    <3>2. \A u \in Threads : thread'[u].batch \in {thread[u].batch, pending, Empty}
      BY <1>7, <2>1 DEF WriteMatchesBatch
    <3> QED BY <1>0, <3>1, <3>2 DEF Finite, Inside
  <2>2. CASE TakePending(t) \/ MarkProcessedBatch(t) \/ SaveMetadata(t) \/ FlushFails(t)
    BY <1>1, <1>7, <2>2 DEF TakePending, MarkProcessedBatch, SaveMetadata,
                            FlushFails, durable
  <2> QED BY <1>8, <2>1, <2>2 DEF Flush
<1>9. CASE Finish
  <2>1. Main \in Threads
    BY DEF Threads
  <2> QED BY <1>1, <1>7, <1>9, <2>1 DEF Finish, FinalFlush, Return, durable
<1>10. CASE Crash
  BY <1>1, <1>10 DEF Crash, durable, Idle
<1>11. CASE UNCHANGED vars
  BY <1>1, <1>11 DEF vars, durable
<1> QED
  BY <1>2, <1>3, <1>4, <1>5, <1>6, <1>8, <1>9, <1>10, <1>11 DEF Next, Work

-------------------------------------------------------------------------------

(* What a document has to contribute is fixed for the length of a run.     *)
LEMMA LocalMatchesStable ==
  ASSUME UNCHANGED <<index, docIds>>, NEW d
  PROVE  LocalMatches(d, docIds)' = LocalMatches(d, docIds)
BY DEF LocalMatches

LEMMA BackedNext ==
  TypeOK /\ Quiet /\ Confined /\ Backed /\ [Next]_vars => Backed'
<1> SUFFICES ASSUME TypeOK, Quiet, Confined, Backed, [Next]_vars,
                    Running'
             PROVE  Backed'
  BY DEF Backed
<1> USE DEF Backed
<1>1. ASSUME NEW d \in Docs, IndexDocument(d) PROVE Backed'
  BY <1>1 DEF IndexDocument, run, Running
<1>2. ASSUME phase \in {"idle", "clearing"}, NEW ids \in SUBSET index,
             Launch(ids), processed' \cap ids = {}
      PROVE  Backed'
  <2>1. \A t \in Threads : thread'[t].batch.ids = {}
    BY <1>2 DEF Launch, Quiet, Running, Empty
  <2>2. pending'.ids = {} /\ processed' \cap docIds' = {}
    BY <1>2 DEF Launch, Empty
  <2> QED BY <2>1, <2>2
<1>3. CASE FreshRemoveMatches
  BY <1>3 DEF FreshRemoveMatches, Running
<1>4. ASSUME UNCHANGED <<index, docIds, pending, matches, processed>>, Running,
             NEW t \in Threads, NEW pc \in {"idle", "comparing"}, NEW doc,
             thread' = [thread EXCEPT ![t] = [pc |-> pc, doc |-> doc, batch |-> Empty]]
      PROVE  Backed'
  BY <1>4, LocalMatchesStable DEF TypeOK, ThreadState, Empty
<1>5. ASSUME NEW w \in Workers, NEW d \in todo, PickDocument(w, d) PROVE Backed'
  <2>1. CASE UNCHANGED thread
    BY <1>5, <2>1, LocalMatchesStable DEF PickDocument, run, durable, Running
  <2>2. CASE thread' = [thread EXCEPT ![w].pc = "comparing", ![w].doc = {d}]
    <3>1. thread' = [thread EXCEPT ![w] =
                       [pc |-> "comparing", doc |-> {d}, batch |-> Empty]]
      BY <1>5, <2>2 DEF PickDocument, Quiet, Threads, TypeOK, ThreadState
    <3> QED BY <1>4, <1>5, <3>1 DEF PickDocument, run, durable, Running, Threads
  <2> QED BY <1>5, <2>1, <2>2 DEF PickDocument
<1>6. ASSUME NEW w \in Workers, ReadFails(w) PROVE Backed'
  BY <1>4, <1>6 DEF ReadFails, run, durable, Running, Idle, Threads
<1>7. ASSUME NEW w \in Workers, NEW d \in docIds, PushMatches(w, d) PROVE Backed'
  <2>1. Running /\ UNCHANGED <<index, docIds, matches, processed>>
    BY <1>7 DEF PushMatches, run, durable, Running
  <2>2. \A x : LocalMatches(x, docIds)' = LocalMatches(x, docIds)
    BY <2>1, LocalMatchesStable
  <2>3. \A t \in Threads : \/ thread'[t] = thread[t]
                           \/ thread'[t].batch.ids = {}
    BY <1>7 DEF PushMatches, TypeOK, Idle, Empty
  <2>4. \A x \in pending'.ids : LocalMatches(x, docIds) \subseteq pending'.matches
    BY <1>7, <2>1 DEF PushMatches
  <2> QED BY <2>1, <2>2, <2>3, <2>4
<1>8. ASSUME NEW t \in Threads, NEW pc, NEW b, Goto(t, pc, b), Running,
             UNCHANGED <<index, docIds>>,
             matches \subseteq matches', pending' \in {pending, Empty},
             \A d \in processed' \cap docIds : LocalMatches(d, docIds) \subseteq matches',
             \A d \in b.ids : LocalMatches(d, docIds) \subseteq
                               IF pc = "write" THEN b.matches ELSE matches'
      PROVE  Backed'
  <2>1. \A x : LocalMatches(x, docIds)' = LocalMatches(x, docIds)
    BY <1>8, LocalMatchesStable
  <2>2. \A u \in Threads \ {t} : thread'[u] = thread[u]
    BY <1>8 DEF Goto, TypeOK
  <2>3. thread'[t].pc = pc /\ thread'[t].batch = b
    BY <1>8 DEF Goto, TypeOK, ThreadState
  <2>4. \A x \in pending'.ids : LocalMatches(x, docIds) \subseteq pending'.matches
    BY <1>8 DEF Empty
  <2> QED BY <1>8, <2>1, <2>2, <2>3, <2>4
<1>9. ASSUME NEW t \in Threads, Flush(t) PROVE Backed'
  <2>0. Running /\ UNCHANGED <<index, docIds>>
    BY <1>9 DEF Flush, TakePending, WriteMatchesBatch, MarkProcessedBatch,
                SaveMetadata, FlushFails, durable, run, Running
  <2>1. CASE TakePending(t)
    BY <1>8, <2>0, <2>1 DEF TakePending, durable, run, Empty
  <2>2. CASE WriteMatchesBatch(t)
    <3>1. \A d \in thread[t].batch.ids : LocalMatches(d, docIds) \subseteq matches'
      BY <2>0, <2>2 DEF WriteMatchesBatch
    <3> QED BY <1>8, <2>0, <2>2, <3>1 DEF WriteMatchesBatch, run
  <2>3. CASE MarkProcessedBatch(t)
    BY <1>8, <2>0, <2>3 DEF MarkProcessedBatch, run, Empty
  <2>4. CASE SaveMetadata(t)
    BY <1>8, <2>0, <2>4 DEF SaveMetadata, run, durable, Empty
  <2>5. CASE FlushFails(t)
    BY <1>8, <2>0, <2>5 DEF FlushFails, run, durable, Empty
  <2> QED BY <1>9, <2>1, <2>2, <2>3, <2>4, <2>5 DEF Flush
<1>10. CASE FinalFlush
  <2>1. Main \in Threads
    BY DEF Threads
  <2> QED BY <1>8, <1>10, <2>1 DEF FinalFlush, durable, Running, Empty
<1>11. ASSUME NEW saved \in BOOLEAN, Return(saved) PROVE Backed'
  BY <1>11 DEF Return, Running
<1>12. CASE Crash
  BY <1>12 DEF Crash, Running
<1>13. CASE UNCHANGED vars
  BY <1>13, LocalMatchesStable DEF vars, run, durable, Running
<1>14. CASE Start
  <2>1. CASE StartFull
    BY <1>2, <2>1 DEF StartFull
  <2>2. ASSUME NEW ids \in SUBSET index, StartIncremental(ids) PROVE Backed'
    BY <1>2, <2>2 DEF StartIncremental
  <2>3. ASSUME NEW ids \in SUBSET index, FreshRemoveState(ids) PROVE Backed'
    BY <1>2, <2>3 DEF FreshRemoveState
  <2> QED BY <1>3, <1>14, <2>1, <2>2, <2>3 DEF Start
<1> QED
  BY <1>1, <1>5, <1>6, <1>7, <1>9, <1>10, <1>11, <1>12, <1>13, <1>14
  DEF Next, Work, Finish

-------------------------------------------------------------------------------
(* Being duplicates is symmetric, so it does not matter which of the two   *)
(* documents is compared with the other.                                   *)
LEMMA DuplicatesSymmetric ==
  ASSUME NEW a \in Docs, NEW b \in Docs, Duplicates(a, b)
  PROVE  Duplicates(b, a)
<1>1. Jaccard[b, a] = Jaccard[a, b]
  BY JaccardAssumption
<1>2. SizeWithinThreshold(Length[b], Length[a])
  BY DEF Duplicates, SizeWithinThreshold
<1> QED BY <1>1, <1>2 DEF Duplicates

-------------------------------------------------------------------------------
(* What the cap leaves out.                                                *)

(* Before orders the edges strictly, stronger edges first.                 *)
LEMMA BeforeOrder ==
  ASSUME NEW e \in Edges, NEW f \in Edges, NEW g \in Edges
  PROVE  /\ ~Before(e, e)
         /\ Before(e, f) /\ Before(f, g) => Before(e, g)
         /\ Before(e, f) => Jaccard[e] >= Jaccard[f]
<1>1. \A x \in Edges : x = <<x[1], x[2]>> /\ x[1] \in Nat /\ x[2] \in Nat
  <2>1. \A x \in Docs \X Docs : x = <<x[1], x[2]>> /\ x[1] \in Docs /\ x[2] \in Docs
    OBVIOUS
  <2> QED BY <2>1, DocsAssumption DEF Edges
<1>2. \A x \in Edges : Jaccard[x] \in Nat
  BY JaccardAssumption DEF Edges
<1>3. \A x, y \in Edges :
        Before(x, y) <=> \/ Jaccard[x] > Jaccard[y]
                         \/ Jaccard[x] = Jaccard[y] /\ x[1] < y[1]
                         \/ Jaccard[x] = Jaccard[y] /\ x[1] = y[1] /\ x[2] < y[2]
  BY <1>1 DEF Before
<1> QED BY <1>1, <1>2, <1>3

Ahead(e, E) == {f \in E : Before(f, e)}

(* An edge has fewer edges ahead of it than any edge it is ahead of.       *)
LEMMA AheadGrows ==
  ASSUME NEW E \in SUBSET Edges, IsFiniteSet(E), NEW e \in E, NEW f \in E,
         Before(e, f)
  PROVE  /\ Cardinality(Ahead(e, E)) \in Nat /\ Cardinality(Ahead(f, E)) \in Nat
         /\ Cardinality(Ahead(e, E)) < Cardinality(Ahead(f, E))
<1>1. Ahead(e, E) \subseteq Ahead(f, E)
  BY BeforeOrder DEF Ahead
<1>2. e \in Ahead(f, E) /\ e \notin Ahead(e, E)
  BY BeforeOrder DEF Ahead
<1>3. IsFiniteSet(Ahead(f, E)) /\ IsFiniteSet(Ahead(e, E))
  BY FS_Subset DEF Ahead
<1>4. Cardinality(Ahead(e, E)) \in Nat /\ Cardinality(Ahead(f, E)) \in Nat
  BY <1>3, FS_CardinalityType
<1>5. /\ Cardinality(Ahead(e, E)) <= Cardinality(Ahead(f, E))
      /\ Cardinality(Ahead(f, E)) = Cardinality(Ahead(e, E)) => Ahead(f, E) = Ahead(e, E)
  BY <1>1, <1>3, FS_Subset
<1> QED BY <1>2, <1>4, <1>5

(* A set of numbers has a least one.                                       *)
LEMMA LeastExists ==
  ASSUME NEW T \in SUBSET Nat, T # {}
  PROVE  \E m \in T : \A x \in T : m <= x
<1> DEFINE Less == {ss \in Nat \X Nat : ss[1] < ss[2]}
<1>1. IsWellFoundedOn(Less, Nat)
  BY NatLessThanWellFounded DEF OpToRel
<1> HIDE DEF Less
<1>2. PICK m \in T : \A x \in T : ~ (<<x, m>> \in Less)
  BY <1>1, WFMin
<1>3. \A x \in T : ~ (x < m)
  BY <1>2 DEF Less
<1> QED BY <1>3

(* An edge that the cap leaves out leaves a full number of edges that are  *)
(* no weaker: of the edges ahead of it with enough others ahead of them,   *)
(* take one with the fewest; all that are ahead of that one are kept.      *)
LEMMA CapKeepsEnough ==
  ASSUME NEW E \in SUBSET Edges, IsFiniteSet(E), MaxMatches # NoCap,
         NEW e \in E, e \notin Truncated(E)
  PROVE  Cardinality({f \in Truncated(E) : Jaccard[f] >= Jaccard[e]}) >= MaxMatches
<1> DEFINE L == Ahead(e, E)
           T == L \cap Truncated(E)
           K == {f \in Truncated(E) : Jaccard[f] >= Jaccard[e]}
<1>1. MaxMatches \in Nat
  BY LimitsAssumption
<1>2. Truncated(E) = {f \in E : Cardinality(Ahead(f, E)) < MaxMatches}
  BY DEF Truncated, Ahead
<1>3. \A S \in SUBSET E : IsFiniteSet(S) /\ Cardinality(S) \in Nat
  BY FS_Subset, FS_CardinalityType
<1>4. \A f \in E : Ahead(f, E) \in SUBSET E
  BY DEF Ahead
<1>5. Cardinality(L) >= MaxMatches
  BY <1>1, <1>2, <1>3, <1>4
<1>6. T \subseteq K /\ K \subseteq E
  BY <1>2, BeforeOrder DEF Ahead
<1>7. \A S \in SUBSET T : Cardinality(S) <= Cardinality(K)
  BY <1>3, <1>6, FS_Subset
<1>8. \E S \in SUBSET T : Cardinality(S) >= MaxMatches
  <2>1. CASE L \subseteq Truncated(E)
    BY <1>5, <2>1
  <2>2. CASE ~(L \subseteq Truncated(E))
    <3> DEFINE Left == L \ Truncated(E)
               Ranks == {Cardinality(Ahead(f, E)) : f \in Left}
    <3>1. Ranks \in SUBSET Nat /\ Ranks # {}
      BY <1>3, <1>4, <2>2 DEF Ahead
    <3>2. PICK m \in Ranks : \A x \in Ranks : m <= x
      BY <3>1, LeastExists
    <3>3. PICK f \in Left : m = Cardinality(Ahead(f, E))
      BY <3>2
    <3>4. f \in E /\ Before(f, e) /\ m >= MaxMatches
      BY <1>1, <1>2, <1>3, <1>4, <3>3 DEF Ahead
    <3>5. ASSUME NEW g \in Ahead(f, E) PROVE g \in T
      <4>1. g \in E /\ Before(g, f)
        BY <3>5 DEF Ahead
      <4>2. g \in L
        BY <3>4, <4>1, BeforeOrder DEF Ahead
      <4>3. Cardinality(Ahead(g, E)) \in Nat /\ m \in Nat /\ Cardinality(Ahead(g, E)) < m
        BY <3>3, <3>4, <4>1, AheadGrows
      <4>4. g \notin Left
        BY <3>2, <4>3
      <4> QED BY <4>2, <4>4
    <3> QED BY <3>3, <3>4, <3>5
  <2> QED BY <2>1, <2>2
<1>9. Cardinality(K) \in Nat
  BY <1>3, <1>6
<1>10. PICK S \in SUBSET T : Cardinality(S) >= MaxMatches
  BY <1>8
<1>11. Cardinality(S) \in Nat
  BY <1>3, <1>6
<1> QED BY <1>1, <1>7, <1>9, <1>10, <1>11

-------------------------------------------------------------------------------

(* Edges that are on record stay there as matches.redb grows.              *)
LEMMA OnRecordMonotone ==
  ASSUME matches \subseteq matches', IsFiniteSet(matches'), NEW a, NEW b,
         OnRecord(a, b)
  PROVE  OnRecord(a, b)'
<1>1. CASE Linked(a, b)
  BY <1>1 DEF Linked, OnRecord
<1>2. ASSUME NEW d \in {a, b}, Saturated(d, Jaccard[a, b])
      PROVE  OnRecord(a, b)'
  <2> DEFINE Of(E) == {e \in E : d \in {e[1], e[2]} /\ Jaccard[e] >= Jaccard[a, b]}
  <2>1. IsFiniteSet(Of(matches')) /\ Of(matches) \in SUBSET Of(matches')
    BY FS_Subset
  <2>2. /\ Cardinality(Of(matches)) \in Nat /\ Cardinality(Of(matches')) \in Nat
        /\ Cardinality(Of(matches)) <= Cardinality(Of(matches'))
    BY <2>1, FS_Subset, FS_CardinalityType
  <2>3. MaxMatches # NoCap /\ MaxMatches \in Nat /\ Cardinality(Of(matches)) >= MaxMatches
    BY <1>2, LimitsAssumption DEF Saturated
  <2>4. MaxMatches # NoCap /\ Cardinality(Of(matches')) >= MaxMatches
    <3> HIDE DEF Of
    <3> QED BY <2>2, <2>3
  <2>5. Saturated(d, Jaccard[a, b])'
    BY <2>4 DEF Saturated
  <2> QED BY <2>5 DEF OnRecord
<1> QED BY <1>1, <1>2 DEF OnRecord

LEMMA OnRecordSymmetric ==
  ASSUME NEW a \in Docs, NEW b \in Docs, OnRecord(a, b)
  PROVE  OnRecord(b, a)
<1>1. Jaccard[a, b] = Jaccard[b, a]
  BY JaccardAssumption
<1> QED BY <1>1 DEF OnRecord, Linked

LEMMA FiniteMatches == Finite => IsFiniteSet(matches)
BY FS_Product, FS_Subset DEF Finite, Inside

(* Once all that a document contributes is in matches.redb, its edge to    *)
(* every duplicate it is the one to be compared with is on record: it is   *)
(* there, or the cap has filled the document with edges no weaker.         *)
LEMMA ContributesEdge ==
  ASSUME TypeOK, Finite, NEW d \in index, NEW ids, NEW c \in index,
         Duplicates(d, c), Compares(d, c, ids),
         LocalMatches(d, ids) \subseteq matches
  PROVE  OnRecord(d, c)
<1> DEFINE E == {MatchRecord(d, x) : x \in
                   {y \in index : Duplicates(d, y) /\ Compares(d, y, ids)}}
           e == MatchRecord(d, c)
<1>1. d \in Docs /\ c \in Docs /\ e \in E /\ LocalMatches(d, ids) = Truncated(E)
  BY DEF TypeOK, LocalMatches
<1>2. E \in SUBSET Edges /\ E \in SUBSET (index \X index)
  <2>1. \A x \in index : MatchRecord(d, x) \in index \X index
    BY DEF MatchRecord
  <2> QED BY <2>1 DEF TypeOK, Edges
<1>3. IsFiniteSet(E)
  BY <1>2, FS_Product, FS_Subset DEF Finite
<1>4. \A f \in E : d \in {f[1], f[2]}
  BY DEF MatchRecord
<1>5. Jaccard[e] = Jaccard[d, c]
  BY <1>1, JaccardAssumption DEF MatchRecord
<1>6. CASE e \in Truncated(E)
  BY <1>1, <1>6 DEF MatchRecord, Linked, OnRecord
<1>7. CASE e \notin Truncated(E)
  <2>1. MaxMatches # NoCap /\ MaxMatches \in Nat
    BY <1>1, <1>7, LimitsAssumption DEF Truncated
  <2> HIDE DEF E, e
  <2> DEFINE Kept == {f \in Truncated(E) : Jaccard[f] >= Jaccard[e]}
             Have == {f \in matches : d \in {f[1], f[2]} /\ Jaccard[f] >= Jaccard[d, c]}
  <2>2. Cardinality(Kept) >= MaxMatches
    BY <1>1, <1>2, <1>3, <1>7, <2>1, CapKeepsEnough
  <2>3. Kept \in SUBSET Have
    BY <1>1, <1>4, <1>5, TruncatedSubset
  <2>4. IsFiniteSet(Have) /\ IsFiniteSet(Kept)
    BY <2>3, FiniteMatches, FS_Subset
  <2>5. /\ Cardinality(Kept) <= Cardinality(Have)
        /\ Cardinality(Kept) \in Nat /\ Cardinality(Have) \in Nat
    BY <2>3, <2>4, FS_Subset, FS_CardinalityType
  <2>6. Cardinality(Have) >= MaxMatches
    <3> HIDE DEF Kept, Have
    <3> QED BY <2>1, <2>2, <2>5
  <2> QED BY <2>1, <2>6 DEF OnRecord, Saturated
<1> QED BY <1>6, <1>7

(* The argument for resuming: of two acknowledged duplicates of the run    *)
(* the lower one has recorded the edge; of an acknowledged document of the *)
(* run and any indexed document outside it, the former has.                *)
LEMMA AcknowledgedOnRecord ==
  ASSUME TypeOK, Finite,
         NEW a \in docIds, NEW b \in index, Duplicates(a, b),
         LocalMatches(a, docIds) \subseteq matches,
         b \in docIds => LocalMatches(b, docIds) \subseteq matches,
         docIds \subseteq index
  PROVE  OnRecord(a, b) /\ OnRecord(b, a)
<1>1. a \in Nat /\ b \in Nat /\ a \in Docs /\ b \in Docs /\ a # b
  BY DocsAssumption DEF TypeOK, Duplicates
<1>2. Duplicates(b, a)
  BY <1>1, DuplicatesSymmetric
<1>3. CASE Compares(a, b, docIds)
  BY <1>1, <1>3, ContributesEdge, OnRecordSymmetric
<1>4. CASE b \in docIds /\ b < a
  <2>1. Compares(b, a, docIds)
    BY <1>4 DEF Compares
  <2> QED BY <1>1, <1>2, <1>4, <2>1, ContributesEdge, OnRecordSymmetric
<1> QED BY <1>1, <1>3, <1>4 DEF Compares

LEMMA CoversNext ==
  TypeOK /\ Quiet /\ Confined /\ Finite /\ Backed /\ CheckpointCovers
    /\ Finite' /\ [Next]_vars
  => CheckpointCovers'
<1> SUFFICES ASSUME TypeOK, Quiet, Confined, Finite, Backed, CheckpointCovers,
                    Finite', [Next]_vars
             PROVE  CheckpointCovers'
  OBVIOUS
<1>1. ASSUME matches \subseteq matches', processed' \subseteq processed,
             stale \cap processed' \subseteq stale'
      PROVE  CheckpointCovers'
  <2>1. IsFiniteSet(matches')
    BY FS_Product, FS_Subset DEF Finite, Inside
  <2>2. SUFFICES ASSUME NEW a \in processed', NEW b \in processed', Duplicates(a, b),
                        ~({a, b} \subseteq stale')
                 PROVE  OnRecord(a, b)'
    BY DEF CheckpointCovers
  <2>3. OnRecord(a, b)
    BY <1>1, <2>2 DEF CheckpointCovers
  <2> QED BY <1>1, <2>1, <2>3, OnRecordMonotone
<1>2. ASSUME NEW d \in Docs, IndexDocument(d) PROVE CheckpointCovers'
  BY <1>1, <1>2 DEF IndexDocument
<1>3. CASE Start
  <2>1. CASE StartFull
    BY <1>1, <2>1 DEF StartFull
  <2>2. ASSUME NEW ids \in SUBSET index, StartIncremental(ids) PROVE CheckpointCovers'
    BY <1>1, <2>2 DEF StartIncremental
  <2>3. CASE FreshRemoveMatches
    BY <2>3 DEF FreshRemoveMatches, CheckpointCovers
  <2>4. ASSUME NEW ids \in SUBSET index, FreshRemoveState(ids) PROVE CheckpointCovers'
    BY <1>1, <2>4 DEF FreshRemoveState
  <2> QED BY <1>3, <2>1, <2>2, <2>3, <2>4 DEF Start
<1>4. ASSUME NEW w \in Workers, Work(w) PROVE CheckpointCovers'
  BY <1>1, <1>4 DEF Work, PickDocument, ReadFails, PushMatches, durable, run
<1>5. ASSUME NEW t \in Threads, Flush(t) PROVE CheckpointCovers'
  <2>1. CASE MarkProcessedBatch(t)
    <3> SUFFICES ASSUME NEW a \in processed', NEW b \in processed',
                        Duplicates(a, b), ~({a, b} \subseteq stale)
                 PROVE  OnRecord(a, b)
      <4>1. matches' = matches /\ stale' = stale
        BY <2>1 DEF MarkProcessedBatch
      <4>2. \A a, b : OnRecord(a, b) => OnRecord(a, b)'
        BY <4>1 DEF OnRecord, Linked, Saturated
      <4> QED BY <4>1, <4>2 DEF CheckpointCovers
    <3>1. Running
      BY <2>1 DEF MarkProcessedBatch, Quiet
    <3>2. \A d \in processed' \cap docIds : LocalMatches(d, docIds) \subseteq matches
      BY <2>1, <3>1 DEF MarkProcessedBatch, Backed
    <3>3. processed' \subseteq index /\ docIds \subseteq index
      BY <2>1 DEF MarkProcessedBatch, Confined
    <3>4. a \in Docs /\ b \in Docs
      BY <3>3 DEF TypeOK
    <3>5. CASE a \in docIds
      BY <3>2, <3>3, <3>5, AcknowledgedOnRecord
    <3>6. CASE b \in docIds
      BY <3>2, <3>3, <3>4, <3>6, AcknowledgedOnRecord, DuplicatesSymmetric
    <3>7. CASE a \notin docIds /\ b \notin docIds
      BY <2>1, <3>1, <3>7 DEF MarkProcessedBatch, Confined, CheckpointCovers
    <3> QED BY <3>5, <3>6, <3>7
  <2>2. CASE TakePending(t) \/ WriteMatchesBatch(t) \/ SaveMetadata(t) \/ FlushFails(t)
    BY <1>1, <2>2 DEF TakePending, WriteMatchesBatch, SaveMetadata, FlushFails,
                      durable, run
  <2> QED BY <1>5, <2>1, <2>2 DEF Flush
<1>6. CASE Finish
  BY <1>1, <1>6 DEF Finish, FinalFlush, Return, durable
<1>7. CASE Crash
  BY <1>1, <1>7 DEF Crash, durable
<1>8. CASE UNCHANGED vars
  BY <1>1, <1>8 DEF vars, durable, run
<1> QED
  BY <1>2, <1>3, <1>4, <1>5, <1>6, <1>7, <1>8 DEF Next

(* The strengthening of the checkpoint property that every step preserves. *)
IInv ==
  TypeOK /\ Quiet /\ Confined /\ Finite /\ Backed /\ Apart /\ CheckpointCovers

LEMMA InitIInv == Init => IInv
<1> SUFFICES ASSUME Init PROVE IInv
  OBVIOUS
<1>1. TypeOK
  BY InitType
<1>2. Quiet
  BY DEF Init, Quiet, Idle
<1>3. Confined
  BY DEF Init, Confined, Idle, Empty
<1>4. Backed
  BY DEF Init, Backed, Running
<1>5. CheckpointCovers
  BY DEF Init, CheckpointCovers
<1>6. Finite
  BY FS_EmptySet DEF Init, Finite, Inside, Idle, Empty
<1>7. Apart
  BY DEF Init, Apart, Running
<1> QED BY <1>1, <1>2, <1>3, <1>4, <1>5, <1>6, <1>7 DEF IInv

LEMMA InductiveInvariant == Spec => []IInv
<1>1. IInv /\ [Next]_vars => IInv'
  BY NextType, QuietNext, ConfinedNext, FiniteNext, BackedNext,
     ApartNext, CoversNext DEF IInv
<1> QED BY InitIInv, <1>1, PTL DEF Spec

(* Two duplicates that state.redb acknowledges have their edge in          *)
(* matches.redb, or one of them has as many edges as the cap allows, none  *)
(* of them weaker; only two that both were acknowledged before a fresh run *)
(* died between its deletions are excepted.                                *)
THEOREM CheckpointIsCovered == Spec => []CheckpointCovers
<1>1. IInv => CheckpointCovers
  BY DEF IInv
<1> QED BY InductiveInvariant, <1>1, PTL

-------------------------------------------------------------------------------
(* The adjacency side-index.                                               *)

(* Writing a batch and its new entries together keeps the index exact.     *)
LEMMA AdjacencyOfUnion ==
  ASSUME NEW E, NEW B
  PROVE  AdjacencyEntries(E) \cup AdjacencyEntries(B \ E) = AdjacencyEntries(E \cup B)
BY DEF AdjacencyEntries

LEMMA AdjacencyNext == AdjacencyNeverDiverges /\ [Next]_vars => AdjacencyNeverDiverges'
<1> SUFFICES ASSUME AdjacencyNeverDiverges, [Next]_vars PROVE AdjacencyNeverDiverges'
  OBVIOUS
<1> USE DEF AdjacencyNeverDiverges
<1>1. CASE UNCHANGED <<matches, adjacency>>
  BY <1>1
<1>2. CASE FreshRemoveMatches
  BY <1>2 DEF FreshRemoveMatches, AdjacencyEntries
<1>3. ASSUME NEW t \in Threads, WriteMatchesBatch(t) PROVE AdjacencyNeverDiverges'
  BY <1>3, AdjacencyOfUnion DEF WriteMatchesBatch
<1>4. [Next]_vars => \/ UNCHANGED <<matches, adjacency>>
                     \/ FreshRemoveMatches
                     \/ \E t \in Threads : WriteMatchesBatch(t)
  BY DEF Next, vars, durable, run, IndexDocument, Start, StartFull,
         StartIncremental, FreshRemoveState, Launch, Work, PickDocument,
         ReadFails, PushMatches, Flush, TakePending, MarkProcessedBatch,
         SaveMetadata, FlushFails, Finish, FinalFlush, Return, Crash
<1> QED BY <1>1, <1>2, <1>3, <1>4

(* The side-index and the edges it is derived from agree in every state a  *)
(* crash can leave behind, with or without a cap.                          *)
THEOREM AdjacencyIsExact == Spec => []AdjacencyNeverDiverges
<1>1. Init => AdjacencyNeverDiverges
  BY DEF Init, AdjacencyNeverDiverges, AdjacencyEntries
<1> QED BY <1>1, AdjacencyNext, PTL DEF Spec

-------------------------------------------------------------------------------
(* Completeness of a successful run.                                       *)

LEMMA AccountedNext ==
  TypeOK /\ Quiet /\ Confined /\ Accounted /\ [Next]_vars => Accounted'
<1> SUFFICES ASSUME TypeOK, Quiet, Confined, Accounted, [Next]_vars,
                    Running', ~failed',
                    NEW x \in docIds'
             PROVE  InHand(x)'
  BY DEF Accounted
<1>1. ASSUME NEW d \in Docs, IndexDocument(d) PROVE InHand(x)'
  BY <1>1 DEF IndexDocument, run, Running, Accounted, InHand
<1>2. ASSUME NEW ids, Launch(ids) PROVE InHand(x)'
  BY <1>2 DEF Launch, InHand
<1>3. CASE FreshRemoveMatches
  BY <1>3 DEF FreshRemoveMatches, Running
<1>4. ASSUME UNCHANGED <<docIds, failed>>, Running PROVE InHand(x)
  BY <1>4 DEF Accounted
<1>5. ASSUME NEW w \in Workers, NEW d \in todo, PickDocument(w, d) PROVE InHand(x)'
  <2>1. InHand(x) /\ w \in Threads
    BY <1>4, <1>5 DEF PickDocument, run, Running, Threads
  <2>2. thread' = [thread EXCEPT ![w].pc = "comparing", ![w].doc = {d}]
    BY <1>5 DEF PickDocument
  <2>3. d \in thread'[w].doc
    BY <2>1, <2>2 DEF TypeOK, ThreadState
  <2>4. \A t \in Threads : thread[t].doc \cup thread[t].batch.ids
                            \subseteq thread'[t].doc \cup thread'[t].batch.ids
    BY <1>5, <2>2 DEF PickDocument, TypeOK, ThreadState, Quiet, Threads
  <2> QED BY <1>5, <2>1, <2>3, <2>4 DEF PickDocument, InHand, durable
<1>6. ASSUME NEW w \in Workers, ReadFails(w) PROVE InHand(x)'
  BY <1>6 DEF ReadFails
<1>7. ASSUME NEW w \in Workers, NEW d \in docIds, PushMatches(w, d) PROVE InHand(x)'
  <2>1. InHand(x)
    BY <1>4, <1>7 DEF PushMatches, run, Running
  <2>2. pending'.ids = pending.ids \cup {d}
    BY <1>7 DEF PushMatches
  <2>3. \A t \in Threads \ {w} : thread'[t] = thread[t]
    BY <1>7 DEF PushMatches, TypeOK
  <2>4. thread[w].doc \cup thread[w].batch.ids \subseteq {d}
    BY <1>7 DEF PushMatches, Quiet, Threads, Empty
  <2> QED BY <1>7, <2>1, <2>2, <2>3, <2>4 DEF PushMatches, InHand, durable
<1>8. ASSUME NEW t \in Threads, TakePending(t) PROVE InHand(x)'
  <2>1. InHand(x)
    BY <1>4, <1>8 DEF TakePending, run, Running
  <2>2. \A u \in Threads \ {t} : thread'[u] = thread[u]
    BY <1>8 DEF TakePending, Goto, TypeOK
  <2>3. thread[t].doc = {} /\ thread[t].batch.ids = {}
    BY <1>8 DEF TakePending, Quiet, Empty
  <2>4. pending.ids \subseteq thread'[t].batch.ids
    BY <1>8 DEF TakePending, Goto, TypeOK, ThreadState, Empty
  <2> QED BY <1>8, <2>1, <2>2, <2>3, <2>4 DEF TakePending, InHand, durable
<1>9. ASSUME NEW t \in Threads, WriteMatchesBatch(t) PROVE InHand(x)'
  <2>1. InHand(x)
    BY <1>4, <1>9 DEF WriteMatchesBatch, run, Running
  <2>2. \A u \in Threads : thread'[u].doc = thread[u].doc /\ thread'[u].batch = thread[u].batch
    BY <1>9 DEF WriteMatchesBatch, Goto, TypeOK, ThreadState
  <2> QED BY <1>9, <2>1, <2>2 DEF WriteMatchesBatch, InHand
<1>10. ASSUME NEW t \in Threads, MarkProcessedBatch(t) PROVE InHand(x)'
  <2>1. InHand(x)
    BY <1>4, <1>10 DEF MarkProcessedBatch, run, Running
  <2>2. \A u \in Threads \ {t} : thread'[u] = thread[u]
    BY <1>10 DEF MarkProcessedBatch, Goto, TypeOK
  <2>3. thread[t].doc = {}
    BY <1>10 DEF MarkProcessedBatch, Quiet
  <2> QED BY <1>10, <2>1, <2>2, <2>3 DEF MarkProcessedBatch, InHand
<1>11. ASSUME NEW t \in Threads, SaveMetadata(t) PROVE InHand(x)'
  <2>1. InHand(x)
    BY <1>4, <1>11 DEF SaveMetadata, run, Running
  <2>2. \A u \in Threads \ {t} : thread'[u] = thread[u]
    BY <1>11 DEF SaveMetadata, Goto, TypeOK
  <2>3. thread[t].doc = {} /\ thread[t].batch.ids = {}
    BY <1>11 DEF SaveMetadata, Quiet, Empty
  <2> QED BY <1>11, <2>1, <2>2, <2>3 DEF SaveMetadata, InHand, durable
<1>12. ASSUME NEW t \in Threads, FlushFails(t) PROVE InHand(x)'
  BY <1>12 DEF FlushFails
<1>13. CASE FinalFlush
  <2>1. InHand(x)
    BY <1>4, <1>13 DEF FinalFlush, Running
  <2>2. \A u \in Threads : thread[u].doc = {} /\ thread[u].batch.ids = {}
    BY <1>13 DEF FinalFlush, Quiet, Empty
  <2> QED BY <1>13, <2>1, <2>2 DEF FinalFlush, InHand, durable
<1>14. ASSUME NEW saved \in BOOLEAN, Return(saved) PROVE InHand(x)'
  BY <1>14 DEF Return, Running
<1>15. CASE Crash
  BY <1>15 DEF Crash, Running
<1>16. CASE UNCHANGED vars
  BY <1>4, <1>16 DEF vars, durable, run, Running, InHand
<1> QED
  BY <1>1, <1>2, <1>3, <1>5, <1>6, <1>7, <1>8, <1>9, <1>10, <1>11, <1>12,
     <1>13, <1>14, <1>15, <1>16
  DEF Next, Start, StartFull, StartIncremental, FreshRemoveState, Work, Flush,
      Finish

(* When Main has flushed and nothing failed, everything is acknowledged.   *)
LEMMA SuccessStep ==
  ASSUME IInv, Accounted, Next,
         phase = "finishing", phase' = "idle", outcome' = "ok"
  PROVE  /\ docIds \subseteq processed'
         /\ \A d \in docIds, c \in index : Duplicates(d, c) => OnRecord(d, c)'
<1> USE DEF IInv
<1>1. PICK saved \in BOOLEAN : Return(saved)
  BY DEF Next, Start, StartFull, StartIncremental, FreshRemoveMatches,
         FreshRemoveState, IndexDocument, Work, PickDocument, ReadFails,
         PushMatches, Flush, TakePending, WriteMatchesBatch,
         MarkProcessedBatch, SaveMetadata, FlushFails, Finish, FinalFlush,
         Crash, run
<1>2. ~failed /\ Running
  BY <1>1 DEF Return, Running
<1>3. pending.ids = {} /\ todo = {}
  BY <1>1 DEF Return, Quiet, Empty
<1>4. \A t \in Threads : thread[t].doc = {} /\ thread[t].batch.ids = {}
  BY <1>1 DEF Return, Quiet, Threads, Empty
<1>5. docIds \subseteq processed
  BY <1>2, <1>3, <1>4 DEF Accounted, InHand
<1>6. ASSUME NEW d \in docIds, NEW c \in index, Duplicates(d, c)
      PROVE  OnRecord(d, c)
  BY <1>2, <1>5, <1>6, AcknowledgedOnRecord DEF Backed, Confined
<1>7. UNCHANGED <<processed, matches>>
  BY <1>1 DEF Return, durable
<1>8. ASSUME NEW d \in docIds, NEW c \in index, Duplicates(d, c)
      PROVE  OnRecord(d, c)'
  BY <1>6, <1>7, <1>8 DEF OnRecord, Linked, Saturated
<1> QED BY <1>5, <1>7, <1>8

(* A run that reports success has acknowledged every document it was given *)
(* and recorded all their indexed duplicates, up to the cap.               *)
THEOREM SuccessfulRunIsComplete == Spec => SuccessIsComplete
<1>1. Init => Accounted
  BY DEF Init, Accounted, Running
<1>2. IInv /\ Accounted /\ [Next]_vars => Accounted'
  BY AccountedNext DEF IInv
<1>3. IInv /\ Accounted /\ [Next]_vars =>
        [phase = "finishing" /\ phase' = "idle" /\ outcome' = "ok" =>
           /\ docIds \subseteq processed'
           /\ \A d \in docIds, c \in index : Duplicates(d, c) => OnRecord(d, c)']_vars
  BY SuccessStep
<1> QED BY <1>1, <1>2, <1>3, InductiveInvariant, PTL DEF Spec, SuccessIsComplete

-------------------------------------------------------------------------------
(* Refinement of the ledger.                                               *)

(* Nothing but edges between duplicates is ever buffered or written.       *)
GenuineEdges(E) == \A e \in E : {e[1], e[2]} \in DuplicatePairs

Genuine ==
  /\ GenuineEdges(matches)
  /\ GenuineEdges(pending.matches)
  /\ \A t \in Threads : GenuineEdges(thread[t].batch.matches)

LEMMA LocalMatchesGenuine ==
  ASSUME TypeOK, NEW d \in Docs, NEW ids
  PROVE  GenuineEdges(LocalMatches(d, ids))
<1> DEFINE C == {x \in index : Duplicates(d, x) /\ Compares(d, x, ids)}
<1>1. ASSUME NEW c \in C
      PROVE  {MatchRecord(d, c)[1], MatchRecord(d, c)[2]} \in DuplicatePairs
  <2>1. {MatchRecord(d, c)[1], MatchRecord(d, c)[2]} = {d, c}
    BY DEF MatchRecord
  <2>2. c \in Docs /\ Duplicates(d, c)
    BY DEF TypeOK
  <2> QED BY <2>1, <2>2 DEF DuplicatePairs
<1>2. LocalMatches(d, ids) \subseteq {MatchRecord(d, c) : c \in C}
  BY TruncatedSubset DEF LocalMatches
<1> QED BY <1>1, <1>2 DEF GenuineEdges

LEMMA GenuineNext == TypeOK /\ Genuine /\ [Next]_vars => Genuine'
<1> SUFFICES ASSUME TypeOK, Genuine, [Next]_vars PROVE Genuine'
  OBVIOUS
<1>0. GenuineEdges({}) /\ Empty.matches = {}
  BY DEF GenuineEdges, Empty
<1>1. ASSUME pending' \in {pending, Empty}, matches' \in {matches, {}},
             \A t \in Threads : thread'[t].batch \in
                {thread[t].batch, pending, Empty}
      PROVE  Genuine'
  BY <1>0, <1>1 DEF Genuine
<1>2. ASSUME NEW d \in Docs, IndexDocument(d) PROVE Genuine'
  BY <1>1, <1>2 DEF IndexDocument
<1>3. CASE Start
  BY <1>1, <1>3 DEF Start, StartFull, StartIncremental, FreshRemoveMatches,
                    FreshRemoveState, Launch
<1>4. ASSUME NEW w \in Workers, NEW d \in todo, PickDocument(w, d) PROVE Genuine'
  BY <1>1, <1>4 DEF PickDocument, durable, TypeOK, ThreadState
<1>5. ASSUME NEW w \in Workers, ReadFails(w) PROVE Genuine'
  BY <1>1, <1>5 DEF ReadFails, durable, TypeOK, Idle
<1>6. ASSUME NEW w \in Workers, NEW d \in docIds, PushMatches(w, d) PROVE Genuine'
  <2>1. GenuineEdges(LocalMatches(d, docIds))
    BY LocalMatchesGenuine DEF TypeOK
  <2>2. GenuineEdges(pending'.matches)
    BY <1>6, <2>1 DEF PushMatches, GenuineEdges, Genuine
  <2>3. \A t \in Threads : thread'[t].batch \in {thread[t].batch, Empty}
    BY <1>6 DEF PushMatches, TypeOK, Idle
  <2> QED BY <1>0, <1>6, <2>2, <2>3 DEF PushMatches, Genuine, durable
<1>7. ASSUME NEW t \in Threads, NEW pc, NEW b, b \in {Empty, pending, thread[t].batch},
             Goto(t, pc, b)
      PROVE  \A u \in Threads : thread'[u].batch \in {thread[u].batch, pending, Empty}
  BY <1>7 DEF Goto, TypeOK, ThreadState
<1>8. ASSUME NEW t \in Threads, Flush(t) PROVE Genuine'
  <2>1. CASE WriteMatchesBatch(t)
    <3>1. GenuineEdges(matches')
      BY <2>1 DEF WriteMatchesBatch, Genuine, GenuineEdges
    <3> QED BY <1>0, <1>7, <2>1, <3>1 DEF WriteMatchesBatch, Genuine
  <2>2. CASE TakePending(t) \/ MarkProcessedBatch(t) \/ SaveMetadata(t) \/ FlushFails(t)
    BY <1>1, <1>7, <2>2 DEF TakePending, MarkProcessedBatch, SaveMetadata,
                            FlushFails, durable
  <2> QED BY <1>8, <2>1, <2>2 DEF Flush
<1>9. CASE Finish
  <2>1. Main \in Threads
    BY DEF Threads
  <2> QED BY <1>1, <1>7, <1>9, <2>1 DEF Finish, FinalFlush, Return, durable
<1>10. CASE Crash
  BY <1>1, <1>10 DEF Crash, durable, Idle
<1>11. CASE UNCHANGED vars
  BY <1>1, <1>11 DEF vars, durable
<1> QED
  BY <1>2, <1>3, <1>4, <1>5, <1>6, <1>8, <1>9, <1>10, <1>11 DEF Next, Work

LEMMA RefinementStep ==
  ASSUME MaxMatches = NoCap, IInv, Apart', CheckpointCovers',
         TypeOK', Genuine, [Next]_vars
  PROVE  [Ledger!Next]_(Ledger!vars)
<1> USE DEF Ledger!vars, Ledger!Next
<1>1. ASSUME UNCHANGED <<matches, processed, stale>> PROVE UNCHANGED Ledger!vars
  BY <1>1
<1>2. ASSUME NEW d \in Docs, IndexDocument(d) PROVE UNCHANGED Ledger!vars
  BY <1>1, <1>2 DEF IndexDocument
<1>3. CASE StartFull
  BY <1>1, <1>3 DEF StartFull
<1>4. ASSUME NEW ids \in SUBSET index, StartIncremental(ids) PROVE Ledger!Reopen
  BY <1>4 DEF StartIncremental, Ledger!Reopen
<1>5. CASE FreshRemoveMatches
  <2>1. {{e[1], e[2]} : e \in matches'} = {}
    BY <1>5 DEF FreshRemoveMatches
  <2> QED BY <1>5, <2>1 DEF FreshRemoveMatches, Ledger!Discard
<1>6. ASSUME NEW ids \in SUBSET index, FreshRemoveState(ids) PROVE UNCHANGED Ledger!vars
  BY <1>6 DEF FreshRemoveState, IInv, Apart
<1>7. ASSUME NEW w \in Workers, Work(w) PROVE UNCHANGED Ledger!vars
  <2>1. UNCHANGED <<matches, processed, stale>>
    BY <1>7 DEF Work, PickDocument, ReadFails, PushMatches, durable
  <2> QED BY <2>1
<1>8. ASSUME NEW t \in Threads, Flush(t), ~WriteMatchesBatch(t), ~MarkProcessedBatch(t)
      PROVE  UNCHANGED Ledger!vars
  <2>1. UNCHANGED <<matches, processed, stale>>
    BY <1>8 DEF Flush, TakePending, SaveMetadata, FlushFails, durable
  <2> QED BY <2>1
<1>9. ASSUME NEW t \in Threads, WriteMatchesBatch(t) PROVE Ledger!Record
  <2>1. UNCHANGED <<processed, stale>> /\ matches \subseteq matches'
    BY <1>9 DEF WriteMatchesBatch
  <2>2. GenuineEdges(matches')
    BY <1>9 DEF WriteMatchesBatch, Genuine, GenuineEdges
  <2> QED BY <2>1, <2>2 DEF Ledger!Record, GenuineEdges
<1>10. ASSUME NEW t \in Threads, MarkProcessedBatch(t) PROVE Ledger!Settle
  <2>1. matches' = matches /\ stale' = stale
    BY <1>10 DEF MarkProcessedBatch
  <2>2. processed \subseteq processed' /\ processed' \subseteq Docs
    BY <1>10 DEF MarkProcessedBatch, TypeOK
  <2>3. ASSUME NEW p \in DuplicatePairs, p \subseteq processed' \ stale
        PROVE  p \in {{e[1], e[2]} : e \in matches}
    <3>1. PICK a, b \in Docs : p = {a, b} /\ Duplicates(a, b)
      BY <2>3 DEF DuplicatePairs
    <3>2. Linked(a, b)'
      BY <2>1, <2>3, <3>1, LimitsAssumption DEF CheckpointCovers, OnRecord, Saturated
    <3>3. <<a, b>> \in matches \/ <<b, a>> \in matches
      BY <2>1, <3>2 DEF Linked
    <3> QED BY <3>1, <3>3
  <2> QED BY <2>1, <2>2, <2>3 DEF Ledger!Settle, Ledger!Settled
<1>11. CASE Finish
  BY <1>1, <1>11 DEF Finish, FinalFlush, Return, durable
<1>12. CASE Crash
  BY <1>1, <1>12 DEF Crash, durable
<1>13. CASE UNCHANGED vars
  BY <1>13 DEF vars, durable, run
<1> QED
  BY <1>2, <1>3, <1>4, <1>5, <1>6, <1>7, <1>8, <1>9, <1>10, <1>11, <1>12, <1>13
  DEF Next, Start

(* Without a cap Phase 2 implements the ledger of settled documents.       *)
THEOREM ImplementsLedger ==
  ASSUME MaxMatches = NoCap
  PROVE  Spec => LedgerSpec
<1>1. Init => Ledger!Init
  <2>1. Init => {{e[1], e[2]} : e \in matches} = {}
    BY DEF Init
  <2> QED BY <2>1 DEF Init, Ledger!Init
<1>2. Init => Genuine
  BY DEF Init, Genuine, GenuineEdges, Idle, Empty
<1>3. IInv /\ Genuine /\ [Next]_vars => Genuine'
  BY GenuineNext DEF IInv
<1>4. IInv /\ IInv' /\ Genuine /\ [Next]_vars => [Ledger!Next]_(Ledger!vars)
  BY RefinementStep DEF IInv
<1> QED BY <1>1, <1>2, <1>3, <1>4, InductiveInvariant, PTL
        DEF Spec, LedgerSpec, Ledger!Spec

===============================================================================
