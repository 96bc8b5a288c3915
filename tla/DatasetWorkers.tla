---------------------------- MODULE DatasetWorkers ----------------------------
(***************************************************************************)
(* Several processes run `--daemon' over the datasets of one table         *)
(* (src/main.rs, src/db/mod.rs): list the datasets with unprocessed        *)
(* documents, and for one after the other respect the backoff, probe,      *)
(* take the dataset's advisory lock, run the pipeline, release the lock.   *)
(*                                                                         *)
(* The lock lives on a connection of its own.  If that breaks, the server  *)
(* frees the lock as soon as it notices; the worker does not notice before *)
(* the run is over.                                                        *)
(* A document may belong to several datasets.  The sidecars of a dataset   *)
(* are in a directory of its own, so that runs over different datasets do  *)
(* not meet there.                                                         *)
(*                                                                         *)
(* `health' is what the database answers for a dataset, as in Daemon; it   *)
(* is "down" for all of them or for none.  A backoff is "on" until it is   *)
(* "over", at any time.  Not modelled: --run-once and --skip-db-write      *)
(* (they are in Daemon) and what a run does inside (IncrementalRun).       *)
(***************************************************************************)
EXTENDS Naturals, FiniteSets, Sequences, Functions

CONSTANTS
  Workers, Datasets, Docs,
  In,         \* the pairs of a document and a dataset it belongs to
  Weather,    \* the combinations of health that may occur
  Nobody,     \* holder of a free lock
  Ghost,      \* holder of a lock whose connection has broken unnoticed
  MaxTrouble  \* bound: lost connections and dead workers

Conditions == {"ok", "corrupt", "failing", "down"}

ASSUME MembershipAssumption == In \subseteq Docs \X Datasets /\ IsFiniteSet(Datasets)
ASSUME WeatherAssumption ==
  \A h \in Weather : /\ h \in [Datasets -> Conditions]
                     /\ \A d, e \in Datasets : h[d] = "down" => h[e] = "down"
ASSUME NobodyAssumption == /\ Nobody \notin Workers /\ Ghost \notin Workers /\ Nobody # Ghost
                           /\ MaxTrouble \in Nat

VARIABLES
  is_null,  \* the documents whose is_parent is NULL
  arrived,  \* the documents inserted so far
  health,
  holder,   \* of the advisory lock of each dataset
  pc,       \* where each worker is
  todo,     \* what is left of the list of this pass
  backoff,  \* search_index_backoff_until, per worker and dataset
  batch,    \* the documents a run has fetched
  guard,    \* does the connection of the worker's lock stand?
  trouble

world  == <<is_null, arrived, health>>
vars   == <<world, holder, pc, todo, backoff, batch, guard, trouble>>

Unprocessed(d) == {x \in is_null : <<x, d>> \in In}

Init ==
  /\ is_null = {} /\ arrived = {} /\ health \in Weather
  /\ holder = [d \in Datasets |-> Nobody]
  /\ pc = [w \in Workers |-> "listing"]
  /\ todo = [w \in Workers |-> <<>>]
  /\ backoff = [w \in Workers |-> [d \in Datasets |-> "none"]]
  /\ batch = [w \in Workers |-> {}]
  /\ guard = [w \in Workers |-> "none"]
  /\ trouble = 0

-------------------------------------------------------------------------------
(* One worker.                                                             *)

(* get_datasets_with_unprocessed, the longest queue first.                 *)
Lists(datasets) ==
  {list \in [1..Cardinality(datasets) -> datasets] :
     /\ Range(list) = datasets
     /\ \A i, j \in DOMAIN list :
          i < j => Cardinality(Unprocessed(list[i])) >= Cardinality(Unprocessed(list[j]))}

ListDatasets(w) ==
  /\ pc[w] = "listing"
  /\ IF \E d \in Datasets : health[d] = "down"
     THEN pc' = [pc EXCEPT ![w] = "sleeping"] /\ UNCHANGED todo
     ELSE /\ \E list \in Lists({d \in Datasets : Unprocessed(d) # {}}) :
               todo' = [todo EXCEPT ![w] = list]
          /\ pc' = [pc EXCEPT ![w] = "choosing"]
  /\ UNCHANGED <<world, holder, backoff, batch, guard, trouble>>

(* Mutant: goes on to the next dataset without looking at its backoff.     *)
ContinueWithProbe(w) == /\ todo' = [todo EXCEPT ![w] = Tail(@)]
                        /\ pc' = [pc EXCEPT ![w] = "probing"]

(* continue: the next dataset of this pass.                                *)
Continue(w) == /\ todo' = [todo EXCEPT ![w] = Tail(@)]
               /\ pc' = [pc EXCEPT ![w] = "choosing"]

Choose(w) ==
  /\ pc[w] = "choosing"
  /\ todo[w] # <<>>
  /\ CASE backoff[w][Head(todo[w])] = "none" -> pc' = [pc EXCEPT ![w] = "probing"] /\ UNCHANGED todo
       [] backoff[w][Head(todo[w])] = "on"   -> Continue(w)
       [] backoff[w][Head(todo[w])] = "over" -> pc' = [pc EXCEPT ![w] = "reprobing"] /\ UNCHANGED todo
  /\ UNCHANGED <<world, holder, backoff, batch, guard, trouble>>

BackOff(w, d, state) == backoff' = [backoff EXCEPT ![w][d] = state]

(* probe_is_parent_update_path has nothing to try, and is content, when    *)
(* the dataset has no unprocessed document any more.                       *)
ProbeAnswer(d) ==
  IF health[d] = "corrupt" /\ Unprocessed(d) = {} THEN "ok" ELSE health[d]

(* The probe after a backoff: only a success lifts it.                     *)
ProbeAfterBackoff(w) ==
  LET d == Head(todo[w])
  IN  /\ pc[w] = "reprobing"
      /\ CASE ProbeAnswer(d) = "ok" -> /\ BackOff(w, d, "none")
                                       /\ pc' = [pc EXCEPT ![w] = "probing"]
                                       /\ UNCHANGED todo
           [] ProbeAnswer(d) = "corrupt" -> BackOff(w, d, "on") /\ Continue(w)
           [] OTHER -> Continue(w) /\ UNCHANGED backoff
      /\ UNCHANGED <<world, holder, batch, guard, trouble>>

(* The probe before each run.                                              *)
Probe(w) ==
  LET d == Head(todo[w])
  IN  /\ pc[w] = "probing"
      /\ CASE ProbeAnswer(d) = "ok" -> /\ pc' = [pc EXCEPT ![w] = "locking"]
                                       /\ UNCHANGED <<todo, backoff>>
           [] ProbeAnswer(d) = "corrupt" -> BackOff(w, d, "on") /\ Continue(w)
           [] OTHER -> Continue(w) /\ UNCHANGED backoff
      /\ UNCHANGED <<world, holder, batch, guard, trouble>>

(* Mutant: the answer to pg_try_advisory_xact_lock is not looked at.       *)
TryAcquireLockUnchecked(w) ==
  LET d == Head(todo[w])
  IN  /\ pc[w] = "locking"
      /\ holder' = [holder EXCEPT ![d] = w]
      /\ guard' = [guard EXCEPT ![w] = "held"]
      /\ pc' = [pc EXCEPT ![w] = "starting"]
      /\ UNCHANGED <<world, todo, backoff, batch, trouble>>

(* Another holder, or no connection: on to the next dataset.               *)
TryAcquireLock(w) ==
  LET d == Head(todo[w])
  IN  /\ pc[w] = "locking"
      /\ IF holder[d] = Nobody /\ health[d] # "down"
         THEN /\ holder' = [holder EXCEPT ![d] = w]
              /\ guard' = [guard EXCEPT ![w] = "held"]
              /\ pc' = [pc EXCEPT ![w] = "starting"]
              /\ UNCHANGED todo
         ELSE Continue(w) /\ UNCHANGED <<holder, guard>>
      /\ UNCHANGED <<world, backoff, batch, trouble>>

(* run_dedupe fetches the unprocessed documents when it starts, long after *)
(* the dataset was put on the list.  It reads them page by page, and so    *)
(* comes to see some of the documents that are inserted meanwhile.         *)
StartRun(w) ==
  /\ pc[w] = "starting"
  /\ batch' = [batch EXCEPT ![w] = Unprocessed(Head(todo[w]))]
  /\ pc' = [pc EXCEPT ![w] = "running"]
  /\ UNCHANGED <<world, holder, todo, backoff, guard, trouble>>

FetchPage(w) ==
  /\ pc[w] = "running"
  /\ \E x \in Unprocessed(Head(todo[w])) \ batch[w] : batch' = [batch EXCEPT ![w] = @ \cup {x}]
  /\ UNCHANGED <<world, holder, pc, todo, backoff, guard, trouble>>

(* Rolling back frees the lock, if it is still there.                      *)
Freed(w) == [d \in Datasets |-> IF holder[d] = w THEN Nobody ELSE holder[d]]

(* Mutant: only a successful run releases its lock.                        *)
FinishRunKeepingLock(w) ==
  LET d == Head(todo[w])
  IN  /\ pc[w] = "running"
      /\ IF health[d] = "ok"
         THEN is_null' = is_null \ batch[w] /\ holder' = Freed(w)
         ELSE UNCHANGED <<is_null, holder>>
      /\ IF health[d] = "corrupt" THEN BackOff(w, d, "on") ELSE UNCHANGED backoff
      /\ batch' = [batch EXCEPT ![w] = {}]
      /\ guard' = [guard EXCEPT ![w] = "none"]
      /\ Continue(w)
      /\ UNCHANGED <<arrived, health, trouble>>

(* The lock is released before the result is looked at.                    *)
FinishRun(w) ==
  LET d == Head(todo[w])
  IN  /\ pc[w] = "running"
      /\ is_null' = IF health[d] = "ok" THEN is_null \ batch[w] ELSE is_null
      /\ holder' = Freed(w)
      /\ IF health[d] = "corrupt" THEN BackOff(w, d, "on") ELSE UNCHANGED backoff
      /\ batch' = [batch EXCEPT ![w] = {}]
      /\ guard' = [guard EXCEPT ![w] = "none"]
      /\ Continue(w)
      /\ UNCHANGED <<arrived, health, trouble>>

EndPass(w) ==
  /\ pc[w] = "choosing"
  /\ todo[w] = <<>>
  /\ pc' = [pc EXCEPT ![w] = "sleeping"]
  /\ UNCHANGED <<world, holder, todo, backoff, batch, guard, trouble>>

Sleep(w) ==
  /\ pc[w] = "sleeping"
  /\ pc' = [pc EXCEPT ![w] = "listing"]
  /\ UNCHANGED <<world, holder, todo, backoff, batch, guard, trouble>>

Loop(w) ==
  \/ ListDatasets(w) \/ Choose(w)
  \/ ProbeAfterBackoff(w) \/ Probe(w)
  \/ TryAcquireLock(w) \/ StartRun(w) \/ FetchPage(w) \/ FinishRun(w)
  \/ EndPass(w) \/ Sleep(w)

-------------------------------------------------------------------------------
(* The world.                                                              *)

BackoffExpires(w, d) ==
  /\ backoff[w][d] = "on"
  /\ BackOff(w, d, "over")
  /\ UNCHANGED <<world, holder, pc, todo, batch, guard, trouble>>

Arrive(x) ==
  /\ x \notin arrived
  /\ arrived' = arrived \cup {x}
  /\ is_null' = is_null \cup {x}
  /\ UNCHANGED <<health, holder, pc, todo, backoff, batch, guard, trouble>>

HealthChanges ==
  /\ health' \in Weather
  /\ UNCHANGED <<is_null, arrived, holder, pc, todo, backoff, batch, guard, trouble>>

Abandoned(w) == [d \in Datasets |-> IF holder[d] = w THEN Ghost ELSE holder[d]]

LoseConnection(w) ==
  /\ guard[w] = "held"
  /\ trouble < MaxTrouble
  /\ guard' = [guard EXCEPT ![w] = "lost"]
  /\ holder' = Abandoned(w)
  /\ trouble' = trouble + 1
  /\ UNCHANGED <<world, pc, todo, backoff, batch>>

(* A worker dies, its connection with it, and is started again.            *)
Die(w) ==
  /\ trouble < MaxTrouble
  /\ holder' = Abandoned(w)
  /\ pc' = [pc EXCEPT ![w] = "listing"] /\ todo' = [todo EXCEPT ![w] = <<>>]
  /\ backoff' = [backoff EXCEPT ![w] = [d \in Datasets |-> "none"]]
  /\ batch' = [batch EXCEPT ![w] = {}] /\ guard' = [guard EXCEPT ![w] = "none"]
  /\ trouble' = trouble + 1
  /\ UNCHANGED world

(* The server ends the session of a broken connection.                     *)
ServerNotices(d) ==
  /\ holder[d] = Ghost
  /\ holder' = [holder EXCEPT ![d] = Nobody]
  /\ UNCHANGED <<world, pc, todo, backoff, batch, guard, trouble>>

Next ==
  \/ \E w \in Workers : \/ Loop(w)
                        \/ \E d \in Datasets : BackoffExpires(w, d)
                        \/ LoseConnection(w) \/ Die(w)
  \/ \E d \in Datasets : ServerNotices(d)
  \/ \E x \in Docs : Arrive(x)
  \/ HealthChanges

Spec == Init /\ [][Next]_vars

(* The loops are never stopped, time goes on, and the server ends the      *)
(* sessions of broken connections.                                         *)
FairSpec ==
  /\ Spec
  /\ \A w \in Workers : WF_vars(Loop(w))
  /\ \A w \in Workers, d \in Datasets : WF_vars(BackoffExpires(w, d))
  /\ \A d \in Datasets : WF_vars(ServerNotices(d))

-------------------------------------------------------------------------------
(* Properties.                                                             *)

(* The worker holds the lock of the dataset, or believes it.               *)
Busy(w) == pc[w] \in {"starting", "running"}

(* Types; a worker has a dataset while it is at one, and a lock connection *)
(* while it is busy (the guard is dropped at the end of the loop's body).  *)
TypeOK ==
  /\ is_null \subseteq arrived /\ arrived \subseteq Docs
  /\ health \in [Datasets -> Conditions]
  /\ holder \in [Datasets -> Workers \cup {Nobody, Ghost}]
  /\ pc \in [Workers -> {"listing", "choosing", "reprobing", "probing", "locking",
                         "starting", "running", "sleeping"}]
  /\ todo \in [Workers -> Seq(Datasets)]
  /\ backoff \in [Workers -> [Datasets -> {"none", "on", "over"}]]
  /\ batch \in [Workers -> SUBSET Docs]
  /\ guard \in [Workers -> {"none", "held", "lost"}]
  /\ trouble \in 0..MaxTrouble
  /\ \A w \in Workers :
       /\ todo[w] = <<>> => pc[w] \in {"listing", "choosing", "sleeping"}
       /\ Busy(w) <=> guard[w] # "none"

(* Two workers are at the same dataset only if the connection of one of    *)
(* their locks has broken: the lock is held from before the first read to  *)
(* after the last write (try_acquire_dataset_lock: "`Ok(None)' when        *)
(* another process already holds the lock").                               *)
RunsAlone ==
  \A v, w \in Workers :
    v # w /\ Busy(v) /\ Busy(w) /\ Head(todo[v]) = Head(todo[w]) =>
      guard[v] = "lost" \/ guard[w] = "lost"

(* A worker leaves the pass over a dataset on many ways; on none of them   *)
(* does a lock stay behind, which would shut the others out for ever       *)
(* (DatasetLockGuard).                                                     *)
NoLockLeaked ==
  \A d \in Datasets : holder[d] \in Workers =>
    Busy(holder[d]) /\ Head(todo[holder[d]]) = d /\ guard[holder[d]] = "held"

(* Each document gets its turn once the database stays healthy: a worker   *)
(* that skips a dataset, because another one has it or because of a        *)
(* backoff, never leaves it behind.                                        *)
Healthy == \A d \in Datasets : health[d] = "ok"

WorkedOff ==
  <>[]Healthy => \A x \in Docs : [](x \in is_null => <>(x \notin is_null))

===============================================================================
