------------------------- MODULE DatasetWorkers_proofs -------------------------
(***************************************************************************)
(* Proofs about DatasetWorkers, for any number of workers, datasets,       *)
(* documents and lost connections.  The invariant behind both safety       *)
(* properties is LockInv: the holder of a lock is the worker at the        *)
(* dataset, and a worker whose connection stands holds the lock it took.   *)
(***************************************************************************)
EXTENDS DatasetWorkers, FiniteSetTheorems, TLAPS

Steps == {"listing", "choosing", "reprobing", "probing", "locking",
          "starting", "running", "sleeping"}

(* A worker's lock connection stands just as long as it holds the lock of  *)
(* the dataset it is at.                                                   *)
HeldWhileConnected ==
  \A w \in Workers : guard[w] = "held" => holder[Head(todo[w])] = w

LockInv == TypeOK /\ NoLockLeaked /\ HeldWhileConnected

(* A list of datasets, as the query returns it, is a sequence.             *)
LEMMA ListsAreSequences ==
  ASSUME NEW D \in SUBSET Datasets, NEW list \in Lists(D)
  PROVE  list \in Seq(Datasets)
<1>1. IsFiniteSet(D)
  BY MembershipAssumption, FS_Subset
<1>2. Cardinality(D) \in Nat
  BY <1>1, FS_CardinalityType
<1>3. list \in [1..Cardinality(D) -> D]
  BY DEF Lists
<1> QED
  BY <1>2, <1>3

(* The rest of a list that is not empty is a list.                         *)
LEMMA Rest ==
  ASSUME NEW s \in Seq(Datasets), s # <<>>
  PROVE  Head(s) \in Datasets /\ Tail(s) \in Seq(Datasets)
OBVIOUS

(* After a rollback or a broken connection the worker holds no lock, and   *)
(* the other workers hold what they held.                                  *)
LEMMA FreedLocks ==
  ASSUME TypeOK, NEW w \in Workers, NEW f \in {Freed(w), Abandoned(w)}
  PROVE  /\ f \in [Datasets -> Workers \cup {Nobody, Ghost}]
         /\ \A d \in Datasets : f[d] # w
         /\ \A d \in Datasets : f[d] \in Workers => f[d] = holder[d]
         /\ \A d \in Datasets : holder[d] # w => f[d] = holder[d]
BY NobodyAssumption DEF TypeOK, Freed, Abandoned

(* Setting one backoff keeps their type.                                   *)
LEMMA BackOffTyped ==
  ASSUME TypeOK, NEW w \in Workers, NEW d \in Datasets,
         NEW s \in {"none", "on", "over"}, BackOff(w, d, s)
  PROVE  backoff' \in [Workers -> [Datasets -> {"none", "on", "over"}]]
<1> DEFINE row == [backoff[w] EXCEPT ![d] = s]
<1>1. row \in [Datasets -> {"none", "on", "over"}]
  BY DEF TypeOK
<1>2. backoff' = [backoff EXCEPT ![w] = row]
  BY DEF BackOff
<1> QED
  BY <1>1, <1>2 DEF TypeOK

LEMMA InitLockInv == Init => LockInv
<1> SUFFICES ASSUME Init PROVE LockInv
  OBVIOUS
<1>1. health \in [Datasets -> Conditions]
  BY WeatherAssumption DEF Init
<1>2. trouble \in 0..MaxTrouble
  BY NobodyAssumption DEF Init
<1>3. todo \in [Workers -> Seq(Datasets)]
  BY DEF Init
<1>4. TypeOK
  BY <1>1, <1>2, <1>3 DEF Init, TypeOK, Busy
<1> QED
  BY <1>4, NobodyAssumption DEF LockInv, Init, NoLockLeaked, HeldWhileConnected

(* What a step of a worker has to keep, once its effect on types is known: *)
(* steps that touch neither a lock nor a connection, and that move a       *)
(* worker only while it is not busy.                                       *)
LEMMA LocksUntouched ==
  ASSUME LockInv, TypeOK', UNCHANGED <<holder, guard>>,
         NEW w \in Workers, guard[w] = "none",
         \A v \in Workers \ {w} : pc'[v] = pc[v] /\ todo'[v] = todo[v]
  PROVE  LockInv'
<1>1. ASSUME NEW d \in Datasets, holder'[d] \in Workers
      PROVE  /\ pc'[holder'[d]] \in {"starting", "running"}
             /\ Head(todo'[holder'[d]]) = d
             /\ guard'[holder'[d]] = "held"
  <2>1. holder'[d] = holder[d] /\ holder[d] \in Workers
    BY <1>1
  <2>2. Busy(holder[d]) /\ Head(todo[holder[d]]) = d /\ guard[holder[d]] = "held"
    BY <2>1 DEF LockInv, NoLockLeaked
  <2>3. holder[d] # w
    BY <2>2
  <2> QED
    BY <2>1, <2>2, <2>3 DEF Busy
<1>2. ASSUME NEW v \in Workers, guard'[v] = "held"
      PROVE  holder'[Head(todo'[v])] = v
  BY <1>2 DEF LockInv, HeldWhileConnected
<1> QED
  BY <1>1, <1>2 DEF LockInv, NoLockLeaked, HeldWhileConnected, Busy

(* The same for a worker that gives up its lock, or loses it, and whose    *)
(* place in the loop changes as it likes.                                  *)
LEMMA LockGivenUp ==
  ASSUME LockInv, TypeOK', NEW w \in Workers,
         holder' \in {Freed(w), Abandoned(w)}, guard'[w] # "held",
         \A v \in Workers \ {w} :
           pc'[v] = pc[v] /\ todo'[v] = todo[v] /\ guard'[v] = guard[v]
  PROVE  LockInv'
<1> USE DEF LockInv
<1>1. ASSUME NEW d \in Datasets, holder'[d] \in Workers
      PROVE  /\ pc'[holder'[d]] \in {"starting", "running"}
             /\ Head(todo'[holder'[d]]) = d
             /\ guard'[holder'[d]] = "held"
  <2>1. holder'[d] # w /\ holder'[d] = holder[d] /\ holder[d] \in Workers
    BY <1>1, FreedLocks DEF TypeOK
  <2>2. Busy(holder[d]) /\ Head(todo[holder[d]]) = d /\ guard[holder[d]] = "held"
    BY <2>1 DEF NoLockLeaked
  <2> QED
    BY <2>1, <2>2 DEF Busy
<1>2. ASSUME NEW v \in Workers, guard'[v] = "held"
      PROVE  holder'[Head(todo'[v])] = v
  <2>1. v # w /\ guard[v] = "held" /\ todo'[v] = todo[v]
    BY <1>2
  <2>2. holder[Head(todo[v])] = v
    BY <2>1 DEF HeldWhileConnected
  <2>3. Head(todo[v]) \in Datasets
    BY <2>1, Rest DEF TypeOK, Busy
  <2> QED
    BY <2>1, <2>2, <2>3, FreedLocks
<1> QED
  BY <1>1, <1>2 DEF NoLockLeaked, HeldWhileConnected, Busy

-------------------------------------------------------------------------------
(* Every step of a worker, and of the world, keeps the invariant.          *)

LEMMA ListDatasetsKeeps ==
  ASSUME LockInv, NEW w \in Workers, ListDatasets(w)
  PROVE  LockInv'
<1> USE DEF LockInv
<1>1. todo' \in [Workers -> Seq(Datasets)]
  <2>1. \/ todo' = todo
        \/ \E list \in Lists({d \in Datasets : Unprocessed(d) # {}}) :
             todo' = [todo EXCEPT ![w] = list]
    BY DEF ListDatasets
  <2>2. {d \in Datasets : Unprocessed(d) # {}} \in SUBSET Datasets
    OBVIOUS
  <2>3. \A list \in Lists({d \in Datasets : Unprocessed(d) # {}}) : list \in Seq(Datasets)
    BY <2>2, ListsAreSequences
  <2> QED
    BY <2>1, <2>3 DEF TypeOK
<1>2. pc' \in [Workers -> Steps] /\ pc'[w] \in {"sleeping", "choosing"}
  BY DEF ListDatasets, TypeOK, Steps
<1>3. guard[w] = "none"
  BY DEF ListDatasets, TypeOK, Busy
<1>4. \A v \in Workers \ {w} : pc'[v] = pc[v] /\ todo'[v] = todo[v]
  BY DEF ListDatasets, TypeOK
<1>5. TypeOK'
  BY <1>1, <1>2, <1>3, <1>4 DEF ListDatasets, world, TypeOK, Busy, Steps
<1> QED
  BY <1>3, <1>4, <1>5, LocksUntouched DEF ListDatasets

(* The steps at a dataset before its lock is taken: they stay at the       *)
(* dataset or go on to the next.                                           *)
LEMMA ChoiceKeeps ==
  ASSUME LockInv, NEW w \in Workers, Choose(w) \/ ProbeAfterBackoff(w) \/ Probe(w)
  PROVE  LockInv'
<1> USE DEF LockInv
<1>1. todo[w] # <<>> /\ guard[w] = "none"
  BY DEF Choose, ProbeAfterBackoff, Probe, TypeOK, Busy
<1>2. Head(todo[w]) \in Datasets /\ Tail(todo[w]) \in Seq(Datasets)
  BY <1>1, Rest DEF TypeOK
<1>3. \/ todo' = todo /\ \E p \in {"probing", "reprobing", "locking"} : pc' = [pc EXCEPT ![w] = p]
      \/ Continue(w)
  <2>1. ASSUME Choose(w)
        PROVE  \/ todo' = todo /\ \E p \in {"probing", "reprobing"} : pc' = [pc EXCEPT ![w] = p]
               \/ Continue(w)
    <3>1. backoff[w][Head(todo[w])] \in {"none", "on", "over"}
      BY <1>2 DEF TypeOK
    <3> QED
      BY <2>1, <3>1 DEF Choose
  <2>2. ASSUME ProbeAfterBackoff(w)
        PROVE  \/ todo' = todo /\ pc' = [pc EXCEPT ![w] = "probing"]
               \/ Continue(w)
    BY <2>2 DEF ProbeAfterBackoff
  <2>3. ASSUME Probe(w)
        PROVE  \/ todo' = todo /\ pc' = [pc EXCEPT ![w] = "locking"]
               \/ Continue(w)
    BY <2>3 DEF Probe
  <2> QED
    BY <2>1, <2>2, <2>3
<1>4. backoff' \in [Workers -> [Datasets -> {"none", "on", "over"}]]
  <2>1. \/ backoff' = backoff
        \/ \E s \in {"none", "on"} : BackOff(w, Head(todo[w]), s)
    BY DEF Choose, ProbeAfterBackoff, Probe
  <2> QED
    BY <1>2, <2>1, BackOffTyped DEF TypeOK
<1>5. UNCHANGED <<world, holder, batch, guard, trouble>>
  BY DEF Choose, ProbeAfterBackoff, Probe
<1>6. \A v \in Workers \ {w} : pc'[v] = pc[v] /\ todo'[v] = todo[v]
  BY <1>3 DEF Continue, TypeOK
<1>7. TypeOK'
  <2>1. CASE Continue(w)
    BY <1>1, <1>2, <1>4, <1>5, <2>1 DEF Continue, world, TypeOK, Busy
  <2>2. ASSUME todo' = todo, NEW p \in {"probing", "reprobing", "locking"},
               pc' = [pc EXCEPT ![w] = p]
        PROVE  TypeOK'
    BY <1>1, <1>4, <1>5, <2>2 DEF world, TypeOK, Busy
  <2> QED
    BY <1>3, <2>1, <2>2
<1> QED
  BY <1>1, <1>5, <1>6, <1>7, LocksUntouched

LEMMA TryAcquireLockKeeps ==
  ASSUME LockInv, NEW w \in Workers, TryAcquireLock(w)
  PROVE  LockInv'
<1> USE DEF LockInv
<1> DEFINE d == Head(todo[w])
<1>1. todo[w] # <<>> /\ guard[w] = "none" /\ pc[w] = "locking"
  BY DEF TryAcquireLock, TypeOK, Busy
<1>2. d \in Datasets /\ Tail(todo[w]) \in Seq(Datasets)
  BY <1>1, Rest DEF TypeOK
<1>3. CASE holder[d] = Nobody /\ health[d] # "down"
  <2>1. /\ holder' = [holder EXCEPT ![d] = w] /\ guard' = [guard EXCEPT ![w] = "held"]
        /\ pc' = [pc EXCEPT ![w] = "starting"]
        /\ UNCHANGED <<todo, world, backoff, batch, trouble>>
    BY <1>3 DEF TryAcquireLock
  <2>2. TypeOK'
    BY <1>1, <1>2, <2>1 DEF world, TypeOK, Busy
  <2>3. ASSUME NEW e \in Datasets, holder'[e] \in Workers
        PROVE  /\ pc'[holder'[e]] \in {"starting", "running"}
               /\ Head(todo'[holder'[e]]) = e
               /\ guard'[holder'[e]] = "held"
    <3>1. CASE e = d
      BY <1>2, <2>1, <3>1 DEF TypeOK
    <3>2. CASE e # d
      <4>1. holder'[e] = holder[e] /\ holder[e] \in Workers
        BY <1>2, <2>1, <2>3, <3>2 DEF TypeOK
      <4>2. Busy(holder[e]) /\ Head(todo[holder[e]]) = e /\ guard[holder[e]] = "held"
        BY <2>3, <4>1 DEF NoLockLeaked
      <4>3. holder[e] # w
        BY <1>1, <4>2
      <4> QED
        BY <2>1, <4>1, <4>2, <4>3 DEF Busy, TypeOK
    <3> QED
      BY <3>1, <3>2
  <2>4. ASSUME NEW v \in Workers, guard'[v] = "held"
        PROVE  holder'[Head(todo'[v])] = v
    <3>1. CASE v = w
      BY <1>2, <2>1, <3>1 DEF TypeOK
    <3>2. CASE v # w
      <4>1. guard[v] = "held" /\ todo'[v] = todo[v] /\ holder[Head(todo[v])] = v
        BY <2>1, <2>4, <3>2 DEF TypeOK, HeldWhileConnected
      <4>2. Head(todo[v]) \in Datasets /\ Head(todo[v]) # d
        BY <1>3, <4>1, Rest, NobodyAssumption DEF TypeOK, Busy
      <4> QED
        BY <2>1, <4>1, <4>2 DEF TypeOK
    <3> QED
      BY <3>1, <3>2
  <2> QED
    BY <2>2, <2>3, <2>4 DEF NoLockLeaked, HeldWhileConnected, Busy
<1>4. CASE ~(holder[d] = Nobody /\ health[d] # "down")
  <2>1. Continue(w) /\ UNCHANGED <<holder, guard, world, backoff, batch, trouble>>
    BY <1>4 DEF TryAcquireLock
  <2>2. \A v \in Workers \ {w} : pc'[v] = pc[v] /\ todo'[v] = todo[v]
    BY <2>1 DEF Continue, TypeOK
  <2>3. TypeOK'
    BY <1>1, <1>2, <2>1, <2>2 DEF Continue, world, TypeOK, Busy
  <2> QED
    BY <1>1, <2>1, <2>2, <2>3, LocksUntouched
<1> QED
  BY <1>3, <1>4

LEMMA FetchKeeps ==
  ASSUME LockInv, NEW w \in Workers, StartRun(w) \/ FetchPage(w)
  PROVE  LockInv'
<1> USE DEF LockInv
<1>1. batch' \in [Workers -> SUBSET Docs]
  <2>1. Unprocessed(Head(todo[w])) \subseteq Docs /\ batch \in [Workers -> SUBSET Docs]
    BY DEF TypeOK, Unprocessed
  <2>2. CASE StartRun(w)
    BY <2>1, <2>2 DEF StartRun
  <2>3. CASE FetchPage(w)
    <3>1. PICK x \in Docs : batch' = [batch EXCEPT ![w] = @ \cup {x}]
      BY <2>1, <2>3 DEF FetchPage
    <3>2. batch[w] \cup {x} \in SUBSET Docs
      BY <2>1
    <3> QED
      BY <2>1, <3>1, <3>2
  <2> QED
    BY <2>2, <2>3
<1>2. /\ UNCHANGED <<world, holder, todo, backoff, guard, trouble>>
      /\ Busy(w) /\ (pc' = pc \/ pc' = [pc EXCEPT ![w] = "running"])
  BY DEF StartRun, FetchPage, Busy
<1>3. TypeOK'
  BY <1>1, <1>2 DEF world, TypeOK, Busy
<1>4. \A v \in Workers : Busy(v) => pc'[v] \in {"starting", "running"}
  BY <1>2 DEF TypeOK, Busy
<1>5. ASSUME NEW d \in Datasets, holder[d] \in Workers
      PROVE  /\ pc'[holder[d]] \in {"starting", "running"}
             /\ Head(todo[holder[d]]) = d /\ guard[holder[d]] = "held"
  BY <1>4, <1>5 DEF NoLockLeaked
<1> QED
  BY <1>2, <1>3, <1>5 DEF NoLockLeaked, HeldWhileConnected, Busy

LEMMA FinishRunKeeps ==
  ASSUME LockInv, NEW w \in Workers, FinishRun(w)
  PROVE  LockInv'
<1> USE DEF LockInv
<1>1. todo[w] # <<>>
  BY DEF FinishRun, TypeOK
<1>2. Head(todo[w]) \in Datasets /\ Tail(todo[w]) \in Seq(Datasets)
  BY <1>1, Rest DEF TypeOK
<1>3. backoff' \in [Workers -> [Datasets -> {"none", "on", "over"}]]
  <2>1. backoff' = backoff \/ BackOff(w, Head(todo[w]), "on")
    BY DEF FinishRun
  <2> QED
    BY <1>2, <2>1, BackOffTyped DEF TypeOK
<1>4. holder' = Freed(w) /\ holder' \in [Datasets -> Workers \cup {Nobody, Ghost}]
  BY FreedLocks DEF FinishRun
<1>5. /\ todo' = [todo EXCEPT ![w] = Tail(@)] /\ pc' = [pc EXCEPT ![w] = "choosing"]
      /\ guard' = [guard EXCEPT ![w] = "none"] /\ batch' = [batch EXCEPT ![w] = {}]
      /\ is_null' \subseteq is_null /\ UNCHANGED <<arrived, health, trouble>>
  BY DEF FinishRun, Continue
<1>6. TypeOK'
  BY <1>2, <1>3, <1>4, <1>5 DEF TypeOK, Busy
<1>7. /\ guard'[w] # "held"
      /\ \A v \in Workers \ {w} :
           pc'[v] = pc[v] /\ todo'[v] = todo[v] /\ guard'[v] = guard[v]
  BY <1>5 DEF TypeOK
<1> QED
  BY <1>4, <1>6, <1>7, LockGivenUp

LEMMA PassEndKeeps ==
  ASSUME LockInv, NEW w \in Workers, EndPass(w) \/ Sleep(w)
  PROVE  LockInv'
<1> USE DEF LockInv
<1>1. guard[w] = "none"
  BY DEF EndPass, Sleep, TypeOK, Busy
<1>2. UNCHANGED <<world, holder, todo, backoff, batch, guard, trouble>>
  BY DEF EndPass, Sleep
<1>3. \E p \in {"sleeping", "listing"} : pc' = [pc EXCEPT ![w] = p]
  BY DEF EndPass, Sleep
<1>4. \A v \in Workers \ {w} : pc'[v] = pc[v] /\ todo'[v] = todo[v]
  BY <1>2, <1>3 DEF TypeOK
<1>5. TypeOK'
  BY <1>1, <1>2, <1>3 DEF world, TypeOK, Busy
<1> QED
  BY <1>1, <1>2, <1>4, <1>5, LocksUntouched

LEMMA LoseConnectionKeeps ==
  ASSUME LockInv, NEW w \in Workers, LoseConnection(w)
  PROVE  LockInv'
<1> USE DEF LockInv
<1>1. holder' = Abandoned(w) /\ holder' \in [Datasets -> Workers \cup {Nobody, Ghost}]
  BY FreedLocks DEF LoseConnection
<1>2. trouble' \in 0..MaxTrouble
  BY NobodyAssumption DEF LoseConnection, TypeOK
<1>3. TypeOK'
  BY <1>1, <1>2 DEF LoseConnection, world, TypeOK, Busy
<1>4. /\ guard'[w] # "held"
      /\ \A v \in Workers \ {w} :
           pc'[v] = pc[v] /\ todo'[v] = todo[v] /\ guard'[v] = guard[v]
  BY DEF LoseConnection, TypeOK
<1> QED
  BY <1>1, <1>3, <1>4, LockGivenUp

LEMMA DieKeeps ==
  ASSUME LockInv, NEW w \in Workers, Die(w)
  PROVE  LockInv'
<1> USE DEF LockInv
<1>1. holder' = Abandoned(w) /\ holder' \in [Datasets -> Workers \cup {Nobody, Ghost}]
  BY FreedLocks DEF Die
<1>2. trouble' \in 0..MaxTrouble
  BY NobodyAssumption DEF Die, TypeOK
<1>3. todo' \in [Workers -> Seq(Datasets)]
  BY DEF Die, TypeOK
<1>4. TypeOK'
  BY <1>1, <1>2, <1>3 DEF Die, world, TypeOK, Busy
<1>5. /\ guard'[w] # "held"
      /\ \A v \in Workers \ {w} :
           pc'[v] = pc[v] /\ todo'[v] = todo[v] /\ guard'[v] = guard[v]
  BY DEF Die, TypeOK
<1> QED
  BY <1>1, <1>4, <1>5, LockGivenUp

(* A lock whose connection has broken is freed.                            *)
LEMMA ServerNoticesKeeps ==
  ASSUME LockInv, NEW d \in Datasets, ServerNotices(d)
  PROVE  LockInv'
<1> USE DEF LockInv
<1>1. /\ holder[d] = Ghost /\ holder' = [holder EXCEPT ![d] = Nobody]
      /\ UNCHANGED <<world, pc, todo, backoff, batch, guard, trouble>>
  BY DEF ServerNotices
<1>2. TypeOK'
  BY <1>1 DEF world, TypeOK, Busy
<1>3. \A e \in Datasets : holder'[e] \in Workers \/ holder[e] \in Workers => holder'[e] = holder[e]
  BY <1>1, NobodyAssumption DEF TypeOK
<1>4. ASSUME NEW v \in Workers, guard[v] = "held"
      PROVE  holder'[Head(todo[v])] = v
  <2>1. Head(todo[v]) \in Datasets
    BY <1>4, Rest DEF TypeOK, Busy
  <2> QED
    BY <1>3, <1>4, <2>1 DEF HeldWhileConnected
<1> QED
  BY <1>1, <1>2, <1>3, <1>4 DEF NoLockLeaked, HeldWhileConnected, Busy

LEMMA WorldKeeps ==
  ASSUME LockInv,
         \/ \E w \in Workers, d \in Datasets : BackoffExpires(w, d)
         \/ \E x \in Docs : Arrive(x)
         \/ HealthChanges
  PROVE  LockInv'
<1> USE DEF LockInv
<1>1. UNCHANGED <<holder, pc, todo, batch, guard, trouble>>
  BY DEF BackoffExpires, Arrive, HealthChanges
<1>2. health' \in [Datasets -> Conditions]
  BY WeatherAssumption DEF BackoffExpires, Arrive, HealthChanges, TypeOK, world
<1>3. is_null' \subseteq arrived' /\ arrived' \subseteq Docs
  BY DEF BackoffExpires, Arrive, HealthChanges, TypeOK, world
<1>4. backoff' \in [Workers -> [Datasets -> {"none", "on", "over"}]]
  <2>1. \/ backoff' = backoff
        \/ \E w \in Workers, d \in Datasets : BackOff(w, d, "over")
    BY DEF BackoffExpires, Arrive, HealthChanges
  <2> QED
    BY <2>1, BackOffTyped DEF TypeOK
<1> QED
  BY <1>1, <1>2, <1>3, <1>4 DEF TypeOK, NoLockLeaked, HeldWhileConnected, Busy

LEMMA NextLockInv == LockInv /\ [Next]_vars => LockInv'
<1> SUFFICES ASSUME LockInv, [Next]_vars PROVE LockInv'
  OBVIOUS
<1>1. ASSUME NEW w \in Workers, Loop(w)
      PROVE  LockInv'
  BY <1>1, ListDatasetsKeeps, ChoiceKeeps, TryAcquireLockKeeps, FetchKeeps,
     FinishRunKeeps, PassEndKeeps DEF Loop
<1>2. ASSUME NEW w \in Workers, LoseConnection(w) \/ Die(w)
      PROVE  LockInv'
  BY <1>2, LoseConnectionKeeps, DieKeeps
<1>3. CASE UNCHANGED vars
  BY <1>3 DEF vars, world, LockInv, TypeOK, NoLockLeaked, HeldWhileConnected, Busy
<1> QED
  BY <1>1, <1>2, <1>3, ServerNoticesKeeps, WorldKeeps DEF Next

(* Two workers busy at one dataset whose connections both stand would both *)
(* hold its lock.                                                          *)
LEMMA LockInvExcludes == LockInv => RunsAlone
<1> SUFFICES ASSUME LockInv, NEW v \in Workers, NEW w \in Workers,
                    v # w, Busy(v), Busy(w), Head(todo[v]) = Head(todo[w])
             PROVE  guard[v] = "lost" \/ guard[w] = "lost"
  BY DEF RunsAlone
<1>1. guard[v] \in {"held", "lost"} /\ guard[w] \in {"held", "lost"}
  BY DEF LockInv, TypeOK
<1> QED
  BY <1>1 DEF LockInv, HeldWhileConnected

-------------------------------------------------------------------------------
(* The invariant that the two safety properties of the lock follow from.   *)
THEOREM LockInvariant == Spec => []LockInv
<1> QED
  BY InitLockInv, NextLockInv, PTL DEF Spec

(* Every variable keeps its type, and a worker is at a dataset, with a     *)
(* connection for its lock, just when the loop of main.rs has it there.    *)
THEOREM WorkersTyped == Spec => []TypeOK
<1>1. LockInv => TypeOK
  BY DEF LockInv
<1> QED
  BY <1>1, LockInvariant, PTL

(* The advisory lock keeps any two workers apart, however many there are,  *)
(* unless the connection of one of them breaks (db/mod.rs,                 *)
(* DatasetLockGuard).                                                      *)
THEOREM MutualExclusion == Spec => []RunsAlone
<1> QED
  BY LockInvariant, LockInvExcludes, PTL

(* No way through the loop's body leaves a lock behind: it is released on  *)
(* all of them, and by the server when a worker dies.                      *)
THEOREM LocksAreReleased == Spec => []NoLockLeaked
<1>1. LockInv => NoLockLeaked
  BY DEF LockInv
<1> QED
  BY <1>1, LockInvariant, PTL
===============================================================================
