----------------------------- MODULE Daemon_proofs -----------------------------
(***************************************************************************)
(* Proofs about Daemon, for any backoff time and any weather.  What makes  *)
(* BackoffRespected inductive is that the SQLite loop never backs off.     *)
(***************************************************************************)
EXTENDS Daemon, TLAPS

SqliteNeverBacksOff ==
  mode.sqlite => backoff = NoBackoff /\ pc \notin {"backing off", "probing"}

BackoffInv == BackoffRespected /\ SqliteNeverBacksOff

LEMMA InitBackoffInv == Init => BackoffInv
BY DEF Init, BackoffInv, BackoffRespected, SqliteNeverBacksOff

(* The steps of the loop, one by one.                                      *)
LEMMA LoopKeepsBackoffInv ==
  ASSUME BackoffInv, Loop
  PROVE  BackoffInv'
<1> USE DEF BackoffInv, BackoffRespected, SqliteNeverBacksOff, world
<1>1. CASE Count
  BY <1>1 DEF Count
<1>2. CASE CountSqlite
  BY <1>2 DEF CountSqlite
<1>3. CASE SkipWhileBackingOff
  BY <1>3 DEF SkipWhileBackingOff
<1>4. CASE ProbeAfterBackoff
  BY <1>4 DEF ProbeAfterBackoff
<1>5. CASE Probe
  BY <1>5 DEF Probe
<1>6. CASE RunDedupe
  BY <1>6 DEF RunDedupe
<1>7. CASE RunSqlite
  BY <1>7 DEF RunSqlite
<1>8. CASE EndPass
  BY <1>8 DEF EndPass
<1>9. CASE Sleep
  BY <1>9 DEF Sleep
<1> QED
  BY <1>1, <1>2, <1>3, <1>4, <1>5, <1>6, <1>7, <1>8, <1>9 DEF Loop

(* What happens outside the loop; time runs off a backoff only, and there  *)
(* is none while the update path is probed or used.                        *)
LEMMA StepKeepsBackoffInv ==
  ASSUME BackoffInv, [Next]_vars
  PROVE  BackoffInv'
<1> USE DEF BackoffInv, BackoffRespected, SqliteNeverBacksOff
<1>1. CASE Loop
  BY <1>1, LoopKeepsBackoffInv
<1>2. CASE Tick
  BY <1>2, OptionsAssumption DEF Tick, world
<1>3. CASE DocumentsArrive
  BY <1>3 DEF DocumentsArrive
<1>4. CASE HealthChanges
  BY <1>4 DEF HealthChanges
<1>5. CASE IndexChanges
  BY <1>5 DEF IndexChanges
<1>6. CASE UNCHANGED vars
  BY <1>6 DEF vars
<1> QED
  BY <1>1, <1>2, <1>3, <1>4, <1>5, <1>6 DEF Next

(* The daemon neither probes nor uses the update path of a damaged search  *)
(* index before its backoff is over and a probe has found it healthy       *)
(* (main, search_index_backoff_until), however the loop and the database   *)
(* interleave.                                                             *)
THEOREM BackoffIsRespected == Spec => []BackoffRespected
<1>1. Init => BackoffInv
  BY InitBackoffInv
<1>2. BackoffInv /\ [Next]_vars => BackoffInv'
  BY StepKeepsBackoffInv
<1>3. BackoffInv => BackoffRespected
  BY DEF BackoffInv
<1> QED
  BY <1>1, <1>2, <1>3, PTL DEF Spec

===============================================================================
