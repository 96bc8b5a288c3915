-------------------------------- MODULE Daemon --------------------------------
(***************************************************************************)
(* The polling loops of `--daemon --postgres' and `--daemon --sqlite'      *)
(* (src/main.rs): count the unprocessed documents, wait while a damaged    *)
(* search index is repaired, probe whether is_parent can be updated, run   *)
(* the pipeline, sleep.  The SQLite loop opens its file anew in each pass, *)
(* knows neither probes nor backoff, and ends with the error of a count    *)
(* that fails.                                                             *)
(*                                                                         *)
(* The world around it is `backlog', whether there are unprocessed         *)
(* documents, `index_opens', whether a run can open lsh.redb (no other     *)
(* process has it, and it was built with this --seed), and `health', what  *)
(* the database answers:                                                   *)
(*   "ok"       everything works                                           *)
(*   "corrupt"  updates fail with a search-index corruption error          *)
(*   "failing"  updates fail with another error                            *)
(*   "down"     queries fail, too                                          *)
(* Time is the number of ticks that are left of a backoff; any step may    *)
(* take any time.  Not modelled: releasing memory and logging.             *)
(***************************************************************************)
EXTENDS Naturals

CONSTANTS
  BackoffTicks, \* --search-index-error-backoff-secs
  Weather,      \* the health conditions that may occur
  NoBackoff

ASSUME OptionsAssumption == BackoffTicks \in Nat /\ NoBackoff \notin Nat
ASSUME WeatherAssumption == "ok" \in Weather /\ Weather \subseteq {"ok", "corrupt", "failing", "down"}

VARIABLES
  mode,     \* the command line: the database, --run-once, --skip-db-write
  pc,       \* where the loop is
  backoff,  \* search_index_backoff_until, as the time left
  backlog,  \* are there unprocessed documents?
  index_opens,
  health

vars  == <<mode, pc, backoff, backlog, index_opens, health>>
world == <<mode, backlog, index_opens, health>>

Modes == [sqlite : BOOLEAN, runOnce : BOOLEAN, skipDbWrite : BOOLEAN]

Init ==
  /\ mode \in Modes
  /\ pc = "counting" /\ backoff = NoBackoff
  /\ backlog \in BOOLEAN /\ index_opens \in BOOLEAN /\ health \in Weather

-------------------------------------------------------------------------------
(* The loop.                                                               *)

(* A count that fails goes to sleep at once, in any mode.                  *)
Count ==
  /\ pc = "counting"
  /\ ~mode.sqlite
  /\ pc' = IF health = "down" THEN "sleeping"
           ELSE IF ~backlog THEN "pass done"
           ELSE IF backoff # NoBackoff THEN "backing off" ELSE "probing"
  /\ UNCHANGED <<backoff, world>>

CountSqlite ==
  /\ pc = "counting"
  /\ mode.sqlite
  /\ pc' = IF health = "down" THEN "died"
           ELSE IF ~backlog THEN "pass done" ELSE "running"
  /\ UNCHANGED <<backoff, world>>

(* Mutant: the repair is not waited for.                                   *)
SkipWhileBackingOffTooEager ==
  /\ pc = "backing off"
  /\ backoff \in Nat \ {0}
  /\ pc' = "probing"
  /\ UNCHANGED <<backoff, world>>

SkipWhileBackingOff ==
  /\ pc = "backing off"
  /\ backoff \in Nat \ {0}
  /\ pc' = "pass done"
  /\ UNCHANGED <<backoff, world>>

(* Mutant: a healthy index does not end the backoff.                       *)
ProbeAfterBackoffForgetful ==
  /\ pc = "backing off"
  /\ backoff = 0
  /\ pc' = "counting"
  /\ backoff' = IF health = "failing" THEN 0 ELSE BackoffTicks
  /\ UNCHANGED world

(* When the backoff is over, the update path is probed.  A failed probe    *)
(* goes back to the count without sleeping.                                *)
ProbeAfterBackoff ==
  /\ pc = "backing off"
  /\ backoff = 0
  /\ CASE health = "ok"      -> pc' = "probing"  /\ backoff' = NoBackoff
       [] health = "corrupt" -> pc' = "counting" /\ backoff' = BackoffTicks
       [] OTHER              -> pc' = "counting" /\ UNCHANGED backoff
  /\ UNCHANGED world

(* The probe before each run, likewise.                                    *)
Probe ==
  /\ pc = "probing"
  /\ CASE health = "ok" \/ mode.skipDbWrite -> pc' = "running"  /\ UNCHANGED backoff
       [] health = "corrupt" /\ ~mode.skipDbWrite -> pc' = "counting" /\ backoff' = BackoffTicks
       [] OTHER              -> pc' = "counting" /\ UNCHANGED backoff
  /\ UNCHANGED world

(* A run empties the backlog, unless it writes nothing to the database, or *)
(* fails as the database does, or at lsh.redb, which it opens before it    *)
(* first writes to the database.                                           *)
Backlogged == backlog /\ (health # "ok" \/ mode.skipDbWrite \/ ~index_opens)

RunDedupe ==
  /\ pc = "running"
  /\ ~mode.sqlite
  /\ backlog' = Backlogged
  /\ backoff' = IF health = "corrupt" /\ ~mode.skipDbWrite /\ index_opens
                THEN BackoffTicks ELSE backoff
  /\ pc' = "pass done"
  /\ UNCHANGED <<mode, index_opens, health>>

RunSqlite ==
  /\ pc = "running"
  /\ mode.sqlite
  /\ backlog' = Backlogged
  /\ pc' = "pass done"
  /\ UNCHANGED <<mode, backoff, index_opens, health>>

(* Mutant: --run-once is forgotten where a pass ends.                      *)
EndPassAndSleep ==
  /\ pc = "pass done"
  /\ pc' = "sleeping"
  /\ UNCHANGED <<backoff, world>>

EndPass ==
  /\ pc = "pass done"
  /\ pc' = IF mode.runOnce THEN "exited" ELSE "sleeping"
  /\ UNCHANGED <<backoff, world>>

Sleep ==
  /\ pc = "sleeping"
  /\ pc' = "counting"
  /\ UNCHANGED <<backoff, world>>

Loop ==
  \/ Count \/ CountSqlite
  \/ SkipWhileBackingOff \/ ProbeAfterBackoff
  \/ Probe
  \/ RunDedupe \/ RunSqlite
  \/ EndPass \/ Sleep

-------------------------------------------------------------------------------
(* The world.                                                              *)

Tick ==
  /\ backoff \in Nat \ {0}
  /\ backoff' = backoff - 1
  /\ UNCHANGED <<pc, world>>

DocumentsArrive ==
  /\ ~backlog
  /\ backlog' = TRUE
  /\ UNCHANGED <<mode, pc, backoff, index_opens, health>>

HealthChanges ==
  /\ health' \in Weather
  /\ UNCHANGED <<mode, pc, backoff, backlog, index_opens>>

IndexChanges ==
  /\ index_opens' = ~index_opens
  /\ UNCHANGED <<mode, pc, backoff, backlog, health>>

Next == Loop \/ Tick \/ DocumentsArrive \/ HealthChanges \/ IndexChanges

Spec == Init /\ [][Next]_vars

(* The loop is never stopped and time goes on.                             *)
FairSpec == Spec /\ WF_vars(Loop) /\ WF_vars(Tick)

-------------------------------------------------------------------------------
(* Properties.                                                             *)

(* While the search index is left alone to be repaired, the update path is *)
(* neither probed nor used: the backoff is over, and has been lifted by a  *)
(* healthy probe, whenever a run begins.                                   *)
BackoffRespected == pc \in {"probing", "running"} => backoff = NoBackoff

(* Once the database stays healthy, and the index can be opened, the       *)
(* backlog is worked off, whatever state of waiting or probing the trouble *)
(* left the loop in.  A daemon that leaves the database alone never        *)
(* empties it, and one over SQLite may not have survived the trouble.      *)
ResumesAfterRepair ==
  ~mode.runOnce /\ ~mode.skipDbWrite /\ <>[](health = "ok" /\ index_opens) =>
    [](backlog => <>(~backlog \/ pc = "died"))

(* With --run-once the daemon ends as soon as the database stays healthy,  *)
(* although a failed count and two failed probes go back to the head of    *)
(* the loop without a look at the option.                                  *)
RunOnceEnds ==
  mode.runOnce /\ <>[](health = "ok") => <>(pc \in {"exited", "died"})
===============================================================================
