------------------------------- MODULE FromIndex -------------------------------
(***************************************************************************)
(* Runs that share the sidecar files lsh.redb, matches.redb and state.redb *)
(* (src/main.rs, src/cleanup.rs): the index-only mode --from-index, which  *)
(* takes the index as it is and goes through Phase 1.5 and Phase 2 over    *)
(* it, and the normal runs that build the index and do the same for their  *)
(* batch.  What follows in the database is SyncMode and IncrementalRun.    *)
(*                                                                         *)
(* Phase 1.5 is here in full: which buckets are large, how a cluster is    *)
(* verified over several bands, and what is linked.  Phase 2 compares and  *)
(* acknowledges one document in one step; its transactions are Phase2.     *)
(* Any number of runs may die or fail between two transactions, and each   *)
(* has its own --threshold, which no file remembers.  Not modelled: the    *)
(* size filter and the cap max_matches_per_doc of a comparison (Phase2 has *)
(* them); the cap is off by default.                                       *)
(***************************************************************************)
EXTENDS LshIndex

CONSTANTS
  Jaccard,       \* the number of values that two signatures have in common
  Thresholds,    \* the --threshold of a run, as such a number
  Lost,          \* no threshold
  MinBands,      \* min_bands
  ClusterMin,    \* min_bucket_size
  Overlap        \* percent of a bucket that another band must share, 90

ASSUME DetectionAssumption ==
  /\ MinBands \in Nat \ {0, 1}
  /\ Jaccard \in [MinHashes -> [MinHashes -> Nat]]
  /\ \A s, t \in MinHashes : Jaccard[s][t] = Jaccard[t][s]
  /\ Thresholds \subseteq Nat /\ Lost \notin Nat
  /\ ClusterMin \in Nat \ {0, 1}
  /\ Overlap \in 1..100

VARIABLES
  matches,    \* matches.redb: the recorded pairs
  processed,  \* state.redb: the acknowledged documents
  run,        \* what the run was started as
  step,       \* where it is
  batch,      \* new_doc_ids of a normal run
  large,      \* keys of the large buckets that are yet to be analyzed
  clusters,   \* the pathological clusters found
  apart,      \* the documents that Phase 2 skips as candidates' owners
  docIds,     \* the documents of Phase 2
  todo,       \* those of them that are yet to be compared
  threshold,  \* and at which similarity
  outcome,    \* how the last run ended
  strictest   \* history: the highest threshold at which state.redb has come to
              \* acknowledge a document, Lost if the edges may be missing

files  == <<index, matches, processed>>
memory == <<run, step, batch, large, clusters, apart, docIds, todo, threshold>>
vars   == <<files, memory, outcome, strictest>>

Runs == [normal : BOOLEAN, fresh : BOOLEAN, config : Configs \cup {None}]

SimilarAt(d, e, t) == d # e /\ Jaccard[signatures[d]][signatures[e]] >= t

Similar(d, e) == SimilarAt(d, e, threshold)

-------------------------------------------------------------------------------

NoRun == [normal |-> FALSE, fresh |-> FALSE, config |-> None]

Init ==
  /\ IndexInit
  /\ matches = {} /\ processed = {}
  /\ run = NoRun
  /\ step = "idle" /\ batch = {} /\ large = {} /\ clusters = {} /\ apart = {}
  /\ docIds = {} /\ todo = {} /\ outcome = "none"
  /\ threshold = 0 /\ strictest = 0

Begin(r, D, s) ==
  /\ step = "idle"
  /\ run' = r /\ step' = s /\ batch' = D
  /\ clusters' = {} /\ apart' = {} /\ UNCHANGED <<large, docIds, todo, threshold>>
  /\ outcome' = "none"
  /\ UNCHANGED <<files, strictest>>

(* A normal run over the documents it finds unprocessed, or over all.      *)
StartNormal(c, fresh, D) ==
  Begin([normal |-> TRUE, fresh |-> fresh, config |-> c], D,
        IF fresh THEN "removing index" ELSE "opening")

(* --from-index takes a file of any configuration; it only looks for it.   *)
StartIndexOnly(fresh) ==
  /\ Indexed # {}
  /\ Begin([normal |-> FALSE, fresh |-> fresh, config |-> None], {}, "scanning")

(* A fresh run removes the files one by one: a normal one at its           *)
(* beginning, index first, an index-only one between Phases 1.5 and 2.     *)
RemoveLsh ==
  /\ step = "removing index"
  /\ RemoveIndex
  /\ strictest' = Lost
  /\ step' = "removing matches"
  /\ UNCHANGED <<matches, processed, run, batch, large, clusters, apart, docIds,
                 todo, threshold, outcome>>

RemoveMatches ==
  /\ step = "removing matches"
  /\ matches' = {}
  /\ strictest' = Lost
  /\ step' = "removing state"
  /\ UNCHANGED <<index, processed, run, batch, large, clusters, apart, docIds,
                 todo, threshold, outcome>>

RemoveState ==
  /\ step = "removing state"
  /\ processed' = {}
  /\ strictest' = 0
  /\ step' = IF run.normal THEN "opening" ELSE "choosing"
  /\ UNCHANGED <<index, matches, run, batch, large, clusters, apart, docIds,
                 todo, threshold, outcome>>

-------------------------------------------------------------------------------
(* Phase 1 of a normal run.                                                *)

OpenIndex ==
  /\ step = "opening"
  /\ Validate(run.config)
  /\ step' = IF NeedsBands THEN "building" ELSE "indexing"
  /\ UNCHANGED <<matches, processed, run, batch, large, clusters, apart, docIds,
                 todo, threshold, outcome, strictest>>

BuildLegacyBands ==
  /\ step = "building"
  /\ BuildBands
  /\ step' = "indexing"
  /\ UNCHANGED <<matches, processed, run, batch, large, clusters, apart, docIds,
                 todo, threshold, outcome, strictest>>

(* A document that is in the index keeps the signature it has.             *)
IndexDocuments(D) ==
  /\ step = "indexing"
  /\ D # {} /\ D \subseteq batch \ Indexed
  /\ InsertBatch(run.config, D)
  /\ UNCHANGED <<matches, processed, run, step, batch, large, clusters, apart,
                 docIds, todo, threshold, outcome, strictest>>

FinishIndexing ==
  /\ step = "indexing"
  /\ batch \subseteq Indexed
  /\ step' = "scanning"
  /\ UNCHANGED <<files, run, batch, large, clusters, apart, docIds, todo, threshold,
                 outcome, strictest>>

-------------------------------------------------------------------------------
(* Phase 1.5.                                                              *)

BucketOf(k) == Bucket(k[1], k[2])

LargeBuckets ==
  {k \in Bands \X Hashes : Cardinality(BucketOf(k)) >= ClusterMin}

FindLargeBuckets ==
  /\ step = "scanning"
  /\ large' = LargeBuckets
  /\ step' = "analyzing"
  /\ UNCHANGED <<files, run, batch, clusters, apart, docIds, todo, threshold, outcome, strictest>>

(* The large bucket o covers most of the large bucket k.                   *)
Covers(o, k) ==
  100 * Cardinality(BucketOf(k) \cap BucketOf(o)) >= Overlap * Cardinality(BucketOf(k))

(* The ways to choose one covering bucket in each of min_bands - 1 other   *)
(* bands: a hash map is walked in any order, and no further than needed.   *)
Choices(k) ==
  {K \in SUBSET {o \in LargeBuckets : Covers(o, k)} :
     /\ k \in K
     /\ Cardinality(K) = MinBands
     /\ \A o, p \in K : o[1] = p[1] => o = p}

(* Mutant: the bucket stands for all of them.                              *)
VerifiedByCount(K, k) == BucketOf(k)

(* The documents that are in all of the chosen buckets.                    *)
Verified(K, k) == {d \in BucketOf(k) : \A o \in K : d \in BucketOf(o)}

AlreadyFound(k) ==
  \E C \in clusters :
    100 * Cardinality(BucketOf(k) \cap C) > Overlap * Cardinality(BucketOf(k) \cup C)

(* The largest bucket is next.                                             *)
Analyze(k) ==
  /\ step = "analyzing"
  /\ k \in large
  /\ \A o \in large : Cardinality(BucketOf(o)) <= Cardinality(BucketOf(k))
  /\ large' = large \ {k}
  /\ IF AlreadyFound(k) \/ Choices(k) = {}
     THEN UNCHANGED clusters
     ELSE \E K \in Choices(k) :
            clusters' = IF Cardinality(Verified(K, k)) >= ClusterMin
                        THEN clusters \cup {Verified(K, k)}
                        ELSE clusters
  /\ UNCHANGED <<files, run, step, batch, apart, docIds, todo, threshold, outcome, strictest>>

(* Mutant: the canonical document gets a record too.                       *)
ClusterEdgesWithSelf(C) == {{c, d} : c \in {x \in C : \A y \in C : x <= y}, d \in C}

(* Each document of a cluster but the lowest is a child of the lowest.     *)
ClusterEdges(C) ==
  {{c, d} : c \in {x \in C : \A y \in C : x <= y},
            d \in {x \in C : \E y \in C : y < x}}

Linked(C) == C \subseteq apart /\ ClusterEdges(C) \subseteq matches

(* One transaction per cluster.                                            *)
LinkCluster(C) ==
  /\ step = "analyzing" /\ large = {}
  /\ C \in clusters /\ ~ Linked(C)
  /\ matches' = matches \cup ClusterEdges(C)
  /\ apart' = apart \cup C
  /\ UNCHANGED <<index, processed, run, step, batch, large, clusters, docIds,
                 todo, threshold, outcome, strictest>>

AfterDetection ==
  IF run.fresh /\ ~run.normal THEN "removing matches" ELSE "choosing"

FinishDetection ==
  /\ step = "analyzing" /\ large = {} /\ \A C \in clusters : Linked(C)
  /\ step' = AfterDetection
  /\ UNCHANGED <<files, run, batch, large, clusters, apart, docIds, todo, threshold,
                 outcome, strictest>>

(* A detection that fails, after any of its reads or writes, is logged and *)
(* otherwise ignored.                                                      *)
DetectionFails ==
  /\ step \in {"scanning", "analyzing"}
  /\ apart' = {} /\ large' = {}
  /\ step' = AfterDetection
  /\ UNCHANGED <<files, run, batch, clusters, docIds, todo, threshold, outcome, strictest>>

-------------------------------------------------------------------------------
(* Phase 2.                                                                *)

(* A list of documents is looked at again, acknowledged or not; without a  *)
(* list everything in the index that is not acknowledged is.  The          *)
(* threshold, an argument of the run, is not read before.                  *)
ChooseDocuments(t) ==
  LET list == IF run.normal THEN batch ELSE Indexed
  IN  /\ step = "choosing"
      /\ IF run.normal \/ apart # {}
         THEN /\ docIds' = list \ apart
              /\ processed' = processed \ docIds'
         ELSE /\ docIds' = list \ processed
              /\ UNCHANGED processed
      /\ todo' = docIds' /\ threshold' = t
      /\ step' = "comparing"
      /\ UNCHANGED <<index, matches, run, batch, large, clusters, apart, outcome, strictest>>

(* Mutant: every pair is left to its lower UUID.                           *)
ComparesUpwards(d, e) == d < e

(* A pair with both ends in the run is left to its lower UUID.             *)
Compares(d, e) == e \notin docIds \/ d < e

Compare(d) ==
  /\ step = "comparing"
  /\ d \in todo
  /\ matches' = matches \cup
       {{d, e} : e \in {x \in Candidates(d) : Similar(d, x) /\ Compares(d, x)}}
  /\ processed' = processed \cup {d}
  /\ todo' = todo \ {d}
  /\ strictest' = IF strictest = Lost \/ bands = {} THEN Lost
                  ELSE IF threshold > strictest THEN threshold ELSE strictest
  /\ UNCHANGED <<index, run, step, batch, large, clusters, apart, docIds,
                 threshold, outcome>>

FinishRun ==
  /\ step = "comparing" /\ todo = {}
  /\ step' = "idle" /\ outcome' = "ok"
  /\ batch' = {} /\ docIds' = {} /\ threshold' = 0
  /\ UNCHANGED <<files, run, large, clusters, apart, todo, strictest>>

Forget ==
  /\ run' = NoRun /\ batch' = {} /\ large' = {} /\ clusters' = {} /\ apart' = {}
  /\ docIds' = {} /\ todo' = {} /\ threshold' = 0

(* The process dies, or an operation fails and the run returns its error,  *)
(* as it does if the metadata of the index is another's.                   *)
Interrupt ==
  /\ step # "idle"
  /\ Forget
  /\ step' = "idle" /\ outcome' = "failed"
  /\ UNCHANGED <<files, strictest>>

-------------------------------------------------------------------------------

Start ==
  \/ \E c \in Configs, fresh \in BOOLEAN, D \in (SUBSET Docs) \ {{}} : StartNormal(c, fresh, D)
  \/ \E fresh \in BOOLEAN : StartIndexOnly(fresh)

Phase1 ==
  \/ RemoveLsh
  \/ OpenIndex
  \/ BuildLegacyBands
  \/ \E D \in SUBSET batch : IndexDocuments(D)
  \/ FinishIndexing

Phase1_5 ==
  \/ FindLargeBuckets
  \/ \E k \in large : Analyze(k)
  \/ \E C \in clusters : LinkCluster(C)
  \/ FinishDetection
  \/ DetectionFails

Phase2 ==
  \/ RemoveMatches
  \/ RemoveState
  \/ \E t \in Thresholds : ChooseDocuments(t)
  \/ \E d \in todo : Compare(d)
  \/ FinishRun

Next == Start \/ Phase1 \/ Phase1_5 \/ Phase2 \/ Interrupt

Spec == Init /\ [][Next]_vars

-------------------------------------------------------------------------------
(* Properties.                                                             *)

(* Every variable has its type, Phase 2 is given indexed documents, and no *)
(* document is recorded as a duplicate of itself (run_phase_1_5).          *)
TypeOK ==
  /\ IndexTypeOK
  /\ \A p \in matches : p \subseteq Docs /\ Cardinality(p) = 2
  /\ processed \subseteq Docs
  /\ run \in Runs
  /\ step \in {"idle", "removing index", "removing matches", "removing state",
               "opening", "building", "indexing", "scanning", "analyzing",
               "choosing", "comparing"}
  /\ batch \subseteq Docs
  /\ large \subseteq Bands \X Hashes
  /\ clusters \subseteq SUBSET Docs /\ apart \subseteq Docs
  /\ todo \subseteq docIds /\ docIds \subseteq Docs
  /\ step = "comparing" => docIds \subseteq Indexed
  /\ outcome \in {"none", "ok", "failed"}
  /\ threshold \in Nat
  /\ strictest \in Nat \cup {Lost}

(* The documents of a pathological cluster pairwise agree in min_bands     *)
(* bands, the same ones for all pairs.  They are linked for that without   *)
(* being compared, so it is all that is known of them: the values of those *)
(* bands, not the whole signature.  It holds also if the large buckets     *)
(* that overlap each miss some of the documents, whatever the order in     *)
(* which buckets are looked at (find_pathological_clusters: "keep only the *)
(* documents verified across the counted bands").                          *)
AgreeIn(C, T) ==
  \A b \in T, d \in C, e \in C : d \in Indexed /\ e \in Indexed /\ Agree(d, e, b)

ClustersAgree ==
  step \notin {"idle", "removing index"} =>
    \A C \in clusters : \E T \in SUBSET Bands : Cardinality(T) = MinBands /\ AgreeIn(C, T)

(* An index-only run that ends well has every two documents of the index   *)
(* that meet in a bucket and are similar on record, or linked to one other *)
(* document: whatever normal and index-only runs acknowledged, left undone *)
(* or set apart before it, and whether Phase 1.5 found clusters, found     *)
(* none or failed.  Similar is what is similar at every threshold that     *)
(* documents were acknowledged at: a lower threshold does not reopen them. *)
(* Excepted are documents set apart in different clusters, those set apart *)
(* by a fresh run, which deletes the edges that link them, and indexes and *)
(* checkpoints whose edges may be lost.                                    *)
Joined(p) ==
  p \in matches \/ \E c \in Docs : \A d \in p : d = c \/ {c, d} \in matches

Promised(p) ==
  p \subseteq apart => ~run.fresh /\ \E C \in clusters : p \subseteq C

Owed(d, e, t) == SimilarAt(d, e, t) /\ \E b \in Bands : Agree(d, e, b)

IndexOnlyRunIsExhaustive ==
  step = "idle" /\ outcome = "ok" /\ ~run.normal /\ strictest # Lost =>
    \A d, e \in Indexed : Owed(d, e, strictest) /\ Promised({d, e}) => Joined({d, e})

===============================================================================
