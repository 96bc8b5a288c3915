---------------------------- MODULE FromIndex_proofs ----------------------------
(***************************************************************************)
(* Proofs about FromIndex and LshIndex, for any documents, hashes,         *)
(* configurations and thresholds, and any finite number of bands.          *)
(* IndexInv adds to the properties what a run knows at each stage: which   *)
(* configuration it has validated, that the buckets are complete before    *)
(* anything is inserted, that no cluster is known before the index is      *)
(* final, and that its batch is indexed when Phase 1 is over.              *)
(***************************************************************************)
EXTENDS FromIndex, FiniteSetTheorems, Functions, WellFoundedInduction, TLAPS

BuildingIndex == {"removing index", "opening", "building", "indexing"}
Clearing      == {"removing index", "removing matches", "removing state"}

Stages ==
  /\ run.normal => run.config \in Configs
  /\ step \in BuildingIndex => run.normal
  /\ step \in {"building", "indexing"} => metadata = run.config
  /\ step = "indexing" => bands = EntriesOf(signatures)
  /\ run.normal /\ step \in BuildingIndex \cup Clearing => clusters = {}
  /\ run.normal /\ step \in {"scanning", "analyzing", "choosing"} => batch \subseteq Indexed

IndexInv == TypeOK /\ Stages /\ OneConfiguration /\ BucketsExact /\ ClustersAgree

(* The steps that leave lsh.redb alone are all but four.                   *)
LEMMA IndexChanges ==
  ASSUME Next
  PROVE  \/ UNCHANGED index
         \/ RemoveLsh
         \/ OpenIndex
         \/ BuildLegacyBands
         \/ \E D \in SUBSET batch : IndexDocuments(D)
<1> USE DEF files
<1>1. CASE Start
  BY <1>1 DEF Start, StartNormal, StartIndexOnly, Begin
<1>2. CASE Phase1
  BY <1>2 DEF Phase1, FinishIndexing
<1>3. CASE Phase1_5
  BY <1>3 DEF Phase1_5, FindLargeBuckets, Analyze, LinkCluster, FinishDetection,
              DetectionFails
<1>4. CASE Phase2
  BY <1>4 DEF Phase2, RemoveMatches, RemoveState, ChooseDocuments, Compare, FinishRun
<1>5. CASE Interrupt
  BY <1>5 DEF Interrupt
<1> QED
  BY <1>1, <1>2, <1>3, <1>4, <1>5 DEF Next

-------------------------------------------------------------------------------
(* One configuration.                                                      *)

LEMMA InitOneConfiguration ==
  ASSUME Init
  PROVE  OneConfiguration
<1>1. PICK c \in Configs, D \in SUBSET Docs :
        /\ signatures = [d \in D |-> Signature[c][d]]
        /\ metadata \in {None, c}
  BY DEF Init, IndexInit
<1> QED
  BY <1>1 DEF OneConfiguration, Indexed

LEMMA StepOneConfiguration ==
  ASSUME IndexInv, Next
  PROVE  OneConfiguration'
<1> USE DEF IndexInv, OneConfiguration, Indexed
<1>1. CASE UNCHANGED index
  BY <1>1 DEF index
<1>2. CASE RemoveLsh
  BY <1>2 DEF RemoveLsh, RemoveIndex
<1>3. CASE OpenIndex
  <2>1. run.config \in Configs
    BY <1>3 DEF OpenIndex, Stages, BuildingIndex
  <2>2. /\ metadata = run.config \/ Indexed = {}
        /\ metadata' = run.config /\ signatures' = signatures
    BY <1>3 DEF OpenIndex, Validate, Accepts
  <2> QED
    BY <2>1, <2>2, IndexAssumption
<1>4. CASE BuildLegacyBands
  BY <1>4 DEF BuildLegacyBands, BuildBands
<1>5. ASSUME NEW D \in SUBSET batch, IndexDocuments(D)
      PROVE  OneConfiguration'
  <2> DEFINE c == run.config
  <2>1. c \in Configs /\ metadata = c /\ metadata' = c
    BY <1>5 DEF IndexDocuments, InsertBatch, Stages, BuildingIndex
  <2>2. \A d \in Indexed : signatures[d] = Signature[c][d]
    BY <2>1, IndexAssumption
  <2>3. signatures' = [d \in Indexed \cup D |->
                         IF d \in D THEN [e \in D |-> Signature[c][e]][d] ELSE signatures[d]]
    BY <1>5 DEF IndexDocuments, InsertBatch
  <2> QED
    BY <2>1, <2>2, <2>3
<1> QED
  BY <1>1, <1>2, <1>3, <1>4, <1>5, IndexChanges

-------------------------------------------------------------------------------
(* Buckets.                                                                *)

(* The entries of a larger index are those of its parts.                   *)
LEMMA EntriesOfUnion ==
  ASSUME NEW s, NEW t, NEW u,
         DOMAIN u = DOMAIN s \cup DOMAIN t,
         \A d \in DOMAIN s : u[d] = s[d],
         \A d \in DOMAIN t : u[d] = t[d]
  PROVE  EntriesOf(u) = EntriesOf(s) \cup EntriesOf(t)
BY DEF EntriesOf

LEMMA StepBucketsExact ==
  ASSUME IndexInv, Next
  PROVE  BucketsExact' /\ (step' = "indexing" => bands' = EntriesOf(signatures)')
<1> USE DEF IndexInv, BucketsExact
<1>1. ASSUME Indexed = {}
      PROVE  EntriesOf(signatures) = {}
  BY <1>1 DEF EntriesOf, Indexed
<1>2. CASE RemoveLsh
  BY <1>2 DEF RemoveLsh, RemoveIndex
<1>3. CASE OpenIndex
  BY <1>1, <1>3 DEF OpenIndex, Validate, NeedsBands, EntriesOf
<1>4. CASE BuildLegacyBands
  BY <1>4 DEF BuildLegacyBands, BuildBands, EntriesOf
<1>5. ASSUME NEW D \in SUBSET batch, IndexDocuments(D)
      PROVE  bands' = EntriesOf(signatures)'
  <2> DEFINE new == [d \in D |-> Signature[run.config][d]]
  <2>1. /\ D \cap Indexed = {}
        /\ signatures' = [d \in Indexed \cup D |-> IF d \in D THEN new[d] ELSE signatures[d]]
        /\ bands' = bands \cup EntriesOf(new)
        /\ step = "indexing"
    BY <1>5 DEF IndexDocuments, InsertBatch
  <2>2. bands = EntriesOf(signatures)
    BY <2>1 DEF Stages
  <2>3. DOMAIN signatures' = DOMAIN signatures \cup DOMAIN new
    BY <2>1 DEF Indexed
  <2>4. \A d \in DOMAIN signatures : signatures'[d] = signatures[d]
    BY <2>1 DEF Indexed
  <2>5. \A d \in DOMAIN new : signatures'[d] = new[d]
    BY <2>1
  <2> HIDE DEF new
  <2>6. EntriesOf(signatures') = EntriesOf(signatures) \cup EntriesOf(new)
    BY <2>3, <2>4, <2>5, EntriesOfUnion
  <2>7. EntriesOf(signatures)' = EntriesOf(signatures')
    BY DEF EntriesOf
  <2> QED
    BY <2>1, <2>2, <2>6, <2>7
<1>6. CASE UNCHANGED index
  <2>1. BucketsExact'
    BY <1>6 DEF index, EntriesOf
  <2>2. step' = "indexing" => step = "indexing" \/ OpenIndex \/ BuildLegacyBands
    BY DEF Next, Start, StartNormal, StartIndexOnly, Begin, Phase1, RemoveLsh,
           IndexDocuments, FinishIndexing, Phase1_5, FindLargeBuckets, Analyze,
           LinkCluster, FinishDetection, DetectionFails, AfterDetection, Phase2,
           RemoveMatches, RemoveState, ChooseDocuments, Compare, FinishRun, Interrupt
  <2> QED
    BY <1>3, <1>4, <1>6, <2>1, <2>2 DEF index, Stages, EntriesOf
<1> QED
  BY <1>2, <1>3, <1>4, <1>5, <1>6, IndexChanges

-------------------------------------------------------------------------------
(* Clusters.                                                               *)

(* The documents verified over min_bands buckets share one hash in each of *)
(* the bands of those buckets, for the buckets hold whom they should.      *)
LEMMA VerifiedAgree ==
  ASSUME BucketsExact, NEW k \in Bands \X Hashes, NEW K \in Choices(k)
  PROVE  \E T \in SUBSET Bands : Cardinality(T) = MinBands /\ AgreeIn(Verified(K, k), T)
<1> DEFINE T == {o[1] : o \in K}
           band == [o \in K |-> o[1]]
<1>1. /\ K \subseteq Bands \X Hashes
      /\ Cardinality(K) = MinBands
      /\ \A o, p \in K : o[1] = p[1] => o = p
  BY DEF Choices, LargeBuckets
<1>2. T \subseteq Bands
  BY <1>1
<1>3. IsFiniteSet(T)
  BY <1>2, IndexAssumption, FS_Subset
<1>4. band \in Bijection(K, T)
  BY <1>1 DEF Bijection, Injection, Surjection, IsInjective
<1>5. IsFiniteSet(K)
  BY <1>3, <1>4, FS_Injection DEF Bijection
<1>6. Cardinality(T) = MinBands
  BY <1>1, <1>4, <1>5, FS_Bijection DEF ExistsBijection
<1>7. AgreeIn(Verified(K, k), T)
  <2> SUFFICES ASSUME NEW o \in K, NEW d \in Verified(K, k), NEW e \in Verified(K, k)
               PROVE  /\ d \in Indexed /\ e \in Indexed
                      /\ Agree(d, e, o[1])
    BY DEF AgreeIn
  <2>1. <<o[1], o[2], d>> \in bands /\ <<o[1], o[2], e>> \in bands
    BY DEF Verified, BucketOf, Bucket
  <2>2. bands = EntriesOf(signatures)
    BY <2>1 DEF BucketsExact
  <2> QED
    BY <2>1, <2>2 DEF EntriesOf, Indexed, Agree
<1> QED
  BY <1>2, <1>6, <1>7

(* What agreed goes on to agree while the index stays as it is.            *)
LEMMA AgreeInStays ==
  ASSUME UNCHANGED index, NEW C, NEW T, AgreeIn(C, T)
  PROVE  AgreeIn(C, T)'
<1>1. signatures' = signatures
  BY DEF index
<1> QED
  BY <1>1 DEF AgreeIn, Agree, Indexed

LEMMA AgreementStays ==
  ASSUME ClustersAgree, clusters' \subseteq clusters,
         step' \notin {"idle", "removing index"} => step \notin {"idle", "removing index"},
         UNCHANGED index
  PROVE  ClustersAgree'
<1> SUFFICES ASSUME step' \notin {"idle", "removing index"}, NEW C \in clusters'
             PROVE  \E T \in SUBSET Bands : Cardinality(T) = MinBands /\ AgreeIn(C, T)'
  BY DEF ClustersAgree
<1>1. PICK T \in SUBSET Bands : Cardinality(T) = MinBands /\ AgreeIn(C, T)
  BY DEF ClustersAgree
<1> QED
  BY <1>1, AgreeInStays

LEMMA StepClustersAgree ==
  ASSUME IndexInv, Next
  PROVE  ClustersAgree'
<1> USE DEF IndexInv, files
<1>1. CASE Start
  BY <1>1 DEF Start, StartNormal, StartIndexOnly, Begin, ClustersAgree
<1>2. CASE Phase1 \/ RemoveMatches \/ RemoveState
  <2>1. CASE step \in BuildingIndex
    <3>1. clusters = {} /\ clusters' = clusters
      BY <1>2, <2>1 DEF Stages, Phase1, RemoveLsh, OpenIndex, BuildLegacyBands,
                        IndexDocuments, FinishIndexing, RemoveMatches, RemoveState
    <3> QED
      BY <3>1 DEF ClustersAgree
  <2>2. CASE step \notin BuildingIndex
    BY <1>2, <2>2, AgreementStays
       DEF BuildingIndex, Phase1, RemoveLsh, OpenIndex, BuildLegacyBands, IndexDocuments,
           FinishIndexing, RemoveMatches, RemoveState
  <2> QED
    BY <2>1, <2>2
<1>3. ASSUME NEW k \in large, Analyze(k)
      PROVE  ClustersAgree'
  <2>1. UNCHANGED index /\ UNCHANGED step
    BY <1>3 DEF Analyze
  <2>2. k \in Bands \X Hashes
    BY DEF TypeOK
  <2>3. \A C \in clusters' : C \in clusters \/ \E K \in Choices(k) : C = Verified(K, k)
    BY <1>3 DEF Analyze
  <2>4. ASSUME step \notin {"idle", "removing index"}, NEW C \in clusters'
        PROVE  \E T \in SUBSET Bands : Cardinality(T) = MinBands /\ AgreeIn(C, T)
    BY <2>2, <2>3, <2>4, VerifiedAgree DEF ClustersAgree
  <2>5. ASSUME step' \notin {"idle", "removing index"}, NEW C \in clusters'
        PROVE  \E T \in SUBSET Bands : Cardinality(T) = MinBands /\ AgreeIn(C, T)'
    BY <2>1, <2>4, <2>5, AgreeInStays
  <2> QED
    BY <2>5 DEF ClustersAgree
<1>4. CASE FindLargeBuckets \/ FinishDetection \/ DetectionFails
           \/ (\E t \in Thresholds : ChooseDocuments(t)) \/ FinishRun
  BY <1>4, AgreementStays DEF FindLargeBuckets, FinishDetection, DetectionFails,
                              ChooseDocuments, FinishRun
<1>5. ASSUME NEW C \in clusters, LinkCluster(C)
      PROVE  ClustersAgree'
  BY <1>5, AgreementStays DEF LinkCluster
<1>6. ASSUME NEW d \in todo, Compare(d)
      PROVE  ClustersAgree'
  BY <1>6, AgreementStays DEF Compare
<1>7. CASE Interrupt
  BY <1>7 DEF Interrupt, ClustersAgree
<1> QED
  BY <1>1, <1>2, <1>3, <1>4, <1>5, <1>6, <1>7 DEF Next, Phase1_5, Phase2

-------------------------------------------------------------------------------
(* Stages of a run.                                                        *)

LEMMA StepStages ==
  ASSUME IndexInv, Next
  PROVE  Stages'
<1> USE DEF IndexInv, Stages, BuildingIndex, Clearing, files, index, Indexed
<1>0. step' = "indexing" => bands' = EntriesOf(signatures)'
  BY StepBucketsExact
<1>1. CASE Start
  <2>1. ASSUME NEW r \in Runs, NEW D, NEW s, Begin(r, D, s),
               r.normal => r.config \in Configs /\ s \in {"removing index", "opening"},
               ~r.normal => s = "scanning"
        PROVE  Stages'
    BY <2>1 DEF Begin
  <2>2. ASSUME NEW c \in Configs, NEW fresh \in BOOLEAN, NEW D, StartNormal(c, fresh, D)
        PROVE  Stages'
    BY <2>1, <2>2 DEF StartNormal, Runs
  <2>3. ASSUME NEW fresh \in BOOLEAN, StartIndexOnly(fresh)
        PROVE  Stages'
    BY <2>1, <2>3 DEF StartIndexOnly, Runs
  <2> QED
    BY <1>1, <2>2, <2>3 DEF Start
<1>2. CASE RemoveLsh \/ RemoveMatches \/ RemoveState
  BY <1>0, <1>2 DEF RemoveLsh, RemoveMatches, RemoveState
<1>3. CASE OpenIndex \/ BuildLegacyBands
  BY <1>0, <1>3 DEF OpenIndex, Validate, BuildLegacyBands, BuildBands
<1>4. ASSUME NEW D \in SUBSET batch, IndexDocuments(D)
      PROVE  Stages'
  BY <1>0, <1>4 DEF IndexDocuments, InsertBatch
<1>5. CASE FinishIndexing
  BY <1>0, <1>5 DEF FinishIndexing
<1>6. CASE FindLargeBuckets \/ FinishDetection \/ DetectionFails
  BY <1>0, <1>6 DEF FindLargeBuckets, FinishDetection, DetectionFails, AfterDetection
<1>7. ASSUME NEW k \in large, Analyze(k)
      PROVE  Stages'
  BY <1>0, <1>7 DEF Analyze
<1>8. ASSUME NEW C \in clusters, LinkCluster(C)
      PROVE  Stages'
  BY <1>0, <1>8 DEF LinkCluster
<1>9. ASSUME NEW t \in Thresholds, ChooseDocuments(t)
      PROVE  Stages'
  BY <1>0, <1>9 DEF ChooseDocuments
<1>10. ASSUME NEW d \in todo, Compare(d)
       PROVE  Stages'
  BY <1>0, <1>10 DEF Compare
<1>11. CASE FinishRun
  BY <1>11 DEF FinishRun
<1>12. CASE Interrupt
  <2>1. step' = "idle" /\ ~run'.normal
    BY <1>12 DEF Interrupt, Forget, NoRun
  <2> QED
    BY <2>1
<1> QED
  BY <1>1, <1>2, <1>3, <1>4, <1>5, <1>6, <1>7, <1>8, <1>9, <1>10, <1>11, <1>12
     DEF Next, Phase1, Phase1_5, Phase2

-------------------------------------------------------------------------------
(* Types.                                                                  *)

(* Two documents are a pair, whichever is named first.                     *)
LEMMA PairOf ==
  ASSUME NEW c \in Docs, NEW d \in Docs, c # d
  PROVE  {c, d} \subseteq Docs /\ Cardinality({c, d}) = 2
<1>1. Cardinality({c}) = 1 /\ IsFiniteSet({c})
  BY FS_Singleton
<1>2. Cardinality({c} \cup {d}) = Cardinality({c}) + 1
  BY <1>1, FS_AddElement
<1>3. {c} \cup {d} = {c, d}
  OBVIOUS
<1> QED
  BY <1>1, <1>2, <1>3

(* Signatures of documents give entries of documents.                      *)
LEMMA EntriesTyped ==
  ASSUME NEW s, DOMAIN s \subseteq Docs, \A d \in DOMAIN s : s[d] \in MinHashes
  PROVE  EntriesOf(s) \subseteq Bands \X Hashes \X Docs
<1>1. ASSUME NEW b \in Bands, NEW d \in DOMAIN s
      PROVE  <<b, BandHash[s[d]][b], d>> \in Bands \X Hashes \X Docs
  <2>1. BandHash[s[d]][b] \in Hashes
    BY IndexAssumption
  <2> QED
    BY <2>1
<1> QED
  BY <1>1 DEF EntriesOf

LEMMA StepIndexTypeOK ==
  ASSUME IndexInv, Next
  PROVE  IndexTypeOK'
<1> USE DEF IndexInv, TypeOK, IndexTypeOK, Indexed
<1>1. CASE UNCHANGED index
  BY <1>1 DEF index
<1>2. CASE RemoveLsh
  BY <1>2 DEF RemoveLsh, RemoveIndex
<1>3. CASE OpenIndex
  BY <1>3 DEF OpenIndex, Validate, Stages, BuildingIndex
<1>4. CASE BuildLegacyBands
  BY <1>4, EntriesTyped DEF BuildLegacyBands, BuildBands
<1>5. ASSUME NEW D \in SUBSET batch, IndexDocuments(D)
      PROVE  IndexTypeOK'
  <2> DEFINE new == [d \in D |-> Signature[run.config][d]]
  <2>1. /\ signatures' = [d \in Indexed \cup D |-> IF d \in D THEN new[d] ELSE signatures[d]]
        /\ bands' = bands \cup EntriesOf(new)
        /\ metadata' = metadata
    BY <1>5 DEF IndexDocuments, InsertBatch
  <2>2. run.config \in Configs /\ D \subseteq Docs
    BY <1>5 DEF IndexDocuments, Stages, BuildingIndex
  <2>3. DOMAIN new = D /\ \A d \in D : new[d] \in MinHashes
    <3>1. Signature[run.config] \in [Docs -> MinHashes]
      BY <2>2, IndexAssumption
    <3>2. \A d \in D : Signature[run.config][d] \in MinHashes
      BY <2>2, <3>1
    <3> QED
      BY <3>2
  <2> HIDE DEF new
  <2>4. EntriesOf(new) \subseteq Bands \X Hashes \X Docs
    BY <2>2, <2>3, EntriesTyped
  <2>5. \A d \in Indexed \cup D : signatures'[d] \in MinHashes
    BY <2>1, <2>3
  <2> QED
    BY <2>1, <2>2, <2>4, <2>5
<1> QED
  BY <1>1, <1>2, <1>3, <1>4, <1>5, IndexChanges

(* The edges of a cluster join two documents each.                         *)
LEMMA ClusterEdgesArePairs ==
  ASSUME NEW C \in SUBSET Docs, NEW p \in ClusterEdges(C)
  PROVE  p \subseteq Docs /\ Cardinality(p) = 2
<1>1. PICK c \in C, d \in C : p = {c, d} /\ (\A y \in C : c <= y) /\ (\E y \in C : y < d)
  BY DEF ClusterEdges
<1>2. c # d
  BY <1>1, IndexAssumption
<1> QED
  BY <1>1, <1>2, PairOf

LEMMA StepMatchesTyped ==
  ASSUME IndexInv, Next
  PROVE  \A p \in matches' : p \subseteq Docs /\ Cardinality(p) = 2
<1> USE DEF IndexInv, TypeOK
<1>1. ASSUME NEW C \in clusters, LinkCluster(C)
      PROVE  \A p \in matches' : p \subseteq Docs /\ Cardinality(p) = 2
  <2>1. C \in SUBSET Docs /\ matches' = matches \cup ClusterEdges(C)
    BY <1>1 DEF LinkCluster
  <2> QED
    BY <2>1, ClusterEdgesArePairs
<1>2. ASSUME NEW d \in todo, Compare(d)
      PROVE  \A p \in matches' : p \subseteq Docs /\ Cardinality(p) = 2
  <2>1. d \in Docs
    OBVIOUS
  <2>2. ASSUME NEW e \in Candidates(d), Similar(d, e)
        PROVE  {d, e} \subseteq Docs /\ Cardinality({d, e}) = 2
    <3>1. d # e
      BY <2>2 DEF Similar, SimilarAt
    <3>2. \E b \in Bands : e \in Bucket(b, BandHash[signatures[d]][b])
      BY DEF Candidates
    <3>3. e \in Docs
      BY <3>2 DEF Bucket
    <3> QED
      BY <2>1, <3>1, <3>3, PairOf
  <2> QED
    BY <1>2, <2>2 DEF Compare
<1>3. CASE matches' = matches \/ matches' = {}
  BY <1>3
<1>4. \/ matches' = matches \/ matches' = {}
      \/ \E C \in clusters : LinkCluster(C)
      \/ \E d \in todo : Compare(d)
  BY DEF files, Next, Start, StartNormal, StartIndexOnly, Begin, Phase1, RemoveLsh,
         OpenIndex, BuildLegacyBands, IndexDocuments, FinishIndexing, Phase1_5,
         FindLargeBuckets, Analyze, FinishDetection, DetectionFails, Phase2,
         RemoveMatches, RemoveState, ChooseDocuments, FinishRun, Interrupt
<1> QED
  BY <1>1, <1>2, <1>3, <1>4

LEMMA StepTypeOK ==
  ASSUME IndexInv, Next
  PROVE  TypeOK'
<1> USE DEF IndexInv, TypeOK, files, index, Indexed
<1>0. IndexTypeOK' /\ \A p \in matches' : p \subseteq Docs /\ Cardinality(p) = 2
  BY StepIndexTypeOK, StepMatchesTyped
<1>1. CASE Start
  <2>1. ASSUME NEW r \in Runs, NEW D \in SUBSET Docs,
               NEW s \in {"removing index", "opening", "scanning"}, Begin(r, D, s)
        PROVE  TypeOK'
    BY <1>0, <2>1 DEF Begin
  <2>2. ASSUME NEW c \in Configs, NEW fresh \in BOOLEAN, NEW D \in (SUBSET Docs) \ {{}},
               StartNormal(c, fresh, D)
        PROVE  TypeOK'
    BY <2>1, <2>2 DEF StartNormal, Runs
  <2>3. ASSUME NEW fresh \in BOOLEAN, StartIndexOnly(fresh)
        PROVE  TypeOK'
    BY <2>1, <2>3 DEF StartIndexOnly, Runs
  <2> QED
    BY <1>1, <2>2, <2>3 DEF Start
<1>2. CASE RemoveLsh \/ RemoveMatches \/ RemoveState
  <2>1. CASE RemoveLsh
    BY <1>0, <2>1 DEF RemoveLsh
  <2>2. CASE RemoveMatches
    BY <1>0, <2>2 DEF RemoveMatches
  <2>3. CASE RemoveState
    BY <1>0, <2>3 DEF RemoveState
  <2> QED
    BY <1>2, <2>1, <2>2, <2>3
<1>3. CASE OpenIndex \/ BuildLegacyBands \/ FinishIndexing
  BY <1>0, <1>3 DEF OpenIndex, BuildLegacyBands, FinishIndexing
<1>4. ASSUME NEW D \in SUBSET batch, IndexDocuments(D)
      PROVE  TypeOK'
  BY <1>0, <1>4 DEF IndexDocuments
<1>5. CASE FindLargeBuckets
  BY <1>0, <1>5 DEF FindLargeBuckets, LargeBuckets
<1>6. CASE FinishDetection \/ DetectionFails
  BY <1>0, <1>6 DEF FinishDetection, DetectionFails, AfterDetection
<1>7. ASSUME NEW k \in large, Analyze(k)
      PROVE  TypeOK'
  <2>1. \A K \in Choices(k) : Verified(K, k) \in SUBSET Docs
    BY DEF Verified, BucketOf, Bucket
  <2>2. clusters' \subseteq SUBSET Docs /\ large' \subseteq large
    BY <1>7, <2>1 DEF Analyze
  <2> QED
    BY <1>0, <1>7, <2>2 DEF Analyze
<1>8. ASSUME NEW C \in clusters, LinkCluster(C)
      PROVE  TypeOK'
  BY <1>0, <1>8 DEF LinkCluster
<1>9. ASSUME NEW t \in Thresholds, ChooseDocuments(t)
      PROVE  TypeOK'
  <2> DEFINE list == IF run.normal THEN batch ELSE Indexed
  <2>1. list \subseteq Indexed /\ Indexed \subseteq Docs
    BY <1>9 DEF ChooseDocuments, Stages, IndexTypeOK
  <2>2. /\ docIds' \subseteq list /\ todo' = docIds' /\ processed' \subseteq processed
        /\ step' = "comparing" /\ threshold' \in Nat
        /\ UNCHANGED <<index, matches, run, batch, large, clusters, apart, outcome, strictest>>
    BY <1>9, DetectionAssumption DEF ChooseDocuments
  <2> HIDE DEF list
  <2> QED
    BY <1>0, <2>1, <2>2
<1>10. ASSUME NEW d \in todo, Compare(d)
       PROVE  TypeOK'
  BY <1>0, <1>10 DEF Compare
<1>11. CASE FinishRun
  BY <1>0, <1>11 DEF FinishRun
<1>12. CASE Interrupt
  <2>1. /\ run' \in Runs /\ step' = "idle" /\ outcome' = "failed"
        /\ batch' = {} /\ large' = {} /\ clusters' = {} /\ apart' = {}
        /\ docIds' = {} /\ todo' = {} /\ threshold' = 0
    BY <1>12 DEF Interrupt, Forget, NoRun, Runs
  <2>2. UNCHANGED <<files, strictest>>
    BY <1>12 DEF Interrupt
  <2> QED
    BY <1>0, <2>1, <2>2
<1> QED
  BY <1>1, <1>2, <1>3, <1>4, <1>5, <1>6, <1>7, <1>8, <1>9, <1>10, <1>11, <1>12
     DEF Next, Phase1, Phase1_5, Phase2

-------------------------------------------------------------------------------

LEMMA InitIndexInv ==
  ASSUME Init
  PROVE  IndexInv
<1>1. PICK c \in Configs, D \in SUBSET Docs :
        /\ signatures = [d \in D |-> Signature[c][d]]
        /\ bands = {} /\ metadata \in {None, c}
  BY DEF Init, IndexInit
<1>2. IndexTypeOK
  BY <1>1, IndexAssumption DEF IndexTypeOK, Indexed
<1>3. run \in Runs /\ step = "idle" /\ ~run.normal
  BY DEF Init, NoRun, Runs
<1>4. TypeOK
  BY <1>2, <1>3 DEF Init, TypeOK
<1>5. Stages
  BY <1>3 DEF Stages, BuildingIndex
<1> QED
  BY <1>1, <1>3, <1>4, <1>5, InitOneConfiguration DEF IndexInv, BucketsExact, ClustersAgree

LEMMA StepIndexInv ==
  ASSUME IndexInv, [Next]_vars
  PROVE  IndexInv'
<1>1. CASE Next
  BY <1>1, StepTypeOK, StepStages, StepOneConfiguration, StepBucketsExact,
     StepClustersAgree DEF IndexInv
<1>2. CASE UNCHANGED vars
  <2>1. UNCHANGED <<files, memory, outcome, strictest>>
    BY <1>2 DEF vars
  <2>2. ClustersAgree'
    BY <2>1, AgreementStays DEF IndexInv, files, memory
  <2>3. OneConfiguration'
    BY <2>1 DEF IndexInv, OneConfiguration, Indexed, files, index
  <2>4. BucketsExact'
    BY <2>1 DEF IndexInv, BucketsExact, EntriesOf, files, index
  <2>5. Stages'
    <3>1. EntriesOf(signatures)' = EntriesOf(signatures) /\ Indexed' = Indexed
      BY <2>1 DEF EntriesOf, Indexed, files, index
    <3>2. UNCHANGED <<bands, metadata, run, step, clusters, batch>>
      BY <2>1 DEF files, index, memory
    <3> QED
      BY <3>1, <3>2 DEF IndexInv, Stages
  <2>6. IndexTypeOK'
    BY <2>1 DEF IndexInv, TypeOK, IndexTypeOK, Indexed, files, index
  <2>7. TypeOK'
    BY <2>1, <2>6 DEF IndexInv, TypeOK, Indexed, files, index, memory
  <2> QED
    BY <2>2, <2>3, <2>4, <2>5, <2>7 DEF IndexInv
<1> QED
  BY <1>1, <1>2

(* What all theorems rest on.                                              *)
LEMMA Inductive == Spec => []IndexInv
<1>1. Init => IndexInv
  BY InitIndexInv
<1>2. IndexInv /\ [Next]_vars => IndexInv'
  BY StepIndexInv
<1> QED
  BY <1>1, <1>2, PTL DEF Spec

(* Every variable keeps its type, Phase 2 is only ever given documents of  *)
(* the index, and no edge joins a document with itself.                    *)
THEOREM RunsTyped == Spec => []TypeOK
<1>1. IndexInv => TypeOK
  BY DEF IndexInv
<1> QED
  BY <1>1, Inductive, PTL

(* Whatever configurations runs are started with, and whatever a file held *)
(* at first, validate_or_initialize_metadata and the removal of the index  *)
(* keep the signatures of two configurations from meeting in one file.     *)
THEOREM NeverMixed == Spec => []OneConfiguration
<1>1. IndexInv => OneConfiguration
  BY DEF IndexInv
<1> QED
  BY <1>1, Inductive, PTL

(* The buckets are those of the signatures, or all of them are still to be *)
(* built: insert_batch never meets an index without buckets, wherever runs *)
(* died before.                                                            *)
THEOREM BucketsComplete == Spec => []BucketsExact
<1>1. IndexInv => BucketsExact
  BY DEF IndexInv
<1> QED
  BY <1>1, Inductive, PTL

(* What find_pathological_clusters sets apart from Phase 2 agrees pairwise *)
(* in min_bands bands, for any overlap of the buckets and any order of     *)
(* looking at them.                                                        *)
THEOREM ClustersVerified == Spec => []ClustersAgree
<1>1. IndexInv => ClustersAgree
  BY DEF IndexInv
<1> QED
  BY <1>1, Inductive, PTL

-------------------------------------------------------------------------------
(* Index-only runs are exhaustive.  Unless its edges are lost, whatever    *)
(* state.redb acknowledges is on record as far as it is owed; what a run   *)
(* has compared is on record with everything that it does not leave to a   *)
(* later comparison; and the clusters that Phase 2 does not look at are    *)
(* linked.                                                                 *)

AcknowledgedOnRecord ==
  strictest # Lost =>
    /\ processed \subseteq Indexed
    /\ \A d, e \in processed : Owed(d, e, strictest) => {d, e} \in matches

ComparedOnRecord ==
  step = "comparing" =>
    /\ docIds \cap processed = docIds \ todo
    /\ ~run.normal => Indexed \ docIds \subseteq (IF apart = {} THEN processed ELSE apart)
    /\ strictest # Lost => \A d \in docIds \ todo, e \in Indexed :
                 Owed(d, e, strictest) /\ Compares(d, e) => {d, e} \in matches

ClustersOnRecord ==
  /\ step \in Clearing => run.fresh
  /\ step \in {"choosing", "comparing"} /\ apart # {} /\ ~run.fresh =>
       \A C \in clusters : ClusterEdges(C) \subseteq matches

RecordInv == /\ AcknowledgedOnRecord /\ ComparedOnRecord /\ ClustersOnRecord
             /\ IndexOnlyRunIsExhaustive

(* Owed documents meet in a bucket, and are owed to each other.            *)
LEMMA OwedFound ==
  ASSUME BucketsExact, bands # {}, Indexed \subseteq Docs,
         NEW d \in Indexed, NEW e \in Indexed, d # e, NEW b \in Bands, Agree(d, e, b)
  PROVE  e \in Candidates(d)
<1>1. <<b, BandHash[signatures[e]][b], e>> \in bands
  BY DEF BucketsExact, EntriesOf, Indexed
<1>2. e \in Bucket(b, BandHash[signatures[d]][b])
  BY <1>1 DEF Bucket, Agree
<1> QED
  BY <1>2 DEF Candidates

LEMMA OwedBothWays ==
  ASSUME IndexTypeOK, NEW d \in Indexed, NEW e \in Indexed, NEW t, Owed(d, e, t)
  PROVE  Owed(e, d, t)
<1>1. Jaccard[signatures[e]][signatures[d]] = Jaccard[signatures[d]][signatures[e]]
  BY DetectionAssumption DEF IndexTypeOK
<1> QED
  BY <1>1 DEF Owed, SimilarAt, Agree

(* What is owed at a threshold is owed at all lower ones.                  *)
LEMMA OwedBelow ==
  ASSUME IndexTypeOK, NEW d \in Indexed, NEW e \in Indexed,
         NEW t \in Nat, NEW u \in Nat, t <= u, Owed(d, e, u)
  PROVE  Owed(d, e, t)
<1>1. Jaccard[signatures[d]][signatures[e]] \in Nat
  BY DetectionAssumption DEF IndexTypeOK
<1> QED
  BY <1>1 DEF Owed, SimilarAt

(* Of the documents that stay in the index, the same are owed.             *)
LEMMA OwedStays ==
  ASSUME \A d \in Indexed : signatures'[d] = signatures[d],
         NEW d \in Indexed, NEW e \in Indexed
  PROVE  Owed(d, e, strictest)' <=> Owed(d, e, strictest')
<1>1. signatures'[d] = signatures[d] /\ signatures'[e] = signatures[e]
  OBVIOUS
<1> QED
  BY <1>1 DEF Owed, SimilarAt, Agree

(* All documents of a linked cluster are the same or linked to one.        *)
LEMMA ClusterJoined ==
  ASSUME NEW C \in SUBSET Docs, ClusterEdges(C) \subseteq matches,
         NEW d \in C, NEW e \in C
  PROVE  Joined({d, e})
<1> DEFINE Less == {ss \in Nat \X Nat : ss[1] < ss[2]}
<1>1. IsWellFoundedOn(Less, Nat)
  BY NatLessThanWellFounded DEF OpToRel
<1>2. C \subseteq Nat
  BY IndexAssumption
<1> HIDE DEF Less
<1>3. PICK c \in C : \A x \in C : ~ (<<x, c>> \in Less)
  BY <1>1, <1>2, WFMin
<1>4. \A x \in C : c <= x
  <2>1. \A x \in C : x \in Nat /\ c \in Nat /\ ~ (x < c)
    BY <1>2, <1>3 DEF Less
  <2> QED
    BY <2>1
<1>5. \A x \in C : x # c => c < x
  BY <1>2, <1>4
<1>6. \A x \in C : x = c \/ {c, x} \in matches
  BY <1>4, <1>5 DEF ClusterEdges
<1> QED
  BY <1>6 DEF Joined

-------------------------------------------------------------------------------

(* What is acknowledged stays on record while no edge is deleted, no more  *)
(* is acknowledged, and signatures stay.                                   *)
LEMMA AcknowledgedStays ==
  ASSUME AcknowledgedOnRecord, strictest' = strictest, processed' \subseteq processed,
         matches \subseteq matches', Indexed \subseteq Indexed',
         \A d \in Indexed : signatures'[d] = signatures[d]
  PROVE  AcknowledgedOnRecord'
<1> SUFFICES ASSUME strictest # Lost
             PROVE  /\ processed' \subseteq Indexed'
                    /\ \A d, e \in processed' : Owed(d, e, strictest)' => {d, e} \in matches'
  BY DEF AcknowledgedOnRecord
<1>1. processed \subseteq Indexed /\ \A d, e \in processed : Owed(d, e, strictest) => {d, e} \in matches
  BY DEF AcknowledgedOnRecord
<1>2. \A d, e \in processed' : d \in Indexed /\ e \in Indexed
  BY <1>1
<1>3. \A d, e \in processed' : Owed(d, e, strictest)' => Owed(d, e, strictest)
  BY <1>2, OwedStays
<1> QED
  BY <1>1, <1>3

(* A comparison puts the document on record with whatever it compares.     *)
LEMMA CompareRecords ==
  ASSUME IndexInv, RecordInv, NEW d \in todo, Compare(d), strictest' # Lost
  PROVE  /\ strictest \in Nat /\ strictest' \in Nat /\ strictest <= strictest'
         /\ d \in Indexed /\ d \in docIds
         /\ \A e \in Indexed : Owed(d, e, strictest') /\ Compares(d, e) => {d, e} \in matches'
<1>1. /\ bands # {} /\ step = "comparing" /\ strictest # Lost
      /\ strictest' = IF threshold > strictest THEN threshold ELSE strictest
  BY DEF Compare
<1>2. /\ d \in docIds /\ d \in Indexed /\ Indexed \subseteq Docs
      /\ threshold \in Nat /\ strictest \in Nat /\ IndexTypeOK
  BY <1>1 DEF IndexInv, TypeOK, IndexTypeOK
<1>3. strictest' \in Nat /\ strictest <= strictest' /\ threshold <= strictest'
  BY <1>1, <1>2
<1>4. ASSUME NEW e \in Indexed, Owed(d, e, strictest')
      PROVE  e \in Candidates(d) /\ Similar(d, e)
  <2>1. d # e /\ \E b \in Bands : Agree(d, e, b)
    BY <1>4 DEF Owed, SimilarAt
  <2>2. e \in Candidates(d)
    BY <1>1, <1>2, <2>1, OwedFound DEF IndexInv
  <2>3. Similar(d, e)
    BY <1>2, <1>3, <1>4, OwedBelow DEF Owed, Similar
  <2> QED
    BY <2>2, <2>3
<1>5. \A e : e \in Candidates(d) /\ Similar(d, e) /\ Compares(d, e) => {d, e} \in matches'
  BY DEF Compare
<1> QED
  BY <1>2, <1>3, <1>4, <1>5

(* Whatever the run has compared, and whatever is acknowledged, is then on *)
(* record with it: a pair of the run is left to its lower UUID, which      *)
(* either comes later or came before.                                      *)
LEMMA CompareKeeps ==
  ASSUME IndexInv, RecordInv, NEW d \in todo, Compare(d)
  PROVE  AcknowledgedOnRecord' /\ ComparedOnRecord'
<1>1. /\ step = "comparing" /\ step' = "comparing"
      /\ processed' = processed \cup {d} /\ todo' = todo \ {d}
      /\ UNCHANGED <<index, run, apart, docIds>> /\ matches \subseteq matches'
      /\ strictest' # Lost => strictest # Lost
  BY DEF Compare
<1>2. /\ Indexed' = Indexed /\ \A x \in Indexed : signatures'[x] = signatures[x]
      /\ todo \subseteq docIds /\ docIds \subseteq Indexed /\ docIds \subseteq Nat
  BY <1>1, IndexAssumption DEF index, Indexed, IndexInv, TypeOK
<1>3. \A x, y \in Indexed : Owed(x, y, strictest)' <=> Owed(x, y, strictest')
  BY <1>2, OwedStays
<1>4. docIds \cap processed = docIds \ todo
  BY <1>1 DEF RecordInv, ComparedOnRecord
<1>5. ASSUME strictest' # Lost, NEW x \in Indexed, NEW y \in Indexed, Owed(x, y, strictest')
      PROVE  /\ Owed(x, y, strictest) /\ Owed(y, x, strictest)
             /\ Owed(y, x, strictest') /\ x # y
  <2>1. IndexTypeOK
    BY DEF IndexInv, TypeOK
  <2>2. strictest \in Nat /\ strictest' \in Nat /\ strictest <= strictest'
    BY <1>5, CompareRecords
  <2>3. Owed(x, y, strictest)
    BY <1>5, <2>1, <2>2, OwedBelow
  <2> QED
    BY <1>5, <2>1, <2>3, OwedBothWays DEF Owed, SimilarAt
<1>6. AcknowledgedOnRecord'
  <2> SUFFICES ASSUME strictest' # Lost
               PROVE  /\ processed' \subseteq Indexed
                      /\ \A x, y \in processed' : Owed(x, y, strictest') => {x, y} \in matches'
    BY <1>2, <1>3 DEF AcknowledgedOnRecord
  <2>1. /\ strictest \in Nat /\ strictest' \in Nat /\ strictest <= strictest'
        /\ d \in Indexed /\ d \in docIds
        /\ \A e \in Indexed : Owed(d, e, strictest') /\ Compares(d, e) => {d, e} \in matches'
    BY CompareRecords
  <2>2. processed \subseteq Indexed /\ \A x, y \in processed : Owed(x, y, strictest) => {x, y} \in matches
    BY <1>1 DEF RecordInv, AcknowledgedOnRecord
  <2>3. ASSUME NEW e \in processed, Owed(d, e, strictest')
        PROVE  {d, e} \in matches'
    <3>1. CASE Compares(d, e)
      BY <2>1, <2>2, <2>3, <3>1
    <3>2. CASE ~ Compares(d, e)
      <4>1. e \in docIds /\ ~ d < e /\ d # e
        BY <2>3, <3>2 DEF Compares, Owed, SimilarAt
      <4>2. e < d /\ e \in docIds \ todo
        BY <1>2, <1>4, <2>1, <4>1
      <4>3. {e, d} \in matches
        BY <1>1, <1>5, <2>1, <2>2, <2>3, <4>2 DEF RecordInv, ComparedOnRecord, Compares
      <4>4. {e, d} = {d, e}
        OBVIOUS
      <4> QED
        BY <1>1, <4>3, <4>4
    <3> QED
      BY <3>1, <3>2
  <2>4. ASSUME NEW x \in processed', NEW y \in processed', Owed(x, y, strictest')
        PROVE  {x, y} \in matches'
    <3>1. CASE x \in processed /\ y \in processed
      BY <1>1, <1>5, <2>2, <2>4, <3>1
    <3>2. CASE x = d /\ y \in processed
      BY <2>3, <2>4, <3>2
    <3>3. CASE y = d /\ x \in processed
      <4>1. {d, x} \in matches' /\ {d, x} = {x, y}
        BY <1>5, <2>1, <2>2, <2>3, <2>4, <3>3
      <4> QED
        BY <4>1
    <3>4. x # y
      BY <2>4 DEF Owed, SimilarAt
    <3> QED
      BY <1>1, <3>1, <3>2, <3>3, <3>4
  <2> QED
    BY <1>1, <2>1, <2>2, <2>4
<1>7. ComparedOnRecord'
  <2>1. docIds \cap processed' = docIds \ todo'
    BY <1>1, <1>2, <1>4
  <2>2. ~run.normal => Indexed \ docIds \subseteq (IF apart = {} THEN processed' ELSE apart)
    BY <1>1 DEF RecordInv, ComparedOnRecord
  <2>3. ASSUME strictest' # Lost, NEW x \in docIds \ todo', NEW y \in Indexed, Owed(x, y, strictest'), Compares(x, y)
        PROVE  {x, y} \in matches'
    <3>1. CASE x = d
      BY <2>3, <3>1, CompareRecords
    <3>2. CASE x # d
      <4>1. x \in Indexed /\ x \in docIds \ todo
        BY <1>1, <1>2, <2>3, <3>2
      <4> QED
        BY <1>1, <1>5, <2>3, <4>1 DEF RecordInv, ComparedOnRecord
    <3> QED
      BY <3>1, <3>2
  <2>4. \A x, y : Compares(x, y)' <=> Compares(x, y)
    BY <1>1 DEF Compares
  <2> QED
    BY <1>1, <1>2, <1>3, <2>1, <2>2, <2>3, <2>4 DEF ComparedOnRecord
<1> QED
  BY <1>6, <1>7

(* Every other step leaves what is acknowledged on record, deletes both,   *)
(* or tells of it.                                                         *)
LEMMA StepAcknowledged ==
  ASSUME IndexInv, RecordInv, Next
  PROVE  AcknowledgedOnRecord'
<1> USE DEF RecordInv, files, index
<1>1. CASE RemoveLsh \/ RemoveMatches
  BY <1>1 DEF RemoveLsh, RemoveMatches, AcknowledgedOnRecord
<1>2. CASE RemoveState
  BY <1>2 DEF RemoveState, AcknowledgedOnRecord
<1>3. ASSUME NEW d \in todo, Compare(d)
      PROVE  AcknowledgedOnRecord'
  BY <1>3, CompareKeeps
<1>4. ASSUME NEW D \in SUBSET batch, IndexDocuments(D)
      PROVE  AcknowledgedOnRecord'
  <2>1. /\ D \cap Indexed = {} /\ UNCHANGED <<matches, processed, strictest>>
        /\ Indexed' = Indexed \cup D
        /\ \A d \in Indexed : signatures'[d] = signatures[d]
    BY <1>4 DEF IndexDocuments, InsertBatch, Indexed
  <2> QED
    BY <2>1, AcknowledgedStays
<1>5. ASSUME UNCHANGED signatures, UNCHANGED strictest, processed' \subseteq processed,
             matches \subseteq matches'
      PROVE  AcknowledgedOnRecord'
  BY <1>5, AcknowledgedStays DEF Indexed
<1>6. CASE Start
  BY <1>5, <1>6 DEF Start, StartNormal, StartIndexOnly, Begin
<1>7. CASE OpenIndex \/ BuildLegacyBands \/ FinishIndexing
  BY <1>5, <1>7 DEF OpenIndex, Validate, BuildLegacyBands, BuildBands, FinishIndexing
<1>8. CASE FindLargeBuckets \/ FinishDetection \/ DetectionFails
  BY <1>5, <1>8 DEF FindLargeBuckets, FinishDetection, DetectionFails
<1>9. ASSUME NEW k \in large, Analyze(k)
      PROVE  AcknowledgedOnRecord'
  BY <1>5, <1>9 DEF Analyze
<1>10. ASSUME NEW C \in clusters, LinkCluster(C)
       PROVE  AcknowledgedOnRecord'
  BY <1>5, <1>10 DEF LinkCluster
<1>11. ASSUME NEW t \in Thresholds, ChooseDocuments(t)
       PROVE  AcknowledgedOnRecord'
  <2>1. UNCHANGED signatures /\ UNCHANGED strictest /\ processed' \subseteq processed /\ matches' = matches
    BY <1>11 DEF ChooseDocuments
  <2> QED
    BY <1>5, <2>1
<1>12. CASE FinishRun \/ Interrupt
  BY <1>5, <1>12 DEF FinishRun, Interrupt
<1> QED
  BY <1>1, <1>2, <1>3, <1>4, <1>6, <1>7, <1>8, <1>9, <1>10, <1>11, <1>12
     DEF Next, Phase1, Phase1_5, Phase2

(* A run chooses, of the documents it owes a comparison, those that it     *)
(* does not set apart and, without a list, those not acknowledged.         *)
LEMMA ChooseKeeps ==
  ASSUME IndexInv, RecordInv, NEW t, ChooseDocuments(t)
  PROVE  ComparedOnRecord'
<1> DEFINE list == IF run.normal THEN batch ELSE Indexed
<1>1. /\ IF run.normal \/ apart # {}
         THEN docIds' = list \ apart /\ processed' = processed \ docIds'
         ELSE docIds' = list \ processed /\ processed' = processed
      /\ todo' = docIds' /\ UNCHANGED <<index, run, apart>>
  BY DEF ChooseDocuments
<1>2. Indexed' = Indexed
  BY <1>1 DEF index, Indexed
<1>3. docIds' \cap processed' = {}
  BY <1>1
<1>4. ~run.normal => Indexed \ docIds' \subseteq (IF apart = {} THEN processed' ELSE apart)
  BY <1>1
<1> QED
  BY <1>1, <1>2, <1>3, <1>4 DEF ComparedOnRecord

(* The steps from which a run goes on to compare, or chooses what to.      *)
LEMMA StepCompared ==
  ASSUME IndexInv, RecordInv, Next
  PROVE  ComparedOnRecord'
<1>1. ASSUME NEW t \in Thresholds, ChooseDocuments(t)
      PROVE  ComparedOnRecord'
  BY <1>1, ChooseKeeps
<1>2. ASSUME NEW d \in todo, Compare(d)
      PROVE  ComparedOnRecord'
  BY <1>2, CompareKeeps
<1>3. CASE step' # "comparing"
  BY <1>3 DEF ComparedOnRecord
<1>4. ASSUME Start \/ Phase1 \/ Phase1_5 \/ RemoveMatches \/ RemoveState \/ FinishRun \/ Interrupt
      PROVE  step' # "comparing"
  <2>1. CASE Start
    BY <2>1 DEF Start, StartNormal, StartIndexOnly, Begin
  <2>2. CASE Phase1
    BY <2>2 DEF Phase1, RemoveLsh, OpenIndex, BuildLegacyBands, IndexDocuments, FinishIndexing
  <2>3. CASE Phase1_5
    BY <2>3 DEF Phase1_5, FindLargeBuckets, Analyze, LinkCluster, FinishDetection,
                DetectionFails, AfterDetection
  <2>4. CASE RemoveMatches \/ RemoveState \/ FinishRun \/ Interrupt
    BY <2>4 DEF RemoveMatches, RemoveState, FinishRun, Interrupt
  <2> QED
    BY <1>4, <2>1, <2>2, <2>3, <2>4
<1> QED
  BY <1>1, <1>2, <1>3, <1>4 DEF Next, Phase2

(* The edges of a cluster depend on its documents alone.                   *)
LEMMA EdgesOfTheSame ==
  ASSUME NEW C
  PROVE  ClusterEdges(C)' = ClusterEdges(C)
BY DEF ClusterEdges

(* The clusters are linked before their documents are chosen; only a fresh *)
(* run deletes edges after that.                                           *)
LEMMA StepClustersOnRecord ==
  ASSUME IndexInv, RecordInv, Next
  PROVE  ClustersOnRecord'
<1> USE DEF RecordInv, ClustersOnRecord, Clearing
<1>0. \A C : ClusterEdges(C)' = ClusterEdges(C)
  BY EdgesOfTheSame
<1>1. CASE Start
  <2>1. ASSUME NEW c \in Configs, NEW fresh \in BOOLEAN, NEW D, StartNormal(c, fresh, D)
        PROVE  ClustersOnRecord'
    <3>1. run'.fresh = fresh /\ step' = IF fresh THEN "removing index" ELSE "opening"
      BY <2>1 DEF StartNormal, Begin
    <3> QED
      BY <3>1
  <2>2. ASSUME NEW fresh \in BOOLEAN, StartIndexOnly(fresh)
        PROVE  ClustersOnRecord'
    BY <2>2 DEF StartIndexOnly, Begin
  <2> QED
    BY <1>1, <2>1, <2>2 DEF Start
<1>2. CASE Phase1
  BY <1>2 DEF Phase1, RemoveLsh, OpenIndex, BuildLegacyBands, IndexDocuments, FinishIndexing
<1>3. CASE FindLargeBuckets \/ DetectionFails
  BY <1>3 DEF FindLargeBuckets, DetectionFails, AfterDetection
<1>4. ASSUME NEW k \in large, Analyze(k)
      PROVE  ClustersOnRecord'
  BY <1>4 DEF Analyze
<1>5. ASSUME NEW C \in clusters, LinkCluster(C)
      PROVE  ClustersOnRecord'
  BY <1>5 DEF LinkCluster
<1>6. CASE FinishDetection
  <2>1. /\ \A C \in clusters : ClusterEdges(C) \subseteq matches
        /\ UNCHANGED <<matches, clusters, run>>
        /\ step' = AfterDetection
    BY <1>6 DEF FinishDetection, Linked, files
  <2> QED
    BY <1>0, <2>1 DEF AfterDetection
<1>7. CASE RemoveMatches \/ RemoveState
  BY <1>7 DEF RemoveMatches, RemoveState
<1>8. ASSUME step' = "comparing", step \in {"choosing", "comparing"}, matches \subseteq matches',
             UNCHANGED <<run, apart, clusters>>
      PROVE  ClustersOnRecord'
  BY <1>0, <1>8
<1>9. ASSUME NEW t \in Thresholds, ChooseDocuments(t)
      PROVE  ClustersOnRecord'
  BY <1>8, <1>9 DEF ChooseDocuments
<1>10. ASSUME NEW d \in todo, Compare(d)
       PROVE  ClustersOnRecord'
  BY <1>8, <1>10 DEF Compare
<1>11. CASE FinishRun \/ Interrupt
  BY <1>11 DEF FinishRun, Interrupt
<1> QED
  BY <1>1, <1>2, <1>3, <1>4, <1>5, <1>6, <1>7, <1>9, <1>10, <1>11
     DEF Next, Phase1_5, Phase2

(* At the end of an index-only run, each document of the index has been    *)
(* compared, is acknowledged from before, or is in a linked cluster.       *)
LEMMA FinishIsExhaustive ==
  ASSUME IndexInv, RecordInv, FinishRun
  PROVE  IndexOnlyRunIsExhaustive'
<1>1. /\ step = "comparing" /\ todo = {} /\ UNCHANGED <<index, matches, processed>>
      /\ UNCHANGED <<run, clusters, apart, strictest>>
  BY DEF FinishRun, files
<1>2. ASSUME ~run.normal, strictest # Lost, NEW d \in Indexed, NEW e \in Indexed,
             Owed(d, e, strictest), Promised({d, e})
      PROVE  Joined({d, e})
  <2>1. /\ Indexed \ docIds \subseteq (IF apart = {} THEN processed ELSE apart)
        /\ docIds \cap processed = docIds
        /\ \A x \in docIds, y \in Indexed : Owed(x, y, strictest) /\ Compares(x, y) => {x, y} \in matches
    BY <1>1, <1>2 DEF RecordInv, ComparedOnRecord
  <2>2. \A x, y \in processed : Owed(x, y, strictest) => {x, y} \in matches
    BY <1>2 DEF RecordInv, AcknowledgedOnRecord
  <2>3. {d, e} \in matches => Joined({d, e})
    BY DEF Joined
  <2>4. Owed(e, d, strictest) /\ {e, d} = {d, e}
    BY <1>2, OwedBothWays DEF IndexInv, TypeOK
  <2>5. CASE d \in processed /\ e \in processed
    BY <1>2, <2>2, <2>3, <2>5
  <2>6. CASE d \in docIds /\ e \notin docIds
    BY <1>2, <2>1, <2>3, <2>6 DEF Compares
  <2>7. CASE e \in docIds /\ d \notin docIds
    BY <1>2, <2>1, <2>3, <2>4, <2>7 DEF Compares
  <2>8. CASE d \notin docIds /\ e \notin docIds /\ apart # {}
    <3>1. {d, e} \subseteq apart
      BY <2>1, <2>8
    <3>2. ~run.fresh /\ \E C \in clusters : {d, e} \subseteq C
      BY <1>2, <3>1 DEF Promised
    <3>3. PICK C \in clusters : d \in C /\ e \in C
      BY <3>2
    <3>4. C \in SUBSET Docs /\ ClusterEdges(C) \subseteq matches
      BY <1>1, <2>8, <3>2 DEF IndexInv, TypeOK, RecordInv, ClustersOnRecord
    <3> QED
      BY <3>3, <3>4, ClusterJoined
  <2> QED
    BY <2>1, <2>5, <2>6, <2>7, <2>8
<1>3. Indexed' = Indexed /\ \A d \in Indexed : signatures'[d] = signatures[d]
  BY <1>1 DEF index, Indexed
<1>4. \A p : (Promised(p)' <=> Promised(p)) /\ (Joined(p)' <=> Joined(p))
  BY <1>1 DEF Promised, Joined
<1> QED
  BY <1>1, <1>2, <1>3, <1>4, OwedStays DEF IndexOnlyRunIsExhaustive

(* While a run is going on, or if it has failed, nothing is claimed.       *)
LEMMA StepExhaustive ==
  ASSUME IndexInv, RecordInv, Next
  PROVE  IndexOnlyRunIsExhaustive'
<1>1. CASE FinishRun
  BY <1>1, FinishIsExhaustive
<1>2. CASE ~ (step' = "idle" /\ outcome' = "ok")
  BY <1>2 DEF IndexOnlyRunIsExhaustive
<1>3. ASSUME Start \/ Phase1 \/ Phase1_5 \/ RemoveMatches \/ RemoveState \/ (\E t \in Thresholds : ChooseDocuments(t))
             \/ (\E d \in todo : Compare(d)) \/ Interrupt
      PROVE  ~ (step' = "idle" /\ outcome' = "ok")
  <2>1. CASE Start
    BY <2>1 DEF Start, StartNormal, StartIndexOnly, Begin
  <2>2. CASE Phase1
    BY <2>2 DEF Phase1, RemoveLsh, OpenIndex, BuildLegacyBands, IndexDocuments, FinishIndexing
  <2>3. CASE Phase1_5
    BY <2>3 DEF Phase1_5, FindLargeBuckets, Analyze, LinkCluster, FinishDetection,
                DetectionFails, AfterDetection
  <2>4. CASE RemoveMatches \/ RemoveState \/ (\E t \in Thresholds : ChooseDocuments(t))
             \/ \E d \in todo : Compare(d)
    BY <2>4 DEF RemoveMatches, RemoveState, ChooseDocuments, Compare
  <2>5. CASE Interrupt
    BY <2>5 DEF Interrupt
  <2> QED
    BY <1>3, <2>1, <2>2, <2>3, <2>4, <2>5
<1> QED
  BY <1>1, <1>2, <1>3 DEF Next, Phase2

(* At first state.redb acknowledges nothing.                               *)
LEMMA InitRecordInv ==
  ASSUME Init
  PROVE  RecordInv
BY DEF Init, RecordInv, AcknowledgedOnRecord, ComparedOnRecord, ClustersOnRecord,
       IndexOnlyRunIsExhaustive, Clearing

(* A step of another program changes nothing here.                         *)
LEMMA StutterKeepsRecord ==
  ASSUME RecordInv, UNCHANGED vars
  PROVE  RecordInv'
<1>1. /\ UNCHANGED <<signatures, matches, processed, run, step, clusters, apart, docIds>>
      /\ UNCHANGED <<todo, outcome, strictest>> /\ Indexed' = Indexed
  BY DEF vars, files, memory, index, Indexed
<1>2. /\ \A d, e \in Indexed : Owed(d, e, strictest)' <=> Owed(d, e, strictest)
      /\ \A d, e : Compares(d, e)' <=> Compares(d, e)
      /\ \A p : (Promised(p)' <=> Promised(p)) /\ (Joined(p)' <=> Joined(p))
      /\ \A C : ClusterEdges(C)' = ClusterEdges(C)
  BY <1>1, OwedStays, EdgesOfTheSame DEF Compares, Promised, Joined
<1>3. AcknowledgedOnRecord'
  BY <1>1, AcknowledgedStays DEF RecordInv
<1>4. ComparedOnRecord'
  <2> SUFFICES ASSUME step = "comparing"
               PROVE  /\ docIds \cap processed = docIds \ todo
                      /\ ~run.normal =>
                           Indexed \ docIds \subseteq (IF apart = {} THEN processed ELSE apart)
                      /\ strictest # Lost => \A d \in docIds \ todo, e \in Indexed :
                                   Owed(d, e, strictest)' /\ Compares(d, e) => {d, e} \in matches
    BY <1>1, <1>2 DEF ComparedOnRecord
  <2>1. strictest # Lost => \A d \in docIds \ todo : d \in Indexed
    BY <1>1 DEF RecordInv, ComparedOnRecord, AcknowledgedOnRecord
  <2> QED
    BY <1>2, <2>1 DEF RecordInv, ComparedOnRecord
<1>5. ClustersOnRecord'
  BY <1>1, <1>2 DEF RecordInv, ClustersOnRecord
<1>6. IndexOnlyRunIsExhaustive'
  BY <1>1, <1>2 DEF RecordInv, IndexOnlyRunIsExhaustive
<1> QED
  BY <1>3, <1>4, <1>5, <1>6 DEF RecordInv

(* An index-only run that ends well has all similar documents of the index *)
(* on record or linked, whatever earlier runs acknowledged, left undone or *)
(* set apart (run_from_index_mode and the choice of its documents).        *)
THEOREM IndexOnlyRunsAreExhaustive == Spec => []IndexOnlyRunIsExhaustive
<1>1. Init => RecordInv
  BY InitRecordInv
<1>2. IndexInv /\ RecordInv /\ [Next]_vars => RecordInv'
  <2>1. IndexInv /\ RecordInv /\ Next => RecordInv'
    BY StepAcknowledged, StepCompared, StepClustersOnRecord, StepExhaustive DEF RecordInv
  <2>2. RecordInv /\ UNCHANGED vars => RecordInv'
    BY StutterKeepsRecord
  <2> QED
    BY <2>1, <2>2
<1>3. RecordInv => IndexOnlyRunIsExhaustive
  BY DEF RecordInv
<1> QED
  BY <1>1, <1>2, <1>3, Inductive, PTL DEF Spec

===============================================================================
