------------------------------- MODULE LshIndex -------------------------------
(***************************************************************************)
(* lsh.redb (src/lsh/mod.rs): the signatures of the indexed documents, the *)
(* buckets that the LSH bands sort them into, and a metadata record of how *)
(* the signatures were computed.  One action is one redb transaction.      *)
(*                                                                         *)
(* A signature is a list of MinHash values; each band hashes some of them. *)
(* Two documents meet in a bucket if their signatures have the same hash   *)
(* in a band, which says something about those values only.  Signatures of *)
(* two configurations (seed, tokenizer version, hash version, bands and    *)
(* rows) have nothing to do with each other.                               *)
(***************************************************************************)
EXTENDS Naturals, FiniteSets

CONSTANTS
  Docs,      \* UUIDs of all documents that may ever be indexed
  Bands,     \* 0..num_bands - 1
  Hashes,    \* the band hashes
  MinHashes, \* the signatures
  BandHash,  \* the hash of a signature in a band
  Configs,   \* what LshMetadata may hold
  None,      \* no metadata
  Signature  \* the signature of a document under a configuration

ASSUME IndexAssumption ==
  /\ Docs \subseteq Nat
  /\ Bands # {} /\ IsFiniteSet(Bands)
  /\ None \notin Configs
  /\ BandHash \in [MinHashes -> [Bands -> Hashes]]
  /\ Signature \in [Configs -> [Docs -> MinHashes]]

VARIABLES
  metadata,    \* METADATA_TABLE
  signatures,  \* SIGNATURE_TABLE, a function on the indexed documents
  bands        \* BAND_TABLE: d is in bucket h of band b iff <<b, h, d>> is here

index == <<metadata, signatures, bands>>

Indexed == DOMAIN signatures

EntriesOf(sigs) == {<<b, BandHash[sigs[d]][b], d>> : b \in Bands, d \in DOMAIN sigs}

Bucket(b, h) == {d \in Docs : <<b, h, d>> \in bands}

(* The query of a document: whoever shares a bucket with it.               *)
Candidates(d) == (UNION {Bucket(b, BandHash[signatures[d]][b]) : b \in Bands}) \ {d}

Agree(d, e, b) == BandHash[signatures[d]][b] = BandHash[signatures[e]][b]

(* A file that does not exist, one that an earlier version of the program  *)
(* has left without buckets, and perhaps without metadata, or one that a   *)
(* run has died on after creating it.                                      *)
IndexInit ==
  \E c \in Configs, D \in SUBSET Docs :
    /\ signatures = [d \in D |-> Signature[c][d]]
    /\ bands = {}
    /\ metadata \in {None, c}

(* Mutant: metadata is written once and never looked at again.             *)
AcceptsAnything(c) == TRUE

(* validate_or_initialize_metadata: a file is used only if its signatures  *)
(* are known to be of the configuration of the run.                        *)
Accepts(c) == \/ metadata = c
              \/ metadata = None /\ Indexed = {}

Validate(c) ==
  /\ Accepts(c)
  /\ metadata' = c
  /\ UNCHANGED <<signatures, bands>>

(* Mutant: an index without buckets is taken as it is.                     *)
NeedsNoBands == FALSE

NeedsBands == Indexed # {} /\ bands = {}

BuildBands ==
  /\ bands' = bands \cup EntriesOf(signatures)
  /\ UNCHANGED <<metadata, signatures>>

(* A batch goes into both tables in one transaction.                       *)
InsertBatch(c, D) ==
  LET new == [d \in D |-> Signature[c][d]]
  IN  /\ signatures' = [d \in Indexed \cup D |-> IF d \in D THEN new[d] ELSE signatures[d]]
      /\ bands' = bands \cup EntriesOf(new)
      /\ UNCHANGED metadata

RemoveIndex ==
  /\ metadata' = None
  /\ signatures' = [d \in {} |-> d]
  /\ bands' = {}

-------------------------------------------------------------------------------
(* Properties.                                                             *)

IndexTypeOK ==
  /\ metadata \in Configs \cup {None}
  /\ Indexed \subseteq Docs
  /\ signatures \in [Indexed -> MinHashes]
  /\ bands \subseteq Bands \X Hashes \X Docs

(* All signatures in a file were computed with one configuration, and with *)
(* the one that the metadata names if there are any: otherwise duplicates  *)
(* with signatures of two seeds would be compared and missed in silence    *)
(* (validate_or_initialize_metadata).                                      *)
OneConfiguration ==
  Indexed # {} =>
    \E c \in Configs :
      /\ metadata \in {c, None}
      /\ \A d \in Indexed : signatures[d] = Signature[c][d]

(* A file has no buckets at all, or each document is in the bucket of each *)
(* of its band hashes, and in no other: a query finds whoever it should.   *)
(* A document is never indexed beside an index that still has to be built  *)
(* (run_dedupe builds it before it inserts anything).                      *)
BucketsExact == bands = {} \/ bands = EntriesOf(signatures)

===============================================================================
