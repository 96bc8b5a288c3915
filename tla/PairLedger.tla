------------------------------ MODULE PairLedger ------------------------------
(***************************************************************************)
(* What Phase 2 promises the rest of the program, without workers, buffers *)
(* or transactions: a ledger of the duplicate pairs that are on record and *)
(* of the documents that are done.  A document may be declared done only   *)
(* if no pair of two done documents is missing from the record.  This is   *)
(* the promise behind resuming from state.redb: a document found there is  *)
(* never looked at again.                                                  *)
(***************************************************************************)
EXTENDS FiniteSets

CONSTANTS
  Docs,   \* the documents
  Pairs   \* the duplicate pairs, two-element sets of documents

VARIABLES
  onRecord,   \* the pairs whose edge is durable
  done        \* the documents that will not be looked at again

vars == <<onRecord, done>>

Settled(D, R) == \A p \in Pairs : p \subseteq D => p \in R

Init == onRecord = {} /\ done = {}

(* A batch of edges becomes durable.                                       *)
Record == /\ onRecord \subseteq onRecord'
          /\ onRecord' \subseteq Pairs
          /\ UNCHANGED done

(* A batch of documents is declared done.                                  *)
Settle == /\ done \subseteq done'
          /\ done' \subseteq Docs
          /\ Settled(done', onRecord)
          /\ UNCHANGED onRecord

(* Documents are to be looked at again.                                    *)
Reopen == /\ done' \subseteq done
          /\ UNCHANGED onRecord

(* The ledger is thrown away as a whole.                                   *)
Discard == onRecord' = {} /\ done' = {}

Next == Record \/ Settle \/ Reopen \/ Discard

Spec == Init /\ [][Next]_vars
===============================================================================
