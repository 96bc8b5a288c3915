------------------------- MODULE IncrementalRun_proofs -------------------------
(***************************************************************************)
(* Proofs about IncrementalRun, for any documents, pairs, batch sizes and  *)
(* number of faults, manual runs, resets and cleanups.                     *)
(***************************************************************************)
EXTENDS IncrementalRun, Resolution_proofs, FiniteSetTheorems

-------------------------------------------------------------------------------
(* Roots.                                                                  *)

(* Every cluster has a root, which precedes all of it.                     *)
LEMMA RootPrecedes ==
  ASSUME NEW d \in Docs
  PROVE  /\ Root(d) \in Component(d)
         /\ \A x \in Component(d) : Precedes(Root(d), x)
<1> DEFINE K == Component(d)
<1>1. d \in K /\ K \subseteq Nat
  BY ClusterContains, DocumentsAssumption DEF Component
<1>2. \A x \in K : Priority(x) \in {0, 1, 2}
  BY DEF Priority
<1>3. PICK y \in K : \A x \in K : Priority(y) <= Priority(x)
  <2>1. CASE \E x \in K : Priority(x) = 0
    BY <1>2, <2>1
  <2>2. CASE (\A x \in K : Priority(x) # 0) /\ \E x \in K : Priority(x) = 1
    BY <1>2, <2>2
  <2>3. CASE \A x \in K : Priority(x) = 2
    BY <1>1, <2>3
  <2> QED
    BY <1>1, <1>2, <2>1, <2>2, <2>3
<1> DEFINE T == {x \in K : Priority(x) = Priority(y)}
<1>4. PICK m \in T : \A x \in T : m <= x
  BY <1>1, <1>3, MinimumExists
<1>5. \A x \in K : Precedes(m, x)
  BY <1>2, <1>3, <1>4 DEF Precedes
<1> HIDE DEF K
<1>6. \E n \in K : \A x \in K : Precedes(n, x)
  BY <1>4, <1>5
<1> QED
  BY <1>6 DEF Root, RootOf, K

(* The documents of a cluster have one root.                               *)
LEMMA OneRoot ==
  ASSUME matches \subseteq SUBSET Docs, NEW d \in Docs, NEW e \in Component(d)
  PROVE  Component(e) = Component(d) /\ Root(e) = Root(d)
<1>1. Component(e) = Component(d)
  BY SameCluster DEF Component
<1> QED
  BY <1>1 DEF Root

-------------------------------------------------------------------------------
(* The invariant of types, plans and roots.                                *)

(* Memory that belongs to a step is empty outside of it.                   *)
Tidy == /\ step # "indexing" => scan = NoScan
        /\ step # "syncing" => plan = NoPlan

(* What is planned fits together: a child gets one row, and whoever is to  *)
(* be marked as a child has its row by then.                               *)
PlanFits ==
  /\ \A r, s \in plan.rows : r[1] = s[1] => r = s
  /\ \A d \in plan.children : \E r \in dupes \cup plan.rows : r[1] = d

(* A canonical parent that is to be demoted leaves another one in place,   *)
(* unless a user puts that one back.                                       *)
HeirOf(e, d) ==
  /\ e \in Component(d) \ plan.children
  /\ isParent[e] = "true" \/ (resets > 0 /\ isParent[e] = "null")

HeirsKept ==
  \A d \in plan.children : isParent[d] = "true" => \E e \in Docs : HeirOf(e, d)

RunInv == TypeOK /\ Tidy /\ PlanFits /\ ChildHasRow /\ HeirsKept

LEMMA LowestAreOfIt == \A D, n : Lowest(D, n) \subseteq D
BY DEF Lowest

LEMMA TouchedTyped ==
  ASSUME TypeOK
  PROVE  /\ Touched \subseteq Docs
         /\ \A d \in Docs : Root(d) \in Docs
<1>1. Touched \subseteq Docs
  BY DEF TypeOK, Touched
<1>2. \A d \in Docs : Root(d) \in Docs
  BY RootPrecedes, ClusterContains DEF Component
<1> QED
  BY <1>1, <1>2

(* The rows that Phase 3 plans: one for each child, and none but theirs.   *)
LEMMA AssignmentsFit ==
  ASSUME TypeOK
  PROVE  /\ AssignmentsRequiringWrite \subseteq Docs \X Docs
         /\ \A r, s \in AssignmentsRequiringWrite : r[1] = s[1] => r = s
         /\ \A d \in Children : \E r \in dupes \cup AssignmentsRequiringWrite : r[1] = d
<1>1. \A r \in Assignments : r[1] \in Children /\ r = <<r[1], Root(r[1])>>
  BY DEF Assignments
<1>2. AssignmentsRequiringWrite \subseteq Assignments
  BY DEF AssignmentsRequiringWrite
<1>3. \A r, s \in AssignmentsRequiringWrite : r[1] = s[1] => r = s
  BY <1>1, <1>2
<1>4. Children \subseteq Docs
  BY TouchedTyped DEF Children
<1>5. AssignmentsRequiringWrite \subseteq Docs \X Docs
  BY <1>1, <1>2, <1>4, TouchedTyped
<1>6. ASSUME NEW d \in Children
      PROVE  \E r \in dupes \cup AssignmentsRequiringWrite : r[1] = d
  <2>1. <<d, Root(d)>> \in Assignments
    BY DEF Assignments
  <2>2. CASE <<d, Root(d)>> \in ExistingRows
    BY <2>2 DEF ExistingRows
  <2>3. CASE <<d, Root(d)>> \notin ExistingRows
    BY <2>1, <2>3 DEF AssignmentsRequiringWrite
  <2> QED
    BY <2>2, <2>3
<1> QED
  BY <1>3, <1>5, <1>6

Marks == {"absent", "null", "true", "false", "deleted"}

LEMMA MarkTyped ==
  ASSUME isParent \in [Docs -> Marks], NEW D, NEW m \in Marks, Mark(D, m)
  PROVE  isParent' \in [Docs -> Marks]
BY DEF Mark

Scans == [past : SUBSET Docs, done : BOOLEAN,
          toIndex : SUBSET (Docs \ Filtered), toMark : SUBSET Filtered]

LEMMA ScanTyped ==
  ASSUME NEW past \in SUBSET Docs, NEW done \in BOOLEAN,
         NEW toIndex \in SUBSET (Docs \ Filtered), NEW toMark \in SUBSET Filtered
  PROVE  [past |-> past, done |-> done, toIndex |-> toIndex, toMark |-> toMark] \in Scans
BY DEF Scans

LEMMA ForgetTyped ==
  ASSUME Forget
  PROVE  /\ run' \in Runs /\ step' = "idle"
         /\ scan' \in [past : SUBSET Docs, done : BOOLEAN,
                       toIndex : SUBSET (Docs \ Filtered), toMark : SUBSET Filtered]
         /\ newDocs' = {} /\ seeds' = {}
         /\ plan' \in [rows : SUBSET (Docs \X Docs), children : SUBSET Docs,
                       parents : SUBSET Docs]
BY DEF Forget, Runs, Daily, NoScan, NoPlan

LEMMA StepTypeOK ==
  ASSUME RunInv, Next
  PROVE  TypeOK'
<1>a. isParent \in [Docs -> Marks]
  BY DEF RunInv, TypeOK, Marks
<1>b. /\ faults \in 0..MaxFaults /\ resets \in 0..MaxResets /\ cleanups \in 0..MaxCleanups
      /\ matches \subseteq SUBSET Docs
  BY DEF RunInv, TypeOK
<1>0. ASSUME NEW D, NEW m \in Marks, Mark(D, m)
      PROVE  isParent' \in [Docs -> Marks]
  BY <1>a, <1>0, MarkTyped
<1>c. TypeOK
  BY DEF RunInv
<1> USE DEF RunInv, TypeOK
<1> USE DEF database, sidecars, memory, history
<1>1. ASSUME NEW d \in Docs, Arrive(d)
      PROVE  TypeOK'
  BY <1>1 DEF Arrive
<1>2. ASSUME NEW D \in SUBSET Docs, Reset(D)
      PROVE  TypeOK'
  <2>1. isParent' \in [Docs -> Marks]
    BY <1>0, <1>2 DEF Reset, Marks
  <2>2. resets' \in 0..MaxResets
    <3> HIDE DEF RunInv, TypeOK
    <3> QED
      BY <1>b, <1>2, SizesAssumption DEF Reset
  <2> QED
    BY <1>2, <2>1, <2>2 DEF Reset, Marks
<1>3. ASSUME NEW D, CleanupMarkParents(D) \/ CleanupDelete(D)
      PROVE  TypeOK'
  <2>1. isParent' \in [Docs -> Marks]
    BY <1>0, <1>3 DEF CleanupMarkParents, CleanupDelete, DeleteDocuments, Marks
  <2>2. cleanups' \in 0..MaxCleanups
    <3> HIDE DEF RunInv, TypeOK
    <3> QED
      BY <1>b, <1>3, SizesAssumption DEF CleanupMarkParents, CleanupDelete
  <2> QED
    BY <1>3, <2>1, <2>2 DEF CleanupMarkParents, CleanupDelete, Marks
<1>4. ASSUME NEW writes \in BOOLEAN, StartRun(writes)
      PROVE  TypeOK'
  BY <1>4, SizesAssumption DEF StartRun, Runs
<1>5. ASSUME NEW writes \in BOOLEAN, StartFullRun(writes)
      PROVE  TypeOK'
  BY <1>5, SizesAssumption DEF StartFullRun, Runs
<1>6. CASE ClearIndex \/ ClearMatches \/ ClearFiltered
  BY <1>6 DEF ClearIndex, ClearMatches, ClearFiltered
<1>7. CASE FetchPage
  <2> DEFINE page    == Lowest(Source \ scan.past, BatchSize)
             past    == {d \in Docs : \E e \in scan.past \cup page : d <= e}
             toIndex == scan.toIndex \cup ((page \ Filtered) \ index)
             toMark  == scan.toMark \cup (page \cap Filtered)
  <2>1. page \subseteq Docs
    <3>1. Source \subseteq Docs
      BY DEF Source, Present, Marked
    <3>2. page \subseteq Source \ scan.past
      BY LowestAreOfIt
    <3> QED
      BY <3>1, <3>2
  <2>2. /\ newDocs' = newDocs \cup (page \ Filtered)
        /\ scan' = [past |-> past, done |-> page = {}, toIndex |-> toIndex, toMark |-> toMark]
        /\ UNCHANGED <<database, sidecars, run, step, seeds, plan, outcome, history>>
    BY <1>7 DEF FetchPage, BatchOf
  <2>3. /\ past \in SUBSET Docs /\ (page = {}) \in BOOLEAN
        /\ toIndex \in SUBSET (Docs \ Filtered) /\ toMark \in SUBSET Filtered
    BY <2>1
  <2>4. newDocs' \subseteq Docs \ Filtered
    BY <2>1, <2>2
  <2> HIDE DEF page, past, toIndex, toMark
  <2>5. scan' \in Scans
    BY <2>2, <2>3, ScanTyped
  <2> QED
    BY <2>2, <2>4, <2>5 DEF Scans

<1>8. CASE InsertBatch
  BY <1>8, LowestAreOfIt DEF InsertBatch
<1>9. CASE FlushFilteredParents
  <2> DEFINE chunk == Lowest(scan.toMark, BatchSize)
  <2>1. chunk \subseteq scan.toMark
    BY LowestAreOfIt
  <2>2. /\ \/ Mark(chunk, "true") /\ UNCHANGED filteredParents
           \/ filteredParents' = filteredParents \cup chunk /\ UNCHANGED isParent
        /\ scan' = [scan EXCEPT !.toMark = @ \ chunk]
        /\ UNCHANGED <<dupes, index, matches, run, step, newDocs, seeds, plan, outcome,
                       history>>
    BY <1>9 DEF FlushFilteredParents
  <2> HIDE DEF chunk
  <2>3. isParent' \in [Docs -> Marks]
    BY <1>0, <1>a, <2>2 DEF Marks
  <2>4. filteredParents' \subseteq Filtered
    BY <2>1, <2>2
  <2> QED
    BY <2>2, <2>3, <2>4 DEF Marks
<1>10. ASSUME NEW P \in {Pathological, {}}, DetectPathological(P)
       PROVE  TypeOK'
  <2>1. ClusterEdges(P) \subseteq SUBSET Docs
    <3>1. P \subseteq Docs
      BY DEF Pathological
    <3>2. Lowest(P, 1) \subseteq P
      BY LowestAreOfIt
    <3> HIDE DEF TypeOK, RunInv
    <3> QED
      BY <3>1, <3>2 DEF ClusterEdges
  <2>2. Phase3Seeds(P) \subseteq newDocs
    BY DEF Phase3Seeds
  <2>3. /\ matches' \subseteq SUBSET Docs /\ whole' \in BOOLEAN
        /\ UNCHANGED <<database, index, filteredParents, faults, manual, resets, cleanups>>
    BY <1>10, <2>1 DEF DetectPathological
  <2>4. CASE newDocs = {}
    <3>1. Forget /\ outcome' = "ok"
      BY <1>10, <2>4 DEF DetectPathological
    <3> QED
      BY <2>3, <3>1, ForgetTyped
  <2>5. CASE newDocs # {}
    <3>1. /\ step' \in {"resolving", "comparing"} /\ seeds' \subseteq newDocs
          /\ scan' = NoScan /\ UNCHANGED <<run, newDocs, plan, outcome>>
      BY <1>10, <2>2, <2>5 DEF DetectPathological
    <3> QED
      BY <2>3, <3>1 DEF NoScan
  <2> QED
    BY <2>4, <2>5
<1>11. CASE FindDuplicates
  BY <1>11, DocumentsAssumption DEF FindDuplicates, FoundPairs
<1>12. CASE Resolve
  <2>1. Children \subseteq Docs /\ Roots \subseteq Docs
    <3>1. Touched \subseteq Docs /\ \A d \in Docs : Root(d) \in Docs
      BY TouchedTyped
    <3> HIDE DEF TypeOK, RunInv
    <3> QED
      BY <3>1 DEF Children, Roots
  <2>2. AssignmentsRequiringWrite \subseteq Docs \X Docs /\ ChildMarks \subseteq Docs
        /\ ParentMarks \subseteq Docs
    BY <2>1, AssignmentsFit DEF ChildMarks, ParentMarks
  <2> QED
    BY <1>12, <2>2 DEF Resolve
<1>13. CASE WriteDupes
  <2> DEFINE chunk == Lowest({r[1] : r \in plan.rows}, BatchSize)
             rows  == {r \in plan.rows : r[1] \in chunk}
  <2>1. /\ dupes' = {r \in dupes : r[1] \notin chunk} \cup rows
        /\ plan' = [plan EXCEPT !.rows = @ \ rows]
        /\ UNCHANGED <<isParent, sidecars, run, step, scan, newDocs, seeds, outcome, history>>
    BY <1>13 DEF WriteDupes
  <2> HIDE DEF chunk
  <2>2. \A r, s \in dupes' : r[1] = s[1] => r = s
    BY <2>1 DEF PlanFits
  <2>3. dupes' \subseteq Docs \X Docs
    BY <2>1
  <2> QED
    BY <2>1, <2>2, <2>3
<1>14. ASSUME NEW chunk \in SUBSET plan.children, MarkAsChildren(chunk)
       PROVE  TypeOK'
  <2>1. isParent' \in [Docs -> Marks]
    BY <1>0, <1>14 DEF MarkAsChildren, Marks
  <2> QED
    BY <1>14, <2>1 DEF MarkAsChildren, Marks
<1>15. CASE MarkAsParents
  <2>1. isParent' \in [Docs -> Marks]
    BY <1>0, <1>15 DEF MarkAsParents, Marks
  <2> QED
    BY <1>15, <2>1 DEF MarkAsParents, Marks
<1>16. CASE EndRun
  BY <1>16 DEF EndRun, Forget, Runs, Daily, NoScan, NoPlan
<1>17. ASSUME NEW recorded \in (SUBSET FoundPairs) \cup {{}}, Interrupt(recorded)
       PROVE  TypeOK'
  <2>1. recorded \subseteq SUBSET Docs
    BY DocumentsAssumption DEF FoundPairs
  <2>2. matches' \subseteq SUBSET Docs /\ faults' \in 0..MaxFaults
    <3> HIDE DEF RunInv, TypeOK
    <3> QED
      BY <1>b, <1>17, <2>1, SizesAssumption DEF Interrupt
  <2>3. /\ Forget /\ outcome' = "failed"
        /\ UNCHANGED <<database, index, filteredParents, manual, resets, cleanups, whole>>
    BY <1>17 DEF Interrupt
  <2> QED
    BY <2>2, <2>3, ForgetTyped
<1> QED
  BY <1>1, <1>2, <1>3, <1>4, <1>5, <1>6, <1>7, <1>8, <1>9, <1>10, <1>11, <1>12, <1>13,
     <1>14, <1>15, <1>16, <1>17
     DEF Next, Cleanup, Run, ByHand, Work, Phase1, Phase3

-------------------------------------------------------------------------------
(* Rows come before marks.                                                 *)

(* A mark is set only on documents of the table, and only those of D.      *)
LEMMA MarkEffect ==
  ASSUME isParent \in [Docs -> Marks], NEW D, NEW m, Mark(D, m), NEW d \in Docs
  PROVE  /\ d \in D /\ d \in Present => isParent'[d] = m
         /\ d \notin D \/ d \notin Present => isParent'[d] = isParent[d]
BY DEF Mark

(* Nothing but Phase 3 has plans, writes rows or marks children.           *)
LEMMA OnlyPhase3 ==
  ASSUME RunInv, Next
  PROVE  \/ Resolve
         \/ WriteDupes
         \/ \E chunk \in SUBSET plan.children : MarkAsChildren(chunk)
         \/ MarkAsParents
         \/ /\ dupes' = dupes /\ plan' \in {plan, NoPlan}
            /\ \A d \in Docs : isParent'[d] = "false" => isParent[d] = "false"
<1> DEFINE Quiet == /\ dupes' = dupes /\ plan' \in {plan, NoPlan}
                    /\ \A d \in Docs : isParent'[d] = "false" => isParent[d] = "false"
<1>a. isParent \in [Docs -> Marks]
  BY DEF RunInv, TypeOK, Marks
<1>0. ASSUME NEW D, NEW m, Mark(D, m), m # "false"
      PROVE  \A d \in Docs : isParent'[d] = "false" => isParent[d] = "false"
  BY <1>0, <1>a, MarkEffect
<1>1. ASSUME NEW d \in Docs, Arrive(d)
      PROVE  Quiet
  BY <1>1, <1>a DEF Arrive, memory
<1>2. ASSUME NEW D, Reset(D) \/ CleanupMarkParents(D) \/ CleanupDelete(D)
      PROVE  Quiet
  BY <1>0, <1>2 DEF Reset, CleanupMarkParents, CleanupDelete, DeleteDocuments, memory
<1>3. ASSUME NEW writes, StartRun(writes) \/ StartFullRun(writes)
      PROVE  Quiet
  BY <1>3 DEF StartRun, StartFullRun, database
<1>4. CASE ClearIndex \/ ClearMatches \/ ClearFiltered \/ FetchPage \/ InsertBatch
  BY <1>4 DEF ClearIndex, ClearMatches, ClearFiltered, FetchPage, InsertBatch, database
<1>5. CASE FlushFilteredParents
  BY <1>0, <1>5 DEF FlushFilteredParents
<1>6. ASSUME NEW P, DetectPathological(P)
      PROVE  Quiet
  BY <1>6 DEF DetectPathological, Forget, database
<1>7. CASE FindDuplicates \/ EndRun
  BY <1>7 DEF FindDuplicates, EndRun, Forget, database
<1>8. ASSUME NEW recorded, Interrupt(recorded)
      PROVE  Quiet
  BY <1>8 DEF Interrupt, Forget, database
<1> QED
  BY <1>1, <1>2, <1>3, <1>4, <1>5, <1>6, <1>7, <1>8
     DEF Next, Cleanup, Run, ByHand, Work, Phase1, Phase3

LEMMA StepPlanFits ==
  ASSUME RunInv, Next
  PROVE  PlanFits' /\ ChildHasRow'
<1>a. isParent \in [Docs -> Marks] /\ plan.rows \in SUBSET (Docs \X Docs)
      /\ plan \in [rows : SUBSET (Docs \X Docs), children : SUBSET Docs,
                   parents : SUBSET Docs]
  BY DEF RunInv, TypeOK, Marks
<1>b. PlanFits /\ ChildHasRow
  BY DEF RunInv
<1>1. CASE Resolve
  <2>1. /\ plan'.rows = AssignmentsRequiringWrite /\ plan'.children = ChildMarks
        /\ UNCHANGED database
    BY <1>1 DEF Resolve
  <2>2. ChildMarks \subseteq Children
    BY DEF ChildMarks
  <2> QED
    BY <1>b, <2>1, <2>2, AssignmentsFit DEF RunInv, PlanFits, ChildHasRow, database, Marked
<1>2. CASE WriteDupes
  <2> DEFINE chunk == Lowest({r[1] : r \in plan.rows}, BatchSize)
             rows  == {r \in plan.rows : r[1] \in chunk}
  <2>1. /\ dupes' = {r \in dupes : r[1] \notin chunk} \cup rows
        /\ plan' = [plan EXCEPT !.rows = @ \ rows]
        /\ UNCHANGED isParent
    BY <1>2 DEF WriteDupes
  <2>2. chunk \subseteq {r[1] : r \in plan.rows}
    BY LowestAreOfIt
  <2> HIDE DEF chunk
  <2>3. plan'.rows = plan.rows \ rows /\ plan'.children = plan.children
    BY <1>a, <2>1
  <2>4. ASSUME NEW r \in dupes \cup plan.rows
        PROVE  \E s \in dupes' \cup plan'.rows : s[1] = r[1]
    BY <2>1, <2>2, <2>3
  <2>5. ASSUME NEW r \in dupes
        PROVE  \E s \in dupes' : s[1] = r[1]
    BY <2>1, <2>2
  <2>6. PlanFits'
    BY <1>b, <2>3, <2>4 DEF PlanFits
  <2>7. ChildHasRow'
    BY <1>b, <2>1, <2>5 DEF ChildHasRow, Marked
  <2> QED
    BY <2>6, <2>7
<1>3. ASSUME NEW chunk \in SUBSET plan.children, MarkAsChildren(chunk)
      PROVE  PlanFits' /\ ChildHasRow'
  <2>1. /\ plan.rows = {} /\ Mark(chunk, "false") /\ dupes' = dupes
        /\ plan' = [plan EXCEPT !.children = @ \ chunk]
    BY <1>3 DEF MarkAsChildren
  <2>2. plan'.rows = plan.rows /\ plan'.children \subseteq plan.children
    BY <1>a, <2>1
  <2>3. PlanFits'
    BY <1>b, <2>1, <2>2 DEF PlanFits
  <2>4. ASSUME NEW d \in Docs, isParent'[d] = "false"
        PROVE  \E r \in dupes : r[1] = d
    <3>1. d \in chunk \/ isParent[d] = "false"
      BY <1>a, <2>1, <2>4, MarkEffect
    <3> QED
      BY <1>b, <2>1, <3>1 DEF PlanFits, ChildHasRow, Marked
  <2>5. ChildHasRow'
    BY <2>1, <2>4 DEF ChildHasRow, Marked
  <2> QED
    BY <2>3, <2>5
<1>4. CASE MarkAsParents
  <2>1. /\ \E D : Mark(D, "true")
        /\ dupes' = dupes /\ plan'.rows = plan.rows /\ plan'.children = plan.children
    BY <1>4, <1>a DEF MarkAsParents
  <2>2. \A d \in Docs : isParent'[d] = "false" => isParent[d] = "false"
    BY <1>a, <2>1, MarkEffect
  <2> QED
    BY <1>b, <2>1, <2>2 DEF PlanFits, ChildHasRow, Marked
<1>5. CASE /\ dupes' = dupes /\ plan' \in {plan, NoPlan}
           /\ \A d \in Docs : isParent'[d] = "false" => isParent[d] = "false"
  BY <1>b, <1>5 DEF PlanFits, ChildHasRow, Marked, NoPlan
<1> QED
  BY <1>1, <1>2, <1>3, <1>4, <1>5, OnlyPhase3

LEMMA StepTidy ==
  ASSUME RunInv, Next
  PROVE  Tidy'
<1> USE DEF RunInv, Tidy
<1>a. \A n : Lowest({}, n) = {}
  BY DEF Lowest
<1>1. CASE Resolve \/ FindDuplicates
  BY <1>1 DEF Resolve, FindDuplicates
<1>2. CASE WriteDupes
  <2>1. plan.rows # {}
    BY <1>2 DEF WriteDupes
  <2>2. step = "syncing"
    BY <2>1 DEF NoPlan
  <2> QED
    BY <1>2, <2>2 DEF WriteDupes
<1>3. ASSUME NEW chunk \in SUBSET plan.children, MarkAsChildren(chunk)
      PROVE  Tidy'
  <2>1. plan.children # {}
    BY <1>3 DEF MarkAsChildren
  <2>2. step = "syncing"
    BY <2>1 DEF NoPlan
  <2> QED
    BY <1>3, <2>2 DEF MarkAsChildren
<1>4. CASE MarkAsParents
  <2>1. plan.parents # {}
    BY <1>4, <1>a DEF MarkAsParents
  <2>2. step = "syncing"
    BY <2>1 DEF NoPlan
  <2> QED
    BY <1>4, <2>2 DEF MarkAsParents
<1>5. CASE FetchPage
  BY <1>5 DEF FetchPage
<1>6. CASE InsertBatch
  <2>1. scan.toIndex # {}
    BY <1>6, <1>a DEF InsertBatch
  <2>2. step = "indexing"
    BY <2>1 DEF NoScan
  <2> QED
    BY <1>6, <2>2 DEF InsertBatch
<1>7. CASE FlushFilteredParents
  <2>1. scan.toMark # {}
    BY <1>7, <1>a DEF FlushFilteredParents
  <2>2. step = "indexing"
    BY <2>1 DEF NoScan
  <2> QED
    BY <1>7, <2>2 DEF FlushFilteredParents
<1>8. ASSUME NEW P, DetectPathological(P)
      PROVE  Tidy'
  BY <1>8 DEF DetectPathological, Forget
<1>9. (EndRun \/ \E recorded : Interrupt(recorded)) => Tidy'
  BY DEF EndRun, Interrupt, Forget
<1>10. CASE ClearIndex \/ ClearMatches \/ ClearFiltered
  BY <1>10 DEF ClearIndex, ClearMatches, ClearFiltered
<1>11. ASSUME NEW writes, StartRun(writes) \/ StartFullRun(writes)
       PROVE  Tidy'
  BY <1>11 DEF StartRun, StartFullRun
<1>12. ASSUME NEW d, Arrive(d)
       PROVE  Tidy'
  BY <1>12 DEF Arrive, memory
<1>13. ASSUME NEW D, Reset(D) \/ CleanupMarkParents(D) \/ CleanupDelete(D)
       PROVE  Tidy'
  BY <1>13 DEF Reset, CleanupMarkParents, CleanupDelete, memory
<1> QED
  BY <1>1, <1>2, <1>3, <1>4, <1>5, <1>6, <1>7, <1>8, <1>9, <1>10, <1>11, <1>12, <1>13
     DEF Next, Cleanup, Run, ByHand, Work, Phase1, Phase3

-------------------------------------------------------------------------------
(* Heirs.                                                                  *)

(* While there are plans, the database is changed by Phase 3 and by users  *)
(* only, and nobody records edges.                                         *)
LEMMA DuringSync ==
  ASSUME RunInv, Next, plan.children # {}
  PROVE  \/ plan' = NoPlan
         \/ WriteDupes
         \/ \E chunk \in SUBSET plan.children : MarkAsChildren(chunk)
         \/ \E d \in Docs : Arrive(d)
         \/ \E D \in SUBSET Docs : Reset(D)
<1>a. step = "syncing" /\ scan = NoScan
  BY DEF RunInv, Tidy, NoPlan
<1>b. \A n : Lowest({}, n) = {}
  BY DEF Lowest
<1>c. ~ClearIndex /\ ~ClearMatches /\ ~ClearFiltered /\ ~FetchPage
  BY <1>a DEF ClearIndex, ClearMatches, ClearFiltered, FetchPage
<1>d. ~InsertBatch /\ ~FlushFilteredParents
  BY <1>a, <1>b DEF InsertBatch, FlushFilteredParents, NoScan
<1>e. ~MarkAsParents /\ ~Resolve /\ ~FindDuplicates /\ \A P : ~DetectPathological(P)
  BY <1>a DEF MarkAsParents, Resolve, FindDuplicates, DetectPathological
<1>f. /\ \A writes : ~StartRun(writes) /\ ~StartFullRun(writes)
      /\ \A D : ~CleanupMarkParents(D) /\ ~CleanupDelete(D)
  BY <1>a DEF StartRun, StartFullRun, CleanupMarkParents, CleanupDelete
<1>g. (EndRun \/ \E recorded : Interrupt(recorded)) => plan' = NoPlan
  BY DEF EndRun, Interrupt, Forget
<1> QED
  BY <1>c, <1>d, <1>e, <1>f, <1>g DEF Next, Cleanup, Run, ByHand, Work, Phase1, Phase3

LEMMA StepHeirsKept ==
  ASSUME RunInv, Next
  PROVE  HeirsKept'
<1>a. /\ isParent \in [Docs -> Marks] /\ matches \subseteq SUBSET Docs
      /\ resets \in Nat
      /\ plan \in [rows : SUBSET (Docs \X Docs), children : SUBSET Docs,
                   parents : SUBSET Docs]
  <2>1. resets \in 0..MaxResets
    BY DEF RunInv, TypeOK
  <2>2. resets \in Nat
    BY <2>1, SizesAssumption
  <2> QED
    BY <2>2 DEF RunInv, TypeOK, Marks
<1>b. HeirsKept
  BY DEF RunInv
<1>1. CASE Resolve
  <2>1. /\ plan'.children = ChildMarks
        /\ UNCHANGED <<isParent, matches, resets>>
    BY <1>1 DEF Resolve, database, sidecars, history
  <2>2. ASSUME NEW d \in ChildMarks, isParent[d] = "true"
        PROVE  Root(d) \in Component(d) \ ChildMarks /\ isParent[Root(d)] = "true"
    <3>1. d \in Docs
      BY TouchedTyped DEF RunInv, ChildMarks, Children
    <3>2. Root(d) \in Component(d) /\ Precedes(Root(d), d)
      BY <3>1, RootPrecedes, ClusterContains DEF Component
    <3>3. Root(Root(d)) = Root(d)
      BY <1>a, <3>1, <3>2, OneRoot
    <3>4. isParent[Root(d)] = "true"
      BY <2>2, <3>2 DEF Precedes, Priority
    <3> QED
      BY <3>2, <3>3, <3>4 DEF ChildMarks, Children
  <2>3. \A d \in Docs : Component(d)' = Component(d) /\ Component(d) \subseteq Docs
    BY <2>1, ClusterContains DEF Component, ClusterOf, Closed
  <2>4. ChildMarks \subseteq Docs
    BY TouchedTyped DEF RunInv, ChildMarks, Children
  <2> HIDE DEF RunInv
  <2> QED
    BY <2>1, <2>2, <2>3, <2>4 DEF HeirsKept, HeirOf
<1>2. CASE plan'.children = {}
  BY <1>2 DEF HeirsKept
<1>3. CASE plan.children # {} /\ plan'.children # {}
  <2>1. CASE WriteDupes
    <3>1. plan'.children = plan.children /\ UNCHANGED <<isParent, matches, resets>>
      BY <1>a, <2>1 DEF WriteDupes, sidecars, history
    <3> QED
      BY <1>b, <3>1 DEF HeirsKept, HeirOf, Component, ClusterOf, Closed
  <2>2. ASSUME NEW chunk \in SUBSET plan.children, MarkAsChildren(chunk)
        PROVE  HeirsKept'
    <3>1. /\ plan'.children = plan.children \ chunk /\ UNCHANGED <<matches, resets>>
          /\ \A e \in Docs \ chunk : isParent'[e] = isParent[e]
      BY <1>a, <2>2, MarkEffect DEF MarkAsChildren, sidecars, history
    <3>2. \A d \in Docs : Component(d)' = Component(d)
      BY <3>1 DEF Component, ClusterOf, Closed
    <3>3. ASSUME NEW d \in plan'.children, isParent'[d] = "true"
          PROVE  \E e \in Docs : HeirOf(e, d)'
      <4>1. isParent[d] = "true" /\ d \in plan.children /\ d \in Docs
        BY <1>a, <3>1, <3>3
      <4>2. PICK e \in Docs : HeirOf(e, d)
        BY <1>b, <4>1 DEF HeirsKept
      <4> QED
        BY <3>1, <3>2, <4>1, <4>2 DEF HeirOf
    <3> QED
      BY <3>3 DEF HeirsKept
  <2>3. ASSUME NEW D, resets' \in Nat, plan' = plan, matches' = matches,
               \/ \E d \in Docs : Arrive(d)
               \/ \E S \in SUBSET Docs : Reset(S)
        PROVE  HeirsKept'
    <3>1. \A d \in Docs : Component(d)' = Component(d)
      BY <2>3 DEF Component, ClusterOf, Closed
    <3>2. \A d \in Docs : isParent'[d] = "true" => isParent[d] = "true"
      BY <1>a, <2>3, MarkEffect DEF Arrive, Reset
    <3>3. ASSUME NEW e \in Docs, isParent[e] = "true" \/ (resets > 0 /\ isParent[e] = "null")
          PROVE  isParent'[e] = "true" \/ (resets' > 0 /\ isParent'[e] = "null")
      <4>1. CASE \E d \in Docs : Arrive(d)
        BY <1>a, <3>3, <4>1 DEF Arrive, history
      <4>2. ASSUME NEW S \in SUBSET Docs, Reset(S)
            PROVE  isParent'[e] = "true" \/ (resets' > 0 /\ isParent'[e] = "null")
        <5>1. resets' = resets + 1 /\ Mark(S, "null") /\ e \in Present
          BY <3>3, <4>2 DEF Reset, Present
        <5>2. isParent'[e] \in {"null", isParent[e]}
          BY <1>a, <5>1, MarkEffect
        <5> QED
          BY <1>a, <3>3, <5>1, <5>2
      <4> QED
        BY <2>3, <4>1, <4>2
    <3> QED
      BY <1>a, <1>b, <2>3, <3>1, <3>2, <3>3 DEF HeirsKept, HeirOf
  <2>4. ASSUME \/ \E d \in Docs : Arrive(d)
               \/ \E D \in SUBSET Docs : Reset(D)
        PROVE  resets' \in Nat /\ plan' = plan /\ matches' = matches
    BY <1>a, <2>4 DEF Arrive, Reset, sidecars, memory, history
  <2> QED
    BY <1>2, <1>3, <2>1, <2>2, <2>3, <2>4, DuringSync DEF NoPlan
<1>4. CASE plan.children = {} /\ plan'.children # {}
  <2>1. CASE WriteDupes
    BY <1>a, <1>4, <2>1 DEF WriteDupes
  <2>2. ASSUME NEW chunk \in SUBSET plan.children, MarkAsChildren(chunk)
        PROVE  HeirsKept'
    BY <1>4, <2>2 DEF MarkAsChildren
  <2>3. CASE MarkAsParents
    BY <1>a, <1>4, <2>3 DEF MarkAsParents
  <2>4. CASE plan' \in {plan, NoPlan}
    BY <1>4, <2>4 DEF NoPlan
  <2> QED
    BY <1>1, <2>1, <2>2, <2>3, <2>4, OnlyPhase3
<1> QED
  BY <1>2, <1>3, <1>4

-------------------------------------------------------------------------------

LEMMA InitRunInv ==
  ASSUME Init
  PROVE  RunInv
<1>1. TypeOK
  BY SizesAssumption DEF Init, TypeOK, Runs, Daily, NoScan, NoPlan
<1> QED
  BY <1>1 DEF Init, RunInv, Tidy, PlanFits, ChildHasRow, HeirsKept, NoPlan, Marked

LEMMA StepRunInv ==
  ASSUME RunInv, [Next]_vars
  PROVE  RunInv'
<1>1. CASE Next
  BY <1>1, StepTypeOK, StepTidy, StepPlanFits, StepHeirsKept DEF RunInv
<1>2. CASE UNCHANGED vars
  <2>1. UNCHANGED <<database, sidecars, memory, outcome, history>>
    BY <1>2 DEF vars
  <2> USE DEF RunInv, database, sidecars, memory, history
  <2>2. TypeOK'
    BY <2>1 DEF TypeOK
  <2>3. Tidy' /\ PlanFits' /\ ChildHasRow'
    BY <2>1 DEF Tidy, PlanFits, ChildHasRow, Marked
  <2>4. HeirsKept'
    BY <2>1 DEF HeirsKept, HeirOf, Component, ClusterOf, Closed
  <2> QED
    BY <2>2, <2>3, <2>4
<1> QED
  BY <1>1, <1>2

(* What the theorems rest on.                                              *)
LEMMA RunInvHolds == Spec => []RunInv
<1>1. Init => RunInv
  BY InitRunInv
<1>2. RunInv /\ [Next]_vars => RunInv'
  BY StepRunInv
<1> QED
  BY <1>1, <1>2, PTL DEF Spec

(* Every variable keeps its type and no child ever gets a second row,      *)
(* whatever the order of runs, faults, resets and cleanups.                *)
THEOREM RunsTyped == Spec => []TypeOK
<1>1. RunInv => TypeOK
  BY DEF RunInv
<1> QED
  BY <1>1, RunInvHolds, PTL

(* Whoever is marked as a duplicate has a row that says of what.           *)
THEOREM RowsBeforeMarks == Spec => []ChildHasRow
<1>1. RunInv => ChildHasRow
  BY DEF RunInv
<1> QED
  BY <1>1, RunInvHolds, PTL

LEMMA DemotedForHeir ==
  ASSUME RunInv, [Next]_vars
  PROVE  \A d \in Docs : isParent[d] = "true" /\ isParent'[d] = "false" =>
           \E e \in Component(d) :
             \/ isParent[e] = "true" /\ isParent'[e] = "true"
             \/ resets > 0 /\ isParent'[e] = "null"
<1>a. isParent \in [Docs -> Marks] /\ plan.children \subseteq Docs /\ HeirsKept
  BY DEF RunInv, TypeOK, Marks
<1> SUFFICES ASSUME NEW d \in Docs, isParent[d] = "true", isParent'[d] = "false"
             PROVE  \E e \in Component(d) :
                      \/ isParent[e] = "true" /\ isParent'[e] = "true"
                      \/ resets > 0 /\ isParent'[e] = "null"
  OBVIOUS
<1>1. PICK chunk \in SUBSET plan.children : MarkAsChildren(chunk)
  <2>1. ~ UNCHANGED isParent
    OBVIOUS
  <2>2. Next /\ ~Resolve /\ ~WriteDupes
    BY <2>1 DEF vars, database, Resolve, WriteDupes
  <2>3. ~MarkAsParents
    BY <1>a, MarkEffect DEF MarkAsParents
  <2> QED
    BY <2>2, <2>3, OnlyPhase3
<1>2. d \in chunk /\ \A e \in Docs \ chunk : isParent'[e] = isParent[e]
  BY <1>1, <1>a, MarkEffect DEF MarkAsChildren
<1>3. PICK e \in Docs : HeirOf(e, d)
  BY <1>a, <1>2 DEF HeirsKept
<1> QED
  BY <1>2, <1>3 DEF HeirOf

(* A cluster never loses its canonical parent to a step of the program     *)
(* alone, in runs that are interrupted, full runs and all others.          *)
THEOREM ParentsLeaveHeirs == Spec => NoClusterDemoted
<1>1. RunInv /\ [Next]_vars =>
        [\A d \in Docs : isParent[d] = "true" /\ isParent'[d] = "false" =>
           \E e \in Component(d) :
             \/ isParent[e] = "true" /\ isParent'[e] = "true"
             \/ resets > 0 /\ isParent'[e] = "null"]_vars
  BY DemotedForHeir
<1> QED
  BY <1>1, RunInvHolds, PTL DEF Spec, NoClusterDemoted

-------------------------------------------------------------------------------
(* No duplicate pair is lost between runs.  Whether a document has been    *)
(* settled before is nowhere recorded: a user may have put it back in the  *)
(* queue.  The invariant therefore says that there is a set W of documents *)
(* that holds all that were ever settled.                                  *)

(* Documents in lsh.redb or on an edge of matches.redb.                    *)
Seen == index \cup UNION matches

Mixed(p)    == ~ p \subseteq Cluster /\ p \cap Cluster # {}
OnRecord(p) == Linked(p) \/ Mixed(p) \/ (p \subseteq Cluster /\ cleanups > 0)

(* Memory and sidecars hold documents that have arrived.                   *)
Arrived ==
  /\ (Seen \cup newDocs) \cap Marked("absent") = {}
  /\ Seen \cap Filtered = {}
  /\ newDocs \subseteq index \cup scan.toIndex /\ scan.toIndex \subseteq newDocs
  /\ step \in {"idle", "clearing", "clearing matches", "clearing filtered"} => newDocs = {}
  /\ step \in {"clearing matches", "clearing filtered"} => whole = FALSE

(* Phase 1 has read the source up to some document, or all of it.          *)
Read(d) == IF step = "indexing" THEN d \in scan.past \/ scan.done = TRUE
           ELSE step \in {"comparing", "resolving", "syncing"}

PastIsPrefix == \A e \in scan.past : \A d \in Docs : d <= e => d \in scan.past

(* W contains the documents that have ever been settled, and those that    *)
(* Phase 3 has resolved.                                                   *)
Knows(W) ==
  /\ Settled \subseteq W
  /\ W \cap Marked("absent") = {}
  /\ {r[1] : r \in dupes} \subseteq W
  /\ {r[1] : r \in plan.rows} \cup plan.children \cup plan.parents
       \subseteq W
  /\ step = "syncing" => newDocs \subseteq W

(* Of the documents that have been seen, those that have never been settled *)
(* are in the batch; in a full run, those that have been are, too.         *)
BatchIsWhole(W) ==
  /\ \A d \in (Seen \cap Present) \ W : Read(d) => d \in newDocs
  /\ run.full = TRUE /\ step \in {"indexing", "comparing"} =>
       \A d \in (W \cap Present) \ Filtered : Read(d) => d \in newDocs
  /\ whole = TRUE => (W \cap Present) \ Filtered \subseteq index

Compared(W) ==
  IF step \in {"resolving", "syncing"} THEN (W \cap Present) \cup newDocs
  ELSE W \cap Present

PairsOf(W) ==
  /\ whole = TRUE => \A p \in Pairs : p \subseteq Compared(W) => OnRecord(p)
  /\ step = "comparing" =>
       \A p \in Pairs : p \subseteq index /\ p \cap newDocs # {} =>
         p \cap seeds # {} \/ OnRecord(p)

History(W) == Knows(W) /\ BatchIsWhole(W) /\ PairsOf(W)

-------------------------------------------------------------------------------
(* Lowest UUIDs.                                                           *)

LEMMA LowestFacts ==
  ASSUME NEW D \in SUBSET Docs, NEW n \in Nat \ {0}
  PROVE  /\ Lowest(D, n) \subseteq D
         /\ Lowest(D, n) = {} => D = {}
         /\ \A e \in Lowest(D, n) : \A d \in D : d <= e => d \in Lowest(D, n)
<1>a. D \subseteq Nat
  BY DocumentsAssumption
<1>1. ASSUME D # {}
      PROVE  Lowest(D, n) # {}
  <2>1. PICK m \in D : \A x \in D : m <= x
    BY <1>1, <1>a, MinimumExists
  <2>2. {e \in D : e < m} = {}
    <3>1. ASSUME NEW e \in D, e < m
          PROVE  FALSE
      <4>1. m <= e /\ m \in Nat /\ e \in Nat
        BY <1>a, <2>1
      <4> QED
        BY <3>1, <4>1
    <3> QED
      BY <3>1
  <2>3. Cardinality({e \in D : e < m}) < n
    BY <2>2, FS_EmptySet
  <2> QED
    BY <2>1, <2>3 DEF Lowest
<1>2. ASSUME NEW e \in Lowest(D, n), NEW d \in D, d <= e
      PROVE  d \in Lowest(D, n)
  <2> DEFINE below(x) == {y \in D : y < x}
  <2>1. e \in D /\ Cardinality(below(e)) < n
    BY <1>2 DEF Lowest
  <2>2. below(d) \subseteq below(e) /\ below(e) \subseteq 0..e
    <3>1. e \in Nat /\ d \in Nat
      BY <1>a, <2>1
    <3>2. ASSUME NEW y \in D
          PROVE  (y < d => y < e) /\ (y < e => y \in 0..e)
      <4>1. y \in Nat
        BY <1>a
      <4> QED
        BY <1>2, <3>1, <4>1
    <3> QED
      BY <3>2
  <2>3. IsFiniteSet(below(e))
    <3>1. IsFiniteSet(0..e)
      BY <1>a, <2>1, FS_Interval
    <3> QED
      BY <2>2, <3>1, FS_Subset
  <2>4. Cardinality(below(d)) <= Cardinality(below(e)) /\ IsFiniteSet(below(d))
    BY <2>2, <2>3, FS_Subset
  <2>5. Cardinality(below(d)) \in Nat /\ Cardinality(below(e)) \in Nat
    BY <2>3, <2>4, FS_CardinalityType
  <2>6. Cardinality(below(d)) < n
    BY <2>1, <2>4, <2>5
  <2> QED
    BY <2>6 DEF Lowest
<1> QED
  BY <1>1, <1>2, LowestAreOfIt

-------------------------------------------------------------------------------
(* What changes what.                                                      *)

LEMMA MarkKeepsPresent ==
  ASSUME isParent \in [Docs -> Marks], NEW D, NEW m \in {"null", "true", "false"},
         Mark(D, m)
  PROVE  /\ Present' = Present
         /\ Marked("absent")' = Marked("absent") /\ Marked("deleted")' = Marked("deleted")
         /\ Settled' \subseteq Settled \cup (D \cap Present)
BY DEF Mark, Present, Marked, Settled, Marks

LEMMA OnRecordStays ==
  ASSUME matches \subseteq matches', cleanups \in Nat, cleanups' \in Nat,
         cleanups <= cleanups', NEW p, OnRecord(p)
  PROVE  OnRecord(p)'
<1>1. Linked(p) => Linked(p)'
  BY DEF Linked
<1>2. cleanups > 0 => cleanups' > 0
  OBVIOUS
<1> QED
  BY <1>1, <1>2 DEF OnRecord, Mixed

LEMMA SeenTyped ==
  ASSUME TypeOK
  PROVE  Seen \subseteq Docs /\ Present \subseteq Docs /\ Settled \subseteq Present
BY DEF TypeOK, Seen, Present, Settled, Marked

(* A document of the table that is not settled is in the queue.            *)
LEMMA PresentOrQueued ==
  ASSUME TypeOK, NEW d \in Present
  PROVE  d \in Settled \/ isParent[d] = "null"
BY DEF TypeOK, Present, Settled, Marked

(* Steps that leave all but the marks, the queue and the outcome alone.    *)
LEMMA SameHistory ==
  ASSUME TypeOK, TypeOK', NEW W \in SUBSET Docs, History(W),
         UNCHANGED <<dupes, index, matches, run, step, scan, newDocs, seeds, plan, whole>>,
         cleanups \in Nat, cleanups' \in Nat, cleanups <= cleanups',
         Settled' \subseteq Settled, Marked("absent")' \subseteq Marked("absent"),
         Marked("deleted") \subseteq Marked("deleted")',
         \A d \in Present' : d \in Present \/ d \in Marked("absent"),
         Seen \cap Marked("absent") = {}
  PROVE  History(W)'
<1>1. Knows(W)'
  BY DEF History, Knows
<1>2. Seen' = Seen
  BY DEF Seen
<1>3. W \cap Present' \subseteq W \cap Present /\ Seen \cap Present' \subseteq Seen \cap Present
  BY DEF History, Knows
<1>4. BatchIsWhole(W)'
  BY <1>2, <1>3 DEF History, BatchIsWhole, Read
<1>5. Compared(W)' \subseteq Compared(W)
  BY <1>3 DEF Compared
<1>6. PairsOf(W)'
  BY <1>5, OnRecordStays DEF History, PairsOf
<1> QED
  BY <1>1, <1>4, <1>6 DEF History

-------------------------------------------------------------------------------
(* Only documents of the table get into memory and sidecars.               *)

LEMMA EdgesSeen ==
  /\ \A P \in {Pathological, {}} : \A p \in ClusterEdges(P) : p \subseteq index
  /\ \A p \in FoundPairs : p \subseteq index
<1>1. ASSUME NEW P \in {Pathological, {}}, NEW p \in ClusterEdges(P)
      PROVE  p \subseteq index
  <2>1. P \subseteq index
    BY DEF Pathological
  <2>2. Lowest(P, 1) \subseteq P
    BY LowestAreOfIt
  <2> QED
    BY <2>1, <2>2 DEF ClusterEdges
<1> QED
  BY <1>1 DEF FoundPairs

LEMMA AbsentShrinks ==
  ASSUME RunInv, Next
  PROVE  Marked("absent")' \subseteq Marked("absent")
<1>a. isParent \in [Docs -> Marks]
  BY DEF RunInv, TypeOK, Marks
<1>1. ASSUME NEW D, NEW m \in {"null", "true", "false", "deleted"}, Mark(D, m)
      PROVE  Marked("absent")' \subseteq Marked("absent")
  BY <1>1 DEF Mark, Marked
<1>2. ASSUME NEW d \in Docs, Arrive(d)
      PROVE  Marked("absent")' \subseteq Marked("absent")
  BY <1>2, <1>a DEF Arrive, Marked
<1>3. (\E d \in Docs : Arrive(d)) \/ isParent' = isParent
      \/ \E D, m : m \in {"null", "true", "false", "deleted"} /\ Mark(D, m)
  BY DEF Next, Cleanup, Run, ByHand, Work, Phase1, Phase3, Reset, CleanupMarkParents,
         CleanupDelete, DeleteDocuments, StartRun, StartFullRun, ClearIndex,
         ClearMatches, ClearFiltered, FetchPage, InsertBatch, FlushFilteredParents,
         DetectPathological, FindDuplicates, Resolve, WriteDupes, MarkAsChildren,
         MarkAsParents, EndRun, Interrupt, database
<1> QED
  BY <1>1, <1>2, <1>3 DEF Marked

(* Batches in memory hold documents that the source returned.              *)
LEMMA BatchGrows ==
  ASSUME RunInv, Next
  PROVE  \/ newDocs' = newDocs
         \/ newDocs' = {}
         \/ newDocs' \subseteq newDocs \cup (Present \ Filtered)
<1>1. CASE FetchPage
  <2>1. Source \subseteq Present
    BY DEF Source, Present, Marked
  <2> QED
    BY <1>1, <2>1, LowestAreOfIt DEF FetchPage, BatchOf
<1>2. ~FetchPage => newDocs' \in {newDocs, {}}
  BY DEF Next, Cleanup, Run, ByHand, Work, Phase1, Phase3, Arrive, Reset,
         CleanupMarkParents, CleanupDelete, StartRun, StartFullRun, ClearIndex,
         ClearMatches, ClearFiltered, InsertBatch, FlushFilteredParents,
         DetectPathological, FindDuplicates, Resolve, WriteDupes, MarkAsChildren,
         MarkAsParents, EndRun, Interrupt, Forget, memory
<1> QED
  BY <1>1, <1>2

LEMMA SeenGrows ==
  ASSUME RunInv, Next
  PROVE  Seen' \subseteq Seen \cup scan.toIndex
<1>1. CASE InsertBatch
  BY <1>1, LowestAreOfIt DEF InsertBatch, Seen
<1>2. CASE ClearIndex \/ ClearMatches
  BY <1>2 DEF ClearIndex, ClearMatches, Seen
<1>3. ASSUME NEW P \in {Pathological, {}}, DetectPathological(P)
      PROVE  Seen' \subseteq Seen
  BY <1>3, EdgesSeen DEF DetectPathological, Seen
<1>4. CASE FindDuplicates
  BY <1>4, EdgesSeen DEF FindDuplicates, Seen
<1>5. ASSUME NEW recorded \in (SUBSET FoundPairs) \cup {{}}, Interrupt(recorded)
      PROVE  Seen' \subseteq Seen
  BY <1>5, EdgesSeen DEF Interrupt, Seen
<1>6. \/ InsertBatch \/ ClearIndex \/ ClearMatches \/ FindDuplicates
      \/ \E P \in {Pathological, {}} : DetectPathological(P)
      \/ \E recorded \in (SUBSET FoundPairs) \cup {{}} : Interrupt(recorded)
      \/ UNCHANGED <<index, matches>>
  BY DEF Next, Cleanup, Run, ByHand, Work, Phase1, Phase3, Arrive, Reset,
         CleanupMarkParents, CleanupDelete, StartRun, StartFullRun,
         ClearFiltered, FetchPage, FlushFilteredParents,
         Resolve, WriteDupes, MarkAsChildren, MarkAsParents, EndRun, sidecars
<1> QED
  BY <1>1, <1>2, <1>3, <1>4, <1>5, <1>6 DEF Seen

LEMMA ForgetEmpties ==
  ASSUME Forget
  PROVE  /\ step' = "idle" /\ newDocs' = {} /\ seeds' = {} /\ run' = Daily
         /\ scan'.past = {} /\ scan'.toIndex = {}
         /\ plan'.rows = {} /\ plan'.children = {} /\ plan'.parents = {}
BY DEF Forget, NoScan, NoPlan

(* How a batch and the index go together.                                  *)
BatchIndexed ==
  /\ newDocs \subseteq index \cup scan.toIndex /\ scan.toIndex \subseteq newDocs
  /\ step \in {"idle", "clearing", "clearing matches", "clearing filtered"} => newDocs = {}
  /\ step \in {"clearing matches", "clearing filtered"} => whole = FALSE

LEMMA StepBatchIndexed ==
  ASSUME RunInv, BatchIndexed, Next
  PROVE  BatchIndexed'
<1> USE DEF BatchIndexed
<1>a. Tidy /\ scan \in Scans
  BY DEF RunInv, TypeOK, Scans
<1>1. CASE FetchPage
  BY <1>1 DEF FetchPage, BatchOf, sidecars, history
<1>2. CASE InsertBatch
  <2> DEFINE chunk == Lowest(scan.toIndex, IndexBatch)
  <2>1. chunk \subseteq scan.toIndex /\ index' = index \cup chunk
        /\ scan'.toIndex = scan.toIndex \ chunk
        /\ UNCHANGED <<newDocs, step, whole>>
    BY <1>2, <1>a, LowestAreOfIt DEF InsertBatch, Scans, history
  <2> HIDE DEF chunk
  <2> QED
    BY <2>1
<1>3. CASE FlushFilteredParents
  <2>1. scan'.toIndex = scan.toIndex /\ UNCHANGED <<newDocs, step, whole, index>>
    BY <1>3, <1>a DEF FlushFilteredParents, Scans, history
  <2> QED
    BY <2>1
<1>4. CASE ClearIndex
  BY <1>4, <1>a DEF ClearIndex, Tidy
<1>5. CASE ClearMatches \/ ClearFiltered
  BY <1>5, <1>a DEF ClearMatches, ClearFiltered, history
<1>6. ASSUME NEW P, DetectPathological(P)
      PROVE  BatchIndexed'
  <2>1. newDocs \subseteq index
    BY <1>6 DEF DetectPathological
  <2>2. CASE newDocs = {}
    <3>1. Forget
      BY <1>6, <2>2 DEF DetectPathological
    <3> QED
      BY <3>1, ForgetEmpties
  <2>3. CASE newDocs # {}
    <3>1. /\ index' = index /\ newDocs' = newDocs /\ scan'.toIndex = {}
          /\ step' \in {"resolving", "comparing"}
      BY <1>6, <2>3 DEF DetectPathological, NoScan
    <3> QED
      BY <2>1, <3>1
  <2> QED
    BY <2>2, <2>3
<1>7. CASE FindDuplicates \/ Resolve
  BY <1>7 DEF FindDuplicates, Resolve, sidecars, history
<1>8. EndRun \/ (\E recorded : Interrupt(recorded)) => BatchIndexed'
  BY ForgetEmpties DEF EndRun, Interrupt
<1>9. CASE WriteDupes \/ (\E chunk : MarkAsChildren(chunk)) \/ MarkAsParents
  BY <1>9 DEF WriteDupes, MarkAsChildren, MarkAsParents, sidecars, history
<1>10. ASSUME NEW writes, StartRun(writes) \/ StartFullRun(writes)
       PROVE  BatchIndexed'
  BY <1>10 DEF StartRun, StartFullRun, sidecars
<1>11. CASE \E d : Arrive(d)
  BY <1>11 DEF Arrive, sidecars, memory, history
<1>12. ASSUME NEW D, Reset(D) \/ CleanupMarkParents(D) \/ CleanupDelete(D)
       PROVE  BatchIndexed'
  BY <1>12 DEF Reset, CleanupMarkParents, CleanupDelete, sidecars, memory
<1> QED
  BY <1>1, <1>2, <1>3, <1>4, <1>5, <1>6, <1>7, <1>8, <1>9, <1>10, <1>11, <1>12
     DEF Next, Cleanup, Run, ByHand, Work, Phase1, Phase3

LEMMA StepArrived ==
  ASSUME RunInv, Arrived, Next
  PROVE  Arrived'
<1>1. BatchIndexed'
  BY StepBatchIndexed DEF Arrived, BatchIndexed
<1>2. Present \cap Marked("absent") = {} /\ scan.toIndex \cap Filtered = {}
  BY DEF Present, Marked, RunInv, TypeOK
<1>3. Seen' \cap Filtered = {} /\ Seen' \cap Marked("absent") = {}
  BY <1>2, SeenGrows DEF Arrived
<1>4. newDocs' \cap Marked("absent") = {}
  BY <1>2, BatchGrows DEF Arrived
<1> QED
  BY <1>1, <1>3, <1>4, AbsentShrinks DEF Arrived, BatchIndexed

(* What has been read of the source is all of it up to some document.      *)
LEMMA StepPastIsPrefix ==
  ASSUME RunInv, PastIsPrefix, Next
  PROVE  PastIsPrefix'
<1>a. scan \in Scans
  BY DEF RunInv, TypeOK, Scans
<1>1. CASE FetchPage
  <2> DEFINE page == Lowest(Source \ scan.past, BatchSize)
  <2>1. scan'.past = {d \in Docs : \E e \in scan.past \cup page : d <= e}
    BY <1>1 DEF FetchPage
  <2>2. page \subseteq Docs /\ scan.past \subseteq Docs
    <3>1. Source \subseteq Docs
      BY DEF Source, Present, Marked
    <3> QED
      BY <1>a, <3>1, LowestAreOfIt DEF Scans
  <2> HIDE DEF page
  <2>3. ASSUME NEW e \in scan'.past, NEW d \in Docs, d <= e
        PROVE  d \in scan'.past
    <3>1. PICK f \in scan.past \cup page : e <= f
      BY <2>1
    <3>2. d <= f
      <4>1. d \in Nat /\ e \in Nat /\ f \in Nat
        BY <2>1, <2>2, DocumentsAssumption
      <4> QED
        BY <2>3, <3>1, <4>1
    <3> QED
      BY <2>1, <3>1, <3>2
  <2> QED
    BY <2>3 DEF PastIsPrefix
<1>2. CASE scan'.past = scan.past \/ scan'.past = {}
  BY <1>2 DEF PastIsPrefix
<1>3. FetchPage \/ scan'.past = scan.past \/ scan'.past = {}
  <2>1. InsertBatch \/ FlushFilteredParents => scan'.past = scan.past
    BY <1>a DEF InsertBatch, FlushFilteredParents, Scans
  <2>2. (\E P : DetectPathological(P)) => scan'.past = {}
    BY ForgetEmpties DEF DetectPathological, NoScan
  <2>3. EndRun \/ (\E recorded : Interrupt(recorded)) => scan'.past = {}
    BY ForgetEmpties DEF EndRun, Interrupt
  <2> QED
    BY <2>1, <2>2, <2>3
       DEF Next, Cleanup, Run, ByHand, Work, Phase1, Phase3, Arrive, Reset,
           CleanupMarkParents, CleanupDelete, StartRun, StartFullRun, ClearIndex,
           ClearMatches, ClearFiltered, FindDuplicates, Resolve, WriteDupes,
           MarkAsChildren, MarkAsParents, memory
<1> QED
  BY <1>1, <1>2, <1>3

-------------------------------------------------------------------------------
(* The steps keep the history of some set W.                               *)

BaseInv == RunInv /\ Arrived /\ PastIsPrefix

LEMMA CleanupsCounted ==
  ASSUME TypeOK
  PROVE  cleanups \in Nat /\ resets \in Nat
<1>1. cleanups \in 0..MaxCleanups /\ resets \in 0..MaxResets
  BY DEF TypeOK
<1> QED
  BY <1>1, SizesAssumption

LEMMA HistoryArrive ==
  ASSUME BaseInv, RunInv', NEW W \in SUBSET Docs, History(W), NEW d \in Docs, Arrive(d)
  PROVE  History(W)'
<1>1. /\ isParent[d] = "absent" /\ isParent' = [isParent EXCEPT ![d] = "null"]
      /\ UNCHANGED <<dupes, index, matches, run, step, scan, newDocs, seeds, plan,
                     whole, cleanups>>
  BY DEF Arrive, sidecars, memory, history
<1>2. isParent \in [Docs -> Marks] /\ TypeOK /\ TypeOK'
  BY DEF BaseInv, RunInv, TypeOK, Marks
<1>3. /\ Settled' \subseteq Settled /\ Marked("absent")' \subseteq Marked("absent")
      /\ Marked("deleted") \subseteq Marked("deleted")'
      /\ \A e \in Present' : e \in Present \/ e \in Marked("absent")
  BY <1>1, <1>2 DEF Settled, Marked, Present, Marks
<1>4. cleanups \in Nat /\ cleanups' \in Nat /\ cleanups <= cleanups'
  BY <1>1, <1>2, CleanupsCounted
<1> QED
  BY <1>1, <1>2, <1>3, <1>4, SameHistory DEF BaseInv, Arrived

LEMMA HistoryReset ==
  ASSUME BaseInv, RunInv', NEW W \in SUBSET Docs, History(W), NEW D, Reset(D)
  PROVE  History(W)'
<1>1. /\ D \subseteq Settled /\ Mark(D, "null")
      /\ UNCHANGED <<dupes, index, matches, run, step, scan, newDocs, seeds, plan,
                     whole, cleanups>>
  BY DEF Reset, sidecars, memory
<1>2. isParent \in [Docs -> Marks] /\ TypeOK /\ TypeOK'
  BY DEF BaseInv, RunInv, TypeOK, Marks
<1>3. /\ Settled' \subseteq Settled /\ Marked("absent")' \subseteq Marked("absent")
      /\ Marked("deleted") \subseteq Marked("deleted")'
      /\ \A e \in Present' : e \in Present \/ e \in Marked("absent")
  BY <1>1, <1>2, MarkKeepsPresent
<1>4. cleanups \in Nat /\ cleanups' \in Nat /\ cleanups <= cleanups'
  BY <1>1, <1>2, CleanupsCounted
<1> QED
  BY <1>1, <1>2, <1>3, <1>4, SameHistory DEF BaseInv, Arrived

LEMMA HistoryDelete ==
  ASSUME BaseInv, RunInv', NEW W \in SUBSET Docs, History(W), NEW D, CleanupDelete(D)
  PROVE  History(W)'
<1>1. /\ Mark(D, "deleted") /\ cleanups' = cleanups + 1
      /\ UNCHANGED <<dupes, index, matches, run, step, scan, newDocs, seeds, plan, whole>>
  BY DEF CleanupDelete, DeleteDocuments, sidecars, memory
<1>2. isParent \in [Docs -> Marks] /\ TypeOK /\ TypeOK'
  BY DEF BaseInv, RunInv, TypeOK, Marks
<1>3. /\ Settled' \subseteq Settled /\ Marked("absent")' \subseteq Marked("absent")
      /\ Marked("deleted") \subseteq Marked("deleted")'
      /\ \A e \in Present' : e \in Present \/ e \in Marked("absent")
  BY <1>1, <1>2 DEF Mark, Settled, Marked, Present, Marks
<1>4. cleanups \in Nat /\ cleanups' \in Nat /\ cleanups <= cleanups'
  BY <1>1, <1>2, CleanupsCounted
<1> QED
  BY <1>1, <1>2, <1>3, <1>4, SameHistory DEF BaseInv, Arrived

(* The documents that --cleanup marks have been seen, and their pairs are  *)
(* excepted.                                                               *)
LEMMA HistoryCleanup ==
  ASSUME BaseInv, RunInv', NEW W \in SUBSET Docs, History(W),
         NEW D \in SUBSET Pathological, CleanupMarkParents(D)
  PROVE  \E V \in SUBSET Docs : History(V)'
<1>1. /\ Mark(D, "true") /\ cleanups' = cleanups + 1 /\ step = "idle"
      /\ UNCHANGED <<dupes, index, matches, run, step, scan, newDocs, seeds, plan, whole>>
  BY DEF CleanupMarkParents, sidecars, memory
<1>2. isParent \in [Docs -> Marks] /\ TypeOK /\ TypeOK'
  BY DEF BaseInv, RunInv, TypeOK, Marks
<1>3. /\ Present' = Present
      /\ Marked("absent")' = Marked("absent") /\ Marked("deleted")' = Marked("deleted")
      /\ Settled' \subseteq Settled \cup (D \cap Present)
  BY <1>1, <1>2, MarkKeepsPresent
<1>4. D \subseteq index \cap Cluster
  BY DEF Pathological
<1>5. cleanups \in Nat /\ cleanups' \in Nat /\ cleanups <= cleanups' /\ cleanups' > 0
  BY <1>1, <1>2, CleanupsCounted
<1>6. PICK V \in SUBSET Docs : V = W \cup (D \cap Present)
  BY <1>2, SeenTyped
<1>7. D \cap Present \cap Marked("absent") = {}
  BY DEF Present, Marked
<1>8. Seen' = Seen
  BY <1>1 DEF Seen
<1>9. Knows(V)'
  BY <1>1, <1>3, <1>6, <1>7 DEF History, Knows
<1>10. BatchIsWhole(V)'
  BY <1>1, <1>3, <1>4, <1>6, <1>8 DEF History, BatchIsWhole, Read
<1>11. PairsOf(V)'
  <2>1. ASSUME NEW p \in Pairs, p \subseteq V \cap Present, whole = TRUE
        PROVE  OnRecord(p)'
    <3>1. CASE p \cap D = {}
      <4>1. p \subseteq Compared(W)
        BY <1>1, <1>6, <2>1, <3>1 DEF Compared
      <4>2. OnRecord(p)
        BY <2>1, <4>1 DEF History, PairsOf
      <4> QED
        BY <1>1, <1>5, <4>2, OnRecordStays
    <3>2. CASE p \cap D # {}
      BY <1>4, <1>5, <3>2 DEF OnRecord, Mixed
    <3> QED
      BY <3>1, <3>2
  <2> QED
    BY <1>1, <1>3, <2>1 DEF PairsOf, Compared
<1> QED
  BY <1>9, <1>10, <1>11 DEF History

(* At the beginning of a run nothing has been read yet.                    *)
LEMMA HistoryStart ==
  ASSUME BaseInv, RunInv', Arrived', NEW W \in SUBSET Docs, History(W),
         \/ \E writes : StartRun(writes) \/ StartFullRun(writes)
         \/ ClearIndex \/ ClearMatches \/ ClearFiltered
  PROVE  History(W)'
<1>1. /\ UNCHANGED <<isParent, dupes, scan, newDocs, plan, cleanups>>
      /\ step' \in {"indexing", "clearing", "clearing matches", "clearing filtered"}
      /\ step \in {"idle", "clearing", "clearing matches", "clearing filtered"}
      /\ \/ UNCHANGED <<index, matches, whole>>
         \/ whole' = FALSE
  BY DEF StartRun, StartFullRun, ClearIndex, ClearMatches, ClearFiltered, database,
         sidecars, history, BaseInv, Arrived
<1>2. scan = NoScan
  BY <1>1 DEF BaseInv, RunInv, Tidy
<1>3. \A d : ~Read(d)'
  <2>1. scan'.past = {} /\ scan'.done = FALSE
    BY <1>1, <1>2 DEF NoScan
  <2> QED
    BY <1>1, <2>1 DEF Read
<1>4. UNCHANGED <<Present, Settled, Marked("absent"), Marked("deleted")>>
  BY <1>1 DEF Present, Settled, Marked
<1>5. Knows(W)'
  BY <1>1, <1>4 DEF History, Knows
<1>6. BatchIsWhole(W)'
  BY <1>1, <1>3, <1>4 DEF History, BatchIsWhole
<1>7. PairsOf(W)'
  BY <1>1, <1>4 DEF History, PairsOf, Compared, OnRecord, Linked, Mixed
<1> QED
  BY <1>5, <1>6, <1>7 DEF History

(* At the end of a run its batch is forgotten.                             *)
LEMMA HistoryEnd ==
  ASSUME BaseInv, RunInv', NEW W \in SUBSET Docs, History(W), Forget,
         UNCHANGED <<isParent, dupes, index, cleanups, whole>>,
         matches \subseteq matches'
  PROVE  History(W)'
<1>1. UNCHANGED <<Present, Settled, Marked("absent"), Marked("deleted")>>
  BY DEF Present, Settled, Marked
<1>2. \A d : ~Read(d)'
  BY ForgetEmpties DEF Read
<1>3. Knows(W)'
  BY <1>1, ForgetEmpties DEF History, Knows
<1>4. BatchIsWhole(W)'
  BY <1>1, <1>2, ForgetEmpties DEF History, BatchIsWhole, Daily
<1>5. Compared(W)' \subseteq Compared(W)
  BY <1>1, ForgetEmpties DEF Compared
<1>6. PairsOf(W)'
  BY <1>5, ForgetEmpties, OnRecordStays, CleanupsCounted
     DEF History, PairsOf, BaseInv, RunInv
<1> QED
  BY <1>3, <1>4, <1>6 DEF History

-------------------------------------------------------------------------------
(* Phase 1.                                                                *)

(* A page leaves out nothing that the run has to take: what is neither     *)
(* settled nor read yet is still in the queue.                             *)
LEMMA HistoryFetch ==
  ASSUME BaseInv, RunInv', NEW W \in SUBSET Docs, History(W), FetchPage
  PROVE  History(W)'
<1> DEFINE page == Lowest(Source \ scan.past, BatchSize)
<1>1. /\ newDocs' = newDocs \cup (page \ Filtered)
      /\ scan'.past = {d \in Docs : \E e \in scan.past \cup page : d <= e}
      /\ scan'.done = (page = {})
      /\ step = "indexing" /\ step' = "indexing"
      /\ UNCHANGED <<isParent, dupes, index, matches, run, plan, cleanups, whole>>
  BY DEF FetchPage, BatchOf, database, sidecars, history
<1>2. TypeOK /\ plan = NoPlan
  BY <1>1 DEF BaseInv, RunInv, Tidy
<1>3. UNCHANGED <<Present, Settled, Marked("absent"), Marked("deleted"), Seen>>
  BY <1>1 DEF Present, Settled, Marked, Seen
<1>4. /\ page \subseteq Source \ scan.past
      /\ page = {} => Source \subseteq scan.past
      /\ \A e \in page : \A d \in Source \ scan.past : d <= e => d \in page
  <2>1. Source \ scan.past \in SUBSET Docs
    BY DEF Source, Present, Marked
  <2> QED
    BY <2>1, LowestFacts, SizesAssumption
<1> HIDE DEF page
<1>5. ASSUME NEW d \in Source \ Filtered, Read(d)', Read(d) => d \in newDocs
      PROVE  d \in newDocs'
  <2>1. CASE Read(d)
    BY <1>1, <1>5, <2>1
  <2>2. CASE ~Read(d)
    <3>1. d \notin scan.past
      BY <1>1, <2>2 DEF Read
    <3>2. page # {}
      BY <1>4, <1>5, <3>1
    <3>3. d \in scan'.past
      BY <1>1, <1>5, <3>2 DEF Read
    <3>4. PICK e \in scan.past \cup page : d <= e
      BY <1>1, <3>3
    <3>5. d \in Docs /\ e \notin scan.past
      BY <1>1, <3>1, <3>3, <3>4 DEF BaseInv, PastIsPrefix
    <3>6. d \in page
      BY <1>4, <1>5, <3>1, <3>4, <3>5
    <3> QED
      BY <1>1, <1>5, <3>6
  <2> QED
    BY <2>1, <2>2
<1>6. \A d \in (Seen \cap Present) \ W : d \in Source \ Filtered
  BY <1>2, PresentOrQueued, SeenTyped
     DEF BaseInv, Arrived, History, Knows, Source, Marked
<1>7. run.full = TRUE => Source = Present
  BY DEF Source
<1>8. Knows(W)'
  BY <1>1, <1>2, <1>3 DEF History, Knows, NoPlan
<1>9. BatchIsWhole(W)'
  <2>1. ASSUME NEW d \in (Seen \cap Present) \ W, Read(d)'
        PROVE  d \in newDocs'
    <3>1. Read(d) => d \in newDocs
      BY DEF History, BatchIsWhole
    <3> QED
      BY <1>5, <1>6, <2>1, <3>1
  <2>2. ASSUME run.full = TRUE, NEW d \in (W \cap Present) \ Filtered, Read(d)'
        PROVE  d \in newDocs'
    <3>1. Read(d) => d \in newDocs
      BY <1>1, <2>2 DEF History, BatchIsWhole
    <3>2. d \in Source \ Filtered
      BY <1>7, <2>2
    <3> QED
      BY <1>5, <2>2, <3>1, <3>2
  <2> QED
    BY <1>1, <1>3, <2>1, <2>2 DEF History, BatchIsWhole
<1>10. PairsOf(W)'
  BY <1>1, <1>3 DEF History, PairsOf, Compared, OnRecord, Linked, Mixed
<1> QED
  BY <1>8, <1>9, <1>10 DEF History

LEMMA HistoryIndex ==
  ASSUME BaseInv, RunInv', NEW W \in SUBSET Docs, History(W), InsertBatch
  PROVE  History(W)'
<1>a. scan \in Scans /\ Tidy /\ \A n : Lowest({}, n) = {}
  BY DEF BaseInv, RunInv, TypeOK, Scans, Lowest
<1> DEFINE chunk == Lowest(scan.toIndex, IndexBatch)
<1>1. /\ index' = index \cup chunk /\ chunk \subseteq scan.toIndex
      /\ scan'.past = scan.past /\ scan'.done = scan.done
      /\ UNCHANGED <<isParent, dupes, matches, run, step, newDocs, plan, cleanups, whole>>
      /\ scan.toIndex # {}
  BY <1>a, LowestAreOfIt DEF InsertBatch, Scans, database, history
<1> HIDE DEF chunk
<1>2. step = "indexing"
  BY <1>1, <1>a DEF Tidy, NoScan
<1>3. UNCHANGED <<Present, Settled, Marked("absent"), Marked("deleted")>>
  BY <1>1 DEF Present, Settled, Marked
<1>4. Seen' \subseteq Seen \cup newDocs
  BY <1>1 DEF Seen, BaseInv, Arrived
<1>5. Knows(W)'
  BY <1>1, <1>3 DEF History, Knows
<1>6. BatchIsWhole(W)'
  BY <1>1, <1>3, <1>4 DEF History, BatchIsWhole, Read
<1>7. PairsOf(W)'
  BY <1>1, <1>2, <1>3 DEF History, PairsOf, Compared, OnRecord, Linked, Mixed
<1> QED
  BY <1>5, <1>6, <1>7 DEF History

LEMMA HistoryFlush ==
  ASSUME BaseInv, RunInv', NEW W \in SUBSET Docs, History(W), FlushFilteredParents,
         NEW V \in SUBSET Docs, W \cup Settled' \subseteq V,
         V \subseteq W \cup (Lowest(scan.toMark, BatchSize) \cap Present)
  PROVE  History(V)'
<1>a. /\ scan \in Scans /\ Tidy /\ TypeOK /\ isParent \in [Docs -> Marks]
      /\ \A n : Lowest({}, n) = {}
  BY DEF BaseInv, RunInv, TypeOK, Scans, Lowest, Marks
<1> DEFINE chunk == Lowest(scan.toMark, BatchSize)
<1>1. /\ Mark(chunk, "true") \/ UNCHANGED isParent
      /\ chunk \subseteq scan.toMark /\ scan.toMark # {}
      /\ scan'.past = scan.past /\ scan'.done = scan.done
      /\ UNCHANGED <<dupes, index, matches, run, step, newDocs, seeds, plan, cleanups, whole>>
  BY <1>a, LowestAreOfIt DEF FlushFilteredParents, Scans, history
<1>4. V \subseteq W \cup (chunk \cap Present)
  OBVIOUS
<1> HIDE DEF chunk
<1>2. step = "indexing" /\ chunk \subseteq Filtered
  BY <1>1, <1>a DEF Tidy, NoScan, Scans
<1>3. /\ Present' = Present
      /\ Marked("absent")' = Marked("absent") /\ Marked("deleted")' = Marked("deleted")
      /\ Settled' \subseteq Settled \cup (chunk \cap Present)
  <2>1. CASE Mark(chunk, "true")
    BY <1>a, <2>1, MarkKeepsPresent
  <2>2. CASE UNCHANGED isParent
    BY <2>2 DEF Present, Settled, Marked
  <2> QED
    BY <1>1, <2>1, <2>2
<1>5. chunk \cap Present \cap Marked("absent") = {}
  BY DEF Present, Marked
<1>6. Seen' = Seen
  BY <1>1 DEF Seen
<1>7. Knows(V)'
  BY <1>1, <1>3, <1>4, <1>5 DEF History, Knows
<1>8. BatchIsWhole(V)'
  BY <1>1, <1>2, <1>3, <1>4, <1>6 DEF History, BatchIsWhole, Read
<1>9. PairsOf(V)'
  <2>1. ASSUME NEW p \in Pairs, p \subseteq V \cap Present
        PROVE  p \subseteq W \cap Present
    BY <1>2, <1>4, <2>1, DocumentsAssumption
  <2>2. \A p : OnRecord(p)' = OnRecord(p)
    BY <1>1 DEF OnRecord, Linked, Mixed
  <2> QED
    BY <1>1, <1>2, <1>3, <2>1, <2>2 DEF History, PairsOf, Compared
<1> QED
  BY <1>7, <1>8, <1>9 DEF History

-------------------------------------------------------------------------------
(* Phases 1.5 and 2.                                                       *)

LEMMA PairsNotEmpty ==
  ASSUME NEW p \in Pairs
  PROVE  p # {} /\ p \subseteq Docs \ Filtered
BY DocumentsAssumption

(* There is only one lowest document.                                      *)
LEMMA LowestIsOne ==
  ASSUME NEW P \in SUBSET Docs, NEW a \in Lowest(P, 1), NEW b \in Lowest(P, 1)
  PROVE  a = b
<1> DEFINE below(x) == {y \in P : y < x}
<1>1. ASSUME NEW c \in Lowest(P, 1)
      PROVE  c \in P /\ c \in Nat /\ below(c) = {}
  <2>1. c \in P /\ c \in Nat /\ Cardinality(below(c)) < 1
    BY DocumentsAssumption DEF Lowest
  <2>2. below(c) \subseteq 0..c
    <3>1. ASSUME NEW y \in P, y < c
          PROVE  y \in 0..c
      <4>1. y \in Nat
        BY DocumentsAssumption
      <4> QED
        BY <2>1, <3>1, <4>1
    <3> QED
      BY <3>1
  <2>3. IsFiniteSet(below(c))
    <3>1. IsFiniteSet(0..c)
      BY <2>1, FS_Interval
    <3> QED
      BY <2>2, <3>1, FS_Subset
  <2>4. Cardinality(below(c)) = 0
    BY <2>1, <2>3, FS_CardinalityType
  <2> QED
    BY <2>1, <2>3, <2>4, FS_EmptySet
<1>2. ~(a < b) /\ ~(b < a)
  BY <1>1
<1> QED
  BY <1>1, <1>2

(* Phase 1.5 leaves no pair with a pathological document without an edge,  *)
(* but for those with regular documents.                                   *)
LEMMA ClusterOnRecord ==
  ASSUME TypeOK, NEW P \in {Pathological, {}}, ClusterEdges(P) \subseteq matches',
         NEW p \in Pairs, p \subseteq index, p \cap P # {}
  PROVE  OnRecord(p)'
<1>1. P = index \cap Cluster /\ P \subseteq Docs
  BY DocumentsAssumption DEF Pathological
<1>2. CASE p \subseteq Cluster
  <2>1. p \subseteq P
    BY <1>1, <1>2
  <2>2. PICK c : c \in Lowest(P, 1)
    BY <1>1, LowestFacts
  <2>3. c \in Cluster
    BY <1>1, <2>2, LowestAreOfIt
  <2>4. \A d \in p : d = c \/ {c, d} \in matches'
    <3>1. ASSUME NEW d \in p, d # c
          PROVE  {c, d} \in ClusterEdges(P)
      <4>1. d \in P \ Lowest(P, 1)
        BY <1>1, <2>1, <2>2, <3>1, LowestIsOne
      <4> QED
        BY <2>2, <4>1 DEF ClusterEdges
    <3> QED
      BY <3>1
  <2>5. Linked(p)'
    BY <1>2, <2>3, <2>4 DEF Linked
  <2> QED
    BY <2>5 DEF OnRecord
<1>3. CASE ~ p \subseteq Cluster
  BY <1>1, <1>3 DEF OnRecord, Mixed
<1> QED
  BY <1>2, <1>3

(* Once the source has been read, what a full run has to take is taken.    *)
LEMMA FullBatch ==
  ASSUME BaseInv, NEW W \in SUBSET Docs, History(W), run.full = TRUE,
         step \in {"indexing", "comparing"}, scan.done = TRUE \/ step = "comparing"
  PROVE  (W \cap Present) \ Filtered \subseteq newDocs
BY DEF History, BatchIsWhole, Read

LEMMA HistoryDetect ==
  ASSUME BaseInv, RunInv', NEW W \in SUBSET Docs, History(W),
         NEW P \in {Pathological, {}}, DetectPathological(P)
  PROVE  History(W)'
<1>1. /\ step = "indexing" /\ scan.done = TRUE /\ scan.toIndex = {}
      /\ matches' = matches \cup ClusterEdges(P)
      /\ UNCHANGED <<isParent, dupes, index, cleanups>>
  <2>1. scan.done \in BOOLEAN
    BY DEF BaseInv, RunInv, TypeOK
  <2> QED
    BY <2>1 DEF DetectPathological, database
<1>2. newDocs \subseteq index /\ TypeOK /\ plan = NoPlan
  BY <1>1 DEF BaseInv, Arrived, RunInv, Tidy
<1>3. whole' = TRUE => whole = TRUE \/ (run.full = TRUE /\ newDocs \subseteq P)
  <2>1. whole' = (whole \/ (run.full /\ newDocs \subseteq P))
    BY DEF DetectPathological
  <2>2. whole \in BOOLEAN /\ run.full \in BOOLEAN
    BY DEF BaseInv, RunInv, TypeOK, Runs
  <2> QED
    BY <2>1, <2>2
<1>4. \/ newDocs = {} /\ Forget
      \/ /\ newDocs # {} /\ newDocs \subseteq P /\ step' = "resolving"
         /\ UNCHANGED <<run, newDocs, plan>>
      \/ /\ ~ newDocs \subseteq P /\ step' = "comparing" /\ seeds' = newDocs \ P
         /\ UNCHANGED <<run, newDocs, plan>>
  BY DEF DetectPathological, Phase3Seeds, PathologicalBatch
<1>5. UNCHANGED <<Present, Settled, Marked("absent"), Marked("deleted")>>
  BY <1>1 DEF Present, Settled, Marked
<1>6. Seen' \subseteq Seen
  BY <1>1, EdgesSeen DEF Seen
<1>7. whole' = TRUE => (W \cap Present) \ Filtered \subseteq index
  <2>1. CASE whole = TRUE
    BY <2>1 DEF History, BatchIsWhole
  <2>2. CASE run.full = TRUE
    BY <1>1, <1>2, <2>2, FullBatch
  <2> QED
    BY <1>3, <2>1, <2>2
<1>8. \A p \in Pairs : p \subseteq index /\ p \cap P # {} => OnRecord(p)'
  BY <1>1, <1>2, ClusterOnRecord
<1>9. \A p : OnRecord(p) => OnRecord(p)'
  BY <1>1, <1>2, CleanupsCounted, OnRecordStays
<1>10. ASSUME whole' = TRUE, NEW p \in Pairs, p \subseteq W \cap Present
       PROVE  OnRecord(p)'
  <2>1. CASE whole = TRUE
    <3>1. p \subseteq Compared(W)
      BY <1>1, <1>10 DEF Compared
    <3> QED
      BY <1>9, <2>1, <3>1 DEF History, PairsOf
  <2>2. CASE run.full = TRUE /\ newDocs \subseteq P
    <3>1. p \subseteq newDocs /\ p # {}
      BY <1>1, <1>10, <2>2, FullBatch, PairsNotEmpty
    <3> QED
      BY <1>2, <1>8, <2>2, <3>1
  <2> QED
    BY <1>3, <1>10, <2>1, <2>2
<1>11. ASSUME whole' = TRUE, newDocs \subseteq P,
              NEW p \in Pairs, p \subseteq (W \cap Present) \cup newDocs
       PROVE  OnRecord(p)'
  <2>1. CASE p \subseteq W \cap Present
    BY <1>10, <1>11, <2>1
  <2>2. CASE p \cap newDocs # {}
    <3>1. p \subseteq index
      BY <1>2, <1>7, <1>11, PairsNotEmpty
    <3> QED
      BY <1>8, <1>11, <2>2, <3>1
  <2> QED
    BY <1>11, <2>1, <2>2
<1>12. Knows(W)'
  BY <1>1, <1>2, <1>4, <1>5, ForgetEmpties DEF History, Knows, NoPlan
<1>13. BatchIsWhole(W)'
  <2>1. \A d \in (Seen \cap Present) \ W : d \in newDocs
    BY <1>1 DEF History, BatchIsWhole, Read
  <2>2. run.full = TRUE => (W \cap Present) \ Filtered \subseteq newDocs
    BY <1>1, FullBatch
  <2>3. CASE newDocs = {} /\ Forget
    <3>1. \A d : ~Read(d)'
      BY <2>3, ForgetEmpties DEF Read
    <3>2. step' = "idle"
      BY <2>3, ForgetEmpties
    <3> QED
      BY <1>1, <1>5, <1>7, <3>1, <3>2 DEF BatchIsWhole
  <2>4. CASE UNCHANGED <<run, newDocs, plan>>
    BY <1>1, <1>5, <1>6, <1>7, <2>1, <2>2, <2>4 DEF BatchIsWhole
  <2> QED
    BY <1>4, <2>3, <2>4
<1>14. PairsOf(W)'
  <2>1. CASE newDocs = {} /\ Forget
    <3>1. step' = "idle"
      BY <2>1, ForgetEmpties
    <3> QED
      BY <1>5, <1>10, <3>1 DEF PairsOf, Compared
  <2>2. CASE newDocs \subseteq P /\ step' = "resolving" /\ newDocs' = newDocs
    BY <1>5, <1>11, <2>2 DEF PairsOf, Compared
  <2>3. CASE /\ ~ newDocs \subseteq P /\ step' = "comparing" /\ seeds' = newDocs \ P
             /\ newDocs' = newDocs
    <3>1. ASSUME NEW p \in Pairs, p \subseteq index, p \cap newDocs # {}
          PROVE  p \cap seeds' # {} \/ OnRecord(p)'
      BY <1>8, <2>3, <3>1
    <3> QED
      BY <1>1, <1>5, <1>10, <2>3, <3>1 DEF PairsOf, Compared
  <2> QED
    BY <1>4, <2>1, <2>2, <2>3
<1> QED
  BY <1>12, <1>13, <1>14 DEF History

LEMMA HistoryFind ==
  ASSUME BaseInv, RunInv', NEW W \in SUBSET Docs, History(W), FindDuplicates
  PROVE  History(W)'
<1>1. /\ step = "comparing" /\ step' = "resolving"
      /\ matches' = matches \cup FoundPairs
      /\ UNCHANGED <<isParent, dupes, index, run, newDocs, plan, cleanups>>
  BY DEF FindDuplicates, database
<1>2. newDocs \subseteq index /\ TypeOK
  BY <1>1 DEF BaseInv, Arrived, RunInv, Tidy, NoScan
<1>3. whole' = TRUE => whole = TRUE \/ run.full = TRUE
  <2>1. whole' = (whole \/ run.full)
    BY DEF FindDuplicates
  <2>2. whole \in BOOLEAN /\ run.full \in BOOLEAN
    BY DEF BaseInv, RunInv, TypeOK, Runs
  <2> QED
    BY <2>1, <2>2
<1>4. UNCHANGED <<Present, Settled, Marked("absent"), Marked("deleted")>>
  BY <1>1 DEF Present, Settled, Marked
<1>5. Seen' \subseteq Seen
  BY <1>1, EdgesSeen DEF Seen
<1>6. whole' = TRUE => (W \cap Present) \ Filtered \subseteq index
  <2>1. CASE whole = TRUE
    BY <2>1 DEF History, BatchIsWhole
  <2>2. CASE run.full = TRUE
    BY <1>1, <1>2, <2>2, FullBatch
  <2> QED
    BY <1>3, <2>1, <2>2
<1>7. \A p : OnRecord(p) => OnRecord(p)'
  BY <1>1, <1>2, CleanupsCounted, OnRecordStays
<1>8. ASSUME NEW p \in Pairs, p \subseteq index, p \cap newDocs # {}
      PROVE  OnRecord(p)'
  <2>1. p \cap seeds # {} \/ OnRecord(p)
    BY <1>1, <1>8 DEF History, PairsOf
  <2>2. p \cap seeds # {} => p \in matches'
    BY <1>1, <1>8 DEF FoundPairs
  <2> QED
    BY <1>7, <2>1, <2>2 DEF OnRecord, Linked
<1>9. ASSUME whole' = TRUE, NEW p \in Pairs, p \subseteq (W \cap Present) \cup newDocs
      PROVE  OnRecord(p)'
  <2>1. CASE p \cap newDocs # {}
    BY <1>2, <1>6, <1>8, <1>9, <2>1, PairsNotEmpty
  <2>2. CASE p \cap newDocs = {}
    <3>1. run.full # TRUE
      <4>1. p \subseteq (W \cap Present) \ Filtered /\ p # {}
        BY <1>9, <2>2, PairsNotEmpty
      <4>2. run.full = TRUE => (W \cap Present) \ Filtered \subseteq newDocs
        BY <1>1, FullBatch
      <4> QED
        BY <2>2, <4>1, <4>2
    <3>2. whole = TRUE /\ p \subseteq Compared(W)
      BY <1>1, <1>3, <1>9, <2>2, <3>1 DEF Compared
    <3> QED
      BY <1>7, <3>2 DEF History, PairsOf
  <2> QED
    BY <2>1, <2>2
<1>10. Knows(W)'
  BY <1>1, <1>4 DEF History, Knows
<1>11. BatchIsWhole(W)'
  BY <1>1, <1>4, <1>5, <1>6 DEF History, BatchIsWhole, Read
<1>12. PairsOf(W)'
  BY <1>1, <1>4, <1>9 DEF PairsOf, Compared
<1> QED
  BY <1>10, <1>11, <1>12 DEF History

-------------------------------------------------------------------------------
(* Phase 3.                                                                *)

LEMMA HistoryResolve ==
  ASSUME BaseInv, RunInv', NEW W \in SUBSET Docs, History(W), Resolve,
         NEW V \in SUBSET Docs, V = W \cup newDocs \cup Marked("deleted")
  PROVE  History(V)'
<1>1. /\ step = "resolving" /\ step' = "syncing"
      /\ plan' = [rows |-> AssignmentsRequiringWrite, children |-> ChildMarks,
                  parents |-> ParentMarks]
      /\ UNCHANGED <<isParent, dupes, index, matches, run, newDocs, cleanups, whole>>
  BY DEF Resolve, database, sidecars, history
<1>2. TypeOK
  BY DEF BaseInv, RunInv
<1>3. UNCHANGED <<Present, Settled, Marked("absent"), Marked("deleted"), Seen>>
  BY <1>1 DEF Present, Settled, Marked, Seen
<1>4. Touched \subseteq W \cup newDocs \cup Marked("deleted")
  <2>1. Touched \subseteq Seen
    BY DEF Touched, Seen
  <2>2. Seen \subseteq Present \cup Marked("deleted")
    BY <1>2, SeenTyped DEF BaseInv, Arrived, Present, Marked
  <2>3. (Seen \cap Present) \ W \subseteq newDocs
    BY <1>1 DEF History, BatchIsWhole, Read
  <2> QED
    BY <2>1, <2>2, <2>3
<1>5. Children \subseteq Touched
  BY DEF Children
<1>6. \A r \in AssignmentsRequiringWrite : r[1] \in Children
  BY DEF AssignmentsRequiringWrite, Assignments
<1>7. ChildMarks \subseteq Children
  BY DEF ChildMarks
<1>8. ParentMarks \subseteq newDocs \cup W
  BY DEF ParentMarks, ExistingRows, History, Knows
<1>a. Marked("deleted") \cap Present = {} /\ Marked("deleted") \cap Marked("absent") = {}
  BY DEF Present, Marked
<1>9. Knows(V)'
  <2>1. newDocs \cap Marked("absent") = {}
    BY DEF BaseInv, Arrived
  <2> QED
    BY <1>a, <1>1, <1>3, <1>4, <1>5, <1>6, <1>7, <1>8, <2>1 DEF History, Knows
<1>10. BatchIsWhole(V)'
  <2>1. newDocs \subseteq index
    BY <1>1 DEF BaseInv, Arrived, RunInv, Tidy, NoScan
  <2> QED
    BY <1>a, <1>1, <1>3, <2>1 DEF History, BatchIsWhole, Read
<1>11. PairsOf(V)'
  <2>1. Compared(V)' \subseteq Compared(W)
    BY <1>a, <1>1, <1>3 DEF Compared
  <2>2. \A p : OnRecord(p)' = OnRecord(p)
    BY <1>1 DEF OnRecord, Linked, Mixed
  <2> QED
    BY <1>1, <2>1, <2>2 DEF History, PairsOf
<1> QED
  BY <1>9, <1>10, <1>11 DEF History

LEMMA HistoryWrite ==
  ASSUME BaseInv, RunInv', NEW W \in SUBSET Docs, History(W), WriteDupes
  PROVE  History(W)'
<1> DEFINE chunk == Lowest({r[1] : r \in plan.rows}, BatchSize)
           rows  == {r \in plan.rows : r[1] \in chunk}
<1>1. /\ dupes' = {r \in dupes : r[1] \notin chunk} \cup rows
      /\ plan' = [plan EXCEPT !.rows = @ \ rows]
      /\ rows # {}
      /\ UNCHANGED <<isParent, index, matches, run, step, newDocs, cleanups, whole>>
  BY DEF WriteDupes, sidecars, history
<1>2. /\ TypeOK
      /\ plan \in [rows : SUBSET (Docs \X Docs), children : SUBSET Docs,
                   parents : SUBSET Docs]
  BY DEF BaseInv, RunInv, TypeOK
<1> HIDE DEF chunk
<1>3. step = "syncing"
  BY <1>1 DEF BaseInv, RunInv, Tidy, NoPlan
<1>4. UNCHANGED <<Present, Settled, Marked("absent"), Marked("deleted"), Seen>>
  BY <1>1 DEF Present, Settled, Marked, Seen
<1>5. Knows(W)'
  <2>1. /\ plan'.rows \subseteq plan.rows /\ plan'.children = plan.children
        /\ plan'.parents = plan.parents
    BY <1>1, <1>2
  <2>2. {r[1] : r \in dupes'} \subseteq W
    BY <1>1 DEF History, Knows
  <2> QED
    BY <1>1, <1>4, <2>1, <2>2 DEF History, Knows
<1>6. BatchIsWhole(W)'
  BY <1>1, <1>3, <1>4 DEF History, BatchIsWhole, Read
<1>7. PairsOf(W)'
  BY <1>1, <1>3, <1>4 DEF History, PairsOf, Compared, OnRecord, Linked, Mixed
<1> QED
  BY <1>5, <1>6, <1>7 DEF History

LEMMA HistoryMark ==
  ASSUME BaseInv, RunInv', NEW W \in SUBSET Docs, History(W),
         NEW D \in SUBSET (plan.children \cup plan.parents), D # {},
         NEW m \in {"true", "false"}, Mark(D, m),
         UNCHANGED <<dupes, index, matches, run, step, newDocs, cleanups, whole>>,
         plan'.rows = plan.rows, plan'.children \subseteq plan.children,
         plan'.parents \subseteq plan.parents
  PROVE  History(W)'
<1>1. TypeOK /\ isParent \in [Docs -> Marks] /\ step = "syncing"
  <2>1. plan # NoPlan
    BY DEF NoPlan
  <2>2. step = "syncing"
    BY <2>1 DEF BaseInv, RunInv, Tidy
  <2> QED
    BY <2>2 DEF BaseInv, RunInv, TypeOK, Marks
<1>2. /\ Present' = Present
      /\ Marked("absent")' = Marked("absent") /\ Marked("deleted")' = Marked("deleted")
      /\ Settled' \subseteq Settled \cup (D \cap Present)
  BY <1>1, MarkKeepsPresent
<1>3. D \subseteq W /\ Seen' = Seen
  BY DEF History, Knows, Seen
<1>4. Knows(W)'
  BY <1>2, <1>3 DEF History, Knows
<1>5. BatchIsWhole(W)'
  BY <1>1, <1>2, <1>3 DEF History, BatchIsWhole, Read
<1>6. PairsOf(W)'
  BY <1>1, <1>2 DEF History, PairsOf, Compared, OnRecord, Linked, Mixed
<1> QED
  BY <1>4, <1>5, <1>6 DEF History

-------------------------------------------------------------------------------
(* What becomes of clusters.  The sidecars may have been deleted since a   *)
(* cluster was resolved; what stays is that its documents are duplicates   *)
(* and in W.                                                               *)

(* The cluster of a document if exactly those of Z have been compared.     *)
ClusterAmong(d, Z) == ClusterOf(d, Docs, {p \in Pairs : p \subseteq Z})

LEMMA AmongTyped ==
  ASSUME NEW Z \in SUBSET Docs, NEW d \in Docs
  PROVE  /\ d \in ClusterAmong(d, Z) /\ ClusterAmong(d, Z) \subseteq Docs
         /\ ClusterAmong(d, Z) \subseteq Z \cup {d}
<1>1. Z \cup {d} \in Closed(Docs, {p \in Pairs : p \subseteq Z})
  BY DEF Closed
<1>2. ClusterAmong(d, Z) \subseteq Z \cup {d}
  BY <1>1 DEF ClusterAmong, ClusterOf
<1> QED
  BY <1>2, ClusterContains DEF ClusterAmong

LEMMA AmongGrows ==
  ASSUME NEW Y \in SUBSET Docs, NEW Z \in SUBSET Docs, Y \subseteq Z, NEW d \in Docs
  PROVE  ClusterAmong(d, Y) \subseteq ClusterAmong(d, Z)
<1>1. \A S \in Closed(Docs, {p \in Pairs : p \subseteq Z}) :
        S \in Closed(Docs, {p \in Pairs : p \subseteq Y})
  BY DEF Closed
<1> QED
  BY <1>1 DEF ClusterAmong, ClusterOf

(* Filtered documents are duplicates of none.                              *)
LEMMA AmongFiltered ==
  ASSUME NEW Z \in SUBSET Docs, NEW d \in Docs
  PROVE  /\ d \in Filtered => ClusterAmong(d, Z) = {d}
         /\ d \notin Filtered => ClusterAmong(d, Z) \cap Filtered = {}
         /\ \A F \in SUBSET Filtered : ClusterAmong(d, Z \cup F) = ClusterAmong(d, Z)
<1>0. \A p \in Pairs : p \subseteq Docs \ Filtered
  BY PairsNotEmpty
<1>1. ASSUME d \in Filtered
      PROVE  ClusterAmong(d, Z) = {d}
  <2>1. {d} \in Closed(Docs, {p \in Pairs : p \subseteq Z})
    BY <1>0, <1>1 DEF Closed
  <2> QED
    BY <2>1, AmongTyped DEF ClusterAmong, ClusterOf
<1>2. ASSUME d \notin Filtered
      PROVE  ClusterAmong(d, Z) \cap Filtered = {}
  <2>1. Docs \ Filtered \in Closed(Docs, {p \in Pairs : p \subseteq Z})
    BY <1>0 DEF Closed
  <2> QED
    BY <1>2, <2>1 DEF ClusterAmong, ClusterOf
<1>3. ASSUME NEW F \in SUBSET Filtered
      PROVE  ClusterAmong(d, Z \cup F) = ClusterAmong(d, Z)
  <2>1. {p \in Pairs : p \subseteq Z \cup F} = {p \in Pairs : p \subseteq Z}
    BY <1>0
  <2> QED
    BY <2>1 DEF ClusterAmong
<1> QED
  BY <1>1, <1>2, <1>3

(* Once the pairs of Z are on record, the recorded edges make of them the  *)
(* same clusters.                                                          *)
LEMMA ClustersAgree ==
  ASSUME matches \subseteq Pairs, cleanups = 0, OneKind, NEW Z \in SUBSET Docs,
         \A p \in Pairs : p \subseteq Z => OnRecord(p),
         NEW d \in Docs, Component(d) \subseteq Z
  PROVE  Component(d) = ClusterAmong(d, Z)
<1> DEFINE known == {p \in Pairs : p \subseteq Z}
<1>0. matches \subseteq SUBSET Docs /\ \A p \in Pairs : p \subseteq Docs \ Filtered
  BY PairsNotEmpty
<1>1. ASSUME NEW S \in Closed(Docs, matches)
      PROVE  S \in Closed(Docs, known)
  <2>1. ASSUME NEW p \in known, NEW x \in p \cap S, NEW y \in p
        PROVE  y \in S
    <3>1. Linked(p)
      BY <1>0 DEF OnRecord, Mixed, OneKind
    <3>2. CASE p \in matches
      BY <3>2 DEF Closed
    <3>3. CASE \E c \in Cluster : \A e \in p : e = c \/ {c, e} \in matches
      <4>1. PICK c \in Cluster : \A e \in p : e = c \/ {c, e} \in matches
        BY <3>3
      <4>2. c \in S
        BY <4>1 DEF Closed
      <4> QED
        BY <4>1, <4>2 DEF Closed
    <3> QED
      BY <3>1, <3>2, <3>3 DEF Linked
  <2> QED
    BY <2>1 DEF Closed
<1>2. ASSUME NEW S \in Closed(Docs, known), d \in S
      PROVE  Component(d) \subseteq S
  <2>1. d \in Component(d) /\ Component(d) \subseteq Docs
    BY ClusterContains DEF Component
  <2>2. ASSUME NEW p \in matches, p \cap (S \cap Component(d)) # {}
        PROVE  p \subseteq S \cap Component(d)
    <3>1. p \subseteq Component(d)
      BY <1>0, <2>2, ClusterClosed DEF Component
    <3>2. p \in known
      BY <3>1
    <3> QED
      BY <1>2, <2>2, <3>1, <3>2 DEF Closed
  <2>3. S \cap Component(d) \in Closed(Docs, matches)
    BY <2>1, <2>2 DEF Closed
  <2> QED
    BY <1>2, <2>1, <2>3 DEF Component, ClusterOf
<1>3. ClusterAmong(d, Z) \subseteq Component(d)
  BY <1>1 DEF ClusterAmong, Component, ClusterOf
<1>4. Component(d) \subseteq ClusterAmong(d, Z)
  <2>1. Component(d) \subseteq Docs
    BY ClusterContains DEF Component
  <2> QED
    BY <1>2, <2>1 DEF ClusterAmong, ClusterOf
<1> QED
  BY <1>3, <1>4

LEMMA ComponentSeen ==
  ASSUME TypeOK, NEW d \in Docs
  PROVE  Component(d) \subseteq {d} \cup UNION matches
<1>1. {d} \cup UNION matches \in Closed(Docs, matches)
  BY DEF TypeOK, Closed
<1> QED
  BY <1>1 DEF Component, ClusterOf

-------------------------------------------------------------------------------

(* Only a full run deletes sidecars, and filtered documents get no rows.   *)
(* Under OneKind, edges are between duplicates and a batch seeds Phase 3   *)
(* as a whole.                                                             *)
Routine ==
  /\ \A r \in dupes \cup plan.rows : r[1] \notin Filtered
  /\ step \in {"clearing", "clearing matches", "clearing filtered"} => run.full = TRUE
  /\ faults = 0 =>
       \/ whole = TRUE
       \/ /\ run.full = TRUE
          /\ step \in {"clearing matches", "clearing filtered", "indexing", "comparing"}
  /\ cleanups = 0 /\ OneKind =>
       /\ matches \subseteq Pairs
       /\ step \in {"comparing", "resolving", "syncing"} => seeds = newDocs
       /\ Marked("deleted") = {}

LEMMA StepRows ==
  ASSUME BaseInv, Routine, Next
  PROVE  \A r \in dupes' \cup plan'.rows : r[1] \notin Filtered
<1>a. /\ \A r \in dupes \cup plan.rows : r[1] \notin Filtered
      /\ plan \in [rows : SUBSET (Docs \X Docs), children : SUBSET Docs,
                   parents : SUBSET Docs]
  BY DEF Routine, BaseInv, RunInv, TypeOK
<1>1. CASE Resolve
  <2>1. \A r \in AssignmentsRequiringWrite : r[1] \in Seen
    BY DEF AssignmentsRequiringWrite, Assignments, Children, Touched, Seen
  <2>2. Seen \cap Filtered = {}
    BY DEF BaseInv, Arrived
  <2>3. plan'.rows = AssignmentsRequiringWrite /\ dupes' = dupes
    BY <1>1 DEF Resolve, database
  <2> QED
    BY <1>a, <2>1, <2>2, <2>3
<1>2. CASE WriteDupes
  <2>1. dupes' \subseteq dupes \cup plan.rows /\ plan'.rows \subseteq plan.rows
    BY <1>a, <1>2 DEF WriteDupes
  <2> QED
    BY <1>a, <2>1
<1>3. CASE (\E chunk : MarkAsChildren(chunk)) \/ MarkAsParents
  BY <1>a, <1>3 DEF MarkAsChildren, MarkAsParents
<1>4. CASE dupes' = dupes /\ plan' \in {plan, NoPlan}
  BY <1>a, <1>4 DEF NoPlan
<1> QED
  BY <1>1, <1>2, <1>3, <1>4, OnlyPhase3 DEF BaseInv

(* The edges that Phase 1.5 adds, if all documents are of one kind.        *)
LEMMA ClusterEdgesArePairs ==
  ASSUME OneKind, NEW P \in {Pathological, {}}
  PROVE  ClusterEdges(P) \subseteq Pairs
<1> SUFFICES ASSUME NEW a \in Lowest(P, 1), NEW b \in P \ Lowest(P, 1)
             PROVE  {a, b} \in Pairs
  BY DEF ClusterEdges
<1>1. a \in P /\ b \in P /\ a # b
  BY LowestAreOfIt
<1>2. P \subseteq Cluster
  BY DEF Pathological
<1> QED
  BY <1>1, <1>2 DEF OneKind

LEMMA SeedsAreBatch ==
  ASSUME BaseInv, OneKind, NEW P \in {Pathological, {}}, newDocs \subseteq index
  PROVE  Phase3Seeds(P) = newDocs
<1>1. CASE P = {}
  BY <1>1 DEF Phase3Seeds, PathologicalBatch
<1>2. CASE P = index \cap Cluster /\ Cluster # {}
  <2>1. newDocs \subseteq Docs \ Filtered
    BY DEF BaseInv, RunInv, TypeOK
  <2>2. newDocs \subseteq P
    BY <1>2, <2>1 DEF OneKind
  <2> QED
    BY <2>2 DEF Phase3Seeds, PathologicalBatch
<1> QED
  BY <1>1, <1>2 DEF Pathological

LEMMA StepSidecarsKept ==
  ASSUME BaseInv, BaseInv', Routine, Next
  PROVE  /\ step' \in {"clearing", "clearing matches", "clearing filtered"} =>
              run'.full = TRUE
         /\ faults' = 0 =>
              \/ whole' = TRUE
              \/ /\ run'.full = TRUE
                 /\ step' \in {"clearing matches", "clearing filtered", "indexing",
                               "comparing"}
<1> DEFINE Kept == /\ step' \in {"clearing", "clearing matches", "clearing filtered"} =>
                        run'.full = TRUE
                   /\ faults' = 0 =>
                        \/ whole' = TRUE
                        \/ /\ run'.full = TRUE
                           /\ step' \in {"clearing matches", "clearing filtered",
                                         "indexing", "comparing"}
<1>0. /\ step \in {"clearing", "clearing matches", "clearing filtered"} => run.full = TRUE
      /\ faults = 0 =>
           \/ whole = TRUE
           \/ /\ run.full = TRUE
              /\ step \in {"clearing matches", "clearing filtered", "indexing",
                           "comparing"}
  BY DEF Routine
<1>a. /\ run.full \in BOOLEAN /\ whole \in BOOLEAN /\ faults \in Nat
      /\ Tidy
  <2>1. faults \in 0..MaxFaults
    BY DEF BaseInv, RunInv, TypeOK
  <2>2. faults \in Nat
    BY <2>1, SizesAssumption
  <2> QED
    BY <2>2 DEF BaseInv, RunInv, TypeOK, Runs
<1>1. ASSUME NEW writes, StartRun(writes) \/ StartFullRun(writes)
      PROVE  Kept
  <2>1. step = "idle" /\ whole' = whole /\ faults' = faults
    BY <1>1 DEF StartRun, StartFullRun
  <2>2. step' = "indexing" \/ (step' = "clearing" /\ run'.full = TRUE)
    BY <1>1 DEF StartRun, StartFullRun
  <2> QED
    BY <1>0, <2>1, <2>2
<1>2. CASE ClearIndex \/ ClearMatches \/ ClearFiltered
  BY <1>0, <1>2 DEF ClearIndex, ClearMatches, ClearFiltered, history
<1>3. ASSUME NEW P, DetectPathological(P)
      PROVE  Kept
  <2>1. whole' = (whole \/ (run.full /\ newDocs \subseteq P)) /\ step = "indexing"
        /\ faults' = faults
    BY <1>3 DEF DetectPathological
  <2>2. CASE newDocs = {}
    BY <1>0, <1>3, <1>a, <2>1, <2>2 DEF DetectPathological, Forget
  <2>3. CASE newDocs # {}
    BY <1>0, <1>3, <1>a, <2>1, <2>3 DEF DetectPathological
  <2> QED
    BY <2>2, <2>3
<1>4. CASE FindDuplicates
  <2>1. whole' = (whole \/ run.full) /\ step = "comparing" /\ step' = "resolving"
        /\ faults' = faults
    BY <1>4 DEF FindDuplicates
  <2> QED
    BY <1>0, <1>a, <2>1
<1>5. CASE EndRun
  BY <1>0, <1>5 DEF EndRun, Forget, history
<1>6. ASSUME NEW recorded, Interrupt(recorded)
      PROVE  Kept
  <2>1. faults' = faults + 1 /\ step' = "idle"
    BY <1>6 DEF Interrupt, Forget
  <2> QED
    BY <1>a, <2>1
<1>7. CASE Resolve
  BY <1>0, <1>7 DEF Resolve, history
<1>8. CASE UNCHANGED <<run, step, faults, whole>>
  BY <1>0, <1>8
<1>9. (\E d : Arrive(d)) \/ (\E D : Reset(D) \/ CleanupMarkParents(D) \/ CleanupDelete(D))
        => UNCHANGED <<run, step, faults, whole>>
  BY DEF Arrive, Reset, CleanupMarkParents, CleanupDelete, memory, history
<1>10. FetchPage \/ InsertBatch \/ FlushFilteredParents \/ WriteDupes
       \/ (\E chunk : MarkAsChildren(chunk)) \/ MarkAsParents
         => UNCHANGED <<run, step, faults, whole>>
  BY DEF FetchPage, InsertBatch, FlushFilteredParents, WriteDupes, MarkAsChildren,
         MarkAsParents, history
<1> QED
  BY <1>1, <1>2, <1>3, <1>4, <1>5, <1>6, <1>7, <1>8, <1>9, <1>10
     DEF Next, Cleanup, Run, ByHand, Work, Phase1, Phase3

LEMMA StepOneKind ==
  ASSUME BaseInv, BaseInv', Routine, Next, cleanups' = 0, OneKind
  PROVE  /\ matches' \subseteq Pairs
         /\ step' \in {"comparing", "resolving", "syncing"} => seeds' = newDocs'
         /\ Marked("deleted")' = {}
<1>a. /\ cleanups \in Nat /\ isParent \in [Docs -> Marks] /\ Tidy
      /\ newDocs \subseteq index \cup scan.toIndex
  BY CleanupsCounted DEF BaseInv, RunInv, TypeOK, Marks, Arrived
<1> DEFINE Fine == /\ matches' \subseteq Pairs
                   /\ step' \in {"comparing", "resolving", "syncing"} => seeds' = newDocs'
                   /\ Marked("deleted")' = {}
<1>0. ASSUME NEW D, NEW m \in {"null", "true", "false"}, Mark(D, m),
             Marked("deleted") = {}
      PROVE  Marked("deleted")' = {}
  BY <1>a, <1>0, MarkKeepsPresent
<1>1. ASSUME NEW D, CleanupMarkParents(D) \/ CleanupDelete(D)
      PROVE  FALSE
  BY <1>a, <1>1 DEF CleanupMarkParents, CleanupDelete
<1>2. ~ (\E D \in SUBSET Pathological : CleanupMarkParents(D) \/ CleanupDelete(D)) =>
        cleanups = 0
  BY DEF Next, Cleanup, Run, ByHand, Work, Phase1, Phase3, Arrive, Reset,
         StartRun, StartFullRun, ClearIndex, ClearMatches, ClearFiltered, FetchPage,
         InsertBatch, FlushFilteredParents, DetectPathological, FindDuplicates,
         Resolve, WriteDupes, MarkAsChildren, MarkAsParents, EndRun, Interrupt, history
<1>3. /\ matches \subseteq Pairs
      /\ step \in {"comparing", "resolving", "syncing"} => seeds = newDocs
      /\ Marked("deleted") = {}
  BY <1>1, <1>2 DEF Routine
<1>4. ASSUME NEW d \in Docs, Arrive(d)
      PROVE  Fine
  BY <1>3, <1>4, <1>a DEF Arrive, Marked, sidecars, memory
<1>5. ASSUME NEW D, Reset(D)
      PROVE  Fine
  BY <1>0, <1>3, <1>5 DEF Reset, sidecars, memory
<1>6. ASSUME NEW writes, StartRun(writes) \/ StartFullRun(writes)
      PROVE  Fine
  BY <1>3, <1>6 DEF StartRun, StartFullRun, Marked, sidecars, database
<1>7. CASE ClearIndex \/ ClearMatches \/ ClearFiltered \/ FetchPage
  BY <1>3, <1>7 DEF ClearIndex, ClearMatches, ClearFiltered, FetchPage, Marked,
                    sidecars, database
<1>8. CASE InsertBatch
  BY <1>3, <1>8 DEF InsertBatch, Marked, database
<1>9. CASE FlushFilteredParents
  <2>1. Mark(Lowest(scan.toMark, BatchSize), "true") \/ UNCHANGED isParent
    BY <1>9 DEF FlushFilteredParents
  <2>2. Marked("deleted")' = {}
    BY <1>0, <1>3, <2>1 DEF Marked
  <2> QED
    BY <1>3, <1>9, <2>2 DEF FlushFilteredParents
<1>10. ASSUME NEW P \in {Pathological, {}}, DetectPathological(P)
       PROVE  Fine
  <2>1. matches' = matches \cup ClusterEdges(P) /\ isParent' = isParent
        /\ newDocs \subseteq index
    BY <1>a, <1>10 DEF DetectPathological, database
  <2>2. newDocs = {} => step' = "idle"
    BY <1>10 DEF DetectPathological, Forget
  <2>3. newDocs # {} => seeds' = Phase3Seeds(P) /\ newDocs' = newDocs
    BY <1>10 DEF DetectPathological
  <2> QED
    BY <1>3, <2>1, <2>2, <2>3, ClusterEdgesArePairs, SeedsAreBatch DEF Marked
<1>11. CASE FindDuplicates
  BY <1>3, <1>11 DEF FindDuplicates, FoundPairs, Marked, database
<1>12. CASE Resolve \/ WriteDupes
  BY <1>3, <1>12 DEF Resolve, WriteDupes, Marked, sidecars, database
<1>13. ASSUME NEW chunk, MarkAsChildren(chunk)
       PROVE  Fine
  BY <1>0, <1>3, <1>13 DEF MarkAsChildren, sidecars
<1>14. CASE MarkAsParents
  BY <1>0, <1>3, <1>14 DEF MarkAsParents, sidecars
<1>15. CASE EndRun
  BY <1>3, <1>15 DEF EndRun, Forget, Marked, sidecars, database
<1>16. ASSUME NEW recorded \in (SUBSET FoundPairs) \cup {{}}, Interrupt(recorded)
       PROVE  Fine
  BY <1>3, <1>16 DEF Interrupt, Forget, FoundPairs, Marked, database
<1> QED
  BY <1>1, <1>4, <1>5, <1>6, <1>7, <1>8, <1>9, <1>10, <1>11, <1>12, <1>13, <1>14, <1>15,
     <1>16 DEF Next, Cleanup, Run, ByHand, Work, Phase1, Phase3

LEMMA StepRoutine ==
  ASSUME BaseInv, BaseInv', Routine, Next
  PROVE  Routine'
BY StepRows, StepSidecarsKept, StepOneKind DEF Routine

-------------------------------------------------------------------------------

(* The documents that are settled or will be when the plan is written.     *)
Decided == Settled \cup plan.children \cup plan.parents

(* The root is a canonical parent when the plan is written,                *)
WillLead(root) ==
  /\ root \notin plan.children
  /\ isParent[root] = "true" \/ root \in plan.parents

(* and the others are its children, by mark and by row.                    *)
WillBeCanonical(root, K) ==
  /\ WillLead(root)
  /\ \A r \in plan.rows : r[1] # root
  /\ resets = 0 => \A r \in dupes : r[1] # root
  /\ \A x \in K \ {root} :
       /\ x \notin plan.parents
       /\ isParent[x] = "false" \/ x \in plan.children
       /\ <<x, root>> \in dupes \cup plan.rows
       /\ \A r \in plan.rows : r[1] = x => r = <<x, root>>

(* One interrupted run, or one reset, leaves a decided cluster its parent. *)
SomeoneLeads(W) ==
  faults + resets <= 1 =>
    \A d \in W : ClusterAmong(d, W) \subseteq Decided =>
      \E root \in ClusterAmong(d, W) : WillLead(root)

(* As long as no run is interrupted, the whole cluster is in order.  Then  *)
(* only a user takes documents back that have been settled.                *)
AllCanonical(W) ==
  faults = 0 =>
    /\ resets = 0 => W \subseteq Decided
    /\ \A d \in W : ClusterAmong(d, W) \subseteq Decided =>
         \E root \in ClusterAmong(d, W) : WillBeCanonical(root, ClusterAmong(d, W))

Outcome(W) == cleanups = 0 /\ OneKind => SomeoneLeads(W) /\ AllCanonical(W)

(* What concerns neither marks nor rows nor plans changes nothing.         *)
LEMMA OutcomeSame ==
  ASSUME NEW W \in SUBSET Docs, Outcome(W),
         UNCHANGED <<isParent, dupes, plan, faults, resets, cleanups>>
  PROVE  Outcome(W)'
<1>1. Decided' = Decided /\ \A root : WillLead(root)' = WillLead(root)
  BY DEF Decided, Settled, Marked, WillLead
<1>2. \A root, K : WillBeCanonical(root, K)' = WillBeCanonical(root, K)
  BY <1>1 DEF WillBeCanonical
<1> QED
  BY <1>1, <1>2 DEF Outcome, SomeoneLeads, AllCanonical, ClusterAmong

LEMMA Counts ==
  ASSUME TypeOK
  PROVE  faults \in Nat /\ resets \in Nat /\ cleanups \in Nat
<1>1. faults \in 0..MaxFaults
  BY DEF TypeOK
<1> QED
  BY <1>1, CleanupsCounted, SizesAssumption

(* Documents of W are in the table, unless --cleanup has deleted some.     *)
LEMMA KnownArePresent ==
  ASSUME BaseInv, Routine, NEW W \in SUBSET Docs, History(W), cleanups = 0, OneKind
  PROVE  W \subseteq Present
BY DEF Routine, History, Knows, Present, Marked

LEMMA OutcomeArrive ==
  ASSUME BaseInv, Routine, NEW W \in SUBSET Docs, History(W), Outcome(W),
         NEW d \in Docs, Arrive(d)
  PROVE  Outcome(W)'
<1>1. /\ isParent[d] = "absent" /\ isParent' = [isParent EXCEPT ![d] = "null"]
      /\ UNCHANGED <<dupes, plan, faults, resets, cleanups>>
  BY DEF Arrive, memory, history
<1>2. isParent \in [Docs -> Marks]
  BY DEF BaseInv, RunInv, TypeOK, Marks
<1>3. d \notin W /\ \A e \in W : isParent'[e] = isParent[e]
  BY <1>1, <1>2 DEF History, Knows, Marked
<1>4. Decided' = Decided
  BY <1>1, <1>2 DEF Decided, Settled, Marked
<1>5. \A e \in W : ClusterAmong(e, W) \subseteq W
  BY AmongTyped
<1>6. \A root \in W : WillLead(root)' = WillLead(root)
  BY <1>1, <1>3 DEF WillLead
<1>7. \A K \in SUBSET W : \A root \in K : WillBeCanonical(root, K)' = WillBeCanonical(root, K)
  BY <1>1, <1>3, <1>6 DEF WillBeCanonical
<1> QED
  BY <1>1, <1>4, <1>5, <1>6, <1>7 DEF Outcome, SomeoneLeads, AllCanonical, ClusterAmong

LEMMA OutcomeReset ==
  ASSUME BaseInv, Routine, NEW W \in SUBSET Docs, History(W), Outcome(W),
         NEW D, Reset(D)
  PROVE  Outcome(W)'
<1>1. /\ Mark(D, "null") /\ resets' = resets + 1
      /\ UNCHANGED <<dupes, plan, faults, cleanups>>
  BY DEF Reset, memory
<1>2. isParent \in [Docs -> Marks] /\ TypeOK
  BY DEF BaseInv, RunInv, TypeOK, Marks
<1>3. faults \in Nat /\ resets \in Nat
  BY <1>2, Counts
<1>4. /\ Decided' \subseteq Decided
      /\ \A x \in Docs : x \in Settled' => isParent'[x] = isParent[x]
  BY <1>1, <1>2, MarkEffect DEF Decided, Settled, Marked, Marks
<1>5. ASSUME NEW x \in Decided', NEW m \in {"true", "false"}, isParent[x] = m, x \in Docs,
             m = "true" => x \notin plan.children, m = "false" => x \notin plan.parents
      PROVE  \/ isParent'[x] = m
             \/ x \in IF m = "true" THEN plan.parents ELSE plan.children
  BY <1>1, <1>4, <1>5 DEF Decided
<1>6. \A e \in W : ClusterAmong(e, W) \subseteq W
  BY AmongTyped
<1>7. ASSUME NEW root \in Decided' \cap Docs, WillLead(root)
      PROVE  WillLead(root)'
  BY <1>1, <1>5, <1>7 DEF WillLead
<1>8. ASSUME NEW K \in SUBSET Docs, K \subseteq Decided', NEW root \in K,
             WillBeCanonical(root, K)
      PROVE  WillBeCanonical(root, K)'
  <2>1. WillLead(root)'
    BY <1>7, <1>8 DEF WillBeCanonical
  <2>2. ASSUME NEW x \in K \ {root}
        PROVE  isParent'[x] = "false" \/ x \in plan.children
    BY <1>5, <1>8, <2>2 DEF WillBeCanonical
  <2> QED
    BY <1>1, <1>3, <1>8, <2>1, <2>2 DEF WillBeCanonical
<1>9. ASSUME cleanups = 0, OneKind
      PROVE  SomeoneLeads(W)' /\ AllCanonical(W)'
  <2>1. SomeoneLeads(W) /\ AllCanonical(W)
    BY <1>9 DEF Outcome
  <2>2. SomeoneLeads(W)'
    BY <1>1, <1>3, <1>4, <1>6, <1>7, <2>1 DEF SomeoneLeads, ClusterAmong
  <2>3. AllCanonical(W)'
    BY <1>1, <1>3, <1>4, <1>6, <1>8, <2>1 DEF AllCanonical, ClusterAmong
  <2> QED
    BY <2>2, <2>3
<1> QED
  BY <1>1, <1>9 DEF Outcome

(* Filtered documents become parents of their own.                         *)
LEMMA OutcomeFlush ==
  ASSUME BaseInv, Routine, NEW W \in SUBSET Docs, History(W), Outcome(W),
         FlushFilteredParents, run.writes = TRUE, NEW V \in SUBSET Docs,
         V = W \cup (Lowest(scan.toMark, BatchSize) \cap Present)
  PROVE  Outcome(V)'
<1> DEFINE chunk == Lowest(scan.toMark, BatchSize)
<1>a. /\ scan \in Scans /\ Tidy /\ TypeOK /\ isParent \in [Docs -> Marks]
      /\ \A n : Lowest({}, n) = {}
  BY DEF BaseInv, RunInv, TypeOK, Scans, Lowest, Marks
<1>1. /\ Mark(chunk, "true") /\ chunk \subseteq scan.toMark /\ scan.toMark # {}
      /\ UNCHANGED <<dupes, plan, faults, resets, cleanups>>
      /\ V = W \cup (chunk \cap Present)
  BY <1>a, LowestAreOfIt DEF FlushFilteredParents, history
<1> HIDE DEF chunk
<1>2. step = "indexing" /\ chunk \subseteq Filtered /\ plan = NoPlan
  BY <1>1, <1>a DEF Tidy, NoScan, Scans
<1>3. /\ \A d \in Docs : d \in chunk \cap Present => isParent'[d] = "true"
      /\ \A d \in Docs : d \notin chunk \cap Present => isParent'[d] = isParent[d]
  BY <1>1, <1>a, MarkEffect
<1>4. /\ Decided = Settled /\ Decided' = Settled'
      /\ \A d \in Docs \ (chunk \cap Present) : d \in Settled' <=> d \in Settled
      /\ chunk \cap Present \subseteq Settled'
      /\ \A root : WillLead(root) <=> isParent[root] = "true"
      /\ \A root : WillLead(root)' <=> isParent'[root] = "true"
  BY <1>1, <1>2, <1>3 DEF Decided, Settled, Marked, WillLead, NoPlan, Present
<1>5. ASSUME NEW d \in V, d \notin Filtered
      PROVE  /\ d \in W /\ ClusterAmong(d, V) = ClusterAmong(d, W)
             /\ ClusterAmong(d, W) \subseteq Docs \ chunk
  <2>1. d \in W
    BY <1>1, <1>2, <1>5
  <2>2. chunk \cap Present \in SUBSET Filtered
    BY <1>2
  <2>3. ClusterAmong(d, V) = ClusterAmong(d, W)
    <3>1. d \in Docs
      BY <2>1
    <3>2. ClusterAmong(d, W \cup (chunk \cap Present)) = ClusterAmong(d, W)
      BY <2>2, <3>1, AmongFiltered
    <3> QED
      BY <1>1, <3>2
  <2>4. ClusterAmong(d, W) \subseteq Docs /\ ClusterAmong(d, W) \cap Filtered = {}
    BY <1>5, <2>1, AmongFiltered, AmongTyped
  <2> QED
    BY <1>2, <2>1, <2>3, <2>4
<1>6. ASSUME NEW d \in V, d \in Filtered, d \in Settled',
             d \in W \cap Settled => isParent[d] = "true"
      PROVE  /\ ClusterAmong(d, V) = {d} /\ WillLead(d)'
             /\ WillBeCanonical(d, {d})'
  <2>1. ClusterAmong(d, V) = {d}
    BY <1>6, AmongFiltered
  <2>2. isParent'[d] = "true"
    BY <1>1, <1>3, <1>4, <1>6
  <2>3. \A r \in dupes : r[1] # d
    BY <1>6 DEF Routine
  <2> QED
    BY <1>1, <1>2, <1>4, <2>1, <2>2, <2>3 DEF WillBeCanonical, NoPlan
<1>7. ASSUME NEW K \in SUBSET (Docs \ chunk), NEW root \in K, WillBeCanonical(root, K)
      PROVE  WillBeCanonical(root, K)'
  BY <1>1, <1>3, <1>4, <1>7 DEF WillBeCanonical
<1>8. ASSUME SomeoneLeads(W), faults + resets <= 1
      PROVE  SomeoneLeads(V)'
  <2> SUFFICES ASSUME NEW d \in V, ClusterAmong(d, V) \subseteq Settled'
               PROVE  \E root \in ClusterAmong(d, V) : WillLead(root)'
    BY <1>1, <1>4 DEF SomeoneLeads, ClusterAmong
  <2>1. CASE d \in Filtered
    <3>1. ClusterAmong(d, V) = {d} /\ (d \in W => ClusterAmong(d, W) = {d})
      BY <2>1, AmongFiltered
    <3>2. d \in W \cap Settled => isParent[d] = "true"
      BY <1>4, <1>8, <3>1 DEF SomeoneLeads
    <3> QED
      BY <1>6, <2>1, <3>1, <3>2
  <2>2. CASE d \notin Filtered
    <3>1. /\ d \in W /\ ClusterAmong(d, V) = ClusterAmong(d, W)
          /\ ClusterAmong(d, W) \subseteq Docs \ chunk
      BY <1>5, <2>2
    <3>2. ClusterAmong(d, W) \subseteq Decided
      BY <1>4, <3>1
    <3> QED
      BY <1>3, <1>4, <1>8, <3>1, <3>2 DEF SomeoneLeads
  <2> QED
    BY <2>1, <2>2
<1>9. ASSUME AllCanonical(W), faults = 0
      PROVE  AllCanonical(V)'
  <2>1. resets = 0 => V \subseteq Settled'
    BY <1>1, <1>4, <1>9 DEF AllCanonical
  <2>2. ASSUME NEW d \in V, ClusterAmong(d, V) \subseteq Settled'
        PROVE  \E root \in ClusterAmong(d, V) : WillBeCanonical(root, ClusterAmong(d, V))'
    <3>1. CASE d \in Filtered
      <4>1. ClusterAmong(d, V) = {d} /\ (d \in W => ClusterAmong(d, W) = {d})
        BY <3>1, AmongFiltered
      <4>2. d \in W \cap Settled => isParent[d] = "true"
        BY <1>4, <1>9, <4>1 DEF AllCanonical, WillBeCanonical
      <4>3. WillBeCanonical(d, {d})'
        BY <1>6, <2>2, <3>1, <4>1, <4>2
      <4> QED
        BY <4>1, <4>3 DEF ClusterAmong
    <3>2. CASE d \notin Filtered
      <4>1. /\ d \in W /\ ClusterAmong(d, V) = ClusterAmong(d, W)
            /\ ClusterAmong(d, W) \subseteq Docs \ chunk
        BY <1>5, <3>2
      <4>2. ClusterAmong(d, W) \subseteq Decided
        BY <1>4, <2>2, <4>1
      <4>3. PICK root \in ClusterAmong(d, W) : WillBeCanonical(root, ClusterAmong(d, W))
        BY <1>9, <4>1, <4>2 DEF AllCanonical
      <4> DEFINE K == ClusterAmong(d, W)
      <4>4. WillBeCanonical(root, K)'
        <5>1. K \in SUBSET (Docs \ chunk) /\ root \in K /\ WillBeCanonical(root, K)
          BY <4>1, <4>3
        <5>2. K' = K
          BY DEF ClusterAmong
        <5> HIDE DEF K
        <5> QED
          BY <1>7, <5>1, <5>2
      <4> QED
        BY <4>1, <4>3, <4>4 DEF ClusterAmong
    <3> QED
      BY <3>1, <3>2
  <2> QED
    BY <1>1, <1>4, <2>1, <2>2 DEF AllCanonical, ClusterAmong
<1> QED
  <2>1. faults' = 0 => faults = 0
    BY <1>1
  <2>2. SomeoneLeads(W) => SomeoneLeads(V)'
    BY <1>1, <1>8 DEF SomeoneLeads
  <2>3. AllCanonical(W) => AllCanonical(V)'
    BY <1>1, <1>9 DEF AllCanonical
  <2> QED
    BY <1>1, <2>2, <2>3 DEF Outcome

(* A chunk of rows, in place of the old rows of its children.              *)
LEMMA OutcomeWrite ==
  ASSUME BaseInv, Routine, NEW W \in SUBSET Docs, History(W), Outcome(W), WriteDupes
  PROVE  Outcome(W)'
<1> DEFINE chunk == Lowest({r[1] : r \in plan.rows}, BatchSize)
           rows  == {r \in plan.rows : r[1] \in chunk}
<1>1. /\ dupes' = {r \in dupes : r[1] \notin chunk} \cup rows
      /\ plan' = [plan EXCEPT !.rows = @ \ rows]
      /\ chunk \subseteq {r[1] : r \in plan.rows}
      /\ UNCHANGED <<isParent, faults, resets, cleanups>>
  BY LowestAreOfIt DEF WriteDupes, history
<1>2. plan \in [rows : SUBSET (Docs \X Docs), children : SUBSET Docs,
                parents : SUBSET Docs]
  BY DEF BaseInv, RunInv, TypeOK
<1> HIDE DEF chunk
<1>3. /\ plan'.rows = plan.rows \ rows /\ plan'.children = plan.children
      /\ plan'.parents = plan.parents
  BY <1>1, <1>2
<1>4. /\ Decided' = Decided /\ \A root : WillLead(root)' = WillLead(root)
  BY <1>1, <1>3 DEF Decided, Settled, Marked, WillLead
<1>5. ASSUME NEW K \in SUBSET Docs, NEW root \in K, WillBeCanonical(root, K)
      PROVE  WillBeCanonical(root, K)'
  <2>1. root \notin chunk
    BY <1>1, <1>5 DEF WillBeCanonical
  <2>2. \A r \in dupes' : r[1] = root => r \in dupes
    BY <1>1, <2>1
  <2>3. ASSUME NEW x \in K \ {root}
        PROVE  /\ <<x, root>> \in dupes' \cup plan'.rows
               /\ \A r \in plan'.rows : r[1] = x => r = <<x, root>>
    <3>1. /\ <<x, root>> \in dupes \cup plan.rows
          /\ \A r \in plan.rows : r[1] = x => r = <<x, root>>
      BY <1>5, <2>3 DEF WillBeCanonical
    <3>2. CASE <<x, root>> \in plan.rows
      BY <1>1, <1>3, <3>1, <3>2
    <3>3. CASE <<x, root>> \notin plan.rows
      <4>1. <<x, root>>[1] = x /\ x \notin chunk
        BY <1>1, <3>1, <3>3
      <4> QED
        BY <1>1, <3>1, <3>3, <4>1
    <3> QED
      BY <1>3, <3>1, <3>2, <3>3
  <2> QED
    BY <1>1, <1>3, <1>4, <1>5, <2>2, <2>3 DEF WillBeCanonical
<1>6. \A d \in W : ClusterAmong(d, W) \in SUBSET Docs
  BY AmongTyped
<1> QED
  BY <1>1, <1>4, <1>5, <1>6 DEF Outcome, SomeoneLeads, AllCanonical, ClusterAmong

(* Marks set according to plan are taken out of it.                        *)
LEMMA OutcomeMark ==
  ASSUME BaseInv, Routine, NEW W \in SUBSET Docs, History(W), Outcome(W),
         NEW D \in SUBSET Docs, NEW m \in {"true", "false"}, Mark(D, m),
         UNCHANGED <<dupes, faults, resets, cleanups>>, plan'.rows = plan.rows,
         \/ /\ m = "false" /\ D \subseteq plan.children
            /\ plan'.children = plan.children \ D /\ plan'.parents = plan.parents
         \/ /\ m = "true" /\ D \subseteq plan.parents /\ plan.children = {}
            /\ plan'.children = {} /\ plan'.parents = plan.parents \ D
  PROVE  Outcome(W)'
<1> SUFFICES ASSUME cleanups = 0, OneKind
             PROVE  SomeoneLeads(W)' /\ AllCanonical(W)'
  BY DEF Outcome
<1>1. isParent \in [Docs -> Marks] /\ plan.children \subseteq Docs /\ plan.parents \subseteq Docs
  BY DEF BaseInv, RunInv, TypeOK, Marks
<1>2. D \subseteq Present
  BY KnownArePresent DEF History, Knows
<1>3. \A d \in Docs : isParent'[d] = IF d \in D THEN m ELSE isParent[d]
  BY <1>1, <1>2, MarkEffect
<1>4. Decided' = Decided
  <2>1. Settled' = Settled \cup D
    BY <1>1, <1>3 DEF Settled, Marked
  <2> QED
    BY <2>1 DEF Decided
<1>5. \A root \in Docs : WillLead(root) => WillLead(root)'
  BY <1>3 DEF WillLead
<1>6. ASSUME NEW K \in SUBSET Docs, NEW root \in K, WillBeCanonical(root, K)
      PROVE  WillBeCanonical(root, K)'
  <2>1. ASSUME NEW x \in K \ {root}
        PROVE  x \notin plan'.parents /\ (isParent'[x] = "false" \/ x \in plan'.children)
    BY <1>3, <1>6, <2>1 DEF WillBeCanonical
  <2> QED
    BY <1>5, <1>6, <2>1 DEF WillBeCanonical
<1>7. \A d \in W : ClusterAmong(d, W) \in SUBSET Docs
  BY AmongTyped
<1>8. SomeoneLeads(W) /\ AllCanonical(W)
  BY DEF Outcome
<1> QED
  BY <1>4, <1>5, <1>6, <1>7, <1>8 DEF SomeoneLeads, AllCanonical, ClusterAmong

(* The first run to be interrupted had still planned its parents out of    *)
(* documents that had none of the rows of a child.                         *)
LEMMA OutcomeInterrupt ==
  ASSUME BaseInv, Routine, NEW W \in SUBSET Docs, History(W), Outcome(W),
         NEW recorded, Interrupt(recorded)
  PROVE  Outcome(W)'
<1>1. /\ faults' = faults + 1 /\ UNCHANGED <<isParent, dupes, resets, cleanups>>
      /\ plan'.children = {} /\ plan'.parents = {}
  BY ForgetEmpties DEF Interrupt, database
<1>2. faults \in Nat /\ resets \in Nat /\ TypeOK
  BY Counts DEF BaseInv, RunInv
<1>a. /\ Decided' = Settled
      /\ \A root : WillLead(root)' <=> isParent[root] = "true"
      /\ faults' # 0 /\ (faults' + resets' <= 1 => faults = 0 /\ resets = 0)
  BY <1>1, <1>2 DEF WillLead, Decided, Settled, Marked
<1>b. \A d \in W : ClusterAmong(d, W)' = ClusterAmong(d, W)
  BY DEF ClusterAmong
<1> SUFFICES ASSUME cleanups = 0, OneKind, faults = 0, resets = 0,
                    NEW d \in W, ClusterAmong(d, W) \subseteq Settled
             PROVE  \E root \in ClusterAmong(d, W) : isParent[root] = "true"
  BY <1>1, <1>a, <1>b DEF Outcome, SomeoneLeads, AllCanonical
<1>3. PICK root \in ClusterAmong(d, W) : WillBeCanonical(root, ClusterAmong(d, W))
  BY DEF Outcome, AllCanonical, Decided
<1>4. \A r \in dupes : r[1] # root
  BY <1>3 DEF WillBeCanonical
<1>5. isParent[root] # "false"
  <2>1. ChildHasRow /\ root \in Docs
    BY AmongTyped DEF BaseInv, RunInv
  <2> QED
    BY <1>4, <2>1 DEF ChildHasRow, Marked
<1> QED
  BY <1>3, <1>5 DEF Settled, Marked

(* Phase 3 touches all of a cluster with a seed, unless no edge leads to   *)
(* that seed, and nothing of the others.                                   *)
LEMMA TouchedClusters ==
  ASSUME TypeOK, seeds = newDocs, NEW d \in Docs
  PROVE  /\ Component(d) \cap newDocs # {} =>
              \/ Component(d) \subseteq Touched
              \/ Component(d) = {d} /\ d \in newDocs /\ d \notin Touched
         /\ Component(d) \cap newDocs = {} => Component(d) \cap Touched = {}
<1>1. matches \subseteq SUBSET Docs /\ d \in Component(d)
  BY ClusterContains DEF TypeOK, Component
<1>2. newDocs \subseteq Docs /\ Component(d) \subseteq Docs
  BY ClusterContains DEF TypeOK, Component
<1>3. \A e \in Docs : \A x \in Component(e) : Component(x) = Component(e)
  BY <1>1, OneRoot
<1>4. ASSUME NEW x \in Component(d), x \notin UNION matches
      PROVE  Component(d) = {d} /\ x = d
  <2>1. {x} \in Closed(Docs, matches)
    BY <1>2, <1>4 DEF Closed
  <2>2. Component(x) \subseteq {x}
    BY <2>1 DEF Component, ClusterOf
  <2> QED
    BY <1>1, <1>3, <2>2
<1>5. ASSUME NEW s \in Component(d) \cap newDocs, Component(d) \subseteq UNION matches
      PROVE  Component(d) \subseteq Touched
  <2>1. Component(s) = Component(d)
    BY <1>3
  <2> QED
    BY <1>5, <2>1 DEF Touched
<1>6. ASSUME NEW x \in Component(d) \cap Touched
      PROVE  Component(d) \cap newDocs # {}
  <2>1. PICK s \in newDocs : x \in Component(s)
    BY DEF Touched
  <2>2. s \in Component(s)
    BY <1>2, ClusterContains DEF Component
  <2>3. Component(x) = Component(s) /\ Component(x) = Component(d)
    BY <1>2, <1>3, <2>1
  <2> QED
    BY <2>2, <2>3
<1> QED
  BY <1>1, <1>4, <1>5, <1>6 DEF Touched

(* A plan knows no root and no child of a cluster that is not touched.     *)
LEMMA PlannedAreTouched ==
  ASSUME TypeOK, seeds = newDocs, NEW d \in Docs, Component(d) \cap newDocs = {}
  PROVE  /\ Component(d) \cap ChildMarks = {} /\ Component(d) \cap ParentMarks = {}
         /\ \A r \in AssignmentsRequiringWrite : r[1] \notin Component(d)
<1>1. Component(d) \cap Touched = {}
  BY TouchedClusters
<1>2. Component(d) \cap Children = {}
  BY <1>1 DEF Children
<1>3. ASSUME NEW x \in Component(d), x \in Roots
      PROVE  FALSE
  <2>1. PICK e \in Touched : x = Root(e)
    BY <1>3 DEF Roots
  <2>2. e \in Docs /\ matches \subseteq SUBSET Docs
    BY TouchedTyped DEF TypeOK
  <2>3. x \in Component(e) /\ e \in Component(e)
    BY <2>1, <2>2, RootPrecedes, ClusterContains DEF Component
  <2>4. Component(x) = Component(e) /\ Component(x) = Component(d)
    BY <1>3, <2>2, <2>3, OneRoot
  <2> QED
    BY <1>1, <2>3, <2>4
<1> QED
  BY <1>2, <1>3 DEF ChildMarks, ParentMarks, AssignmentsRequiringWrite, Assignments

(* The root of a touched cluster will lead it, if it is decided at all: a  *)
(* historical child that has become the root has the row of one.           *)
LEMMA RootWillLead ==
  ASSUME BaseInv, seeds = newDocs, NEW d \in Docs, Component(d) \cap newDocs # {},
         Root(d) \in Settled \cup ChildMarks \cup ParentMarks
  PROVE  /\ Root(d) \in Component(d) /\ Root(d) \notin Children
         /\ isParent[Root(d)] = "true" \/ Root(d) \in ParentMarks
<1> DEFINE root == Root(d)
<1>a. TypeOK /\ matches \subseteq SUBSET Docs /\ ChildHasRow
  BY DEF BaseInv, RunInv, TypeOK
<1>1. root \in Component(d) /\ root \in Docs
  BY RootPrecedes, ClusterContains DEF Component
<1>2. Component(root) = Component(d) /\ Root(root) = root
  BY <1>a, <1>1, OneRoot
<1>3. root \notin Children
  BY <1>2 DEF Children
<1>4. root \notin ChildMarks
  BY <1>3 DEF ChildMarks
<1>5. root \in newDocs => root \in ParentMarks
  BY <1>3 DEF ParentMarks
<1>6. ASSUME isParent[root] = "false", root \notin newDocs
      PROVE  root \in ParentMarks
  <2>1. PICK r \in dupes : r[1] = root
    BY <1>a, <1>1, <1>6 DEF ChildHasRow, Marked
  <2>2. root \in Touched
    BY <1>a, <1>1, <1>6, TouchedClusters
  <2> QED
    BY <1>2, <2>1, <2>2 DEF ParentMarks, Roots, ExistingRows
<1> QED
  BY <1>1, <1>3, <1>4, <1>5, <1>6 DEF Settled, Marked

(* The others will be its children.                                        *)
LEMMA OthersWillFollow ==
  ASSUME BaseInv, seeds = newDocs, NEW d \in Docs, Component(d) \cap newDocs # {},
         NEW x \in Component(d), x # Root(d),
         x \in Settled \cup ChildMarks \cup ParentMarks
  PROVE  /\ x \notin ParentMarks
         /\ isParent[x] = "false" \/ x \in ChildMarks
         /\ <<x, Root(d)>> \in dupes \cup AssignmentsRequiringWrite
         /\ \A r \in AssignmentsRequiringWrite : r[1] = x => r = <<x, Root(d)>>
<1>a. TypeOK /\ matches \subseteq SUBSET Docs
  BY DEF BaseInv, RunInv, TypeOK
<1>1. x \in Docs /\ Component(x) = Component(d) /\ Root(x) = Root(d) /\ d \in Component(d)
  BY <1>a, OneRoot, ClusterContains DEF Component
<1>2. x \in Touched
  <2>1. Root(d) \in Component(d)
    BY RootPrecedes
  <2>2. Component(d) # {d}
    BY <2>1
  <2> QED
    BY <1>a, <2>2, TouchedClusters
<1>3. x \in Children /\ <<x, Root(d)>> \in Assignments
  BY <1>1, <1>2 DEF Children, Assignments
<1>4. x \notin Roots
  <2> SUFFICES ASSUME NEW e \in Touched, x = Root(e)
               PROVE  FALSE
    BY DEF Roots
  <2>1. e \in Docs
    BY <1>a, TouchedTyped
  <2>2. x \in Component(e)
    BY <2>1, RootPrecedes
  <2>3. Root(x) = Root(e)
    BY <1>a, <2>1, <2>2, OneRoot
  <2> QED
    BY <1>1, <2>3
<1>5. x \notin ParentMarks
  BY <1>3, <1>4 DEF ParentMarks
<1>6. isParent[x] = "false" \/ x \in ChildMarks
  <2>1. isParent[x] = "true" => x \in ExistingParents
    BY <1>1, <1>2 DEF ExistingParents, Marked
  <2>2. x \in ExistingParents => x \in ChildMarks
    BY <1>3 DEF ChildMarks
  <2> QED
    BY <1>5, <2>1, <2>2 DEF Settled, Marked
<1>7. <<x, Root(d)>> \in dupes \cup AssignmentsRequiringWrite
  BY <1>3 DEF AssignmentsRequiringWrite, ExistingRows
<1>8. \A r \in AssignmentsRequiringWrite : r[1] = x => r = <<x, Root(d)>>
  BY <1>1 DEF AssignmentsRequiringWrite, Assignments
<1> QED
  BY <1>5, <1>6, <1>7, <1>8

(* Phase 3 begins, with the history W and the batch, which make V.         *)
AtResolve(W, V) ==
  /\ BaseInv /\ Routine /\ cleanups = 0 /\ OneKind /\ step = "resolving"
  /\ W \in SUBSET Docs /\ History(W)
  /\ V \in SUBSET Docs /\ V = W \cup newDocs \cup Marked("deleted")

(* Nothing but V has been recorded.                                        *)
LEMMA RecordedAtResolve ==
  ASSUME NEW W, NEW V, AtResolve(W, V)
  PROVE  /\ UNION matches \subseteq V /\ V = W \cup newDocs
         /\ \A d \in V : Component(d) \subseteq ClusterAmong(d, V)
         /\ whole = TRUE => \A d \in V : Component(d) = ClusterAmong(d, V)
<1> USE DEF AtResolve
<1>1. TypeOK /\ Marked("deleted") = {} /\ matches \subseteq Pairs
  BY DEF BaseInv, RunInv, Routine
<1>2. Seen \subseteq Present /\ W \subseteq Present
  BY <1>1, KnownArePresent, SeenTyped DEF BaseInv, Arrived, Present, Marked
<1>3. Seen \subseteq V
  BY <1>2 DEF History, BatchIsWhole, Read
<1>4. UNION matches \subseteq V
  BY <1>3 DEF Seen
<1>5. ASSUME NEW d \in V
      PROVE  Component(d) \subseteq ClusterAmong(d, V)
  <2>1. \A S \in Closed(Docs, {p \in Pairs : p \subseteq V}) : S \in Closed(Docs, matches)
    BY <1>1, <1>4 DEF Closed
  <2> QED
    BY <2>1 DEF ClusterAmong, Component, ClusterOf
<1>6. ASSUME whole = TRUE, NEW d \in V
      PROVE  Component(d) = ClusterAmong(d, V)
  <2>1. Compared(W) = V
    BY <1>1, <1>2 DEF Compared
  <2>2. \A p \in Pairs : p \subseteq V => OnRecord(p)
    BY <1>6, <2>1 DEF History, PairsOf
  <2>3. Component(d) \subseteq V
    BY <1>1, <1>4, ComponentSeen
  <2> QED
    BY <1>1, <2>2, <2>3, ClustersAgree
<1> QED
  BY <1>1, <1>4, <1>5, <1>6

LEMMA AmongSame ==
  ASSUME NEW V \in SUBSET Docs, NEW W \in SUBSET V, NEW d \in Docs,
         ClusterAmong(d, V) \subseteq W
  PROVE  ClusterAmong(d, W) = ClusterAmong(d, V)
<1> DEFINE C == ClusterAmong(d, V)
           known == {p \in Pairs : p \subseteq V}
<1>1. ClusterAmong(d, W) \subseteq C
  BY AmongGrows
<1>2. d \in C /\ C \subseteq Docs /\ known \subseteq SUBSET Docs
  BY AmongTyped
<1>3. ASSUME NEW S \in Closed(Docs, {p \in Pairs : p \subseteq W}), d \in S
      PROVE  C \subseteq S
  <2>1. ASSUME NEW p \in known, p \cap (S \cap C) # {}
        PROVE  p \subseteq S \cap C
    <3>1. p \subseteq C
      BY <1>2, <2>1, ClusterClosed DEF ClusterAmong
    <3> QED
      BY <1>3, <2>1, <3>1 DEF Closed
  <2>2. S \cap C \in Closed(Docs, known)
    BY <1>2, <2>1 DEF Closed
  <2> QED
    BY <1>2, <1>3, <2>2 DEF ClusterAmong, ClusterOf
<1> QED
  BY <1>1, <1>2, <1>3 DEF ClusterAmong, ClusterOf

LEMMA AmongOne ==
  ASSUME NEW Z \in SUBSET Docs, NEW d \in Docs, NEW e \in ClusterAmong(d, Z)
  PROVE  ClusterAmong(e, Z) = ClusterAmong(d, Z)
<1>1. {p \in Pairs : p \subseteq Z} \subseteq SUBSET Docs
  OBVIOUS
<1> QED
  BY <1>1, SameCluster DEF ClusterAmong

(* A cluster without a document of the batch stays as it was.              *)
LEMMA UntouchedAtResolve ==
  ASSUME NEW W, NEW V, AtResolve(W, V),
         NEW d \in V, ClusterAmong(d, V) \cap newDocs = {},
         ClusterAmong(d, V) \subseteq Settled \cup ChildMarks \cup ParentMarks
  PROVE  /\ d \in W /\ ClusterAmong(d, W) = ClusterAmong(d, V)
         /\ ClusterAmong(d, V) \subseteq Settled
         /\ ClusterAmong(d, V) \cap ChildMarks = {}
         /\ ClusterAmong(d, V) \cap ParentMarks = {}
         /\ \A r \in AssignmentsRequiringWrite : r[1] \notin ClusterAmong(d, V)
<1>0. /\ BaseInv /\ Routine /\ W \in SUBSET Docs /\ V \in SUBSET Docs
      /\ History(W) /\ cleanups = 0 /\ OneKind /\ step = "resolving"
  BY DEF AtResolve
<1> DEFINE C == ClusterAmong(d, V)
<1>1. TypeOK /\ seeds = newDocs /\ V = W \cup newDocs
  BY <1>0, RecordedAtResolve DEF BaseInv, RunInv, Routine
<1>2. d \in C /\ C \subseteq V /\ C \subseteq Docs
  BY <1>0, AmongTyped
<1>3. d \in W /\ C \subseteq W
  BY <1>1, <1>2
<1>4. ClusterAmong(d, W) = C
  BY <1>1, <1>3, <1>0, AmongSame
<1>5. ASSUME NEW x \in C
      PROVE  /\ x \notin ChildMarks /\ x \notin ParentMarks
             /\ \A r \in AssignmentsRequiringWrite : r[1] # x
  <2>1. Component(x) \subseteq C /\ x \in Component(x)
    <3>1. ClusterAmong(x, V) = C /\ x \in V /\ x \in Docs
      BY <1>0, <1>2, AmongOne
    <3>2. Component(x) \subseteq ClusterAmong(x, V)
      BY <3>1, RecordedAtResolve
    <3> QED
      BY <3>1, <3>2, ClusterContains DEF Component
  <2>2. Component(x) \cap newDocs = {}
    BY <2>1
  <2> QED
    BY <1>1, <1>2, <2>1, <2>2, <1>0, PlannedAreTouched
<1> QED
  BY <1>3, <1>4, <1>5

LEMMA LeadsAtResolve ==
  ASSUME NEW W, NEW V, AtResolve(W, V), Resolve,
         SomeoneLeads(W)
  PROVE  SomeoneLeads(V)'
<1>0. /\ BaseInv /\ Routine /\ W \in SUBSET Docs /\ V \in SUBSET Docs
      /\ History(W) /\ cleanups = 0 /\ OneKind /\ step = "resolving"
  BY DEF AtResolve
<1>1. /\ step = "resolving"
      /\ plan' = [rows |-> AssignmentsRequiringWrite, children |-> ChildMarks,
                  parents |-> ParentMarks]
      /\ UNCHANGED <<isParent, dupes, faults, resets>>
  BY DEF Resolve, database, history
<1>2. TypeOK /\ plan = NoPlan /\ seeds = newDocs
  BY <1>0, <1>1 DEF BaseInv, RunInv, Tidy, Routine
<1>3. /\ Decided' = Settled \cup ChildMarks \cup ParentMarks /\ Decided = Settled
      /\ \A root : WillLead(root) <=> isParent[root] = "true"
      /\ \A root : WillLead(root)' <=>
           root \notin ChildMarks /\ (isParent[root] = "true" \/ root \in ParentMarks)
  BY <1>1, <1>2 DEF Decided, Settled, Marked, WillLead, NoPlan
<1> SUFFICES ASSUME faults + resets <= 1, NEW d \in V,
                    ClusterAmong(d, V) \subseteq Settled \cup ChildMarks \cup ParentMarks
             PROVE  \E root \in ClusterAmong(d, V) : WillLead(root)'
  BY <1>1, <1>3 DEF SomeoneLeads, ClusterAmong
<1>4. CASE ClusterAmong(d, V) \cap newDocs = {}
  <2>1. /\ d \in W /\ ClusterAmong(d, W) = ClusterAmong(d, V)
        /\ ClusterAmong(d, V) \subseteq Settled
        /\ ClusterAmong(d, V) \cap ChildMarks = {}
    BY <1>1, <1>4, UntouchedAtResolve
  <2> QED
    BY <1>3, <2>1 DEF SomeoneLeads
<1>5. ASSUME NEW s \in ClusterAmong(d, V), s \in newDocs
      PROVE  \E root \in ClusterAmong(d, V) : WillLead(root)'
  <2>1. s \in Docs /\ s \in V
    BY <1>0, <1>5, AmongTyped
  <2>2. Component(s) \subseteq ClusterAmong(d, V)
    <3>1. ClusterAmong(s, V) = ClusterAmong(d, V)
      BY <1>0, <1>5, AmongOne
    <3>2. Component(s) \subseteq ClusterAmong(s, V)
      BY <2>1, RecordedAtResolve
    <3> QED
      BY <3>1, <3>2
  <2>3. s \in Component(s)
    BY <2>1, ClusterContains DEF Component
  <2>4. Root(s) \in Component(s)
    BY <2>1, <1>0, RootPrecedes
  <2>5. Root(s) \notin Children /\ (isParent[Root(s)] = "true" \/ Root(s) \in ParentMarks)
    BY <1>2, <1>5, <2>1, <2>2, <2>3, <2>4, <1>0, RootWillLead
  <2> QED
    BY <1>3, <2>2, <2>4, <2>5 DEF ChildMarks
<1> QED
  BY <1>4, <1>5

(* Unless somebody has reset documents, the root of a touched cluster has  *)
(* no row: whoever has one has a canonical parent, which takes precedence. *)
LEMMA RootHasNoRow ==
  ASSUME NEW W, NEW V, AtResolve(W, V),
         AllCanonical(W), faults = 0, resets = 0, whole = TRUE,
         NEW d \in V, NEW r \in dupes, r[1] = Root(d)
  PROVE  FALSE
<1>0. /\ BaseInv /\ Routine /\ W \in SUBSET Docs /\ V \in SUBSET Docs
      /\ History(W) /\ cleanups = 0 /\ OneKind /\ step = "resolving"
  BY DEF AtResolve
<1> DEFINE root == Root(d)
<1>1. TypeOK /\ plan = NoPlan /\ V = W \cup newDocs
  BY <1>0, RecordedAtResolve DEF BaseInv, RunInv, Tidy
<1>2. root \in W /\ W \subseteq Settled
  BY <1>0, <1>1 DEF History, Knows, AllCanonical, Decided, NoPlan
<1>3. PICK p \in ClusterAmong(root, W) : WillBeCanonical(p, ClusterAmong(root, W))
  <2>1. ClusterAmong(root, W) \subseteq W
    BY <1>2, <1>0, AmongTyped
  <2> QED
    BY <1>2, <2>1 DEF AllCanonical, Decided
<1>4. isParent[p] = "true" /\ (root # p => isParent[root] = "false")
  <2>1. root \in ClusterAmong(root, W)
    BY <1>2, <1>0, AmongTyped
  <2> QED
    BY <1>1, <1>3, <2>1 DEF WillBeCanonical, WillLead, NoPlan
<1>5. p \in Component(d)
  <2>1. root \in Component(d) /\ d \in Docs
    BY <1>0, RootPrecedes
  <2>2. Component(d) = ClusterAmong(d, V)
    BY RecordedAtResolve
  <2>3. ClusterAmong(root, V) = ClusterAmong(d, V)
    BY <2>1, <2>2, <1>0, AmongOne
  <2>4. ClusterAmong(root, W) \subseteq ClusterAmong(root, V)
    BY <1>1, <1>2, <1>0, AmongGrows
  <2> QED
    BY <1>3, <2>2, <2>3, <2>4
<1>6. Precedes(root, p)
  BY <1>5, <1>0, RootPrecedes
<1>7. isParent[root] = "true"
  BY <1>4, <1>6 DEF Precedes, Priority
<1> QED
  BY <1>3, <1>4, <1>7 DEF WillBeCanonical

LEMMA CanonicalAtResolve ==
  ASSUME NEW W, NEW V, AtResolve(W, V), Resolve,
         AllCanonical(W)
  PROVE  AllCanonical(V)'
<1>0. /\ BaseInv /\ Routine /\ W \in SUBSET Docs /\ V \in SUBSET Docs
      /\ History(W) /\ cleanups = 0 /\ OneKind /\ step = "resolving"
  BY DEF AtResolve
<1>1. /\ step = "resolving"
      /\ plan' = [rows |-> AssignmentsRequiringWrite, children |-> ChildMarks,
                  parents |-> ParentMarks]
      /\ UNCHANGED <<isParent, dupes, faults, resets>>
  BY DEF Resolve, database, history
<1>2. TypeOK /\ plan = NoPlan /\ seeds = newDocs /\ V = W \cup newDocs
  BY <1>0, <1>1, RecordedAtResolve DEF BaseInv, RunInv, Tidy, Routine
<1>3. Decided' = Settled \cup ChildMarks \cup ParentMarks /\ Decided = Settled
  BY <1>1, <1>2 DEF Decided, Settled, Marked, NoPlan
<1> SUFFICES ASSUME faults = 0
             PROVE  AllCanonical(V)'
  BY <1>1 DEF AllCanonical
<1>4. whole = TRUE /\ \A d \in V : Component(d) = ClusterAmong(d, V)
  <2>1. whole = TRUE
    BY <1>0, <1>1 DEF Routine
  <2> QED
    BY <1>1, <2>1, RecordedAtResolve
<1>5. resets = 0 => V \subseteq Settled \cup ChildMarks \cup ParentMarks
  <2>1. newDocs \subseteq ChildMarks \cup ParentMarks
    BY DEF ChildMarks, ParentMarks
  <2> QED
    BY <1>2, <1>3, <2>1 DEF AllCanonical
<1>6. ASSUME NEW d \in V, ClusterAmong(d, V) \subseteq Settled \cup ChildMarks \cup ParentMarks
      PROVE  \E root \in ClusterAmong(d, V) : WillBeCanonical(root, ClusterAmong(d, V))'
  <2> DEFINE C == ClusterAmong(d, V)
  <2>1. C' = C
    BY DEF ClusterAmong
  <2>2. CASE C \cap newDocs = {}
    <3>1. /\ d \in W /\ ClusterAmong(d, W) = C /\ C \subseteq Settled
          /\ C \cap ChildMarks = {} /\ C \cap ParentMarks = {}
          /\ \A r \in AssignmentsRequiringWrite : r[1] \notin C
      BY <1>1, <1>6, <2>2, UntouchedAtResolve
    <3>2. PICK root \in C : WillBeCanonical(root, C)
      BY <1>3, <3>1 DEF AllCanonical
    <3> HIDE DEF C
    <3>3. WillBeCanonical(root, C)'
      BY <1>1, <1>2, <2>1, <3>1, <3>2 DEF WillBeCanonical, WillLead, NoPlan
    <3> QED
      BY <2>1, <3>3 DEF C
  <2>3. CASE C \cap newDocs # {}
    <3> DEFINE root == Root(d)
    <3>1. C = Component(d) /\ d \in Docs
      BY <1>0, <1>4
    <3>2. root \in C
      BY <3>1, <1>0, RootPrecedes
    <3>3. root \notin Children /\ (isParent[root] = "true" \/ root \in ParentMarks)
      BY <1>2, <1>6, <2>3, <3>1, <3>2, <1>0, RootWillLead
    <3>4. \A r \in AssignmentsRequiringWrite : r[1] # root
      BY <3>3 DEF AssignmentsRequiringWrite, Assignments
    <3>5. resets = 0 => \A r \in dupes : r[1] # root
      BY <1>1, <1>4, RootHasNoRow
    <3>6. ASSUME NEW x \in C, x # root
          PROVE  /\ x \notin ParentMarks
                 /\ isParent[x] = "false" \/ x \in ChildMarks
                 /\ <<x, root>> \in dupes \cup AssignmentsRequiringWrite
                 /\ \A r \in AssignmentsRequiringWrite : r[1] = x => r = <<x, root>>
      BY <1>2, <1>6, <2>3, <3>1, <3>6, <1>0, OthersWillFollow
    <3>7. root \notin ChildMarks
      BY <3>3 DEF ChildMarks
    <3>8. PICK m \in C : m = root
      BY <3>2
    <3> HIDE DEF root, C
    <3>9. WillBeCanonical(m, C)'
      BY <1>1, <2>1, <3>3, <3>4, <3>5, <3>6, <3>7, <3>8 DEF WillBeCanonical, WillLead
    <3> QED
      BY <2>1, <3>9 DEF C
  <2> QED
    BY <2>2, <2>3
<1> QED
  BY <1>1, <1>3, <1>5, <1>6 DEF AllCanonical, ClusterAmong

LEMMA OutcomeResolve ==
  ASSUME BaseInv, Routine, NEW W \in SUBSET Docs, History(W), Outcome(W), Resolve,
         NEW V \in SUBSET Docs, V = W \cup newDocs \cup Marked("deleted")
  PROVE  Outcome(V)'
<1>1. cleanups' = cleanups
  BY DEF Resolve, history
<1>2. cleanups = 0 /\ OneKind => AtResolve(W, V)
  BY DEF Resolve, AtResolve
<1> QED
  BY <1>1, <1>2, LeadsAtResolve, CanonicalAtResolve DEF Outcome

-------------------------------------------------------------------------------

RunsInv == BaseInv /\ Routine /\ \E W \in SUBSET Docs : History(W) /\ Outcome(W)

LEMMA InitRunsInv ==
  ASSUME Init
  PROVE  RunsInv
<1>1. BaseInv
  BY InitRunInv DEF Init, BaseInv, Arrived, PastIsPrefix, Seen, NoScan
<1>2. Routine
  BY DEF Init, Routine, NoPlan, Marked
<1>3. History({})
  <2>1. Settled = {} /\ Seen = {}
    BY DEF Init, Settled, Marked, Seen
  <2>2. Knows({})
    BY <2>1 DEF Init, Knows, NoPlan
  <2>3. BatchIsWhole({})
    BY <2>1 DEF BatchIsWhole
  <2>4. PairsOf({})
    BY PairsNotEmpty DEF Init, PairsOf, Compared
  <2> QED
    BY <2>2, <2>3, <2>4 DEF History
<1>4. Outcome({})
  BY DEF Outcome, SomeoneLeads, AllCanonical
<1> QED
  BY <1>1, <1>2, <1>3, <1>4 DEF RunsInv

LEMMA StepHistory ==
  ASSUME BaseInv, BaseInv', Routine, NEW W \in SUBSET Docs, History(W), Outcome(W), Next
  PROVE  \E V \in SUBSET Docs : History(V)' /\ Outcome(V)'
<1>a. RunInv' /\ Arrived'
  BY DEF BaseInv
<1>b. /\ plan \in [rows : SUBSET (Docs \X Docs), children : SUBSET Docs,
                   parents : SUBSET Docs]
      /\ Tidy /\ cleanups \in Nat /\ TypeOK
  BY CleanupsCounted DEF BaseInv, RunInv, TypeOK
<1>1. ASSUME NEW d \in Docs, Arrive(d)
      PROVE  History(W)' /\ Outcome(W)'
  BY <1>a, <1>1, HistoryArrive, OutcomeArrive
<1>2. ASSUME NEW D, Reset(D)
      PROVE  History(W)' /\ Outcome(W)'
  BY <1>a, <1>2, HistoryReset, OutcomeReset
<1>3. ASSUME NEW D \in SUBSET Pathological, CleanupMarkParents(D) \/ CleanupDelete(D)
      PROVE  \E V \in SUBSET Docs : History(V)' /\ Outcome(V)'
  <2>1. \A V : Outcome(V)'
    BY <1>b, <1>3 DEF CleanupMarkParents, CleanupDelete, Outcome
  <2> QED
    BY <1>a, <1>3, <2>1, HistoryCleanup, HistoryDelete
<1>4. ASSUME \/ \E writes : StartRun(writes) \/ StartFullRun(writes)
             \/ ClearIndex \/ ClearMatches \/ ClearFiltered
      PROVE  History(W)' /\ Outcome(W)'
  <2>1. UNCHANGED <<isParent, dupes, plan, faults, resets, cleanups>>
    BY <1>4 DEF StartRun, StartFullRun, ClearIndex, ClearMatches, ClearFiltered,
                database, history
  <2> QED
    BY <1>a, <1>4, <2>1, HistoryStart, OutcomeSame
<1>5. ASSUME FetchPage \/ InsertBatch
      PROVE  History(W)' /\ Outcome(W)'
  <2>1. UNCHANGED <<isParent, dupes, plan, faults, resets, cleanups>>
    BY <1>5 DEF FetchPage, InsertBatch, database, history
  <2> QED
    BY <1>a, <1>5, <2>1, HistoryFetch, HistoryIndex, OutcomeSame
<1>6. ASSUME FlushFilteredParents
      PROVE  \E V \in SUBSET Docs : History(V)' /\ Outcome(V)'
  <2>1. /\ isParent \in [Docs -> Marks] /\ Settled \subseteq W
        /\ UNCHANGED <<dupes, plan, faults, resets, cleanups>>
    BY <1>6 DEF BaseInv, RunInv, TypeOK, Marks, History, Knows, FlushFilteredParents, history
  <2>2. CASE run.writes = TRUE
    <3>1. PICK V \in SUBSET Docs : V = W \cup (Lowest(scan.toMark, BatchSize) \cap Present)
      BY <1>b, SeenTyped
    <3>2. Settled' \subseteq V
      <4>1. Mark(Lowest(scan.toMark, BatchSize), "true")
        BY <1>6, <2>2 DEF FlushFilteredParents
      <4> QED
        BY <2>1, <3>1, <4>1, MarkKeepsPresent
    <3> QED
      BY <1>a, <1>6, <2>2, <3>1, <3>2, HistoryFlush, OutcomeFlush
  <2>3. CASE run.writes # TRUE
    <3>1. UNCHANGED isParent
      <4>1. run.writes \in BOOLEAN
        BY <1>b DEF TypeOK, Runs
      <4> QED
        BY <1>6, <2>3, <4>1 DEF FlushFilteredParents
    <3>2. Settled' \subseteq W
      BY <2>1, <3>1 DEF Settled, Marked
    <3> QED
      BY <1>a, <1>6, <2>1, <3>1, <3>2, HistoryFlush, OutcomeSame
  <2> QED
    BY <2>2, <2>3
<1>7. ASSUME NEW P \in {Pathological, {}}, DetectPathological(P)
      PROVE  History(W)' /\ Outcome(W)'
  <2>1. UNCHANGED <<isParent, dupes, faults, resets, cleanups>> /\ step = "indexing"
    BY <1>7 DEF DetectPathological, database
  <2>2. plan' = plan
    BY <1>b, <1>7, <2>1 DEF DetectPathological, Forget, Tidy
  <2> QED
    BY <1>a, <1>7, <2>1, <2>2, HistoryDetect, OutcomeSame
<1>8. CASE FindDuplicates
  <2>1. UNCHANGED <<isParent, dupes, plan, faults, resets, cleanups>>
    BY <1>8 DEF FindDuplicates, database
  <2> QED
    BY <1>a, <1>8, <2>1, HistoryFind, OutcomeSame
<1>9. ASSUME Resolve
      PROVE  \E V \in SUBSET Docs : History(V)' /\ Outcome(V)'
  <2>1. PICK V \in SUBSET Docs : V = W \cup newDocs \cup Marked("deleted")
    BY <1>b DEF TypeOK, Marked
  <2> QED
    BY <1>a, <1>9, <2>1, HistoryResolve, OutcomeResolve
<1>10. CASE WriteDupes
  BY <1>a, <1>10, HistoryWrite, OutcomeWrite
<1>11. ASSUME NEW chunk \in SUBSET plan.children, MarkAsChildren(chunk)
       PROVE  History(W)' /\ Outcome(W)'
  <2>1. /\ chunk # {} /\ Mark(chunk, "false") /\ chunk \in SUBSET Docs
        /\ UNCHANGED <<dupes, index, matches, run, step, newDocs, faults, resets, cleanups,
                       whole>>
        /\ plan'.rows = plan.rows /\ plan'.children = plan.children \ chunk
        /\ plan'.parents = plan.parents
    BY <1>b, <1>11 DEF MarkAsChildren, sidecars, history
  <2> QED
    BY <1>a, <1>11, <2>1, HistoryMark, OutcomeMark
<1>12. ASSUME MarkAsParents
       PROVE  History(W)' /\ Outcome(W)'
  <2> DEFINE chunk == Lowest(plan.parents, BatchSize)
  <2>1. /\ chunk # {} /\ Mark(chunk, "true") /\ chunk \subseteq plan.parents
        /\ UNCHANGED <<dupes, index, matches, run, step, newDocs, faults, resets, cleanups,
                       whole>>
        /\ plan'.rows = plan.rows /\ plan.children = {} /\ plan'.children = {}
        /\ plan'.parents = plan.parents \ chunk
    BY <1>b, <1>12, LowestAreOfIt DEF MarkAsParents, sidecars, history
  <2>2. chunk \in SUBSET Docs /\ chunk \in SUBSET (plan.children \cup plan.parents)
    BY <1>b, <2>1
  <2> HIDE DEF chunk
  <2> QED
    BY <1>a, <2>1, <2>2, HistoryMark, OutcomeMark
<1>13. CASE EndRun
  <2>1. /\ Forget /\ matches \subseteq matches' /\ plan = NoPlan /\ plan' = NoPlan
        /\ UNCHANGED <<isParent, dupes, index, faults, resets, cleanups, whole>>
    BY <1>b, <1>13 DEF EndRun, Tidy, Forget, database, sidecars, history
  <2> QED
    BY <1>a, <2>1, HistoryEnd, OutcomeSame
<1>14. ASSUME NEW recorded, Interrupt(recorded)
       PROVE  History(W)' /\ Outcome(W)'
  <2>1. /\ Forget /\ matches \subseteq matches'
        /\ UNCHANGED <<isParent, dupes, index, cleanups, whole>>
    BY <1>14 DEF Interrupt, database
  <2> QED
    BY <1>a, <1>14, <2>1, HistoryEnd, OutcomeInterrupt
<1> QED
  BY <1>1, <1>2, <1>3, <1>4, <1>5, <1>6, <1>7, <1>8, <1>9, <1>10, <1>11, <1>12, <1>13,
     <1>14 DEF Next, Cleanup, Run, ByHand, Work, Phase1, Phase3

LEMMA StepRunsInv ==
  ASSUME RunsInv, [Next]_vars
  PROVE  RunsInv'
<1>1. CASE Next
  <2>1. BaseInv'
    BY <1>1, StepRunInv, StepArrived, StepPastIsPrefix DEF RunsInv, BaseInv
  <2> QED
    BY <1>1, <2>1, StepRoutine, StepHistory DEF RunsInv
<1>2. CASE UNCHANGED vars
  <2>1. UNCHANGED <<database, sidecars, memory, outcome, history>>
    BY <1>2 DEF vars
  <2> USE DEF database, sidecars, memory, history
  <2>2. UNCHANGED <<Present, Settled, Marked("absent"), Marked("deleted"), Seen>>
    BY <2>1 DEF Present, Settled, Marked, Seen
  <2>3. BaseInv'
    BY <1>2, <2>1, <2>2, StepRunInv DEF RunsInv, BaseInv, Arrived, PastIsPrefix
  <2>4. ASSUME NEW W \in SUBSET Docs, History(W), Outcome(W)
        PROVE  History(W)' /\ Outcome(W)'
    <3>1. History(W)'
      BY <2>1, <2>2, <2>4 DEF History, Knows, BatchIsWhole, PairsOf, Compared, Read,
                              OnRecord, Linked, Mixed
    <3> QED
      BY <2>1, <2>4, <3>1, OutcomeSame
  <2>5. Routine'
    BY <2>1, <2>2 DEF RunsInv, Routine
  <2> QED
    BY <2>3, <2>4, <2>5 DEF RunsInv
<1> QED
  BY <1>1, <1>2

LEMMA RunsInvHolds == Spec => []RunsInv
<1>1. Init => RunsInv
  BY InitRunsInv
<1>2. RunsInv /\ [Next]_vars => RunsInv'
  BY StepRunsInv
<1> QED
  BY <1>1, <1>2, PTL DEF Spec

(* No duplicate pair is lost, for any documents, pairs and batch sizes,    *)
(* and any number of faults, runs by hand, resets and cleanups.            *)
THEOREM NoPairLost == Spec => []SettledPairsRecorded
<1>1. RunsInv => SettledPairsRecorded
  <2> SUFFICES ASSUME RunsInv, whole, NEW p \in Pairs, p \subseteq Settled
               PROVE  \/ Linked(p)
                      \/ ~ p \subseteq Cluster /\ p \cap Cluster # {}
                      \/ p \subseteq Cluster /\ cleanups > 0
    BY DEF SettledPairsRecorded
  <2>1. PICK W \in SUBSET Docs : History(W)
    BY DEF RunsInv
  <2>2. whole = TRUE
    BY DEF RunsInv, BaseInv, RunInv, TypeOK
  <2>3. p \subseteq Compared(W)
    BY <2>1, SeenTyped DEF RunsInv, BaseInv, RunInv, History, Knows, Compared
  <2>4. OnRecord(p)
    BY <2>1, <2>2, <2>3 DEF History, PairsOf
  <2> QED
    BY <2>4 DEF OnRecord, Mixed
<1> QED
  BY <1>1, RunsInvHolds, PTL

(* Between runs, a settled cluster is that of its documents among W.       *)
LEMMA SettledClusters ==
  ASSUME BaseInv, Routine, NEW W \in SUBSET Docs, History(W), step = "idle",
         whole = TRUE, cleanups = 0, OneKind, NEW d \in Settled, Component(d) \subseteq Settled
  PROVE  d \in W /\ Component(d) = ClusterAmong(d, W) /\ plan = NoPlan /\ Decided = Settled
<1>1. /\ Settled \subseteq W /\ d \in Docs /\ plan = NoPlan /\ matches \subseteq Pairs
  BY SeenTyped DEF BaseInv, RunInv, Tidy, Routine, History, Knows
<1>2. \A p \in Pairs : p \subseteq W => OnRecord(p)
  <2>1. Compared(W) = W
    BY KnownArePresent DEF Compared
  <2> QED
    BY <2>1 DEF History, PairsOf
<1>3. Component(d) = ClusterAmong(d, W)
  BY <1>1, <1>2, ClustersAgree DEF Routine
<1> QED
  BY <1>1, <1>3 DEF Decided, NoPlan

(* A run that is not interrupted leaves one canonical parent in a settled  *)
(* cluster, all others its children by mark and row, for any documents,    *)
(* pairs and batch sizes, and any number of full runs, runs without        *)
(* database writes, and resets.                                            *)
THEOREM OneParentPerCluster == Spec => []OneCanonicalParent
<1>1. RunsInv => OneCanonicalParent
  <2> SUFFICES ASSUME RunsInv, step = "idle", faults = 0, cleanups = 0, OneKind,
                      NEW d \in Settled, Component(d) \subseteq Settled
               PROVE  \E root \in Component(d) : Canonical(root, Component(d))
    BY DEF OneCanonicalParent
  <2>1. PICK W \in SUBSET Docs : History(W) /\ Outcome(W)
    BY DEF RunsInv
  <2>2. whole = TRUE
    BY DEF RunsInv, Routine
  <2>3. d \in W /\ Component(d) = ClusterAmong(d, W) /\ plan = NoPlan /\ Decided = Settled
    BY <2>1, <2>2, SettledClusters DEF RunsInv
  <2>4. PICK root \in Component(d) : WillBeCanonical(root, Component(d))
    BY <2>1, <2>3 DEF Outcome, AllCanonical
  <2> QED
    BY <2>3, <2>4 DEF WillBeCanonical, WillLead, Canonical, NoPlan
<1> QED
  BY <1>1, RunsInvHolds, PTL

(* After one interrupted run, full or not, or one reset, a cluster whose   *)
(* documents are all settled again has a canonical parent.                 *)
THEOREM OneFaultIsRepaired == Spec => []RetryRestoresParent
<1>1. RunsInv => RetryRestoresParent
  <2> SUFFICES ASSUME RunsInv, whole, cleanups = 0, faults + resets <= 1, OneKind,
                      step = "idle", NEW d \in Settled, Component(d) \subseteq Settled
               PROVE  \E e \in Component(d) : isParent[e] = "true"
    BY DEF RetryRestoresParent, ClusterKeepsParent
  <2>1. PICK W \in SUBSET Docs : History(W) /\ Outcome(W)
    BY DEF RunsInv
  <2>2. whole = TRUE
    BY DEF RunsInv, BaseInv, RunInv, TypeOK
  <2>3. d \in W /\ Component(d) = ClusterAmong(d, W) /\ plan = NoPlan /\ Decided = Settled
    BY <2>1, <2>2, SettledClusters DEF RunsInv
  <2>4. PICK root \in Component(d) : WillLead(root)
    BY <2>1, <2>3 DEF Outcome, SomeoneLeads
  <2> QED
    BY <2>3, <2>4 DEF WillLead, NoPlan
<1> QED
  BY <1>1, RunsInvHolds, PTL

===============================================================================
