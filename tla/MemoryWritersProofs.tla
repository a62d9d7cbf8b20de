------------------------ MODULE MemoryWritersProofs ------------------------
(***************************************************************************)
(* Proofs about MemoryWriters, for every number of writers of each kind,   *)
(* of memories, faults and crashes.                                        *)
(***************************************************************************)
EXTENDS MemoryWriters, FiniteSetTheorems, TLAPS

-----------------------------------------------------------------------------
(* Type correctness.                                                       *)

LEMMA InitTypeOK == Init => TypeOK
  <1> SUFFICES ASSUME Init PROVE TypeOK
    OBVIOUS
  <1> USE StoreAssumption, WritersAssumption
  <1>1. StoreTypeOK
    BY DEF Init, StoreInit, StoreTypeOK, FactsOfSaved, Memories, Facts, None, NoEntry, Operations
  <1>2. QED
    BY <1>1 DEF Init, TypeOK, Stages, Memories, Facts, None

\* What a writer remembers.
LocalsTypeOK ==
  /\ stage \in [Writers -> Stages]
  /\ target \in [Writers -> Memories \cup {None}]
  /\ draft \in [Writers -> SUBSET Facts]
  /\ seenBy \in [Writers -> Memories \cup {None}]
  /\ shown \in [Writers -> SUBSET Memories]
  /\ removals \in [Writers -> SUBSET Memories]
  /\ replacements \in [Writers -> SUBSET Memories]

\* What counts and remembers for the properties.
HistoryTypeOK ==
  /\ facts \in 0..MaxFacts
  /\ crashes \in 0..MaxCrashes
  /\ accepted \subseteq Facts
  /\ forgotten \subseteq Facts
  /\ outdated \subseteq Facts
  /\ shared \subseteq Memories

LEMMA TypeParts == TypeOK <=> StoreTypeOK /\ LocalsTypeOK /\ HistoryTypeOK
  BY DEF TypeOK, LocalsTypeOK, HistoryTypeOK

LEMMA FinishTypes ==
  ASSUME LocalsTypeOK, NEW w \in Writers, Finish(w) PROVE LocalsTypeOK'
  BY DEF LocalsTypeOK, Finish, GoTo, Stages, None

LEMMA ProceedTypes ==
  ASSUME LocalsTypeOK, NEW w \in Writers, NEW s \in Stages, Proceed(w, s)
  PROVE LocalsTypeOK'
  BY DEF LocalsTypeOK, Proceed, GoTo

\* The statements on the table, with their audit entry or without it, keep the
\* store well-typed.
LEMMA TableTypes ==
  ASSUME StoreTypeOK, UNCHANGED indexes, NEW m, NEW content \in SUBSET Facts,
         NEW n \in Memories \cup {None}, NEW operation \in Operations,
         \/ Audited(m, operation) \/ Unaudited,
         \/ InsertRow(m, content) \/ UpdateRow(m, content, n)
         \/ DeleteRow(m) \/ SupersedeRow(m, n) \/ UNCHANGED tables
  PROVE  StoreTypeOK'
  <1> USE StoreAssumption DEF StoreTypeOK, tables, indexes, Memories
  <1>1. /\ trail' \in [Memories -> SUBSET Operations]
        /\ faults' \in 0..MaxFaults
    BY DEF Audited, Unaudited, Fault
  <1>2. CASE InsertRow(m, content)
    BY <1>1, <1>2 DEF InsertRow
  <1>3. CASE UpdateRow(m, content, n)
    BY <1>1, <1>3 DEF UpdateRow, Live
  <1>4. CASE DeleteRow(m)
    BY <1>1, <1>4 DEF DeleteRow
  <1>5. CASE SupersedeRow(m, n)
    BY <1>1, <1>5 DEF SupersedeRow
  <1>6. CASE UNCHANGED tables
    BY <1>1, <1>6
  <1>7. QED
    BY <1>2, <1>3, <1>4, <1>5, <1>6

LEMMA MergeTypes ==
  ASSUME StoreTypeOK, UNCHANGED indexes, NEW M, NEW n \in Memories \cup {None},
         MergeRows(M, n)
  PROVE  StoreTypeOK'
  BY DEF StoreTypeOK, indexes, MergeRows, Operations

LEMMA IndexTypes ==
  ASSUME StoreTypeOK, UNCHANGED <<tables, trail>>, NEW m, NEW content \in SUBSET Facts,
         \/ PutVector(m, content) \/ PutVectorFails(m) \/ DropVector(m)
         \/ PutKeywords(m, content) \/ DropKeywords(m)
         \/ Fault /\ UNCHANGED indexes
         \/ UNCHANGED <<indexes, faults>>
  PROVE  StoreTypeOK'
  BY StoreAssumption DEF StoreTypeOK, tables, indexes, PutVector, PutVectorFails,
     DropVector, PutKeywords, DropKeywords, Fault, NoEntry

-----------------------------------------------------------------------------
LEMMA StoreStep ==
  ASSUME TypeOK, NEW w \in Writers, Step(w) PROVE StoreTypeOK'
  <1> USE TypeParts, TableTypes, IndexTypes, MergeTypes DEF LocalsTypeOK, store, Operations
  <1>1. CASE StartSave(w)
    BY <1>1 DEF StartSave
  <1>2. CASE Insert(w)
    BY <1>2 DEF Insert, None, Memories, StoreTypeOK
  <1>3. CASE InsertFails(w)
    BY <1>3 DEF InsertFails, NothingDone
  <1>4. CASE SaveVector(w)
    BY <1>4 DEF SaveVector
  <1>5. CASE Rollback(w)
    BY <1>5 DEF Rollback
  <1>6. CASE IndexText(w)
    BY <1>6 DEF IndexText
  <1>7. CASE ReadForEdit(w)
    BY <1>7 DEF ReadForEdit
  <1>8. CASE WriteEdit(w)
    BY <1>8 DEF WriteEdit
  <1>9. CASE WriteEditFails(w)
    BY <1>9 DEF WriteEditFails, NothingDone
  <1>10. CASE Reembed(w)
    BY <1>10 DEF Reembed
  <1>11. CASE Forget(w)
    BY <1>11 DEF Forget
  <1>12. CASE RemoveVector(w)
    BY <1>12 DEF RemoveVector
  <1>13. CASE RemoveText(w)
    BY <1>13 DEF RemoveText
  <1>14. CASE Recall(w)
    BY <1>14 DEF Recall
  <1>15. CASE Decide(w)
    BY <1>15 DEF Decide
  <1>16. CASE RemoveNext(w)
    BY <1>16 DEF RemoveNext
  <1>17. CASE ReplaceNext(w)
    BY <1>17 DEF ReplaceNext
  <1>18. CASE DecisionFails(w)
    BY <1>18 DEF DecisionFails, NothingDone
  <1>19. CASE Snapshot(w)
    BY <1>19 DEF Snapshot
  <1>20. CASE Retire(w)
    BY <1>20 DEF Retire
  <1>21. QED
    BY <1>1, <1>2, <1>3, <1>4, <1>5, <1>6, <1>7, <1>8, <1>9, <1>10, <1>11, <1>12,
       <1>13, <1>14, <1>15, <1>16, <1>17, <1>18, <1>19, <1>20 DEF Step

LEMMA LocalsStep ==
  ASSUME TypeOK, NEW w \in Writers, Step(w) PROVE LocalsTypeOK'
  <1>0. LocalsTypeOK
    BY TypeParts
  <1> USE <1>0, FinishTypes, ProceedTypes DEF locals, Stages
  <1>1. CASE StartSave(w)
    BY <1>1 DEF StartSave, LocalsTypeOK, GoTo, FreshFact
  <1>2. CASE Insert(w)
    BY <1>2 DEF Insert, LocalsTypeOK, GoTo, InsertRow
  <1>3. CASE InsertFails(w)
    BY <1>3 DEF InsertFails
  <1>4. CASE SaveVector(w)
    BY <1>4 DEF SaveVector
  <1>5. CASE Rollback(w)
    BY <1>5 DEF Rollback
  <1>6. CASE IndexText(w)
    BY <1>6 DEF IndexText
  <1>7. CASE ReadForEdit(w)
    BY SMTT(20), <1>7 DEF ReadForEdit, LocalsTypeOK, GoTo, Live, FreshFact, None, StoreTypeOK, TypeOK
  <1>8. CASE WriteEdit(w)
    BY <1>8 DEF WriteEdit
  <1>9. CASE WriteEditFails(w)
    BY <1>9 DEF WriteEditFails
  <1>10. CASE Reembed(w)
    BY <1>10 DEF Reembed
  <1>11. CASE Forget(w)
    <2>1. PICK m \in 1..created :
            \/ /\ GoTo(w, "unvector")
               /\ target' = [target EXCEPT ![w] = m]
               /\ UNCHANGED <<draft, seenBy, shown, removals, replacements>>
            \/ UNCHANGED locals
      BY <1>11 DEF Forget
    <2>2. m \in Memories
      BY StoreAssumption DEF TypeOK, StoreTypeOK, Memories
    <2>3. QED
      BY <2>1, <2>2 DEF LocalsTypeOK, GoTo
  <1>12. CASE RemoveVector(w)
    BY <1>12 DEF RemoveVector
  <1>13. CASE RemoveText(w)
    BY <1>13 DEF RemoveText
  <1>14. CASE Recall(w)
    BY <1>14 DEF Recall, LocalsTypeOK, GoTo, Visible, Live
  <1>15. CASE Decide(w)
    BY <1>15 DEF Decide, LocalsTypeOK, GoTo
  <1>16. CASE RemoveNext(w)
    BY <1>16 DEF RemoveNext, LocalsTypeOK, GoTo
  <1>17. CASE ReplaceNext(w)
    BY <1>17 DEF ReplaceNext, LocalsTypeOK, GoTo
  <1>18. CASE DecisionFails(w)
    BY <1>18 DEF DecisionFails
  <1>19. CASE Snapshot(w)
    BY <1>19 DEF Snapshot, LocalsTypeOK, GoTo, StoreTypeOK, TypeOK, Visible, Live
  <1>20. CASE Retire(w)
    BY <1>20 DEF Retire
  <1>21. QED
    BY <1>1, <1>2, <1>3, <1>4, <1>5, <1>6, <1>7, <1>8, <1>9, <1>10, <1>11, <1>12,
       <1>13, <1>14, <1>15, <1>16, <1>17, <1>18, <1>19, <1>20 DEF Step

LEMMA HistoryStep ==
  ASSUME TypeOK, NEW w \in Writers, Step(w) PROVE HistoryTypeOK'
  <1> USE StoreAssumption DEF TypeOK, StoreTypeOK, HistoryTypeOK, history
  <1>1. CASE StartSave(w)
    BY <1>1 DEF StartSave, FreshFact, Facts
  <1>2. CASE Insert(w)
    BY <1>2 DEF Insert
  <1>3. CASE InsertFails(w)
    BY <1>3 DEF InsertFails
  <1>4. CASE SaveVector(w)
    BY <1>4 DEF SaveVector
  <1>5. CASE Rollback(w)
    BY <1>5 DEF Rollback
  <1>6. CASE IndexText(w)
    BY <1>6 DEF IndexText
  <1>7. CASE ReadForEdit(w)
    BY <1>7 DEF ReadForEdit, FreshFact, Facts, Touch, Live
  <1>8. CASE WriteEdit(w)
    BY <1>8 DEF WriteEdit, UpdateRow, Live
  <1>9. CASE WriteEditFails(w)
    BY <1>9 DEF WriteEditFails
  <1>10. CASE Reembed(w)
    BY <1>10 DEF Reembed
  <1>11. CASE Forget(w)
    BY <1>11 DEF Forget, Forgetting, Touch, Visible, Live, Memories
  <1>12. CASE RemoveVector(w)
    BY <1>12 DEF RemoveVector
  <1>13. CASE RemoveText(w)
    BY <1>13 DEF RemoveText
  <1>14. CASE Recall(w)
    BY <1>14 DEF Recall, FreshFact, Facts
  <1>15. CASE Decide(w)
    BY <1>15 DEF Decide
  <1>16. CASE RemoveNext(w)
    BY <1>16 DEF RemoveNext, Forgetting, Touch, DeleteRow, Visible, Live
  <1>17. CASE ReplaceNext(w)
    BY <1>17 DEF ReplaceNext, SupersedeRow, Live
  <1>18. CASE DecisionFails(w)
    BY <1>18 DEF DecisionFails
  <1>19. CASE Snapshot(w)
    BY <1>19 DEF Snapshot
  <1>20. CASE Retire(w)
    BY <1>20 DEF Retire
  <1>21. QED
    BY <1>1, <1>2, <1>3, <1>4, <1>5, <1>6, <1>7, <1>8, <1>9, <1>10, <1>11, <1>12,
       <1>13, <1>14, <1>15, <1>16, <1>17, <1>18, <1>19, <1>20 DEF Step

LEMMA StepTypes == TypeOK /\ [Next]_vars => TypeOK'
  <1> SUFFICES ASSUME TypeOK, [Next]_vars PROVE TypeOK'
    OBVIOUS
  <1>1. ASSUME NEW w \in Writers, Step(w) PROVE TypeOK'
    <2>1. StoreTypeOK'
      BY <1>1, StoreStep
    <2>2. LocalsTypeOK'
      BY <1>1, LocalsStep
    <2>3. HistoryTypeOK'
      BY <1>1, HistoryStep
    <2>4. QED
      BY <2>1, <2>2, <2>3 DEF TypeOK, LocalsTypeOK, HistoryTypeOK
  <1>2. CASE Crash
    BY <1>2, WritersAssumption DEF Crash, TypeOK, StoreTypeOK, store, tables, indexes, history, Stages, None
  <1>3. CASE UNCHANGED vars
    BY <1>3 DEF vars, TypeOK, StoreTypeOK, store, tables, indexes, locals, history
  <1>4. QED
    BY <1>1, <1>2, <1>3 DEF Next

\* The type invariant holds for any number of writers, rows, faults and crashes.
THEOREM TypeCorrect == Spec => []TypeOK
  <1>1. Init => TypeOK
    BY InitTypeOK
  <1>2. TypeOK /\ [Next]_vars => TypeOK'
    BY StepTypes
  <1>3. QED
    BY <1>1, <1>2, PTL DEF Spec

-----------------------------------------------------------------------------
(* Deleted rows.                                                           *)

\* What a step may do to a row that is deleted: nothing.
DeletedKept ==
  \A m \in Memories : state[m] = "deleted" =>
    state'[m] = "deleted" /\ body'[m] = body[m] /\ replacedBy'[m] = replacedBy[m]

LEMMA DeletedKeptByStep ==
  ASSUME TypeOK, NEW w \in Writers, Step(w) PROVE DeletedKept
  <1> USE DEF TypeOK, StoreTypeOK, DeletedKept, store, tables
  <1>1. CASE StartSave(w)
    BY <1>1 DEF StartSave
  <1>2. CASE Insert(w)
    BY <1>2 DEF Insert, InsertRow
  <1>3. CASE InsertFails(w)
    BY <1>3 DEF InsertFails, NothingDone
  <1>4. CASE SaveVector(w)
    BY <1>4 DEF SaveVector
  <1>5. CASE Rollback(w)
    BY <1>5 DEF Rollback, DeleteRow
  <1>6. CASE IndexText(w)
    BY <1>6 DEF IndexText
  <1>7. CASE ReadForEdit(w)
    BY <1>7 DEF ReadForEdit
  <1>8. CASE WriteEdit(w)
    BY <1>8 DEF WriteEdit, UpdateRow, Live
  <1>9. CASE WriteEditFails(w)
    BY <1>9 DEF WriteEditFails, NothingDone
  <1>10. CASE Reembed(w)
    BY <1>10 DEF Reembed
  <1>11. CASE Forget(w)
    BY <1>11 DEF Forget, DeleteRow
  <1>12. CASE RemoveVector(w)
    BY <1>12 DEF RemoveVector
  <1>13. CASE RemoveText(w)
    BY <1>13 DEF RemoveText
  <1>14. CASE Recall(w)
    BY <1>14 DEF Recall
  <1>15. CASE Decide(w)
    BY <1>15 DEF Decide
  <1>16. CASE RemoveNext(w)
    BY <1>16 DEF RemoveNext, DeleteRow
  <1>17. CASE ReplaceNext(w)
    BY <1>17 DEF ReplaceNext, SupersedeRow, Live
  <1>18. CASE DecisionFails(w)
    BY <1>18 DEF DecisionFails, NothingDone
  <1>19. CASE Snapshot(w)
    BY <1>19 DEF Snapshot
  <1>20. CASE Retire(w)
    BY <1>20 DEF Retire, MergeRows, Visible, Live
  <1>21. QED
    BY <1>1, <1>2, <1>3, <1>4, <1>5, <1>6, <1>7, <1>8, <1>9, <1>10, <1>11, <1>12,
       <1>13, <1>14, <1>15, <1>16, <1>17, <1>18, <1>19, <1>20 DEF Step

\* Nothing any mix of writers does, with whatever it read before, changes a
\* row that was deleted.
THEOREM DeletedStaysDeleted == Spec => DeletedIsFinal
  <1>1. TypeOK /\ [Next]_vars => [DeletedKept]_vars
    <2> SUFFICES ASSUME TypeOK, Next PROVE DeletedKept
      OBVIOUS
    <2>1. CASE Crash
      BY <2>1 DEF Crash, DeletedKept, store, tables
    <2>2. QED
      BY <2>1, DeletedKeptByStep DEF Next
  <1>2. QED
    BY <1>1, TypeCorrect, PTL DEF Spec, DeletedIsFinal, DeletedKept

-----------------------------------------------------------------------------
(* Pointers to replacements.                                               *)

\* What a writer holds are rows; what it read of superseded_by is sound.
WritersKnowRows ==
  \A w \in Writers :
    /\ target[w] <= created
    /\ seenBy[w] # None => target[w] < seenBy[w] /\ seenBy[w] <= created
    /\ \A m \in shown[w] \cup removals[w] \cup replacements[w] : m <= created

\* Which kind of writer is at which stage.
StagesByKind ==
  \A w \in Writers :
    /\ stage[w] \in {"insert", "vector", "rollback"} => w \in Savers \cup Pipelines \cup Mergers
    /\ stage[w] = "text" => w \in Savers \cup Editors \cup Pipelines \cup Mergers
    /\ stage[w] \in {"rewrite", "relabel", "reembed"} => w \in Editors
    /\ stage[w] \in {"unvector", "untext"} => w \in Forgetters \cup Pipelines
    /\ stage[w] \in {"deciding", "removing", "replacing"} => w \in Pipelines
    /\ stage[w] = "retiring" => w \in Mergers
    /\ seenBy[w] # None => w \in Editors

\* Once a writer has saved its replacement, that is newer than all it replaces.
TargetsAreNewer ==
  \A w \in Writers \ Editors :
    stage[w] \in {"vector", "rollback", "text", "replacing", "retiring"} =>
      \A m \in shown[w] \cup replacements[w] : m < target[w]

PointerInv ==
  /\ TypeOK
  /\ ReplacementsAreNewer
  /\ WritersKnowRows
  /\ StagesByKind
  /\ TargetsAreNewer

LEMMA KindsStep ==
  ASSUME TypeOK, StagesByKind, NEW w \in Writers, Step(w) PROVE StagesByKind'
  <1> USE DEF TypeOK, StagesByKind, GoTo, Proceed, Finish, locals, None
  <1>1. CASE StartSave(w)
    BY <1>1 DEF StartSave
  <1>2. CASE Insert(w)
    BY <1>2 DEF Insert
  <1>3. CASE InsertFails(w)
    BY <1>3 DEF InsertFails
  <1>4. CASE SaveVector(w)
    BY <1>4 DEF SaveVector
  <1>5. CASE Rollback(w)
    BY <1>5 DEF Rollback
  <1>6. CASE IndexText(w)
    BY <1>6 DEF IndexText
  <1>7. CASE ReadForEdit(w)
    BY <1>7 DEF ReadForEdit
  <1>8. CASE WriteEdit(w)
    BY <1>8 DEF WriteEdit
  <1>9. CASE WriteEditFails(w)
    BY <1>9 DEF WriteEditFails
  <1>10. CASE Reembed(w)
    BY <1>10 DEF Reembed
  <1>11. CASE Forget(w)
    BY <1>11 DEF Forget
  <1>12. CASE RemoveVector(w)
    BY <1>12 DEF RemoveVector
  <1>13. CASE RemoveText(w)
    BY <1>13 DEF RemoveText
  <1>14. CASE Recall(w)
    BY <1>14 DEF Recall
  <1>15. CASE Decide(w)
    BY <1>15 DEF Decide
  <1>16. CASE RemoveNext(w)
    BY <1>16 DEF RemoveNext
  <1>17. CASE ReplaceNext(w)
    BY <1>17 DEF ReplaceNext
  <1>18. CASE DecisionFails(w)
    BY <1>18 DEF DecisionFails
  <1>19. CASE Snapshot(w)
    BY <1>19 DEF Snapshot
  <1>20. CASE Retire(w)
    BY <1>20 DEF Retire
  <1>21. QED
    BY <1>1, <1>2, <1>3, <1>4, <1>5, <1>6, <1>7, <1>8, <1>9, <1>10, <1>11, <1>12,
       <1>13, <1>14, <1>15, <1>16, <1>17, <1>18, <1>19, <1>20 DEF Step

LEMMA RowsOnlyGrow ==
  ASSUME TypeOK, NEW w \in Writers, Step(w)
  PROVE  created' \in Nat /\ created' <= MaxMemories /\ created <= created'
  <1> USE StoreAssumption DEF TypeOK, StoreTypeOK, store, tables
  <1>1. CASE StartSave(w)
    BY <1>1 DEF StartSave
  <1>2. CASE Insert(w)
    BY <1>2 DEF Insert, InsertRow, Memories
  <1>3. CASE InsertFails(w)
    BY <1>3 DEF InsertFails, NothingDone
  <1>4. CASE SaveVector(w)
    BY <1>4 DEF SaveVector
  <1>5. CASE Rollback(w)
    BY <1>5 DEF Rollback, DeleteRow
  <1>6. CASE IndexText(w)
    BY <1>6 DEF IndexText
  <1>7. CASE ReadForEdit(w)
    BY <1>7 DEF ReadForEdit
  <1>8. CASE WriteEdit(w)
    BY <1>8 DEF WriteEdit, UpdateRow
  <1>9. CASE WriteEditFails(w)
    BY <1>9 DEF WriteEditFails, NothingDone
  <1>10. CASE Reembed(w)
    BY <1>10 DEF Reembed
  <1>11. CASE Forget(w)
    BY <1>11 DEF Forget, DeleteRow
  <1>12. CASE RemoveVector(w)
    BY <1>12 DEF RemoveVector
  <1>13. CASE RemoveText(w)
    BY <1>13 DEF RemoveText
  <1>14. CASE Recall(w)
    BY <1>14 DEF Recall
  <1>15. CASE Decide(w)
    BY <1>15 DEF Decide
  <1>16. CASE RemoveNext(w)
    BY <1>16 DEF RemoveNext, DeleteRow
  <1>17. CASE ReplaceNext(w)
    BY <1>17 DEF ReplaceNext, SupersedeRow
  <1>18. CASE DecisionFails(w)
    BY <1>18 DEF DecisionFails, NothingDone
  <1>19. CASE Snapshot(w)
    BY <1>19 DEF Snapshot
  <1>20. CASE Retire(w)
    BY <1>20 DEF Retire, MergeRows
  <1>21. QED
    BY <1>1, <1>2, <1>3, <1>4, <1>5, <1>6, <1>7, <1>8, <1>9, <1>10, <1>11, <1>12,
       <1>13, <1>14, <1>15, <1>16, <1>17, <1>18, <1>19, <1>20 DEF Step

LEMMA ReplacementsStep ==
  ASSUME PointerInv, NEW w \in Writers, Step(w) PROVE ReplacementsAreNewer'
  <1>0. created' \in Nat /\ created' <= MaxMemories /\ created <= created'
    BY RowsOnlyGrow DEF PointerInv
  <1> USE <1>0 DEF PointerInv, TypeOK, StoreTypeOK, ReplacementsAreNewer, store, tables, None, Memories
  <1>1. CASE StartSave(w)
    BY <1>1 DEF StartSave
  <1>2. CASE Insert(w)
    BY <1>2 DEF Insert, InsertRow
  <1>3. CASE InsertFails(w)
    BY <1>3 DEF InsertFails, NothingDone
  <1>4. CASE SaveVector(w)
    BY <1>4 DEF SaveVector
  <1>5. CASE Rollback(w)
    BY <1>5 DEF Rollback, DeleteRow
  <1>6. CASE IndexText(w)
    BY <1>6 DEF IndexText
  <1>7. CASE ReadForEdit(w)
    BY <1>7 DEF ReadForEdit
  <1>8. CASE WriteEdit(w)
    BY <1>8 DEF WriteEdit, UpdateRow, Live, WritersKnowRows
  <1>9. CASE WriteEditFails(w)
    BY <1>9 DEF WriteEditFails, NothingDone
  <1>10. CASE Reembed(w)
    BY <1>10 DEF Reembed
  <1>11. CASE Forget(w)
    BY <1>11 DEF Forget, DeleteRow
  <1>12. CASE RemoveVector(w)
    BY <1>12 DEF RemoveVector
  <1>13. CASE RemoveText(w)
    BY <1>13 DEF RemoveText
  <1>14. CASE Recall(w)
    BY <1>14 DEF Recall
  <1>15. CASE Decide(w)
    BY <1>15 DEF Decide
  <1>16. CASE RemoveNext(w)
    BY <1>16 DEF RemoveNext, DeleteRow
  <1>17. CASE ReplaceNext(w)
    <2>1. PICK m \in replacements[w] : m \in Live /\ replacedBy' = [replacedBy EXCEPT ![m] = target[w]]
      BY <1>17 DEF ReplaceNext, SupersedeRow
    <2>2. w \in Writers \ Editors
      BY <1>17, WritersAssumption DEF ReplaceNext, StagesByKind
    <2>3. m < target[w] /\ target[w] <= created
      BY <1>17, <2>2 DEF ReplaceNext, TargetsAreNewer, WritersKnowRows
    <2>4. QED
      BY <2>1, <2>3 DEF Live
  <1>18. CASE DecisionFails(w)
    BY <1>18 DEF DecisionFails, NothingDone
  <1>19. CASE Snapshot(w)
    BY <1>19 DEF Snapshot
  <1>20. CASE Retire(w)
    <2>1. CASE MergeRows(shown[w], target[w])
      <3>1. w \in Writers \ Editors
        BY <1>20, WritersAssumption DEF Retire, StagesByKind, PointerInv
      <3>2. \A m \in shown[w] : m < target[w] /\ target[w] <= created
        BY <1>20, <3>1 DEF Retire, TargetsAreNewer, WritersKnowRows
      <3>3. QED
        BY <2>1, <3>2 DEF MergeRows
    <2>2. CASE UNCHANGED tables
      BY <2>2
    <2>3. QED
      BY <1>20, <2>1, <2>2 DEF Retire
  <1>21. QED
    BY <1>1, <1>2, <1>3, <1>4, <1>5, <1>6, <1>7, <1>8, <1>9, <1>10, <1>11, <1>12,
       <1>13, <1>14, <1>15, <1>16, <1>17, <1>18, <1>19, <1>20 DEF Step

\* A writer that stops, or goes on with what it has, still knows its rows.
LEMMA FinishKnows ==
  ASSUME PointerInv, NEW w \in Writers, Finish(w), created' \in Nat, created <= created'
  PROVE  WritersKnowRows' /\ TargetsAreNewer'
  <1>1. LocalsTypeOK /\ created \in Nat /\ WritersKnowRows /\ TargetsAreNewer
    BY StoreAssumption DEF PointerInv, TypeOK, StoreTypeOK, LocalsTypeOK
  <1>2. \A v \in Writers \ {w} : /\ stage'[v] = stage[v] /\ target'[v] = target[v]
                               /\ seenBy'[v] = seenBy[v] /\ shown'[v] = shown[v]
                               /\ removals'[v] = removals[v]
                               /\ replacements'[v] = replacements[v]
    BY <1>1 DEF Finish, GoTo, LocalsTypeOK
  <1>3. /\ target'[w] = None /\ seenBy'[w] = None /\ shown'[w] = {}
        /\ removals'[w] = {} /\ replacements'[w] = {}
    BY <1>1 DEF Finish, GoTo, LocalsTypeOK
  <1>4. WritersKnowRows'
    BY <1>1, <1>2, <1>3 DEF WritersKnowRows, LocalsTypeOK, None, Memories
  <1>5. TargetsAreNewer'
    BY <1>1, <1>2, <1>3 DEF TargetsAreNewer
  <1>6. QED
    BY <1>4, <1>5

LEMMA ProceedKnows ==
  ASSUME PointerInv, NEW w \in Writers, NEW s, Proceed(w, s), created' \in Nat, created <= created',
         s \in {"vector", "rollback", "text", "replacing", "retiring"} =>
           \/ stage[w] \in {"vector", "rollback", "text", "replacing", "retiring"}
           \/ w \in Editors
  PROVE  WritersKnowRows' /\ TargetsAreNewer'
  <1>1. LocalsTypeOK /\ created \in Nat /\ WritersKnowRows /\ TargetsAreNewer
    BY StoreAssumption DEF PointerInv, TypeOK, StoreTypeOK, LocalsTypeOK
  <1>2. WritersKnowRows'
    BY <1>1 DEF WritersKnowRows, LocalsTypeOK, Proceed, None, Memories
  <1>3. TargetsAreNewer'
    BY <1>1 DEF TargetsAreNewer, LocalsTypeOK, Proceed, GoTo
  <1>4. QED
    BY <1>2, <1>3

LEMMA WritersStep ==
  ASSUME PointerInv, NEW w \in Writers, Step(w) PROVE WritersKnowRows' /\ TargetsAreNewer'
  <1>0. created' \in Nat /\ created' <= MaxMemories /\ created <= created'
    BY RowsOnlyGrow DEF PointerInv
  <1>a. TypeOK /\ StoreTypeOK /\ WritersKnowRows /\ TargetsAreNewer /\ StagesByKind
    BY DEF PointerInv, TypeOK
  <1>b. LocalsTypeOK
    BY <1>a DEF TypeOK, LocalsTypeOK
  <1>c. created \in Nat
    BY <1>a, StoreAssumption DEF StoreTypeOK
  \* The steps that only move on or stop.
  <1>1. ASSUME Finish(w) PROVE WritersKnowRows' /\ TargetsAreNewer'
    BY <1>0, <1>1, FinishKnows
  <1>2. ASSUME NEW s, Proceed(w, s), 
               s \in {"vector", "rollback", "text", "replacing", "retiring"} =>
                 \/ stage[w] \in {"vector", "rollback", "text", "replacing", "retiring"}
                 \/ w \in Editors
        PROVE WritersKnowRows' /\ TargetsAreNewer'
    BY <1>0, <1>2, ProceedKnows
  \* The steps that change what the writer holds, but not its target.
  <1>3. ASSUME UNCHANGED <<target, seenBy>>,
               shown' \in [Writers -> SUBSET Memories],
               removals' \in [Writers -> SUBSET Memories],
               replacements' \in [Writers -> SUBSET Memories],
               stage' \in [Writers -> Stages],
               \A v \in Writers \ {w} : /\ stage'[v] = stage[v] /\ shown'[v] = shown[v]
                                       /\ removals'[v] = removals[v]
                                       /\ replacements'[v] = replacements[v],
               \A m \in shown'[w] \cup removals'[w] \cup replacements'[w] : m <= created,
               \/ stage'[w] \notin {"vector", "rollback", "text", "replacing", "retiring"}
               \/ /\ stage[w] = stage'[w]
                  /\ shown'[w] \subseteq shown[w] /\ replacements'[w] \subseteq replacements[w]
        PROVE WritersKnowRows' /\ TargetsAreNewer'
    BY <1>0, <1>3, <1>a, <1>b, <1>c DEF LocalsTypeOK, WritersKnowRows, TargetsAreNewer, None, Memories
  \* The steps that turn to another row.
  <1>4. ASSUME NEW m \in Memories, m <= created', seenBy[w] = None,
               NEW s \in Stages, GoTo(w, s), target' = [target EXCEPT ![w] = m],
               UNCHANGED <<seenBy, shown, replacements>>,
               removals' \in [Writers -> SUBSET Memories],
               \A v \in Writers : removals'[v] \subseteq removals[v],
               s \in {"vector", "rollback", "text", "replacing", "retiring"} => created < m
        PROVE WritersKnowRows' /\ TargetsAreNewer'
    BY <1>0, <1>4, <1>a, <1>b, <1>c DEF LocalsTypeOK, WritersKnowRows, TargetsAreNewer, None, Memories, GoTo
  <1>5. w \notin Editors => seenBy[w] = None
    BY <1>a DEF StagesByKind
  <1>6. Editors \cap (Savers \cup Forgetters \cup Pipelines \cup Mergers) = {}
    BY WritersAssumption
  <1>7. CASE StartSave(w)
    <2>1. UNCHANGED <<target, seenBy, shown, removals, replacements>>
      BY <1>7 DEF StartSave
    <2>2. stage' = [stage EXCEPT ![w] = "insert"]
      BY <1>7 DEF StartSave, GoTo
    <2>3. stage' \in [Writers -> Stages]
      BY <2>2, <1>b DEF LocalsTypeOK, Stages
    <2>4. stage'[w] = "insert" /\ \A v \in Writers \ {w} : stage'[v] = stage[v]
      BY <2>2, <1>b DEF LocalsTypeOK
    <2>5. \A m \in shown[w] \cup removals[w] \cup replacements[w] : m <= created
      BY <1>a DEF WritersKnowRows
    <2>6. QED
      BY <1>3, <2>1, <2>3, <2>4, <2>5, <1>b DEF LocalsTypeOK
  <1>8. CASE Insert(w)
    <2>1. CASE Finish(w)
      BY <2>1, <1>1
    <2>2. CASE ~Finish(w)
      <3>1. PICK m \in Memories : InsertRow(m, draft[w]) /\ target' = [target EXCEPT ![w] = m]
        BY <1>8, <2>2 DEF Insert
      <3>2. /\ GoTo(w, "vector")
            /\ UNCHANGED <<draft, seenBy, shown, removals, replacements>>
            /\ w \notin Editors
        BY <1>8, <1>a, <1>6, <2>2 DEF Insert, StagesByKind
      <3>3. m <= created' /\ created < m
        BY <3>1, <1>c DEF InsertRow, Memories
      <3>4. QED
        BY <3>1, <3>2, <3>3, <1>4, <1>5, <1>b DEF Stages, LocalsTypeOK
    <2>3. QED
      BY <2>1, <2>2
  <1>9. CASE ReadForEdit(w)
    <2>1. PICK m \in Live : target' = [target EXCEPT ![w] = m] /\ seenBy' = [seenBy EXCEPT ![w] = replacedBy[m]]
      BY <1>9 DEF ReadForEdit
    <2>2. \E s \in {"rewrite", "relabel"} : stage' = [stage EXCEPT ![w] = s]
      BY <1>9 DEF ReadForEdit, GoTo
    <2>3. UNCHANGED <<shown, removals, replacements, created>> /\ w \in Editors
      BY <1>9 DEF ReadForEdit, store, tables
    <2>4. m \in Memories /\ m <= created
      BY <1>a, <1>c DEF Live, StoreTypeOK, Memories
    <2>5. replacedBy[m] # None => m < replacedBy[m] /\ replacedBy[m] <= created
      BY <2>4 DEF PointerInv, ReplacementsAreNewer
    <2>6. WritersKnowRows'
      BY <2>1, <2>3, <2>4, <2>5, <1>a, <1>b DEF LocalsTypeOK, WritersKnowRows
    <2>7. TargetsAreNewer'
      BY <2>1, <2>2, <2>3, <1>a, <1>b DEF LocalsTypeOK, TargetsAreNewer
    <2>8. QED
      BY <2>6, <2>7
  <1>10. CASE Forget(w)
    <2>1. PICK m \in 1..created :
            \/ GoTo(w, "unvector") /\ target' = [target EXCEPT ![w] = m]
               /\ UNCHANGED <<draft, seenBy, shown, removals, replacements>>
            \/ UNCHANGED locals
      BY <1>10 DEF Forget
    <2>2. m \in Memories /\ m <= created'
      BY <1>0, <1>a, <1>c, StoreAssumption DEF StoreTypeOK, Memories
    <2>3. w \notin Editors
      BY <1>10, <1>6 DEF Forget
    <2>4. CASE UNCHANGED locals
      BY <2>4, <1>0, <1>a, <1>c DEF WritersKnowRows, TargetsAreNewer, locals, LocalsTypeOK, TypeOK, None, Memories
    <2>5. QED
      BY <2>1, <2>2, <2>3, <2>4, <1>4, <1>5, <1>b DEF Stages, LocalsTypeOK
  <1>11. CASE Recall(w)
    <2>1. PICK N \in SUBSET Visible : shown' = [shown EXCEPT ![w] = N]
      BY <1>11 DEF Recall
    <2>2. N \in SUBSET Memories /\ \A m \in N : m <= created
      BY <1>a, <1>c DEF Visible, Live, StoreTypeOK, Memories
    <2>3. \E s \in {"insert", "deciding"} : stage' = [stage EXCEPT ![w] = s]
      BY <1>11 DEF Recall, GoTo
    <2>4. UNCHANGED <<target, seenBy, removals, replacements>>
      BY <1>11 DEF Recall
    <2>5. \A m \in N \cup removals[w] \cup replacements[w] : m <= created
      BY <2>2, <1>a DEF WritersKnowRows
    <2>6. QED
      BY <2>1, <2>2, <2>3, <2>4, <2>5, <1>3, <1>b DEF LocalsTypeOK, Stages
  <1>12. CASE Decide(w)
    <2>1. PICK D, U \in SUBSET shown[w] : /\ removals' = [removals EXCEPT ![w] = D]
                                         /\ replacements' = [replacements EXCEPT ![w] = U]
      BY <1>12 DEF Decide
    <2>2. \E s \in {"removing", "insert", "idle"} : stage' = [stage EXCEPT ![w] = s]
      BY <1>12 DEF Decide, GoTo
    <2>3. shown' = [shown EXCEPT ![w] = {}] /\ UNCHANGED <<target, seenBy>>
      BY <1>12 DEF Decide
    <2>4. \A m \in D \cup U : m <= created
      BY <2>1, <1>a DEF WritersKnowRows
    <2>5. QED
      BY <2>1, <2>2, <2>3, <2>4, <1>3, <1>b DEF LocalsTypeOK, Stages
  <1>13. CASE RemoveNext(w)
    <2>1. CASE Finish(w)
      BY <2>1, <1>1
    <2>2. CASE ~Finish(w)
      <3>1. PICK m \in removals[w] : target' = [target EXCEPT ![w] = m]
                                    /\ removals' = [removals EXCEPT ![w] = @ \ {m}]
        BY <1>13, <2>2 DEF RemoveNext
      <3>2. GoTo(w, "unvector") /\ UNCHANGED <<seenBy, shown, replacements>> /\ w \notin Editors
        BY <1>13, <2>2, <1>6, <1>a DEF RemoveNext, StagesByKind
      <3>3. m \in Memories /\ m <= created'
        BY <1>0, <1>a, <1>b, <1>c DEF WritersKnowRows, LocalsTypeOK, Memories
      <3>4. QED
        BY <3>1, <3>2, <3>3, <1>4, <1>5, <1>b DEF Stages, LocalsTypeOK
    <2>3. QED
      BY <2>1, <2>2
  <1>14. CASE ReplaceNext(w)
    <2>1. CASE Finish(w)
      BY <2>1, <1>1
    <2>2. CASE ~Finish(w)
      <3>1. \E m \in replacements[w] : replacements' = [replacements EXCEPT ![w] = @ \ {m}]
        BY <1>14, <2>2 DEF ReplaceNext
      <3>2. UNCHANGED <<stage, target, seenBy, shown, removals>>
        BY <1>14, <2>2 DEF ReplaceNext
      <3>3. \A m \in shown[w] \cup removals[w] \cup replacements[w] : m <= created
        BY <1>a DEF WritersKnowRows
      <3>4. QED
        BY <3>1, <3>2, <3>3, <1>3, <1>b DEF LocalsTypeOK
    <2>3. QED
      BY <2>1, <2>2
  <1>15. CASE Snapshot(w)
    <2>1. PICK C \in SUBSET Visible : shown' = [shown EXCEPT ![w] = C]
      BY <1>15 DEF Snapshot
    <2>2. C \in SUBSET Memories /\ \A m \in C : m <= created
      BY <1>a, <1>c DEF Visible, Live, StoreTypeOK, Memories
    <2>3. stage' = [stage EXCEPT ![w] = "insert"] /\ UNCHANGED <<target, seenBy, removals, replacements>>
      BY <1>15 DEF Snapshot, GoTo
    <2>4. \A m \in C \cup removals[w] \cup replacements[w] : m <= created
      BY <2>2, <1>a DEF WritersKnowRows
    <2>5. QED
      BY <2>1, <2>2, <2>3, <2>4, <1>3, <1>b DEF LocalsTypeOK, Stages
  <1>16. CASE WriteEdit(w) \/ Reembed(w)
    BY <1>16, <1>1, <1>2, <1>a DEF WriteEdit, Reembed, StagesByKind
  <1>17. CASE SaveVector(w) \/ Rollback(w) \/ IndexText(w)
    BY <1>17, <1>1, <1>2 DEF SaveVector, Rollback, IndexText
  <1>18. CASE RemoveVector(w) \/ RemoveText(w)
    BY <1>18, <1>1, <1>2 DEF RemoveVector, RemoveText
  <1>19. CASE InsertFails(w) \/ WriteEditFails(w) \/ DecisionFails(w) \/ Retire(w)
    BY <1>19, <1>1 DEF InsertFails, WriteEditFails, DecisionFails, Retire
  <1>20. QED
    BY <1>7, <1>8, <1>9, <1>10, <1>11, <1>12, <1>13, <1>14, <1>15, <1>16, <1>17, <1>18, <1>19 DEF Step

LEMMA PointerInvInit == Init => PointerInv
  <1> SUFFICES ASSUME Init PROVE PointerInv
    OBVIOUS
  <1>1. TypeOK
    BY InitTypeOK
  <1>2. ReplacementsAreNewer
    BY DEF Init, StoreInit, ReplacementsAreNewer
  <1>3. WritersKnowRows /\ StagesByKind /\ TargetsAreNewer
    BY StoreAssumption DEF Init, StoreInit, WritersKnowRows, StagesByKind, TargetsAreNewer, None
  <1>4. QED
    BY <1>1, <1>2, <1>3 DEF PointerInv

LEMMA PointerInvStep == PointerInv /\ [Next]_vars => PointerInv'
  <1> SUFFICES ASSUME PointerInv, [Next]_vars PROVE PointerInv'
    OBVIOUS
  <1>1. TypeOK'
    BY StepTypes DEF PointerInv
  <1>2. CASE Crash
    BY <1>1, <1>2 DEF Crash, PointerInv, ReplacementsAreNewer, WritersKnowRows,
       StagesByKind, TargetsAreNewer, store, tables, None, TypeOK, StoreTypeOK
  <1>3. CASE UNCHANGED vars
    BY <1>1, <1>3 DEF vars, PointerInv, ReplacementsAreNewer, WritersKnowRows,
       StagesByKind, TargetsAreNewer, store, tables, locals
  <1>4. ASSUME NEW w \in Writers, Step(w) PROVE PointerInv'
    <2>1. StagesByKind'
      BY <1>4, KindsStep DEF PointerInv
    <2>2. QED
      BY <1>1, <1>4, <2>1, ReplacementsStep, WritersStep DEF PointerInv
  <1>5. QED
    BY <1>2, <1>3, <1>4 DEF Next

\* Every superseded_by points at an existing, newer memory, for any number of
\* writers: there is no cycle and nothing dangles.
THEOREM ReplacementsExist == Spec => []ReplacementsAreNewer
  <1>1. Init => PointerInv
    BY PointerInvInit
  <1>2. PointerInv /\ [Next]_vars => PointerInv'
    BY PointerInvStep
  <1>3. PointerInv => ReplacementsAreNewer
    BY DEF PointerInv
  <1>4. QED
    BY <1>1, <1>2, <1>3, PTL DEF Spec

-----------------------------------------------------------------------------
(* Without edits: nothing is findable by keyword only.                     *)

\* The memory a save is writing is its own.
TargetsAreOwn ==
  \A v, w \in Writers :
    /\ stage[v] \in {"vector", "rollback", "text"}
    /\ stage[w] \in {"vector", "rollback", "text"}
    /\ target[v] = target[w]
    => v = w

\* What is written says something.
ContentsSaySomething ==
  /\ \A w \in Writers : stage[w] \in {"insert", "vector", "text", "deciding"} => draft[w] # {}
  /\ \A m \in Live : body[m] # {}

\* The vector is written before the keywords, for a row that is still there.
VectorsComeFirst ==
  /\ \A w \in Writers : stage[w] \in {"vector", "rollback"} => keywords[target[w]] = {}
  /\ \A w \in Writers : stage[w] = "text" => target[w] \notin Live \/ vector[target[w]] # {}
  /\ \A m \in Memories : created < m => keywords[m] = {}

\* Index entries are removed for deleted rows only.
RemovalsAreLate ==
  \A w \in Writers : stage[w] \in {"unvector", "untext"} => target[w] \notin Live

SavesHaveTargets ==
  \A w \in Writers : stage[w] \in {"vector", "rollback", "text", "retiring", "unvector", "untext"}
    => target[w] \in Memories

SaveInv ==
  /\ TargetsAreOwn
  /\ SavesHaveTargets
  /\ ContentsSaySomething
  /\ VectorsComeFirst
  /\ RemovalsAreLate
  /\ NeverKeywordOnly

LEMMA OthersKept ==
  ASSUME TypeOK, NEW w \in Writers, Step(w), NEW v \in Writers, v # w
  PROVE  /\ stage'[v] = stage[v] /\ target'[v] = target[v] /\ draft'[v] = draft[v]
         /\ shown'[v] = shown[v]
  <1> USE DEF TypeOK, Finish, Proceed, GoTo, locals
  <1>1. CASE StartSave(w)
    BY <1>1 DEF StartSave
  <1>2. CASE Insert(w)
    BY <1>2 DEF Insert
  <1>3. CASE InsertFails(w)
    BY <1>3 DEF InsertFails
  <1>4. CASE SaveVector(w)
    BY <1>4 DEF SaveVector
  <1>5. CASE Rollback(w)
    BY <1>5 DEF Rollback
  <1>6. CASE IndexText(w)
    BY <1>6 DEF IndexText
  <1>7. CASE ReadForEdit(w)
    BY <1>7 DEF ReadForEdit
  <1>8. CASE WriteEdit(w)
    BY <1>8 DEF WriteEdit
  <1>9. CASE WriteEditFails(w)
    BY <1>9 DEF WriteEditFails
  <1>10. CASE Reembed(w)
    BY <1>10 DEF Reembed
  <1>11. CASE Forget(w)
    BY <1>11 DEF Forget
  <1>12. CASE RemoveVector(w)
    BY <1>12 DEF RemoveVector
  <1>13. CASE RemoveText(w)
    BY <1>13 DEF RemoveText
  <1>14. CASE Recall(w)
    BY <1>14 DEF Recall
  <1>15. CASE Decide(w)
    BY <1>15 DEF Decide
  <1>16. CASE RemoveNext(w)
    BY <1>16 DEF RemoveNext
  <1>17. CASE ReplaceNext(w)
    BY <1>17 DEF ReplaceNext
  <1>18. CASE DecisionFails(w)
    BY <1>18 DEF DecisionFails
  <1>19. CASE Snapshot(w)
    BY <1>19 DEF Snapshot
  <1>20. CASE Retire(w)
    BY <1>20 DEF Retire
  <1>21. QED
    BY <1>1, <1>2, <1>3, <1>4, <1>5, <1>6, <1>7, <1>8, <1>9, <1>10, <1>11, <1>12,
       <1>13, <1>14, <1>15, <1>16, <1>17, <1>18, <1>19, <1>20 DEF Step

LEMMA OwnTargetsStep ==
  ASSUME PointerInv, SaveInv, Editors = {}, NEW w \in Writers, Step(w)
  PROVE  TargetsAreOwn'
  <1>a. TypeOK /\ LocalsTypeOK /\ TargetsAreOwn /\ StagesByKind /\ WritersKnowRows
    BY DEF PointerInv, SaveInv, TypeOK, LocalsTypeOK
  <1>b. ASSUME NEW v \in Writers, v # w PROVE stage'[v] = stage[v] /\ target'[v] = target[v]
    BY <1>a, <1>b, OthersKept
  <1>c. \/ stage'[w] \notin {"vector", "rollback", "text"}
        \/ stage[w] \in {"vector", "rollback", "text"} /\ target'[w] = target[w]
        \/ target'[w] = created + 1
    <2> USE <1>a DEF LocalsTypeOK, StagesByKind, Finish, Proceed, GoTo, locals
    <2>1. CASE StartSave(w)
      BY <2>1 DEF StartSave
    <2>2. CASE Insert(w)
      BY <2>2 DEF Insert, InsertRow
    <2>3. CASE InsertFails(w)
      BY <2>3 DEF InsertFails
    <2>4. CASE SaveVector(w)
      BY <2>4 DEF SaveVector
    <2>5. CASE Rollback(w)
      BY <2>5 DEF Rollback
    <2>6. CASE IndexText(w)
      BY <2>6 DEF IndexText
    <2>7. CASE ReadForEdit(w)
      BY <2>7 DEF ReadForEdit
    <2>8. CASE WriteEdit(w)
      BY <2>8 DEF WriteEdit
    <2>9. CASE WriteEditFails(w)
      BY <2>9 DEF WriteEditFails
    <2>10. CASE Reembed(w)
      BY <2>10 DEF Reembed
    <2>11. CASE Forget(w)
      BY <2>11 DEF Forget
    <2>12. CASE RemoveVector(w)
      BY <2>12 DEF RemoveVector
    <2>13. CASE RemoveText(w)
      BY <2>13 DEF RemoveText
    <2>14. CASE Recall(w)
      BY <2>14 DEF Recall
    <2>15. CASE Decide(w)
      BY <2>15 DEF Decide
    <2>16. CASE RemoveNext(w)
      BY <2>16 DEF RemoveNext
    <2>17. CASE ReplaceNext(w)
      BY <2>17 DEF ReplaceNext
    <2>18. CASE DecisionFails(w)
      BY <2>18 DEF DecisionFails
    <2>19. CASE Snapshot(w)
      BY <2>19 DEF Snapshot
    <2>20. CASE Retire(w)
      BY <2>20 DEF Retire
    <2>21. QED
      BY <2>1, <2>2, <2>3, <2>4, <2>5, <2>6, <2>7, <2>8, <2>9, <2>10, <2>11, <2>12,
         <2>13, <2>14, <2>15, <2>16, <2>17, <2>18, <2>19, <2>20 DEF Step

  <1>d. ASSUME NEW v \in Writers, v # w, stage'[v] \in {"vector", "rollback", "text"},
               stage'[w] \in {"vector", "rollback", "text"}
        PROVE  target'[v] # target'[w]
    <2>1. target[v] <= created /\ target[v] \in Nat /\ created \in Nat
      BY <1>a, StoreAssumption DEF WritersKnowRows, LocalsTypeOK, TypeOK, StoreTypeOK, Memories, None
    <2>2. QED
      BY <2>1, <1>a, <1>b, <1>c, <1>d DEF TargetsAreOwn
  <1>e. QED
    BY <1>a, <1>b, <1>d DEF TargetsAreOwn

\* While it is written or removed, a memory has a number.
LEMMA HaveTargetsStep ==
  ASSUME PointerInv, SavesHaveTargets, Editors = {}, NEW w \in Writers, Step(w)
  PROVE  SavesHaveTargets'
  <1>0. TypeOK /\ StoreTypeOK /\ StagesByKind /\ 1..created \subseteq Memories
    BY StoreAssumption DEF PointerInv, TypeOK, StoreTypeOK, Memories
  <1> USE <1>0 DEF TypeOK, SavesHaveTargets, StagesByKind, Finish, Proceed, GoTo, locals
  <1>1. CASE StartSave(w)
    BY <1>1 DEF StartSave
  <1>2. CASE Insert(w)
    BY <1>2 DEF Insert
  <1>3. CASE InsertFails(w)
    BY <1>3 DEF InsertFails
  <1>4. CASE SaveVector(w)
    BY <1>4 DEF SaveVector
  <1>5. CASE Rollback(w)
    BY <1>5 DEF Rollback
  <1>6. CASE IndexText(w)
    BY <1>6 DEF IndexText
  <1>7. CASE ReadForEdit(w)
    BY <1>7 DEF ReadForEdit
  <1>8. CASE WriteEdit(w)
    BY <1>8 DEF WriteEdit
  <1>9. CASE WriteEditFails(w)
    BY <1>9 DEF WriteEditFails
  <1>10. CASE Reembed(w)
    BY <1>10 DEF Reembed
  <1>11. CASE Forget(w)
    BY <1>11 DEF Forget
  <1>12. CASE RemoveVector(w)
    BY <1>12 DEF RemoveVector
  <1>13. CASE RemoveText(w)
    BY <1>13 DEF RemoveText
  <1>14. CASE Recall(w)
    BY <1>14 DEF Recall
  <1>15. CASE Decide(w)
    BY <1>15 DEF Decide
  <1>16. CASE RemoveNext(w)
    BY <1>16 DEF RemoveNext
  <1>17. CASE ReplaceNext(w)
    BY <1>17 DEF ReplaceNext
  <1>18. CASE DecisionFails(w)
    BY <1>18 DEF DecisionFails
  <1>19. CASE Snapshot(w)
    BY <1>19 DEF Snapshot
  <1>20. CASE Retire(w)
    BY <1>20 DEF Retire
  <1>21. QED
    BY <1>1, <1>2, <1>3, <1>4, <1>5, <1>6, <1>7, <1>8, <1>9, <1>10, <1>11, <1>12,
       <1>13, <1>14, <1>15, <1>16, <1>17, <1>18, <1>19, <1>20 DEF Step

\* No row comes back, and the only new one is the next.
LEMMA RowsComeLast ==
  ASSUME TypeOK, StagesByKind, Editors = {}, NEW w \in Writers, Step(w)
  PROVE  \/ Live' \subseteq Live /\ body' = body /\ created' = created
         \/ /\ stage[w] = "insert"
            /\ created' = created + 1 /\ created' \in Memories
            /\ Live' = Live \cup {created'}
            /\ body' = [body EXCEPT ![created'] = draft[w]]
            /\ replacedBy' = replacedBy
            /\ forgotten' = forgotten /\ outdated' = outdated
  <1>0. StoreTypeOK
    BY DEF TypeOK
  <1> USE <1>0 DEF StoreTypeOK, Live, store, tables, history
  <1>1. CASE StartSave(w)
    BY <1>1 DEF StartSave
  <1>2. CASE Insert(w)
    BY <1>2 DEF Insert, InsertRow
  <1>3. CASE InsertFails(w)
    BY <1>3 DEF InsertFails, NothingDone
  <1>4. CASE SaveVector(w)
    BY <1>4 DEF SaveVector
  <1>5. CASE Rollback(w)
    BY <1>5 DEF Rollback, DeleteRow
  <1>6. CASE IndexText(w)
    BY <1>6 DEF IndexText
  <1>7. CASE ReadForEdit(w)
    BY <1>7 DEF ReadForEdit, Writers
  <1>8. CASE WriteEdit(w)
    BY <1>8 DEF WriteEdit, StagesByKind
  <1>9. CASE WriteEditFails(w)
    BY <1>9 DEF WriteEditFails, NothingDone
  <1>10. CASE Reembed(w)
    BY <1>10 DEF Reembed
  <1>11. CASE Forget(w)
    BY <1>11 DEF Forget, DeleteRow
  <1>12. CASE RemoveVector(w)
    BY <1>12 DEF RemoveVector
  <1>13. CASE RemoveText(w)
    BY <1>13 DEF RemoveText
  <1>14. CASE Recall(w)
    BY <1>14 DEF Recall
  <1>15. CASE Decide(w)
    BY <1>15 DEF Decide
  <1>16. CASE RemoveNext(w)
    BY <1>16 DEF RemoveNext, DeleteRow
  <1>17. CASE ReplaceNext(w)
    BY <1>17 DEF ReplaceNext, SupersedeRow
  <1>18. CASE DecisionFails(w)
    BY <1>18 DEF DecisionFails, NothingDone
  <1>19. CASE Snapshot(w)
    BY <1>19 DEF Snapshot
  <1>20. CASE Retire(w)
    BY <1>20 DEF Retire, MergeRows
  <1>21. QED
    BY <1>1, <1>2, <1>3, <1>4, <1>5, <1>6, <1>7, <1>8, <1>9, <1>10, <1>11, <1>12,
       <1>13, <1>14, <1>15, <1>16, <1>17, <1>18, <1>19, <1>20 DEF Step

LEMMA ClustersSaySomething ==
  ASSUME ContentsSaySomething, NEW C \in SUBSET Visible, Cardinality(C) >= 2
  PROVE  UNION {body[m] : m \in C} # {}
  <1>1. C # {}
    BY FS_EmptySet
  <1>2. QED
    BY <1>1 DEF ContentsSaySomething, Visible

LEMMA ContentsStep ==
  ASSUME PointerInv, SaveInv, Editors = {}, NEW w \in Writers, Step(w)
  PROVE  ContentsSaySomething'
  <1>0. TypeOK /\ LocalsTypeOK /\ StagesByKind /\ ContentsSaySomething
    BY DEF PointerInv, SaveInv, TypeOK, LocalsTypeOK
  <1>a. ASSUME NEW v \in Writers, v # w PROVE stage'[v] = stage[v] /\ draft'[v] = draft[v]
    BY <1>0, <1>a, OthersKept
  <1>b. stage'[w] \in {"insert", "vector", "text", "deciding"} => draft'[w] # {}
    <2> USE <1>0 DEF LocalsTypeOK, ContentsSaySomething, StagesByKind, Finish, Proceed, GoTo, locals
    <2>1. CASE StartSave(w)
      BY <2>1 DEF StartSave
    <2>2. CASE Insert(w)
      BY <2>2 DEF Insert
    <2>3. CASE InsertFails(w)
      BY <2>3 DEF InsertFails
    <2>4. CASE SaveVector(w)
      BY <2>4 DEF SaveVector
    <2>5. CASE Rollback(w)
      BY <2>5 DEF Rollback
    <2>6. CASE IndexText(w)
      BY <2>6 DEF IndexText
    <2>7. CASE ReadForEdit(w)
      BY <2>7 DEF ReadForEdit
    <2>8. CASE WriteEdit(w)
      BY <2>8 DEF WriteEdit
    <2>9. CASE WriteEditFails(w)
      BY <2>9 DEF WriteEditFails
    <2>10. CASE Reembed(w)
      BY <2>10 DEF Reembed
    <2>11. CASE Forget(w)
      BY <2>11 DEF Forget
    <2>12. CASE RemoveVector(w)
      BY <2>12 DEF RemoveVector
    <2>13. CASE RemoveText(w)
      BY <2>13 DEF RemoveText
    <2>14. CASE Recall(w)
      BY <2>14 DEF Recall
    <2>15. CASE Decide(w)
      BY <2>15 DEF Decide
    <2>16. CASE RemoveNext(w)
      BY <2>16 DEF RemoveNext
    <2>17. CASE ReplaceNext(w)
      BY <2>17 DEF ReplaceNext
    <2>18. CASE DecisionFails(w)
      BY <2>18 DEF DecisionFails
    <2>19. CASE Snapshot(w)
      BY <2>19, ClustersSaySomething DEF Snapshot
    <2>20. CASE Retire(w)
      BY <2>20 DEF Retire
    <2>21. QED
      BY <2>1, <2>2, <2>3, <2>4, <2>5, <2>6, <2>7, <2>8, <2>9, <2>10, <2>11, <2>12,
         <2>13, <2>14, <2>15, <2>16, <2>17, <2>18, <2>19, <2>20 DEF Step

  <1>c. \A m \in Live' : body'[m] # {}
    <2>1. CASE Live' \subseteq Live /\ body' = body
      BY <2>1, <1>0 DEF ContentsSaySomething
    <2>2. CASE /\ stage[w] = "insert" /\ created' \in Memories /\ Live' = Live \cup {created'}
               /\ body' = [body EXCEPT ![created'] = draft[w]]
      BY <2>2, <1>0 DEF ContentsSaySomething, TypeOK, StoreTypeOK
    <2>3. QED
      BY <2>1, <2>2, <1>0, RowsComeLast
  <1>d. QED
    BY <1>0, <1>a, <1>b, <1>c DEF ContentsSaySomething

LEMMA RemovalsStep ==
  ASSUME PointerInv, SaveInv, Editors = {}, NEW w \in Writers, Step(w)
  PROVE  RemovalsAreLate'
  <1>0. TypeOK /\ LocalsTypeOK /\ StagesByKind /\ RemovalsAreLate /\ WritersKnowRows
    BY DEF PointerInv, SaveInv, TypeOK, LocalsTypeOK
  <1>a. ASSUME NEW v \in Writers, v # w PROVE stage'[v] = stage[v] /\ target'[v] = target[v]
    BY <1>0, <1>a, OthersKept
  <1>b. \A m : m <= created /\ m \notin Live => m \notin Live'
    BY <1>0, RowsComeLast, StoreAssumption DEF TypeOK, StoreTypeOK
  <1>c. \/ stage'[w] \notin {"unvector", "untext"}
        \/ stage[w] \in {"unvector", "untext"} /\ target'[w] = target[w]
        \/ target'[w] \notin Live'
    <2> USE <1>0 DEF LocalsTypeOK, StagesByKind, Finish, Proceed, GoTo, locals
    <2>1. CASE StartSave(w)
      BY <2>1 DEF StartSave
    <2>2. CASE Insert(w)
      BY <2>2 DEF Insert
    <2>3. CASE InsertFails(w)
      BY <2>3 DEF InsertFails
    <2>4. CASE SaveVector(w)
      BY <2>4 DEF SaveVector
    <2>5. CASE Rollback(w)
      BY <2>5 DEF Rollback
    <2>6. CASE IndexText(w)
      BY <2>6 DEF IndexText
    <2>7. CASE ReadForEdit(w)
      BY <2>7 DEF ReadForEdit
    <2>8. CASE WriteEdit(w)
      BY <2>8 DEF WriteEdit
    <2>9. CASE WriteEditFails(w)
      BY <2>9 DEF WriteEditFails
    <2>10. CASE Reembed(w)
      BY <2>10 DEF Reembed
    <2>11. CASE Forget(w)
      BY <2>11 DEF Forget, DeleteRow, Live, TypeOK, StoreTypeOK
    <2>12. CASE RemoveVector(w)
      BY <2>12 DEF RemoveVector
    <2>13. CASE RemoveText(w)
      BY <2>13 DEF RemoveText
    <2>14. CASE Recall(w)
      BY <2>14 DEF Recall
    <2>15. CASE Decide(w)
      BY <2>15 DEF Decide
    <2>16. CASE RemoveNext(w)
      BY <2>16 DEF RemoveNext, DeleteRow, Live, TypeOK, StoreTypeOK
    <2>17. CASE ReplaceNext(w)
      BY <2>17 DEF ReplaceNext
    <2>18. CASE DecisionFails(w)
      BY <2>18 DEF DecisionFails
    <2>19. CASE Snapshot(w)
      BY <2>19 DEF Snapshot
    <2>20. CASE Retire(w)
      BY <2>20 DEF Retire
    <2>21. QED
      BY <2>1, <2>2, <2>3, <2>4, <2>5, <2>6, <2>7, <2>8, <2>9, <2>10, <2>11, <2>12,
         <2>13, <2>14, <2>15, <2>16, <2>17, <2>18, <2>19, <2>20 DEF Step

  <1>d. QED
    BY <1>0, <1>a, <1>b, <1>c DEF RemovalsAreLate, WritersKnowRows

\* What one step does to the indexes, and where it leaves the writer.
LEMMA IndexEffects ==
  ASSUME TypeOK, StagesByKind, Editors = {}, NEW w \in Writers, Step(w)
  PROVE  \/ /\ UNCHANGED indexes
            /\ \/ stage'[w] \notin {"vector", "rollback", "text"}
               \/ stage[w] = "insert" /\ stage'[w] = "vector" /\ target'[w] = created + 1
                    /\ created < MaxMemories
         \/ /\ stage[w] = "vector" /\ stage'[w] = "text"
            /\ target'[w] = target[w] /\ created' = created /\ UNCHANGED <<keywords, state>>
            /\ vector' = [vector EXCEPT ![target[w]] = draft[w]]
         \/ /\ stage[w] = "vector" /\ stage'[w] = "rollback"
            /\ target'[w] = target[w] /\ created' = created /\ UNCHANGED <<keywords, state>>
            /\ vector' \in {vector, [vector EXCEPT ![target[w]] = {}]}
         \/ /\ stage[w] = "text" /\ stage'[w] \notin {"vector", "rollback", "text"}
            /\ created' = created /\ UNCHANGED <<vector, state>>
            /\ keywords' \in {keywords, [keywords EXCEPT ![target[w]] = draft[w]]}
         \/ /\ stage[w] = "unvector" /\ stage'[w] \notin {"vector", "rollback", "text"}
            /\ created' = created /\ UNCHANGED <<keywords, state>>
            /\ vector' \in {vector, [vector EXCEPT ![target[w]] = {}]}
         \/ /\ stage[w] = "untext" /\ stage'[w] \notin {"vector", "rollback", "text"}
            /\ created' = created /\ UNCHANGED <<vector, state>>
            /\ keywords' \in {keywords, [keywords EXCEPT ![target[w]] = {}]}
  <1> USE DEF TypeOK, StagesByKind, Finish, Proceed, GoTo, locals, store, tables, indexes, NoEntry
  <1>1. CASE StartSave(w)
    BY <1>1 DEF StartSave
  <1>2. CASE Insert(w)
    BY <1>2 DEF Insert, InsertRow
  <1>3. CASE InsertFails(w)
    BY <1>3 DEF InsertFails, NothingDone
  <1>4. CASE SaveVector(w)
    BY <1>4 DEF SaveVector, PutVector, PutVectorFails
  <1>5. CASE Rollback(w)
    BY <1>5 DEF Rollback
  <1>6. CASE IndexText(w)
    BY <1>6 DEF IndexText, PutKeywords
  <1>7. CASE ReadForEdit(w)
    BY <1>7 DEF ReadForEdit
  <1>8. CASE WriteEdit(w)
    BY <1>8 DEF WriteEdit
  <1>9. CASE WriteEditFails(w)
    BY <1>9 DEF WriteEditFails, NothingDone
  <1>10. CASE Reembed(w)
    BY <1>10 DEF Reembed
  <1>11. CASE Forget(w)
    BY <1>11 DEF Forget
  <1>12. CASE RemoveVector(w)
    BY <1>12 DEF RemoveVector, DropVector
  <1>13. CASE RemoveText(w)
    BY <1>13 DEF RemoveText, DropKeywords
  <1>14. CASE Recall(w)
    BY <1>14 DEF Recall
  <1>15. CASE Decide(w)
    BY <1>15 DEF Decide
  <1>16. CASE RemoveNext(w)
    BY <1>16 DEF RemoveNext
  <1>17. CASE ReplaceNext(w)
    BY <1>17 DEF ReplaceNext
  <1>18. CASE DecisionFails(w)
    BY <1>18 DEF DecisionFails, NothingDone
  <1>19. CASE Snapshot(w)
    BY <1>19 DEF Snapshot
  <1>20. CASE Retire(w)
    BY <1>20 DEF Retire
  <1>21. QED
    BY <1>1, <1>2, <1>3, <1>4, <1>5, <1>6, <1>7, <1>8, <1>9, <1>10, <1>11, <1>12,
       <1>13, <1>14, <1>15, <1>16, <1>17, <1>18, <1>19, <1>20 DEF Step

LEMMA IndexStep ==
  ASSUME PointerInv, SaveInv, Editors = {}, NEW w \in Writers, Step(w)
  PROVE  VectorsComeFirst' /\ NeverKeywordOnly'
  <1>0. /\ TypeOK /\ LocalsTypeOK /\ StoreTypeOK /\ StagesByKind /\ RemovalsAreLate
        /\ WritersKnowRows /\ TargetsAreOwn /\ SavesHaveTargets /\ ContentsSaySomething
        /\ VectorsComeFirst /\ NeverKeywordOnly /\ created \in Nat
    BY StoreAssumption DEF PointerInv, SaveInv, TypeOK, LocalsTypeOK, StoreTypeOK
  <1>a. ASSUME NEW v \in Writers, v # w
        PROVE  stage'[v] = stage[v] /\ target'[v] = target[v] /\ target[v] <= created
    BY <1>0, <1>a, OthersKept DEF WritersKnowRows
  <1>b. \A m : m <= created /\ m \notin Live => m \notin Live'
    BY <1>0, RowsComeLast
  <1>c. /\ created <= created' /\ created' \in Nat
        /\ \A m \in Live' \ Live : m = created + 1
    BY <1>0, RowsComeLast, RowsOnlyGrow
  <1> DEFINE Own == {"vector", "rollback", "text"}
  <1>1. CASE /\ UNCHANGED indexes
             /\ \/ stage'[w] \notin Own
                \/ stage[w] = "insert" /\ stage'[w] = "vector" /\ target'[w] = created + 1
                     /\ created < MaxMemories
    <2>1. \A m \in Memories : created' < m => keywords'[m] = {}
      BY <1>0, <1>1, <1>c DEF VectorsComeFirst, indexes, Memories
    <2>2. \A v \in Writers : stage'[v] \in {"vector", "rollback"} => keywords'[target'[v]] = {}
      BY <1>0, <1>1, <1>a, StoreAssumption DEF VectorsComeFirst, indexes, Memories
    <2>3. \A v \in Writers : stage'[v] = "text" => target'[v] \notin Live' \/ vector'[target'[v]] # {}
      BY <1>0, <1>1, <1>a, <1>b DEF VectorsComeFirst, indexes
    <2>4. \A m \in Live' : keywords'[m] # {} => vector'[m] # {}
      BY <1>0, <1>1, <1>c DEF NeverKeywordOnly, VectorsComeFirst, indexes, NoEntry, Live, Memories
    <2>5. QED
      BY <2>1, <2>2, <2>3, <2>4 DEF VectorsComeFirst, NeverKeywordOnly, NoEntry
  <1>2. ASSUME stage[w] = "vector", stage'[w] \in {"text", "rollback"}, target'[w] = target[w],
               created' = created, UNCHANGED <<keywords, state>>,
               \/ stage'[w] = "text" /\ vector' = [vector EXCEPT ![target[w]] = draft[w]]
               \/ stage'[w] = "rollback" /\ vector' \in {vector, [vector EXCEPT ![target[w]] = {}]}
        PROVE  VectorsComeFirst' /\ NeverKeywordOnly'
    <2>1. \A v \in Writers : v # w /\ stage[v] \in Own => target[v] # target[w]
      BY <1>0, <1>2 DEF TargetsAreOwn
    <2>2. /\ \A m \in Memories : m # target[w] => vector'[m] = vector[m]
          /\ stage'[w] = "text" => vector'[target[w]] = draft[w] /\ draft[w] # {}
          /\ target[w] \in Memories /\ keywords[target[w]] = {}
      BY <1>0, <1>2 DEF StoreTypeOK, SavesHaveTargets, ContentsSaySomething, VectorsComeFirst
    <2>3. Live' = Live
      BY <1>2 DEF Live
    <2>4. \A v \in Writers : stage'[v] \in {"vector", "rollback"} => keywords'[target'[v]] = {}
      BY <1>0, <1>2, <1>a, <2>2 DEF VectorsComeFirst
    <2>5. \A v \in Writers : stage'[v] = "text" => target'[v] \notin Live' \/ vector'[target'[v]] # {}
      BY <1>0, <1>2, <1>a, <2>1, <2>2, <2>3 DEF VectorsComeFirst, SavesHaveTargets
    <2>6. NeverKeywordOnly'
      BY <1>0, <1>2, <2>2, <2>3 DEF NeverKeywordOnly, Live, NoEntry
    <2>7. QED
      BY <1>0, <1>2, <2>4, <2>5, <2>6 DEF VectorsComeFirst
  <1>3. ASSUME stage[w] = "text", stage'[w] \notin Own, created' = created,
               UNCHANGED <<vector, state>>,
               keywords' \in {keywords, [keywords EXCEPT ![target[w]] = draft[w]]}
        PROVE  VectorsComeFirst' /\ NeverKeywordOnly'
    <2>1. \A v \in Writers : v # w /\ stage[v] \in Own => target[v] # target[w]
      BY <1>0, <1>3 DEF TargetsAreOwn
    <2>2. /\ \A m \in Memories : m # target[w] => keywords'[m] = keywords[m]
          /\ target[w] \in Memories /\ target[w] <= created
          /\ target[w] \notin Live \/ vector[target[w]] # {}
      BY <1>0, <1>3 DEF StoreTypeOK, SavesHaveTargets, VectorsComeFirst, WritersKnowRows
    <2>3. Live' = Live
      BY <1>3 DEF Live
    <2>4. \A v \in Writers : stage'[v] \in {"vector", "rollback"} => keywords'[target'[v]] = {}
      BY <1>0, <1>3, <1>a, <2>1, <2>2 DEF VectorsComeFirst, SavesHaveTargets
    <2>5. \A v \in Writers : stage'[v] = "text" => target'[v] \notin Live' \/ vector'[target'[v]] # {}
      BY <1>0, <1>3, <1>a, <2>3 DEF VectorsComeFirst
    <2>6. \A m \in Memories : created' < m => keywords'[m] = {}
      BY <1>0, <1>3, <2>2 DEF VectorsComeFirst, Memories
    <2>7. NeverKeywordOnly'
      BY <1>0, <1>3, <2>2, <2>3 DEF NeverKeywordOnly, Live, NoEntry
    <2>8. QED
      BY <2>4, <2>5, <2>6, <2>7 DEF VectorsComeFirst
  <1>4. ASSUME stage[w] = "unvector", stage'[w] \notin Own, created' = created,
               UNCHANGED <<keywords, state>>,
               vector' \in {vector, [vector EXCEPT ![target[w]] = {}]}
        PROVE  VectorsComeFirst' /\ NeverKeywordOnly'
    <2>1. target[w] \notin Live /\ Live' = Live
      BY <1>0, <1>4 DEF RemovalsAreLate, Live
    <2>2. \A m \in Memories : m # target[w] => vector'[m] = vector[m]
      BY <1>0, <1>4 DEF StoreTypeOK
    <2>3. \A v \in Writers : stage'[v] = "text" => target'[v] \notin Live' \/ vector'[target'[v]] # {}
      BY <1>0, <1>4, <1>a, <2>1, <2>2 DEF VectorsComeFirst, SavesHaveTargets
    <2>4. NeverKeywordOnly'
      BY <1>0, <1>4, <2>1, <2>2 DEF NeverKeywordOnly, Live, NoEntry
    <2>5. QED
      BY <1>0, <1>4, <1>a, <2>3, <2>4 DEF VectorsComeFirst
  <1>5. ASSUME stage[w] = "untext", stage'[w] \notin Own, created' = created,
               UNCHANGED <<vector, state>>,
               keywords' \in {keywords, [keywords EXCEPT ![target[w]] = {}]}
        PROVE  VectorsComeFirst' /\ NeverKeywordOnly'
    <2>1. \A m \in Memories : keywords'[m] \in {keywords[m], {}}
      BY <1>0, <1>5 DEF StoreTypeOK
    <2>2. Live' = Live
      BY <1>5 DEF Live
    <2>3. \A v \in Writers : stage'[v] \in {"vector", "rollback"} => keywords'[target'[v]] = {}
      BY <1>0, <1>5, <1>a, <2>1 DEF VectorsComeFirst, SavesHaveTargets
    <2>4. \A v \in Writers : stage'[v] = "text" => target'[v] \notin Live' \/ vector'[target'[v]] # {}
      BY <1>0, <1>5, <1>a, <2>2 DEF VectorsComeFirst
    <2>5. NeverKeywordOnly'
      BY <1>0, <1>5, <2>1, <2>2 DEF NeverKeywordOnly, Live, NoEntry
    <2>6. QED
      BY <1>0, <1>5, <2>1, <2>3, <2>4, <2>5 DEF VectorsComeFirst
  <1>6. QED
    BY <1>0, <1>1, <1>2, <1>3, <1>4, <1>5, IndexEffects

LEMMA SaveInvInit == Init => SaveInv
  <1> SUFFICES ASSUME Init PROVE SaveInv
    OBVIOUS
  <1>1. TargetsAreOwn /\ SavesHaveTargets /\ RemovalsAreLate
    BY DEF Init, TargetsAreOwn, SavesHaveTargets, RemovalsAreLate
  <1>2. ContentsSaySomething
    BY DEF Init, StoreInit, ContentsSaySomething, Live, FactsOfSaved
  <1>3. VectorsComeFirst
    BY StoreAssumption DEF Init, StoreInit, VectorsComeFirst, FactsOfSaved, Memories
  <1>4. NeverKeywordOnly
    BY DEF Init, StoreInit, NeverKeywordOnly, Live
  <1>5. QED
    BY <1>1, <1>2, <1>3, <1>4 DEF SaveInv

LEMMA SaveInvStep ==
  ASSUME Editors = {}, PointerInv, SaveInv, [Next]_vars PROVE SaveInv'
  <1>1. ASSUME NEW w \in Writers, Step(w) PROVE SaveInv'
    <2>1. SavesHaveTargets
      BY DEF SaveInv
    <2>2. QED
      BY <1>1, <2>1, OwnTargetsStep, HaveTargetsStep, ContentsStep, RemovalsStep, IndexStep DEF SaveInv
  <1>2. CASE Crash
    BY <1>2 DEF Crash, SaveInv, TargetsAreOwn, SavesHaveTargets, RemovalsAreLate,
       ContentsSaySomething, VectorsComeFirst, NeverKeywordOnly, Live, store, tables, indexes
  <1>3. CASE UNCHANGED vars
    BY <1>3 DEF vars, SaveInv, TargetsAreOwn, SavesHaveTargets, RemovalsAreLate,
       ContentsSaySomething, VectorsComeFirst, NeverKeywordOnly, Live, store, tables, indexes, locals
  <1>4. QED
    BY <1>1, <1>2, <1>3 DEF Next

\* Without edits no failure, crash or interleaving leaves a memory findable by
\* keyword and not by meaning.
THEOREM NothingIsKeywordOnly == ASSUME Editors = {} PROVE Spec => []NeverKeywordOnly
  <1>1. Init => PointerInv /\ SaveInv
    BY PointerInvInit, SaveInvInit
  <1>2. PointerInv /\ SaveInv /\ [Next]_vars => (PointerInv /\ SaveInv)'
    BY PointerInvStep, SaveInvStep
  <1>3. SaveInv => NeverKeywordOnly
    BY DEF SaveInv
  <1>4. QED
    BY <1>1, <1>2, <1>3, PTL DEF Spec

-----------------------------------------------------------------------------
(* Without edits: nothing is lost.                                         *)

\* A save that may still be rolled back.
Pending(m) == \E w \in Writers : stage[w] \in {"vector", "rollback"} /\ target[w] = m

\* A fact that memory m carried was deleted or replaced on request, or it can
\* be recalled from m or from a memory newer than m that will stay.
Covered(f, m) ==
  \/ f \in forgotten \cup outdated
  \/ \E k \in Visible : m <= k /\ f \in body[k] /\ ~Pending(k)

\* The row says what its writer is saving.
RowsSayDrafts ==
  \A w \in Writers : stage[w] \in {"vector", "rollback", "text", "retiring"} =>
    body[target[w]] = draft[w]

\* A merge's replacement says what the members say.
ReplacementsSayAll ==
  \A w \in Mergers : stage[w] \in {"insert", "vector", "text", "retiring"} =>
    \A m \in shown[w] : body[m] \subseteq draft[w]

\* What a merge is about to retire its members for is covered without them.
ReplacementsAreCovered ==
  \A w \in Mergers :
    /\ stage[w] \in {"text", "retiring"} => \A f \in draft[w] : Covered(f, target[w])
    /\ stage[w] = "vector" =>
         target[w] \in Visible \/ \A f \in draft[w] : Covered(f, target[w])

FactInv ==
  /\ RowsSayDrafts
  /\ ReplacementsSayAll
  /\ ReplacementsAreCovered
  /\ \A f \in accepted : Covered(f, 0)

\* The invariants above, and no edits.
Settled ==
  /\ Editors = {}
  /\ PointerInv
  /\ SaveInv

LEMMA SettledParts ==
  ASSUME Settled
  PROVE  /\ TypeOK /\ StoreTypeOK /\ LocalsTypeOK /\ StagesByKind /\ WritersKnowRows
         /\ TargetsAreNewer /\ TargetsAreOwn /\ SavesHaveTargets /\ created \in Nat
  BY StoreAssumption DEF Settled, PointerInv, SaveInv, TypeOK, StoreTypeOK, LocalsTypeOK

\* The rows that exist keep their contents.
LEMMA BodiesKept ==
  ASSUME Settled, NEW w \in Writers, Step(w)
  PROVE  \A m \in Memories : m <= created => body'[m] = body[m]
  <1>0. TypeOK /\ StagesByKind /\ StoreTypeOK /\ created \in Nat
    BY SettledParts
  <1>1. \/ body' = body
        \/ body' = [body EXCEPT ![created + 1] = draft[w]]
    BY <1>0, RowsComeLast DEF Settled
  <1>2. ASSUME NEW m \in Memories, m <= created PROVE body'[m] = body[m]
    <2>1. m # created + 1
      BY <1>0, <1>2 DEF Memories
    <2>2. \A n, c : body' = [body EXCEPT ![n] = c] /\ m # n => body'[m] = body[m]
      BY <1>0 DEF StoreTypeOK
    <2>3. QED
      BY <1>1, <2>1, <2>2
  <1>3. QED
    BY <1>2

LEMMA DraftsStep ==
  ASSUME Settled, RowsSayDrafts, NEW w \in Writers, Step(w) PROVE RowsSayDrafts'
  <1>0. /\ TypeOK /\ LocalsTypeOK /\ StoreTypeOK /\ StagesByKind /\ WritersKnowRows
        /\ created \in Nat /\ Editors = {} /\ SavesHaveTargets
    BY SettledParts DEF Settled
  <1>1. ASSUME NEW v \in Writers, v # w
        PROVE  stage'[v] = stage[v] /\ target'[v] = target[v] /\ draft'[v] = draft[v]
    BY <1>0, <1>1, OthersKept
  <1>2. \/ stage'[w] \notin {"vector", "rollback", "text", "retiring"}
        \/ /\ stage[w] \in {"vector", "rollback", "text", "retiring"}
           /\ target'[w] = target[w] /\ draft'[w] = draft[w]
        \/ body'[target'[w]] = draft'[w]
    <2> USE <1>0 DEF LocalsTypeOK, StagesByKind, Finish, Proceed, GoTo, locals
    <2>1. CASE StartSave(w)
      BY <2>1 DEF StartSave
    <2>2. CASE Insert(w)
      BY <2>2 DEF Insert, InsertRow, StoreTypeOK
    <2>3. CASE InsertFails(w)
      BY <2>3 DEF InsertFails
    <2>4. CASE SaveVector(w)
      BY <2>4 DEF SaveVector
    <2>5. CASE Rollback(w)
      BY <2>5 DEF Rollback
    <2>6. CASE IndexText(w)
      BY <2>6 DEF IndexText
    <2>7. CASE ReadForEdit(w)
      BY <2>7 DEF ReadForEdit
    <2>8. CASE WriteEdit(w)
      BY <2>8 DEF WriteEdit
    <2>9. CASE WriteEditFails(w)
      BY <2>9 DEF WriteEditFails
    <2>10. CASE Reembed(w)
      BY <2>10 DEF Reembed
    <2>11. CASE Forget(w)
      BY <2>11 DEF Forget
    <2>12. CASE RemoveVector(w)
      BY <2>12 DEF RemoveVector
    <2>13. CASE RemoveText(w)
      BY <2>13 DEF RemoveText
    <2>14. CASE Recall(w)
      BY <2>14 DEF Recall
    <2>15. CASE Decide(w)
      BY <2>15 DEF Decide
    <2>16. CASE RemoveNext(w)
      BY <2>16 DEF RemoveNext
    <2>17. CASE ReplaceNext(w)
      BY <2>17 DEF ReplaceNext
    <2>18. CASE DecisionFails(w)
      BY <2>18 DEF DecisionFails
    <2>19. CASE Snapshot(w)
      BY <2>19 DEF Snapshot
    <2>20. CASE Retire(w)
      BY <2>20 DEF Retire
    <2>21. QED
      BY <2>1, <2>2, <2>3, <2>4, <2>5, <2>6, <2>7, <2>8, <2>9, <2>10, <2>11, <2>12,
         <2>13, <2>14, <2>15, <2>16, <2>17, <2>18, <2>19, <2>20 DEF Step

  <1>3. QED
    BY <1>0, <1>1, <1>2, BodiesKept DEF RowsSayDrafts, WritersKnowRows, SavesHaveTargets

LEMMA SayAllStep ==
  ASSUME Settled, ReplacementsSayAll, NEW w \in Writers, Step(w) PROVE ReplacementsSayAll'
  <1>0. /\ TypeOK /\ LocalsTypeOK /\ StoreTypeOK /\ StagesByKind /\ WritersKnowRows
        /\ created \in Nat /\ Editors = {} /\ Mergers \subseteq Writers
    BY SettledParts DEF Settled, Writers
  <1>1. ASSUME NEW v \in Writers, v # w
        PROVE  stage'[v] = stage[v] /\ shown'[v] = shown[v] /\ draft'[v] = draft[v]
    BY <1>0, <1>1, OthersKept
  <1>2. CASE w \notin Mergers
    BY <1>0, <1>1, <1>2, BodiesKept DEF ReplacementsSayAll, WritersKnowRows, LocalsTypeOK
  <1>3. CASE w \in Mergers
    <2>1. \/ stage'[w] \notin {"insert", "vector", "text", "retiring"}
          \/ /\ stage[w] \in {"insert", "vector", "text", "retiring"}
             /\ shown'[w] = shown[w] /\ draft'[w] = draft[w]
          \/ /\ shown'[w] \subseteq Visible
             /\ draft'[w] = UNION {body[m] : m \in shown'[w]}
      <3> USE <1>0, <1>3, WritersAssumption DEF LocalsTypeOK, StagesByKind, Finish, Proceed, GoTo, locals
      <3>1. CASE StartSave(w)
        BY <3>1 DEF StartSave
      <3>2. CASE Insert(w)
        BY <3>2 DEF Insert
      <3>3. CASE InsertFails(w)
        BY <3>3 DEF InsertFails
      <3>4. CASE SaveVector(w)
        BY <3>4 DEF SaveVector
      <3>5. CASE Rollback(w)
        BY <3>5 DEF Rollback
      <3>6. CASE IndexText(w)
        BY <3>6 DEF IndexText
      <3>7. CASE ReadForEdit(w)
        BY <3>7 DEF ReadForEdit
      <3>8. CASE WriteEdit(w)
        BY <3>8 DEF WriteEdit
      <3>9. CASE WriteEditFails(w)
        BY <3>9 DEF WriteEditFails
      <3>10. CASE Reembed(w)
        BY <3>10 DEF Reembed
      <3>11. CASE Forget(w)
        BY <3>11 DEF Forget
      <3>12. CASE RemoveVector(w)
        BY <3>12 DEF RemoveVector
      <3>13. CASE RemoveText(w)
        BY <3>13 DEF RemoveText
      <3>14. CASE Recall(w)
        BY <3>14 DEF Recall
      <3>15. CASE Decide(w)
        BY <3>15 DEF Decide
      <3>16. CASE RemoveNext(w)
        BY <3>16 DEF RemoveNext
      <3>17. CASE ReplaceNext(w)
        BY <3>17 DEF ReplaceNext
      <3>18. CASE DecisionFails(w)
        BY <3>18 DEF DecisionFails
      <3>19. CASE Snapshot(w)
        BY <3>19 DEF Snapshot
      <3>20. CASE Retire(w)
        BY <3>20 DEF Retire
      <3>21. QED
        BY <3>1, <3>2, <3>3, <3>4, <3>5, <3>6, <3>7, <3>8, <3>9, <3>10, <3>11, <3>12,
           <3>13, <3>14, <3>15, <3>16, <3>17, <3>18, <3>19, <3>20 DEF Step

    <2>2. \A m \in Visible : m <= created
      BY <1>0 DEF Visible, Live, StoreTypeOK, Memories
    <2>3. \A m \in shown'[w] : stage'[w] \in {"insert", "vector", "text", "retiring"} =>
            m <= created /\ body[m] \subseteq draft'[w]
      BY <2>1, <2>2, <1>0, <1>3 DEF ReplacementsSayAll, WritersKnowRows
    <2>5. shown'[w] \in SUBSET Memories
      BY LocalsStep, <1>0 DEF LocalsTypeOK
    <2>6. QED
      BY <1>0, <1>1, <2>2, <2>3, <2>5, BodiesKept DEF ReplacementsSayAll, WritersKnowRows, LocalsTypeOK
  <1>4. QED
    BY <1>2, <1>3

\* What one step takes out of recall, and why.
LEMMA VisibleEffects ==
  ASSUME Settled, NEW w \in Writers, Step(w)
  PROVE  /\ forgotten \subseteq forgotten' /\ outdated \subseteq outdated'
         /\ \A k \in Visible \ Visible' :
              \/ body[k] \subseteq forgotten' \cup outdated'
              \/ stage[w] = "rollback" /\ target[w] = k
              \/ w \in Mergers /\ stage[w] = "retiring" /\ k \in shown[w]
  <1>0. /\ TypeOK /\ StoreTypeOK /\ StagesByKind /\ Editors = {}
    BY SettledParts DEF Settled
  <1> USE <1>0 DEF StoreTypeOK, StagesByKind, Visible, Live, store, tables, history
  <1>1. CASE StartSave(w)
    BY <1>1 DEF StartSave
  <1>2. CASE Insert(w)
    BY <1>2 DEF Insert, InsertRow
  <1>3. CASE InsertFails(w)
    BY <1>3 DEF InsertFails, NothingDone
  <1>4. CASE SaveVector(w)
    BY <1>4 DEF SaveVector
  <1>5. CASE Rollback(w)
    BY <1>5 DEF Rollback, DeleteRow
  <1>6. CASE IndexText(w)
    BY <1>6 DEF IndexText
  <1>7. CASE ReadForEdit(w)
    BY <1>7 DEF ReadForEdit
  <1>8. CASE WriteEdit(w)
    BY <1>8 DEF WriteEdit
  <1>9. CASE WriteEditFails(w)
    BY <1>9 DEF WriteEditFails, NothingDone
  <1>10. CASE Reembed(w)
    BY <1>10 DEF Reembed
  <1>11. CASE Forget(w)
    BY <1>11 DEF Forget, DeleteRow, Forgetting
  <1>12. CASE RemoveVector(w)
    BY <1>12 DEF RemoveVector
  <1>13. CASE RemoveText(w)
    BY <1>13 DEF RemoveText
  <1>14. CASE Recall(w)
    BY <1>14 DEF Recall
  <1>15. CASE Decide(w)
    BY <1>15 DEF Decide
  <1>16. CASE RemoveNext(w)
    BY <1>16 DEF RemoveNext, DeleteRow, Forgetting
  <1>17. CASE ReplaceNext(w)
    BY <1>17 DEF ReplaceNext, SupersedeRow
  <1>18. CASE DecisionFails(w)
    BY <1>18 DEF DecisionFails, NothingDone
  <1>19. CASE Snapshot(w)
    BY <1>19 DEF Snapshot
  <1>20. CASE Retire(w)
    BY <1>20 DEF Retire, MergeRows
  <1>21. QED
    BY <1>1, <1>2, <1>3, <1>4, <1>5, <1>6, <1>7, <1>8, <1>9, <1>10, <1>11, <1>12,
       <1>13, <1>14, <1>15, <1>16, <1>17, <1>18, <1>19, <1>20 DEF Step

LEMMA PendingStep ==
  ASSUME Settled, NEW w \in Writers, Step(w), NEW k, ~ Pending(k), k \in Memories, k <= created
  PROVE  ~ Pending(k)'
  <1>0. /\ TypeOK /\ LocalsTypeOK /\ StoreTypeOK /\ StagesByKind /\ Editors = {} /\ created \in Nat
    BY SettledParts DEF Settled
  <1>1. ASSUME NEW v \in Writers, v # w PROVE stage'[v] = stage[v] /\ target'[v] = target[v]
    BY <1>0, <1>1, OthersKept
  <1>2. stage'[w] \in {"vector", "rollback"} =>
          \/ stage[w] \in {"vector", "rollback"} /\ target'[w] = target[w]
          \/ target'[w] = created + 1
    BY <1>0, IndexEffects
  <1>3. QED
    BY <1>0, <1>1, <1>2 DEF Pending, Memories

\* What is covered stays covered, in the step that retires its memory, too:
\* the replacement is newer than the members and covered without them.
LEMMA CoveredStep ==
  ASSUME Settled, FactInv, NEW w \in Writers, Step(w), NEW m \in Nat, NEW f, Covered(f, m)
  PROVE  Covered(f, m)'
  <1>0. /\ TypeOK /\ LocalsTypeOK /\ StoreTypeOK /\ StagesByKind /\ created \in Nat
        /\ TargetsAreNewer /\ Editors = {} /\ SavesHaveTargets
    BY SettledParts DEF Settled
  <1>1. forgotten \subseteq forgotten' /\ outdated \subseteq outdated'
    BY VisibleEffects
  <1>2. CASE f \in forgotten \cup outdated
    BY <1>1, <1>2 DEF Covered
  <1>3. ASSUME NEW k \in Visible, m <= k, f \in body[k], ~ Pending(k), k \in Visible'
        PROVE  Covered(f, m)'
    <2>1. k \in Memories /\ k <= created
      BY <1>0, <1>3 DEF Visible, Live, StoreTypeOK, Memories
    <2>2. ~ Pending(k)' /\ body'[k] = body[k]
      BY <2>1, <1>3, PendingStep, BodiesKept
    <2>3. QED
      BY <1>3, <2>2 DEF Covered
  <1>4. ASSUME NEW k \in Visible, m <= k, f \in body[k], ~ Pending(k), k \notin Visible'
        PROVE  Covered(f, m)'
    <2>1. ~ (stage[w] = "rollback" /\ target[w] = k)
      BY <1>4 DEF Pending
    <2>2. CASE body[k] \subseteq forgotten' \cup outdated'
      BY <1>4, <2>2 DEF Covered
    <2>3. CASE w \in Mergers /\ stage[w] = "retiring" /\ k \in shown[w]
      <3>1. f \in draft[w]
        BY <1>4, <2>3 DEF FactInv, ReplacementsSayAll
      <3>2. Covered(f, target[w])
        BY <3>1, <2>3 DEF FactInv, ReplacementsAreCovered
      <3>3. k < target[w] /\ target[w] \in Nat /\ k \in Nat
        BY <1>0, <2>3 DEF TargetsAreNewer, SavesHaveTargets, Memories, LocalsTypeOK
      <3>4. CASE f \in forgotten \cup outdated
        BY <1>1, <3>4 DEF Covered
      <3>5. ASSUME NEW j \in Visible, target[w] <= j, f \in body[j], ~ Pending(j)
            PROVE  Covered(f, m)'
        <4>1. j \in Memories /\ j <= created /\ j \in Nat
          BY <1>0 DEF Visible, Live, StoreTypeOK, Memories
        <4>2. j \notin shown[w]
          BY <1>0, <2>3, <3>5, <4>1, <3>3 DEF TargetsAreNewer
        <4>3. m <= j
          BY <1>4, <3>3, <3>5, <4>1
        <4>4. body'[j] = body[j] /\ ~ Pending(j)'
          BY <4>1, <3>5, PendingStep, BodiesKept
        <4>5. CASE j \in Visible'
          BY <3>5, <4>3, <4>4, <4>5 DEF Covered
        <4>6. CASE j \notin Visible'
          <5>1. body[j] \subseteq forgotten' \cup outdated'
            BY <2>3, <4>2, <4>6, VisibleEffects
          <5>2. QED
            BY <3>5, <5>1 DEF Covered
        <4>7. QED
          BY <4>5, <4>6
      <3>6. QED
        BY <3>2, <3>4, <3>5 DEF Covered
    <2>4. QED
      BY <1>4, <2>1, <2>2, <2>3, VisibleEffects
  <1>5. QED
    BY <1>2, <1>3, <1>4 DEF Covered

LEMMA AcceptedStep ==
  ASSUME Settled, FactInv, NEW w \in Writers, Step(w)
  PROVE  \A f \in accepted' : Covered(f, 0)'
  <1>0. /\ TypeOK /\ LocalsTypeOK /\ StoreTypeOK /\ StagesByKind /\ TargetsAreOwn
        /\ SavesHaveTargets /\ Editors = {}
    BY SettledParts DEF Settled
  <1>1. ASSUME NEW f \in accepted PROVE Covered(f, 0)'
    BY <1>1, CoveredStep DEF FactInv
  <1>2. CASE accepted' = accepted
    BY <1>1, <1>2
  <1>3. CASE stage[w] = "text" /\ target[w] \in Visible /\ accepted' = accepted \cup draft[w]
    <2>1. ~ Pending(target[w])
      BY <1>0, <1>3 DEF Pending, TargetsAreOwn
    <2>2. body[target[w]] = draft[w] /\ target[w] \in Memories
      BY <1>0, <1>3 DEF FactInv, RowsSayDrafts, SavesHaveTargets
    <2>3. \A f \in draft[w] : Covered(f, 0)
      BY <1>3, <2>1, <2>2 DEF Covered, Memories
    <2>4. QED
      BY <1>1, <1>3, <2>3, CoveredStep
  <1>4. \/ accepted' = accepted
        \/ stage[w] = "text" /\ target[w] \in Visible /\ accepted' = accepted \cup draft[w]
    <2> USE DEF history
    <2>1. CASE StartSave(w)
      BY <2>1 DEF StartSave
    <2>2. CASE Insert(w)
      BY <2>2 DEF Insert
    <2>3. CASE InsertFails(w)
      BY <2>3 DEF InsertFails
    <2>4. CASE SaveVector(w)
      BY <2>4 DEF SaveVector
    <2>5. CASE Rollback(w)
      BY <2>5 DEF Rollback
    <2>6. CASE IndexText(w)
      BY <2>6 DEF IndexText
    <2>7. CASE ReadForEdit(w)
      BY <2>7 DEF ReadForEdit
    <2>8. CASE WriteEdit(w)
      BY <2>8 DEF WriteEdit
    <2>9. CASE WriteEditFails(w)
      BY <2>9 DEF WriteEditFails
    <2>10. CASE Reembed(w)
      BY <2>10 DEF Reembed
    <2>11. CASE Forget(w)
      BY <2>11 DEF Forget
    <2>12. CASE RemoveVector(w)
      BY <2>12 DEF RemoveVector
    <2>13. CASE RemoveText(w)
      BY <2>13 DEF RemoveText
    <2>14. CASE Recall(w)
      BY <2>14 DEF Recall
    <2>15. CASE Decide(w)
      BY <2>15 DEF Decide
    <2>16. CASE RemoveNext(w)
      BY <2>16 DEF RemoveNext
    <2>17. CASE ReplaceNext(w)
      BY <2>17 DEF ReplaceNext
    <2>18. CASE DecisionFails(w)
      BY <2>18 DEF DecisionFails
    <2>19. CASE Snapshot(w)
      BY <2>19 DEF Snapshot
    <2>20. CASE Retire(w)
      BY <2>20 DEF Retire
    <2>21. QED
      BY <2>1, <2>2, <2>3, <2>4, <2>5, <2>6, <2>7, <2>8, <2>9, <2>10, <2>11, <2>12,
         <2>13, <2>14, <2>15, <2>16, <2>17, <2>18, <2>19, <2>20 DEF Step

  <1>5. QED
    BY <1>2, <1>3, <1>4

LEMMA ReplacementsCoveredStep ==
  ASSUME Settled, FactInv, NEW w \in Writers, Step(w)
  PROVE  ReplacementsAreCovered'
  <1>0. /\ TypeOK /\ LocalsTypeOK /\ StoreTypeOK /\ StagesByKind /\ TargetsAreOwn
        /\ SavesHaveTargets /\ Editors = {} /\ WritersKnowRows /\ TargetsAreNewer
        /\ Mergers \subseteq Writers /\ created \in Nat /\ RowsSayDrafts
    BY SettledParts DEF Settled, Writers, FactInv
  <1>1. ASSUME NEW v \in Writers, v # w
        PROVE  stage'[v] = stage[v] /\ target'[v] = target[v] /\ draft'[v] = draft[v]
    BY <1>0, <1>1, OthersKept
  \* A merge that is past its vector.
  <1>2. ASSUME NEW v \in Mergers, stage[v] \in {"text", "retiring"},
               target'[v] = target[v], draft'[v] = draft[v]
        PROVE  \A f \in draft'[v] : Covered(f, target[v])'
    <2>1. target[v] \in Nat
      BY <1>0, <1>2 DEF SavesHaveTargets, Memories
    <2>2. QED
      BY <1>2, <2>1, CoveredStep DEF FactInv, ReplacementsAreCovered
  \* A merge whose vector is still to be written.
  <1>3. ASSUME NEW v \in Mergers, stage[v] = "vector",
               target'[v] = target[v], draft'[v] = draft[v], v = w => stage'[v] = "text"
        PROVE  target'[v] \in Visible' \/ \A f \in draft'[v] : Covered(f, target[v])'
    <2>1. target[v] \in Nat /\ target[v] \in Memories /\ v \in Writers
      BY <1>0, <1>3 DEF SavesHaveTargets, Memories
    <2>2. CASE \A f \in draft[v] : Covered(f, target[v])
      BY <1>3, <2>1, <2>2, CoveredStep
    <2>3. CASE target[v] \in Visible /\ target[v] \notin Visible'
      <3>1. body[target[v]] = draft[v]
        BY <1>0, <1>3, <2>1 DEF RowsSayDrafts
      <3>2. ~ (stage[w] = "rollback" /\ target[w] = target[v])
        BY <1>0, <1>3, <2>1 DEF TargetsAreOwn
      <3>3. CASE body[target[v]] \subseteq forgotten' \cup outdated'
        BY <1>3, <3>1, <3>3 DEF Covered
      <3>4. CASE w \in Mergers /\ stage[w] = "retiring" /\ target[v] \in shown[w]
        <4>1. draft[v] \subseteq draft[w]
          BY <3>1, <3>4 DEF FactInv, ReplacementsSayAll
        <4>2. target[v] < target[w] /\ target[w] \in Nat
          BY <1>0, <3>4 DEF TargetsAreNewer, SavesHaveTargets, Memories
        <4>3. \A f \in draft[v] : Covered(f, target[w])
          BY <3>4, <4>1 DEF FactInv, ReplacementsAreCovered
        <4>4. \A f \in draft[v] : Covered(f, target[v])
          BY <2>1, <4>2, <4>3, <1>0 DEF Covered, Visible, Live, Memories
        <4>5. QED
          BY <1>3, <2>1, <4>4, CoveredStep
      <3>5. QED
        BY <2>3, <3>2, <3>3, <3>4, VisibleEffects
    <2>4. QED
      BY <1>3, <2>2, <2>3 DEF FactInv, ReplacementsAreCovered
  <1>4. ASSUME NEW v \in Mergers, v # w
        PROVE  /\ stage'[v] \in {"text", "retiring"} => \A f \in draft'[v] : Covered(f, target[v])'
               /\ stage'[v] = "vector" =>
                    target'[v] \in Visible' \/ \A f \in draft'[v] : Covered(f, target[v])'
    BY <1>0, <1>1, <1>2, <1>3, <1>4
  <1>5. ASSUME w \in Mergers
        PROVE  /\ stage'[w] \in {"text", "retiring"} => \A f \in draft'[w] : Covered(f, target[w])'
               /\ stage'[w] = "vector" =>
                    target'[w] \in Visible' \/ \A f \in draft'[w] : Covered(f, target[w])'
    <2>0. w \notin Savers \cup Editors \cup Forgetters \cup Pipelines
      BY <1>5, WritersAssumption
    <2>1. CASE Insert(w) /\ stage'[w] = "vector"
      <3>1. /\ target' = [target EXCEPT ![w] = created + 1] /\ created + 1 \in Memories
            /\ state' = [state EXCEPT ![created + 1] = "live"] /\ replacedBy' = replacedBy
        BY <2>1, <1>0 DEF Insert, InsertRow, Finish, GoTo, LocalsTypeOK
      <3>2. target'[w] = created + 1 /\ state'[created + 1] = "live"
        BY <3>1, <1>0 DEF LocalsTypeOK, StoreTypeOK
      <3>3. replacedBy[created + 1] = None
        BY <3>1, <1>0 DEF Settled, PointerInv, ReplacementsAreNewer, Memories, StoreTypeOK, None
      <3>4. QED
        BY <2>1, <3>1, <3>2, <3>3 DEF Visible, Live
    <2>2. CASE SaveVector(w) /\ stage'[w] = "text"
      <3>1. stage[w] = "vector" /\ target'[w] = target[w] /\ draft'[w] = draft[w]
        BY <2>2 DEF SaveVector, Proceed
      <3>2. CASE \A f \in draft'[w] : Covered(f, target[w])'
        BY <2>2, <3>2
      <3>3. CASE target'[w] \in Visible'
        <4>1. target[w] \in Memories /\ target[w] <= created
          BY <1>0, <1>5, <3>1 DEF SavesHaveTargets, WritersKnowRows
        <4>2. body'[target[w]] = draft[w]
          BY <1>0, <3>1, <4>1, BodiesKept DEF RowsSayDrafts
        <4>3. \A v \in Writers : v # w /\ stage'[v] \in {"vector", "rollback"} => target'[v] # target[w]
          BY <1>0, <1>1, <3>1 DEF TargetsAreOwn
        <4>4. ~ Pending(target[w])'
          BY <2>2, <3>1, <4>3 DEF Pending
        <4>5. QED
          BY <2>2, <3>1, <3>3, <4>1, <4>2, <4>4 DEF Covered, Memories
      <3>4. QED
        BY <1>3, <1>5, <2>2, <3>1, <3>2, <3>3
    <2>3. CASE IndexText(w)
      <3>1. stage[w] = "text" /\ stage'[w] = "retiring" /\ target'[w] = target[w] /\ draft'[w] = draft[w]
        BY <1>0, <1>5, <2>0, <2>3 DEF IndexText, Proceed, GoTo, LocalsTypeOK
      <3>2. QED
        BY <1>2, <1>5, <3>1
    <2>4. \/ stage'[w] \notin {"text", "retiring", "vector"}
          \/ Insert(w) /\ stage'[w] = "vector"
          \/ SaveVector(w) /\ stage'[w] = "text"
          \/ IndexText(w)
      <3> USE <1>0, <2>0 DEF LocalsTypeOK, StagesByKind, Finish, Proceed, GoTo, locals
      <3>1. CASE StartSave(w)
        BY <3>1 DEF StartSave
      <3>2. CASE Insert(w)
        BY <3>2 DEF Insert
      <3>3. CASE InsertFails(w)
        BY <3>3 DEF InsertFails
      <3>4. CASE SaveVector(w)
        BY <3>4 DEF SaveVector
      <3>5. CASE Rollback(w)
        BY <3>5 DEF Rollback
      <3>6. CASE IndexText(w)
        BY <3>6 DEF IndexText
      <3>7. CASE ReadForEdit(w)
        BY <3>7 DEF ReadForEdit
      <3>8. CASE WriteEdit(w)
        BY <3>8 DEF WriteEdit
      <3>9. CASE WriteEditFails(w)
        BY <3>9 DEF WriteEditFails
      <3>10. CASE Reembed(w)
        BY <3>10 DEF Reembed
      <3>11. CASE Forget(w)
        BY <3>11 DEF Forget
      <3>12. CASE RemoveVector(w)
        BY <3>12 DEF RemoveVector
      <3>13. CASE RemoveText(w)
        BY <3>13 DEF RemoveText
      <3>14. CASE Recall(w)
        BY <3>14 DEF Recall
      <3>15. CASE Decide(w)
        BY <3>15 DEF Decide
      <3>16. CASE RemoveNext(w)
        BY <3>16 DEF RemoveNext
      <3>17. CASE ReplaceNext(w)
        BY <3>17 DEF ReplaceNext
      <3>18. CASE DecisionFails(w)
        BY <3>18 DEF DecisionFails
      <3>19. CASE Snapshot(w)
        BY <3>19 DEF Snapshot
      <3>20. CASE Retire(w)
        BY <3>20 DEF Retire
      <3>21. QED
        BY <3>1, <3>2, <3>3, <3>4, <3>5, <3>6, <3>7, <3>8, <3>9, <3>10, <3>11, <3>12, <3>13, <3>14, <3>15, <3>16, <3>17, <3>18, <3>19, <3>20 DEF Step
    <2>5. QED
      BY <2>1, <2>2, <2>3, <2>4
  <1>6. QED
    BY <1>0, <1>4, <1>5 DEF ReplacementsAreCovered

LEMMA FactInvInit == Init => FactInv
  <1> SUFFICES ASSUME Init PROVE FactInv
    OBVIOUS
  <1>1. \A w \in Writers : stage[w] = "idle"
    BY DEF Init
  <1>2. Mergers \subseteq Writers
    BY DEF Writers
  <1>3. RowsSayDrafts /\ ReplacementsSayAll /\ ReplacementsAreCovered
    BY <1>1, <1>2 DEF RowsSayDrafts, ReplacementsSayAll, ReplacementsAreCovered
  <1>4. \A f \in accepted : Covered(f, 0)
    <2> SUFFICES ASSUME NEW f \in 1..Saved PROVE Covered(f, 0)
      BY DEF Init
    <2>1. f \in Memories /\ f <= Saved
      BY StoreAssumption DEF Memories
    <2>2. f \in Visible /\ f \in body[f] /\ 0 <= f
      BY <2>1 DEF Init, StoreInit, Visible, Live, FactsOfSaved, Memories
    <2>3. ~ Pending(f)
      BY <1>1 DEF Pending
    <2>4. QED
      BY <2>2, <2>3 DEF Covered
  <1>5. QED
    BY <1>3, <1>4 DEF FactInv

LEMMA FactInvStep ==
  ASSUME Settled, FactInv, [Next]_vars PROVE FactInv'
  <1>1. ASSUME NEW w \in Writers, Step(w) PROVE FactInv'
    BY <1>1, DraftsStep, SayAllStep, ReplacementsCoveredStep, AcceptedStep DEF FactInv
  <1>2. CASE Crash
    <2>1. \A w \in Writers : stage'[w] = "idle"
      BY <1>2 DEF Crash
    <2>2. Mergers \subseteq Writers
      BY DEF Writers
    <2>3. RowsSayDrafts' /\ ReplacementsSayAll' /\ ReplacementsAreCovered'
      BY <2>1, <2>2 DEF RowsSayDrafts, ReplacementsSayAll, ReplacementsAreCovered
    <2>4. \A k : ~ Pending(k)'
      BY <2>1 DEF Pending
    <2>5. UNCHANGED <<store, history>>
      BY <1>2 DEF Crash
    <2>6. \A f \in accepted' : Covered(f, 0)'
      BY <2>4, <2>5 DEF FactInv, Covered, Visible, Live, store, tables, history
    <2>7. QED
      BY <2>3, <2>6 DEF FactInv
  <1>3. CASE UNCHANGED vars
    BY <1>3 DEF vars, FactInv, RowsSayDrafts, ReplacementsSayAll, ReplacementsAreCovered,
       Covered, Pending, Visible, Live, store, tables, locals, history
  <1>4. QED
    BY <1>1, <1>2, <1>3 DEF Next

\* Without edits everything that was saved can be recalled until it is deleted
\* or replaced on request, whatever is merged, fails, crashes or interleaves.
THEOREM MergingLosesNothing == ASSUME Editors = {} PROVE Spec => []NothingIsLost
  <1>1. Init => Settled /\ FactInv
    BY PointerInvInit, SaveInvInit, FactInvInit DEF Settled
  <1>2. Settled /\ FactInv /\ [Next]_vars => (Settled /\ FactInv)'
    BY PointerInvStep, SaveInvStep, FactInvStep DEF Settled
  <1>3. FactInv => NothingIsLost
    BY DEF FactInv, Covered, NothingIsLost, VisibleFacts
  <1>4. QED
    BY <1>1, <1>2, <1>3, PTL DEF Spec

\* Without edits a save, a merge or a candidate that fails, dies or interleaves
\* half way neither loses a fact nor leaves a memory half findable.
THEOREM HalfWrittenIsHarmless == ASSUME Editors = {} PROVE Spec => []NothingIsHalfDone
  <1>1. NothingIsLost /\ NeverKeywordOnly => NothingIsHalfDone
    BY DEF NothingIsHalfDone
  <1>2. Spec => []NothingIsLost
    BY MergingLosesNothing
  <1>3. Spec => []NeverKeywordOnly
    BY NothingIsKeywordOnly
  <1>4. QED
    BY <1>1, <1>2, <1>3, PTL

-----------------------------------------------------------------------------
(* The indexes, while nothing fails.                                       *)

\* The stages at which a writer has its memory half done.
Busy == {"vector", "text", "rewrite", "relabel", "reembed", "unvector", "untext"}

\* How far the row and the vector of its memory are then.
HalfDone(w) ==
  /\ stage[w] \in {"vector", "reembed"} =>
       target[w] \in Live /\ body[target[w]] = draft[w]
  /\ stage[w] \in {"text", "relabel"} =>
       target[w] \in Live /\ body[target[w]] = draft[w] /\ vector[target[w]] = draft[w]
  /\ stage[w] = "rewrite" => target[w] \in Live
  /\ stage[w] \in {"unvector", "untext"} => state[target[w]] = "deleted"
  /\ stage[w] = "untext" => vector[target[w]] = NoEntry

\* A memory no two writers were on together: the indexes agree with its row,
\* or its only writer is about to see to it.
CaredFor(m) ==
  /\ \A v, w \in Writers : target[v] = m /\ target[w] = m => v = w
  /\ \A w \in Writers : target[w] = m => HalfDone(w)
  /\ InStep(m) \/ \E w \in Writers : target[w] = m /\ stage[w] \in Busy

UndisturbedInv ==
  /\ \A w \in Writers : stage[w] # "rollback" /\ (stage[w] \in Busy => target[w] # None)
  /\ \A m \in (1..created) \ shared : CaredFor(m)

IndexInv == faults = 0 /\ crashes = 0 => UndisturbedInv

LEMMA FaultsGrow ==
  ASSUME faults \in Nat, NEW w \in Writers, Step(w) PROVE faults' >= faults
  <1>1. UNCHANGED faults \/ Fault
    BY DEF Step, StartSave, Insert, InsertFails, SaveVector, Rollback, IndexText,
       ReadForEdit, WriteEdit, WriteEditFails, Reembed, Forget, RemoveVector, RemoveText, Recall,
       Decide, RemoveNext, ReplaceNext, DecisionFails, Snapshot, Retire, store, Audited, Unaudited,
       NothingDone, MergeRows, PutVector, PutVectorFails, DropVector, PutKeywords, DropKeywords
  <1>2. QED
    BY <1>1 DEF Fault

\* What a step of w leaves of the memories w is not on, before or after.
RowKept(m) ==
  /\ state'[m] = state[m] /\ body'[m] = body[m]
  /\ vector'[m] = vector[m] /\ keywords'[m] = keywords[m]

\* What a step of w does, while nothing fails, to the memories it is on.
StepOf(w) ==
  /\ created' \in {created, created + 1} /\ shared \subseteq shared'
  /\ \A m \in Memories \ {target[w], target'[w]} : RowKept(m)
  /\ created' # created => target'[w] = created'
  /\ stage'[w] # "rollback" /\ (stage'[w] \in Busy => target'[w] # None)
  \* a memory it comes to is its own, or was shared
  /\ target'[w] \in {None, target[w]} \cup shared'
       \/ \A v \in Writers : v # w => target[v] # target'[w]
  /\ \A m \in (1..created') \ shared' : target'[w] = m =>
       HalfDone(w)' /\ (InStep(m)' \/ stage'[w] \in Busy)
  \* one it leaves is done
  /\ \A m \in (1..created) \ shared' : target[w] = m /\ target'[w] # m => InStep(m)'

LEMMA RowsAreMemories == TypeOK => 1..created \subseteq Memories
  BY StoreAssumption DEF TypeOK, StoreTypeOK, Memories

LEMMA FreeIsInStep ==
  ASSUME UndisturbedInv, NEW w \in Writers, stage[w] \notin Busy,
         NEW m \in (1..created) \ shared, \A v \in Writers : v # w => target[v] # m
  PROVE  InStep(m)
  BY DEF UndisturbedInv, CaredFor

\* Steps that write no row or index, between stages that have none half done.
LEMMA IdleSteps ==
  ASSUME PointerInv, UndisturbedInv, NEW w \in Writers,
         stage[w] \notin Busy, stage'[w] \notin Busy \cup {"rollback"},
         target'[w] \in {None, target[w]},
         UNCHANGED <<created, state, body, vector, keywords, shared>>
  PROVE  StepOf(w)
  <1>1. created \in Nat /\ target[w] # None => target[w] \in Memories
    BY DEF PointerInv, TypeOK
  <1>2. ASSUME NEW m \in (1..created) \ shared, m = target[w] PROVE InStep(m)
    <2>1. \A v \in Writers : v # w => target[v] # m
      BY <1>2 DEF UndisturbedInv, CaredFor
    <2>2. QED
      BY <1>2, <2>1, FreeIsInStep
  <1>3. ASSUME NEW m, InStep(m) PROVE InStep(m)'
    BY <1>3 DEF InStep, Live
  <1>4. HalfDone(w)'
    BY DEF HalfDone, Busy
  <1>5. QED
    BY <1>1, <1>2, <1>3, <1>4 DEF StepOf, RowKept, None

LEMMA InsertingStep ==
  ASSUME PointerInv, UndisturbedInv, NEW w \in Writers, Insert(w), faults' = faults
  PROVE  StepOf(w)
  <1>0. TypeOK /\ StoreTypeOK /\ LocalsTypeOK /\ WritersKnowRows
    BY DEF PointerInv, TypeOK, LocalsTypeOK
  <1>1. PICK m \in Memories :
          /\ m = created + 1 /\ created' = m /\ state' = [state EXCEPT ![m] = "live"]
          /\ body' = [body EXCEPT ![m] = draft[w]]
          /\ stage' = [stage EXCEPT ![w] = "vector"] /\ target' = [target EXCEPT ![w] = m]
          /\ stage[w] = "insert" /\ UNCHANGED <<draft, vector, keywords, shared>>
    <2>1. ~ Fault
      BY <1>0, StoreAssumption DEF StoreTypeOK, Fault
    <2>2. QED
      BY <2>1 DEF Insert, InsertRow, GoTo, Unaudited, indexes, history
  <1>2. /\ stage'[w] = "vector" /\ target'[w] = m /\ created \in Nat /\ m # None
        /\ \A k \in Memories \ {m} : RowKept(k)
        /\ \A v \in Writers : target[v] # m
    BY <1>0, <1>1 DEF LocalsTypeOK, StoreTypeOK, RowKept, WritersKnowRows, Memories, None
  <1>3. HalfDone(w)'
    BY <1>0, <1>1, <1>2 DEF HalfDone, Live, StoreTypeOK
  <1>4. ASSUME NEW k \in (1..created) \ shared, k = target[w] PROVE InStep(k)'
    <2>1. k \in Memories /\ k # m
      BY <1>0, <1>1, <1>2, <1>4, RowsAreMemories
    <2>2. \A v \in Writers : v # w => target[v] # k
      BY <1>4 DEF UndisturbedInv, CaredFor
    <2>3. InStep(k)
      BY <1>1, <1>4, <2>1, <2>2, FreeIsInStep DEF Busy
    <2>4. QED
      BY <1>2, <2>1, <2>3 DEF InStep, RowKept, Live
  <1>5. QED
    BY <1>1, <1>2, <1>3, <1>4 DEF StepOf, Busy

\* Steps that come to a memory: an edit, a deletion.
LEMMA ReadingStep ==
  ASSUME PointerInv, UndisturbedInv, NEW w \in Writers, ReadForEdit(w)
  PROVE  StepOf(w)
  <1>0. TypeOK /\ StoreTypeOK /\ LocalsTypeOK /\ WritersKnowRows
    BY DEF PointerInv, TypeOK, LocalsTypeOK
  <1>1. PICK m \in Live :
          /\ stage[w] = "idle" /\ target' = [target EXCEPT ![w] = m] /\ Touch(w, m)
          /\ \/ stage' = [stage EXCEPT ![w] = "rewrite"]
             \/ stage' = [stage EXCEPT ![w] = "relabel"] /\ draft' = [draft EXCEPT ![w] = body[m]]
          /\ UNCHANGED store
    BY DEF ReadForEdit, GoTo
  <1>2. /\ m \in Memories /\ m # None /\ m \in 1..created /\ created \in Nat
        /\ state[m] = "live" /\ target'[w] = m
        /\ UNCHANGED <<created, state, body, vector, keywords>>
        /\ shared' = IF \E v \in Writers \ {w} : target[v] = m THEN shared \cup {m} ELSE shared
    BY <1>0, <1>1 DEF StoreTypeOK, LocalsTypeOK, Live, Memories, None, store, tables, indexes, Touch
  <1>3. ASSUME NEW k \in (1..created) \ shared', k \in {m, target[w]} PROVE InStep(k)'
    <2>1. \A v \in Writers : v # w => target[v] # k
      BY <1>2, <1>3 DEF UndisturbedInv, CaredFor
    <2>2. InStep(k)
      BY <1>1, <1>2, <1>3, <2>1, FreeIsInStep DEF Busy
    <2>3. QED
      BY <1>2, <2>2 DEF InStep, Live
  <1>4. ASSUME m \notin shared' PROVE HalfDone(w)'
    <2>1. InStep(m)'
      BY <1>2, <1>3, <1>4
    <2>2. m \in Live' /\ vector'[m] = body'[m] /\ body'[m] = body[m]
      BY <1>2, <2>1 DEF InStep, Live
    <2>3. stage'[w] \in {"rewrite", "relabel"}
          /\ (stage'[w] = "relabel" => draft'[w] = body[m])
      BY <1>0, <1>1 DEF LocalsTypeOK
    <2>4. QED
      BY <1>2, <2>2, <2>3 DEF HalfDone
  <1>5. stage'[w] \in Busy \ {"rollback"}
    BY <1>0, <1>1 DEF LocalsTypeOK, Busy
  <1>6. \A k \in Memories : RowKept(k)
    BY <1>2 DEF RowKept
  <1>7. target'[w] \in shared' \/ \A v \in Writers : v # w => target[v] # target'[w]
    BY <1>2
  <1>8. QED
    BY <1>2, <1>3, <1>4, <1>5, <1>6, <1>7 DEF StepOf

LEMMA DeletingStep ==
  ASSUME PointerInv, UndisturbedInv, NEW w \in Writers, stage[w] \in {"idle", "removing"},
         NEW m \in Memories, DeleteRow(m), Touch(w, m), UNCHANGED indexes,
         stage' = [stage EXCEPT ![w] = "unvector"], target' = [target EXCEPT ![w] = m]
  PROVE  StepOf(w)
  <1>0. TypeOK /\ StoreTypeOK /\ LocalsTypeOK
    BY DEF PointerInv, TypeOK, LocalsTypeOK
  <1>1. /\ m # None /\ m \in 1..created /\ created \in Nat /\ created' = created
        /\ state'[m] = "deleted" /\ target'[w] = m /\ stage'[w] = "unvector"
        /\ \A k \in Memories \ {m} : RowKept(k)
        /\ shared' = IF \E v \in Writers \ {w} : target[v] = m THEN shared \cup {m} ELSE shared
    BY <1>0 DEF StoreTypeOK, LocalsTypeOK, Memories, None, indexes, Touch, DeleteRow, RowKept
  <1>2. ASSUME NEW k \in (1..created) \ shared', k = target[w], k # m PROVE InStep(k)'
    <2>1. \A v \in Writers : v # w => target[v] # k
      BY <1>1, <1>2 DEF UndisturbedInv, CaredFor
    <2>2. InStep(k)
      BY <1>1, <1>2, <2>1, FreeIsInStep DEF Busy
    <2>3. k \in Memories
      BY <1>0, <1>2, RowsAreMemories
    <2>4. QED
      BY <1>1, <1>2, <2>2, <2>3 DEF InStep, Live, RowKept
  <1>3. HalfDone(w)'
    BY <1>1 DEF HalfDone
  <1>4. target'[w] \in shared' \/ \A v \in Writers : v # w => target[v] # target'[w]
    BY <1>1
  <1>5. QED
    BY <1>1, <1>2, <1>3, <1>4 DEF StepOf, Busy

\* Steps of a writer on the memory it is at.
LEMMA WorkingStep ==
  ASSUME PointerInv, UndisturbedInv, NEW w \in Writers, stage[w] \in Busy, faults' = faults,
         \/ SaveVector(w) \/ IndexText(w) \/ WriteEdit(w) \/ WriteEditFails(w)
         \/ Reembed(w) \/ RemoveVector(w) \/ RemoveText(w)
  PROVE  StepOf(w)
  <1>0. TypeOK /\ StoreTypeOK /\ LocalsTypeOK /\ WritersKnowRows
    BY DEF PointerInv, TypeOK, LocalsTypeOK
  <1>1. PICK m \in Memories : m = target[w] /\ m \in 1..created /\ m # None
    BY <1>0 DEF UndisturbedInv, LocalsTypeOK, WritersKnowRows, Memories
  <1>2. created \in Nat /\ faults \in Nat
    BY <1>0, StoreAssumption DEF StoreTypeOK
  <1>3. ASSUME m \notin shared PROVE HalfDone(w)
    BY <1>1, <1>3 DEF UndisturbedInv, CaredFor
  <1>4. ~ Fault
    BY <1>2 DEF Fault
  <1>5. UNCHANGED <<created, shared>>
    BY DEF SaveVector, IndexText, WriteEdit, WriteEditFails, Reembed, RemoveVector, RemoveText,
           tables, history, store, NothingDone, UpdateRow
  <1>6. ASSUME NEW k \in Memories \ {m} PROVE RowKept(k)
    BY <1>0, <1>1, <1>4, <1>6
       DEF SaveVector, IndexText, WriteEdit, WriteEditFails, Reembed, RemoveVector, RemoveText,
           tables, indexes, store, NothingDone, UpdateRow, PutVector, PutVectorFails, DropVector,
           PutKeywords, DropKeywords, RowKept, StoreTypeOK
  <1>7. target'[w] \in {None, m} /\ stage'[w] # "rollback" /\ (stage'[w] \in Busy => target'[w] = m)
    BY <1>0, <1>1, <1>4
       DEF SaveVector, IndexText, WriteEdit, WriteEditFails, Reembed, RemoveVector, RemoveText,
           LocalsTypeOK, Proceed, Finish, GoTo, PutVectorFails, Unaudited, Busy
  <1>8. ASSUME m \notin shared
        PROVE  \/ stage'[w] \in Busy /\ HalfDone(w)'
               \/ stage'[w] \notin Busy /\ InStep(m)'
    <2>0. HalfDone(w)
      BY <1>3, <1>8
    <2>1. CASE SaveVector(w)
      <3>1. /\ vector' = [vector EXCEPT ![m] = draft[w]] /\ stage'[w] = "text" /\ target'[w] = m
            /\ draft'[w] = draft[w] /\ UNCHANGED <<state, body>>
        BY <1>0, <1>1, <1>4, <2>1
           DEF SaveVector, PutVector, PutVectorFails, Proceed, GoTo, LocalsTypeOK, tables
      <3>2. stage[w] = "vector" /\ vector'[m] = draft[w]
        BY <1>0, <2>1, <3>1 DEF SaveVector, StoreTypeOK
      <3>3. QED
        BY <1>1, <2>0, <3>1, <3>2 DEF HalfDone, Live, Busy
    <2>2. CASE IndexText(w)
      <3>1. /\ keywords' = [keywords EXCEPT ![m] = draft[w]]
            /\ stage[w] = "text" /\ stage'[w] \in {"idle", "replacing", "retiring"}
            /\ UNCHANGED <<vector, state, body>>
        BY <1>0, <1>1, <1>4, <2>2
           DEF IndexText, PutKeywords, Proceed, Finish, GoTo, LocalsTypeOK, tables
      <3>2. m \in Live /\ body[m] = draft[w] /\ vector[m] = draft[w] /\ keywords'[m] = draft[w]
        BY <1>0, <1>1, <2>0, <3>1 DEF HalfDone, StoreTypeOK
      <3>3. QED
        BY <3>1, <3>2 DEF InStep, Live, Busy
    <2>3. CASE WriteEdit(w)
      <3>1. /\ body' = [body EXCEPT ![m] = draft[w]]
            /\ stage'[w] = IF stage[w] = "rewrite" THEN "reembed" ELSE "text"
            /\ stage[w] \in {"rewrite", "relabel"}
            /\ target'[w] = m /\ draft'[w] = draft[w] /\ UNCHANGED <<vector, state>>
        BY <1>0, <1>1, <1>4, <2>3
           DEF WriteEdit, UpdateRow, Unaudited, Proceed, GoTo, LocalsTypeOK, indexes
      <3>2. m \in Live' /\ body'[m] = draft'[w]
        BY <1>0, <1>1, <2>0, <3>1 DEF HalfDone, StoreTypeOK, Live
      <3>3. stage[w] = "relabel" => vector'[m] = draft'[w]
        BY <1>1, <2>0, <3>1 DEF HalfDone
      <3>4. QED
        BY <3>1, <3>2, <3>3 DEF HalfDone, Busy
    <2>4. CASE WriteEditFails(w)
      <3>1. m \notin Live /\ stage[w] \in {"rewrite", "relabel"}
        BY <1>1, <1>4, <2>4 DEF WriteEditFails, NothingDone
      <3>2. QED
        BY <1>1, <2>0, <3>1 DEF HalfDone
    <2>5. CASE Reembed(w)
      <3>1. /\ vector' = [vector EXCEPT ![m] = draft[w]] /\ stage'[w] = "text" /\ target'[w] = m
            /\ draft'[w] = draft[w] /\ UNCHANGED <<state, body>>
        BY <1>0, <1>1, <1>4, <2>5
           DEF Reembed, PutVector, PutVectorFails, Proceed, GoTo, LocalsTypeOK, tables
      <3>2. stage[w] = "reembed" /\ vector'[m] = draft[w]
        BY <1>0, <2>5, <3>1 DEF Reembed, StoreTypeOK
      <3>3. QED
        BY <1>1, <2>0, <3>1, <3>2 DEF HalfDone, Live, Busy
    <2>6. CASE RemoveVector(w)
      <3>1. /\ vector' = [vector EXCEPT ![m] = NoEntry] /\ stage'[w] = "untext" /\ target'[w] = m
            /\ stage[w] = "unvector" /\ UNCHANGED <<state, body>>
        BY <1>0, <1>1, <1>4, <2>6
           DEF RemoveVector, DropVector, Proceed, GoTo, LocalsTypeOK, tables
      <3>2. vector'[m] = NoEntry
        BY <1>0, <3>1 DEF StoreTypeOK
      <3>3. QED
        BY <1>1, <2>0, <3>1, <3>2 DEF HalfDone, Busy
    <2>7. CASE RemoveText(w)
      <3>1. /\ keywords' = [keywords EXCEPT ![m] = NoEntry]
            /\ stage[w] = "untext" /\ stage'[w] \in {"idle", "removing", "insert"}
            /\ UNCHANGED <<vector, state, body>>
        BY <1>0, <1>1, <1>4, <2>7
           DEF RemoveText, DropKeywords, Proceed, Finish, GoTo, LocalsTypeOK, tables
      <3>2. m \notin Live' /\ vector'[m] = NoEntry /\ keywords'[m] = NoEntry
        BY <1>0, <1>1, <2>0, <3>1 DEF HalfDone, StoreTypeOK, Live
      <3>3. QED
        BY <3>1, <3>2 DEF InStep, Busy
    <2>8. QED
      BY <2>1, <2>2, <2>3, <2>4, <2>5, <2>6, <2>7
  <1>9. ASSUME stage'[w] \notin Busy PROVE HalfDone(w)'
    BY <1>9 DEF HalfDone, Busy
  <1>10. \A k \in Memories \ {target[w], target'[w]} : RowKept(k)
    BY <1>1, <1>6
  <1>11. target'[w] \in {None, target[w]} /\ (stage'[w] \in Busy => target'[w] # None)
    BY <1>1, <1>7
  <1>12. ASSUME NEW k \in (1..created') \ shared', target'[w] = k
         PROVE  HalfDone(w)' /\ (InStep(k)' \/ stage'[w] \in Busy)
    <2>1. k = m
      BY <1>1, <1>2, <1>5, <1>7, <1>12 DEF None
    <2>2. QED
      BY <1>5, <1>8, <1>9, <1>12, <2>1
  <1>13. ASSUME NEW k \in (1..created) \ shared', target[w] = k, target'[w] # k PROVE InStep(k)'
    BY <1>1, <1>5, <1>7, <1>8, <1>13
  <1>14. QED
    BY <1>5, <1>7, <1>10, <1>11, <1>12, <1>13 DEF StepOf

LEMMA StepsOf ==
  ASSUME PointerInv, UndisturbedInv, NEW w \in Writers, Step(w), faults' = faults
  PROVE  StepOf(w)
  <1>0. TypeOK /\ LocalsTypeOK /\ faults \in Nat
    BY StoreAssumption DEF PointerInv, TypeOK, StoreTypeOK, LocalsTypeOK
  <1>1. ~ Fault
    BY <1>0 DEF Fault
  <1>2. stage[w] # "rollback"
    BY DEF UndisturbedInv
  <1>3. CASE StartSave(w) \/ Recall(w) \/ Decide(w) \/ Snapshot(w)
    <2>1. /\ UNCHANGED <<created, state, body, vector, keywords, shared, target>>
          /\ stage[w] \in {"idle", "deciding"} /\ stage'[w] \in {"idle", "insert", "deciding", "removing"}
      BY <1>0, <1>3 DEF StartSave, Recall, Decide, Snapshot, GoTo, LocalsTypeOK, store, tables,
         indexes, history
    <2>2. QED
      BY <2>1, IdleSteps DEF Busy
  <1>4. CASE ReplaceNext(w) \/ Retire(w) \/ DecisionFails(w)
    <2>1. /\ UNCHANGED <<created, state, body, vector, keywords, shared>>
          /\ stage[w] \in {"removing", "replacing", "retiring"}
      BY <1>1, <1>4 DEF ReplaceNext, Retire, DecisionFails, NothingDone, SupersedeRow, MergeRows,
         store, tables, indexes, history
    <2>2. target'[w] \in {None, target[w]} /\ stage'[w] \in {"idle", "replacing"}
      BY <1>0, <1>4 DEF ReplaceNext, Retire, DecisionFails, Finish, GoTo, LocalsTypeOK
    <2>3. QED
      BY <2>1, <2>2, IdleSteps DEF Busy
  <1>5. CASE InsertFails(w) \/ Rollback(w)
    BY <1>1, <1>2, <1>5 DEF InsertFails, NothingDone, Rollback
  <1>6. CASE Forget(w)
    <2>1. PICK m \in 1..created :
            /\ stage[w] = "idle" /\ DeleteRow(m) /\ Touch(w, m) /\ UNCHANGED indexes
            /\ stage' = [stage EXCEPT ![w] = "unvector"] /\ target' = [target EXCEPT ![w] = m]
      BY <1>1, <1>6 DEF Forget, Unaudited, GoTo
    <2>2. m \in Memories
      BY <1>0, RowsAreMemories
    <2>3. QED
      BY <2>1, <2>2, DeletingStep
  <1>7. CASE RemoveNext(w)
    <2>1. PICK m \in removals[w] :
            /\ stage[w] = "removing" /\ DeleteRow(m) /\ Touch(w, m) /\ UNCHANGED indexes
            /\ stage' = [stage EXCEPT ![w] = "unvector"] /\ target' = [target EXCEPT ![w] = m]
      BY <1>1, <1>7 DEF RemoveNext, Unaudited, GoTo
    <2>2. m \in Memories
      BY <1>0 DEF LocalsTypeOK
    <2>3. QED
      BY <2>1, <2>2, DeletingStep
  <1>8. CASE SaveVector(w) \/ IndexText(w) \/ WriteEdit(w) \/ WriteEditFails(w)
             \/ Reembed(w) \/ RemoveVector(w) \/ RemoveText(w)
    <2>1. stage[w] \in Busy
      BY <1>8 DEF SaveVector, IndexText, WriteEdit, WriteEditFails, Reembed, RemoveVector,
         RemoveText, Busy
    <2>2. QED
      BY <1>8, <2>1, WorkingStep
  <1>9. QED
    BY <1>3, <1>4, <1>5, <1>6, <1>7, <1>8, InsertingStep, ReadingStep DEF Step

\* One writer's step leaves the others' memories as they are.
LEMMA UndisturbedStays ==
  ASSUME PointerInv, UndisturbedInv, NEW w \in Writers, Step(w), StepOf(w)
  PROVE  UndisturbedInv'
  <1>0. TypeOK /\ LocalsTypeOK /\ WritersKnowRows /\ created \in Nat
    BY DEF PointerInv, TypeOK, StoreTypeOK, LocalsTypeOK
  <1>1. \A v \in Writers : v # w =>
          stage'[v] = stage[v] /\ target'[v] = target[v] /\ draft'[v] = draft[v]
    BY <1>0, OthersKept
  <1>2. \A v \in Writers : stage'[v] # "rollback" /\ (stage'[v] \in Busy => target'[v] # None)
    BY <1>1 DEF StepOf, UndisturbedInv
  <1>3. ASSUME NEW m \in (1..created') \ shared' PROVE CaredFor(m)'
    <2>1. created' \in Nat /\ m \in 1..created' /\ m # None
      BY <1>0, <1>3 DEF StepOf, None
    <2>2. m \in (1..created) \ shared \/ (m = created' /\ created' = created + 1)
      BY <1>0, <1>3 DEF StepOf
    <2>3. CASE m = target'[w]
      <3>1. \A v \in Writers : target[v] = m => v = w
        <4>1. CASE m = target[w]
          BY <1>0, <1>3, <2>1, <2>2, <4>1 DEF UndisturbedInv, CaredFor, WritersKnowRows
        <4>2. CASE m # target[w]
          BY <1>3, <2>1, <2>3, <4>2 DEF StepOf
        <4>3. QED
          BY <4>1, <4>2
      <3>2. \A v \in Writers : target'[v] = m => v = w
        BY <1>1, <3>1
      <3>3. HalfDone(w)' /\ (InStep(m)' \/ stage'[w] \in Busy)
        BY <1>3, <2>3 DEF StepOf
      <3>4. QED
        BY <2>3, <3>2, <3>3 DEF CaredFor
    <2>4. CASE m # target'[w]
      <3>1. m \in (1..created) \ shared
        BY <2>2, <2>4 DEF StepOf
      <3>2. CaredFor(m)
        BY <3>1 DEF UndisturbedInv
      <3>3. \A v \in Writers : target'[v] = m => v # w /\ target[v] = m
        BY <1>1, <2>4
      <3>4. CASE m = target[w]
        <4>1. InStep(m)'
          BY <1>3, <2>4, <3>1, <3>4 DEF StepOf
        <4>2. \A v \in Writers : target'[v] # m
          BY <3>2, <3>3, <3>4 DEF CaredFor
        <4>3. QED
          BY <4>1, <4>2 DEF CaredFor
      <3>5. CASE m # target[w]
        <4>1. m \in Memories
          BY <1>0, <3>1, RowsAreMemories
        <4>2. RowKept(m)
          BY <2>4, <3>5, <4>1 DEF StepOf
        <4>3. InStep(m) => InStep(m)'
          BY <4>2 DEF RowKept, InStep, Live
        <4>4. ASSUME NEW v \in Writers, target'[v] = m PROVE HalfDone(v)'
          <5>1. HalfDone(v) /\ v # w
            BY <3>2, <3>3, <4>4 DEF CaredFor
          <5>2. QED
            BY <1>1, <3>3, <4>2, <4>4, <5>1 DEF HalfDone, RowKept, Live
        <4>5. ASSUME NEW v \in Writers, target[v] = m, stage[v] \in Busy
              PROVE  target'[v] = m /\ stage'[v] \in Busy
          BY <1>1, <3>5, <4>5
        <4>6. \A u, v \in Writers : target'[u] = m /\ target'[v] = m => u = v
          BY <3>2, <3>3 DEF CaredFor
        <4>7. QED
          BY <3>2, <4>3, <4>4, <4>5, <4>6 DEF CaredFor
      <3>6. QED
        BY <3>4, <3>5
    <2>5. QED
      BY <2>3, <2>4
  <1>4. QED
    BY <1>2, <1>3 DEF UndisturbedInv

LEMMA IndexInvStep ==
  ASSUME PointerInv, IndexInv, [Next]_vars PROVE IndexInv'
  <1> SUFFICES ASSUME faults' = 0, crashes' = 0 PROVE UndisturbedInv'
    BY DEF IndexInv
  <1>0. faults \in Nat /\ crashes \in Nat /\ TypeOK
    BY StoreAssumption, WritersAssumption DEF PointerInv, TypeOK, StoreTypeOK
  <1>1. ASSUME NEW w \in Writers, Step(w) PROVE UndisturbedInv'
    <2>1. crashes' = crashes
      BY <1>1, HistoryStep DEF Step, StartSave, Insert, InsertFails, SaveVector, Rollback, IndexText,
         ReadForEdit, WriteEdit, WriteEditFails, Reembed, Forget, RemoveVector, RemoveText, Recall,
         Decide, RemoveNext, ReplaceNext, DecisionFails, Snapshot, Retire
    <2>2. faults' >= faults
      BY <1>0, <1>1, FaultsGrow
    <2>3. faults = 0
      BY <1>0, <2>2
    <2>4. UndisturbedInv
      BY <2>1, <2>3 DEF IndexInv
    <2>5. StepOf(w)
      BY <1>1, <2>3, <2>4, StepsOf
    <2>6. QED
      BY <1>1, <2>4, <2>5, UndisturbedStays
  <1>2. CASE Crash
    BY <1>0, <1>2 DEF Crash
  <1>3. CASE UNCHANGED vars
    <2>1. UndisturbedInv
      BY <1>3 DEF IndexInv, vars, store
    <2>2. UNCHANGED <<stage, target, draft, created, state, body, vector, keywords, shared>>
      BY <1>3 DEF vars, store, tables, indexes, locals, history
    <2>3. QED
      BY <2>1, <2>2 DEF UndisturbedInv, CaredFor, HalfDone, InStep, Live
  <1>4. QED
    BY <1>1, <1>2, <1>3 DEF Next

LEMMA IndexInvInit == Init => IndexInv
  <1> SUFFICES ASSUME Init PROVE UndisturbedInv
    BY DEF IndexInv
  <1>1. /\ created = Saved /\ \A w \in Writers : stage[w] = "idle" /\ target[w] = None
        /\ \A m \in 1..Saved : InStep(m)
    BY StoreAssumption DEF Init, StoreInit, InStep, Live, Memories
  <1>2. QED
    BY <1>1 DEF UndisturbedInv, CaredFor, HalfDone, Busy, None

\* For any number of writers of each kind, with any interleaving: while nothing
\* failed, every memory that one operation at a time wrote is in both indexes
\* as its row has it once nobody is writing, and in neither when it is deleted
\* (direct_memory_saver.rs, memory_updater.rs, memory_forgetter.rs).
THEOREM IndexesAgreeAlways == Spec => []IndexesAgreeWhenQuiet
  <1>1. Init => PointerInv /\ IndexInv
    BY PointerInvInit, IndexInvInit
  <1>2. PointerInv /\ IndexInv /\ [Next]_vars => (PointerInv /\ IndexInv)'
    BY PointerInvStep, IndexInvStep
  <1>3. IndexInv => IndexesAgreeWhenQuiet
    BY DEF IndexInv, UndisturbedInv, CaredFor, IndexesAgreeWhenQuiet, Quiet, Busy
  <1>4. QED
    BY <1>1, <1>2, <1>3, PTL DEF Spec

=============================================================================
