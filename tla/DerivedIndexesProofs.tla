------------------------ MODULE DerivedIndexesProofs ------------------------
(***************************************************************************)
(* Proofs about DerivedIndexes, for any users, memories, models, chunk     *)
(* size and number of faults.                                              *)
(***************************************************************************)
EXTENDS DerivedIndexes, TLAPS

LEMMA Constants ==
  /\ Owner \in [Memories -> Users]
  /\ None \notin Models
  /\ Dimensions \in [Models -> Nat \ {0}]
  /\ MaxUpgrades \in Nat /\ MaxFaults \in Nat
  BY IndexesAssumption DEF IndexesAssumption

-----------------------------------------------------------------------------
(* Type correctness, with what a rebuild and the writers have in hand.     *)

\* A batch was listed for the user the rebuild is at.
BatchIsListed == batch # {} => left # {} /\ batch \subseteq VisibleOf(Here)

\* Writes are under way while the daemon serves or a pass runs, and on rows
\* that are there.
WritesAreServed ==
  \A m \in Memories :
    doing[m] # "nothing" =>
      /\ Writing /\ row[m] # "absent"
      /\ doing[m] = "untext" <=> row[m] = "deleted"

Shape == TypeOK /\ BatchIsListed /\ WritesAreServed

LEMMA ShapeInit == Init => Shape
  BY Constants DEF Init, Shape, TypeOK, BatchIsListed, WritesAreServed, Writing

LEMMA HereIsAUser ==
  ASSUME Shape, batch # {} PROVE Here \in Users
  <1>1. PICK m \in batch : m \in VisibleOf(Here)
    BY DEF Shape, BatchIsListed
  <1>. QED
    BY <1>1, Constants DEF VisibleOf, Of, Shape, TypeOK

\* Nothing is left to rebuild when no rebuild runs.
LEMMA WalkOver ==
  ASSUME Shape, Writing \/ proc = "down" PROVE left = {} /\ batch = {}
  BY DEF Shape, TypeOK, BatchIsListed, Writing

LEMMA FaultCounts ==
  ASSUME Shape, Fault PROVE faults' \in 0..MaxFaults /\ upgrades' = upgrades
  BY Constants DEF Fault, Shape, TypeOK

\* A step of a writer.
LEMMA ShapeOfWrites ==
  ASSUME Shape, NEW m \in Memories, Write(m) PROVE Shape'
  <1> USE Constants DEF Shape, TypeOK, table, text, vector, walk, bounds, history
  <1>1. Writing
    BY DEF Write, SaveRow, PutVector, PutVectorFails, Edit, IndexText, Supersede,
           Forget, RemoveText, WritesAreServed, Writing
  <1>2. UNCHANGED <<proc, left, batch, model>> /\ batch = {} /\ left = {}
    BY <1>1, WalkOver DEF Write, SaveRow, PutVector, PutVectorFails, Edit, IndexText,
                          Supersede, Forget, RemoveText
  <1> USE <1>1 DEF Writing
  <1>3. BatchIsListed'
    BY <1>2 DEF BatchIsListed
  <1>4. CASE SaveRow(m)
    BY <1>2, <1>3, <1>4, FaultCounts DEF SaveRow, Pin, Does, WritesAreServed, Writing
  <1>5. CASE PutVector(m)
    BY <1>2, <1>3, <1>5 DEF PutVector, Does, WritesAreServed, Writing
  <1>6. CASE PutVectorFails(m)
    BY <1>2, <1>3, <1>6, FaultCounts DEF PutVectorFails, Does, WritesAreServed, Writing
  <1>7. CASE Edit(m)
    BY <1>2, <1>3, <1>7, FaultCounts DEF Edit, Live, Does, WritesAreServed, Writing
  <1>8. CASE IndexText(m)
    <2>1. TypeOK'
      BY <1>2, <1>8, FaultCounts DEF IndexText, Touch, OpenIndex, Reindexed, WriteFails, Does
    <2>. QED
      BY <1>2, <1>3, <1>8, <2>1 DEF IndexText, Does, WritesAreServed, Writing
  <1>9. CASE Supersede(m)
    BY <1>2, <1>3, <1>9 DEF Supersede, WritesAreServed, Writing
  <1>10. CASE Forget(m)
    BY <1>2, <1>3, <1>10, FaultCounts DEF Forget, Live, Does, WritesAreServed, Writing
  <1>11. CASE RemoveText(m)
    <2>1. TypeOK'
      BY <1>2, <1>11, FaultCounts DEF RemoveText, Touch, OpenIndex, WriteFails, Does
    <2>. QED
      BY <1>2, <1>3, <1>11, <2>1 DEF RemoveText, Does, WritesAreServed, Writing
  <1>. QED
    BY <1>4, <1>5, <1>6, <1>7, <1>8, <1>9, <1>10, <1>11 DEF Write

\* A step of a rebuild, at startup or of the command.
LEMMA ShapeOfRebuild ==
  ASSUME Shape, Rebuild PROVE Shape'
  <1> USE Constants DEF Shape, TypeOK, table, text, vector, walk, bounds, history
  <1>1. proc \in {"rebuilding", "repairing"}
    BY DEF Rebuild, ListUser, SkipUser, IndexChunk, ChunkFails, EndRebuild, BatchIsListed
  <1>2. UNCHANGED <<row, doing>> /\ \A m \in Memories : doing[m] = "nothing"
    BY <1>1 DEF Rebuild, ListUser, SkipUser, IndexChunk, ChunkFails, EndRebuild,
                WritesAreServed, Writing
  <1>3. WritesAreServed'
    BY <1>2 DEF WritesAreServed, Writing
  <1>4. CASE ListUser
    <2>1. VisibleOf(Here) \subseteq Memories
      BY DEF VisibleOf, Of
    <2>2. left' = left => VisibleOf(Here)' = VisibleOf(Here)
      BY <1>2 DEF Here, VisibleOf, Of
    <2>. QED
      BY <1>3, <1>4, <2>1, <2>2 DEF ListUser, BatchIsListed
  <1>5. CASE SkipUser
    <2>1. VisibleOf(Here) # {} => Here \in Users
      BY DEF VisibleOf, Of
    <2>. QED
      BY <1>3, <1>5, <2>1, FaultCounts DEF SkipUser, BatchIsListed
  <1>6. CASE IndexChunk
    <2>1. PICK chunk \in SUBSET batch :
            /\ Upsert(Here, chunk) /\ batch' = batch \ chunk /\ behind' = behind \ chunk
      BY <1>6 DEF IndexChunk
    <2>2. Here \in Users
      BY <1>6, HereIsAUser DEF IndexChunk
    <2>3. left' = left => VisibleOf(Here)' = VisibleOf(Here)
      BY <1>2 DEF Here, VisibleOf, Of
    <2>4. BatchIsListed'
      BY <1>6, <2>1, <2>3 DEF IndexChunk, BatchIsListed
    <2>5. docs' \in [Memories -> Nat] /\ directory' \subseteq Users
      BY <2>1, <2>2 DEF Upsert, OpenIndex, Reindexed
    <2>. QED
      BY <1>1, <1>3, <1>6, <2>1, <2>2, <2>4, <2>5 DEF IndexChunk
  <1>7. CASE ChunkFails
    <2>1. Here \in Users
      BY <1>7, HereIsAUser DEF ChunkFails
    <2>. QED
      BY <1>3, <1>7, <2>1, FaultCounts DEF ChunkFails, OpenIndex, BatchIsListed
  <1>8. CASE EndRebuild
    <2>1. batch = {}
      BY <1>8 DEF EndRebuild, BatchIsListed
    <2>. QED
      BY <1>3, <1>8, <2>1 DEF EndRebuild, BatchIsListed
  <1>. QED
    BY <1>4, <1>5, <1>6, <1>7, <1>8 DEF Rebuild

\* What happens between two runs of the process, and searches.
Around ==
  \/ Open("rebuilding") \/ Open("repairing") \/ Open("consolidating")
  \/ Stop \/ Crash \/ Configure \/ Upgrade \/ Reindex

LEMMA ShapeAround ==
  ASSUME Shape, Around \/ (\E u \in Users : Search(u)) PROVE Shape'
  <1> USE Constants DEF Shape, TypeOK, table, text, vector, walk, bounds, history
  <1>1. ASSUME NEW p \in {"rebuilding", "repairing", "consolidating"}, Open(p) PROVE Shape'
    BY <1>1, WalkOver DEF Open, OpenVectorTable, BatchIsListed, WritesAreServed, Writing
  <1>2. CASE Stop
    BY <1>2, WalkOver DEF Stop, BatchIsListed, WritesAreServed, Writing
  <1>3. CASE Crash
    BY <1>3, FaultCounts DEF Crash, BatchIsListed, WritesAreServed, Writing
  <1>4. CASE Configure
    BY <1>4, WalkOver DEF Configure, BatchIsListed, WritesAreServed, Writing
  <1>5. CASE Upgrade
    BY <1>5, WalkOver DEF Upgrade, BatchIsListed, WritesAreServed, Writing
  <1>6. CASE Reindex
    BY <1>6, WalkOver DEF Reindex, BatchIsListed, WritesAreServed, Writing
  <1>7. ASSUME NEW u \in Users, Search(u) PROVE Shape'
    BY <1>7, WalkOver DEF Search, OpenIndex, BatchIsListed, WritesAreServed, Writing
  <1>. QED
    BY <1>1, <1>2, <1>3, <1>4, <1>5, <1>6, <1>7 DEF Around

LEMMA ShapeStep == Shape /\ [Next]_vars => Shape'
  <1> SUFFICES ASSUME Shape, [Next]_vars PROVE Shape'
    OBVIOUS
  <1>1. CASE UNCHANGED vars
    BY <1>1 DEF vars, Shape, TypeOK, BatchIsListed, WritesAreServed, Writing, VisibleOf, Of, Here,
                table, text, vector, walk, bounds, history
  <1>. QED
    BY <1>1, ShapeOfWrites, ShapeOfRebuild, ShapeAround DEF Next, Around

\* The variables keep their types, and a rebuild has nothing left while the
\* daemon serves or is down.
THEOREM TypeCorrect == Spec => []TypeOK
  <1>1. Spec => []Shape
    BY ShapeInit, ShapeStep, PTL DEF Spec
  <1>. QED
    BY <1>1, PTL DEF Shape

-----------------------------------------------------------------------------
(* The vector table.                                                       *)

\* Every vector is of the model its user is pinned to, a user with rows is
\* pinned, and a process that runs has checked the pins.
VectorInv ==
  /\ \A m \in Memories : vectors[m] \in {None, pinned[Owner[m]]}
  /\ \A m \in Memories : row[m] # "absent" => pinned[Owner[m]] # None
  /\ proc # "down" => PinsMatch

LEMMA VectorInvInit == Init => VectorInv
  BY Constants DEF Init, VectorInv

\* Steps that leave the table, the vectors and the pins alone, and start nothing.
LEMMA VectorsUntouched ==
  ASSUME VectorInv, UNCHANGED <<row, vectors, pinned, model>>, proc' \in {proc, "down"}
         \/ (proc # "down" /\ proc' # "down")
  PROVE  VectorInv'
  BY DEF VectorInv, PinsMatch

LEMMA VectorInvStep == Shape /\ Shape' /\ VectorInv /\ [Next]_vars => VectorInv'
  <1> SUFFICES ASSUME Shape, Shape', VectorInv, [Next]_vars PROVE VectorInv'
    OBVIOUS
  <1> USE Constants DEF VectorInv, Shape, TypeOK, PinsMatch, table, text, vector, walk, bounds, history
  <1>1. CASE UNCHANGED vars
    BY <1>1, VectorsUntouched DEF vars
  <1>2. ASSUME NEW m \in Memories, SaveRow(m) PROVE VectorInv'
    BY <1>2 DEF SaveRow, Pin
  <1>3. ASSUME NEW m \in Memories, PutVector(m) PROVE VectorInv'
    BY <1>3 DEF PutVector, WritesAreServed, Writing
  <1>4. ASSUME NEW m \in Memories, PutVectorFails(m) PROVE VectorInv'
    BY <1>4 DEF PutVectorFails, WritesAreServed, Writing
  <1>5. ASSUME NEW m \in Memories, Edit(m) PROVE VectorInv'
    BY <1>5 DEF Edit, Live
  <1>6. ASSUME NEW m \in Memories, IndexText(m) \/ RemoveText(m) PROVE VectorInv'
    BY <1>6, VectorsUntouched DEF IndexText, RemoveText
  <1>7. ASSUME NEW m \in Memories, Supersede(m) PROVE VectorInv'
    BY <1>7 DEF Supersede
  <1>8. ASSUME NEW m \in Memories, Forget(m) PROVE VectorInv'
    BY <1>8 DEF Forget, Live
  <1>9. CASE Rebuild
    BY <1>9, VectorsUntouched
       DEF Rebuild, ListUser, SkipUser, IndexChunk, ChunkFails, EndRebuild, BatchIsListed
  <1>10. ASSUME NEW p \in {"rebuilding", "repairing", "consolidating"}, Open(p) PROVE VectorInv'
    BY <1>10 DEF Open
  <1>11. CASE Stop \/ Crash \/ Upgrade \/ \E u \in Users : Search(u)
    BY <1>11, VectorsUntouched DEF Stop, Crash, Upgrade, Search
  <1>12. CASE Configure
    BY <1>12 DEF Configure
  <1>13. CASE Reindex
    BY <1>13 DEF Reindex, Live
  <1>. QED
    BY <1>1, <1>2, <1>3, <1>4, <1>5, <1>6, <1>7, <1>8, <1>9, <1>10, <1>11, <1>12, <1>13
       DEF Next, Write

\* What is ranked by vector while the daemon serves was computed by one model.
THEOREM ComparableAlways == Spec => []VectorsComparable
  <1>1. Shape /\ VectorInv => VectorsComparable
    BY Constants DEF Shape, TypeOK, VectorInv, PinsMatch, VectorsComparable
  <1>. QED
    BY <1>1, ShapeInit, ShapeStep, VectorInvInit, VectorInvStep, PTL DEF Spec

LEMMA NoVectorIsLostStep == Shape /\ NoVectorIsLost /\ [Next]_vars => NoVectorIsLost'
  <1> SUFFICES ASSUME Shape, NoVectorIsLost, [Next]_vars PROVE NoVectorIsLost'
    OBVIOUS
  <1> USE Constants DEF NoVectorIsLost, Live, Shape, TypeOK, table, text, vector, walk, bounds, history
  <1>1. CASE UNCHANGED vars
    BY <1>1 DEF vars
  <1>2. ASSUME NEW m \in Memories, SaveRow(m) \/ PutVector(m) \/ PutVectorFails(m)
        PROVE  NoVectorIsLost'
    BY <1>2 DEF SaveRow, Pin, PutVector, PutVectorFails
  <1>3. ASSUME NEW m \in Memories, Edit(m) PROVE NoVectorIsLost'
    BY <1>3 DEF Edit
  <1>4. ASSUME NEW m \in Memories, IndexText(m) \/ RemoveText(m) PROVE NoVectorIsLost'
    BY <1>4 DEF IndexText, RemoveText
  <1>5. ASSUME NEW m \in Memories, Supersede(m) \/ Forget(m) PROVE NoVectorIsLost'
    BY <1>5 DEF Supersede, Forget
  <1>6. CASE Rebuild
    BY <1>6 DEF Rebuild, ListUser, SkipUser, IndexChunk, ChunkFails, EndRebuild
  <1>7. ASSUME NEW p, Open(p) PROVE NoVectorIsLost'
    BY <1>7 DEF Open
  <1>8. CASE Stop \/ Crash \/ Upgrade \/ Configure \/ \E u \in Users : Search(u)
    BY <1>8 DEF Stop, Crash, Upgrade, Configure, Search
  <1>9. CASE Reindex
    BY <1>9 DEF Reindex
  <1>. QED
    BY <1>1, <1>2, <1>3, <1>4, <1>5, <1>6, <1>7, <1>8, <1>9 DEF Next, Write

\* Rebuilding the table for another model leaves no memory without a vector.
THEOREM NoVectorIsEverLost == Spec => []NoVectorIsLost
  <1>1. Init => NoVectorIsLost
    BY DEF Init, NoVectorIsLost, Live
  <1>. QED
    BY <1>1, ShapeInit, ShapeStep, NoVectorIsLostStep, PTL DEF Spec

\* The vector index is never one that cannot be searched: nothing is missing
\* from it but what failed to be written, nothing is of another model.
THEOREM VectorsAreAlwaysWhole == Spec => []VectorsAreWhole
  <1>1. VectorsComparable /\ NoVectorIsLost => VectorsAreWhole
    BY DEF VectorsAreWhole
  <1>. QED
    BY <1>1, ComparableAlways, NoVectorIsEverLost, PTL

-----------------------------------------------------------------------------
(* The keyword index.                                                      *)

LEMMA NoMemoryTwiceStep == Shape /\ NoMemoryTwice /\ [Next]_vars => NoMemoryTwice'
  <1> SUFFICES ASSUME Shape, NoMemoryTwice, [Next]_vars PROVE NoMemoryTwice'
    OBVIOUS
  <1> USE DEF NoMemoryTwice, Shape, TypeOK, text, vars
  <1>1. CASE UNCHANGED docs
    BY <1>1
  <1>2. ASSUME NEW chunk, docs' = Reindexed(chunk) PROVE NoMemoryTwice'
    BY <1>2 DEF Reindexed
  <1>3. ASSUME NEW m \in Memories, WriteFails(m) PROVE NoMemoryTwice'
    BY <1>3 DEF WriteFails
  <1>4. ASSUME NEW m \in Memories, Write(m) PROVE NoMemoryTwice'
    BY <1>1, <1>2, <1>3, <1>4 DEF Write, SaveRow, PutVector, PutVectorFails, Edit,
       IndexText, Touch, Supersede, Forget, RemoveText
  <1>5. CASE Rebuild
    BY <1>1, <1>2, <1>5
       DEF Rebuild, ListUser, SkipUser, IndexChunk, Upsert, ChunkFails, EndRebuild
  <1>6. CASE \/ Stop \/ Crash \/ Upgrade \/ Configure \/ Reindex
             \/ Open("rebuilding") \/ Open("repairing") \/ Open("consolidating")
             \/ \E u \in Users : Search(u)
    BY <1>1, <1>6 DEF Stop, Crash, Upgrade, Configure, Reindex, Open, Search
  <1>. QED
    BY <1>1, <1>4, <1>5, <1>6 DEF Next

\* No search returns a memory twice.
THEOREM NoMemoryIsTwice == Spec => []NoMemoryTwice
  <1>1. Init => NoMemoryTwice
    BY DEF Init, NoMemoryTwice
  <1>. QED
    BY <1>1, ShapeInit, ShapeStep, NoMemoryTwiceStep, PTL DEF Spec

\* A memory whose last keyword write is done is in the index if it is visible.
Indexed(m) == row[m] = "visible" /\ m \notin behind => docs[m] > 0

\* Entries are where there are rows and directories, deletions that are done
\* left none, and a write that is under way is not done.
NoStrayEntries ==
  \A m \in Memories :
    /\ docs[m] > 0 => row[m] # "absent" /\ Owner[m] \in directory
    /\ docs[m] > 0 /\ row[m] = "deleted" => m \in behind
    /\ doing[m] = "vector" => docs[m] = 0
    /\ doing[m] # "nothing" => m \in behind

\* A directory is a whole index, unless its first fill was not done; so are the
\* indexes of the users a startup rebuild is done with, and all when it ends.
Whole(u) == \A m \in Memories : Owner[m] = u => Indexed(m)
DirectoriesAreWhole == \A u \in directory \ partial : Whole(u)
RebuiltAreWhole ==
  proc = "rebuilding" => \A u \in Users \ partial : u \in left \/ Whole(u)
ServedAreWhole == proc = "serving" => \A u \in Users \ partial : Whole(u)

\* What a rebuild has taken out of a batch is in the index.
ChunksAreIndexed == \A m \in Memories :
  batch # {} /\ m \in VisibleOf(Here) /\ m \notin batch => docs[m] > 0

TextInv ==
  /\ NoStrayEntries
  /\ DirectoriesAreWhole
  /\ RebuiltAreWhole
  /\ ServedAreWhole
  /\ ChunksAreIndexed

LEMMA TextInvInit == Init => TextInv
  BY Constants DEF Init, TextInv, NoStrayEntries, DirectoriesAreWhole, RebuiltAreWhole,
     ServedAreWhole, ChunksAreIndexed

\* Beside writes no batch is listed.  What they may disturb are the indexes of
\* all users while the daemon serves, and those with a directory otherwise.
LEMMA TextInvOfWrites ==
  ASSUME Shape, Shape', TextInv, NEW m \in Memories, Write(m) PROVE TextInv'
  <1> USE Constants DEF Shape, TypeOK, table, text, vector, walk, bounds, history
  <1>1. Writing
    BY DEF Write, SaveRow, PutVector, PutVectorFails, Edit, IndexText, Supersede,
           Forget, RemoveText, WritesAreServed, Writing
  <1>2. UNCHANGED <<proc, batch>> /\ batch = {}
    BY <1>1, WalkOver DEF Write, SaveRow, PutVector, PutVectorFails, Edit, IndexText,
                          Supersede, Forget, RemoveText
  <1>3. ChunksAreIndexed' /\ RebuiltAreWhole'
    BY <1>1, <1>2 DEF ChunksAreIndexed, RebuiltAreWhole, Writing
  <1>4. \/ UNCHANGED <<directory, partial>>
        \/ Touch(m)
    BY DEF Write, SaveRow, PutVector, PutVectorFails, Edit, IndexText, Supersede,
           Forget, RemoveText, WriteFails
  <1> DEFINE Kept == IF proc = "serving" THEN Users \ partial ELSE directory \ partial
  <1>5. /\ directory' \ partial' \subseteq Kept
        /\ proc = "serving" => Users \ partial' \subseteq Kept
    BY <1>1, <1>4 DEF Touch, OpenIndex, Writing
  <1>6. \A u \in Kept : Whole(u)
    BY DEF TextInv, DirectoriesAreWhole, ServedAreWhole
  <1>7. SUFFICES NoStrayEntries' /\ \A n \in Memories : Owner[n] \in Kept => Indexed(n)'
    BY <1>2, <1>3, <1>5 DEF TextInv, DirectoriesAreWhole, ServedAreWhole, Whole
  <1>8. NoStrayEntries /\ \A n \in Memories : Owner[n] \in Kept => Indexed(n)
    BY <1>6 DEF TextInv, Whole
  <1>9. directory \subseteq directory'
    BY <1>4 DEF Touch, OpenIndex
  <1> HIDE DEF Kept
  <1> USE <1>8, <1>9 DEF NoStrayEntries, Indexed
  <1>10. CASE SaveRow(m)
    BY <1>10 DEF SaveRow, Pin, Does
  <1>11. CASE PutVector(m)
    BY <1>11 DEF PutVector, Does
  <1>12. CASE PutVectorFails(m)
    BY <1>12 DEF PutVectorFails, Does
  <1>13. CASE Edit(m)
    BY <1>13 DEF Edit, Live, Does
  <1>14. CASE IndexText(m) \/ RemoveText(m)
    <2>1. /\ UNCHANGED row /\ doing' = [doing EXCEPT ![m] = "nothing"]
          /\ doing[m] \in {"text", "untext"} /\ row[m] # "absent"
          /\ doing[m] = "untext" <=> row[m] = "deleted"
      BY <1>14 DEF IndexText, RemoveText, Does, WritesAreServed
    <2>2. \/ UNCHANGED directory /\ UNCHANGED docs
          \/ Owner[m] \in directory'
      BY <1>14 DEF IndexText, RemoveText, WriteFails, Touch, OpenIndex
    <2>3. /\ \A n \in Memories \ {m} : docs'[n] = docs[n]
          /\ \/ UNCHANGED behind
             \/ behind' = behind \ {m} /\ docs'[m] = IF row[m] = "deleted" THEN 0 ELSE 1
      BY <1>14, <2>1 DEF IndexText, RemoveText, WriteFails, Reindexed
    <2>. QED
      BY <2>1, <2>2, <2>3
  <1>15. CASE Supersede(m)
    BY <1>15 DEF Supersede
  <1>16. CASE Forget(m)
    BY <1>16 DEF Forget, Live, Does
  <1>. QED
    BY <1>10, <1>11, <1>12, <1>13, <1>14, <1>15, <1>16 DEF Write

\* A rebuild: what it reads are visible rows, and only the chunks it commits,
\* the users it is done with and the directories it makes change.
LEMMA TextInvOfRebuild ==
  ASSUME Shape, Shape', TextInv, Rebuild PROVE TextInv'
  <1> USE Constants DEF Shape, TypeOK, table, text, vector, walk, bounds, history
  <1>1. proc \in {"rebuilding", "repairing"} /\ UNCHANGED <<row, doing>>
    BY DEF Rebuild, ListUser, SkipUser, IndexChunk, ChunkFails, EndRebuild, BatchIsListed
  <1>2. \A m \in Memories : doing[m] = "nothing"
    BY <1>1 DEF WritesAreServed, Writing
  <1>3. left' = left => Here' = Here
    BY DEF Here
  <1>4. CASE ListUser
    <2>1. UNCHANGED <<docs, directory, behind, partial, proc>> /\ batch = {}
      BY <1>4 DEF ListUser
    <2>2. NoStrayEntries' /\ DirectoriesAreWhole'
      BY <1>1, <2>1 DEF TextInv, NoStrayEntries, DirectoriesAreWhole, Whole, Indexed
    <2>3. ServedAreWhole'
      BY <1>1, <2>1 DEF ServedAreWhole
    <2>4. CASE Wanted(Here)
      <3>1. left' = left /\ batch' = VisibleOf(Here)
        BY <1>4, <2>4 DEF ListUser
      <3>2. RebuiltAreWhole'
        BY <1>1, <2>1, <3>1 DEF TextInv, RebuiltAreWhole, Whole, Indexed
      <3>3. ChunksAreIndexed'
        BY <1>1, <1>3, <3>1 DEF ChunksAreIndexed, VisibleOf, Of
      <3>. QED
        BY <2>2, <2>3, <3>2, <3>3 DEF TextInv
    <2>5. CASE ~Wanted(Here)
      <3>1. left' = left \ {Here} /\ batch' = {}
        BY <1>4, <2>1, <2>5 DEF ListUser
      <3>2. proc = "rebuilding" /\ Here \notin partial => Whole(Here)
        BY <2>5 DEF Wanted, TextInv, DirectoriesAreWhole, Whole, Indexed, VisibleOf, Of
      <3>3. RebuiltAreWhole'
        BY <1>1, <2>1, <3>1, <3>2 DEF TextInv, RebuiltAreWhole, Whole, Indexed
      <3>4. ChunksAreIndexed'
        BY <3>1 DEF ChunksAreIndexed
      <3>. QED
        BY <2>2, <2>3, <3>3, <3>4 DEF TextInv
    <2>. QED
      BY <2>4, <2>5
  <1>5. CASE SkipUser
    <2>1. /\ UNCHANGED <<docs, directory, behind, proc>> /\ batch' = {}
          /\ left' = left \ {Here} /\ partial \subseteq partial'
      BY <1>5 DEF SkipUser
    <2>2. Here \in partial' \/ Whole(Here)
      BY <1>5 DEF SkipUser, TextInv, DirectoriesAreWhole, Whole, Indexed, VisibleOf, Of
    <2>3. NoStrayEntries' /\ DirectoriesAreWhole'
      BY <1>1, <2>1 DEF TextInv, NoStrayEntries, DirectoriesAreWhole, Whole, Indexed
    <2>4. RebuiltAreWhole'
      BY <1>1, <2>1, <2>2 DEF TextInv, RebuiltAreWhole, Whole, Indexed
    <2>5. ServedAreWhole' /\ ChunksAreIndexed'
      BY <1>1, <2>1 DEF ServedAreWhole, ChunksAreIndexed
    <2>. QED
      BY <2>3, <2>4, <2>5 DEF TextInv
  <1>6. CASE IndexChunk
    <2>1. PICK chunk \in SUBSET batch :
            /\ Upsert(Here, chunk) /\ batch' = batch \ chunk /\ behind' = behind \ chunk
      BY <1>6 DEF IndexChunk
    <2>2. proc' = proc /\ Here \in Users /\ batch \subseteq VisibleOf(Here)
      BY <1>6, HereIsAUser DEF IndexChunk, BatchIsListed
    <2>3. /\ directory' = directory \cup {Here}
          /\ \A m \in Memories : docs'[m] = IF m \in chunk THEN 1 ELSE docs[m]
      BY <2>1 DEF Upsert, OpenIndex, Reindexed
    <2>4. \A m \in chunk : m \in Memories /\ row[m] = "visible" /\ Owner[m] = Here
      BY <2>1, <2>2 DEF VisibleOf, Of
    <2>5. NoStrayEntries'
      BY <1>1, <1>2, <2>1, <2>3, <2>4 DEF TextInv, NoStrayEntries
    <2>6. \A m \in Memories : Indexed(m) => Indexed(m)'
      BY <1>1, <2>1, <2>3 DEF Indexed
    <2>7. \A m \in VisibleOf(Here) : m \notin batch' => docs'[m] > 0
      BY <1>6, <2>1, <2>3 DEF TextInv, ChunksAreIndexed, IndexChunk, VisibleOf, Of
    <2>8. CASE batch' = {}
      <3>1. left' = left \ {Here} /\ partial' = partial \ {Here}
        BY <1>6, <2>8 DEF IndexChunk
      <3>2. \A u \in Users : u = Here => Whole(u)'
        BY <1>1, <2>7, <2>8 DEF Whole, Indexed, VisibleOf, Of
      <3>3. \A u \in Users : Whole(u) => Whole(u)'
        BY <2>6 DEF Whole
      <3>4. DirectoriesAreWhole' /\ RebuiltAreWhole'
        BY <2>2, <2>3, <3>1, <3>2, <3>3 DEF TextInv, DirectoriesAreWhole, RebuiltAreWhole
      <3>5. ServedAreWhole' /\ ChunksAreIndexed'
        BY <1>1, <2>2, <2>8 DEF ServedAreWhole, ChunksAreIndexed
      <3>. QED
        BY <2>5, <3>4, <3>5 DEF TextInv
    <2>9. CASE batch' # {}
      <3>1. /\ left' = left
            /\ partial' = IF Here \in directory THEN partial ELSE partial \cup {Here}
        BY <1>6, <2>9 DEF IndexChunk
      <3>2. \A u \in Users : Whole(u) => Whole(u)'
        BY <2>6 DEF Whole
      <3>3. DirectoriesAreWhole' /\ RebuiltAreWhole'
        BY <2>2, <2>3, <3>1, <3>2 DEF TextInv, DirectoriesAreWhole, RebuiltAreWhole
      <3>4. ServedAreWhole'
        BY <1>1, <2>2 DEF ServedAreWhole
      <3>5. ChunksAreIndexed'
        BY <1>1, <1>3, <2>7, <3>1 DEF ChunksAreIndexed, VisibleOf, Of
      <3>. QED
        BY <2>5, <3>3, <3>4, <3>5 DEF TextInv
    <2>. QED
      BY <2>8, <2>9
  <1>7. CASE ChunkFails
    <2>1. UNCHANGED <<docs, behind>> /\ proc' = "down" /\ batch' = {}
      BY <1>7 DEF ChunkFails
    <2>2. \/ UNCHANGED <<directory, partial>>
          \/ /\ directory' = directory \cup {Here}
             /\ partial' = IF Here \in directory THEN partial ELSE partial \cup {Here}
      BY <1>7 DEF ChunkFails, OpenIndex
    <2>3. NoStrayEntries' /\ DirectoriesAreWhole'
      BY <1>1, <2>1, <2>2 DEF TextInv, NoStrayEntries, DirectoriesAreWhole, Whole, Indexed
    <2>. QED
      BY <2>1, <2>3 DEF TextInv, RebuiltAreWhole, ServedAreWhole, ChunksAreIndexed
  <1>8. CASE EndRebuild
    <2>1. UNCHANGED <<docs, directory, behind, partial, left, batch>> /\ left = {}
      BY <1>8 DEF EndRebuild
    <2>2. batch = {} /\ proc' \in {"serving", "down"} /\ (proc' = "serving" => proc = "rebuilding")
      BY <1>1, <1>8, <2>1 DEF EndRebuild, BatchIsListed
    <2>3. NoStrayEntries' /\ DirectoriesAreWhole'
      BY <1>1, <2>1 DEF TextInv, NoStrayEntries, DirectoriesAreWhole, Whole, Indexed
    <2>4. ServedAreWhole'
      BY <1>1, <2>1, <2>2 DEF TextInv, RebuiltAreWhole, ServedAreWhole, Whole, Indexed
    <2>. QED
      BY <2>1, <2>2, <2>3, <2>4 DEF TextInv, RebuiltAreWhole, ChunksAreIndexed
  <1>. QED
    BY <1>4, <1>5, <1>6, <1>7, <1>8 DEF Rebuild

\* Between two runs nothing is listed, and an upgrade begins with an empty index.
LEMMA TextInvAround ==
  ASSUME Shape, Shape', TextInv, Around \/ (\E u \in Users : Search(u)) PROVE TextInv'
  <1> USE Constants DEF Shape, TypeOK, table, text, vector, walk, bounds, history
  <1>1. row' = row /\ batch' = {}
    BY WalkOver DEF Around, Open, Stop, Crash, Configure, Upgrade, Reindex, Search, Writing
  <1>2. ChunksAreIndexed'
    BY <1>1 DEF ChunksAreIndexed
  <1>3. ASSUME NEW p \in {"rebuilding", "repairing", "consolidating"}, Open(p) PROVE TextInv'
    BY <1>2, <1>3 DEF Open, TextInv, NoStrayEntries, DirectoriesAreWhole, RebuiltAreWhole,
                      ServedAreWhole, Whole, Indexed
  <1>4. CASE Stop \/ Crash \/ Configure \/ Reindex
    <2>1. /\ UNCHANGED <<row, docs, directory, behind, partial>> /\ proc' = "down"
          /\ \A m \in Memories : doing'[m] \in {"nothing", doing[m]}
      BY <1>4 DEF Stop, Crash, Configure, Reindex
    <2>. QED
      BY <1>2, <2>1 DEF TextInv, NoStrayEntries, DirectoriesAreWhole, RebuiltAreWhole,
                        ServedAreWhole, Whole, Indexed
  <1>5. CASE Upgrade
    <2>1. \A m \in Memories : doing'[m] = "nothing" /\ docs'[m] = 0
      BY <1>5 DEF Upgrade, WritesAreServed, Writing
    <2>. QED
      BY <1>2, <1>5, <2>1 DEF Upgrade, TextInv, NoStrayEntries, DirectoriesAreWhole,
                              RebuiltAreWhole, ServedAreWhole
  <1>6. ASSUME NEW u \in Users, Search(u) PROVE TextInv'
    <2>1. /\ UNCHANGED <<row, doing, docs, behind, partial, proc, left>> /\ proc = "serving"
          /\ directory' = directory \cup {u}
      BY <1>6 DEF Search, OpenIndex
    <2>. QED
      BY <1>2, <2>1 DEF TextInv, NoStrayEntries, DirectoriesAreWhole, RebuiltAreWhole,
                        ServedAreWhole, Whole, Indexed
  <1>. QED
    BY <1>3, <1>4, <1>5, <1>6 DEF Around

LEMMA TextInvStep == Shape /\ Shape' /\ TextInv /\ [Next]_vars => TextInv'
  <1> SUFFICES ASSUME Shape, Shape', TextInv, [Next]_vars PROVE TextInv'
    OBVIOUS
  <1>1. CASE UNCHANGED vars
    BY <1>1 DEF vars, TextInv, NoStrayEntries, DirectoriesAreWhole, RebuiltAreWhole,
       ServedAreWhole, ChunksAreIndexed, Whole, Indexed, VisibleOf, Of, Here,
       table, text, vector, walk, bounds, history
  <1>. QED
    BY <1>1, TextInvOfWrites, TextInvOfRebuild, TextInvAround DEF Next, Around

\* Whatever was rebuilt, cut short or repaired before: while the daemon serves,
\* the keyword index has every visible memory and no deleted one, but for
\* writes and first fills that are known to have failed.
THEOREM KeywordLegIsAlwaysWhole == Spec => []KeywordLegIsWhole
  <1>1. Shape /\ TextInv => KeywordLegIsWhole
    BY Constants DEF Shape, TypeOK, TextInv, NoStrayEntries, ServedAreWhole, Whole,
       Indexed, KeywordLegIsWhole
  <1>. QED
    BY <1>1, ShapeInit, ShapeStep, TextInvInit, TextInvStep, PTL DEF Spec

=============================================================================
