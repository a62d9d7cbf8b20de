--------------------------- MODULE DerivedIndexes ---------------------------
(***************************************************************************)
(* The two indexes that are derived from the table memories, across        *)
(* starts, stops, crashes, upgrades and changes of configuration: the      *)
(* keyword index, one tantivy directory per user under a versioned root,   *)
(* with its startup rebuild and `reindex --text` (TextIndexRebuilder); and *)
(* the vector table, pinned to the model it was built with, with `reindex` *)
(* (SqliteReindexer).                                                      *)
(*                                                                         *)
(* What the entries say, and writers that overlap on one memory, are the   *)
(* subject of MemoryWriters: here a memory has one operation under way at  *)
(* a time, and entries that are there or not.  The commands run while the  *)
(* daemon is stopped, as tantivy's writer lock has it.                     *)
(***************************************************************************)
EXTENDS Integers, FiniteSets

CONSTANTS
  Users,        \* 1..n, in the order the user table lists them
  Memories,
  Owner,        \* the user each memory belongs to
  ChunkSize,    \* COMMIT_CHUNK
  Models,       \* embedding models an operator may configure
  Dimensions,   \* the width of each model's vectors
  MaxUpgrades,  \* bound: builds with another TEXT_INDEX_VERSION
  MaxFaults     \* bound: statements and index writes that fail, crashes

None == 0

ASSUME IndexesAssumption ==
  /\ Users \subseteq Nat \ {0}
  /\ Owner \in [Memories -> Users]
  /\ ChunkSize \in Nat \ {0}
  /\ None \notin Models
  /\ Dimensions \in [Models -> Nat \ {0}]
  /\ MaxUpgrades \in Nat /\ MaxFaults \in Nat

VARIABLES
  row,        \* each memory's row: "absent", "visible", "superseded", "deleted"
  doing,      \* the index write its save, edit or deletion is at
  directory,  \* users with an index directory of the current version
  docs,       \* how many documents each memory has in the index
  vectors,    \* the model each memory's vector was computed with
  pinned,     \* collections: the model a user's vectors are pinned to
  width,      \* of the vector table, 0 before it exists
  proc,       \* "down", "rebuilding" and then "serving", "repairing", "consolidating"
  model,      \* the configured model
  left,       \* users a rebuild has still to finish with
  batch,      \* listed memories of the current one it has still to index
  upgrades,   \* upgrades so far
  faults,     \* failures so far
  behind,     \* history: memories whose last keyword write is not (yet) done
  torn,       \* history: memories whose last vector write is not (yet) done
  partial     \* history: users whose directory another write made first, or with
              \* memories whose first fill was skipped or is not (yet) done

table   == <<row, doing>>
text    == <<directory, docs>>
vector  == <<vectors, pinned, width>>
walk    == <<left, batch>>
bounds  == <<upgrades, faults>>
history == <<behind, torn, partial>>
vars    == <<table, text, vector, proc, model, walk, bounds, history>>

TypeOK ==
  /\ row \in [Memories -> {"absent", "visible", "superseded", "deleted"}]
  /\ doing \in [Memories -> {"nothing", "vector", "text", "untext"}]
  /\ directory \subseteq Users
  /\ docs \in [Memories -> Nat]
  /\ vectors \in [Memories -> Models \cup {None}]
  /\ pinned \in [Users -> Models \cup {None}]
  /\ width \in Nat
  /\ proc \in {"down", "rebuilding", "serving", "repairing", "consolidating"}
  /\ model \in Models
  /\ left \subseteq Users /\ batch \subseteq Memories
  /\ left # {} => proc \in {"rebuilding", "repairing"}
  /\ upgrades \in 0..MaxUpgrades /\ faults \in 0..MaxFaults
  /\ behind \subseteq Memories /\ torn \subseteq Memories /\ partial \subseteq Users

Init ==
  /\ row = [m \in Memories |-> "absent"]
  /\ doing = [m \in Memories |-> "nothing"]
  /\ directory = {}
  /\ docs = [m \in Memories |-> 0]
  /\ vectors = [m \in Memories |-> None]
  /\ pinned = [u \in Users |-> None]
  /\ width = 0
  /\ proc = "down"
  /\ model \in Models
  /\ left = {} /\ batch = {}
  /\ upgrades = 0 /\ faults = 0
  /\ behind = {} /\ torn = {} /\ partial = {}

Fault == faults < MaxFaults /\ faults' = faults + 1 /\ UNCHANGED upgrades

Of(u) == {m \in Memories : Owner[m] = u}
VisibleOf(u) == {m \in Of(u) : row[m] = "visible"}
Live(m) == row[m] \in {"visible", "superseded"}

-----------------------------------------------------------------------------
(* TantivyTextIndex.                                                       *)

\* What the commit makes of memories that are deleted and added again.
Reindexed(chunk) == [m \in Memories |-> IF m \in chunk THEN 1 ELSE docs[m]]

\* user_index: any use of a user's index, a search too, creates the directory.
OpenIndex(u) == directory' = directory \cup {u}

Upsert(u, chunk) == OpenIndex(u) /\ docs' = Reindexed(chunk)

\* A write of one memory.  `consolidate` makes it without the startup rebuild.
Touch(m) ==
  /\ OpenIndex(Owner[m])
  /\ partial' = IF proc = "consolidating" /\ Owner[m] \notin directory
                THEN partial \cup {Owner[m]} ELSE partial

\* It fails before or after the directory was made, and what it did to the
\* memory's document is committed by a later write, or lost.
WriteFails(m) ==
  /\ Fault
  /\ \/ Touch(m) /\ \E n \in {0, 1, docs[m]} : docs' = [docs EXCEPT ![m] = n]
     \/ UNCHANGED <<text, partial>>

-----------------------------------------------------------------------------
(* Starting: verify_pin, the vector table, and the keyword rebuild, before *)
(* anything is served.                                                     *)

PinsMatch == \A u \in Users : pinned[u] \in {None, model}

\* CREATE ... IF NOT EXISTS keeps the width of a table that is there.
OpenVectorTable == width' = IF width = 0 THEN Dimensions[model] ELSE width

\* `serve`, `reindex --text`, and `consolidate`, which rebuilds nothing.
Open(p) ==
  /\ proc = "down" /\ PinsMatch
  /\ OpenVectorTable
  /\ proc' = p
  /\ left' = IF p = "consolidating" THEN {} ELSE Users
  /\ UNCHANGED <<table, text, vectors, pinned, model, batch, bounds, history>>

Here == CHOOSE u \in left : \A w \in left : u <= w

\* rebuild_missing takes a directory for a whole index.
Wanted(u) ==
  /\ proc = "rebuilding" => u \notin directory
  /\ VisibleOf(u) # {}

ListUser ==
  /\ proc \in {"rebuilding", "repairing"} /\ left # {} /\ batch = {}
  /\ IF Wanted(Here) THEN batch' = VisibleOf(Here) /\ UNCHANGED left
     ELSE left' = left \ {Here} /\ UNCHANGED batch
  /\ UNCHANGED <<table, text, vector, proc, model, bounds, history>>

\* A user that does not resolve is skipped with a warning.
SkipUser ==
  /\ proc \in {"rebuilding", "repairing"} /\ left # {} /\ batch = {}
  /\ Fault
  /\ left' = left \ {Here}
  /\ partial' = IF Here \in directory \/ VisibleOf(Here) = {} THEN partial
                ELSE partial \cup {Here}
  /\ UNCHANGED <<table, text, vector, proc, model, batch, behind, torn>>

\* The index of a user who had none is not whole until its last chunk.
IndexChunk ==
  /\ batch # {}
  /\ \E chunk \in SUBSET batch :
       /\ Cardinality(chunk) = ChunkSize \/ (chunk = batch /\ Cardinality(batch) < ChunkSize)
       /\ Upsert(Here, chunk)
       /\ batch' = batch \ chunk
       /\ behind' = behind \ chunk
  /\ left' = IF batch' = {} THEN left \ {Here} ELSE left
  /\ partial' = IF batch' = {} THEN partial \ {Here}
                ELSE IF Here \in directory THEN partial ELSE partial \cup {Here}
  /\ UNCHANGED <<table, vector, proc, model, bounds, torn>>

\* The error ends the process, and the writer drops what was not committed.
ChunkFails ==
  /\ batch # {}
  /\ Fault
  /\ \/ UNCHANGED <<directory, partial>>
     \/ /\ OpenIndex(Here)
        /\ partial' = IF Here \in directory THEN partial ELSE partial \cup {Here}
  /\ proc' = "down"
  /\ left' = {} /\ batch' = {}
  /\ UNCHANGED <<table, docs, vector, model, behind, torn>>

\* Mutant of EndRebuild: the daemon serves while the rebuild goes on.
EndRebuildEarly ==
  /\ proc \in {"rebuilding", "repairing"}
  /\ proc' = IF proc = "rebuilding" THEN "serving" ELSE "down"
  /\ left' = {} /\ batch' = {}
  /\ UNCHANGED <<table, text, vector, model, bounds, history>>

EndRebuild ==
  /\ proc \in {"rebuilding", "repairing"} /\ left = {}
  /\ proc' = IF proc = "rebuilding" THEN "serving" ELSE "down"
  /\ UNCHANGED <<table, text, vector, model, walk, bounds, history>>

-----------------------------------------------------------------------------
(* Serving; a pass of `consolidate` saves what replaces two memories or    *)
(* more, supersedes them, and deletes what has expired.                    *)

Writing == proc \in {"serving", "consolidating"}

Does(m, what) == doing' = [doing EXCEPT ![m] = what]

\* collection_id: the first row of a user pins the model.
Pin(u) ==
  /\ pinned[u] \in {None, model}
  /\ pinned' = [pinned EXCEPT ![u] = model]

\* The audit entry may fail after the row is there: the save is then an error.
SaveRow(m) ==
  /\ Writing /\ row[m] = "absent"
  /\ proc = "consolidating" => Cardinality(VisibleOf(Owner[m])) > 1
  /\ Pin(Owner[m])
  /\ row' = [row EXCEPT ![m] = "visible"]
  /\ \/ Does(m, "vector") /\ UNCHANGED bounds
     \/ UNCHANGED doing /\ Fault
  /\ behind' = behind \cup {m} /\ torn' = torn \cup {m}
  /\ UNCHANGED <<text, vectors, width, proc, model, walk, partial>>

PutVector(m) ==
  /\ doing[m] = "vector" /\ width = Dimensions[model]
  /\ vectors' = [vectors EXCEPT ![m] = model]
  /\ Does(m, "text")
  /\ torn' = torn \ {m}
  /\ UNCHANGED <<row, text, pinned, width, proc, model, walk, bounds, behind, partial>>

\* The row is rolled back, or that fails too.
PutVectorFails(m) ==
  /\ doing[m] = "vector"
  /\ \/ /\ row' = [row EXCEPT ![m] = "deleted"] /\ behind' = behind \ {m}
        /\ \/ width # Dimensions[model] /\ UNCHANGED bounds
           \/ Fault
     \/ UNCHANGED <<row, behind>> /\ Fault
  /\ Does(m, "nothing")
  /\ UNCHANGED <<text, vector, proc, model, walk, torn, partial>>

\* The row, and the vector if the embedded text changed.  An upsert of the
\* vector that fails has deleted the old one, or not.
Edit(m) ==
  /\ proc = "serving" /\ Live(m) /\ doing[m] = "nothing"
  /\ behind' = behind \cup {m}
  /\ \/ /\ width = Dimensions[model]
        /\ vectors' = [vectors EXCEPT ![m] = model] /\ torn' = torn \ {m}
        /\ Does(m, "text") /\ UNCHANGED bounds
     \/ Does(m, "text") /\ UNCHANGED <<vectors, torn, bounds>>
     \/ /\ \/ width # Dimensions[model] /\ UNCHANGED bounds
           \/ Fault
        /\ \E was \in {None, vectors[m]} : vectors' = [vectors EXCEPT ![m] = was]
        /\ torn' = torn \cup {m}
        /\ UNCHANGED doing
  /\ UNCHANGED <<row, text, pinned, width, proc, model, walk, partial>>

IndexText(m) ==
  /\ doing[m] = "text"
  /\ \/ /\ Touch(m) /\ docs' = Reindexed({m})
        /\ behind' = behind \ {m} /\ UNCHANGED bounds
     \/ WriteFails(m) /\ UNCHANGED behind
  /\ Does(m, "nothing")
  /\ UNCHANGED <<row, vector, proc, model, walk, torn>>

\* A reconciliation or a merge; both entries stay.
Supersede(m) ==
  /\ Writing /\ row[m] = "visible"
  /\ row' = [row EXCEPT ![m] = "superseded"]
  /\ UNCHANGED <<doing, text, vector, proc, model, walk, bounds, history>>

\* A deleted memory may be deleted again; only a failing audit entry ends it
\* early.
Forget(m) ==
  /\ Writing /\ row[m] # "absent" /\ doing[m] = "nothing"
  /\ proc = "consolidating" => row[m] = "visible"
  /\ row' = [row EXCEPT ![m] = "deleted"]
  /\ \/ vectors' = [vectors EXCEPT ![m] = None] /\ Does(m, "untext") /\ UNCHANGED bounds
     \/ UNCHANGED vectors /\ Does(m, "untext") /\ Fault
     \/ UNCHANGED <<vectors, doing>> /\ Fault
  /\ behind' = behind \cup {m}
  /\ UNCHANGED <<text, pinned, width, proc, model, walk, torn, partial>>

RemoveText(m) ==
  /\ doing[m] = "untext"
  /\ \/ /\ Touch(m) /\ docs' = [docs EXCEPT ![m] = 0]
        /\ behind' = behind \ {m} /\ UNCHANGED bounds
     \/ WriteFails(m) /\ docs'[m] \in {0, docs[m]} /\ UNCHANGED behind
  /\ Does(m, "nothing")
  /\ UNCHANGED <<row, vector, proc, model, walk, torn>>

Search(u) ==
  /\ proc = "serving"
  /\ OpenIndex(u)
  /\ UNCHANGED <<table, docs, vector, proc, model, walk, bounds, history>>

-----------------------------------------------------------------------------
(* Between two runs of the process.                                        *)

\* A graceful shutdown lets requests end; a pass ends.
Stop ==
  /\ Writing /\ \A m \in Memories : doing[m] = "nothing"
  /\ proc' = "down"
  /\ UNCHANGED <<table, text, vector, model, walk, bounds, history>>

Crash ==
  /\ proc # "down"
  /\ Fault
  /\ proc' = "down"
  /\ doing' = [m \in Memories |-> "nothing"]
  /\ left' = {} /\ batch' = {}
  /\ UNCHANGED <<row, text, vector, model, history>>

Configure ==
  /\ proc = "down"
  /\ model' \in Models \ {model}
  /\ UNCHANGED <<table, text, vector, proc, walk, bounds, history>>

\* A build with another analyzer looks under another root.
Upgrade ==
  /\ proc = "down" /\ upgrades < MaxUpgrades
  /\ upgrades' = upgrades + 1
  /\ directory' = {}
  /\ docs' = [m \in Memories |-> 0]
  /\ behind' = {} /\ partial' = {}
  /\ UNCHANGED <<table, vector, proc, model, walk, faults, torn>>

\* Mutant of Reindex: the memories a user would be shown.
ReindexVisible ==
  /\ proc = "down"
  /\ vectors' = [m \in Memories |-> IF row[m] = "visible" THEN model ELSE None]
  /\ width' = Dimensions[model]
  /\ pinned' = [u \in Users |-> IF pinned[u] = None THEN None ELSE model]
  /\ torn' = {}
  /\ UNCHANGED <<table, text, proc, model, walk, bounds, behind, partial>>

\* One transaction: the table is dropped and filled, every collection repinned;
\* a failing embedder leaves everything as it was.
Reindex ==
  /\ proc = "down"
  /\ vectors' = [m \in Memories |-> IF Live(m) THEN model ELSE None]
  /\ width' = Dimensions[model]
  /\ pinned' = [u \in Users |-> IF pinned[u] = None THEN None ELSE model]
  /\ torn' = {}
  /\ UNCHANGED <<table, text, proc, model, walk, bounds, behind, partial>>

-----------------------------------------------------------------------------
Write(m) ==
  \/ SaveRow(m) \/ PutVector(m) \/ PutVectorFails(m) \/ Edit(m) \/ IndexText(m)
  \/ Supersede(m) \/ Forget(m) \/ RemoveText(m)

Rebuild == ListUser \/ SkipUser \/ IndexChunk \/ ChunkFails \/ EndRebuild

Next ==
  \/ \E m \in Memories : Write(m)
  \/ \E u \in Users : Search(u)
  \/ Open("rebuilding") \/ Open("repairing") \/ Open("consolidating") \/ Rebuild
  \/ Stop \/ Crash \/ Configure \/ Upgrade \/ Reindex

Spec == Init /\ [][Next]_vars

-----------------------------------------------------------------------------
(* Properties.                                                             *)

\* While the daemon serves, keyword search has every visible memory and no
\* deleted one, through upgrades, rebuilds in chunks, crashes and repairs;
\* but for memories whose own write failed, and for users whose first fill
\* was skipped, cut short or preceded by a write (text_index_rebuilder.rs).
KeywordLegIsWhole ==
  proc = "serving" =>
    \A m \in Memories \ behind :
      /\ row[m] = "visible" /\ Owner[m] \notin partial => docs[m] > 0
      /\ row[m] = "deleted" => docs[m] = 0

\* No memory is indexed twice, whatever was saved, edited, rebuilt and
\* repaired over what was there before (tantivy_text_index.rs: "indexing the
\* same id twice would return it twice").
NoMemoryTwice == \A m \in Memories : docs[m] <= 1

\* The daemon never ranks vectors of different models against each other: a
\* changed configuration is refused until every vector was computed again.
VectorsComparable ==
  proc = "serving" => \A m \in Memories : vectors[m] \in {None, model}

\* A memory that is not deleted keeps a vector, superseded ones too, when the
\* table is rebuilt for another model; but for one whose own write failed.
NoVectorIsLost == \A m \in Memories : Live(m) /\ vectors[m] = None => m \in torn

\* Through edits, failures and changes of model the vector index stays one
\* that can be searched: nothing is missing, nothing is of another model.
VectorsAreWhole == VectorsComparable /\ NoVectorIsLost

=============================================================================
