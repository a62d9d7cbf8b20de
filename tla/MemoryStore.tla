---------------------------- MODULE MemoryStore ----------------------------
(***************************************************************************)
(* One user's memories in the three stores that hold them: the table       *)
(* memories with its audit trail (the system of record), the vector index  *)
(* and the keyword index.  The statements of SqliteMemoryRepository,       *)
(* SqliteVectorIndex and TantivyTextIndex, one operator each; the modules  *)
(* of the use cases say who calls them, in which order.                    *)
(*                                                                         *)
(* What a memory says is the set of facts its content carries: an edit     *)
(* replaces it, a merged memory carries those of its cluster.  Memories    *)
(* are numbered in the order their rows are inserted.                      *)
(***************************************************************************)
EXTENDS Integers, FiniteSets

CONSTANTS
  MaxMemories,  \* bound: rows
  MaxFacts,     \* bound: contents written by users and candidates
  MaxFaults,    \* bound: statements that fail
  Saved         \* memories saved, each with a fact of its own, to begin with

Memories == 1..MaxMemories
Facts == 1..MaxFacts

ASSUME StoreAssumption ==
  /\ MaxMemories \in Nat /\ MaxFacts \in Nat /\ MaxFaults \in Nat
  /\ Saved \in 0..MaxMemories /\ Saved <= MaxFacts

None == 0           \* no memory
NoEntry == {}       \* no index entry: an indexed text carries some fact

VARIABLES
  created,     \* how many rows were inserted: they are 1..created
  state,       \* "absent", "live" or "deleted" (deleted_at is set)
  body,        \* what the row's content says
  replacedBy,  \* superseded_by, None when NULL
  trail,       \* the operations the audit trail holds for each memory
  vector,      \* what the text embedded for a memory said
  keywords,    \* what the indexed document of a memory says
  faults       \* failed statements so far

tables  == <<created, state, body, replacedBy>>
indexes == <<vector, keywords>>
store   == <<tables, trail, indexes, faults>>

Operations == {"add", "update", "delete", "supersede", "merge"}

StoreTypeOK ==
  /\ created \in 0..MaxMemories
  /\ state \in [Memories -> {"absent", "live", "deleted"}]
  /\ body \in [Memories -> SUBSET Facts]
  /\ replacedBy \in [Memories -> Memories \cup {None}]
  /\ trail \in [Memories -> SUBSET Operations]
  /\ vector \in [Memories -> SUBSET Facts]
  /\ keywords \in [Memories -> SUBSET Facts]
  /\ faults \in 0..MaxFaults
  /\ \A m \in Memories : state[m] = "absent" <=> m > created

FactsOfSaved(m) == IF m <= Saved THEN {m} ELSE {}

StoreInit ==
  /\ created = Saved
  /\ state = [m \in Memories |-> IF m <= Saved THEN "live" ELSE "absent"]
  /\ body = [m \in Memories |-> FactsOfSaved(m)]
  /\ replacedBy = [m \in Memories |-> None]
  /\ trail = [m \in Memories |-> IF m <= Saved THEN {"add"} ELSE {}]
  /\ vector = [m \in Memories |-> FactsOfSaved(m)]
  /\ keywords = [m \in Memories |-> FactsOfSaved(m)]
  /\ faults = 0

Live == {m \in Memories : state[m] = "live"}

\* What list, recall and consolidation see: deleted_at IS NULL AND
\* superseded_by IS NULL.
Visible == {m \in Live : replacedBy[m] = None}

VisibleFacts == UNION {body[m] : m \in Visible}

-----------------------------------------------------------------------------
(* Failures.  A statement and the audit entry that goes with it are two    *)
(* statements of their own: the second can fail after the first took       *)
(* effect, and the caller then sees an error.                              *)

Fault == faults < MaxFaults /\ faults' = faults + 1

Audited(m, operation) ==
  /\ trail' = [trail EXCEPT ![m] = @ \cup {operation}]
  /\ UNCHANGED faults

Unaudited == Fault /\ UNCHANGED trail

\* A call that fails before it changed anything.
NothingDone == Fault /\ UNCHANGED <<tables, trail, indexes>>

-----------------------------------------------------------------------------
(* SqliteMemoryRepository.                                                 *)

InsertRow(m, content) ==
  /\ created < MaxMemories
  /\ m = created + 1
  /\ created' = m
  /\ state' = [state EXCEPT ![m] = "live"]
  /\ body' = [body EXCEPT ![m] = content]
  /\ UNCHANGED replacedBy

\* Writes the whole row back, superseded_by included, as it was read and
\* edited: WHERE deleted_at IS NULL.
UpdateRow(m, content, superseded) ==
  /\ m \in Live
  /\ body' = [body EXCEPT ![m] = content]
  /\ replacedBy' = [replacedBy EXCEPT ![m] = superseded]
  /\ UNCHANGED <<created, state>>

\* Any row, also one deleted before.
DeleteRow(m) ==
  /\ m \in 1..created
  /\ state' = [state EXCEPT ![m] = "deleted"]
  /\ UNCHANGED <<created, body, replacedBy>>

\* WHERE deleted_at IS NULL, whether or not it was superseded before.
SupersedeRow(m, replacement) ==
  /\ m \in Live
  /\ replacedBy' = [replacedBy EXCEPT ![m] = replacement]
  /\ UNCHANGED <<created, state, body>>

\* One transaction; members that are gone or superseded already are skipped.
MergeRows(members, replacement) ==
  /\ replacedBy' = [m \in Memories |-> IF m \in members \cap Visible
                                       THEN replacement ELSE replacedBy[m]]
  /\ trail' = [m \in Memories |-> IF m \in members \cap Visible
                                  THEN trail[m] \cup {"merge"} ELSE trail[m]]
  /\ UNCHANGED <<created, state, body, faults>>

-----------------------------------------------------------------------------
(* The indexes.                                                            *)

\* vec0 has no upsert: delete, then insert.
PutVector(m, content) ==
  vector' = [vector EXCEPT ![m] = content] /\ UNCHANGED <<keywords, faults>>

\* The delete failed, or the insert did after the delete.
PutVectorFails(m) ==
  /\ Fault
  /\ vector' \in {vector, [vector EXCEPT ![m] = NoEntry]}
  /\ UNCHANGED keywords

DropVector(m) ==
  vector' = [vector EXCEPT ![m] = NoEntry] /\ UNCHANGED <<keywords, faults>>

PutKeywords(m, content) ==
  keywords' = [keywords EXCEPT ![m] = content] /\ UNCHANGED <<vector, faults>>

DropKeywords(m) ==
  keywords' = [keywords EXCEPT ![m] = NoEntry] /\ UNCHANGED <<vector, faults>>

=============================================================================
