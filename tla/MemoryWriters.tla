--------------------------- MODULE MemoryWriters ---------------------------
(***************************************************************************)
(* Everything that writes memories, running side by side over one user's   *)
(* MemoryStore: direct saves, edits and deletions over REST, the           *)
(* reconciliation of ingested candidates (MemoryReconciler) and the merges *)
(* of consolidation (MemoryMerger).                                        *)
(*                                                                         *)
(* Each statement locks the connection on its own, and a model is awaited  *)
(* between reading and writing: between any two steps of one writer the    *)
(* others may take theirs.                                                 *)
(***************************************************************************)
EXTENDS MemoryStore

CONSTANTS
  Savers,      \* requests that save verbatim (DirectMemorySaver)
  Editors,     \* PATCH requests (MemoryUpdater)
  Forgetters,  \* DELETE requests (MemoryForgetter)
  Pipelines,   \* ingest jobs at a candidate (MemoryReconciler)
  Mergers,     \* consolidation passes at a cluster (MemoryMerger)
  Neighbours,  \* NEIGHBOUR_LIMIT
  MaxCrashes   \* bound: times the process dies

Writers == Savers \cup Editors \cup Forgetters \cup Pipelines \cup Mergers

ASSUME WritersAssumption ==
  /\ Neighbours \in Nat
  /\ MaxCrashes \in Nat
  /\ Editors \cap (Savers \cup Forgetters \cup Pipelines \cup Mergers) = {}
  /\ Savers \cap (Forgetters \cup Pipelines \cup Mergers) = {}
  /\ Forgetters \cap (Pipelines \cup Mergers) = {}
  /\ Pipelines \cap Mergers = {}

VARIABLES
  stage,         \* what each writer does next
  target,        \* the memory it is writing
  draft,         \* the content it is about to write and index
  seenBy,        \* an edit: the superseded_by it read
  shown,         \* reconciliation: neighbours shown; a merge: the cluster
  removals,      \* reconciliation: DELETE decisions still to apply
  replacements,  \* reconciliation: UPDATE decisions still to apply
  facts,         \* contents used so far
  crashes,       \* times the process died
  accepted,      \* history: facts written to a memory that was visible when
                 \* its save or edit ran to its end
  forgotten,     \* history: facts of visible memories deleted on request
  outdated,      \* history: facts an edit or an UPDATE replaced
  shared         \* history: memories two writers were indexing at a time

locals  == <<stage, target, draft, seenBy, shown, removals, replacements>>
history == <<accepted, forgotten, outdated, shared>>
vars    == <<store, locals, facts, crashes, history>>

Stages == {"idle", "insert", "vector", "rollback", "text",
           "rewrite", "relabel", "reembed", "unvector", "untext",
           "deciding", "removing", "replacing", "retiring"}

TypeOK ==
  /\ StoreTypeOK
  /\ stage \in [Writers -> Stages]
  /\ target \in [Writers -> Memories \cup {None}]
  /\ draft \in [Writers -> SUBSET Facts]
  /\ seenBy \in [Writers -> Memories \cup {None}]
  /\ shown \in [Writers -> SUBSET Memories]
  /\ removals \in [Writers -> SUBSET Memories]
  /\ replacements \in [Writers -> SUBSET Memories]
  /\ facts \in 0..MaxFacts
  /\ crashes \in 0..MaxCrashes
  /\ accepted \subseteq Facts
  /\ forgotten \subseteq Facts
  /\ outdated \subseteq Facts
  /\ shared \subseteq Memories

Init ==
  /\ StoreInit
  /\ stage = [w \in Writers |-> "idle"]
  /\ target = [w \in Writers |-> None]
  /\ draft = [w \in Writers |-> {}]
  /\ seenBy = [w \in Writers |-> None]
  /\ shown = [w \in Writers |-> {}]
  /\ removals = [w \in Writers |-> {}]
  /\ replacements = [w \in Writers |-> {}]
  /\ facts = Saved
  /\ crashes = 0
  /\ accepted = 1..Saved
  /\ forgotten = {}
  /\ outdated = {}
  /\ shared = {}

\* Contents are told apart by when they were written.
FreshFact(f) == facts < MaxFacts /\ f = facts + 1 /\ facts' = f

GoTo(w, s) == stage' = [stage EXCEPT ![w] = s]

\* The operation is over, with a result or with an error.
Finish(w) ==
  /\ GoTo(w, "idle")
  /\ target' = [target EXCEPT ![w] = None]
  /\ draft' = [draft EXCEPT ![w] = {}]
  /\ seenBy' = [seenBy EXCEPT ![w] = None]
  /\ shown' = [shown EXCEPT ![w] = {}]
  /\ removals' = [removals EXCEPT ![w] = {}]
  /\ replacements' = [replacements EXCEPT ![w] = {}]

\* On to the next statement, keeping what was read.
Proceed(w, s) ==
  GoTo(w, s) /\ UNCHANGED <<target, draft, seenBy, shown, removals, replacements>>

\* w starts on memory m: remember whether another writer is on it, too.
Touch(w, m) ==
  shared' = IF \E v \in Writers \ {w} : target[v] = m THEN shared \cup {m} ELSE shared

-----------------------------------------------------------------------------
(* DirectMemorySaver::execute, for the three use cases that save: a direct *)
(* save, a candidate and the replacement of a cluster.  Embedding comes    *)
(* first: when it fails nothing was written, and no step is taken.         *)

StartSave(w) ==
  /\ w \in Savers /\ stage[w] = "idle"
  /\ \E f \in Facts : FreshFact(f) /\ draft' = [draft EXCEPT ![w] = {f}]
  /\ GoTo(w, "insert")
  /\ UNCHANGED <<store, target, seenBy, shown, removals, replacements, crashes, history>>

\* Mutant of Insert: a merge retires its cluster first, under the id the
\* replacement is going to have.
InsertAfterRetiring(w) ==
  /\ stage[w] = "insert"
  /\ created < MaxMemories
  /\ created' = created + 1
  /\ state' = [state EXCEPT ![created + 1] = "live"]
  /\ body' = [body EXCEPT ![created + 1] = draft[w]]
  /\ replacedBy' = [m \in Memories |-> IF w \in Mergers /\ m \in shown[w] \cap Visible
                                       THEN created + 1 ELSE replacedBy[m]]
  /\ Audited(created + 1, "add")
  /\ GoTo(w, "vector")
  /\ target' = [target EXCEPT ![w] = created + 1]
  /\ UNCHANGED <<draft, seenBy, shown, removals, replacements>>
  /\ UNCHANGED <<indexes, facts, crashes, history>>

Insert(w) ==
  /\ stage[w] = "insert"
  /\ \E m \in Memories :
       /\ InsertRow(m, draft[w])
       /\ \/ /\ Audited(m, "add")
             /\ GoTo(w, "vector")
             /\ target' = [target EXCEPT ![w] = m]
             /\ UNCHANGED <<draft, seenBy, shown, removals, replacements>>
          \/ Unaudited /\ Finish(w)
  /\ UNCHANGED <<indexes, facts, crashes, history>>

InsertFails(w) ==
  /\ stage[w] = "insert"
  /\ NothingDone
  /\ Finish(w)
  /\ UNCHANGED <<facts, crashes, history>>

SaveVector(w) ==
  /\ stage[w] = "vector"
  /\ \/ PutVector(target[w], draft[w]) /\ Proceed(w, "text")
     \/ PutVectorFails(target[w]) /\ Proceed(w, "rollback")
  /\ UNCHANGED <<tables, trail, facts, crashes, history>>

\* Without its vector the memory is only half findable: delete the row again.
Rollback(w) ==
  /\ stage[w] = "rollback"
  /\ \/ DeleteRow(target[w]) /\ (Audited(target[w], "delete") \/ Unaudited)
     \/ Fault /\ UNCHANGED <<tables, trail>>
  /\ Finish(w)
  /\ UNCHANGED <<indexes, facts, crashes, history>>

\* A keyword entry that fails is logged; the save is complete either way.
IndexText(w) ==
  /\ stage[w] = "text"
  /\ \/ PutKeywords(target[w], draft[w])
     \/ Fault /\ UNCHANGED indexes
  /\ IF w \in Pipelines /\ replacements[w] # {} THEN Proceed(w, "replacing")
     ELSE IF w \in Mergers THEN Proceed(w, "retiring")
     ELSE Finish(w)
  /\ accepted' = IF target[w] \in Visible THEN accepted \cup draft[w] ELSE accepted
  /\ UNCHANGED <<tables, trail, facts, crashes, forgotten, outdated, shared>>

-----------------------------------------------------------------------------
(* MemoryUpdater::execute: read the memory, edit the copy, write all of it *)
(* back; embed again only if the content changed.                          *)

ReadForEdit(w) ==
  /\ w \in Editors /\ stage[w] = "idle"
  /\ \E m \in Live :
       /\ target' = [target EXCEPT ![w] = m]
       /\ seenBy' = [seenBy EXCEPT ![w] = replacedBy[m]]
       /\ \/ \E f \in Facts : /\ FreshFact(f)
                              /\ draft' = [draft EXCEPT ![w] = {f}]
                              /\ GoTo(w, "rewrite")
          \/ /\ draft' = [draft EXCEPT ![w] = body[m]]
             /\ GoTo(w, "relabel")
             /\ UNCHANGED facts
       /\ Touch(w, m)
  /\ UNCHANGED <<store, shown, removals, replacements, crashes,
                 accepted, forgotten, outdated>>

\* Mutant of WriteEdit: an edit that replaces the content is not re-embedded.
WriteEditOnly(w) ==
  /\ stage[w] \in {"rewrite", "relabel"}
  /\ UpdateRow(target[w], draft[w], seenBy[w])
  /\ Audited(target[w], "update")
  /\ Proceed(w, "text")
  /\ UNCHANGED <<indexes, facts, crashes, history>>

WriteEdit(w) ==
  /\ stage[w] \in {"rewrite", "relabel"}
  /\ UpdateRow(target[w], draft[w], seenBy[w])
  /\ \/ /\ Audited(target[w], IF seenBy[w] # None THEN "supersede" ELSE "update")
        /\ Proceed(w, IF stage[w] = "rewrite" THEN "reembed" ELSE "text")
     \/ Unaudited /\ Finish(w)
  /\ outdated' = IF stage[w] = "rewrite"
                 THEN outdated \cup (body[target[w]] \ draft[w]) ELSE outdated
  /\ UNCHANGED <<indexes, facts, crashes, accepted, forgotten, shared>>

\* The row is gone by now, or the database failed.
WriteEditFails(w) ==
  /\ stage[w] \in {"rewrite", "relabel"}
  /\ \/ target[w] \notin Live /\ UNCHANGED store
     \/ NothingDone
  /\ Finish(w)
  /\ UNCHANGED <<facts, crashes, history>>

\* An edit whose vector fails returns the error and leaves the row edited.
Reembed(w) ==
  /\ stage[w] = "reembed"
  /\ \/ PutVector(target[w], draft[w]) /\ Proceed(w, "text")
     \/ PutVectorFails(target[w]) /\ Finish(w)
  /\ UNCHANGED <<tables, trail, facts, crashes, history>>

-----------------------------------------------------------------------------
(* MemoryForgetter::execute, for a DELETE request and for the DELETE       *)
(* decisions of reconciliation: the row first, then both indexes as well   *)
(* as it can be done.                                                      *)

\* The facts a deletion takes out of recall.
Forgetting(m) ==
  forgotten' = IF m \in Visible THEN forgotten \cup body[m] ELSE forgotten

Forget(w) ==
  /\ w \in Forgetters /\ stage[w] = "idle"
  /\ \E m \in 1..created :
       /\ DeleteRow(m)
       /\ Forgetting(m)
       /\ Touch(w, m)
       /\ \/ /\ Audited(m, "delete")
             /\ GoTo(w, "unvector")
             /\ target' = [target EXCEPT ![w] = m]
             /\ UNCHANGED <<draft, seenBy, shown, removals, replacements>>
          \/ Unaudited /\ UNCHANGED locals
  /\ UNCHANGED <<indexes, facts, crashes, accepted, outdated>>

RemoveVector(w) ==
  /\ stage[w] = "unvector"
  /\ \/ DropVector(target[w])
     \/ Fault /\ UNCHANGED indexes
  /\ Proceed(w, "untext")
  /\ UNCHANGED <<tables, trail, facts, crashes, history>>

\* A pipeline goes on with its other decisions.
RemoveText(w) ==
  /\ stage[w] = "untext"
  /\ \/ DropKeywords(target[w])
     \/ Fault /\ UNCHANGED indexes
  /\ IF w \in Pipelines /\ removals[w] # {} THEN Proceed(w, "removing")
     ELSE IF w \in Pipelines /\ draft[w] # {} THEN Proceed(w, "insert")
     ELSE Finish(w)
  /\ UNCHANGED <<tables, trail, facts, crashes, history>>

-----------------------------------------------------------------------------
(* MemoryReconciler::reconcile_one, for one candidate.                     *)

\* Recall the neighbours.  A recall that finds none, that fails or that is
\* switched off stores the candidate without asking the model.
Recall(w) ==
  /\ w \in Pipelines /\ stage[w] = "idle"
  /\ \E f \in Facts : FreshFact(f) /\ draft' = [draft EXCEPT ![w] = {f}]
  /\ \E N \in SUBSET Visible :
       /\ Cardinality(N) <= Neighbours
       /\ shown' = [shown EXCEPT ![w] = N]
       /\ GoTo(w, IF N = {} THEN "insert" ELSE "deciding")
  /\ UNCHANGED <<store, target, seenBy, removals, replacements, crashes, history>>

\* The model's answer: any decisions about the memories it was shown, and
\* decisions about others are dropped.  ADD or an UPDATE stores the candidate.
Decide(w) ==
  /\ stage[w] = "deciding"
  /\ \E D, U \in SUBSET shown[w], add \in BOOLEAN :
       LET stores == add \/ U # {} IN
       /\ removals' = [removals EXCEPT ![w] = D]
       /\ replacements' = [replacements EXCEPT ![w] = U]
       /\ draft' = [draft EXCEPT ![w] = IF stores THEN @ ELSE {}]
       /\ GoTo(w, IF D # {} THEN "removing" ELSE IF stores THEN "insert" ELSE "idle")
       /\ shown' = [shown EXCEPT ![w] = {}]
  /\ UNCHANGED <<store, target, seenBy, facts, crashes, history>>

\* Deletions come first.
RemoveNext(w) ==
  /\ stage[w] = "removing"
  /\ \E m \in removals[w] :
       /\ DeleteRow(m)
       /\ Forgetting(m)
       /\ Touch(w, m)
       /\ \/ /\ Audited(m, "delete")
             /\ GoTo(w, "unvector")
             /\ target' = [target EXCEPT ![w] = m]
             /\ removals' = [removals EXCEPT ![w] = @ \ {m}]
             /\ UNCHANGED <<draft, seenBy, shown, replacements>>
          \/ Unaudited /\ Finish(w)
  /\ UNCHANGED <<indexes, facts, crashes, accepted, outdated>>

\* Mutant of ReplaceNext: the pair of ids is passed the wrong way round.
ReplaceNextSwapped(w) ==
  /\ stage[w] = "replacing"
  /\ \E m \in replacements[w] :
       /\ SupersedeRow(target[w], m)
       /\ outdated' = outdated \cup body[m]
       /\ Audited(m, "supersede")
  /\ Finish(w)
  /\ UNCHANGED <<indexes, facts, crashes, accepted, forgotten, shared>>

\* Then the candidate is stored, then what it replaces is superseded by it.
ReplaceNext(w) ==
  /\ stage[w] = "replacing"
  /\ \E m \in replacements[w] :
       /\ SupersedeRow(m, target[w])
       /\ outdated' = outdated \cup body[m]
       /\ \/ /\ Audited(m, "supersede")
             /\ IF replacements[w] = {m} THEN Finish(w)
                ELSE /\ replacements' = [replacements EXCEPT ![w] = @ \ {m}]
                     /\ UNCHANGED <<stage, target, draft, seenBy, shown, removals>>
          \/ Unaudited /\ Finish(w)
  /\ UNCHANGED <<indexes, facts, crashes, accepted, forgotten, shared>>

\* A statement failed, or the memory to replace was deleted meanwhile: the
\* job fails with what it has done so far.
DecisionFails(w) ==
  /\ \/ stage[w] \in {"removing", "replacing"} /\ NothingDone
     \/ /\ stage[w] = "replacing"
        /\ \E m \in replacements[w] : m \notin Live
        /\ UNCHANGED store
  /\ Finish(w)
  /\ UNCHANGED <<facts, crashes, history>>

-----------------------------------------------------------------------------
(* MemoryMerger::execute, for one cluster of the pass's snapshot: ask the  *)
(* model, save what it composed, then retire the members.  A cluster the   *)
(* model keeps separate changes nothing.                                   *)

Snapshot(w) ==
  /\ w \in Mergers /\ stage[w] = "idle"
  /\ \E C \in SUBSET Visible :
       /\ Cardinality(C) >= 2
       /\ shown' = [shown EXCEPT ![w] = C]
       /\ draft' = [draft EXCEPT ![w] = UNION {body[m] : m \in C}]
  /\ GoTo(w, "insert")
  /\ UNCHANGED <<store, target, seenBy, removals, replacements, facts, crashes, history>>

Retire(w) ==
  /\ stage[w] = "retiring"
  /\ \/ MergeRows(shown[w], target[w])
     \/ Fault /\ UNCHANGED <<tables, trail>>
  /\ Finish(w)
  /\ UNCHANGED <<indexes, facts, crashes, history>>

-----------------------------------------------------------------------------
\* The process dies: every operation is abandoned where it is.
Crash ==
  /\ crashes < MaxCrashes
  /\ crashes' = crashes + 1
  /\ stage' = [w \in Writers |-> "idle"]
  /\ target' = [w \in Writers |-> None]
  /\ draft' = [w \in Writers |-> {}]
  /\ seenBy' = [w \in Writers |-> None]
  /\ shown' = [w \in Writers |-> {}]
  /\ removals' = [w \in Writers |-> {}]
  /\ replacements' = [w \in Writers |-> {}]
  /\ UNCHANGED <<store, facts, history>>

Step(w) ==
  \/ StartSave(w) \/ Insert(w) \/ InsertFails(w)
  \/ SaveVector(w) \/ Rollback(w) \/ IndexText(w)
  \/ ReadForEdit(w) \/ WriteEdit(w) \/ WriteEditFails(w) \/ Reembed(w)
  \/ Forget(w) \/ RemoveVector(w) \/ RemoveText(w)
  \/ Recall(w) \/ Decide(w) \/ RemoveNext(w) \/ ReplaceNext(w) \/ DecisionFails(w)
  \/ Snapshot(w) \/ Retire(w)

Next == (\E w \in Writers : Step(w)) \/ Crash

Spec == Init /\ [][Next]_vars

-----------------------------------------------------------------------------
(* Properties.                                                             *)

\* A deletion is final: no edit, supersession or merge that read the memory
\* before it was deleted (memory_updater.rs, memory_reconciler.rs,
\* memory_merger.rs) brings the row back or changes what it says.
DeletedIsFinal ==
  [][\A m \in Memories : state[m] = "deleted" =>
       state'[m] = "deleted" /\ body'[m] = body[m] /\ replacedBy'[m] = replacedBy[m]]_vars

\* A superseded memory points at a memory that exists and was stored after
\* it, whichever mix of edits that write the pointer back, UPDATE decisions
\* and merges set it: following the pointers ends and never dangles.
ReplacementsAreNewer ==
  \A m \in Memories : replacedBy[m] # None => m < replacedBy[m] /\ replacedBy[m] <= created

\* What was saved while it could be recalled can be recalled still, unless it
\* was deleted on request or replaced by an edit or an UPDATE: merging and
\* its failures, rollbacks and crashes lose nothing (memory_merger.rs,
\* "lossless compression").
NothingIsLost ==
  accepted \ (forgotten \cup outdated) \subseteq VisibleFacts

\* No memory is findable by keyword but not by meaning: DirectMemorySaver
\* orders its writes, and rolls the row back, so that this never happens.
NeverKeywordOnly ==
  \A m \in Live : keywords[m] # NoEntry => vector[m] # NoEntry

\* Where nobody edits, a save, a merge or a reconciled candidate that fails or
\* dies half way costs nobody a fact nor leaves one half findable.
NothingIsHalfDone == NothingIsLost /\ NeverKeywordOnly

InStep(m) ==
  IF m \in Live THEN vector[m] = body[m] /\ keywords[m] = body[m]
  ELSE vector[m] = NoEntry /\ keywords[m] = NoEntry

Quiet == \A w \in Writers : stage[w] = "idle"

\* When nothing failed and nobody is writing, every memory that was written by
\* one operation at a time is in both indexes as the table has it, and in
\* neither once it is deleted.
IndexesAgreeWhenQuiet ==
  Quiet /\ faults = 0 /\ crashes = 0 => \A m \in (1..created) \ shared : InStep(m)

=============================================================================
