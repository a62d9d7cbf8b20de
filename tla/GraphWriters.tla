---------------------------- MODULE GraphWriters ----------------------------
(***************************************************************************)
(* Everything that writes the entity graph: the ingest pipelines, which    *)
(* project each memory they store (MemoryReconciler::store), and the       *)
(* command graph backfill (GraphBackfiller), which runs in a process of    *)
(* its own beside the daemon.  Saves that do not go through a pipeline and *)
(* deletions leave the graph as it is.                                     *)
(*                                                                         *)
(* A memory is stamped with its creation time before it is embedded and    *)
(* inserted, so memories may arrive in the table in another order.         *)
(***************************************************************************)
EXTENDS EntityGraph

CONSTANTS
  Pipelines,   \* ingest jobs at a candidate
  Runs,        \* backfills at a time
  Candidates,  \* what may be extracted: names and relations between them
  MaxCalls,    \* graph.backfill_budget.max_llm_calls; 0 for none
  Timed,       \* whether max_duration_secs is set
  MaxFaults    \* bound: statements, extractions and runs that fail

ASSUME WritersAssumption ==
  /\ Candidates \subseteq [names : SUBSET Names, relations : SUBSET Relation]
  /\ MaxCalls \in Nat /\ Timed \in BOOLEAN /\ MaxFaults \in Nat
  /\ Users \subseteq Nat /\ Users # {}

VARIABLES
  \* the table
  created,   \* memories stamped so far
  born,      \* created_at
  owner,
  says,      \* the candidate a memory was stored from
  state,     \* "none", "stamped", "live" or "deleted"
  cursor,    \* relations_cursor, by user
  \* the pipelines
  stage, at,
  \* the backfills
  phase,
  users,     \* users the run still has to visit
  since,     \* the cursor it read for the user it is at
  queue,     \* memories of that user it listed and has not looked at
  memory,    \* the one it is at
  found,     \* the relations extracted from it
  calls,     \* calls of this run
  faults,
  \* history
  handled,   \* memories a run extracted from or found with relations
  paid,      \* extractions of each memory, up to two
  late,      \* memories that entered the table after a younger one
  overtaken, \* memories whose edges were written after a younger one's
  rewritten, \* memories whose relations a backfill wrote
  settled,   \* memories recorded, and their contradictions closed
  overlap    \* whether two runs were ever under way together

table    == <<created, born, owner, says, state>>
pipes    == <<stage, at>>
runs     == <<phase, users, since, queue, memory, found, calls>>
history  == <<handled, paid, late, overtaken, rewritten, settled, overlap>>
vars     == <<graph, table, cursor, pipes, runs, faults, history>>

None == 0
Nothing == [names |-> {}, relations |-> {}]
Stored == {m \in Memories : state[m] = "live"}
Of(u)  == {m \in 1..created : owner[m] = u}
Younger(m) == {n \in Of(owner[m]) : n > m}

TypeOK ==
  /\ GraphTypeOK
  /\ created \in Nat /\ 1..created \subseteq Memories
  /\ born \in [Memories -> Nat]
  /\ owner \in [Memories -> Users]
  /\ says \in [Memories -> Candidates \cup {Nothing}]
  /\ state \in [Memories -> {"none", "stamped", "live", "deleted"}]
  /\ cursor \in [Users -> Nat]
  /\ stage \in [Pipelines -> {"idle", "insert", "record", "invalidate"}]
  /\ at \in [Pipelines -> Memories \cup {None}]
  /\ phase \in [Runs -> {"idle", "user", "list", "look", "extract", "write", "mark", "pass"}]
  /\ users \in [Runs -> SUBSET Users]
  /\ since \in [Runs -> Nat]
  /\ queue \in [Runs -> SUBSET Memories]
  /\ memory \in [Runs -> Memories \cup {None}]
  /\ found \in [Runs -> SUBSET Relation]
  /\ calls \in [Runs -> Nat]
  /\ faults \in 0..MaxFaults
  /\ handled \subseteq Memories
  /\ paid \in [Memories -> 0..2]
  /\ late \subseteq Memories
  /\ overtaken \subseteq Memories
  /\ rewritten \subseteq Memories
  /\ settled \subseteq Memories
  /\ overlap \in BOOLEAN

Init ==
  /\ GraphInit
  /\ created = 0
  /\ born = [m \in Memories |-> 0]
  /\ owner = [m \in Memories |-> Least(Users)]
  /\ says = [m \in Memories |-> Nothing]
  /\ state = [m \in Memories |-> "none"]
  /\ cursor = [u \in Users |-> 0]
  /\ stage = [p \in Pipelines |-> "idle"]
  /\ at = [p \in Pipelines |-> None]
  /\ phase = [r \in Runs |-> "idle"]
  /\ users = [r \in Runs |-> {}]
  /\ since = [r \in Runs |-> 0]
  /\ queue = [r \in Runs |-> {}]
  /\ memory = [r \in Runs |-> None]
  /\ found = [r \in Runs |-> {}]
  /\ calls = [r \in Runs |-> 0]
  /\ faults = 0
  /\ handled = {} /\ paid = [m \in Memories |-> 0]
  /\ late = {} /\ overtaken = {} /\ rewritten = {} /\ settled = {}
  /\ overlap = FALSE

Fault == faults < MaxFaults /\ faults' = faults + 1

-----------------------------------------------------------------------------
(* The pipelines.                                                          *)

\* DirectMemorySaver stamps the memory; two may fall on one instant.
Stamp(p) ==
  /\ stage[p] = "idle"
  /\ created + 1 \in Memories
  /\ created' = created + 1
  /\ \E tick \in {0, 1} :
       born' = [born EXCEPT ![created + 1] =
                  tick + (IF created = 0 THEN 1 ELSE born[created])]
  /\ \E u \in Users : owner' = [owner EXCEPT ![created + 1] = u]
  /\ \E c \in Candidates : says' = [says EXCEPT ![created + 1] = c]
  /\ state' = [state EXCEPT ![created + 1] = "stamped"]
  /\ stage' = [stage EXCEPT ![p] = "insert"]
  /\ at' = [at EXCEPT ![p] = created + 1]
  /\ UNCHANGED <<graph, cursor, runs, faults, history>>

\* The row is in the table.  A save that is no candidate's ends here; one that
\* failed to be embedded or inserted leaves nothing.
Insert(p) ==
  /\ stage[p] = "insert"
  /\ \/ /\ state' = [state EXCEPT ![at[p]] = "live"]
        /\ late' = IF \E n \in Younger(at[p]) : state[n] \in {"live", "deleted"}
                   THEN late \cup {at[p]} ELSE late
        /\ \/ stage' = [stage EXCEPT ![p] = "record"] /\ UNCHANGED at
           \/ /\ stage' = [stage EXCEPT ![p] = "idle"]
              /\ at' = [at EXCEPT ![p] = None]
        /\ UNCHANGED faults
     \/ /\ Fault
        /\ stage' = [stage EXCEPT ![p] = "idle"]
        /\ at' = [at EXCEPT ![p] = None]
        /\ UNCHANGED <<state, late>>
  /\ UNCHANGED <<graph, created, born, owner, says, cursor, runs,
                 handled, paid, overtaken, rewritten, settled, overlap>>

\* Another memory, younger than m, has recorded by now.
Overtakes(m) ==
  overtaken' = IF \E e \in edges : e.owner = owner[m] /\ e.memory > m
               THEN overtaken \cup {m} ELSE overtaken

\* graph.record: failing, it is logged and the contradictions are closed anyway.
ProjectMemory(p) ==
  LET m == at[p] IN
  /\ stage[p] = "record"
  /\ \/ Record(owner[m], m, says[m].names, says[m].relations, born[m]) /\ UNCHANGED faults
     \/ Fault /\ UNCHANGED graph
  /\ Overtakes(m)
  /\ IF says[m].relations # {}
     THEN stage' = [stage EXCEPT ![p] = "invalidate"] /\ UNCHANGED at
     ELSE /\ stage' = [stage EXCEPT ![p] = "idle"]
          /\ at' = [at EXCEPT ![p] = None]
  /\ UNCHANGED <<table, cursor, runs, handled, paid, late, rewritten, settled, overlap>>

\* graph.invalidate, as of the creation of the new memory.
CloseContradicted(p) ==
  LET m == at[p] IN
  /\ stage[p] = "invalidate"
  /\ \/ /\ Invalidate(owner[m], says[m].relations, born[m], m)
        /\ settled' = settled \cup {m}
        /\ UNCHANGED faults
     \/ Fault /\ UNCHANGED <<graph, settled>>
  /\ Overtakes(m)
  /\ stage' = [stage EXCEPT ![p] = "idle"]
  /\ at' = [at EXCEPT ![p] = None]
  /\ UNCHANGED <<table, cursor, runs, handled, paid, late, rewritten, overlap>>

\* MemoryForgetter: the graph is not told.
Forget(m) ==
  /\ state[m] = "live"
  /\ state' = [state EXCEPT ![m] = "deleted"]
  /\ UNCHANGED <<graph, created, born, owner, says, cursor, pipes, runs, faults, history>>

-----------------------------------------------------------------------------
(* graph backfill --entities: any memory, any number of times, one         *)
(* statement for each.                                                     *)

ProjectEntities(m) ==
  /\ state[m] = "live" /\ says[m].names # {}
  /\ RecordEntities(owner[m], m, says[m].names)
  /\ UNCHANGED <<table, cursor, pipes, runs, faults, history>>

-----------------------------------------------------------------------------
(* graph backfill --relations.                                             *)

EndRun(r) ==
  /\ phase' = [phase EXCEPT ![r] = "idle"]
  /\ users' = [users EXCEPT ![r] = {}]
  /\ since' = [since EXCEPT ![r] = 0]
  /\ queue' = [queue EXCEPT ![r] = {}]
  /\ memory' = [memory EXCEPT ![r] = None]
  /\ found' = [found EXCEPT ![r] = {}]
  /\ calls' = [calls EXCEPT ![r] = 0]

StartRun(r) ==
  /\ phase[r] = "idle"
  /\ phase' = [phase EXCEPT ![r] = "user"]
  /\ users' = [users EXCEPT ![r] = Users]
  /\ overlap' = (overlap \/ \E q \in Runs \ {r} : phase[q] # "idle")
  /\ UNCHANGED <<graph, table, cursor, pipes, since, queue, memory, found, calls, faults,
                 handled, paid, late, overtaken, rewritten, settled>>

\* The next user's cursor, until every user was visited.
NextUser(r) ==
  /\ phase[r] = "user"
  /\ IF users[r] = {} THEN EndRun(r)
     ELSE /\ since' = [since EXCEPT ![r] = cursor[Least(users[r])]]
          /\ phase' = [phase EXCEPT ![r] = "list"]
          /\ UNCHANGED <<users, queue, memory, found, calls>>
  /\ UNCHANGED <<graph, table, cursor, pipes, faults, history>>

\* All of the user's memories, superseded ones included; those at or below
\* the cursor are skipped.
ListMemories(r) ==
  /\ phase[r] = "list"
  /\ queue' = [queue EXCEPT ![r] =
                 {m \in Of(Least(users[r])) \cap Stored : born[m] > since[r]}]
  /\ since' = [since EXCEPT ![r] = 0]
  /\ phase' = [phase EXCEPT ![r] = "look"]
  /\ UNCHANGED <<graph, table, cursor, pipes, users, memory, found, calls, faults, history>>

UserDone(r) ==
  /\ phase[r] = "look" /\ queue[r] = {}
  /\ users' = [users EXCEPT ![r] = @ \ {Least(users[r])}]
  /\ phase' = [phase EXCEPT ![r] = "user"]
  /\ UNCHANGED <<graph, table, cursor, pipes, since, queue, memory, found, calls, faults, history>>

\* Mutant of Look: the cursor is moved before the memory is dealt with.
LookAndMark(r) ==
  LET m == Least(queue[r]) IN
  /\ phase[r] = "look" /\ queue[r] # {}
  /\ memory' = [memory EXCEPT ![r] = m]
  /\ queue' = [queue EXCEPT ![r] = @ \ {m}]
  /\ phase' = [phase EXCEPT ![r] = "extract"]
  /\ cursor' = [cursor EXCEPT ![owner[m]] = born[m]]
  /\ UNCHANGED <<graph, table, pipes, users, since, found, calls, faults, history>>

\* The oldest memory left; one that has relations costs no call.
Look(r) ==
  LET m   == Least(queue[r])
      has == HasRelations(owner[m], m)
  IN
  /\ phase[r] = "look" /\ queue[r] # {}
  /\ memory' = [memory EXCEPT ![r] = m]
  /\ queue' = [queue EXCEPT ![r] = @ \ {m}]
  /\ phase' = [phase EXCEPT ![r] = IF has THEN "pass" ELSE "extract"]
  /\ handled' = IF has THEN handled \cup {m} ELSE handled
  /\ UNCHANGED <<graph, table, cursor, pipes, users, since, found, calls, faults,
                 paid, late, overtaken, rewritten, settled, overlap>>

\* extract_relations: of what the model answers, the relations between
\* entities the memory declares.
Anchored(m, relations) ==
  LET declared == {KeyOf[n] : n \in says[m].names}
  IN {q \in relations : Files(q) /\ {KeyOf[q.subject], KeyOf[q.object]} \subseteq declared}

Extract(r) ==
  /\ phase[r] = "extract"
  /\ \E c \in Candidates : found' = [found EXCEPT ![r] = Anchored(memory[r], c.relations)]
  /\ phase' = [phase EXCEPT ![r] = "write"]
  /\ paid' = [paid EXCEPT ![memory[r]] = IF @ = 2 THEN 2 ELSE @ + 1]
  /\ UNCHANGED <<graph, table, cursor, pipes, users, since, queue, memory, calls, faults,
                 handled, late, overtaken, rewritten, settled, overlap>>

WriteRelations(r) ==
  LET m == memory[r] IN
  /\ phase[r] = "write"
  /\ RecordRelations(owner[m], m, found[r], born[m])
  /\ phase' = [phase EXCEPT ![r] = "mark"]
  /\ handled' = handled \cup {m}
  /\ rewritten' = rewritten \cup {m}
  /\ UNCHANGED <<table, cursor, pipes, users, since, queue, memory, found, calls, faults,
                 paid, late, overtaken, settled, overlap>>

\* set_relations_cursor.  A memory that cost a call is charged, and the run
\* ends when that exhausts its budget (the only place where it can).
Mark(r) ==
  /\ phase[r] \in {"mark", "pass"}
  /\ cursor' = [cursor EXCEPT ![owner[memory[r]]] = born[memory[r]]]
  /\ \/ /\ phase[r] = "mark"
        /\ Timed \/ (MaxCalls > 0 /\ calls[r] + 1 >= MaxCalls)
        /\ EndRun(r)
     \/ /\ phase[r] = "mark" => MaxCalls = 0 \/ calls[r] + 1 < MaxCalls
        /\ phase' = [phase EXCEPT ![r] = "look"]
        /\ memory' = [memory EXCEPT ![r] = None]
        /\ found' = [found EXCEPT ![r] = {}]
        /\ calls' = IF phase[r] = "mark" /\ MaxCalls > 0
                    THEN [calls EXCEPT ![r] = @ + 1] ELSE calls
        /\ UNCHANGED <<users, since, queue>>
  /\ UNCHANGED <<graph, table, pipes, faults, history>>

\* A read, the extraction or a write fails, or the process is killed.
RunFails(r) ==
  /\ phase[r] # "idle"
  /\ Fault
  /\ EndRun(r)
  /\ UNCHANGED <<graph, table, cursor, pipes, history>>

-----------------------------------------------------------------------------
Pipeline(p) == Stamp(p) \/ Insert(p) \/ ProjectMemory(p) \/ CloseContradicted(p)

RunStep(r) ==
  \/ NextUser(r) \/ ListMemories(r) \/ UserDone(r) \/ Look(r)
  \/ Extract(r) \/ WriteRelations(r) \/ Mark(r)

Next ==
  \/ \E p \in Pipelines : Pipeline(p)
  \/ \E m \in Memories : Forget(m) \/ ProjectEntities(m)
  \/ \E r \in Runs : StartRun(r) \/ RunStep(r) \/ RunFails(r)

Spec == Init /\ [][Next]_vars

-----------------------------------------------------------------------------
(* Properties.                                                             *)

\* Once closed, an edge is history: no re-recording, invalidation or backfill
\* moves its interval or loses it, so what was true then can still be asked for
\* (invalidate, "never moves an existing interval"; replace_open_relations,
\* "preserving any a later memory already closed").  It says nothing of the fact
\* being asserted again: a memory re-recorded after one of its facts was closed
\* files that fact as a fresh open edge beside the closed one.
ClosedEdgesAreHistory ==
  [][\A e \in edges : e.until # Open => e \in edges']_vars

\* Two memories of a user that disagree on an object: once the younger has
\* recorded its relations and closed what they contradict, the older one's
\* edge is not current, if it was written before the younger's and by its
\* pipeline alone.
Disagree(e, f) ==
  /\ e.owner = f.owner /\ e.subject = f.subject /\ e.predicate = f.predicate
  /\ e.object # f.object /\ e.memory # f.memory
OneCurrentObject ==
  \A e, f \in edges :
    Disagree(e, f) /\ e.memory < f.memory /\ f.memory \in settled
      /\ {e.memory, f.memory} \cap (overtaken \cup rewritten) = {}
    => e.until # Open

\* An edge is closed by a memory of the same user that says something else
\* of the same subject; when that memory's edges were written in turn, the
\* interval it leaves is not empty, unless both memories fell on one instant,
\* so a read as of the edge's own time still finds it.
PastStaysReadable ==
  \A e \in edges : e.until # Open =>
    /\ owner[e.by] = e.owner /\ e.by # e.memory
    /\ \E q \in says[e.by].relations :
         /\ KeyOf[q.subject] = e.subject /\ q.predicate = e.predicate
         /\ KeyOf[q.object] # e.object
    /\ e.by \notin overtaken /\ born[e.by] # born[e.memory] => LiveAt(e, e.from)

\* At every time that may be asked about, the graph has the object a fact had
\* then: one now, and the earlier ones at their own times.
FactsReadTrue == OneCurrentObject /\ PastStaysReadable

\* The cursor of the backfill never passes a memory that was in the table by
\* its turn and was neither extracted from nor found with relations, unless
\* two memories share an instant (graph_backfill_state.rs, "never past a
\* memory the budget stopped it before reaching").
NothingIsPassedOver ==
  \A m \in Stored :
    \/ born[m] > cursor[owner[m]]
    \/ m \in handled \/ m \in late
    \/ \E n \in Of(owner[m]) \ {m} : born[n] = born[m]

\* Without failures, and one run at a time, no memory is extracted from twice,
\* those without relations included (graph_backfiller.rs, budgets of calls).
PaidOnce == faults = 0 /\ ~overlap => \A m \in Memories : paid[m] < 2

\* The backfill deals with every memory, and pays for it once.
EachIsReadOnce == NothingIsPassedOver /\ PaidOnce

=============================================================================
