------------------------- MODULE GraphWritersProofs -------------------------
(***************************************************************************)
(* Proofs about GraphWriters: what happens to an edge once it was closed,  *)
(* who may close it, and what the backfill's cursor leaves behind it.      *)
(***************************************************************************)
EXTENDS GraphWriters, WellFoundedInduction, TLAPS

-----------------------------------------------------------------------------
(* History.                                                                *)

LEMMA ReplacingKeepsClosed ==
  ASSUME NEW u, NEW m, NEW relations, NEW time, ReplaceOpenRelations(u, m, relations, time)
  PROVE  \A e \in edges : e.until # Open => e \in edges'
  BY DEF ReplaceOpenRelations

LEMMA InvalidatingKeepsClosed ==
  ASSUME NEW u, NEW relations, NEW time, NEW m, Invalidate(u, relations, time, m)
  PROVE  \A e \in edges : e.until # Open => e \in edges'
<1> SUFFICES ASSUME NEW e \in edges, e.until # Open PROVE e \in edges'
  OBVIOUS
<1>1. \A r \in relations : ~ Contradicts(u, m, r, e)
  BY DEF Contradicts
<1>2. (IF \E r \in relations : Contradicts(u, m, r, e)
       THEN [e EXCEPT !.until = time, !.by = m] ELSE e) = e
  BY <1>1
<1> QED
  BY <1>2 DEF Invalidate


\* Whatever pipelines, backfills and their failures do, in any order, a closed
\* edge keeps its interval and never goes away (sqlite_entity_graph.rs,
\* replace_open_relations and invalidate).
THEOREM ClosedEdgesStayHistory == Spec => ClosedEdgesAreHistory
<1>1. ASSUME [Next]_vars PROVE \A e \in edges : e.until # Open => e \in edges'
  <2>1. CASE UNCHANGED vars
    BY <2>1 DEF vars, graph
  <2>2. ASSUME NEW p \in Pipelines, Pipeline(p)
        PROVE  \A e \in edges : e.until # Open => e \in edges'
    <3>1. CASE Stamp(p) \/ Insert(p)
      BY <3>1 DEF Stamp, Insert, graph
    <3>2. CASE ProjectMemory(p)
      BY <3>2, ReplacingKeepsClosed DEF ProjectMemory, Record, graph
    <3>3. CASE CloseContradicted(p)
      BY <3>3, InvalidatingKeepsClosed DEF CloseContradicted, graph
    <3> QED
      BY <2>2, <3>1, <3>2, <3>3 DEF Pipeline
  <2>3. ASSUME NEW m \in Memories, Forget(m) \/ ProjectEntities(m)
        PROVE  edges' = edges
    BY <2>3 DEF Forget, ProjectEntities, RecordEntities, graph
  <2>4. ASSUME NEW r \in Runs, StartRun(r) \/ RunStep(r) \/ RunFails(r)
        PROVE  \A e \in edges : e.until # Open => e \in edges'
    <3>1. CASE WriteRelations(r)
      BY <3>1, ReplacingKeepsClosed DEF WriteRelations, RecordRelations
    <3>2. CASE StartRun(r) \/ NextUser(r) \/ ListMemories(r) \/ UserDone(r) \/ Look(r)
               \/ Extract(r) \/ Mark(r) \/ RunFails(r)
      BY <3>2 DEF StartRun, NextUser, ListMemories, UserDone, Look, Extract, Mark, RunFails, graph
    <3> QED
      BY <2>4, <3>1, <3>2 DEF RunStep
  <2> QED
    BY <1>1, <2>1, <2>2, <2>3, <2>4 DEF Next
<1> QED
  BY <1>1, PTL DEF Spec, ClosedEdgesAreHistory

-----------------------------------------------------------------------------
(* The backfill's cursor: the invariant.                                   *)

Entered(m) == state[m] \in {"live", "deleted"}

\* Dealt with, or excused.
Passed(m) == m \in handled \cup late \/ \E n \in Of(owner[m]) \ {m} : born[n] = born[m]

\* A time the cursor may have: all of the user's memories up to it are dealt
\* with, and it is the creation time of one that is in the table, so that any
\* that still comes is late, or as old as that one.
Through(u, t) ==
  /\ t = 0 \/ \E n \in Of(u) : Entered(n) /\ born[n] = t
  /\ \A m \in Of(u) \cap Stored : born[m] <= t => Passed(m)

Reading(r) == Least(users[r])
AtMemories == {"look", "extract", "write", "mark", "pass"}
Current(r) == IF phase[r] \in AtMemories \ {"look"} THEN {memory[r]} ELSE {}
Ahead(r) == queue[r] \cup Current(r)

\* Creation times follow the ids.
TableInv ==
  /\ created \in Nat /\ 1..created \subseteq Memories
  /\ born \in [Memories -> Nat] /\ owner \in [Memories -> Users]
  /\ state \in [Memories -> {"none", "stamped", "live", "deleted"}]
  /\ \A m \in Memories : m > created => state[m] = "none"
  /\ \A m \in 1..created : born[m] >= 1
  /\ \A m, n \in 1..created : m <= n => born[m] <= born[n]

PipesInv ==
  /\ stage \in [Pipelines -> {"idle", "insert", "record", "invalidate"}]
  /\ at \in [Pipelines -> Nat]
  /\ \A p \in Pipelines : stage[p] = "insert" => at[p] \in 1..created /\ state[at[p]] = "stamped"
  /\ \A p, q \in Pipelines : stage[p] = "insert" /\ stage[q] = "insert" /\ at[p] = at[q] => p = q

CursorInv == cursor \in [Users -> Nat] /\ \A u \in Users : Through(u, cursor[u])

RunTypes ==
  /\ phase \in [Runs -> {"idle", "user", "list"} \cup AtMemories]
  /\ users \in [Runs -> SUBSET Users] /\ since \in [Runs -> Nat]
  /\ queue \in [Runs -> SUBSET Nat] /\ memory \in [Runs -> Nat]
  /\ \A r \in Runs : phase[r] \in {"list"} \cup AtMemories => users[r] # {}

\* A run at its memories: what it has not listed and is not past is passed.
InPlace(r) ==
  /\ phase[r] = "list" => Through(Reading(r), since[r])
  /\ phase[r] \in AtMemories =>
       /\ Ahead(r) \subseteq Of(Reading(r))
       /\ \A x \in Ahead(r) : Entered(x)
       /\ \A x \in Current(r), y \in queue[r] : x < y
       /\ \A m \in Of(Reading(r)) \cap Stored, x \in Ahead(r) :
            born[m] <= born[x] => m \in Ahead(r) \/ Passed(m)
       /\ phase[r] \in {"mark", "pass"} => memory[r] \in handled

RunInv == \A r \in Runs : InPlace(r)

CursorIsSafe == TableInv /\ PipesInv /\ CursorInv /\ RunTypes /\ RunInv

\* With one run at a time and no failure: what was paid for is behind the
\* cursor, but for the memory the run is at, and what is ahead is not.
Alone == \A r, q \in Runs : phase[r] # "idle" /\ phase[q] # "idle" => r = q

Behind ==
  \A m \in Memories : paid[m] # 0 =>
    /\ paid[m] = 1 /\ m \in 1..created
    /\ \/ born[m] <= cursor[owner[m]]
       \/ \E r \in Runs : phase[r] \in {"write", "mark"} /\ memory[r] = m

UnpaidAhead(r) ==
  /\ phase[r] = "list" => since[r] = cursor[Reading(r)]
  /\ phase[r] \in AtMemories =>
       /\ \A x \in Ahead(r) : born[x] >= cursor[Reading(r)]
       /\ \A x \in queue[r] : paid[x] = 0
  /\ phase[r] = "extract" => paid[memory[r]] = 0

PaidTypes == paid \in [Memories -> 0..2] /\ faults \in Nat /\ overlap \in BOOLEAN

PaidInv ==
  /\ PaidTypes
  /\ faults = 0 /\ ~ overlap => Alone /\ Behind /\ \A r \in Runs : UnpaidAhead(r)

-----------------------------------------------------------------------------
(* The table.                                                              *)

LEMMA LeastIsTheLeast ==
  ASSUME NEW S \in SUBSET Nat, S # {}
  PROVE  Least(S) \in S /\ \A y \in S : Least(S) <= y
<1> DEFINE R == OpToRel(<, Nat)
<1>1. S \subseteq Nat /\ S # {}
  OBVIOUS
<1>2. IsWellFoundedOn(R, Nat)
  BY NatLessThanWellFounded
<1>3. PICK x \in S : \A y \in S : ~(<<y, x>> \in R)
  BY <1>1, <1>2, WFMin
<1>4. \A y \in S : x <= y
  <2> SUFFICES ASSUME NEW y \in S PROVE x <= y
    OBVIOUS
  <2>1. ~(y < x)
    BY <1>3 DEF OpToRel
  <2> QED BY <2>1, <1>1
<1> QED BY <1>4 DEF Least

\* What every step does to the table and its history: memories keep their
\* owners and times, and one that comes in behind an entered one is late.
TableGrows ==
  /\ created' \in Nat /\ created <= created'
  /\ \A m \in 1..created :
       owner'[m] = owner[m] /\ born'[m] = born[m] /\ (Entered(m) => Entered(m)')
  /\ handled \subseteq handled' /\ late \subseteq late'
  /\ \A m \in 1..created' : state'[m] = "live" =>
       /\ m \in 1..created
       /\ \/ state[m] = "live"
          \/ ~ Entered(m) /\ \A n \in Younger(m) : Entered(n) => m \in late'

LEMMA PassedStays ==
  ASSUME TableInv, TableGrows, NEW m \in 1..created, Passed(m)
  PROVE  Passed(m)'
BY DEF TableInv, TableGrows, Passed, Of

\* A memory that comes in no younger than one that is there is excused.
LEMMA LateIsPassed ==
  ASSUME TableInv, TableInv', TableGrows,
         NEW x \in 1..created, Entered(x), NEW m \in 1..created', state'[m] = "live",
         state[m] # "live", owner'[m] = owner'[x], born'[m] <= born'[x], m # x
  PROVE  Passed(m)'
<1>1. m \in 1..created /\ owner[m] = owner[x]
  BY DEF TableGrows
<1>2. CASE x > m
  <2>1. x \in Younger(m)
    BY <1>1, <1>2 DEF Younger, Of
  <2>2. m \in late'
    BY <2>1 DEF TableGrows
  <2> QED BY <2>2 DEF Passed
<1>3. CASE x < m
  <2>1. born'[x] <= born'[m]
    BY <1>1, <1>3 DEF TableInv, TableGrows
  <2>2. born'[m] = born'[x]
    BY <1>1, <2>1 DEF TableInv
  <2>3. x \in 1..created' /\ owner'[x] = owner'[m]
    BY <1>1 DEF TableGrows, TableInv
  <2> QED BY <2>2, <2>3 DEF Passed, Of
<1> QED BY <1>1, <1>2, <1>3

LEMMA ThroughStays ==
  ASSUME TableInv, TableInv', TableGrows, NEW u \in Users, NEW t \in Nat, Through(u, t)
  PROVE  Through(u, t)'
<1>1. t = 0 \/ \E n \in Of(u) : Entered(n) /\ born[n] = t
  BY DEF Through
<1>2. t = 0 \/ \E n \in Of(u)' : Entered(n)' /\ born'[n] = t
  BY <1>1 DEF Of, TableGrows, TableInv
<1>3. ASSUME NEW m \in Of(u)' \cap Stored', born'[m] <= t
      PROVE  Passed(m)'
  <2>1. m \in 1..created /\ m \in 1..created' /\ state'[m] = "live" /\ m \in Memories
    BY <1>3 DEF TableGrows, Stored, Of
  <2>2. owner[m] = u /\ born'[m] = born[m] /\ owner'[m] = u
    BY <1>3, <2>1 DEF TableGrows, Of
  <2>3. CASE state[m] = "live"
    <3>1. Passed(m)
      BY <1>3, <2>1, <2>2, <2>3 DEF Through, Of, Stored
    <3> QED BY <2>1, <3>1, PassedStays
  <2>4. CASE state[m] # "live"
    <3>1. t # 0
      BY <1>3, <2>1 DEF TableInv
    <3>2. PICK n \in Of(u) : Entered(n) /\ born[n] = t
      BY <1>1, <3>1
    <3>3. n # m
      BY <2>1, <2>4, <3>2 DEF TableGrows
    <3>4. n \in 1..created /\ owner'[n] = u /\ born'[n] = t
      BY <3>2 DEF TableGrows, Of
    <3> QED BY <1>3, <2>1, <2>2, <2>4, <3>2, <3>3, <3>4, LateIsPassed
  <2> QED BY <2>3, <2>4
<1> QED BY <1>2, <1>3 DEF Through

\* A run is where it was, whatever another process does to the table.
LEMMA InPlaceStays ==
  ASSUME TableInv, TableInv', TableGrows, RunTypes, NEW r \in Runs, InPlace(r),
         phase'[r] = phase[r], users'[r] = users[r], since'[r] = since[r],
         queue'[r] = queue[r], memory'[r] = memory[r]
  PROVE  InPlace(r)'
<1> SUFFICES ASSUME phase[r] \in {"list"} \cup AtMemories PROVE InPlace(r)'
  BY DEF InPlace, AtMemories
<1>1. Reading(r)' = Reading(r) /\ Ahead(r)' = Ahead(r) /\ Current(r)' = Current(r)
  BY DEF Reading, Ahead, Current
<1>2. PICK u \in Users : u = Reading(r)
  BY LeastIsTheLeast, WritersAssumption DEF RunTypes, Reading
<1>3. PICK t \in Nat : t = since[r]
  BY DEF RunTypes
<1>4. PICK A : A = Ahead(r)
  OBVIOUS
<1>5. ASSUME phase[r] = "list" PROVE Through(u, t)'
  BY <1>2, <1>3, <1>5, ThroughStays DEF InPlace
<1>6. ASSUME phase[r] \in AtMemories
      PROVE  /\ A \subseteq Of(u)'
             /\ \A x \in A : Entered(x)'
             /\ phase[r] \in {"mark", "pass"} => memory[r] \in handled'
  <2>1. A \subseteq Of(u) /\ \A x \in A : Entered(x)
    BY <1>2, <1>4, <1>6 DEF InPlace
  <2> QED BY <1>6, <2>1 DEF InPlace, Of, TableGrows, TableInv
<1>7. ASSUME phase[r] \in AtMemories,
             NEW m \in Of(u)' \cap Stored', NEW x \in A, born'[m] <= born'[x], m \notin A
      PROVE  Passed(m)'
  <2>1. x \in Of(u) /\ Entered(x)
    BY <1>2, <1>4, <1>7 DEF InPlace
  <2>2. m \in 1..created /\ m \in 1..created' /\ state'[m] = "live" /\ m \in Memories
    BY <1>7 DEF TableGrows, TableInv, Stored, Of
  <2>3. owner[m] = u /\ owner'[m] = u /\ born'[m] = born[m]
    BY <1>7, <2>2 DEF TableGrows, Of
  <2>4. x \in 1..created /\ owner'[x] = u /\ born'[x] = born[x]
    BY <2>1 DEF TableGrows, Of
  <2>5. CASE state[m] = "live"
    <3>1. m \in Of(u) \cap Stored /\ born[m] <= born[x]
      BY <1>7, <2>2, <2>3, <2>4, <2>5 DEF Of, Stored
    <3>2. Passed(m)
      BY <1>2, <1>4, <1>7, <3>1 DEF InPlace
    <3> QED BY <2>2, <3>2, PassedStays
  <2>6. CASE state[m] # "live"
    BY <1>7, <2>1, <2>2, <2>3, <2>4, <2>6, LateIsPassed
  <2> QED BY <2>5, <2>6
<1>8. phase[r] \in AtMemories => \A x \in Current(r), y \in queue[r] : x < y
  BY DEF InPlace
<1> QED BY <1>1, <1>2, <1>3, <1>4, <1>5, <1>6, <1>7, <1>8 DEF InPlace

-----------------------------------------------------------------------------
(* The steps on the table.                                                 *)

LEMMA StampKeepsTable ==
  ASSUME TableInv, PipesInv, NEW p \in Pipelines, Stamp(p)
  PROVE  TableInv' /\ PipesInv' /\ TableGrows
<1> DEFINE n == created + 1
<1>1. /\ n \in Memories /\ n \in Nat /\ n >= 1 /\ created' = n /\ state[n] = "none"
      /\ handled' = handled /\ late' = late
  BY GraphAssumption DEF Stamp, TableInv, history
<1>2. PICK time \in Nat :
        /\ born' = [born EXCEPT ![n] = time]
        /\ time >= 1 /\ \A m \in 1..created : born[m] <= time
  <2>1. \A k \in {0, 1} : k + (IF created = 0 THEN 1 ELSE born[created]) \in Nat
    BY GraphAssumption DEF TableInv
  <2>2. created # 0 => born[created] >= 1 /\ \A m \in 1..created : born[m] <= born[created]
    BY DEF TableInv
  <2>3. \A m \in 1..created : born[m] \in Nat
    BY DEF TableInv
  <2>4. PICK tick \in {0, 1} :
          born' = [born EXCEPT ![n] = tick + (IF created = 0 THEN 1 ELSE born[created])]
    BY DEF Stamp
  <2>5. created # 0 => born[created] \in Nat
    BY DEF TableInv
  <2>6. PICK time : time = tick + (IF created = 0 THEN 1 ELSE born[created])
    OBVIOUS
  <2>7. created \in Nat
    BY DEF TableInv
  <2>8. time \in Nat
    BY <2>1, <2>6
  <2>9. CASE created = 0
    <3>1. time >= 1 /\ \A m \in 1..created : born[m] <= time
      BY <2>6, <2>9
    <3> QED BY <2>4, <2>6, <2>8, <3>1
  <2>10. CASE created # 0
    <3>1. time >= 1 /\ time >= born[created]
      BY <2>2, <2>5, <2>6, <2>10
    <3>2. \A m \in 1..created : born[m] <= time
      BY <2>2, <2>3, <2>5, <2>8, <2>10, <3>1
    <3> QED BY <2>4, <2>6, <2>8, <3>1, <3>2
  <2> QED BY <2>9, <2>10
<1>3. PICK u \in Users : owner' = [owner EXCEPT ![n] = u]
  BY DEF Stamp
<1>4. state' = [state EXCEPT ![n] = "stamped"] /\ stage' = [stage EXCEPT ![p] = "insert"]
      /\ at' = [at EXCEPT ![p] = n] /\ stage[p] = "idle"
  BY DEF Stamp
<1>5. \A m \in 1..created' : m = n \/ m \in 1..created
  BY <1>1 DEF TableInv
<1>6. n \notin 1..created /\ 1..created \subseteq Memories /\ created \in Nat
  BY DEF TableInv
<1> HIDE DEF n
<1>7. TableInv'
  <2>1. created' \in Nat /\ 1..created' \subseteq Memories
    BY <1>1, <1>5, <1>6
  <2>2. /\ born' \in [Memories -> Nat] /\ owner' \in [Memories -> Users]
        /\ state' \in [Memories -> {"none", "stamped", "live", "deleted"}]
    BY <1>1, <1>2, <1>3, <1>4 DEF TableInv
  <2>3. \A m \in Memories : m > created' => state'[m] = "none"
    BY <1>1, <1>4, GraphAssumption DEF TableInv, n
  <2>4. \A m \in 1..created' : born'[m] >= 1
    BY <1>1, <1>2, <1>5, <1>6 DEF TableInv
  <2>5. \A k, m \in 1..created' : k <= m => born'[k] <= born'[m]
    <3> SUFFICES ASSUME NEW k \in 1..created', NEW m \in 1..created', k <= m
                 PROVE  born'[k] <= born'[m]
      OBVIOUS
    <3>1. born'[n] = time /\ \A l \in 1..created : born'[l] = born[l]
      BY <1>1, <1>2, <1>6 DEF TableInv
    <3>2. CASE m = n
      <4>1. CASE k = n
        BY <1>2, <3>1, <3>2, <4>1
      <4>2. CASE k # n
        BY <1>2, <1>5, <3>1, <3>2, <4>2
      <4> QED BY <4>1, <4>2
    <3>3. CASE m # n
      <4>1. m \in 1..created /\ k # n
        BY <1>5, <1>6, <3>3 DEF n
      <4> QED BY <1>5, <3>1, <4>1 DEF TableInv
    <3> QED BY <3>2, <3>3
  <2> QED BY <2>1, <2>2, <2>3, <2>4, <2>5 DEF TableInv
<1>8. PipesInv'
  <2>1. stage' \in [Pipelines -> {"idle", "insert", "record", "invalidate"}]
        /\ at' \in [Pipelines -> Nat]
    BY <1>1, <1>4 DEF PipesInv
  <2>2. \A q \in Pipelines \ {p} : stage'[q] = "insert" =>
          stage[q] = "insert" /\ at'[q] = at[q] /\ at[q] \in 1..created /\ state[at[q]] = "stamped"
    BY <1>4 DEF PipesInv
  <2>3. at'[p] = n /\ n \in 1..created' /\ state'[n] = "stamped"
    BY <1>1, <1>4 DEF PipesInv, TableInv
  <2>4. \A q \in Pipelines \ {p} : stage'[q] = "insert" => at'[q] \in 1..created' /\ at'[q] # n
    BY <1>1, <1>6, <2>2 DEF n
  <2>5. \A q \in Pipelines \ {p} : stage'[q] = "insert" => state'[at'[q]] = "stamped"
    BY <1>1, <1>4, <1>6, <2>2, <2>4 DEF TableInv
  <2> QED BY <2>1, <2>2, <2>3, <2>4, <2>5 DEF PipesInv
<1>9. TableGrows
  <2>1. created' \in Nat /\ created <= created'
    BY <1>1, <1>6 DEF n
  <2>2. \A m \in 1..created : owner'[m] = owner[m] /\ born'[m] = born[m] /\ state'[m] = state[m]
    BY <1>2, <1>3, <1>4, <1>6 DEF TableInv
  <2>3. state'[n] = "stamped"
    BY <1>1, <1>4 DEF TableInv
  <2> QED BY <1>1, <1>5, <2>1, <2>2, <2>3 DEF TableGrows, Entered
<1> QED BY <1>7, <1>8, <1>9

LEMMA InsertKeepsTable ==
  ASSUME TableInv, PipesInv, NEW p \in Pipelines, Insert(p)
  PROVE  TableInv' /\ PipesInv' /\ TableGrows
<1>1. /\ stage[p] = "insert" /\ UNCHANGED <<created, born, owner, handled>>
      /\ at[p] \in 1..created /\ state[at[p]] = "stamped"
  BY DEF Insert, PipesInv
<1>2. CASE UNCHANGED <<state, late>>
  <2>1. TableInv' /\ TableGrows
    BY <1>1, <1>2 DEF TableInv, TableGrows, Entered
  <2>2. \/ stage' = [stage EXCEPT ![p] = "idle"] /\ at' = [at EXCEPT ![p] = None]
        \/ stage' = [stage EXCEPT ![p] = "record"] /\ UNCHANGED at
    BY DEF Insert
  <2> QED BY <1>1, <1>2, <2>1, <2>2 DEF PipesInv, None
<1>3. CASE /\ state' = [state EXCEPT ![at[p]] = "live"]
           /\ late' = IF \E n \in Younger(at[p]) : state[n] \in {"live", "deleted"}
                      THEN late \cup {at[p]} ELSE late
  <2>1. TableInv'
    BY <1>1, <1>3 DEF TableInv
  <2>2. \A m \in 1..created : m # at[p] => state'[m] = state[m]
    BY <1>3 DEF TableInv
  <2>3. TableGrows
    BY <1>1, <1>3, <2>2 DEF TableInv, TableGrows, Entered
  <2>4. \/ stage' = [stage EXCEPT ![p] = "idle"] /\ at' = [at EXCEPT ![p] = None]
        \/ stage' = [stage EXCEPT ![p] = "record"] /\ UNCHANGED at
    BY DEF Insert
  <2>5. \A q \in Pipelines : stage'[q] = "insert" => q # p /\ stage[q] = "insert" /\ at'[q] = at[q]
    BY <2>4 DEF PipesInv
  <2>6. stage' \in [Pipelines -> {"idle", "insert", "record", "invalidate"}] /\ at' \in [Pipelines -> Nat]
    BY <2>4 DEF PipesInv, None
  <2>7. \A q \in Pipelines : stage'[q] = "insert" => at'[q] \in 1..created /\ state'[at'[q]] = "stamped"
    BY <1>1, <2>2, <2>5 DEF PipesInv
  <2> QED BY <1>1, <2>1, <2>3, <2>5, <2>6, <2>7 DEF PipesInv
<1> QED BY <1>2, <1>3 DEF Insert

LEMMA ForgetKeepsTable ==
  ASSUME TableInv, PipesInv, NEW m \in Memories, Forget(m)
  PROVE  TableInv' /\ PipesInv' /\ TableGrows
<1>1. /\ state[m] = "live" /\ state' = [state EXCEPT ![m] = "deleted"]
      /\ UNCHANGED <<created, born, owner, stage, at, handled, late>>
  BY DEF Forget, pipes, history
<1>2. m \in 1..created
  BY <1>1, GraphAssumption DEF TableInv
<1>3. \A n \in Memories : n # m => state'[n] = state[n]
  BY <1>1 DEF TableInv
<1>4. state'[m] = "deleted"
  BY <1>1 DEF TableInv
<1>5. TableInv'
  BY <1>1, <1>2 DEF TableInv
<1>6. PipesInv'
  BY <1>1, <1>3 DEF PipesInv, TableInv
<1>7. TableGrows
  BY <1>1, <1>3, <1>4 DEF TableGrows, TableInv, Entered
<1> QED BY <1>5, <1>6, <1>7

\* The steps that leave the rows and the inserts as they are.
LEMMA OthersKeepTable ==
  ASSUME TableInv, PipesInv, UNCHANGED <<created, born, owner, state, late>>, handled \subseteq handled',
         \/ UNCHANGED <<stage, at>>
         \/ \E p \in Pipelines : /\ stage[p] # "insert"
                                 /\ \/ stage' = [stage EXCEPT ![p] = "idle"] /\ at' = [at EXCEPT ![p] = None]
                                    \/ stage' = [stage EXCEPT ![p] = "invalidate"] /\ UNCHANGED at
  PROVE  TableInv' /\ PipesInv' /\ TableGrows
<1>1. TableInv' /\ TableGrows
  BY DEF TableInv, TableGrows, Entered
<1>2. PipesInv'
  BY DEF PipesInv, None
<1> QED BY <1>1, <1>2

LEMMA TableStep ==
  ASSUME TableInv, PipesInv, [Next]_vars
  PROVE  TableInv' /\ PipesInv' /\ TableGrows
<1>1. CASE UNCHANGED vars
  BY <1>1, OthersKeepTable DEF vars, table, pipes, history
<1>2. ASSUME NEW p \in Pipelines, Pipeline(p) PROVE TableInv' /\ PipesInv' /\ TableGrows
  <2>1. CASE Stamp(p)
    BY <2>1, StampKeepsTable
  <2>2. CASE Insert(p)
    BY <2>2, InsertKeepsTable
  <2>3. CASE ProjectMemory(p)
    BY <2>3, OthersKeepTable DEF ProjectMemory, table
  <2>4. CASE CloseContradicted(p)
    BY <2>4, OthersKeepTable DEF CloseContradicted, table
  <2> QED BY <1>2, <2>1, <2>2, <2>3, <2>4 DEF Pipeline
<1>3. ASSUME NEW m \in Memories, Forget(m) \/ ProjectEntities(m)
      PROVE  TableInv' /\ PipesInv' /\ TableGrows
  <2>1. CASE Forget(m)
    BY <2>1, ForgetKeepsTable
  <2>2. CASE ProjectEntities(m)
    BY <2>2, OthersKeepTable DEF ProjectEntities, table, pipes, history
  <2> QED BY <1>3, <2>1, <2>2
<1>4. ASSUME NEW r \in Runs, StartRun(r) \/ RunStep(r) \/ RunFails(r)
      PROVE  TableInv' /\ PipesInv' /\ TableGrows
  <2>1. CASE Look(r) \/ WriteRelations(r)
    BY <2>1, OthersKeepTable DEF Look, WriteRelations, table, pipes
  <2>2. CASE StartRun(r) \/ NextUser(r) \/ ListMemories(r) \/ UserDone(r) \/ Extract(r)
             \/ Mark(r) \/ RunFails(r)
    BY <2>2, OthersKeepTable
       DEF StartRun, NextUser, ListMemories, UserDone, Extract, Mark, RunFails, table, pipes, history
  <2> QED BY <1>4, <2>1, <2>2 DEF RunStep
<1> QED BY <1>1, <1>2, <1>3, <1>4 DEF Next

-----------------------------------------------------------------------------
(* The steps of a run.                                                     *)

\* What a run's step may change of the runs: only its own.
LEMMA RunTypesStay ==
  ASSUME RunTypes, TableInv, CursorInv, NEW r \in Runs,
         InPlace(r), StartRun(r) \/ RunStep(r) \/ RunFails(r)
  PROVE  /\ RunTypes'
         /\ \A q \in Runs \ {r} :
              /\ phase'[q] = phase[q] /\ users'[q] = users[q] /\ since'[q] = since[q]
              /\ queue'[q] = queue[q] /\ memory'[q] = memory[q]
<1> USE DEF AtMemories
<1>1. CASE StartRun(r)
  BY <1>1, WritersAssumption DEF StartRun, RunTypes
<1>2. CASE NextUser(r)
  <2>1. CASE EndRun(r)
    BY <2>1 DEF EndRun, RunTypes, None
  <2>2. CASE users[r] # {}
    <3>1. Least(users[r]) \in Users
      BY <2>2, LeastIsTheLeast, WritersAssumption DEF RunTypes
    <3>2. cursor[Least(users[r])] \in Nat
      BY <3>1 DEF CursorInv
    <3> QED BY <1>2, <2>2, <3>2 DEF NextUser, RunTypes
  <2> QED BY <1>2, <2>1, <2>2 DEF NextUser
<1>3. CASE ListMemories(r)
  <2>1. {m \in Of(Least(users[r])) \cap Stored : born[m] > since[r]} \in SUBSET Nat
    BY GraphAssumption DEF Stored
  <2> QED BY <1>3, <2>1 DEF ListMemories, RunTypes
<1>4. CASE UserDone(r)
  BY <1>4 DEF UserDone, RunTypes
<1>5. CASE Look(r)
  <2>1. Least(queue[r]) \in Nat
    BY <1>5, LeastIsTheLeast DEF Look, RunTypes
  <2> QED BY <1>5, <2>1 DEF Look, RunTypes
<1>6. CASE Extract(r)
  BY <1>6 DEF Extract, RunTypes
<1>7. CASE WriteRelations(r)
  BY <1>7 DEF WriteRelations, RunTypes
<1>8. CASE Mark(r)
  <2>1. CASE EndRun(r)
    BY <2>1 DEF EndRun, RunTypes, None
  <2>2. CASE /\ phase' = [phase EXCEPT ![r] = "look"]
             /\ memory' = [memory EXCEPT ![r] = None]
             /\ UNCHANGED <<users, since, queue>>
    BY <1>8, <2>2 DEF Mark, RunTypes, None
  <2> QED BY <1>8, <2>1, <2>2 DEF Mark
<1>9. CASE RunFails(r)
  BY <1>9 DEF RunFails, EndRun, RunTypes, None
<1> QED BY <1>1, <1>2, <1>3, <1>4, <1>5, <1>6, <1>7, <1>8, <1>9 DEF RunStep

\* A run that is at no user's memories has nothing to be wrong about.
LEMMA ElsewhereIsInPlace ==
  ASSUME NEW r \in Runs, phase'[r] \in {"idle", "user"}
  PROVE  InPlace(r)'
BY DEF InPlace, AtMemories

LEMMA ReaderIsAUser ==
  ASSUME RunTypes, NEW r \in Runs, users[r] # {}
  PROVE  Reading(r) \in Users /\ Reading(r) = Least(users[r])
BY LeastIsTheLeast, WritersAssumption DEF RunTypes, Reading

LEMMA NextUserIsInPlace ==
  ASSUME CursorIsSafe, NEW r \in Runs, NextUser(r)
  PROVE  InPlace(r)'
<1> USE DEF AtMemories
<1>1. CASE users[r] = {}
  <2>1. phase'[r] = "idle"
    BY <1>1 DEF NextUser, EndRun, CursorIsSafe, RunTypes
  <2> QED BY <2>1, ElsewhereIsInPlace
<1>2. CASE users[r] # {}
  <2>1. PICK u \in Users : u = Least(users[r]) /\ u = Reading(r)
    BY <1>2, ReaderIsAUser DEF CursorIsSafe
  <2>2. PICK t \in Nat : t = cursor[u]
    BY DEF CursorIsSafe, CursorInv
  <2>3. Through(u, t)
    BY <2>2 DEF CursorIsSafe, CursorInv
  <2>4. UNCHANGED <<created, born, owner, state, handled, late, users>> /\ phase'[r] = "list" /\ since'[r] = t
    BY <1>2, <2>1, <2>2 DEF NextUser, table, history, CursorIsSafe, RunTypes
  <2>5. Through(u, t)' /\ Reading(r)' = u
    BY <2>1, <2>3, <2>4 DEF Through, Of, Stored, Entered, Passed, Reading
  <2> QED BY <2>4, <2>5 DEF InPlace
<1> QED BY <1>1, <1>2

\* Of the memories there are, those that are not listed are passed.
LEMMA ListingIsInPlace ==
  ASSUME CursorIsSafe, NEW r \in Runs, ListMemories(r)
  PROVE  InPlace(r)'
<1> USE DEF AtMemories
<1>1. PICK u \in Users : u = Least(users[r]) /\ u = Reading(r)
  BY ReaderIsAUser DEF CursorIsSafe, RunTypes, ListMemories
<1>2. PICK t \in Nat : t = since[r]
  BY DEF CursorIsSafe, RunTypes
<1>3. Through(u, t)
  BY <1>1, <1>2 DEF CursorIsSafe, RunInv, InPlace, ListMemories
<1>4. /\ UNCHANGED <<created, born, owner, state, handled, late, users>>
      /\ phase'[r] = "look"
      /\ queue'[r] = {m \in Of(u) \cap Stored : born[m] > t}
  BY <1>1, <1>2 DEF ListMemories, table, history, CursorIsSafe, RunTypes
<1>5. Reading(r)' = u /\ Current(r)' = {} /\ Ahead(r)' = queue'[r]
  BY <1>1, <1>4 DEF Reading, Current, Ahead
<1>6. Ahead(r)' \subseteq Of(u)' /\ \A x \in Ahead(r)' : Entered(x)'
  BY <1>4, <1>5 DEF Of, Entered, Stored
<1>7. ASSUME NEW m \in Of(u)' \cap Stored', m \notin Ahead(r)'
      PROVE  Passed(m)'
  <2>1. m \in Of(u) \cap Stored
    BY <1>4, <1>7 DEF Of, Stored
  <2>2. born[m] <= t
    BY <1>4, <1>5, <1>7, <2>1 DEF Stored, CursorIsSafe, TableInv
  <2>3. Passed(m)
    BY <1>3, <2>1, <2>2 DEF Through
  <2> QED BY <1>4, <2>3 DEF Passed, Of
<1> QED BY <1>4, <1>5, <1>6, <1>7 DEF InPlace

\* At the same memories as before, with nothing about them unlearnt.
LEMMA GoingOnIsInPlace ==
  ASSUME CursorIsSafe, NEW r \in Runs, phase[r] \in AtMemories, phase'[r] \in AtMemories,
         UNCHANGED <<created, born, owner, state, late, users>>, handled \subseteq handled',
         Ahead(r)' = Ahead(r), \A x \in Current(r)', y \in queue'[r] : x < y,
         phase'[r] \in {"mark", "pass"} => memory'[r] \in handled'
  PROVE  InPlace(r)'
<1>1. PICK u : u = Reading(r)
  OBVIOUS
<1>2. Reading(r)' = u /\ Of(u)' = Of(u) /\ Stored' = Stored
  BY <1>1 DEF Reading, Of, Stored
<1>3. \A m : Passed(m) => Passed(m)'
  BY DEF Passed, Of
<1>4. \A x : Entered(x)' <=> Entered(x)
  BY DEF Entered
<1>5. PICK A : A = Ahead(r)
  OBVIOUS
<1>6. /\ A \subseteq Of(u) /\ \A x \in A : Entered(x)
      /\ \A m \in Of(u) \cap Stored, x \in A : born[m] <= born[x] => m \in A \/ Passed(m)
  BY <1>1, <1>5 DEF CursorIsSafe, RunInv, InPlace
<1>7. Ahead(r)' = A
  BY <1>5
<1>8. phase'[r] # "list"
  BY DEF AtMemories
<1> QED BY <1>2, <1>3, <1>4, <1>6, <1>7, <1>8 DEF InPlace

LEMMA LookingIsInPlace ==
  ASSUME CursorIsSafe, NEW r \in Runs, Look(r)
  PROVE  InPlace(r)'
<1> USE DEF AtMemories
<1>1. PICK m : m = Least(queue[r])
  OBVIOUS
<1>2. m \in queue[r] /\ \A y \in queue[r] : m <= y /\ m \in Nat /\ y \in Nat
  BY <1>1, LeastIsTheLeast DEF Look, CursorIsSafe, RunTypes
<1>3. /\ phase[r] = "look" /\ phase'[r] \in {"extract", "pass"}
      /\ memory'[r] = m /\ queue'[r] = queue[r] \ {m}
      /\ UNCHANGED <<created, born, owner, state, late, users>> /\ handled \subseteq handled'
      /\ phase'[r] = "pass" => m \in handled'
  BY <1>1 DEF Look, table, CursorIsSafe, RunTypes
<1>4. Ahead(r) = queue[r] /\ Current(r)' = {m}
  BY <1>3 DEF Ahead, Current
<1>5. Ahead(r)' = Ahead(r)
  BY <1>2, <1>3, <1>4 DEF Ahead
<1>6. \A x \in Current(r)', y \in queue'[r] : x < y
  BY <1>2, <1>3, <1>4
<1> QED BY <1>3, <1>5, <1>6, GoingOnIsInPlace

LEMMA ReadingIsInPlace ==
  ASSUME CursorIsSafe, NEW r \in Runs, Extract(r) \/ WriteRelations(r)
  PROVE  InPlace(r)'
<1> USE DEF AtMemories
<1>1. /\ phase[r] \in {"extract", "write"} /\ phase'[r] \in {"write", "mark"}
      /\ UNCHANGED <<created, born, owner, state, late, users, queue, memory>>
      /\ handled \subseteq handled'
      /\ phase'[r] = "mark" => memory[r] \in handled'
  BY DEF Extract, WriteRelations, table, CursorIsSafe, RunTypes
<1>2. Ahead(r)' = Ahead(r) /\ Current(r)' = Current(r)
  BY <1>1 DEF Ahead, Current
<1>3. \A x \in Current(r), y \in queue[r] : x < y
  BY <1>1 DEF CursorIsSafe, RunInv, InPlace
<1> QED BY <1>1, <1>2, <1>3, GoingOnIsInPlace

\* The cursor goes to a memory behind which everything is passed.
LEMMA MarkingIsInPlace ==
  ASSUME CursorIsSafe, NEW r \in Runs, Mark(r)
  PROVE  InPlace(r)' /\ CursorInv'
<1> USE DEF AtMemories
<1>1. phase[r] \in {"mark", "pass"} /\ UNCHANGED <<created, born, owner, state, late, handled>>
  BY DEF Mark, table, history
<1>2. PICK m \in Nat : m = memory[r]
  BY DEF CursorIsSafe, RunTypes
<1>3. PICK u \in Users : u = Least(users[r]) /\ u = Reading(r)
  BY <1>1, ReaderIsAUser DEF CursorIsSafe, RunTypes
<1>4. Current(r) = {m} /\ m \in Ahead(r)
  BY <1>1, <1>2 DEF Current, Ahead
<1>5. m \in Of(u) /\ Entered(m) /\ m \in handled /\ \A y \in queue[r] : m < y
  BY <1>1, <1>2, <1>3, <1>4 DEF CursorIsSafe, RunInv, InPlace
<1>6. owner[m] = u /\ m \in 1..created /\ born[m] \in Nat
  BY <1>5 DEF Of, CursorIsSafe, TableInv
<1>7. ASSUME NEW n \in Of(u) \cap Stored, born[n] <= born[m]
      PROVE  Passed(n)
  <2>1. n \in Ahead(r) \/ Passed(n)
    BY <1>1, <1>3, <1>4, <1>7 DEF CursorIsSafe, RunInv, InPlace
  <2>2. CASE n = m
    BY <1>5, <2>2 DEF Passed
  <2>3. CASE n \in queue[r]
    <3>1. m < n /\ n \in 1..created /\ owner[n] = u
      BY <1>5, <1>7, <2>3 DEF Of
    <3>2. born[m] <= born[n]
      BY <1>6, <3>1 DEF CursorIsSafe, TableInv
    <3>3. born[m] = born[n]
      BY <1>6, <1>7, <3>1, <3>2 DEF CursorIsSafe, TableInv
    <3> QED BY <1>5, <1>6, <3>1, <3>3 DEF Passed
  <2> QED BY <1>4, <2>1, <2>2, <2>3 DEF Ahead
<1>8. PICK t \in Nat : t = born[m]
  BY <1>6
<1>9. Through(u, t)
  BY <1>5, <1>7, <1>8 DEF Through
<1>10. \A v \in Users, k \in Nat : Through(v, k) => Through(v, k)'
  BY <1>1 DEF Through, Of, Stored, Entered, Passed
<1>11. cursor' = [cursor EXCEPT ![u] = t]
  BY <1>2, <1>6, <1>8 DEF Mark
<1>12. CursorInv'
  <2>1. cursor' \in [Users -> Nat]
    BY <1>11 DEF CursorIsSafe, CursorInv
  <2>2. \A v \in Users : \E k \in Nat : k = cursor'[v] /\ Through(v, k)
    BY <1>9, <1>11 DEF CursorIsSafe, CursorInv
  <2> QED BY <1>10, <2>1, <2>2 DEF CursorInv
<1>13. InPlace(r)'
  <2>1. CASE EndRun(r)
    <3>1. phase'[r] = "idle"
      BY <2>1 DEF EndRun, CursorIsSafe, RunTypes
    <3> QED BY <3>1, ElsewhereIsInPlace
  <2>2. CASE phase' = [phase EXCEPT ![r] = "look"] /\ UNCHANGED <<users, queue>>
    <3>1. phase'[r] = "look" /\ Current(r)' = {} /\ Ahead(r)' = queue[r] /\ Reading(r)' = u
      BY <1>3, <2>2 DEF CursorIsSafe, RunTypes, Current, Ahead, Reading
    <3>2. queue[r] \subseteq Ahead(r)
      BY DEF Ahead
    <3>3. Of(u)' = Of(u) /\ Stored' = Stored
      BY <1>1 DEF Of, Stored
    <3>4. \A x \in queue[r] : x \in Of(u)' /\ Entered(x)'
      BY <1>1, <1>3, <3>2, <3>3 DEF CursorIsSafe, RunInv, InPlace, Entered
    <3>5. ASSUME NEW n \in Of(u) \cap Stored, NEW x \in queue[r], born[n] <= born[x], n \notin queue[r]
          PROVE  Passed(n)'
      <4>1. n \in Ahead(r) \/ Passed(n)
        BY <1>1, <1>3, <3>2, <3>5 DEF CursorIsSafe, RunInv, InPlace
      <4>2. n = m => Passed(n)
        BY <1>5 DEF Passed
      <4>3. Passed(n)
        BY <1>4, <3>5, <4>1, <4>2 DEF Ahead
      <4> QED BY <1>1, <4>3 DEF Passed, Of
    <3> QED BY <1>1, <3>1, <3>3, <3>4, <3>5 DEF InPlace
  <2> QED BY <2>1, <2>2 DEF Mark
<1> QED BY <1>12, <1>13

-----------------------------------------------------------------------------
(* The cursor is safe.                                                     *)

LEMMA CursorIsSafeAtFirst == Init => CursorIsSafe
<1> SUFFICES ASSUME Init PROVE CursorIsSafe
  OBVIOUS
<1>1. Least(Users) \in Users
  BY LeastIsTheLeast, WritersAssumption
<1>2. TableInv
  BY <1>1 DEF Init, TableInv
<1>3. PipesInv
  BY DEF Init, PipesInv, None
<1>4. CursorInv
  BY DEF Init, CursorInv, Through, Of
<1>5. RunTypes
  BY DEF Init, RunTypes, None, AtMemories
<1>6. RunInv
  BY DEF Init, RunInv, InPlace, AtMemories
<1> QED BY <1>2, <1>3, <1>4, <1>5, <1>6 DEF CursorIsSafe

\* The steps of the pipelines and the forgets, and those on the entities.
RunsStay == UNCHANGED <<cursor, phase, users, since, queue, memory>>

LEMMA TableStepsAreSafe ==
  ASSUME CursorIsSafe, TableInv', PipesInv', TableGrows, RunsStay
  PROVE  CursorIsSafe'
<1>1. CursorInv'
  <2>1. \A u \in Users : \E t \in Nat : t = cursor[u] /\ Through(u, t)
    BY DEF CursorIsSafe, CursorInv
  <2>2. \A u \in Users, t \in Nat : Through(u, t) => Through(u, t)'
    BY ThroughStays DEF CursorIsSafe
  <2>3. \A u \in Users : \E t \in Nat : t = cursor'[u] /\ Through(u, t)'
    BY <2>1, <2>2 DEF RunsStay
  <2>4. cursor' \in [Users -> Nat]
    BY DEF RunsStay, CursorIsSafe, CursorInv
  <2> QED BY <2>3, <2>4 DEF CursorInv
<1>2. RunTypes'
  BY DEF RunsStay, CursorIsSafe, RunTypes
<1>3. RunInv'
  BY InPlaceStays DEF RunsStay, CursorIsSafe, RunInv
<1> QED BY <1>1, <1>2, <1>3 DEF CursorIsSafe

LEMMA RunStepsAreSafe ==
  ASSUME CursorIsSafe, TableInv', PipesInv', TableGrows,
         NEW r \in Runs, StartRun(r) \/ RunStep(r) \/ RunFails(r)
  PROVE  CursorIsSafe'
<1>1. /\ RunTypes'
      /\ \A q \in Runs \ {r} :
           /\ phase'[q] = phase[q] /\ users'[q] = users[q] /\ since'[q] = since[q]
           /\ queue'[q] = queue[q] /\ memory'[q] = memory[q]
  BY RunTypesStay DEF CursorIsSafe, RunInv
<1>2. \A q \in Runs \ {r} : InPlace(q)'
  BY <1>1, InPlaceStays DEF CursorIsSafe, RunInv
<1>3. CASE Mark(r)
  BY <1>1, <1>2, <1>3, MarkingIsInPlace DEF CursorIsSafe, RunInv
<1>4. CASE StartRun(r) \/ NextUser(r) \/ ListMemories(r) \/ UserDone(r) \/ Look(r)
           \/ Extract(r) \/ WriteRelations(r) \/ RunFails(r)
  <2>1. UNCHANGED cursor
    BY <1>4 DEF StartRun, NextUser, ListMemories, UserDone, Look, Extract, WriteRelations, RunFails
  <2>2. CursorInv'
    <3>1. \A u \in Users : \E t \in Nat : t = cursor[u] /\ Through(u, t)
      BY DEF CursorIsSafe, CursorInv
    <3>2. \A u \in Users, t \in Nat : Through(u, t) => Through(u, t)'
      BY ThroughStays DEF CursorIsSafe
    <3> QED BY <2>1, <3>1, <3>2 DEF CursorInv, CursorIsSafe
  <2>3. CASE StartRun(r) \/ UserDone(r) \/ RunFails(r)
    <3>1. phase'[r] \in {"idle", "user"}
      BY <2>3 DEF StartRun, UserDone, RunFails, EndRun, CursorIsSafe, RunTypes
    <3> QED BY <1>1, <1>2, <2>2, <3>1, ElsewhereIsInPlace DEF CursorIsSafe, RunInv
  <2>4. CASE NextUser(r) \/ ListMemories(r) \/ Look(r) \/ Extract(r) \/ WriteRelations(r)
    <3>1. InPlace(r)'
      BY <2>4, NextUserIsInPlace, ListingIsInPlace, LookingIsInPlace, ReadingIsInPlace
    <3> QED BY <1>1, <1>2, <2>2, <3>1 DEF CursorIsSafe, RunInv
  <2> QED BY <1>4, <2>3, <2>4
<1> QED BY <1>3, <1>4 DEF RunStep

LEMMA StepsAreSafe == CursorIsSafe /\ [Next]_vars => CursorIsSafe'
<1> SUFFICES ASSUME CursorIsSafe, [Next]_vars PROVE CursorIsSafe'
  OBVIOUS
<1>1. TableInv' /\ PipesInv' /\ TableGrows
  BY TableStep DEF CursorIsSafe
<1>2. CASE UNCHANGED vars
  BY <1>1, <1>2, TableStepsAreSafe DEF vars, runs, RunsStay
<1>3. ASSUME NEW p \in Pipelines, Pipeline(p) PROVE CursorIsSafe'
  <2>1. RunsStay
    BY <1>3 DEF Pipeline, Stamp, Insert, ProjectMemory, CloseContradicted, runs, RunsStay
  <2> QED BY <1>1, <2>1, TableStepsAreSafe
<1>4. ASSUME NEW m \in Memories, Forget(m) \/ ProjectEntities(m) PROVE CursorIsSafe'
  <2>1. RunsStay
    BY <1>4 DEF Forget, ProjectEntities, runs, RunsStay
  <2> QED BY <1>1, <2>1, TableStepsAreSafe
<1>5. ASSUME NEW r \in Runs, StartRun(r) \/ RunStep(r) \/ RunFails(r) PROVE CursorIsSafe'
  BY <1>1, <1>5, RunStepsAreSafe
<1> QED BY <1>2, <1>3, <1>4, <1>5 DEF Next

\* In any state the backfill and the pipelines reach: the table is in the
\* order of its ids, and behind every user's cursor, and behind every memory a
\* run is at, each memory was dealt with, came in late, or shares its instant.
THEOREM CursorIsSafeAlways == Spec => []CursorIsSafe
  BY CursorIsSafeAtFirst, StepsAreSafe, PTL DEF Spec

LEMMA SafeCursorPassesNothing == CursorIsSafe => NothingIsPassedOver
<1> SUFFICES ASSUME CursorIsSafe, NEW m \in Stored, ~ (born[m] > cursor[owner[m]])
             PROVE  Passed(m)
  BY DEF NothingIsPassedOver, Passed
<1>1. m \in Memories /\ m \in 1..created /\ owner[m] \in Users /\ born[m] \in Nat
  BY GraphAssumption DEF CursorIsSafe, TableInv, Stored
<1>2. cursor[owner[m]] \in Nat /\ Through(owner[m], cursor[owner[m]])
  BY <1>1 DEF CursorIsSafe, CursorInv
<1> QED BY <1>1, <1>2 DEF Through, Of

-----------------------------------------------------------------------------
(* What is paid for.                                                       *)

LEMMA PaidAtFirst == Init => PaidInv
<1> SUFFICES ASSUME Init PROVE PaidInv
  OBVIOUS
<1>1. paid \in [Memories -> 0..2] /\ faults \in Nat
  BY DEF Init
<1>2. overlap \in BOOLEAN
  BY DEF Init
<1>3. Alone /\ Behind /\ \A r \in Runs : UnpaidAhead(r)
  BY DEF Init, Alone, Behind, UnpaidAhead, AtMemories
<1> QED BY <1>1, <1>2, <1>3 DEF PaidInv, PaidTypes

LEMMA PaidTypesStay ==
  ASSUME PaidTypes, CursorIsSafe, [Next]_vars
  PROVE  /\ PaidTypes'
         /\ faults' = 0 => faults = 0
         /\ overlap => overlap'
<1>1. CASE UNCHANGED vars
  BY <1>1 DEF vars, history, PaidTypes
<1>2. ASSUME NEW p \in Pipelines, Pipeline(p)
      PROVE  UNCHANGED <<paid, overlap>> /\ faults' \in {faults, faults + 1}
  BY <1>2 DEF Pipeline, Stamp, Insert, ProjectMemory, CloseContradicted, Fault, history
<1>3. ASSUME NEW m \in Memories, Forget(m) \/ ProjectEntities(m)
      PROVE  UNCHANGED <<paid, overlap, faults>>
  BY <1>3 DEF Forget, ProjectEntities, history
<1>4. ASSUME NEW r \in Runs, StartRun(r) \/ RunStep(r) \/ RunFails(r)
      PROVE  /\ paid' \in [Memories -> 0..2] /\ faults' \in {faults, faults + 1}
             /\ overlap' \in BOOLEAN /\ (overlap => overlap')
  <2>1. CASE StartRun(r)
    <3>1. UNCHANGED <<paid, faults>> /\ overlap' \in BOOLEAN /\ (overlap => overlap')
      BY <2>1 DEF StartRun
    <3> QED BY <3>1 DEF PaidTypes
  <2>2. CASE Extract(r)
    <3>1. UNCHANGED <<overlap, faults>> /\ paid' = [paid EXCEPT ![memory[r]] = IF @ = 2 THEN 2 ELSE @ + 1]
      BY <2>2 DEF Extract
    <3>2. PICK k : k = (IF paid[memory[r]] = 2 THEN 2 ELSE paid[memory[r]] + 1)
      OBVIOUS
    <3>3. memory[r] \in Memories => k \in 0..2
      BY <3>2 DEF PaidTypes
    <3>4. paid' = [paid EXCEPT ![memory[r]] = k]
      BY <3>1, <3>2
    <3>5. paid' \in [Memories -> 0..2]
      BY <3>3, <3>4 DEF PaidTypes
    <3>6. faults' \in {faults, faults + 1}
      BY <3>1
    <3>7. overlap' \in BOOLEAN /\ (overlap => overlap')
      BY <3>1 DEF PaidTypes
    <3> QED BY <3>5, <3>6, <3>7
  <2>3. CASE NextUser(r) \/ ListMemories(r) \/ UserDone(r) \/ Look(r) \/ WriteRelations(r) \/ Mark(r) \/ RunFails(r)
    <3>1. UNCHANGED <<paid, overlap>> /\ faults' \in {faults, faults + 1}
      BY <2>3 DEF NextUser, ListMemories, UserDone, Look, WriteRelations, Mark, RunFails, Fault, history
    <3> QED BY <3>1 DEF PaidTypes
  <2> QED BY <1>4, <2>1, <2>2, <2>3 DEF RunStep
<1>5. CASE Next
  <2>1. /\ paid' \in [Memories -> 0..2] /\ faults' \in {faults, faults + 1}
        /\ overlap' \in BOOLEAN /\ (overlap => overlap')
    BY <1>2, <1>3, <1>4, <1>5 DEF Next, PaidTypes
  <2> QED BY <2>1 DEF PaidTypes
<1> QED BY <1>1, <1>5

\* What the steps of the table leave as it is.
LEMMA TableStepsPayNothing ==
  ASSUME CursorIsSafe, TableGrows, RunsStay, UNCHANGED paid,
         Alone, Behind, \A r \in Runs : UnpaidAhead(r)
  PROVE  Alone' /\ Behind' /\ \A r \in Runs : UnpaidAhead(r)'
<1>1. Alone'
  BY DEF Alone, RunsStay
<1>2. Behind'
  <2> SUFFICES ASSUME NEW m \in Memories, paid[m] # 0
               PROVE  /\ paid[m] = 1 /\ m \in 1..created'
                      /\ \/ born'[m] <= cursor[owner'[m]]
                         \/ \E r \in Runs : phase[r] \in {"write", "mark"} /\ memory[r] = m
    BY DEF Behind, RunsStay
  <2>1. /\ paid[m] = 1 /\ m \in 1..created
        /\ \/ born[m] <= cursor[owner[m]]
           \/ \E r \in Runs : phase[r] \in {"write", "mark"} /\ memory[r] = m
    BY DEF Behind
  <2>2. m \in 1..created' /\ born'[m] = born[m] /\ owner'[m] = owner[m]
    BY <2>1 DEF TableGrows, CursorIsSafe, TableInv
  <2> QED BY <2>1, <2>2
<1>3. ASSUME NEW r \in Runs PROVE UnpaidAhead(r)'
  <2>1. Reading(r)' = Reading(r) /\ Ahead(r)' = Ahead(r)
    BY DEF RunsStay, Reading, Ahead, Current
  <2>2. phase[r] \in AtMemories => \A x \in Ahead(r) : x \in 1..created
    BY DEF CursorIsSafe, RunInv, InPlace, Of
  <2>3. phase[r] \in AtMemories => \A x \in Ahead(r) : born'[x] = born[x]
    BY <2>2 DEF TableGrows
  <2> QED BY <2>1, <2>3 DEF UnpaidAhead, RunsStay
<1> QED BY <1>1, <1>2, <1>3

\* A run's step, when it is the only one.
RunAlone(r) == \A q \in Runs : q # r => phase[q] = "idle"
TableStays == UNCHANGED <<created, born, owner, cursor, paid>>

LEMMA BehindStays ==
  ASSUME Behind, TableStays,
         NEW r \in Runs, \A q \in Runs \ {r} : phase'[q] = phase[q] /\ memory'[q] = memory[q],
         phase[r] \in {"write", "mark"} => phase'[r] \in {"write", "mark"} /\ memory'[r] = memory[r]
  PROVE  Behind'
BY DEF Behind, TableStays

LEMMA IdleIsUnpaid ==
  ASSUME NEW r \in Runs, phase'[r] \in {"idle", "user"}
  PROVE  UnpaidAhead(r)'
BY DEF UnpaidAhead, AtMemories

LEMMA RunStaysAlone ==
  ASSUME CursorIsSafe, NEW r \in Runs, StartRun(r) \/ RunStep(r) \/ RunFails(r),
         Alone, overlap \in BOOLEAN, ~ overlap'
  PROVE  /\ RunAlone(r) /\ Alone'
         /\ \A q \in Runs \ {r} : UnpaidAhead(q)'
         /\ \A q \in Runs \ {r} : phase'[q] = phase[q] /\ memory'[q] = memory[q]
<1>1. \A q \in Runs \ {r} : phase'[q] = phase[q] /\ memory'[q] = memory[q]
  BY RunTypesStay DEF CursorIsSafe, RunInv
<1>2. RunAlone(r)
  <2>1. CASE StartRun(r)
    BY <2>1 DEF StartRun, RunAlone
  <2>2. CASE RunStep(r) \/ RunFails(r)
    <3>1. phase[r] # "idle"
      BY <2>2 DEF RunStep, RunFails, NextUser, ListMemories, UserDone, Look, Extract, WriteRelations, Mark
    <3> QED BY <3>1 DEF Alone, RunAlone
  <2> QED BY <2>1, <2>2
<1>3. \A q \in Runs \ {r} : phase'[q] = "idle"
  BY <1>1, <1>2 DEF RunAlone
<1> QED BY <1>1, <1>2, <1>3, IdleIsUnpaid DEF Alone

LEMMA NextUserPaysNothing ==
  ASSUME CursorIsSafe, NEW r \in Runs, NextUser(r), UnpaidAhead(r)
  PROVE  UnpaidAhead(r)'
<1>1. CASE users[r] = {}
  <2>1. phase'[r] = "idle"
    BY <1>1 DEF NextUser, EndRun, CursorIsSafe, RunTypes
  <2> QED BY <2>1, IdleIsUnpaid
<1>2. CASE users[r] # {}
  <2>1. phase'[r] = "list" /\ since'[r] = cursor[Reading(r)] /\ UNCHANGED <<users, cursor>>
    BY <1>2 DEF NextUser, CursorIsSafe, RunTypes, Reading
  <2> QED BY <2>1 DEF UnpaidAhead, Reading, AtMemories
<1> QED BY <1>1, <1>2

\* What is listed is beyond the cursor, so nobody paid for it.
LEMMA ListingPaysNothing ==
  ASSUME CursorIsSafe, PaidTypes, Behind, NEW r \in Runs, RunAlone(r), ListMemories(r), UnpaidAhead(r)
  PROVE  UnpaidAhead(r)'
<1>1. PICK u \in Users : u = Least(users[r]) /\ u = Reading(r)
  BY ReaderIsAUser DEF CursorIsSafe, RunTypes, ListMemories
<1>2. PICK t \in Nat : t = cursor[u] /\ t = since[r]
  BY <1>1 DEF UnpaidAhead, ListMemories, CursorIsSafe, CursorInv
<1>3. /\ phase[r] = "list" /\ phase'[r] = "look" /\ UNCHANGED <<users, cursor, born, paid>>
      /\ queue'[r] = {m \in Of(u) \cap Stored : born[m] > t}
  BY <1>1, <1>2 DEF ListMemories, table, history, CursorIsSafe, RunTypes
<1>4. Ahead(r)' = queue'[r] /\ Reading(r)' = u
  BY <1>1, <1>3 DEF Ahead, Current, Reading
<1>5. ASSUME NEW m \in Of(u) \cap Stored, born[m] > t
      PROVE  paid[m] = 0 /\ born[m] >= t
  <2>1. m \in Memories /\ born[m] \in Nat /\ owner[m] = u
    BY <1>5 DEF Of, Stored, CursorIsSafe, TableInv
  <2>2. cursor[owner[m]] = t
    BY <1>2, <2>1
  <2>3. PICK b \in Nat : b = born[m]
    BY <2>1
  <2>4. b > t
    BY <1>5, <2>3
  <2>5. ~ (b <= t)
    BY <2>4
  <2>6. ~ \E q \in Runs : phase[q] \in {"write", "mark"} /\ memory[q] = m
    BY <1>3 DEF RunAlone
  <2>7. paid[m] = 0
    BY <2>1, <2>2, <2>3, <2>5, <2>6 DEF Behind
  <2> QED BY <2>3, <2>4, <2>7
<1>6. \A x \in queue'[r] : born'[x] >= cursor'[u] /\ paid'[x] = 0
  BY <1>2, <1>3, <1>5
<1>7. phase'[r] # "list" /\ phase'[r] # "extract"
  BY <1>3
<1> QED BY <1>4, <1>6, <1>7 DEF UnpaidAhead

LEMMA LookingPaysNothing ==
  ASSUME CursorIsSafe, NEW r \in Runs, Look(r), UnpaidAhead(r)
  PROVE  UnpaidAhead(r)'
<1>1. PICK m : m = Least(queue[r])
  OBVIOUS
<1>2. m \in queue[r]
  BY <1>1, LeastIsTheLeast DEF Look, CursorIsSafe, RunTypes
<1>3. /\ phase[r] = "look" /\ phase'[r] \in {"extract", "pass"}
      /\ memory'[r] = m /\ queue'[r] = queue[r] \ {m}
      /\ UNCHANGED <<born, users, cursor, paid>>
  BY <1>1 DEF Look, table, CursorIsSafe, RunTypes
<1>4. Ahead(r) = queue[r] /\ Ahead(r)' = queue[r] /\ Reading(r)' = Reading(r)
  BY <1>2, <1>3 DEF Ahead, Current, Reading, AtMemories
<1>5. /\ \A x \in queue[r] : born[x] >= cursor[Reading(r)]
      /\ \A x \in queue[r] : paid[x] = 0
  BY <1>3, <1>4 DEF UnpaidAhead, AtMemories
<1>6. \A x \in Ahead(r)' : born'[x] >= cursor'[Reading(r)']
  BY <1>3, <1>4, <1>5
<1>7. (\A x \in queue'[r] : paid'[x] = 0) /\ paid'[memory'[r]] = 0
  BY <1>2, <1>3, <1>5
<1> QED BY <1>3, <1>6, <1>7 DEF UnpaidAhead

LEMMA ExtractingPaysOnce ==
  ASSUME CursorIsSafe, PaidTypes, Behind, NEW r \in Runs, RunAlone(r), Extract(r), UnpaidAhead(r)
  PROVE  UnpaidAhead(r)' /\ Behind'
<1>1. PICK m \in Nat : m = memory[r]
  BY DEF CursorIsSafe, RunTypes
<1>2. /\ phase[r] = "extract" /\ phase'[r] = "write"
      /\ paid' = [paid EXCEPT ![m] = IF @ = 2 THEN 2 ELSE @ + 1]
      /\ UNCHANGED <<created, born, owner, cursor, users, queue, memory>>
  BY <1>1 DEF Extract, table, CursorIsSafe, RunTypes
<1>3. m \in Ahead(r) /\ m \in Current(r) /\ Ahead(r)' = Ahead(r) /\ Reading(r)' = Reading(r)
  BY <1>1, <1>2 DEF Ahead, Current, Reading, AtMemories
<1>4. m \in 1..created /\ m \in Memories /\ \A y \in queue[r] : m < y
  BY <1>2, <1>3 DEF CursorIsSafe, RunInv, InPlace, Of, TableInv, AtMemories
<1>5. paid[m] = 0
  BY <1>1, <1>2 DEF UnpaidAhead
<1>6. paid'[m] = 1 /\ \A x \in Memories \ {m} : paid'[x] = paid[x]
  BY <1>2, <1>4, <1>5 DEF PaidTypes
<1>7. Behind'
  <2> SUFFICES ASSUME NEW x \in Memories, paid'[x] # 0
               PROVE  /\ paid'[x] = 1 /\ x \in 1..created
                      /\ \/ born[x] <= cursor[owner[x]]
                         \/ \E q \in Runs : phase'[q] \in {"write", "mark"} /\ memory'[q] = x
    BY <1>2 DEF Behind
  <2>1. CASE x = m
    BY <1>1, <1>2, <1>4, <1>6, <2>1
  <2>2. CASE x # m
    <3>1. ~ \E q \in Runs : phase[q] \in {"write", "mark"} /\ memory[q] = x
      BY <1>2 DEF RunAlone
    <3>2. paid[x] = paid'[x]
      BY <1>6, <2>2
    <3> QED BY <3>1, <3>2 DEF Behind
  <2> QED BY <2>1, <2>2
<1>8. UnpaidAhead(r)'
  <2>1. /\ \A x \in Ahead(r) : born[x] >= cursor[Reading(r)]
        /\ \A x \in queue[r] : paid[x] = 0
    BY <1>2 DEF UnpaidAhead, AtMemories
  <2>2. \A x \in queue[r] : paid'[x] = 0
    <3> SUFFICES ASSUME NEW x \in queue[r] PROVE paid'[x] = 0
      OBVIOUS
    <3>1. x # m
      BY <1>4
    <3>2. x \in 1..created
      BY <1>2 DEF CursorIsSafe, RunInv, InPlace, Of, AtMemories, Ahead
    <3>3. x \in Memories
      BY <3>2 DEF CursorIsSafe, TableInv
    <3> QED BY <1>6, <2>1, <3>1, <3>3
  <2> QED BY <1>2, <1>3, <2>1, <2>2 DEF UnpaidAhead
<1> QED BY <1>7, <1>8

LEMMA WritingPaysNothing ==
  ASSUME CursorIsSafe, NEW r \in Runs, WriteRelations(r), UnpaidAhead(r)
  PROVE  UnpaidAhead(r)'
<1>1. /\ phase[r] = "write" /\ phase'[r] = "mark"
      /\ UNCHANGED <<born, cursor, users, queue, memory, paid>>
  BY DEF WriteRelations, table, CursorIsSafe, RunTypes
<1>2. Ahead(r)' = Ahead(r) /\ Reading(r)' = Reading(r)
  BY <1>1 DEF Ahead, Current, Reading, AtMemories
<1> QED BY <1>1, <1>2 DEF UnpaidAhead, AtMemories

\* Once marked, what was paid for is behind the cursor.
LEMMA MarkingPaysNothing ==
  ASSUME CursorIsSafe, PaidTypes, Behind, NEW r \in Runs, RunAlone(r), Mark(r), UnpaidAhead(r),
         \A q \in Runs \ {r} : phase'[q] = phase[q] /\ memory'[q] = memory[q]
  PROVE  UnpaidAhead(r)' /\ Behind'
<1>1. phase[r] \in {"mark", "pass"} /\ UNCHANGED <<created, born, owner, paid>>
  BY DEF Mark, table, history
<1>2. PICK m \in Nat : m = memory[r]
  BY DEF CursorIsSafe, RunTypes
<1>3. PICK u \in Users : u = Least(users[r]) /\ u = Reading(r)
  BY <1>1, ReaderIsAUser DEF CursorIsSafe, RunTypes, AtMemories
<1>4. Current(r) = {m} /\ m \in Ahead(r)
  BY <1>1, <1>2 DEF Current, Ahead, AtMemories
<1>5. m \in Of(u) /\ \A y \in queue[r] : m < y /\ y \in Of(u)
  BY <1>1, <1>2, <1>3, <1>4 DEF CursorIsSafe, RunInv, InPlace, AtMemories, Ahead
<1>6. owner[m] = u /\ m \in 1..created /\ born[m] \in Nat
  BY <1>5 DEF Of, CursorIsSafe, TableInv
<1>7. cursor' = [cursor EXCEPT ![u] = born[m]] /\ cursor[u] \in Nat /\ cursor[u] <= born[m]
  BY <1>1, <1>2, <1>3, <1>4, <1>6 DEF Mark, UnpaidAhead, AtMemories, CursorIsSafe, CursorInv
<1>8. cursor'[u] = born[m] /\ \A v \in Users : cursor[v] <= cursor'[v] /\ cursor[v] \in Nat /\ cursor'[v] \in Nat
  BY <1>6, <1>7 DEF CursorIsSafe, CursorInv
<1>9. Behind'
  <2> SUFFICES ASSUME NEW x \in Memories, paid[x] # 0
               PROVE  paid[x] = 1 /\ x \in 1..created /\ born[x] <= cursor'[owner[x]]
    BY <1>1 DEF Behind
  <2>1. /\ paid[x] = 1 /\ x \in 1..created
        /\ \/ born[x] <= cursor[owner[x]]
           \/ \E q \in Runs : phase[q] \in {"write", "mark"} /\ memory[q] = x
    BY DEF Behind
  <2>2. born[x] \in Nat /\ owner[x] \in Users
    BY DEF CursorIsSafe, TableInv
  <2>3. CASE born[x] <= cursor[owner[x]]
    BY <1>8, <2>1, <2>2, <2>3
  <2>4. CASE \E q \in Runs : phase[q] \in {"write", "mark"} /\ memory[q] = x
    <3>1. x = m
      BY <1>2, <2>4 DEF RunAlone
    <3> QED BY <1>6, <1>8, <2>1, <3>1
  <2> QED BY <2>1, <2>3, <2>4
<1>10. UnpaidAhead(r)'
  <2>1. CASE EndRun(r)
    <3>1. phase'[r] = "idle"
      BY <2>1 DEF EndRun, CursorIsSafe, RunTypes
    <3> QED BY <3>1, IdleIsUnpaid
  <2>2. CASE phase' = [phase EXCEPT ![r] = "look"] /\ UNCHANGED <<users, queue>>
    <3>1. phase'[r] = "look" /\ Ahead(r)' = queue[r] /\ Reading(r)' = u
      BY <1>3, <2>2 DEF CursorIsSafe, RunTypes, Current, Ahead, Reading
    <3>2. \A x \in queue[r] : paid[x] = 0
      BY <1>1 DEF UnpaidAhead, AtMemories
    <3>3. \A x \in queue[r] : born[x] >= born[m]
      <4> SUFFICES ASSUME NEW x \in queue[r] PROVE born[m] <= born[x] /\ born[x] \in Nat
        BY <1>6
      <4>1. x \in 1..created /\ m < x
        BY <1>5 DEF Of
      <4> QED BY <1>6, <4>1 DEF CursorIsSafe, TableInv
    <3>4. phase'[r] # "list" /\ phase'[r] # "extract" /\ queue'[r] = queue[r]
      BY <2>2, <3>1
    <3> QED BY <1>1, <1>8, <3>1, <3>2, <3>3, <3>4 DEF UnpaidAhead
  <2> QED BY <2>1, <2>2 DEF Mark
<1> QED BY <1>9, <1>10

LEMMA RunStepsPayOnce ==
  ASSUME CursorIsSafe, PaidTypes, Alone, Behind, \A q \in Runs : UnpaidAhead(q),
         NEW r \in Runs, StartRun(r) \/ RunStep(r) \/ RunFails(r), ~ overlap', faults' = 0
  PROVE  Alone' /\ Behind' /\ \A q \in Runs : UnpaidAhead(q)'
<1>1. /\ RunAlone(r) /\ Alone'
      /\ \A q \in Runs \ {r} : UnpaidAhead(q)'
      /\ \A q \in Runs \ {r} : phase'[q] = phase[q] /\ memory'[q] = memory[q]
  BY RunStaysAlone DEF PaidTypes
<1>2. CASE Extract(r)
  BY <1>1, <1>2, ExtractingPaysOnce
<1>3. CASE Mark(r)
  BY <1>1, <1>3, MarkingPaysNothing
<1>4. CASE RunFails(r)
  BY <1>4 DEF RunFails, Fault, PaidTypes
<1>5. CASE StartRun(r) \/ NextUser(r) \/ ListMemories(r) \/ UserDone(r) \/ Look(r) \/ WriteRelations(r)
  <2>1. TableStays
    BY <1>5 DEF StartRun, NextUser, ListMemories, UserDone, Look, WriteRelations, TableStays, table, history
  <2>2. phase[r] \in {"write", "mark"} => phase'[r] \in {"write", "mark"} /\ memory'[r] = memory[r]
    BY <1>5 DEF StartRun, NextUser, ListMemories, UserDone, Look, WriteRelations, CursorIsSafe, RunTypes
  <2>3. Behind'
    BY <1>1, <2>1, <2>2, BehindStays
  <2>4. CASE StartRun(r) \/ UserDone(r)
    <3>1. phase'[r] = "user"
      BY <2>4 DEF StartRun, UserDone, CursorIsSafe, RunTypes
    <3> QED BY <1>1, <2>3, <3>1, IdleIsUnpaid
  <2>5. CASE NextUser(r) \/ ListMemories(r) \/ Look(r) \/ WriteRelations(r)
    <3>1. UnpaidAhead(r)'
      BY <1>1, <2>5, NextUserPaysNothing, ListingPaysNothing, LookingPaysNothing, WritingPaysNothing
    <3> QED BY <1>1, <2>3, <3>1
  <2> QED BY <1>5, <2>4, <2>5
<1> QED BY <1>2, <1>3, <1>4, <1>5 DEF RunStep

LEMMA StepsPayOnce == CursorIsSafe /\ PaidInv /\ [Next]_vars => PaidInv'
<1> SUFFICES ASSUME CursorIsSafe, PaidInv, [Next]_vars PROVE PaidInv'
  OBVIOUS
<1>1. PaidTypes' /\ (faults' = 0 => faults = 0) /\ (overlap => overlap')
  BY PaidTypesStay DEF PaidInv
<1>2. TableGrows
  BY TableStep DEF CursorIsSafe
<1>3. SUFFICES ASSUME faults' = 0, ~ overlap'
               PROVE  Alone' /\ Behind' /\ \A r \in Runs : UnpaidAhead(r)'
  BY <1>1 DEF PaidInv
<1>4. Alone /\ Behind /\ \A r \in Runs : UnpaidAhead(r)
  BY <1>1, <1>3 DEF PaidInv
<1>5. CASE UNCHANGED vars
  BY <1>2, <1>4, <1>5, TableStepsPayNothing DEF vars, runs, history, RunsStay
<1>6. ASSUME NEW p \in Pipelines, Pipeline(p)
      PROVE  Alone' /\ Behind' /\ \A r \in Runs : UnpaidAhead(r)'
  <2>1. RunsStay /\ UNCHANGED paid
    BY <1>6 DEF Pipeline, Stamp, Insert, ProjectMemory, CloseContradicted, runs, history, RunsStay
  <2> QED BY <1>2, <1>4, <2>1, TableStepsPayNothing
<1>7. ASSUME NEW m \in Memories, Forget(m) \/ ProjectEntities(m)
      PROVE  Alone' /\ Behind' /\ \A r \in Runs : UnpaidAhead(r)'
  <2>1. RunsStay /\ UNCHANGED paid
    BY <1>7 DEF Forget, ProjectEntities, runs, history, RunsStay
  <2> QED BY <1>2, <1>4, <2>1, TableStepsPayNothing
<1>8. ASSUME NEW r \in Runs, StartRun(r) \/ RunStep(r) \/ RunFails(r)
      PROVE  Alone' /\ Behind' /\ \A q \in Runs : UnpaidAhead(q)'
  BY <1>3, <1>4, <1>8, RunStepsPayOnce DEF PaidInv
<1> QED BY <1>5, <1>6, <1>7, <1>8 DEF Next

LEMMA BehindIsPaidOnce == PaidInv => PaidOnce
<1> SUFFICES ASSUME PaidInv, faults = 0, ~ overlap, NEW m \in Memories PROVE paid[m] < 2
  BY DEF PaidOnce
<1> QED BY DEF PaidInv, PaidTypes, Behind

\* For any users, memories, pipelines, budget and failures, and any number of
\* backfills at once, no memory that was in the table by its turn is left
\* behind the cursor unread; and while nothing fails and one backfill runs at
\* a time, none costs a second call (graph_backfiller.rs,
\* sqlite_graph_backfill_state.rs).
THEOREM EachIsReadOnceAlways == Spec => []EachIsReadOnce
<1>1. Init => CursorIsSafe /\ PaidInv
  BY CursorIsSafeAtFirst, PaidAtFirst
<1>2. CursorIsSafe /\ PaidInv /\ [Next]_vars => (CursorIsSafe /\ PaidInv)'
  BY StepsAreSafe, StepsPayOnce
<1>3. CursorIsSafe /\ PaidInv => EachIsReadOnce
  BY SafeCursorPassesNothing, BehindIsPaidOnce DEF EachIsReadOnce
<1> QED
  BY <1>1, <1>2, <1>3, PTL DEF Spec

-----------------------------------------------------------------------------
(* The facts: the invariant.                                               *)

FactTypes ==
  /\ says \in [Memories -> Candidates \cup {Nothing}]
  /\ found \in [Runs -> SUBSET Relation]
  /\ edges \subseteq Edge

\* Each memory goes through one pipeline, once.
OnTheirWay ==
  /\ \A p \in Pipelines : stage[p] # "idle" => at[p] \in 1..created
  /\ \A p, q \in Pipelines : stage[p] # "idle" /\ stage[q] # "idle" /\ at[p] = at[q] => p = q
  /\ settled \subseteq 1..created
  /\ \A p \in Pipelines : stage[p] # "idle" => at[p] \notin settled

\* An edge states something q says.
States(e, q) ==
  KeyOf[q.subject] = e.subject /\ q.predicate = e.predicate /\ KeyOf[q.object] = e.object

\* An edge is of a memory, from its time on.  If no backfill wrote it, the
\* memory's pipeline did, and the memory says so.
Sourced(e) ==
  /\ e.memory \in 1..created /\ e.owner = owner[e.memory] /\ e.from = born[e.memory]
  /\ e.memory \notin rewritten =>
       /\ \E q \in says[e.memory].relations : States(e, q)
       /\ \A p \in Pipelines : stage[p] \in {"insert", "record"} => at[p] # e.memory

\* Who closed it: a younger memory, or one that was overtaken.
ClosedRightly(e) == e.until # Open =>
  /\ e.by \in 1..created /\ e.until = born[e.by]
  /\ owner[e.by] = e.owner /\ e.by # e.memory
  /\ \E q \in says[e.by].relations :
       KeyOf[q.subject] = e.subject /\ q.predicate = e.predicate /\ KeyOf[q.object] # e.object
  /\ e.by \notin overtaken => e.memory < e.by

FactsInv ==
  /\ FactTypes /\ OnTheirWay
  /\ \A e \in edges : Sourced(e) /\ ClosedRightly(e)
  /\ OneCurrentObject

-----------------------------------------------------------------------------
(* The steps on the edges.                                                 *)

\* What every step leaves of what an edge was made from.
SourcesStay ==
  /\ created' \in Nat /\ created <= created'
  /\ \A m \in 1..created : owner'[m] = owner[m] /\ born'[m] = born[m] /\ says'[m] = says[m]
  /\ rewritten \subseteq rewritten' /\ overtaken \subseteq overtaken'
  /\ \A p \in Pipelines : stage'[p] \in {"insert", "record"} =>
       \/ stage[p] \in {"insert", "record"} /\ at'[p] = at[p]
       \/ at'[p] \notin 1..created

LEMMA EdgeStays ==
  ASSUME created \in Nat, SourcesStay, NEW e, Sourced(e), ClosedRightly(e)
  PROVE  Sourced(e)' /\ ClosedRightly(e)'
<1>1. e.memory \in 1..created' /\ says'[e.memory] = says[e.memory]
  BY DEF Sourced, SourcesStay
<1>2. Sourced(e)'
  BY <1>1 DEF Sourced, SourcesStay, States
<1>3. ClosedRightly(e)'
  <2> SUFFICES ASSUME e.until # Open
               PROVE  /\ e.by \in 1..created' /\ e.until = born'[e.by]
                      /\ owner'[e.by] = e.owner /\ e.by # e.memory
                      /\ \E q \in says'[e.by].relations :
                           KeyOf[q.subject] = e.subject /\ q.predicate = e.predicate /\ KeyOf[q.object] # e.object
                      /\ e.by \notin overtaken' => e.memory < e.by
    BY DEF ClosedRightly
  <2>1. e.by \in 1..created
    BY DEF ClosedRightly
  <2>2. e.by \in 1..created' /\ says'[e.by] = says[e.by] /\ owner'[e.by] = owner[e.by] /\ born'[e.by] = born[e.by]
    BY <2>1 DEF SourcesStay
  <2> QED BY <2>2 DEF ClosedRightly, SourcesStay
<1> QED BY <1>2, <1>3

\* Steps that write no edge.
LEMMA FactsStay ==
  ASSUME FactsInv, created \in Nat, SourcesStay, FactTypes', OnTheirWay', UNCHANGED <<edges, settled>>
  PROVE  FactsInv'
<1>1. \A e \in edges : Sourced(e)' /\ ClosedRightly(e)'
  BY EdgeStays DEF FactsInv
<1>2. OneCurrentObject'
  BY DEF FactsInv, OneCurrentObject, SourcesStay, Disagree
<1> QED BY <1>1, <1>2 DEF FactsInv

LEMMA EdgeOfIsAnEdge ==
  ASSUME NEW u \in Users, NEW m \in Memories, NEW q \in Relation, Files(q), NEW time \in Nat
  PROVE  /\ EdgeOf(u, m, q, time) \in Edge
         /\ EdgeOf(u, m, q, time).owner = u /\ EdgeOf(u, m, q, time).memory = m
         /\ EdgeOf(u, m, q, time).from = time /\ EdgeOf(u, m, q, time).until = Open
         /\ States(EdgeOf(u, m, q, time), q)
<1>1. KeyOf[q.subject] \in Keys /\ KeyOf[q.object] \in Keys /\ q.predicate \in Predicates
  BY GraphAssumption DEF Files, Relation
<1> QED BY <1>1 DEF EdgeOf, Edge, States, Open

LEMMA SaysRelations ==
  ASSUME FactTypes, NEW m \in Memories
  PROVE  says[m].relations \subseteq Relation
<1>1. says[m] \in Candidates \cup {Nothing}
  BY DEF FactTypes
<1> QED BY <1>1, WritersAssumption DEF Nothing

LEMMA ProjectingIsRight ==
  ASSUME CursorIsSafe, FactsInv, NEW p \in Pipelines, ProjectMemory(p)
  PROVE  FactsInv'
<1>1. PICK m : m = at[p]
  OBVIOUS
<1>2. /\ stage[p] = "record" /\ UNCHANGED <<created, born, owner, says, rewritten, settled, found>>
      /\ overtaken' = IF \E e \in edges : e.owner = owner[m] /\ e.memory > m
                      THEN overtaken \cup {m} ELSE overtaken
      /\ \/ stage' = [stage EXCEPT ![p] = "invalidate"] /\ UNCHANGED at
         \/ stage' = [stage EXCEPT ![p] = "idle"] /\ at' = [at EXCEPT ![p] = None]
  BY <1>1 DEF ProjectMemory, table, runs, Overtakes
<1>3. m \in 1..created /\ m \in Memories /\ m \notin settled /\ owner[m] \in Users /\ born[m] \in Nat
      /\ created \in Nat /\ m \in Nat
  BY <1>1, <1>2 DEF CursorIsSafe, TableInv, FactsInv, OnTheirWay
<1>4. \A q \in Pipelines : stage'[q] \in {"insert", "record"} =>
        stage[q] \in {"insert", "record"} /\ at'[q] = at[q] /\ at[q] # m
  BY <1>1, <1>2 DEF CursorIsSafe, PipesInv, FactsInv, OnTheirWay
<1>5. SourcesStay
  BY <1>2, <1>3, <1>4 DEF SourcesStay
<1>6. OnTheirWay'
  BY <1>1, <1>2, <1>3 DEF FactsInv, OnTheirWay, CursorIsSafe, PipesInv
<1>7. CASE UNCHANGED graph
  <2>1. FactTypes' /\ edges' = edges
    BY <1>2, <1>7 DEF graph, FactsInv, FactTypes
  <2> QED BY <1>2, <1>3, <1>5, <1>6, <2>1, FactsStay
<1>8. CASE Record(owner[m], m, says[m].names, says[m].relations, born[m])
  <2> DEFINE New(q) == EdgeOf(owner[m], m, q, born[m])
  <2>1. \A e \in edges' : e \in edges \/ \E q \in says[m].relations : Files(q) /\ e = New(q)
    BY <1>8 DEF Record, ReplaceOpenRelations
  <2>2. \A q \in says[m].relations : Files(q) =>
          /\ New(q) \in Edge /\ New(q).owner = owner[m] /\ New(q).memory = m
          /\ New(q).from = born[m] /\ New(q).until = Open /\ States(New(q), q)
    BY <1>3, SaysRelations, EdgeOfIsAnEdge DEF FactsInv
  <2> HIDE DEF New
  <2>3. FactTypes'
    BY <1>2, <2>1, <2>2 DEF FactsInv, FactTypes
  <2>4. \A e \in edges' : Sourced(e)' /\ ClosedRightly(e)'
    <3> SUFFICES ASSUME NEW e \in edges' PROVE Sourced(e)' /\ ClosedRightly(e)'
      OBVIOUS
    <3>1. CASE e \in edges
      BY <1>3, <1>5, <3>1, EdgeStays DEF FactsInv
    <3>2. ASSUME NEW q \in says[m].relations, Files(q), e = New(q)
          PROVE  Sourced(e)' /\ ClosedRightly(e)'
      <4>1. /\ e.owner = owner[m] /\ e.memory = m /\ e.from = born[m]
            /\ e.until = Open /\ States(e, q)
        BY <2>2, <3>2
      <4> QED BY <1>2, <1>3, <1>4, <4>1 DEF Sourced, States, ClosedRightly
    <3> QED BY <2>1, <3>1, <3>2
  <2>5. OneCurrentObject'
    <3> SUFFICES ASSUME NEW e \in edges', NEW f \in edges', Disagree(e, f), e.memory < f.memory,
                        f.memory \in settled, {e.memory, f.memory} \cap (overtaken' \cup rewritten) = {}
                 PROVE  e.until # Open
      BY <1>2 DEF OneCurrentObject, Disagree
    <3>1. f \in edges
      BY <1>3, <2>1, <2>2
    <3>2. e \in edges
      <4>1. SUFFICES ASSUME e.memory = m, e.owner = owner[m] PROVE FALSE
        BY <2>1, <2>2
      <4>2. f.memory > m /\ f.owner = owner[m]
        BY <4>1 DEF Disagree
      <4> QED BY <1>2, <3>1, <4>1, <4>2
    <3>3. {e.memory, f.memory} \cap (overtaken \cup rewritten) = {}
      BY <1>5 DEF SourcesStay
    <3> QED BY <3>1, <3>2, <3>3 DEF FactsInv, OneCurrentObject
  <2> QED BY <1>6, <2>3, <2>4, <2>5 DEF FactsInv
<1> QED BY <1>1, <1>7, <1>8 DEF ProjectMemory

\* Closing what m contradicts, as of its time, settles m.
LEMMA ClosingIsRight ==
  ASSUME CursorIsSafe, FactsInv, NEW p \in Pipelines, CloseContradicted(p)
  PROVE  FactsInv'
<1>1. PICK m : m = at[p]
  OBVIOUS
<1>2. /\ stage[p] = "invalidate" /\ UNCHANGED <<created, born, owner, says, rewritten, found>>
      /\ overtaken' = IF \E e \in edges : e.owner = owner[m] /\ e.memory > m
                      THEN overtaken \cup {m} ELSE overtaken
      /\ stage' = [stage EXCEPT ![p] = "idle"] /\ at' = [at EXCEPT ![p] = None]
      /\ settled' \in {settled, settled \cup {m}}
  BY <1>1 DEF CloseContradicted, table, runs, Overtakes
<1>3. m \in 1..created /\ m \in Memories /\ m \notin settled /\ owner[m] \in Users /\ born[m] \in Nat
      /\ born[m] # Open /\ created \in Nat /\ m \in Nat /\ m # Open
  BY <1>1, <1>2 DEF CursorIsSafe, TableInv, FactsInv, OnTheirWay, Open
<1>4. \A q \in Pipelines : stage'[q] \in {"insert", "record"} =>
        stage[q] \in {"insert", "record"} /\ at'[q] = at[q] /\ at[q] # m
  BY <1>1, <1>2 DEF CursorIsSafe, PipesInv, FactsInv, OnTheirWay
<1>5. SourcesStay
  BY <1>2, <1>3, <1>4 DEF SourcesStay
<1>6. OnTheirWay'
  BY <1>1, <1>2, <1>3 DEF FactsInv, OnTheirWay, CursorIsSafe, PipesInv
<1>7. CASE UNCHANGED <<graph, settled>>
  <2>1. FactTypes' /\ edges' = edges
    BY <1>2, <1>7 DEF graph, FactsInv, FactTypes
  <2> QED BY <1>3, <1>5, <1>6, <1>7, <2>1, FactsStay
<1>8. CASE Invalidate(owner[m], says[m].relations, born[m], m) /\ settled' = settled \cup {m}
  <2> DEFINE Hit(e) == \E q \in says[m].relations : Contradicts(owner[m], m, q, e)
             Closed(e) == [e EXCEPT !.until = born[m], !.by = m]
  <2>1. \A f \in edges' : (f \in edges /\ ~ Hit(f)) \/ (\E e \in edges : Hit(e) /\ f = Closed(e))
    BY <1>8 DEF Invalidate
  <2>2. \A e \in edges : e \in Edge
    BY DEF FactsInv, FactTypes
  <2>3. ASSUME NEW e \in edges
        PROVE  /\ Closed(e) \in Edge
               /\ Closed(e).owner = e.owner /\ Closed(e).memory = e.memory /\ Closed(e).from = e.from
               /\ Closed(e).subject = e.subject /\ Closed(e).predicate = e.predicate
               /\ Closed(e).object = e.object /\ Closed(e).until = born[m] /\ Closed(e).by = m
    BY <1>3, <2>2 DEF Edge
  <2>4. ASSUME NEW e \in edges, Hit(e)
        PROVE  /\ owner[m] = e.owner /\ e.memory # m
               /\ \E q \in says[m].relations :
                    KeyOf[q.subject] = e.subject /\ q.predicate = e.predicate /\ KeyOf[q.object] # e.object
    BY <2>4 DEF Contradicts
  <2>5. ASSUME NEW e \in edges, NEW f \in edges, e.until = Open, f.memory = m, f.owner = e.owner,
               m \notin rewritten, Disagree(e, f)
        PROVE  Hit(e)
    <3>1. PICK q \in says[m].relations : States(f, q)
      BY <2>5 DEF FactsInv, Sourced
    <3>2. f.subject \in Keys /\ f.object \in Keys /\ f.owner = owner[m]
      BY <2>2, <2>5 DEF Edge, FactsInv, Sourced
    <3>3. Contradicts(owner[m], m, q, e)
      BY <2>5, <3>1, <3>2, GraphAssumption DEF Contradicts, States, Disagree
    <3> QED BY <3>3
  <2> HIDE DEF Hit, Closed
  <2>6. FactTypes'
    BY <1>2, <2>1, <2>2, <2>3 DEF FactsInv, FactTypes
  <2>7. ASSUME NEW f \in edges' PROVE Sourced(f)' /\ ClosedRightly(f)'
    <3>1. CASE f \in edges
      BY <1>3, <1>5, <3>1, EdgeStays DEF FactsInv
    <3>2. ASSUME NEW e \in edges, Hit(e), f = Closed(e) PROVE Sourced(f)' /\ ClosedRightly(f)'
      <4>1. Sourced(e)'
        BY <1>3, <1>5, EdgeStays DEF FactsInv
      <4>2. Sourced(f)'
        BY <2>3, <3>2, <4>1 DEF Sourced, States
      <4>3. m \notin overtaken' => e.memory < m
        <5>1. e.memory \in Nat /\ e.memory # m /\ e.owner = owner[m]
          BY <2>4, <3>2 DEF FactsInv, Sourced
        <5> QED BY <1>2, <1>3, <5>1
      <4>4. ClosedRightly(f)'
        BY <1>2, <1>3, <2>3, <2>4, <3>2, <4>3 DEF ClosedRightly
      <4> QED BY <4>2, <4>4
    <3> QED BY <2>1, <2>7, <3>1, <3>2
  <2>8. OneCurrentObject'
    <3> SUFFICES ASSUME NEW g \in edges', NEW h \in edges', Disagree(g, h), g.memory < h.memory,
                        h.memory \in settled', {g.memory, h.memory} \cap (overtaken' \cup rewritten) = {},
                        g.until = Open
                 PROVE  FALSE
      BY <1>2 DEF OneCurrentObject, Disagree
    <3>1. g \in edges /\ ~ Hit(g)
      BY <1>3, <2>1, <2>3
    <3>2. PICK f \in edges : /\ f.memory = h.memory /\ f.owner = h.owner /\ f.subject = h.subject
                             /\ f.predicate = h.predicate /\ f.object = h.object
      BY <2>1, <2>3
    <3>3. Disagree(g, f) /\ f.owner = g.owner
      BY <3>2 DEF Disagree
    <3>4. {g.memory, f.memory} \cap (overtaken \cup rewritten) = {}
      BY <3>2, <1>5 DEF SourcesStay
    <3>5. CASE f.memory \in settled
      BY <3>1, <3>2, <3>3, <3>4, <3>5 DEF FactsInv, OneCurrentObject
    <3>6. CASE f.memory = m
      BY <2>5, <3>1, <3>3, <3>4, <3>6
    <3> QED BY <1>8, <3>2, <3>5, <3>6
  <2> QED BY <1>6, <2>6, <2>7, <2>8 DEF FactsInv
<1> QED BY <1>1, <1>7, <1>8 DEF CloseContradicted

\* What a backfill writes is of a memory it rewrote.
LEMMA WritingIsRight ==
  ASSUME CursorIsSafe, FactsInv, NEW r \in Runs, WriteRelations(r)
  PROVE  FactsInv'
<1>1. PICK m : m = memory[r]
  OBVIOUS
<1>2. /\ phase[r] = "write" /\ rewritten' = rewritten \cup {m}
      /\ UNCHANGED <<created, born, owner, says, stage, at, settled, overtaken, found>>
      /\ ReplaceOpenRelations(owner[m], m, found[r], born[m])
  BY <1>1 DEF WriteRelations, RecordRelations, table, pipes
<1>3. m \in 1..created
  <2>1. m \in Ahead(r)
    BY <1>1, <1>2 DEF Ahead, Current, AtMemories
  <2>2. Ahead(r) \subseteq Of(Reading(r))
    BY <1>2 DEF CursorIsSafe, RunInv, InPlace, AtMemories
  <2> QED BY <2>1, <2>2 DEF Of
<1>4. m \in Memories /\ owner[m] \in Users /\ born[m] \in Nat /\ created \in Nat /\ found[r] \subseteq Relation
  BY <1>3 DEF CursorIsSafe, TableInv, FactsInv, FactTypes
<1>5. SourcesStay
  BY <1>2, <1>4 DEF SourcesStay
<1>6. OnTheirWay'
  BY <1>2 DEF FactsInv, OnTheirWay
<1> DEFINE New(q) == EdgeOf(owner[m], m, q, born[m])
<1>7. \A e \in edges' : e \in edges \/ \E q \in found[r] : Files(q) /\ e = New(q)
  BY <1>2 DEF ReplaceOpenRelations
<1>8. \A q \in found[r] : Files(q) =>
        /\ New(q) \in Edge /\ New(q).owner = owner[m] /\ New(q).memory = m
        /\ New(q).from = born[m] /\ New(q).until = Open
  BY <1>4, EdgeOfIsAnEdge
<1> HIDE DEF New
<1>9. FactTypes'
  BY <1>2, <1>7, <1>8 DEF FactsInv, FactTypes
<1>10. ASSUME NEW e \in edges' PROVE Sourced(e)' /\ ClosedRightly(e)'
  <2>1. CASE e \in edges
    BY <1>4, <1>5, <2>1, EdgeStays DEF FactsInv
  <2>2. CASE e.owner = owner[m] /\ e.memory = m /\ e.from = born[m] /\ e.until = Open
    BY <1>2, <1>3, <2>2 DEF Sourced, ClosedRightly
  <2> QED BY <1>7, <1>8, <2>1, <2>2
<1>11. OneCurrentObject'
  <2> SUFFICES ASSUME NEW e \in edges', NEW f \in edges', Disagree(e, f), e.memory < f.memory,
                      f.memory \in settled, {e.memory, f.memory} \cap (overtaken \cup rewritten') = {}
               PROVE  e.until # Open
    BY <1>2 DEF OneCurrentObject, Disagree
  <2>1. e \in edges /\ f \in edges
    BY <1>2, <1>7, <1>8
  <2> QED BY <1>2, <2>1 DEF FactsInv, OneCurrentObject
<1> QED BY <1>6, <1>9, <1>10, <1>11 DEF FactsInv

\* The other steps write no edge.
LEMMA StampingKeepsFacts ==
  ASSUME CursorIsSafe, FactsInv, NEW p \in Pipelines, Stamp(p)
  PROVE  FactsInv'
<1>1. PICK n : n = created + 1
  OBVIOUS
<1>2. /\ stage[p] = "idle" /\ n \in Memories /\ created' = n
      /\ \E c \in Candidates : says' = [says EXCEPT ![n] = c]
      /\ \E u \in Users : owner' = [owner EXCEPT ![n] = u]
      /\ \E time : born' = [born EXCEPT ![n] = time]
      /\ stage' = [stage EXCEPT ![p] = "insert"] /\ at' = [at EXCEPT ![p] = n]
      /\ UNCHANGED <<edges, settled, rewritten, overtaken, found>>
  BY <1>1 DEF Stamp, graph, history, runs
<1>3. n \notin 1..created /\ created \in Nat /\ n \in 1..n /\ 1..created \subseteq 1..n /\ created <= n /\ n \in Nat
      /\ 1..created \subseteq Memories
  BY <1>1 DEF CursorIsSafe, TableInv
<1>4. \A m \in 1..created : owner'[m] = owner[m] /\ born'[m] = born[m] /\ says'[m] = says[m]
  BY <1>2, <1>3 DEF CursorIsSafe, TableInv, FactsInv, FactTypes
<1>5. SourcesStay
  <2>1. \A q \in Pipelines : stage'[q] \in {"insert", "record"} =>
          (stage[q] \in {"insert", "record"} /\ at'[q] = at[q]) \/ at'[q] = n
    BY <1>2 DEF CursorIsSafe, PipesInv
  <2> QED BY <1>2, <1>3, <1>4, <2>1 DEF SourcesStay
<1>6. FactTypes'
  BY <1>2 DEF FactsInv, FactTypes
<1>7. OnTheirWay'
  <2>1. \A q \in Pipelines : stage'[q] # "idle" =>
          \/ q = p /\ at'[q] = n
          \/ q # p /\ stage[q] # "idle" /\ at'[q] = at[q] /\ at[q] \in 1..created
    BY <1>2 DEF CursorIsSafe, PipesInv, FactsInv, OnTheirWay
  <2> QED BY <1>2, <1>3, <2>1 DEF FactsInv, OnTheirWay
<1> QED BY <1>2, <1>3, <1>5, <1>6, <1>7, FactsStay

LEMMA InsertingKeepsFacts ==
  ASSUME CursorIsSafe, FactsInv, NEW p \in Pipelines, Insert(p)
  PROVE  FactsInv'
<1>1. /\ stage[p] = "insert"
      /\ UNCHANGED <<created, born, owner, says, edges, settled, rewritten, overtaken, found>>
      /\ \/ stage' = [stage EXCEPT ![p] = "record"] /\ UNCHANGED at
         \/ stage' = [stage EXCEPT ![p] = "idle"] /\ at' = [at EXCEPT ![p] = None]
  BY DEF Insert, graph, runs
<1>2. \A q \in Pipelines : stage'[q] # "idle" => stage[q] # "idle" /\ at'[q] = at[q]
  BY <1>1 DEF CursorIsSafe, PipesInv
<1>3. \A q \in Pipelines : stage'[q] \in {"insert", "record"} => stage[q] \in {"insert", "record"}
  BY <1>1 DEF CursorIsSafe, PipesInv
<1>4. OnTheirWay'
  BY <1>1, <1>2 DEF FactsInv, OnTheirWay
<1>5. SourcesStay
  BY <1>1, <1>2, <1>3 DEF SourcesStay, CursorIsSafe, TableInv
<1>6. FactTypes'
  BY <1>1 DEF FactsInv, FactTypes
<1> QED BY <1>1, <1>4, <1>5, <1>6, FactsStay DEF CursorIsSafe, TableInv

LEMMA OthersKeepFacts ==
  ASSUME CursorIsSafe, FactsInv, found' \in [Runs -> SUBSET Relation],
         UNCHANGED <<created, born, owner, says, stage, at, edges, settled, rewritten, overtaken>>
  PROVE  FactsInv'
<1>1. SourcesStay /\ created \in Nat
  BY DEF SourcesStay, CursorIsSafe, TableInv
<1>2. FactTypes' /\ OnTheirWay'
  BY DEF FactsInv, FactTypes, OnTheirWay
<1> QED BY <1>1, <1>2, FactsStay

LEMMA RunsKeepFacts ==
  ASSUME CursorIsSafe, FactsInv, NEW r \in Runs, StartRun(r) \/ RunStep(r) \/ RunFails(r)
  PROVE  FactsInv'
<1> USE DEF table, history, graph, pipes, runs
<1>1. found \in [Runs -> SUBSET Relation]
  BY DEF FactsInv, FactTypes
<1>2. CASE WriteRelations(r)
  BY <1>2, WritingIsRight
<1>3. CASE Extract(r)
  <2>1. PICK c \in Candidates : found' = [found EXCEPT ![r] = Anchored(memory[r], c.relations)]
    BY <1>3 DEF Extract
  <2>2. Anchored(memory[r], c.relations) \subseteq Relation
    BY WritersAssumption DEF Anchored
  <2>3. found' \in [Runs -> SUBSET Relation]
    BY <1>1, <2>1, <2>2
  <2> QED BY <1>3, <2>3, OthersKeepFacts DEF Extract
<1>4. CASE StartRun(r) \/ ListMemories(r) \/ UserDone(r) \/ Look(r)
  BY <1>1, <1>4, OthersKeepFacts DEF StartRun, ListMemories, UserDone, Look
<1>5. CASE NextUser(r)
  <2>1. found' \in [Runs -> SUBSET Relation]
    BY <1>1, <1>5 DEF NextUser, EndRun
  <2> QED BY <1>5, <2>1, OthersKeepFacts DEF NextUser
<1>6. CASE Mark(r)
  <2>1. found' \in [Runs -> SUBSET Relation]
    BY <1>1, <1>6 DEF Mark, EndRun
  <2> QED BY <1>6, <2>1, OthersKeepFacts DEF Mark
<1>7. CASE RunFails(r)
  <2>1. found' \in [Runs -> SUBSET Relation]
    BY <1>1, <1>7 DEF RunFails, EndRun
  <2> QED BY <1>7, <2>1, OthersKeepFacts DEF RunFails
<1> QED BY <1>2, <1>3, <1>4, <1>5, <1>6, <1>7 DEF RunStep

LEMMA StepsKeepFacts == CursorIsSafe /\ FactsInv /\ [Next]_vars => FactsInv'
<1> SUFFICES ASSUME CursorIsSafe, FactsInv, [Next]_vars PROVE FactsInv'
  OBVIOUS
<1>1. CASE UNCHANGED vars
  BY <1>1, OthersKeepFacts DEF vars, table, history, graph, pipes, runs, FactsInv, FactTypes
<1>2. ASSUME NEW p \in Pipelines, Pipeline(p) PROVE FactsInv'
  BY <1>2, StampingKeepsFacts, InsertingKeepsFacts, ProjectingIsRight, ClosingIsRight DEF Pipeline
<1>3. ASSUME NEW m \in Memories, Forget(m) \/ ProjectEntities(m) PROVE FactsInv'
  <2>1. /\ UNCHANGED <<created, born, owner, says, stage, at, edges, settled, rewritten, overtaken>>
        /\ found' = found
    BY <1>3 DEF Forget, ProjectEntities, RecordEntities, table, history, graph, pipes, runs
  <2> QED BY <2>1, OthersKeepFacts DEF FactsInv, FactTypes
<1>4. ASSUME NEW r \in Runs, StartRun(r) \/ RunStep(r) \/ RunFails(r) PROVE FactsInv'
  BY <1>4, RunsKeepFacts
<1> QED BY <1>1, <1>2, <1>3, <1>4 DEF Next

LEMMA FactsAtFirst == Init => FactsInv
<1> SUFFICES ASSUME Init PROVE FactsInv
  OBVIOUS
<1>1. edges = {} /\ settled = {} /\ \A p \in Pipelines : stage[p] = "idle"
  BY DEF Init, GraphInit
<1>2. FactTypes
  BY <1>1 DEF Init, FactTypes
<1> QED BY <1>1, <1>2 DEF FactsInv, OnTheirWay, OneCurrentObject

\* An edge closed by a younger memory of another instant was valid at its own.
LEMMA RightFactsAreReadable == CursorIsSafe /\ FactsInv => FactsReadTrue
<1> SUFFICES ASSUME CursorIsSafe, FactsInv, NEW e \in edges, e.until # Open
             PROVE  /\ owner[e.by] = e.owner /\ e.by # e.memory
                    /\ \E q \in says[e.by].relations :
                         /\ KeyOf[q.subject] = e.subject /\ q.predicate = e.predicate
                         /\ KeyOf[q.object] # e.object
                    /\ e.by \notin overtaken /\ born[e.by] # born[e.memory] => LiveAt(e, e.from)
  BY DEF FactsReadTrue, PastStaysReadable, FactsInv
<1>1. Sourced(e) /\ ClosedRightly(e)
  BY DEF FactsInv
<1>2. ASSUME e.by \notin overtaken, born[e.by] # born[e.memory] PROVE LiveAt(e, e.from)
  <2>1. /\ e.memory \in 1..created /\ e.by \in 1..created /\ e.memory < e.by
        /\ e.from = born[e.memory] /\ e.until = born[e.by]
    BY <1>1, <1>2 DEF Sourced, ClosedRightly
  <2>2. born[e.memory] <= born[e.by] /\ born[e.memory] \in Nat /\ born[e.by] \in Nat
    BY <2>1 DEF CursorIsSafe, TableInv
  <2> QED BY <1>2, <2>1, <2>2 DEF LiveAt
<1> QED BY <1>1, <1>2 DEF ClosedRightly

\* For any memories, pipelines, backfills and failures, in any order: of two
\* facts that exclude each other the older is closed once the younger is
\* settled, and a closed fact is still found at the time it was true
\* (memory_reconciler.rs, store; sqlite_entity_graph.rs, invalidate).
THEOREM FactsReadTrueAlways == Spec => []FactsReadTrue
<1>1. Init => CursorIsSafe /\ FactsInv
  BY CursorIsSafeAtFirst, FactsAtFirst
<1>2. CursorIsSafe /\ FactsInv /\ [Next]_vars => (CursorIsSafe /\ FactsInv)'
  BY StepsAreSafe, StepsKeepFacts
<1>3. CursorIsSafe /\ FactsInv => FactsReadTrue
  BY RightFactsAreReadable
<1> QED
  BY <1>1, <1>2, <1>3, PTL DEF Spec

-----------------------------------------------------------------------------
(* Types.                                                                  *)

\* What the other invariants leave open of the types.
OtherTypes ==
  /\ mentions \subseteq Users \X Memories \X Keys
  /\ at \in [Pipelines -> Memories \cup {None}]
  /\ queue \in [Runs -> SUBSET Memories] /\ memory \in [Runs -> Memories \cup {None}]
  /\ calls \in [Runs -> Nat] /\ faults \in 0..MaxFaults
  /\ handled \subseteq Memories /\ late \subseteq Memories /\ overtaken \subseteq Memories
  /\ rewritten \subseteq Memories /\ settled \subseteq Memories

TypeInv == CursorIsSafe /\ FactsInv /\ PaidTypes /\ OtherTypes

LEMMA FaultIsBounded == ASSUME OtherTypes, Fault PROVE faults' \in 0..MaxFaults
<1>1. PICK n \in Nat : n = MaxFaults
  BY WritersAssumption
<1> QED BY <1>1 DEF Fault, OtherTypes

\* Only keys of somebody are filed.
LEMMA MentionsAreTyped ==
  ASSUME OtherTypes, NEW u \in Users, NEW m \in Memories, NEW names \in SUBSET Names,
         ReplaceEntities(u, m, names)
  PROVE  mentions' \subseteq Users \X Memories \X Keys
<1>1. \A n \in names : KeyOf[n] # NoKey => KeyOf[n] \in Keys
  BY GraphAssumption
<1> QED BY <1>1 DEF ReplaceEntities, OtherTypes

\* What a memory says is names it can be filed under.
LEMMA SaysNames ==
  ASSUME FactTypes, NEW m \in Memories PROVE says[m].names \in SUBSET Names
BY WritersAssumption DEF FactTypes, Nothing

LEMMA PipelinesKeepTypes ==
  ASSUME TypeInv, NEW p \in Pipelines, Pipeline(p) PROVE OtherTypes'
<1> USE DEF graph, table, history, pipes, runs
<1>1. stage[p] # "idle" => at[p] \in Memories /\ owner[at[p]] \in Users
  BY DEF TypeInv, CursorIsSafe, TableInv, FactsInv, OnTheirWay
<1>2. CASE Stamp(p)
  <2>1. at' \in [Pipelines -> Memories \cup {None}]
    BY <1>2 DEF Stamp, TypeInv, OtherTypes
  <2> QED BY <1>2, <2>1 DEF Stamp, TypeInv, OtherTypes
<1>3. CASE Insert(p)
  <2>1. at' \in [Pipelines -> Memories \cup {None}] /\ faults' \in 0..MaxFaults
    BY <1>3, FaultIsBounded DEF Insert, TypeInv, OtherTypes
  <2>2. late' \subseteq Memories
    BY <1>1, <1>3 DEF Insert, TypeInv, OtherTypes
  <2> QED BY <1>3, <2>1, <2>2 DEF Insert, TypeInv, OtherTypes
<1>4. CASE ProjectMemory(p)
  <2>1. at' \in [Pipelines -> Memories \cup {None}] /\ faults' \in 0..MaxFaults
    BY <1>4, FaultIsBounded DEF ProjectMemory, TypeInv, OtherTypes
  <2>2. overtaken' \subseteq Memories
    BY <1>1, <1>4 DEF ProjectMemory, Overtakes, TypeInv, OtherTypes
  <2>3. CASE mentions' = mentions
    BY <1>4, <2>1, <2>2, <2>3 DEF ProjectMemory, TypeInv, OtherTypes
  <2>4. CASE ReplaceEntities(owner[at[p]], at[p], says[at[p]].names)
    <3>1. mentions' \subseteq Users \X Memories \X Keys
      BY <1>1, <1>4, <2>4, SaysNames, MentionsAreTyped DEF ProjectMemory, TypeInv, FactsInv
    <3> QED BY <1>4, <2>1, <2>2, <3>1 DEF ProjectMemory, TypeInv, OtherTypes
  <2> QED BY <1>4, <2>3, <2>4 DEF ProjectMemory, Record
<1>5. CASE CloseContradicted(p)
  <2>1. at' \in [Pipelines -> Memories \cup {None}] /\ faults' \in 0..MaxFaults
    BY <1>5, FaultIsBounded DEF CloseContradicted, TypeInv, OtherTypes
  <2>2. overtaken' \subseteq Memories /\ settled' \subseteq Memories
    BY <1>1, <1>5 DEF CloseContradicted, Overtakes, TypeInv, OtherTypes
  <2>3. mentions' = mentions
    BY <1>5 DEF CloseContradicted, Invalidate
  <2> QED BY <1>5, <2>1, <2>2, <2>3 DEF CloseContradicted, TypeInv, OtherTypes
<1> QED BY <1>2, <1>3, <1>4, <1>5 DEF Pipeline

LEMMA EndsAreTyped ==
  ASSUME OtherTypes, NEW r \in Runs, EndRun(r)
  PROVE  /\ queue' \in [Runs -> SUBSET Memories] /\ memory' \in [Runs -> Memories \cup {None}]
         /\ calls' \in [Runs -> Nat]
BY DEF EndRun, OtherTypes

LEMMA RunsKeepTypes ==
  ASSUME TypeInv, NEW r \in Runs, StartRun(r) \/ RunStep(r) \/ RunFails(r) PROVE OtherTypes'
<1> USE DEF graph, table, history, pipes, runs
<1>1. OtherTypes
  BY DEF TypeInv
<1>2. CASE StartRun(r) \/ UserDone(r) \/ Extract(r)
  BY <1>1, <1>2 DEF StartRun, UserDone, Extract, OtherTypes
<1>3. CASE NextUser(r)
  BY <1>1, <1>3, EndsAreTyped DEF NextUser, OtherTypes
<1>4. CASE ListMemories(r)
  <2>1. Stored \subseteq Memories
    BY DEF Stored
  <2>2. queue' \in [Runs -> SUBSET Memories]
    BY <1>1, <1>4, <2>1 DEF ListMemories, OtherTypes
  <2> QED BY <1>1, <1>4, <2>2 DEF ListMemories, OtherTypes
<1>5. CASE Look(r)
  <2>1. PICK m : m = Least(queue[r])
    OBVIOUS
  <2>2. m \in queue[r] /\ queue[r] \subseteq Memories
    BY <1>1, <1>5, <2>1, LeastIsTheLeast, GraphAssumption DEF Look, OtherTypes
  <2>3. /\ memory' = [memory EXCEPT ![r] = m] /\ queue' = [queue EXCEPT ![r] = @ \ {m}]
        /\ handled' \subseteq handled \cup {m}
        /\ UNCHANGED <<mentions, at, calls, faults, late, overtaken, rewritten, settled>>
    BY <1>5, <2>1 DEF Look
  <2>4. memory' \in [Runs -> Memories \cup {None}] /\ queue' \in [Runs -> SUBSET Memories]
    BY <1>1, <2>2, <2>3 DEF OtherTypes
  <2> QED BY <1>1, <2>2, <2>3, <2>4 DEF OtherTypes
<1>6. CASE WriteRelations(r)
  <2>1. memory[r] \in Memories
    BY <1>6 DEF WriteRelations, TypeInv, CursorIsSafe, RunInv, InPlace, Ahead, Current, AtMemories,
                Of, TableInv
  <2> QED BY <1>1, <1>6, <2>1 DEF WriteRelations, RecordRelations, OtherTypes
<1>7. CASE Mark(r)
  <2>1. CASE EndRun(r)
    BY <1>1, <1>7, <2>1, EndsAreTyped DEF Mark, OtherTypes
  <2>2. CASE ~ EndRun(r)
    <3>1. /\ memory' = [memory EXCEPT ![r] = None] /\ UNCHANGED queue
          /\ calls' = [calls EXCEPT ![r] = @ + 1] \/ calls' = calls
      BY <1>7, <2>2 DEF Mark
    <3>2. memory' \in [Runs -> Memories \cup {None}] /\ calls' \in [Runs -> Nat]
      BY <1>1, <3>1 DEF OtherTypes
    <3> QED BY <1>1, <1>7, <3>1, <3>2 DEF Mark, OtherTypes
  <2> QED BY <2>1, <2>2
<1>8. CASE RunFails(r)
  <2>1. faults' \in 0..MaxFaults
    BY <1>1, <1>8, FaultIsBounded DEF RunFails
  <2> QED BY <1>1, <1>8, <2>1, EndsAreTyped DEF RunFails, OtherTypes
<1> QED BY <1>2, <1>3, <1>4, <1>5, <1>6, <1>7, <1>8 DEF RunStep

LEMMA StepsKeepTypes == TypeInv /\ [Next]_vars => OtherTypes'
<1> SUFFICES ASSUME TypeInv, [Next]_vars PROVE OtherTypes'
  OBVIOUS
<1> USE DEF graph, table, history, pipes, runs
<1>1. CASE UNCHANGED vars
  BY <1>1 DEF vars, TypeInv, OtherTypes
<1>2. ASSUME NEW p \in Pipelines, Pipeline(p) PROVE OtherTypes'
  BY <1>2, PipelinesKeepTypes
<1>3. ASSUME NEW m \in Memories, Forget(m) PROVE OtherTypes'
  BY <1>3 DEF Forget, TypeInv, OtherTypes
<1>4. ASSUME NEW m \in Memories, ProjectEntities(m) PROVE OtherTypes'
  <2>1. owner[m] \in Users
    BY DEF TypeInv, CursorIsSafe, TableInv
  <2>2. mentions' \subseteq Users \X Memories \X Keys
    BY <1>4, <2>1, SaysNames, MentionsAreTyped DEF ProjectEntities, RecordEntities, TypeInv, FactsInv
  <2> QED BY <1>4, <2>2 DEF ProjectEntities, TypeInv, OtherTypes
<1>5. ASSUME NEW r \in Runs, StartRun(r) \/ RunStep(r) \/ RunFails(r) PROVE OtherTypes'
  BY <1>5, RunsKeepTypes
<1> QED BY <1>1, <1>2, <1>3, <1>4, <1>5 DEF Next

\* Whatever the pipelines, the backfills and their failures do: every row of
\* the graph is of a memory, between keys of somebody, and every run is at
\* memories there are (sqlite_entity_graph.rs, record; graph_backfiller.rs).
THEOREM TypeCorrect == Spec => []TypeOK
<1>1. Init => TypeInv
  <2> SUFFICES ASSUME Init PROVE OtherTypes
    BY CursorIsSafeAtFirst, FactsAtFirst, PaidAtFirst DEF TypeInv, PaidInv
  <2>1. 0 \in 0..MaxFaults
    BY WritersAssumption
  <2> QED BY <2>1 DEF Init, GraphInit, OtherTypes
<1>2. TypeInv /\ [Next]_vars => TypeInv'
  BY StepsAreSafe, StepsKeepFacts, PaidTypesStay, StepsKeepTypes DEF TypeInv
<1>3. TypeInv => TypeOK
  <2> SUFFICES ASSUME TypeInv PROVE TypeOK
    OBVIOUS
  <2>1. phase \in [Runs -> {"idle", "user", "list", "look", "extract", "write", "mark", "pass"}]
    BY DEF TypeInv, CursorIsSafe, RunTypes, AtMemories
  <2> QED BY <2>1 DEF TypeInv, CursorIsSafe, TableInv, PipesInv, CursorInv, RunTypes, FactsInv,
                      FactTypes, PaidTypes, OtherTypes, TypeOK, GraphTypeOK
<1> QED
  BY <1>1, <1>2, <1>3, PTL DEF Spec

=============================================================================
