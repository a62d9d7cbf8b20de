---------------------------- MODULE EntityGraph ----------------------------
(***************************************************************************)
(* The entity and relation tables (SqliteEntityGraph, migration V8) and    *)
(* the statements on them, each of them one transaction.                   *)
(*                                                                         *)
(* A memory asserts relations between names; the tables file them under    *)
(* keys (EntityKey, normalise_predicate).  An edge is valid from the       *)
(* creation of its memory until another memory contradicts it.             *)
(***************************************************************************)
EXTENDS Naturals, FiniteSets, Sequences, Orders

CONSTANTS
  Memories,    \* memory ids, 1..n in the order they are created
  Users,
  Names,       \* spellings of entities, as memories write them
  Keys,        \* their canonical forms
  KeyOf,       \* the form each spelling has; NoKey when nothing is left of it
  Predicates   \* canonical predicates

NoKey == 0   \* EntityKey::is_empty
Open  == 0   \* invalid_at IS NULL, and invalidated_by IS NULL

ASSUME GraphAssumption ==
  /\ Memories \subseteq Nat \ {0}
  /\ NoKey \notin Keys
  /\ KeyOf \in [Names -> Keys \cup {NoKey}]

Relation == [subject : Names, predicate : Predicates, object : Names]

VARIABLES
  mentions,  \* memory_entities: memory and key
  edges      \* memory_relations

graph == <<mentions, edges>>

Edge == [owner : Users, memory : Memories, subject : Keys, predicate : Predicates,
         object : Keys, from : Nat, until : Nat, by : Memories \cup {Open}]

GraphTypeOK ==
  /\ mentions \subseteq Users \X Memories \X Keys
  /\ edges \subseteq Edge

GraphInit == mentions = {} /\ edges = {}

\* A relation needs two distinct endpoints that are somebody.
Files(r) ==
  /\ KeyOf[r.subject] # NoKey
  /\ KeyOf[r.object] # NoKey
  /\ KeyOf[r.subject] # KeyOf[r.object]

EdgeOf(u, m, r, at) ==
  [owner |-> u, memory |-> m, subject |-> KeyOf[r.subject], predicate |-> r.predicate,
   object |-> KeyOf[r.object], from |-> at, until |-> Open, by |-> Open]

\* replace_entities: a memory mentions exactly these.
ReplaceEntities(u, m, names) ==
  mentions' = {row \in mentions : row[1] # u \/ row[2] # m}
                \cup {<<u, m, KeyOf[n]>> : n \in {n \in names : KeyOf[n] # NoKey}}

\* Mutant of ReplaceOpenRelations: everything the memory asserted goes.
ReplaceAllRelations(u, m, relations, at) ==
  edges' = {e \in edges : e.owner # u \/ e.memory # m}
             \cup {EdgeOf(u, m, r, at) : r \in {r \in relations : Files(r)}}

\* replace_open_relations: edges that were closed are history and stay.
ReplaceOpenRelations(u, m, relations, at) ==
  edges' = {e \in edges : e.owner # u \/ e.memory # m \/ e.until # Open}
             \cup {EdgeOf(u, m, r, at) : r \in {r \in relations : Files(r)}}

Record(u, m, names, relations, at) ==
  ReplaceEntities(u, m, names) /\ ReplaceOpenRelations(u, m, relations, at)

RecordEntities(u, m, names) ==
  ReplaceEntities(u, m, names) /\ UNCHANGED edges

RecordRelations(u, m, relations, at) ==
  ReplaceOpenRelations(u, m, relations, at) /\ UNCHANGED mentions

HasRelations(u, m) == \E e \in edges : e.owner = u /\ e.memory = m

\* Mutant of Contradicts: the objects are compared the wrong way round.
ContradictsEqual(u, m, r, e) ==
  /\ KeyOf[r.subject] # NoKey /\ KeyOf[r.object] # NoKey
  /\ e.owner = u /\ e.memory # m /\ e.until = Open
  /\ e.subject = KeyOf[r.subject] /\ e.predicate = r.predicate
  /\ e.object = KeyOf[r.object]

\* What r, said by u's memory m, contradicts: another object for the same
\* subject and predicate, in an edge of another memory that is still open.
Contradicts(u, m, r, e) ==
  /\ KeyOf[r.subject] # NoKey /\ KeyOf[r.object] # NoKey
  /\ e.owner = u /\ e.memory # m /\ e.until = Open
  /\ e.subject = KeyOf[r.subject] /\ e.predicate = r.predicate
  /\ e.object # KeyOf[r.object]

\* invalidate: close what the relations contradict, as of the time given.
Invalidate(u, relations, at, m) ==
  /\ edges' = {IF \E r \in relations : Contradicts(u, m, r, e)
               THEN [e EXCEPT !.until = at, !.by = m] ELSE e : e \in edges}
  /\ UNCHANGED mentions

-----------------------------------------------------------------------------
(* Reads: the hop of recall.                                               *)

\* seeds: of the keys a query offers, those some memory mentions.
Seeds(u, keys) == {k \in keys : \E m \in Memories : <<u, m, k>> \in mentions}

LiveAt(e, at) == e.from <= at /\ (e.until = Open \/ e.until > at)

\* The two ends of an edge: a walk goes through it either way.
Ends(e) == {e.subject, e.object}

\* Mutant of Reachable: it stops one hop early.
ReachableShort(live, seeds, hops) ==
  LET grown[d \in 0..hops - 1] ==
        IF d = 0 THEN {<<k, 0>> : k \in seeds}
        ELSE grown[d - 1] \cup
             {<<k, d>> : k \in {k \in Keys : \E p \in grown[d - 1], e \in live :
                                  /\ p[2] = d - 1
                                  /\ p[1] \in Ends(e) /\ k \in Ends(e) \ {p[1]}}}
  IN grown[IF hops < 2 THEN 0 ELSE hops - 2]

\* reachable: pairs of a key and the depth it was arrived at, grown one hop
\* at a time as the recursive query does.
Reachable(live, seeds, hops) ==
  LET grown[d \in 0..hops - 1] ==
        IF d = 0 THEN {<<k, 0>> : k \in seeds}
        ELSE grown[d - 1] \cup
             {<<k, d>> : k \in {k \in Keys : \E p \in grown[d - 1], e \in live :
                                  /\ p[2] = d - 1
                                  /\ p[1] \in Ends(e) /\ k \in Ends(e) \ {p[1]}}}
  IN grown[hops - 1]

\* hits: the memories whose live edges touch a reached key, each with its
\* nearest hop and the number of such edges.
Hits(u, seeds, hops, at) ==
  LET live  == {e \in edges : e.owner = u /\ LiveAt(e, at)}
      depth == Reachable(live, seeds, hops)
      \* whether an edge is touched at depth d
      touched(e, d) == \E k \in Ends(e) : <<k, d>> \in depth
      touching(m) == {e \in live : e.memory = m /\ \E d \in 0..hops - 1 : touched(e, d)}
  IN {[memory |-> m,
       hop    |-> 1 + Least({d \in 0..hops - 1 : \E e \in touching(m) : touched(e, d)}),
       weight |-> Cardinality(touching(m))] : m \in {m \in Memories : touching(m) # {}}}

\* Best first: nearer, then touched more often, then older.
Nearer(h, g) ==
  \/ h.hop < g.hop
  \/ h.hop = g.hop /\ h.weight > g.weight
  \/ h.hop = g.hop /\ h.weight = g.weight /\ h.memory < g.memory

\* neighbours: the memories of the best hits, best first, as many as asked for.
Neighbours(u, seeds, hops, at, limit) ==
  LET hits == IF hops = 0 THEN <<>> ELSE Sorted(Hits(u, seeds, hops, at), Nearer)
  IN [i \in 1..Least({limit, Len(hits)}) |-> hits[i].memory]
=============================================================================
