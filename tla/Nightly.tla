------------------------------ MODULE Nightly ------------------------------
(***************************************************************************)
(* What the nightly pass works out from what it reads: groups, the links   *)
(* between vectors and the clusters they make, what the model's answer     *)
(* replaces a cluster with, what a memory is worth by now, and the report. *)
(*                                                                         *)
(* A memory is [id, category, sub, vector, confidence, weight, age]; a     *)
(* category is <<family, kind>>, a vector a sequence of integers, and      *)
(* confidences, weights and similarities are hundredths.                   *)
(***************************************************************************)
EXTENDS Integers, Sequences, FiniteSetsExt, Functions, TLC
LOCAL Seqs == INSTANCE SequencesExt

CONSTANTS
  KnownCategories,  \* the taxonomy, a sequence
  Threshold,        \* similarity_threshold
  Shown,            \* MAX_MEMORIES_SHOWN
  Vectors,          \* what memories are embedded as, of one length or none
  MaxLinks          \* bound: links in a row

-----------------------------------------------------------------------------
(* ClusterBuilder: slots in the order ids were first seen, each with the   *)
(* slot it is attached to, an earlier one or itself.                       *)

NoLinks == [order |-> <<>>, parent |-> <<>>]

\* slot: where an id was first seen.
SlotOf(builder, id) == CHOOSE p \in DOMAIN builder.order : builder.order[p] = id
Slotted(builder, id) ==
  IF \E p \in DOMAIN builder.order : builder.order[p] = id THEN builder
  ELSE [order |-> Append(builder.order, id), parent |-> Append(builder.parent, Len(builder.order) + 1)]

\* root; compressing the path changes no root.
Roots(parent) ==
  LET f[p \in DOMAIN parent] == IF parent[p] = p THEN p ELSE f[parent[p]] IN f
Root(builder, id) == Roots(builder.parent)[SlotOf(builder, id)]

\* Mutant of Link: the memories are attached, not the roots they hang on.
LinkSlots(builder, a, b) ==
  IF a = b THEN builder
  ELSE LET both == Slotted(Slotted(builder, a), b)
           slots == {SlotOf(both, a), SlotOf(both, b)}
       IN [both EXCEPT !.parent[Max(slots)] = Min(slots)]

\* The root seen later is attached to the earlier one.
Link(builder, a, b) ==
  IF a = b THEN builder
  ELSE LET both == Slotted(Slotted(builder, a), b)
           x == Root(both, a)
           y == Root(both, b)
       IN [both EXCEPT !.parent[IF x < y THEN y ELSE x] = IF x < y THEN x ELSE y]

\* All the links, one after the other.
Linked(links) ==
  LET built[n \in 0..Len(links)] ==
        IF n = 0 THEN NoLinks ELSE Link(built[n - 1], links[n][1], links[n][2])
  IN built[Len(links)]

\* The elements of a list that are wanted, in their order (retain).
Among(list, wanted) ==
  LET kept[n \in 0..Len(list)] ==
        IF n = 0 THEN <<>>
        ELSE IF list[n] \in wanted THEN Append(kept[n - 1], list[n]) ELSE kept[n - 1]
  IN kept[Len(list)]

\* clusters: in the order of their first members, the members likewise.
ClustersOf(builder) ==
  LET order == builder.order
      OfRoot(p) == Among(order, {id \in Range(order) : Root(builder, id) = p})
      all == [p \in DOMAIN order |-> OfRoot(p)]
  IN Among(all, {ids \in Range(all) : Len(ids) > 1})

Dot(v, w) == Seqs!FoldLeftDomain(LAMBDA sum, i : sum + v[i] * w[i], 0, v)

\* cosine: whether it reaches a threshold above 0; a length that differs, an
\* empty vector and one without a magnitude are similar to nothing.
Similar(v, w) ==
  /\ Len(v) = Len(w) /\ Dot(v, v) > 0 /\ Dot(w, w) > 0
  /\ Dot(v, w) > 0
  /\ Dot(v, w) * Dot(v, w) * 10000 >= Threshold * Threshold * Dot(v, v) * Dot(w, w)

Pairs(n) == Seqs!SetToSortSeq({p \in (1..n) \X (1..n) : p[1] < p[2]},
                         LAMBDA p, q : p[1] < q[1] \/ (p[1] = q[1] /\ p[2] < q[2]))

\* ConsolidationRunner::cluster.
ClusterGroup(group) ==
  LET links == SelectSeq(Pairs(Len(group)),
                         LAMBDA p : Similar(group[p[1]].vector, group[p[2]].vector))
  IN ClustersOf(Linked([i \in DOMAIN links |-> <<group[links[i][1]].id, group[links[i][2]].id>>]))

\* by_category_and_subcategory, the largest first; the order of equals is kept.
KeyOf(memory) == <<memory.category, memory.sub>>
GroupsOf(memories) ==
  LET keys == Seqs!FoldLeft(LAMBDA ks, m : IF KeyOf(m) \in Range(ks) THEN ks ELSE Append(ks, KeyOf(m)),
                       <<>>, memories)
      Of(k) == SelectSeq(memories, LAMBDA m : KeyOf(m) = k)
      first == [i \in DOMAIN keys |-> [group |-> Of(keys[i]), at |-> i]]
  IN SortSeq(first, LAMBDA x, y : \/ Len(x.group) > Len(y.group)
                                  \/ Len(x.group) = Len(y.group) /\ x.at < y.at)

-----------------------------------------------------------------------------
(* MemoryMerger.                                                           *)

CheckMergeable(cluster) == Len(cluster) >= 2

\* Taxonomy::resolve.
ResolveName(name) ==
  LET family == SelectSeq(KnownCategories, LAMBDA c : c[1] = name[1])
  IN IF name \in Range(KnownCategories) THEN name
     ELSE IF family # <<>> THEN Head(family) ELSE <<"fact", "project">>

\* schema: the categories a model that follows it can name.
NamedBySchema == Range(KnownCategories)

KeepSeparate == [merge |-> FALSE]

\* Mutant of ParseMerge: what the model says to merge is merged.
ParseMergeTrusting(answer, cluster) ==
  IF answer.merge # "true" THEN KeepSeparate
  ELSE [merge |-> TRUE, content |-> answer.content,
        category |-> IF answer.category = <<>> THEN cluster[1].category ELSE ResolveName(answer.category)]

\* parse_merge: anything that cannot be used keeps the cluster.
ParseMerge(answer, cluster) ==
  IF answer.merge # "true" \/ answer.content \in {"none", "blank"} THEN KeepSeparate
  ELSE [merge |-> TRUE, content |-> answer.content,
        category |-> IF answer.category = <<>> THEN cluster[1].category ELSE ResolveName(answer.category)]

\* What takes the cluster's place: as sure as its surest member, of its
\* subcategory, without an expiry.
Replacement(decision, cluster) ==
  [content |-> decision.content, category |-> decision.category,
   sub |-> cluster[1].sub, expires |-> FALSE,
   confidence |-> Seqs!FoldLeft(LAMBDA most, m : Max({most, m.confidence}), 0, cluster)]

-----------------------------------------------------------------------------
(* decay.rs and digest_prompt.rs.                                          *)

\* 0.5 to the power of n, in 1/1024.
Halved(n) == 1024 \div 2^(IF n > 10 THEN 10 ELSE n)

\* importance, in thousandths: of the half-lives since it was last used, or
\* made, and of how often it was, in fives.
MinImportance == 350
Importance(halfLives, fives) ==
  LET recency == Halved(IF halfLives < 0 THEN 0 ELSE halfLives)
      frequency == 1024 - Halved(fives)
  IN MinImportance + ((1000 - MinImportance) * ((recency + frequency) \div 2)) \div 1024

\* select: by importance, confidence, then the newest, then the id.
Before(x, y) ==
  LET Key(m) == <<-m.weight, -m.confidence, m.age, m.id>>
      differ == {i \in 1..4 : Key(x)[i] # Key(y)[i]}
  IN differ # {} /\ Key(x)[Min(differ)] < Key(y)[Min(differ)]
SelectShown(memories) ==
  LET sorted == SortSeq(memories, Before)
  IN SubSeq(sorted, 1, Min({Shown, Len(sorted)}))

\* parse_digest.
ParseDigest(answer) == IF answer \in {"none", "blank"} THEN "" ELSE answer

-----------------------------------------------------------------------------
(* ConsolidationReport.                                                    *)

Counts == {"memories_examined", "clusters_found", "merged", "retired", "kept_separate",
           "expired", "rescored", "groups_skipped"}
EmptyReport == [count |-> [f \in Counts |-> 0], budget_exhausted |-> FALSE,
                budget_reason |-> "none", previews |-> <<>>]

\* preview, of ids.
Preview(ids, memories) ==
  LET Of(id) == memories[CHOOSE i \in DOMAIN memories : memories[i].id = id]
  IN [category |-> Of(ids[1]).category, contents |-> ids]

\* consolidate_user of a dry run, of groups that changed: no call, no write.
DryRun(memories) ==
  LET gs == SelectSeq(GroupsOf(memories), LAMBDA x : Len(x.group) >= 2)
      clusters == Seqs!FlattenSeq([i \in DOMAIN gs |-> ClusterGroup(gs[i].group)])
  IN [EmptyReport EXCEPT !.count["memories_examined"] = Len(memories),
                         !.count["clusters_found"] = Len(clusters),
                         !.previews = [i \in DOMAIN clusters |-> Preview(clusters[i], memories)]]

-----------------------------------------------------------------------------
(* What these are to be, over the bounded inputs.                          *)

At(i, vec) == [id |-> i, category |-> <<"fact", "project">>, sub |-> "", vector |-> vec,
               confidence |-> 50, weight |-> 100, age |-> i]

\* What is reached from an id over links, either way.
Reached(links, id) ==
  LET N == 1 + Len(links)
      f[n \in 0..N] ==
        IF n = 0 THEN {id}
        ELSE LET near == f[n - 1]
             IN near \cup UNION {{l[1], l[2]} : l \in {x \in Range(links) :
                                                        {x[1], x[2]} \cap near # {}}}
  IN f[N]

\* Every memory is with all that it is linked to, however indirectly, and with
\* nothing else, in the order of first appearance.
AreComponents(links, made) ==
  LET linked == {l \in Range(links) : l[1] # l[2]}
      Ends == UNION {{l[1], l[2]} : l \in linked}
      Seen == Seqs!FlattenSeq([i \in DOMAIN links |->
                IF links[i][1] = links[i][2] THEN <<>> ELSE links[i]])
      Firsts(ids) == [i \in DOMAIN ids |-> Min({k \in DOMAIN Seen : Seen[k] = ids[i]})]
      Rising(ns) == \A i, j \in DOMAIN ns : i < j => ns[i] < ns[j]
  IN /\ {Range(ids) : ids \in Range(made)} = {Reached(links, id) : id \in Ends}
     /\ Cardinality(Range(made)) = Len(made)
     /\ \A ids \in Range(made) : Rising(Firsts(ids))
     /\ Rising([i \in DOMAIN made |-> Firsts(made[i])[1]])

\* Links may come in any order, twice, reversed, or lead nowhere.
LinkingIsRight ==
  \A n \in 0..MaxLinks : \A links \in [1..n -> (1..4) \X (1..4)] :
    AreComponents(links, ClustersOf(Linked(links)))

\* A group is clustered by its vectors alone, and a dry run tells what it is.
GroupsAreRight ==
  \A vecs \in [1..4 -> Vectors] :
    LET group == [i \in 1..4 |-> At(i, vecs[i])]
        near == SelectSeq(Pairs(4), LAMBDA p : Similar(vecs[p[1]], vecs[p[2]]))
        told == DryRun(group)
    IN /\ AreComponents(near, ClusterGroup(group))
       /\ [i \in DOMAIN told.previews |-> told.previews[i].contents] = ClusterGroup(group)
       /\ told.count["clusters_found"] = Len(told.previews)

-----------------------------------------------------------------------------
Answers == [merge : {"true", "false", "none", "yes"}, content : {"none", "blank", "said"},
            category : {<<>>, <<"fact", "project">>, <<"fact", "odd">>, <<"odd", "">>}]
Sureness == [1..2 -> {40, 90}]
Sides == {<<"fact", "project">>, <<"decision", "">>}
Halves == {[At(1, <<1>>) EXCEPT !.confidence = c[1], !.category = k, !.sub = b] :
             c \in Sureness, k \in Sides, b \in {"", "homelab"}}

\* Whatever is answered, what replaces a cluster says something, is filed
\* where the taxonomy knows, stays under the cluster's label, and is no less
\* sure than any member.
MergesAreRight ==
  \A answer \in Answers, x \in Halves, c \in Sureness :
    LET cluster == <<x, [x EXCEPT !.id = 2, !.confidence = c[2]]>>
        decision == ParseMerge(answer, cluster)
        made == Replacement(decision, cluster)
    IN CheckMergeable(cluster) /\ (decision.merge =>
         /\ made.content = "said" /\ ~ made.expires
         /\ made.category \in Range(KnownCategories)
         /\ answer.category = <<>> => made.category = x.category
         /\ answer.category \in NamedBySchema => made.category = answer.category
         /\ made.sub = x.sub /\ \A m \in Range(cluster) : made.confidence >= m.confidence)

\* Being used more, or later, never makes a memory worth less, and disuse
\* never takes more than two thirds of its worth.
DecayIsRight ==
  \A h \in -1..10, f \in 0..10 :
    /\ Importance(h, f) \in MinImportance..1000
    /\ Importance(h, f) >= Importance(h + 1, f) /\ Importance(h, f + 1) >= Importance(h, f)

\* The memories a digest is written of are the worthiest, whatever the order
\* they are listed in.
ShownIsRight ==
  LET some == [1..3 -> {At(i, <<1>>) : i \in 1..3}]
      Weighted(ms, ws) == [i \in 1..3 |-> [ms[i] EXCEPT !.weight = ws[ms[i].id]]]
  IN \A ws \in [1..3 -> {40, 100}], ms \in {x \in some : IsInjective(x)} :
       LET all == Weighted(ms, ws)
           picked == Range(SelectShown(all))
       IN /\ Cardinality(picked) = Min({Shown, 3})
          /\ \A m \in picked, o \in Range(all) \ picked : m.weight >= o.weight
          /\ SelectShown(all) = SelectShown(Weighted(<<At(1, <<1>>), At(2, <<1>>), At(3, <<1>>)>>, ws))
=============================================================================
