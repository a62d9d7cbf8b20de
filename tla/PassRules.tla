----------------------------- MODULE PassRules -----------------------------
(***************************************************************************)
(* What a pass works out (Nightly), at the steps of the pass at which it   *)
(* is worked out (Consolidation).                                          *)
(***************************************************************************)
EXTENDS Consolidation, Nightly
LOCAL Seqs == INSTANCE SequencesExt

\* A memory as the pass reads it, what it says being its vector.
TopicVector(t) == [i \in 1..Cardinality(Topics) |-> IF Seqs!SetToSeq(Topics)[i] = t THEN 1 ELSE 0]
ReadGroup(g) ==
  LET members == Seqs!SetToSeq(Slice(Group(g)))
  IN [i \in DOMAIN members |-> At(members[i].memory, TopicVector(members[i].topic))]

\* What a pass asks the model about are the connected components of
\* similarity: no near-duplicate is asked about apart from what it is linked
\* to, in whatever order the pairs are met, and none with what it is not
\* linked to (cluster_builder.rs, ConsolidationRunner::cluster).
ClustersAreWhole ==
  \A r \in Runners : stage[r] = "planning" =>
    /\ \A g \in Changed(Here(r)) :
         {Seqs!Range(ids) : ids \in Seqs!Range(ClusterGroup(ReadGroup(g)))}
           = {{v.memory : v \in C} : C \in Clusters(Slice(Group(g)))}
    /\ LinkingIsRight /\ GroupsAreRight

\* The model is answered by merging only what its answer can replace: the
\* cluster stays as it is when the answer is garbled, empty or against it;
\* nothing is lost to a merge, to decay or to a digest's cap but what each of
\* them is for (merge_prompt.rs, decay.rs, digest_prompt.rs).
NothingIsLostOvernight ==
  \A r \in Runners : stage[r] = "awaiting" =>
    MergesAreRight /\ DecayIsRight /\ ShownIsRight
      /\ \A a \in {"none", "blank", "digest"} : ParseDigest(a) # "" => a = "digest"
=============================================================================
