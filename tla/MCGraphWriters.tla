--------------------------- MODULE MCGraphWriters ---------------------------
(* Values for checking GraphWriters: a service that is deployed on one of     *)
(* two platforms, or on one whose name comes to nothing.                    *)
EXTENDS GraphWriters, TLC

MCKeyOf == [service |-> 1, fly |-> 2, hetzner |-> 3, blank |-> 0]
On(platform) == [subject |-> "service", predicate |-> "on", object |-> platform]
MCCandidates ==
  {[names |-> {"service", "fly"}, relations |-> {On("fly"), On("blank")}],
   [names |-> {"service", "hetzner"}, relations |-> {On("hetzner")}]}
PipelineSymmetry == Permutations(Pipelines)
=============================================================================
