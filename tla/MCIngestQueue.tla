--------------------------- MODULE MCIngestQueue ---------------------------
(* Instances of IngestQueue for the model checker.                         *)
EXTENDS IngestQueue, TLC

\* Sound for the safety runs: no definition names a worker or a request.
ActorSymmetry == Permutations(Workers) \cup Permutations(Requests)

=============================================================================
