------------------------ MODULE MCDistributedPipeline ------------------------
(* Small instances of DistributedPipeline for TLC. *)
EXTENDS DistributedPipeline, TLC

\* Ranks other than the root are interchangeable.
RankSymmetry == Permutations(Others)

==============================================================================
