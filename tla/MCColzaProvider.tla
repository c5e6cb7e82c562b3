--------------------------- MODULE MCColzaProvider ---------------------------
(* Small instances of ColzaProvider for TLC. *)
EXTENDS ColzaProvider, TLC

\* The RPCs that count a pipeline in or out; stage does neither.
CountingOps == ClientOps \ {"stage"}

HandlerSymmetry == Permutations(Handlers)

==============================================================================
