--------------------------- MODULE MCAsyncRequests ---------------------------
(* Small instances of AsyncRequests for TLC. *)
EXTENDS AsyncRequests, TLC

CONSTANT b

\* A block of 2 by 3 elements of 2 bytes: 12 bytes, the largest size_t there is.
Shapes == b :> <<2, 3>>
Sizes == b :> 2

Symmetry == Permutations(Threads) \cup Permutations(Handles) \cup Permutations(Servers)

==============================================================================
