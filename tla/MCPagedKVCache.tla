--------------------------- MODULE MCPagedKVCache ---------------------------
(* PagedKVCache on a small pool, for TLC. *)
EXTENDS PagedKVCache, TLC

CONSTANTS r1, r2, b1, b2, b3

MCRequests == {r1, r2}
MCBlocks == {b1, b2, b3}

\* No definition distinguishes two requests or two blocks by name.
MCSymmetry == Permutations(MCRequests) \cup Permutations(MCBlocks)

=============================================================================
