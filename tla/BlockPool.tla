----------------------------- MODULE BlockPool -----------------------------
(***************************************************************************)
(* What PagedKVCache (engine/kv_cache.py) promises to the scheduler: a     *)
(* pool of NumBlocks interchangeable blocks.  Only counts are visible:     *)
(* how many blocks are free, how many each request holds on the GPU, and   *)
(* how many it has parked in the CPU swap space.  Block identities, block  *)
(* contents and the metadata are in PagedKVCache, which implements this    *)
(* specification; Scheduler composes these operations with its own state.  *)
(*                                                                         *)
(* A definition whose name ends in _<Defect> is its neighbour with a       *)
(* plausible bug; it is used only to show that a property notices the bug. *)
(***************************************************************************)
EXTENDS Integers

CONSTANTS
    Requests,   \* request identifiers
    NumBlocks   \* PagedKVCache.num_blocks

ASSUME PoolAssumption == NumBlocks \in Nat

VARIABLES
    free,       \* len(free_blocks)
    held,       \* held[r] = len(block_tables[r]), 0 when r has no table
    swapped     \* swapped[r] = blocks in swap_space[r], 0 when r has no entry

poolVars == <<free, held, swapped>>

\* The types of the pool's variables; that the counts never add up to more
\* than NumBlocks is a property of the specifications that use the pool.
PoolTypeOK ==
    /\ free \in Nat
    /\ held \in [Requests -> Nat]
    /\ swapped \in [Requests -> Nat]

PoolInit ==
    /\ free = NumBlocks
    /\ held = [r \in Requests |-> 0]
    /\ swapped = [r \in Requests |-> 0]

PoolAllocate_Unchecked(r, k) ==
    /\ free' = free - k
    /\ held' = [held EXCEPT ![r] = @ + k]
    /\ UNCHANGED swapped

\* allocate: k blocks move from the free set to the end of r's table.  With
\* k > free the call raises KVCacheOutOfMemoryError and changes nothing.
PoolAllocate(r, k) ==
    /\ k <= free
    /\ free' = free - k
    /\ held' = [held EXCEPT ![r] = @ + k]
    /\ UNCHANGED swapped

\* free: the whole table goes back, and any swapped copy is dropped.
PoolFree(r) ==
    /\ free' = free + held[r]
    /\ held' = [held EXCEPT ![r] = 0]
    /\ swapped' = [swapped EXCEPT ![r] = 0]

PoolSwapOut_KeepsTable(r) ==
    IF held[r] = 0
    THEN UNCHANGED poolVars
    ELSE /\ free' = free + held[r]
         /\ swapped' = [swapped EXCEPT ![r] = held[r]]
         /\ UNCHANGED held

\* swap_out: nothing happens without blocks (no table: early return; an empty
\* table: torch.stack([]) raises before anything is assigned).  Otherwise the
\* copy replaces whatever swap_space held for r.
PoolSwapOut(r) ==
    IF held[r] = 0
    THEN UNCHANGED poolVars
    ELSE /\ free' = free + held[r]
         /\ held' = [held EXCEPT ![r] = 0]
         /\ swapped' = [swapped EXCEPT ![r] = held[r]]

\* swap_in returns True exactly when this holds.
CanSwapIn(r) == 0 < swapped[r] /\ swapped[r] <= free

\* swap_in, when it returns True.  The new table REPLACES the old one: blocks
\* allocated to r while it was swapped out are no longer counted anywhere.
PoolSwapIn(r) ==
    /\ CanSwapIn(r)
    /\ free' = free - swapped[r]
    /\ held' = [held EXCEPT ![r] = swapped[r]]
    /\ swapped' = [swapped EXCEPT ![r] = 0]

PoolNext ==
    \E r \in Requests :
        \/ \E k \in 1..NumBlocks : PoolAllocate(r, k)
        \/ PoolFree(r)
        \/ PoolSwapOut(r)
        \/ PoolSwapIn(r)

PoolSpec == PoolInit /\ [][PoolNext]_poolVars

=============================================================================
