---------------------------- MODULE PagedKVCache ----------------------------
(***************************************************************************)
(* The paged KV-cache of engine/kv_cache.py, block by block: the pool      *)
(* tensor, the set of free blocks, the block table and the CPU swap copy   *)
(* of every request, and the metadata that records how far a block is      *)
(* filled.  The tensor is abstracted to what isolation needs: a slot of a  *)
(* block holds Zero or the pair <<request, position>> last stored there    *)
(* (one layer, K and V written together).                                  *)
(*                                                                         *)
(* The cache is a passive object: its operations may be called in any      *)
(* order, for any request, by the scheduler and by the workers that use    *)
(* it, so Next lets every call happen in every state.  A call that returns *)
(* early or raises before it assigns anything is a stuttering step.        *)
(*                                                                         *)
(* A definition whose name ends in _<Defect> is its neighbour with a       *)
(* plausible bug; it is used only to show that a property notices the bug. *)
(***************************************************************************)
EXTENDS Naturals, Sequences, FiniteSets, Functions

CONSTANTS
    Requests,    \* request identifiers
    Blocks,      \* block identifiers, range(num_blocks)
    BlockSize,   \* tokens per block
    MaxTokens,   \* bound: positions are 0..MaxTokens-1, one call asks for at most MaxTokens
    Zero         \* the content of a zeroed slot

Positions == 0..(MaxTokens - 1)
Slots == 0..(BlockSize - 1)
Entries == Requests \X Positions
BlockContents == [Slots -> Entries \cup {Zero}]

ASSUME CacheAssumption ==
    /\ IsFiniteSet(Blocks)
    /\ BlockSize \in Nat \ {0}
    /\ MaxTokens \in Nat
    /\ Zero \notin Requests \X Nat

VARIABLES
    free_blocks,     \* set of free block ids
    block_tables,    \* request -> sequence of block ids; only known requests
    block_metadata,  \* block -> num_tokens_filled; only blocks that have metadata
    swap_space,      \* request -> sequence of block contents; only swapped requests
    kv_pool          \* block -> its slots

vars == <<free_blocks, block_tables, block_metadata, swap_space, kv_pool>>

-----------------------------------------------------------------------------
(* Helpers. *)

\* A dictionary with the keys K bound to v.
Bind(dict, K, v) == [x \in DOMAIN dict \cup K |-> IF x \in K THEN v ELSE dict[x]]

Unbind_Forgotten(dict, K) == dict

\* A dictionary without the keys K.
Unbind(dict, K) == Restrict(dict, DOMAIN dict \ K)

ZeroBlock == [o \in Slots |-> Zero]

TableOf(r) == IF r \in DOMAIN block_tables THEN block_tables[r] ELSE <<>>
SwapOf(r) == IF r \in DOMAIN swap_space THEN swap_space[r] ELSE <<>>

\* The ceiling division of can_allocate, allocate and the scheduler's estimate.
BlocksFor(num_tokens) == (num_tokens + BlockSize - 1) \div BlockSize

can_allocate(num_tokens) == BlocksFor(num_tokens) <= Cardinality(free_blocks)

Popped_Any(k) == {s \in [1..k -> Blocks] : IsInjective(s)}

\* set.pop() returns an arbitrary element: popping k blocks one after the other
\* yields any sequence of k different free blocks.
Popped(k) == {s \in [1..k -> free_blocks] : IsInjective(s)}

\* Metadata of blocks just popped.
MetaOnAllocate == 0
MetaOnSwapIn_Zero == 0
MetaOnSwapIn == BlockSize

Zeroed_Forgotten(B) == kv_pool

\* The pool with the blocks B zeroed.
Zeroed(B) == [b \in Blocks |-> IF b \in B THEN ZeroBlock ELSE kv_pool[b]]

FilledAfter_OffByOne(b, o) == IF block_metadata[b] > o THEN block_metadata[b] ELSE o + 2

\* num_tokens_filled of block b once offset o has been written.
FilledAfter(b, o) == IF block_metadata[b] > o THEN block_metadata[b] ELSE o + 1

BlockIndex_OffByOne(pos) == ((pos + 1) \div BlockSize) + 1

\* Where a position lives: index into the (1-based) table, and slot.
BlockIndex(pos) == (pos \div BlockSize) + 1
Offset(pos) == pos % BlockSize

\* The last block of r has room according to its metadata.
LastBlockHasSpace(r) ==
    LET last == block_tables[r][Len(block_tables[r])]
    IN  last \in DOMAIN block_metadata /\ block_metadata[last] < BlockSize

Returned_AllButLast(blocks) ==
    {blocks[k] : k \in 1..(Len(blocks) - 1)} \cap DOMAIN block_metadata

Returned_Nothing(blocks) == {}

\* What free gives back: a block whose reference count drops to 0.  The count
\* is set to 1 when the block is popped and nothing ever raises it.
Returned(blocks) == {b \in Range(blocks) : b \in DOMAIN block_metadata}

Restored_Reversed(data, s, b) == data[Len(s) + 1 - CHOOSE k \in DOMAIN s : s[k] = b]

\* The copy that swap_in puts into block b when it popped the blocks s.
Restored(data, s, b) == data[CHOOSE k \in DOMAIN s : s[k] = b]

\* What get_kv_for_request reads: of every block of the table, in order, the
\* first num_tokens_filled slots.
TokensInBlock(b) == IF b \in DOMAIN block_metadata THEN block_metadata[b] ELSE BlockSize
GetKV(r) ==
    [k \in DOMAIN TableOf(r) |->
        Restrict(kv_pool[TableOf(r)[k]], 0..(TokensInBlock(TableOf(r)[k]) - 1))]

-----------------------------------------------------------------------------
(* Operations. *)

Init ==
    /\ free_blocks = Blocks
    /\ block_tables = <<>>
    /\ block_metadata = <<>>
    /\ swap_space = <<>>
    /\ kv_pool = [b \in Blocks |-> ZeroBlock]

AllocateBlocks_StaysFree(r, s) ==
    /\ free_blocks' = free_blocks
    /\ block_metadata' = Bind(block_metadata, Range(s), MetaOnAllocate)
    /\ block_tables' = Bind(block_tables, {r}, TableOf(r) \o s)

\* The body shared by every call of allocate: s are the popped blocks.
AllocateBlocks(r, s) ==
    /\ free_blocks' = free_blocks \ Range(s)
    /\ block_metadata' = Bind(block_metadata, Range(s), MetaOnAllocate)
    /\ block_tables' = Bind(block_tables, {r}, TableOf(r) \o s)

\* allocate(r, n): raises when the blocks do not suffice; n = 0 leaves an
\* empty table behind.
Allocate(r, n) ==
    /\ can_allocate(n)
    /\ \E s \in Popped(BlocksFor(n)) : AllocateBlocks(r, s)
    /\ UNCHANGED <<swap_space, kv_pool>>

\* extend(r, n): a request without blocks allocates for n tokens; otherwise one
\* more block, unless the last block has space.
Extend(r, n) ==
    IF TableOf(r) = <<>>
    THEN Allocate(r, n)
    ELSE ~LastBlockHasSpace(r) /\ Allocate(r, BlockSize)

\* free(r)
Free(r) ==
    /\ r \in DOMAIN block_tables
    /\ LET back == Returned(block_tables[r])
       IN  /\ kv_pool' = Zeroed(back)
           /\ free_blocks' = free_blocks \cup back
           /\ block_metadata' = Unbind(block_metadata, back)
    /\ block_tables' = Unbind(block_tables, {r})
    /\ swap_space' = Unbind(swap_space, {r})

\* swap_out(r): r stays known, with an empty table.  An empty table makes
\* torch.stack raise before any assignment.
SwapOut(r) ==
    /\ r \in DOMAIN block_tables
    /\ block_tables[r] # <<>>
    /\ LET blocks == block_tables[r]
       IN  /\ swap_space' = Bind(swap_space, {r},
                                 [k \in DOMAIN blocks |-> kv_pool[blocks[k]]])
           /\ kv_pool' = Zeroed(Range(blocks))
           /\ free_blocks' = free_blocks \cup Range(blocks)
           /\ block_metadata' = Unbind(block_metadata, Range(blocks))
    /\ block_tables' = Bind(block_tables, {r}, <<>>)

\* swap_in(r), when it returns True: the copy goes to freshly popped blocks,
\* each marked full, and the new table replaces the old one.
SwapIn(r) ==
    /\ r \in DOMAIN swap_space
    /\ Len(swap_space[r]) <= Cardinality(free_blocks)
    /\ \E s \in Popped(Len(swap_space[r])) :
        /\ free_blocks' = free_blocks \ Range(s)
        /\ kv_pool' = [b \in Blocks |->
                         IF b \in Range(s)
                         THEN Restored(swap_space[r], s, b)
                         ELSE kv_pool[b]]
        /\ block_metadata' = Bind(block_metadata, Range(s), MetaOnSwapIn)
        /\ block_tables' = Bind(block_tables, {r}, s)
    /\ swap_space' = Unbind(swap_space, {r})

\* Writing one token of r into its slot of block b.
Write(r, pos, b) == kv_pool' = [kv_pool EXCEPT ![b][Offset(pos)] = <<r, pos>>]

\* store_kv(r, pos).  A position past the table allocates ONE block; when that
\* is not enough the lookup blocks[block_idx] raises IndexError and the block
\* stays allocated.
StoreKV(r, pos) ==
    /\ r \in DOMAIN block_tables
    /\ LET idx == BlockIndex(pos)
           len == Len(block_tables[r])
       IN  \/ /\ idx <= len
              /\ LET b == block_tables[r][idx]
                 IN  /\ Write(r, pos, b)
                     /\ block_metadata' = Bind(block_metadata, {b} \cap DOMAIN block_metadata,
                                               FilledAfter(b, Offset(pos)))
              /\ UNCHANGED <<free_blocks, block_tables, swap_space>>
           \/ /\ idx = len + 1
              /\ \E b \in free_blocks :
                    /\ Write(r, pos, b)
                    /\ block_metadata' = Bind(block_metadata, {b}, Offset(pos) + 1)
                    /\ free_blocks' = free_blocks \ {b}
                    /\ block_tables' = Bind(block_tables, {r}, Append(block_tables[r], b))
              /\ UNCHANGED swap_space
           \/ /\ idx > len + 1
              /\ Allocate(r, BlockSize)

Next ==
    \E r \in Requests :
        \/ \E n \in 0..MaxTokens : Allocate(r, n)
        \/ \E n \in 1..MaxTokens : Extend(r, n)
        \/ Free(r)
        \/ SwapOut(r)
        \/ SwapIn(r)
        \/ \E pos \in Positions : StoreKV(r, pos)

Spec == Init /\ [][Next]_vars

-----------------------------------------------------------------------------
(* Properties. *)

\* The types of the five dictionaries of PagedKVCache.__init__.
TypeOK ==
    /\ free_blocks \subseteq Blocks
    /\ DOMAIN block_tables \subseteq Requests
    /\ \A r \in DOMAIN block_tables : block_tables[r] \in Seq(Blocks)
    /\ DOMAIN block_metadata \subseteq Blocks
    /\ \A b \in DOMAIN block_metadata : block_metadata[b] \in 0..BlockSize
    /\ DOMAIN swap_space \subseteq Requests
    /\ \A r \in DOMAIN swap_space : swap_space[r] \in Seq(BlockContents)
    /\ kv_pool \in [Blocks -> BlockContents]

\* A block has at most one user: it is in at most one table, once, and a block
\* in a table is not free.  Two requests that share a block read each other's
\* tokens; a block both free and in a table will be shared after the next pop.
OneOwner ==
    /\ \A r, q \in DOMAIN block_tables :
         \A i \in DOMAIN block_tables[r], j \in DOMAIN block_tables[q] :
            block_tables[r][i] = block_tables[q][j] => r = q /\ i = j
    /\ \A r \in DOMAIN block_tables : Range(block_tables[r]) \cap free_blocks = {}

\* Exactly the blocks that are not free have metadata, whatever path they took
\* (allocate, extend, swap_in, the allocation inside store_kv).  free returns
\* only blocks with metadata, so one without it would never come back.
MetadataIffUsed == DOMAIN block_metadata = Blocks \ free_blocks

\* No token survives in a free block: the next owner starts from zeroes.
FreeBlocksZeroed == \A b \in free_blocks : kv_pool[b] = ZeroBlock

\* The k-th block of r holds only r's tokens of the k-th range of positions,
\* each in its slot, on the GPU and in the swap copy, through any history of
\* swaps, reallocations and stores.
Isolation ==
    /\ \A r \in DOMAIN block_tables : \A k \in DOMAIN block_tables[r], o \in Slots :
         kv_pool[block_tables[r][k]][o] \in {Zero, <<r, (k - 1) * BlockSize + o>>}
    /\ \A r \in DOMAIN swap_space : \A k \in DOMAIN swap_space[r], o \in Slots :
         swap_space[r][k][o] \in {Zero, <<r, (k - 1) * BlockSize + o>>}

\* get_kv_for_request returns every token stored in the table: none is hidden
\* behind a num_tokens_filled that is too small.
ReadsEveryToken ==
    \A r \in Requests : \A k \in DOMAIN GetKV(r), o \in Slots :
        kv_pool[TableOf(r)[k]][o] # Zero => o \in DOMAIN GetKV(r)[k]

\* The gathered contents of r's blocks, as swap_out copies them.
View(r) == [k \in DOMAIN TableOf(r) |-> kv_pool[TableOf(r)[k]]]

\* A call for one request never changes what another request has on the GPU
\* or in its swap copy.
OthersUntouched ==
    [][\E r \in Requests : \A q \in Requests \ {r} :
          View(q)' = View(q) /\ SwapOf(q)' = SwapOf(q)]_vars

\* Swapping loses nothing: the copy a swap_out leaves is what the table showed,
\* and what a swap_in restores is what the copy held, block by block.
SwapKeepsData ==
    [][\A r \in Requests :
          /\ TableOf(r) # <<>> /\ SwapOf(r)' # SwapOf(r) /\ SwapOf(r)' # <<>>
                => SwapOf(r)' = View(r)
          /\ SwapOf(r) # <<>> /\ SwapOf(r)' = <<>> /\ r \in (DOMAIN block_tables)'
                => View(r)' = SwapOf(r)]_vars

\* Blocks that are neither free nor in a table.
Leaked == {b \in Blocks \ free_blocks :
             \A r \in DOMAIN block_tables : b \notin Range(block_tables[r])}

\* Blocks drop out of the accounting in one way only: swap_in assigns a new
\* table over one that was extended while the request was swapped out.
LeakOnlyByOverwrite ==
    [][\/ Leaked' = Leaked
       \/ \E r \in DOMAIN swap_space :
             /\ TableOf(r) # <<>>
             /\ r \notin (DOMAIN swap_space)'
             /\ Leaked' = Leaked \cup Range(TableOf(r))]_vars

\* The cache implements the pool of counts the scheduler relies on.
Pool == INSTANCE BlockPool WITH
    NumBlocks <- Cardinality(Blocks),
    free <- Cardinality(free_blocks),
    held <- [r \in Requests |-> Len(TableOf(r))],
    swapped <- [r \in Requests |-> Len(SwapOf(r))]

ImplementsPool == Pool!PoolSpec

=============================================================================
