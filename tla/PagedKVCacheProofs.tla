-------------------------- MODULE PagedKVCacheProofs --------------------------
(***************************************************************************)
(* Machine-checked proofs about PagedKVCache, for every value of its       *)
(* constants: any requests, any number of blocks of any size.              *)
(***************************************************************************)
EXTENDS PagedKVCache, SequenceTheorems, FunctionTheorems, FiniteSetTheorems, TLAPS

-----------------------------------------------------------------------------
(* Dictionaries, popped blocks, positions. *)

\* How many blocks a call asks for is a number: BlockSize is not 0.
LEMMA BlocksForType ==
    ASSUME NEW n \in Nat
    PROVE  BlocksFor(n) \in Nat
<1>1. PICK b \in Nat \ {0} : b = BlockSize
  BY CacheAssumption
<1>2. PICK m \in Nat : m = n + b - 1
  BY <1>1
<1>3. m \div b \in Nat
  BY <1>1, <1>2
<1>4. QED
  BY <1>1, <1>2, <1>3 DEF BlocksFor

\* k blocks popped one after the other are k different free blocks.
LEMMA PoppedFacts ==
    ASSUME free_blocks \subseteq Blocks, NEW k \in Nat, NEW s \in Popped(k)
    PROVE  /\ s \in Seq(Blocks)
           /\ s \in Seq(free_blocks)
           /\ Len(s) = k
           /\ DOMAIN s = 1..k
           /\ \A i \in 1..k : s[i] \in free_blocks
           /\ \A i, j \in 1..k : s[i] = s[j] => i = j
           /\ Range(s) \subseteq free_blocks
BY DEF Popped, IsInjective, Range

\* A position is found again from the index of its block and its offset.
LEMMA PositionFacts ==
    ASSUME NEW pos \in Nat
    PROVE  /\ Offset(pos) \in Slots
           /\ BlockIndex(pos) \in Nat \ {0}
           /\ pos = (BlockIndex(pos) - 1) * BlockSize + Offset(pos)
<1>1. PICK b \in Nat \ {0} : b = BlockSize
  BY CacheAssumption
<1>2. PICK q \in Nat : q = pos \div b
  BY <1>1
<1>3. PICK o \in 0..(b - 1) : o = pos % b
  BY <1>1
<1>4. pos = q * b + o
  BY <1>1, <1>2, <1>3
<1>5. Offset(pos) = o /\ BlockIndex(pos) = q + 1
  BY <1>1, <1>2, <1>3 DEF Offset, BlockIndex
<1>6. (q + 1) - 1 = q
  BY <1>2
<1>7. QED
  BY <1>1, <1>4, <1>5, <1>6 DEF Slots

-----------------------------------------------------------------------------
(* The inductive invariant. *)

\* A token is never beyond the filled part of its block: what a read of the
\* first num_tokens_filled slots leaves out is Zero.
Covered ==
    \A b \in DOMAIN block_metadata, o \in Slots :
        kv_pool[b][o] # Zero => o < block_metadata[b]

\* swap_out copies at least one block, so an entry of swap_space is never empty.
SwapNonEmpty == \A r \in DOMAIN swap_space : swap_space[r] # <<>>

IInv ==
    /\ TypeOK
    /\ OneOwner
    /\ MetadataIffUsed
    /\ FreeBlocksZeroed
    /\ Isolation
    /\ Covered
    /\ SwapNonEmpty

-----------------------------------------------------------------------------
(* Six kinds of step: every disjunct of Next is one of them. *)

\* The blocks s, popped from the free set, go to the end of the table of r.
Appends(r, s) ==
    /\ s \in Popped(Len(s))
    /\ Len(s) \in Nat
    /\ free_blocks' = free_blocks \ Range(s)
    /\ block_tables' = Bind(block_tables, {r}, TableOf(r) \o s)
    /\ swap_space' = swap_space

\* allocate, extend, and store_kv when it raises IndexError.
Grows(r, s) ==
    /\ Appends(r, s)
    /\ block_metadata' = Bind(block_metadata, Range(s), 0)
    /\ kv_pool' = kv_pool

\* store_kv into a block of the table.
WritesOld(r, pos) ==
    /\ r \in DOMAIN block_tables
    /\ BlockIndex(pos) \in DOMAIN block_tables[r]
    /\ Write(r, pos, block_tables[r][BlockIndex(pos)])
    /\ LET b == block_tables[r][BlockIndex(pos)]
       IN  block_metadata' = Bind(block_metadata, {b} \cap DOMAIN block_metadata,
                                  FilledAfter(b, Offset(pos)))
    /\ UNCHANGED <<free_blocks, block_tables, swap_space>>

\* store_kv into the block it appends to the table.
WritesNew(r, pos, b) ==
    /\ r \in DOMAIN block_tables
    /\ BlockIndex(pos) = Len(block_tables[r]) + 1
    /\ b \in free_blocks
    /\ Appends(r, <<b>>)
    /\ Write(r, pos, b)
    /\ block_metadata' = Bind(block_metadata, {b}, Offset(pos) + 1)

\* swap_in, with the blocks s it popped.
Restores(r, s) ==
    /\ r \in DOMAIN swap_space
    /\ Len(swap_space[r]) = Len(s)
    /\ s \in Popped(Len(s))
    /\ Len(s) \in Nat
    /\ free_blocks' = free_blocks \ Range(s)
    /\ kv_pool' = [b \in Blocks |->
                     IF b \in Range(s) THEN Restored(swap_space[r], s, b) ELSE kv_pool[b]]
    /\ block_metadata' = Bind(block_metadata, Range(s), BlockSize)
    /\ block_tables' = Bind(block_tables, {r}, s)
    /\ swap_space' = Unbind(swap_space, {r})

StepOf(r) ==
    \/ \E s \in Seq(Blocks) : Grows(r, s)
    \/ \E pos \in Positions : WritesOld(r, pos)
    \/ \E pos \in Positions, b \in Blocks : WritesNew(r, pos, b)
    \/ Free(r)
    \/ SwapOut(r)
    \/ \E s \in Seq(Blocks) : Restores(r, s)

LEMMA TableType ==
    ASSUME TypeOK, NEW r
    PROVE  /\ TableOf(r) \in Seq(Blocks)
           /\ Len(TableOf(r)) \in Nat
           /\ DOMAIN TableOf(r) = 1..Len(TableOf(r))
           /\ \A k \in DOMAIN TableOf(r) : TableOf(r)[k] \in Blocks
<1>1. TableOf(r) \in Seq(Blocks)
  BY EmptySeq DEF TypeOK, TableOf
<1>2. QED
  BY <1>1, LenProperties, ElementOfSeq

LEMMA AllocateGrows ==
    ASSUME TypeOK, NEW r \in Requests, NEW n \in Nat, Allocate(r, n)
    PROVE  \E s \in Popped(BlocksFor(n)) : s \in Seq(Blocks) /\ Grows(r, s)
<1>1. PICK s \in Popped(BlocksFor(n)) : AllocateBlocks(r, s)
  BY DEF Allocate
<1>2. BlocksFor(n) \in Nat
  BY BlocksForType
<1>3. s \in Seq(Blocks) /\ Len(s) = BlocksFor(n)
  BY <1>2, PoppedFacts DEF TypeOK
<1>4. Appends(r, s)
  BY <1>1, <1>2, <1>3 DEF Appends, AllocateBlocks, Allocate
<1>5. Grows(r, s)
  BY <1>1, <1>4 DEF Grows, AllocateBlocks, Allocate, MetaOnAllocate
<1>6. QED
  BY <1>3, <1>5

LEMMA StoreKVKinds ==
    ASSUME TypeOK, NEW r \in Requests, NEW pos \in Positions, StoreKV(r, pos)
    PROVE  \/ \E s \in Seq(Blocks) : Grows(r, s)
           \/ WritesOld(r, pos)
           \/ \E b \in Blocks : WritesNew(r, pos, b)
<1> DEFINE idx == BlockIndex(pos)
           len == Len(block_tables[r])
<1>1. r \in DOMAIN block_tables /\ block_tables[r] \in Seq(Blocks)
  BY DEF StoreKV, TypeOK
<1>2. len \in Nat /\ DOMAIN block_tables[r] = 1..len
  BY <1>1, LenProperties
<1>3. idx \in Nat \ {0}
  BY PositionFacts, CacheAssumption DEF Positions
<1>4. CASE /\ idx <= len
           /\ Write(r, pos, block_tables[r][idx])
           /\ block_metadata' = Bind(block_metadata,
                                     {block_tables[r][idx]} \cap DOMAIN block_metadata,
                                     FilledAfter(block_tables[r][idx], Offset(pos)))
           /\ UNCHANGED <<free_blocks, block_tables, swap_space>>
  <2>1. idx \in DOMAIN block_tables[r]
    BY <1>2, <1>3, <1>4
  <2>2. QED
    BY <1>1, <1>4, <2>1 DEF WritesOld
<1>5. ASSUME idx = len + 1,
             NEW b \in free_blocks,
             Write(r, pos, b),
             block_metadata' = Bind(block_metadata, {b}, Offset(pos) + 1),
             free_blocks' = free_blocks \ {b},
             block_tables' = Bind(block_tables, {r}, Append(block_tables[r], b)),
             UNCHANGED swap_space
      PROVE  b \in Blocks /\ WritesNew(r, pos, b)
  <2>1. b \in Blocks
    BY DEF TypeOK
  <2>2. /\ <<b>> \in Popped(1)
        /\ Len(<<b>>) = 1
        /\ Range(<<b>>) = {b}
    BY DEF Popped, IsInjective, Range
  <2>3. Append(block_tables[r], b) = TableOf(r) \o <<b>>
    BY <1>1, <2>1, AppendIsConcat DEF TableOf
  <2>4. Appends(r, <<b>>)
    BY <1>5, <2>2, <2>3 DEF Appends
  <2>5. QED
    BY <1>1, <1>5, <2>1, <2>4 DEF WritesNew
<1>6. CASE idx > len + 1 /\ Allocate(r, BlockSize)
  BY <1>6, AllocateGrows, CacheAssumption
<1>7. QED
  BY <1>4, <1>5, <1>6 DEF StoreKV

LEMMA SwapInRestores ==
    ASSUME TypeOK, NEW r \in Requests, SwapIn(r)
    PROVE  \E s \in Seq(Blocks) : Restores(r, s)
<1>1. swap_space[r] \in Seq(BlockContents) /\ Len(swap_space[r]) \in Nat
  BY LenProperties DEF TypeOK, SwapIn
<1>2. PICK s \in Popped(Len(swap_space[r])) :
        /\ free_blocks' = free_blocks \ Range(s)
        /\ kv_pool' = [b \in Blocks |->
                         IF b \in Range(s)
                         THEN Restored(swap_space[r], s, b)
                         ELSE kv_pool[b]]
        /\ block_metadata' = Bind(block_metadata, Range(s), MetaOnSwapIn)
        /\ block_tables' = Bind(block_tables, {r}, s)
  BY DEF SwapIn
<1>3. s \in Seq(Blocks) /\ Len(s) = Len(swap_space[r])
  BY <1>1, PoppedFacts DEF TypeOK
<1>4. Restores(r, s)
  BY <1>1, <1>2, <1>3 DEF Restores, SwapIn, MetaOnSwapIn
<1>5. QED
  BY <1>3, <1>4

LEMMA NextKinds ==
    ASSUME TypeOK, Next
    PROVE  \E r \in Requests : StepOf(r)
<1>1. ASSUME NEW r \in Requests, NEW n \in Nat, Allocate(r, n)
      PROVE  StepOf(r)
  BY <1>1, AllocateGrows DEF StepOf
<1>2. ASSUME NEW r \in Requests, NEW n \in Nat, Extend(r, n)
      PROVE  StepOf(r)
  BY <1>1, <1>2, CacheAssumption DEF Extend
<1>3. ASSUME NEW r \in Requests, NEW pos \in Positions, StoreKV(r, pos)
      PROVE  StepOf(r)
  BY <1>3, StoreKVKinds DEF StepOf
<1>4. ASSUME NEW r \in Requests, SwapIn(r)
      PROVE  StepOf(r)
  BY <1>4, SwapInRestores DEF StepOf
<1>5. ASSUME NEW r \in Requests, Free(r) \/ SwapOut(r)
      PROVE  StepOf(r)
  BY <1>5 DEF StepOf
<1>6. (0..MaxTokens) \subseteq Nat /\ (1..MaxTokens) \subseteq Nat
  BY CacheAssumption
<1>7. QED
  BY <1>1, <1>2, <1>3, <1>4, <1>5, <1>6 DEF Next

-----------------------------------------------------------------------------
(* What each kind of step does, in terms of single blocks and slots. *)

LEMMA AppendsFacts ==
    ASSUME TypeOK, NEW r, NEW s \in Seq(Blocks), Appends(r, s)
    PROVE  /\ DOMAIN block_tables' = DOMAIN block_tables \cup {r}
           /\ \A q \in DOMAIN block_tables \ {r} : block_tables'[q] = block_tables[q]
           /\ TableOf(r)' = block_tables'[r]
           /\ TableOf(r)' \in Seq(Blocks)
           /\ Len(TableOf(r)') = Len(TableOf(r)) + Len(s)
           /\ DOMAIN TableOf(r)' = 1..(Len(TableOf(r)) + Len(s))
           /\ \A k \in 1..Len(TableOf(r)) : TableOf(r)'[k] = TableOf(r)[k]
           /\ \A k \in 1..Len(s) : TableOf(r)'[Len(TableOf(r)) + k] = s[k]
<1> DEFINE t == TableOf(r)
<1>1. t \in Seq(Blocks) /\ Len(t) \in Nat /\ Len(s) \in Nat
  BY TableType DEF Appends
<1>2. /\ DOMAIN block_tables' = DOMAIN block_tables \cup {r}
      /\ block_tables'[r] = t \o s
      /\ \A q \in DOMAIN block_tables \ {r} : block_tables'[q] = block_tables[q]
  BY DEF Appends, Bind
<1>3. TableOf(r)' = block_tables'[r]
  BY <1>2 DEF TableOf
<1>4. /\ t \o s \in Seq(Blocks)
      /\ Len(t \o s) = Len(t) + Len(s)
      /\ \A i \in 1..(Len(t) + Len(s)) :
            (t \o s)[i] = IF i <= Len(t) THEN t[i] ELSE s[i - Len(t)]
  BY <1>1, ConcatProperties
<1>5. PICK u \in Seq(Blocks) : u = t \o s
  BY <1>4
<1>6. DOMAIN u = 1..(Len(t) + Len(s))
  BY <1>4, <1>5, LenProperties
<1>7. \A k \in 1..Len(t) : u[k] = t[k]
  BY <1>1, <1>4, <1>5
<1>8. \A k \in 1..Len(s) : u[Len(t) + k] = s[k]
  BY <1>1, <1>4, <1>5
<1>9. TableOf(r)' = u
  BY <1>2, <1>3, <1>5
<1>10. QED
  BY <1>2, <1>3, <1>4, <1>5, <1>6, <1>7, <1>8, <1>9

\* Writing changes one slot of one block.
LEMMA WriteFacts ==
    ASSUME TypeOK, NEW r \in Requests, NEW pos \in Positions, NEW b \in Blocks,
           Write(r, pos, b)
    PROVE  /\ Offset(pos) \in Slots
           /\ kv_pool' \in [Blocks -> BlockContents]
           /\ \A c \in Blocks \ {b} : kv_pool'[c] = kv_pool[c]
           /\ \A o \in Slots \ {Offset(pos)} : kv_pool'[b][o] = kv_pool[b][o]
           /\ kv_pool'[b][Offset(pos)] = <<r, pos>>
<1>1. Offset(pos) \in Slots
  BY PositionFacts, CacheAssumption DEF Positions
<1>2. <<r, pos>> \in Entries \cup {Zero}
  BY DEF Entries
<1>3. PICK o \in Slots : o = Offset(pos)
  BY <1>1
<1>4. PICK e \in Entries \cup {Zero} : e = <<r, pos>>
  BY <1>2
<1>5. kv_pool \in [Blocks -> [Slots -> Entries \cup {Zero}]]
  BY DEF TypeOK, BlockContents
<1>6. kv_pool' = [kv_pool EXCEPT ![b][o] = e]
  BY <1>3, <1>4 DEF Write
<1>7. /\ kv_pool' \in [Blocks -> [Slots -> Entries \cup {Zero}]]
      /\ \A c \in Blocks \ {b} : kv_pool'[c] = kv_pool[c]
      /\ \A p \in Slots \ {o} : kv_pool'[b][p] = kv_pool[b][p]
      /\ kv_pool'[b][o] = e
  BY <1>5, <1>6
<1>8. QED
  BY <1>1, <1>3, <1>4, <1>7 DEF BlockContents

\* free and swap_out return every block of the table: each has metadata.
LEMMA ReturnedIsRange ==
    ASSUME TypeOK, OneOwner, MetadataIffUsed, NEW r \in DOMAIN block_tables
    PROVE  /\ Returned(block_tables[r]) = Range(block_tables[r])
           /\ Range(block_tables[r]) \subseteq DOMAIN block_metadata
           /\ Range(block_tables[r]) \subseteq Blocks
<1>1. Range(block_tables[r]) \subseteq Blocks
  BY RangeOfSeq DEF TypeOK
<1>2. Range(block_tables[r]) \cap free_blocks = {}
  BY DEF OneOwner
<1>3. QED
  BY <1>1, <1>2 DEF MetadataIffUsed, Returned

\* Free and SwapOut: the blocks B go back, zeroed and without metadata.
Returns(B) ==
    /\ kv_pool' = Zeroed(B)
    /\ free_blocks' = free_blocks \cup B
    /\ block_metadata' = Unbind(block_metadata, B)

LEMMA FreeFacts ==
    ASSUME TypeOK, OneOwner, MetadataIffUsed, NEW r, Free(r)
    PROVE  /\ r \in DOMAIN block_tables
           /\ TableOf(r) = block_tables[r]
           /\ Returns(Range(TableOf(r)))
           /\ DOMAIN block_tables' = DOMAIN block_tables \ {r}
           /\ \A q \in DOMAIN block_tables \ {r} : block_tables'[q] = block_tables[q]
           /\ TableOf(r)' = <<>>
           /\ DOMAIN swap_space' = DOMAIN swap_space \ {r}
           /\ \A q \in DOMAIN swap_space \ {r} : swap_space'[q] = swap_space[q]
<1>1. r \in DOMAIN block_tables /\ TableOf(r) = block_tables[r]
  BY DEF Free, TableOf
<1>2. Returns(Range(TableOf(r)))
  BY <1>1, ReturnedIsRange DEF Free, Returns
<1>3. /\ DOMAIN block_tables' = DOMAIN block_tables \ {r}
      /\ \A q \in DOMAIN block_tables \ {r} : block_tables'[q] = block_tables[q]
  BY DEF Free, Unbind, Restrict
<1>4. /\ DOMAIN swap_space' = DOMAIN swap_space \ {r}
      /\ \A q \in DOMAIN swap_space \ {r} : swap_space'[q] = swap_space[q]
  BY DEF Free, Unbind, Restrict
<1>5. TableOf(r)' = <<>>
  BY <1>3 DEF TableOf
<1>6. QED
  BY <1>1, <1>2, <1>3, <1>4, <1>5

LEMMA SwapOutFacts ==
    ASSUME TypeOK, NEW r, SwapOut(r)
    PROVE  /\ r \in DOMAIN block_tables
           /\ TableOf(r) = block_tables[r]
           /\ TableOf(r) # <<>>
           /\ Returns(Range(TableOf(r)))
           /\ DOMAIN block_tables' = DOMAIN block_tables \cup {r}
           /\ \A q \in DOMAIN block_tables \ {r} : block_tables'[q] = block_tables[q]
           /\ block_tables'[r] = <<>>
           /\ TableOf(r)' = <<>>
           /\ DOMAIN swap_space' = DOMAIN swap_space \cup {r}
           /\ \A q \in DOMAIN swap_space \ {r} : swap_space'[q] = swap_space[q]
           /\ swap_space'[r] = View(r)
<1>1. r \in DOMAIN block_tables /\ TableOf(r) = block_tables[r] /\ TableOf(r) # <<>>
  BY DEF SwapOut, TableOf
<1>2. Returns(Range(TableOf(r)))
  BY <1>1 DEF SwapOut, Returns
<1>3. /\ DOMAIN block_tables' = DOMAIN block_tables \cup {r}
      /\ \A q \in DOMAIN block_tables \ {r} : block_tables'[q] = block_tables[q]
      /\ block_tables'[r] = <<>>
  BY DEF SwapOut, Bind
<1>4. TableOf(r)' = <<>>
  BY <1>3 DEF TableOf
<1>5. swap_space' = Bind(swap_space, {r}, View(r))
  BY <1>1 DEF SwapOut, View
<1>6. /\ DOMAIN swap_space' = DOMAIN swap_space \cup {r}
      /\ \A q \in DOMAIN swap_space \ {r} : swap_space'[q] = swap_space[q]
      /\ swap_space'[r] = View(r)
  BY <1>5 DEF Bind
<1>7. QED
  BY <1>1, <1>2, <1>3, <1>4, <1>6

LEMMA ViewFacts ==
    ASSUME TypeOK, NEW r
    PROVE  /\ View(r) \in Seq(BlockContents)
           /\ DOMAIN View(r) = DOMAIN TableOf(r)
           /\ Len(View(r)) = Len(TableOf(r))
           /\ \A k \in DOMAIN TableOf(r) : View(r)[k] = kv_pool[TableOf(r)[k]]
<1>1. /\ Len(TableOf(r)) \in Nat
      /\ DOMAIN TableOf(r) = 1..Len(TableOf(r))
      /\ \A k \in DOMAIN TableOf(r) : TableOf(r)[k] \in Blocks
  BY TableType
<1>2. \A b \in Blocks : kv_pool[b] \in BlockContents
  BY DEF TypeOK
<1>3. PICK n \in Nat : n = Len(TableOf(r))
  BY <1>1
<1>4. PICK v : v = View(r)
  OBVIOUS
<1>5. v \in [1..n -> BlockContents]
  BY <1>1, <1>2, <1>3, <1>4 DEF View
<1>6. v \in Seq(BlockContents) /\ Len(v) = n /\ DOMAIN v = 1..n
  BY <1>5
<1>7. QED
  BY <1>1, <1>3, <1>4, <1>6 DEF View

\* swap_in puts the k-th copy into the k-th popped block.
LEMMA RestoresFacts ==
    ASSUME TypeOK, NEW r, NEW s \in Seq(Blocks), Restores(r, s)
    PROVE  /\ r \in DOMAIN swap_space
           /\ Len(s) = Len(swap_space[r])
           /\ DOMAIN s = DOMAIN swap_space[r]
           /\ DOMAIN block_tables' = DOMAIN block_tables \cup {r}
           /\ \A q \in DOMAIN block_tables \ {r} : block_tables'[q] = block_tables[q]
           /\ block_tables'[r] = s
           /\ TableOf(r)' = s
           /\ DOMAIN swap_space' = DOMAIN swap_space \ {r}
           /\ \A q \in DOMAIN swap_space \ {r} : swap_space'[q] = swap_space[q]
           /\ kv_pool' \in [Blocks -> BlockContents]
           /\ \A b \in Blocks \ Range(s) : kv_pool'[b] = kv_pool[b]
           /\ \A k \in DOMAIN s : kv_pool'[s[k]] = swap_space[r][k]
<1>1. r \in DOMAIN swap_space /\ Len(s) = Len(swap_space[r])
  BY DEF Restores
<1>2. /\ swap_space[r] \in Seq(BlockContents)
      /\ DOMAIN s = 1..Len(s)
      /\ DOMAIN swap_space[r] = 1..Len(s)
      /\ \A k \in 1..Len(s) : swap_space[r][k] \in BlockContents
      /\ \A k \in 1..Len(s) : s[k] \in Blocks
  BY <1>1, LenProperties, ElementOfSeq DEF TypeOK
<1>3. /\ DOMAIN block_tables' = DOMAIN block_tables \cup {r}
      /\ \A q \in DOMAIN block_tables \ {r} : block_tables'[q] = block_tables[q]
      /\ block_tables'[r] = s
  BY DEF Restores, Bind
<1>4. TableOf(r)' = s
  BY <1>3 DEF TableOf
<1>5. /\ DOMAIN swap_space' = DOMAIN swap_space \ {r}
      /\ \A q \in DOMAIN swap_space \ {r} : swap_space'[q] = swap_space[q]
  BY DEF Restores, Unbind, Restrict
<1>6. \A i, j \in DOMAIN s : s[i] = s[j] => i = j
  BY DEF Restores, Popped, IsInjective
<1>7. \A k \in DOMAIN s : Restored(swap_space[r], s, s[k]) = swap_space[r][k]
  <2>1. TAKE k \in DOMAIN s
  <2>2. (CHOOSE i \in DOMAIN s : s[i] = s[k]) = k
    BY <1>6
  <2>3. QED
    BY <2>2 DEF Restored
<1>8. \A b \in Blocks :
        kv_pool'[b] = IF b \in Range(s) THEN Restored(swap_space[r], s, b) ELSE kv_pool[b]
  BY DEF Restores
<1>9. \A k \in DOMAIN s : kv_pool'[s[k]] = swap_space[r][k]
  BY <1>2, <1>7, <1>8 DEF Range
<1>10. \A b \in Blocks : kv_pool'[b] \in BlockContents
  BY <1>2, <1>8, <1>9 DEF Range, TypeOK
<1>11. kv_pool' \in [Blocks -> BlockContents]
  BY <1>10 DEF Restores
<1>12. \A b \in Blocks \ Range(s) : kv_pool'[b] = kv_pool[b]
  BY <1>8
<1>13. QED
  BY <1>1, <1>2, <1>3, <1>4, <1>5, <1>9, <1>11, <1>12

-----------------------------------------------------------------------------
(* A call for one request leaves the others alone. *)

\* The tables, the swap copies and the contents of the blocks of the other
\* requests stay, and none of their blocks becomes free.
OthersKept(r) ==
    /\ DOMAIN block_tables' \ {r} = DOMAIN block_tables \ {r}
    /\ \A q \in DOMAIN block_tables \ {r} : block_tables'[q] = block_tables[q]
    /\ DOMAIN swap_space' \ {r} = DOMAIN swap_space \ {r}
    /\ \A q \in DOMAIN swap_space \ {r} : swap_space'[q] = swap_space[q]
    /\ \A b \in Blocks : b \notin free_blocks /\ b \notin Range(TableOf(r)) =>
          kv_pool'[b] = kv_pool[b] /\ b \notin free_blocks'

LEMMA ReturnsFacts ==
    ASSUME NEW B \in SUBSET Blocks, Returns(B)
    PROVE  /\ kv_pool' = [b \in Blocks |-> IF b \in B THEN ZeroBlock ELSE kv_pool[b]]
           /\ free_blocks' = free_blocks \cup B
           /\ DOMAIN block_metadata' = DOMAIN block_metadata \ B
           /\ \A b \in DOMAIN block_metadata \ B : block_metadata'[b] = block_metadata[b]
BY DEF Returns, Zeroed, Unbind, Restrict

LEMMA StepKeepsOthers ==
    ASSUME TypeOK, OneOwner, MetadataIffUsed, NEW r \in Requests, StepOf(r)
    PROVE  OthersKept(r)
<1>1. Range(TableOf(r)) \in SUBSET Blocks
  BY TableType, RangeOfSeq
<1>2. ASSUME NEW s \in Seq(Blocks), Grows(r, s)
      PROVE  OthersKept(r)
  BY <1>2, AppendsFacts DEF OthersKept, Grows, Appends
<1>3. ASSUME NEW pos \in Positions, WritesOld(r, pos)
      PROVE  OthersKept(r)
  <2> DEFINE b == block_tables[r][BlockIndex(pos)]
  <2>1. b \in Range(TableOf(r)) /\ b \in Blocks /\ Write(r, pos, b)
    BY <1>1, <1>3 DEF WritesOld, TableOf, Range
  <2>2. \A c \in Blocks \ {b} : kv_pool'[c] = kv_pool[c]
    BY <2>1, WriteFacts
  <2>3. QED
    BY <1>3, <2>1, <2>2 DEF OthersKept, WritesOld
<1>4. ASSUME NEW pos \in Positions, NEW b \in Blocks, WritesNew(r, pos, b)
      PROVE  OthersKept(r)
  <2>1. <<b>> \in Seq(Blocks) /\ Range(<<b>>) = {b}
    BY DEF Range
  <2>2. b \in free_blocks /\ Appends(r, <<b>>) /\ Write(r, pos, b)
    BY <1>4 DEF WritesNew
  <2>3. \A c \in Blocks \ {b} : kv_pool'[c] = kv_pool[c]
    BY <2>2, WriteFacts
  <2>4. /\ DOMAIN block_tables' = DOMAIN block_tables \cup {r}
        /\ \A q \in DOMAIN block_tables \ {r} : block_tables'[q] = block_tables[q]
    BY <2>1, <2>2, AppendsFacts
  <2>5. free_blocks' = free_blocks \ {b} /\ swap_space' = swap_space
    BY <2>1, <2>2 DEF Appends
  <2>6. QED
    BY <2>2, <2>3, <2>4, <2>5 DEF OthersKept
<1>5. CASE Free(r)
  <2>1. Returns(Range(TableOf(r)))
    BY <1>5, FreeFacts
  <2>2. /\ DOMAIN block_tables' = DOMAIN block_tables \ {r}
        /\ \A q \in DOMAIN block_tables \ {r} : block_tables'[q] = block_tables[q]
        /\ DOMAIN swap_space' = DOMAIN swap_space \ {r}
        /\ \A q \in DOMAIN swap_space \ {r} : swap_space'[q] = swap_space[q]
    BY <1>5, FreeFacts
  <2>3. QED
    BY <2>1, <2>2 DEF OthersKept, Returns, Zeroed
<1>6. CASE SwapOut(r)
  <2>1. Returns(Range(TableOf(r)))
    BY <1>6, SwapOutFacts
  <2>2. /\ DOMAIN block_tables' = DOMAIN block_tables \cup {r}
        /\ \A q \in DOMAIN block_tables \ {r} : block_tables'[q] = block_tables[q]
        /\ DOMAIN swap_space' = DOMAIN swap_space \cup {r}
        /\ \A q \in DOMAIN swap_space \ {r} : swap_space'[q] = swap_space[q]
    BY <1>6, SwapOutFacts
  <2>3. QED
    BY <2>1, <2>2 DEF OthersKept, Returns, Zeroed
<1>7. ASSUME NEW s \in Seq(Blocks), Restores(r, s)
      PROVE  OthersKept(r)
  <2>1. Range(s) \subseteq free_blocks /\ free_blocks' = free_blocks \ Range(s)
    BY <1>7 DEF Restores, Popped, Range
  <2>2. QED
    BY <1>7, <2>1, RestoresFacts DEF OthersKept
<1>8. QED
  BY <1>2, <1>3, <1>4, <1>5, <1>6, <1>7 DEF StepOf

-----------------------------------------------------------------------------
(* Each conjunct of the inductive invariant is preserved. *)

LEMMA TypeOKStep ==
    ASSUME TypeOK, OneOwner, MetadataIffUsed, NEW r \in Requests, StepOf(r)
    PROVE  TypeOK'
<1> DEFINE TablesOK == /\ DOMAIN block_tables \subseteq Requests
                       /\ \A q \in DOMAIN block_tables : block_tables[q] \in Seq(Blocks)
           MetaOK == /\ DOMAIN block_metadata \subseteq Blocks
                     /\ \A b \in DOMAIN block_metadata : block_metadata[b] \in 0..BlockSize
           SwapOK == /\ DOMAIN swap_space \subseteq Requests
                     /\ \A q \in DOMAIN swap_space : swap_space[q] \in Seq(BlockContents)
           PoolOK == kv_pool \in [Blocks -> BlockContents]
<1>1. free_blocks \subseteq Blocks /\ TablesOK /\ MetaOK /\ SwapOK /\ PoolOK
  BY DEF TypeOK
<1>2. SUFFICES free_blocks' \subseteq Blocks /\ TablesOK' /\ MetaOK' /\ SwapOK' /\ PoolOK'
  BY DEF TypeOK
<1>3. Range(TableOf(r)) \in SUBSET Blocks
  BY TableType, RangeOfSeq
<1>4. 0 \in 0..BlockSize /\ BlockSize \in 0..BlockSize
  BY CacheAssumption
<1>5. ZeroBlock \in BlockContents
  BY DEF ZeroBlock, BlockContents
<1>6. ASSUME NEW s \in Seq(Blocks), Appends(r, s)
      PROVE  free_blocks' \subseteq Blocks /\ TablesOK' /\ SwapOK' /\ Range(s) \subseteq Blocks
  <2>1. TablesOK'
    <3>1. /\ DOMAIN block_tables' = DOMAIN block_tables \cup {r}
          /\ \A q \in DOMAIN block_tables \ {r} : block_tables'[q] = block_tables[q]
          /\ block_tables'[r] \in Seq(Blocks)
      BY <1>6, AppendsFacts
    <3>2. QED
      BY <1>1, <3>1
  <2>2. Range(s) \subseteq Blocks
    BY RangeOfSeq
  <2>3. QED
    BY <1>1, <1>6, <2>1, <2>2 DEF Appends
<1>7. ASSUME NEW s \in Seq(Blocks), Grows(r, s)
      PROVE  free_blocks' \subseteq Blocks /\ TablesOK' /\ MetaOK' /\ SwapOK' /\ PoolOK'
  <2>1. MetaOK'
    BY <1>1, <1>4, <1>6, <1>7 DEF Grows, Bind
  <2>2. QED
    BY <1>1, <1>6, <1>7, <2>1 DEF Grows
<1>8. ASSUME NEW pos \in Positions, NEW b \in Blocks, Write(r, pos, b)
      PROVE  PoolOK' /\ Offset(pos) \in Slots
  BY <1>8, WriteFacts
<1>9. \A o \in Slots : o + 1 \in 0..BlockSize
  BY CacheAssumption DEF Slots
<1>10. ASSUME NEW pos \in Positions, WritesOld(r, pos)
       PROVE  free_blocks' \subseteq Blocks /\ TablesOK' /\ MetaOK' /\ SwapOK' /\ PoolOK'
  <2> DEFINE b == block_tables[r][BlockIndex(pos)]
  <2>1. b \in Blocks /\ Write(r, pos, b)
    BY <1>3, <1>10 DEF WritesOld, TableOf, Range
  <2>2. b \in DOMAIN block_metadata => FilledAfter(b, Offset(pos)) \in 0..BlockSize
    BY <1>1, <1>8, <1>9, <2>1 DEF FilledAfter
  <2>3. MetaOK'
    BY <1>1, <1>10, <2>2 DEF WritesOld, Bind
  <2>4. QED
    BY <1>1, <1>8, <1>10, <2>1, <2>3 DEF WritesOld
<1>11. ASSUME NEW pos \in Positions, NEW b \in Blocks, WritesNew(r, pos, b)
       PROVE  free_blocks' \subseteq Blocks /\ TablesOK' /\ MetaOK' /\ SwapOK' /\ PoolOK'
  <2>1. <<b>> \in Seq(Blocks)
    OBVIOUS
  <2>2. Appends(r, <<b>>) /\ Write(r, pos, b)
    BY <1>11 DEF WritesNew
  <2>3. Offset(pos) + 1 \in 0..BlockSize
    BY <1>8, <1>9, <2>2
  <2>4. MetaOK'
    BY <1>1, <1>11, <2>3 DEF WritesNew, Bind
  <2>5. QED
    BY <1>6, <1>8, <2>1, <2>2, <2>4
<1>12. ASSUME Returns(Range(TableOf(r)))
       PROVE  free_blocks' \subseteq Blocks /\ MetaOK' /\ PoolOK'
  <2>1. MetaOK'
    BY <1>1, <1>3, <1>12, ReturnsFacts
  <2>2. PoolOK'
    BY <1>1, <1>3, <1>5, <1>12, ReturnsFacts
  <2>3. QED
    BY <1>1, <1>3, <1>12, <2>1, <2>2 DEF Returns
<1>13. CASE Free(r)
  <2>1. TablesOK' /\ SwapOK'
    BY <1>1, <1>13, FreeFacts
  <2>2. QED
    BY <1>12, <1>13, <2>1, FreeFacts
<1>14. CASE SwapOut(r)
  <2>1. TablesOK'
    BY <1>1, <1>14, SwapOutFacts, EmptySeq
  <2>2. SwapOK'
    <3>1. /\ DOMAIN swap_space' = DOMAIN swap_space \cup {r}
          /\ \A q \in DOMAIN swap_space \ {r} : swap_space'[q] = swap_space[q]
          /\ swap_space'[r] = View(r)
      BY <1>14, SwapOutFacts
    <3>2. View(r) \in Seq(BlockContents)
      BY ViewFacts
    <3>3. QED
      BY <1>1, <3>1, <3>2
  <2>3. QED
    BY <1>12, <1>14, <2>1, <2>2, SwapOutFacts
<1>15. ASSUME NEW s \in Seq(Blocks), Restores(r, s)
       PROVE  free_blocks' \subseteq Blocks /\ TablesOK' /\ MetaOK' /\ SwapOK' /\ PoolOK'
  <2>1. Range(s) \subseteq Blocks
    BY RangeOfSeq
  <2>2. TablesOK' /\ SwapOK' /\ PoolOK'
    <3>1. /\ DOMAIN block_tables' = DOMAIN block_tables \cup {r}
          /\ \A q \in DOMAIN block_tables \ {r} : block_tables'[q] = block_tables[q]
          /\ block_tables'[r] = s
          /\ DOMAIN swap_space' = DOMAIN swap_space \ {r}
          /\ \A q \in DOMAIN swap_space \ {r} : swap_space'[q] = swap_space[q]
          /\ kv_pool' \in [Blocks -> BlockContents]
      BY <1>15, RestoresFacts
    <3>2. QED
      BY <1>1, <3>1
  <2>3. MetaOK'
    BY <1>1, <1>4, <1>15, <2>1 DEF Restores, Bind
  <2>4. QED
    BY <1>1, <1>15, <2>2, <2>3 DEF Restores
<1>16. QED
  BY <1>7, <1>10, <1>11, <1>13, <1>14, <1>15 DEF StepOf

\* The blocks of the new table of r are different, are not free afterwards,
\* and were free or in the table of r before.
OwnBlocks(r) ==
    /\ \A k \in DOMAIN TableOf(r)' :
          /\ TableOf(r)'[k] \notin free_blocks'
          /\ TableOf(r)'[k] \in free_blocks \cup Range(TableOf(r))
    /\ \A i, j \in DOMAIN TableOf(r)' : TableOf(r)'[i] = TableOf(r)'[j] => i = j

\* OneOwner for the tables of two requests, in terms of TableOf.
LEMMA OwnerFacts ==
    ASSUME OneOwner, NEW r, NEW q
    PROVE  /\ \A i \in DOMAIN TableOf(r), j \in DOMAIN TableOf(q) :
                 TableOf(r)[i] = TableOf(q)[j] => r = q /\ i = j
           /\ \A k \in DOMAIN TableOf(r) : TableOf(r)[k] \notin free_blocks
BY DEF OneOwner, TableOf, Range

LEMMA AppendsOwnBlocks ==
    ASSUME TypeOK, OneOwner, NEW r \in Requests, NEW s \in Seq(Blocks), Appends(r, s)
    PROVE  OwnBlocks(r)
<1> DEFINE t == TableOf(r)
           m == Len(t)
           n == Len(s)
<1>1. t \in Seq(Blocks) /\ m \in Nat /\ n \in Nat /\ DOMAIN t = 1..m
  BY TableType DEF Appends
<1>2. /\ \A k \in 1..m : t[k] \notin free_blocks
      /\ \A i, j \in 1..m : t[i] = t[j] => i = j
  BY <1>1, OwnerFacts
<1>3. /\ \A k \in 1..n : s[k] \in free_blocks /\ s[k] \in Range(s)
      /\ \A i, j \in 1..n : s[i] = s[j] => i = j
      /\ \A k \in 1..m : t[k] \in Range(t)
      /\ Range(s) \subseteq free_blocks
  BY <1>1 DEF Appends, Popped, IsInjective, Range
<1>4. free_blocks' = free_blocks \ Range(s)
  BY DEF Appends
<1>5. PICK u : u = TableOf(r)'
  OBVIOUS
<1>6. /\ DOMAIN u = 1..(m + n)
      /\ \A k \in 1..m : u[k] = t[k]
      /\ \A k \in 1..n : u[m + k] = s[k]
  BY <1>5, AppendsFacts
<1>7. \A k \in 1..(m + n) : k \in 1..m \/ \E i \in 1..n : k = m + i
  <2>1. TAKE k \in 1..(m + n)
  <2>2. CASE k > m
    <3>1. k - m \in 1..n /\ k = m + (k - m)
      BY <1>1, <2>2
    <3>2. QED
      BY <3>1
  <2>3. QED
    BY <1>1, <2>2
<1>8. \A k \in DOMAIN u : u[k] \notin free_blocks' /\ u[k] \in free_blocks \cup Range(t)
  <2>1. TAKE k \in DOMAIN u
  <2>2. CASE k \in 1..m
    BY <1>2, <1>3, <1>4, <1>6, <2>2
  <2>3. CASE \E i \in 1..n : k = m + i
    <3>1. PICK i \in 1..n : u[k] = s[i]
      BY <1>6, <2>3
    <3>2. QED
      BY <1>3, <1>4, <3>1
  <2>4. QED
    BY <1>6, <1>7, <2>2, <2>3
<1>9. ASSUME NEW i \in DOMAIN u, NEW j \in DOMAIN u, u[i] = u[j]
      PROVE  i = j
  <2>1. CASE i \in 1..m /\ j \in 1..m
    BY <1>2, <1>6, <1>9, <2>1
  <2>2. CASE i \in 1..m /\ j \notin 1..m
    <3>1. u[i] \notin free_blocks
      BY <1>2, <1>6, <2>2
    <3>2. u[j] \in free_blocks
      BY <1>3, <1>6, <1>7, <2>2
    <3>3. QED
      BY <1>9, <3>1, <3>2
  <2>3. CASE i \notin 1..m /\ j \in 1..m
    <3>1. u[j] \notin free_blocks
      BY <1>2, <1>6, <2>3
    <3>2. u[i] \in free_blocks
      BY <1>3, <1>6, <1>7, <2>3
    <3>3. QED
      BY <1>9, <3>1, <3>2
  <2>4. CASE i \notin 1..m /\ j \notin 1..m
    BY <1>3, <1>6, <1>7, <1>9, <2>4
  <2>5. QED
    BY <2>1, <2>2, <2>3, <2>4
<1>10. QED
  BY <1>5, <1>8, <1>9 DEF OwnBlocks

LEMMA StepOwnBlocks ==
    ASSUME TypeOK, OneOwner, NEW r \in Requests, StepOf(r)
    PROVE  OwnBlocks(r)
<1>1. ASSUME NEW s \in Seq(Blocks), Grows(r, s)
      PROVE  OwnBlocks(r)
  BY <1>1, AppendsOwnBlocks DEF Grows
<1>2. ASSUME NEW pos \in Positions, WritesOld(r, pos)
      PROVE  OwnBlocks(r)
  <2>1. TableOf(r)' = TableOf(r) /\ free_blocks' = free_blocks
    BY <1>2 DEF WritesOld, TableOf
  <2>2. QED
    BY <2>1, OwnerFacts DEF OwnBlocks, Range
<1>3. ASSUME NEW pos \in Positions, NEW b \in Blocks, WritesNew(r, pos, b)
      PROVE  OwnBlocks(r)
  <2>1. <<b>> \in Seq(Blocks) /\ Appends(r, <<b>>)
    BY <1>3 DEF WritesNew
  <2>2. QED
    BY <2>1, AppendsOwnBlocks
<1>4. DOMAIN << >> = {}
  OBVIOUS
<1>5. CASE Free(r)
  <2>1. TableOf(r)' = <<>>
    BY <1>5 DEF Free, Unbind, Restrict, TableOf
  <2>2. QED
    BY <1>4, <2>1 DEF OwnBlocks
<1>6. CASE SwapOut(r)
  <2>1. TableOf(r)' = <<>>
    BY <1>6, SwapOutFacts
  <2>2. QED
    BY <1>4, <2>1 DEF OwnBlocks
<1>7. ASSUME NEW s \in Seq(Blocks), Restores(r, s)
      PROVE  OwnBlocks(r)
  <2>1. TableOf(r)' = s
    BY <1>7, RestoresFacts
  <2>2. QED
    BY <1>7, <2>1 DEF OwnBlocks, Restores, Popped, IsInjective, Range
<1>8. QED
  BY <1>1, <1>2, <1>3, <1>5, <1>6, <1>7 DEF StepOf

LEMMA OneOwnerStep ==
    ASSUME TypeOK, OneOwner, NEW r \in Requests, OthersKept(r), OwnBlocks(r)
    PROVE  OneOwner'
<1>1. \A q \in DOMAIN block_tables' : block_tables'[q] = TableOf(q)'
  BY DEF TableOf
<1>2. ASSUME NEW q \in DOMAIN block_tables', q # r
      PROVE  /\ q \in DOMAIN block_tables
             /\ block_tables'[q] = block_tables[q]
             /\ TableOf(q) = block_tables[q]
  BY <1>2 DEF OthersKept, TableOf
<1>3. ASSUME NEW q \in DOMAIN block_tables', q # r, NEW k \in DOMAIN block_tables'[q]
      PROVE  /\ block_tables'[q][k] \notin free_blocks'
             /\ block_tables'[q][k] \notin free_blocks
             /\ block_tables'[q][k] \notin Range(TableOf(r))
  <2>1. k \in DOMAIN TableOf(q) /\ block_tables'[q][k] = TableOf(q)[k]
    BY <1>2, <1>3
  <2>2. TableOf(q)[k] \in Blocks /\ TableOf(q)[k] \notin free_blocks
    BY <2>1, TableType, OwnerFacts
  <2>3. TableOf(q)[k] \notin Range(TableOf(r))
    BY <1>3, <2>1, OwnerFacts DEF Range
  <2>4. QED
    BY <2>1, <2>2, <2>3 DEF OthersKept
<1>4. ASSUME NEW p \in DOMAIN block_tables', NEW q \in DOMAIN block_tables',
             NEW i \in DOMAIN block_tables'[p], NEW j \in DOMAIN block_tables'[q],
             block_tables'[p][i] = block_tables'[q][j]
      PROVE  p = q /\ i = j
  <2>1. CASE p = r /\ q = r
    BY <1>1, <1>4, <2>1 DEF OwnBlocks
  <2>2. CASE p = r /\ q # r
    BY <1>1, <1>3, <1>4, <2>2 DEF OwnBlocks
  <2>3. CASE p # r /\ q = r
    BY <1>1, <1>3, <1>4, <2>3 DEF OwnBlocks
  <2>4. CASE p # r /\ q # r
    BY <1>2, <1>4, <2>4 DEF OneOwner
  <2>5. QED
    BY <2>1, <2>2, <2>3, <2>4
<1>5. ASSUME NEW q \in DOMAIN block_tables'
      PROVE  Range(block_tables'[q]) \cap free_blocks' = {}
  <2>1. CASE q = r
    BY <1>1, <2>1 DEF OwnBlocks, Range
  <2>2. CASE q # r
    BY <1>3, <2>2 DEF Range
  <2>3. QED
    BY <2>1, <2>2
<1>6. QED
  BY <1>4, <1>5 DEF OneOwner

LEMMA MetadataIffUsedStep ==
    ASSUME TypeOK, OneOwner, MetadataIffUsed, NEW r \in Requests, StepOf(r)
    PROVE  MetadataIffUsed'
<1>1. free_blocks \subseteq Blocks /\ DOMAIN block_metadata = Blocks \ free_blocks
  BY DEF TypeOK, MetadataIffUsed
<1>2. SUFFICES DOMAIN block_metadata' = Blocks \ free_blocks'
  BY DEF MetadataIffUsed
<1>3. ASSUME NEW s \in Seq(Blocks), Range(s) \subseteq free_blocks,
             free_blocks' = free_blocks \ Range(s), NEW n,
             block_metadata' = Bind(block_metadata, Range(s), n)
      PROVE  DOMAIN block_metadata' = Blocks \ free_blocks'
  BY <1>1, <1>3 DEF Bind
<1>4. ASSUME NEW s \in Seq(Blocks), Grows(r, s)
      PROVE  DOMAIN block_metadata' = Blocks \ free_blocks'
  <2>1. Range(s) \subseteq free_blocks
    BY <1>4 DEF Grows, Appends, Popped, Range
  <2>2. QED
    BY <1>3, <1>4, <2>1 DEF Grows, Appends
<1>5. ASSUME NEW pos \in Positions, WritesOld(r, pos)
      PROVE  DOMAIN block_metadata' = Blocks \ free_blocks'
  BY <1>1, <1>5 DEF WritesOld, Bind
<1>6. ASSUME NEW pos \in Positions, NEW b \in Blocks, WritesNew(r, pos, b)
      PROVE  DOMAIN block_metadata' = Blocks \ free_blocks'
  <2>1. Range(<<b>>) = {b}
    BY DEF Range
  <2>2. b \in free_blocks /\ free_blocks' = free_blocks \ {b}
    BY <1>6, <2>1 DEF WritesNew, Appends
  <2>3. QED
    BY <1>1, <1>6, <2>2 DEF WritesNew, Bind
<1>7. ASSUME Returns(Range(TableOf(r)))
      PROVE  DOMAIN block_metadata' = Blocks \ free_blocks'
  <2>1. Range(TableOf(r)) \subseteq Blocks
    BY TableType, RangeOfSeq
  <2>2. QED
    BY <1>1, <1>7, <2>1 DEF Returns, Unbind, Restrict
<1>8. CASE Free(r)
  BY <1>7, <1>8, FreeFacts
<1>9. CASE SwapOut(r)
  BY <1>7, <1>9, SwapOutFacts
<1>10. ASSUME NEW s \in Seq(Blocks), Restores(r, s)
       PROVE  DOMAIN block_metadata' = Blocks \ free_blocks'
  <2>1. Range(s) \subseteq free_blocks
    BY <1>10 DEF Restores, Popped, Range
  <2>2. QED
    BY <1>3, <1>10, <2>1 DEF Restores
<1>11. QED
  BY <1>4, <1>5, <1>6, <1>8, <1>9, <1>10 DEF StepOf

LEMMA FreeBlocksZeroedStep ==
    ASSUME TypeOK, OneOwner, MetadataIffUsed, FreeBlocksZeroed,
           NEW r \in Requests, StepOf(r)
    PROVE  FreeBlocksZeroed'
<1>1. free_blocks \subseteq Blocks /\ \A b \in free_blocks : kv_pool[b] = ZeroBlock
  BY DEF TypeOK, FreeBlocksZeroed
<1>2. SUFFICES \A b \in free_blocks' : kv_pool'[b] = ZeroBlock
  BY DEF FreeBlocksZeroed, ZeroBlock
<1>3. ASSUME NEW s \in Seq(Blocks), Grows(r, s)
      PROVE  \A b \in free_blocks' : kv_pool'[b] = ZeroBlock
  BY <1>1, <1>3 DEF Grows, Appends
<1>4. ASSUME NEW pos \in Positions, WritesOld(r, pos)
      PROVE  \A b \in free_blocks' : kv_pool'[b] = ZeroBlock
  <2> DEFINE b == block_tables[r][BlockIndex(pos)]
  <2>1. b \in Blocks /\ b \notin free_blocks
    BY <1>4, TableType, OwnerFacts DEF WritesOld, TableOf
  <2>2. \A c \in Blocks \ {b} : kv_pool'[c] = kv_pool[c]
    BY <1>4, <2>1, WriteFacts DEF WritesOld
  <2>3. QED
    BY <1>1, <1>4, <2>1, <2>2 DEF WritesOld
<1>5. ASSUME NEW pos \in Positions, NEW b \in Blocks, WritesNew(r, pos, b)
      PROVE  \A c \in free_blocks' : kv_pool'[c] = ZeroBlock
  <2>1. Range(<<b>>) = {b}
    BY DEF Range
  <2>2. free_blocks' = free_blocks \ {b}
    BY <1>5, <2>1 DEF WritesNew, Appends
  <2>3. \A c \in Blocks \ {b} : kv_pool'[c] = kv_pool[c]
    BY <1>5, WriteFacts DEF WritesNew
  <2>4. QED
    BY <1>1, <2>2, <2>3
<1>6. ASSUME Returns(Range(TableOf(r)))
      PROVE  \A b \in free_blocks' : kv_pool'[b] = ZeroBlock
  <2>1. Range(TableOf(r)) \subseteq Blocks
    BY TableType, RangeOfSeq
  <2>2. QED
    BY <1>1, <1>6, <2>1 DEF Returns, Zeroed
<1>7. CASE Free(r)
  BY <1>6, <1>7, FreeFacts
<1>8. CASE SwapOut(r)
  BY <1>6, <1>8, SwapOutFacts
<1>9. ASSUME NEW s \in Seq(Blocks), Restores(r, s)
      PROVE  \A b \in free_blocks' : kv_pool'[b] = ZeroBlock
  <2>1. \A b \in Blocks \ Range(s) : kv_pool'[b] = kv_pool[b]
    BY <1>9, RestoresFacts
  <2>2. QED
    BY <1>1, <1>9, <2>1 DEF Restores
<1>10. QED
  BY <1>3, <1>4, <1>5, <1>7, <1>8, <1>9 DEF StepOf

LEMMA CoveredStep ==
    ASSUME TypeOK, OneOwner, MetadataIffUsed, FreeBlocksZeroed, Covered,
           NEW r \in Requests, StepOf(r)
    PROVE  Covered'
<1>1. /\ free_blocks \subseteq Blocks
      /\ DOMAIN block_metadata \subseteq Blocks
      /\ \A b \in DOMAIN block_metadata : block_metadata[b] \in Nat
      /\ \A b \in DOMAIN block_metadata, o \in Slots :
            kv_pool[b][o] # Zero => o < block_metadata[b]
      /\ Slots \subseteq Nat
      /\ BlockSize \in Nat
      /\ \A o \in Slots : o < BlockSize
  BY CacheAssumption DEF TypeOK, Covered, Slots
<1>2. \A b \in free_blocks, o \in Slots : kv_pool[b][o] = Zero
  BY DEF FreeBlocksZeroed, ZeroBlock
<1>3. SUFFICES \A b \in DOMAIN block_metadata', o \in Slots :
                  kv_pool'[b][o] # Zero => o < block_metadata'[b]
  BY DEF Covered
<1>4. ASSUME NEW s \in Seq(Blocks), Grows(r, s)
      PROVE  \A b \in DOMAIN block_metadata', o \in Slots :
                kv_pool'[b][o] # Zero => o < block_metadata'[b]
  <2>1. Range(s) \subseteq free_blocks
    BY <1>4 DEF Grows, Appends, Popped, Range
  <2>2. QED
    BY <1>1, <1>2, <1>4, <2>1 DEF Grows, Bind
<1>5. ASSUME NEW pos \in Positions, NEW b \in Blocks, Write(r, pos, b)
      PROVE  /\ Offset(pos) \in Slots
             /\ \A c \in Blocks \ {b} : kv_pool'[c] = kv_pool[c]
             /\ \A o \in Slots \ {Offset(pos)} : kv_pool'[b][o] = kv_pool[b][o]
  BY <1>5, WriteFacts
<1>6. ASSUME NEW pos \in Positions, WritesOld(r, pos)
      PROVE  \A b \in DOMAIN block_metadata', o \in Slots :
                kv_pool'[b][o] # Zero => o < block_metadata'[b]
  <2> DEFINE b == block_tables[r][BlockIndex(pos)]
  <2>1. b \in Blocks /\ b \notin free_blocks
    BY <1>6, TableType, OwnerFacts DEF WritesOld, TableOf
  <2>2. b \in DOMAIN block_metadata
    BY <2>1 DEF MetadataIffUsed
  <2>3. /\ Offset(pos) \in Slots
        /\ \A c \in Blocks \ {b} : kv_pool'[c] = kv_pool[c]
        /\ \A o \in Slots \ {Offset(pos)} : kv_pool'[b][o] = kv_pool[b][o]
    BY <1>5, <1>6, <2>1 DEF WritesOld
  <2>4. /\ DOMAIN block_metadata' = DOMAIN block_metadata
        /\ \A c \in DOMAIN block_metadata \ {b} : block_metadata'[c] = block_metadata[c]
        /\ block_metadata'[b] = FilledAfter(b, Offset(pos))
    BY <1>6, <2>2 DEF WritesOld, Bind
  <2>5. /\ Offset(pos) < FilledAfter(b, Offset(pos))
        /\ block_metadata[b] <= FilledAfter(b, Offset(pos))
        /\ FilledAfter(b, Offset(pos)) \in Nat
    <3>1. PICK o \in Nat : o = Offset(pos)
      BY <1>1, <2>3
    <3>2. PICK n \in Nat : n = block_metadata[b]
      BY <1>1, <2>2
    <3>3. QED
      BY <3>1, <3>2 DEF FilledAfter
  <2>6. ASSUME NEW o \in Slots, kv_pool'[b][o] # Zero
        PROVE  o < block_metadata'[b]
    BY <1>1, <2>2, <2>3, <2>4, <2>5, <2>6
  <2>7. QED
    BY <1>1, <2>3, <2>4, <2>6
<1>7. ASSUME NEW pos \in Positions, NEW b \in Blocks, WritesNew(r, pos, b)
      PROVE  \A c \in DOMAIN block_metadata', o \in Slots :
                kv_pool'[c][o] # Zero => o < block_metadata'[c]
  <2>1. /\ Offset(pos) \in Slots
        /\ \A c \in Blocks \ {b} : kv_pool'[c] = kv_pool[c]
        /\ \A o \in Slots \ {Offset(pos)} : kv_pool'[b][o] = kv_pool[b][o]
    BY <1>5, <1>7 DEF WritesNew
  <2>2. /\ DOMAIN block_metadata' = DOMAIN block_metadata \cup {b}
        /\ \A c \in DOMAIN block_metadata \ {b} : block_metadata'[c] = block_metadata[c]
        /\ block_metadata'[b] = Offset(pos) + 1
        /\ b \in free_blocks
    BY <1>7 DEF WritesNew, Bind
  <2>3. Offset(pos) < Offset(pos) + 1
    <3>1. PICK o \in Nat : o = Offset(pos)
      BY <1>1, <2>1
    <3>2. QED
      BY <3>1
  <2>4. QED
    BY <1>1, <1>2, <2>1, <2>2, <2>3
<1>8. ASSUME Returns(Range(TableOf(r)))
      PROVE  \A b \in DOMAIN block_metadata', o \in Slots :
                kv_pool'[b][o] # Zero => o < block_metadata'[b]
  BY <1>1, <1>8 DEF Returns, Unbind, Restrict, Zeroed
<1>9. CASE Free(r)
  BY <1>8, <1>9, FreeFacts
<1>10. CASE SwapOut(r)
  BY <1>8, <1>10, SwapOutFacts
<1>11. ASSUME NEW s \in Seq(Blocks), Restores(r, s)
       PROVE  \A b \in DOMAIN block_metadata', o \in Slots :
                 kv_pool'[b][o] # Zero => o < block_metadata'[b]
  <2>1. \A b \in Blocks \ Range(s) : kv_pool'[b] = kv_pool[b]
    BY <1>11, RestoresFacts
  <2>2. block_metadata' = Bind(block_metadata, Range(s), BlockSize)
    BY <1>11 DEF Restores
  <2>3. QED
    BY <1>1, <2>1, <2>2 DEF Bind
<1>12. QED
  BY <1>4, <1>6, <1>7, <1>9, <1>10, <1>11 DEF StepOf

LEMMA SwapNonEmptyStep ==
    ASSUME TypeOK, SwapNonEmpty, NEW r \in Requests, OthersKept(r), StepOf(r)
    PROVE  SwapNonEmpty'
<1>1. SUFFICES r \in DOMAIN swap_space' => swap_space'[r] # <<>>
  BY DEF SwapNonEmpty, OthersKept
<1>2. CASE swap_space' = swap_space
  BY <1>2 DEF SwapNonEmpty
<1>3. CASE r \notin DOMAIN swap_space'
  BY <1>3
<1>4. CASE SwapOut(r)
  <2>1. swap_space'[r] = View(r) /\ TableOf(r) # <<>>
    BY <1>4, SwapOutFacts
  <2>2. /\ TableOf(r) \in Seq(Blocks)
        /\ View(r) \in Seq(BlockContents)
        /\ Len(View(r)) = Len(TableOf(r))
    BY TableType, ViewFacts
  <2>3. Len(TableOf(r)) # 0 /\ Len(<< >>) = 0
    BY <2>1, <2>2, EmptySeq
  <2>4. QED
    BY <2>1, <2>2, <2>3
<1>5. CASE Free(r)
  BY <1>3, <1>5 DEF Free, Unbind, Restrict
<1>6. ASSUME NEW s \in Seq(Blocks), Restores(r, s)
      PROVE  r \notin DOMAIN swap_space'
  BY <1>6 DEF Restores, Unbind, Restrict
<1>7. QED
  BY <1>2, <1>3, <1>4, <1>5, <1>6
     DEF StepOf, Grows, Appends, WritesOld, WritesNew

\* The token that belongs into slot o of the k-th block of r.
Token(r, k, o) == <<r, (k - 1) * BlockSize + o>>

\* Isolation of the table, and of the swap copy, of one request.
IsolatedTable(r) ==
    \A k \in DOMAIN TableOf(r), o \in Slots :
        kv_pool[TableOf(r)[k]][o] \in {Zero, Token(r, k, o)}
IsolatedCopy(r) ==
    r \in DOMAIN swap_space =>
        \A k \in DOMAIN swap_space[r], o \in Slots :
            swap_space[r][k][o] \in {Zero, Token(r, k, o)}

LEMMA IsolationByRequest == Isolation <=> \A r : IsolatedTable(r) /\ IsolatedCopy(r)
<1>1. DOMAIN << >> = {}
  OBVIOUS
<1>2. Isolation <=>
        /\ \A r \in DOMAIN block_tables : \A k \in DOMAIN block_tables[r], o \in Slots :
              kv_pool[block_tables[r][k]][o] \in {Zero, Token(r, k, o)}
        /\ \A r \in DOMAIN swap_space : \A k \in DOMAIN swap_space[r], o \in Slots :
              swap_space[r][k][o] \in {Zero, Token(r, k, o)}
  BY DEF Isolation, Token
<1>3. QED
  BY <1>1, <1>2 DEF IsolatedTable, IsolatedCopy, TableOf

\* A position is written into the slot of its token.
LEMMA PositionToken ==
    ASSUME NEW r, NEW pos \in Positions
    PROVE  <<r, pos>> = Token(r, BlockIndex(pos), Offset(pos))
BY PositionFacts, CacheAssumption DEF Positions, Token

LEMMA WrittenIsolated ==
    ASSUME TypeOK, OneOwner, NEW r \in Requests, IsolatedTable(r),
           NEW pos \in Positions, WritesOld(r, pos)
    PROVE  IsolatedTable(r)'
<1> DEFINE i == BlockIndex(pos)
           b == TableOf(r)[i]
<1>1. /\ TableOf(r)' = TableOf(r)
      /\ i \in DOMAIN TableOf(r)
      /\ Write(r, pos, b)
  BY DEF WritesOld, TableOf
<1>2. \A k \in DOMAIN TableOf(r) : TableOf(r)[k] \in Blocks /\ (TableOf(r)[k] = b => k = i)
  BY <1>1, TableType, OwnerFacts
<1>3. /\ \A c \in Blocks \ {b} : kv_pool'[c] = kv_pool[c]
      /\ \A o \in Slots \ {Offset(pos)} : kv_pool'[b][o] = kv_pool[b][o]
      /\ kv_pool'[b][Offset(pos)] = Token(r, i, Offset(pos))
  BY <1>1, <1>2, WriteFacts, PositionToken
<1>4. QED
  BY <1>1, <1>2, <1>3 DEF IsolatedTable, Token

\* Appended blocks were free, hence zeroed; at most the new token is in them.
LEMMA AppendedIsolated ==
    ASSUME TypeOK, OneOwner, FreeBlocksZeroed, NEW r \in Requests, IsolatedTable(r),
           NEW s \in Seq(Blocks), Appends(r, s),
           \A b \in Blocks \ Range(s) : kv_pool'[b] = kv_pool[b],
           \A k \in 1..Len(s), o \in Slots :
              kv_pool'[s[k]][o] \in {Zero, Token(r, Len(TableOf(r)) + k, o)}
    PROVE  IsolatedTable(r)'
<1> DEFINE t == TableOf(r)
           m == Len(t)
           n == Len(s)
<1>1. m \in Nat /\ n \in Nat /\ DOMAIN t = 1..m
  BY TableType DEF Appends
<1>2. PICK u : u = TableOf(r)'
  OBVIOUS
<1>3. /\ DOMAIN u = 1..(m + n)
      /\ \A k \in 1..m : u[k] = t[k]
      /\ \A k \in 1..n : u[m + k] = s[k]
  <2>1. /\ DOMAIN TableOf(r)' = 1..(m + n)
        /\ \A k \in 1..m : TableOf(r)'[k] = t[k]
        /\ \A k \in 1..n : TableOf(r)'[m + k] = s[k]
    BY ONLY TypeOK, Appends(r, s), AppendsFacts
  <2>2. QED
    BY <1>2, <2>1
<1>4. \A k \in 1..m : t[k] \in Blocks /\ t[k] \notin Range(s)
  BY <1>1, TableType, OwnerFacts DEF Appends, Popped, Range
<1>5. ASSUME NEW k \in 1..(m + n), NEW o \in Slots
      PROVE  kv_pool'[u[k]][o] \in {Zero, Token(r, k, o)}
  <2>1. CASE k \in 1..m
    BY <1>1, <1>3, <1>4, <2>1 DEF IsolatedTable
  <2>2. CASE k \notin 1..m
    <3>1. k - m \in 1..n /\ m + (k - m) = k
      BY <1>1, <2>2
    <3>2. u[k] = s[k - m] /\ kv_pool'[s[k - m]][o] \in {Zero, Token(r, m + (k - m), o)}
      BY <1>3, <3>1
    <3>3. QED
      BY <3>1, <3>2
  <2>3. QED
    BY <2>1, <2>2
<1>6. QED
  BY <1>2, <1>3, <1>5 DEF IsolatedTable, Token

\* The step's own request, table and copy.
LEMMA OwnIsolationStep ==
    ASSUME TypeOK, OneOwner, MetadataIffUsed, FreeBlocksZeroed,
           NEW r \in Requests, IsolatedTable(r), IsolatedCopy(r), StepOf(r)
    PROVE  IsolatedTable(r)' /\ IsolatedCopy(r)'
<1>1. swap_space' = swap_space => IsolatedCopy(r)'
  BY DEF IsolatedCopy, Token
<1>2. DOMAIN << >> = {}
  OBVIOUS
<1>3. TableOf(r)' = <<>> => IsolatedTable(r)'
  BY <1>2 DEF IsolatedTable
<1>4. r \notin DOMAIN swap_space' => IsolatedCopy(r)'
  BY DEF IsolatedCopy
<1>5. \A b \in free_blocks, o \in Slots : kv_pool[b][o] = Zero
  BY DEF FreeBlocksZeroed, ZeroBlock
<1>6. ASSUME NEW s \in Seq(Blocks), Grows(r, s)
      PROVE  IsolatedTable(r)' /\ IsolatedCopy(r)'
  <2>1. Appends(r, s) /\ kv_pool' = kv_pool
    BY <1>6 DEF Grows
  <2>2. \A k \in 1..Len(s) : s[k] \in free_blocks
    BY <2>1 DEF Appends, Popped
  <2>3. \A k \in 1..Len(s), o \in Slots :
           kv_pool'[s[k]][o] \in {Zero, Token(r, Len(TableOf(r)) + k, o)}
    BY <1>5, <2>1, <2>2
  <2>4. IsolatedTable(r)'
    BY <2>1, <2>3, AppendedIsolated
  <2>5. QED
    BY <1>1, <2>1, <2>4 DEF Appends
<1>7. ASSUME NEW pos \in Positions, WritesOld(r, pos)
      PROVE  IsolatedTable(r)' /\ IsolatedCopy(r)'
  BY <1>1, <1>7, WrittenIsolated DEF WritesOld
<1>8. ASSUME NEW pos \in Positions, NEW b \in Blocks, WritesNew(r, pos, b)
      PROVE  IsolatedTable(r)' /\ IsolatedCopy(r)'
  <2>1. /\ <<b>> \in Seq(Blocks)
        /\ Len(<<b>>) = 1
        /\ Range(<<b>>) = {b}
        /\ <<b>>[1] = b
    BY DEF Range
  <2>2. /\ Appends(r, <<b>>)
        /\ Write(r, pos, b)
        /\ b \in free_blocks
        /\ BlockIndex(pos) = Len(TableOf(r)) + 1
    BY <1>8 DEF WritesNew, TableOf
  <2>3. /\ \A c \in Blocks \ {b} : kv_pool'[c] = kv_pool[c]
        /\ \A o \in Slots \ {Offset(pos)} : kv_pool'[b][o] = kv_pool[b][o]
        /\ kv_pool'[b][Offset(pos)] = Token(r, BlockIndex(pos), Offset(pos))
    BY <2>2, WriteFacts, PositionToken
  <2>4. \A o \in Slots : kv_pool'[b][o] \in {Zero, Token(r, Len(TableOf(r)) + 1, o)}
    BY <1>5, <2>2, <2>3
  <2>5. \A k \in 1..Len(<<b>>), o \in Slots :
           kv_pool'[<<b>>[k]][o] \in {Zero, Token(r, Len(TableOf(r)) + k, o)}
    BY <2>1, <2>4
  <2>6. IsolatedTable(r)'
    BY <2>1, <2>2, <2>3, <2>5, AppendedIsolated
  <2>7. QED
    BY <1>1, <2>2, <2>6 DEF Appends
<1>9. CASE Free(r)
  BY <1>3, <1>4, <1>9, FreeFacts
<1>10. CASE SwapOut(r)
  <2>1. TableOf(r)' = <<>> /\ swap_space'[r] = View(r)
    BY <1>10, SwapOutFacts
  <2>2. \A k \in DOMAIN View(r), o \in Slots : View(r)[k][o] \in {Zero, Token(r, k, o)}
    BY ViewFacts DEF IsolatedTable
  <2>3. IsolatedCopy(r)'
    BY <2>1, <2>2 DEF IsolatedCopy, Token
  <2>4. QED
    BY <1>3, <2>1, <2>3
<1>11. ASSUME NEW s \in Seq(Blocks), Restores(r, s)
       PROVE  IsolatedTable(r)' /\ IsolatedCopy(r)'
  <2>1. /\ TableOf(r)' = s
        /\ r \in DOMAIN swap_space
        /\ r \notin DOMAIN swap_space'
        /\ DOMAIN s = DOMAIN swap_space[r]
        /\ \A k \in DOMAIN s : kv_pool'[s[k]] = swap_space[r][k]
    BY <1>11, RestoresFacts
  <2>2. \A k \in DOMAIN s, o \in Slots : kv_pool'[s[k]][o] \in {Zero, Token(r, k, o)}
    BY <2>1 DEF IsolatedCopy
  <2>3. IsolatedTable(r)'
    BY <2>1, <2>2 DEF IsolatedTable, Token
  <2>4. QED
    BY <1>4, <2>1, <2>3
<1>12. QED
  BY <1>6, <1>7, <1>8, <1>9, <1>10, <1>11 DEF StepOf

\* What every other request has, as seen through TableOf, View and SwapOf.
LEMMA OthersFacts ==
    ASSUME TypeOK, OneOwner, NEW r \in Requests, OthersKept(r), NEW q, q # r
    PROVE  /\ TableOf(q)' = TableOf(q)
           /\ SwapOf(q)' = SwapOf(q)
           /\ \A k \in DOMAIN TableOf(q) : kv_pool'[TableOf(q)[k]] = kv_pool[TableOf(q)[k]]
           /\ q \in DOMAIN swap_space' <=> q \in DOMAIN swap_space
<1>1. TableOf(q)' = TableOf(q)
  BY DEF OthersKept, TableOf
<1>2. SwapOf(q)' = SwapOf(q) /\ (q \in DOMAIN swap_space' <=> q \in DOMAIN swap_space)
  BY DEF OthersKept, SwapOf
<1>3. ASSUME NEW k \in DOMAIN TableOf(q)
      PROVE  kv_pool'[TableOf(q)[k]] = kv_pool[TableOf(q)[k]]
  <2>1. TableOf(q)[k] \in Blocks /\ TableOf(q)[k] \notin free_blocks
    BY TableType, OwnerFacts
  <2>2. TableOf(q)[k] \notin Range(TableOf(r))
    BY OwnerFacts DEF Range
  <2>3. QED
    BY <2>1, <2>2 DEF OthersKept
<1>4. QED
  BY <1>1, <1>2, <1>3

LEMMA IsolationStep ==
    ASSUME TypeOK, OneOwner, MetadataIffUsed, FreeBlocksZeroed, Isolation,
           NEW r \in Requests, OthersKept(r), StepOf(r)
    PROVE  Isolation'
<1>1. \A q : IsolatedTable(q) /\ IsolatedCopy(q)
  BY IsolationByRequest
<1>2. IsolatedTable(r)' /\ IsolatedCopy(r)'
  BY <1>1, OwnIsolationStep
<1>3. ASSUME NEW q, q # r
      PROVE  IsolatedTable(q)' /\ IsolatedCopy(q)'
  <2>1. /\ TableOf(q)' = TableOf(q)
        /\ \A k \in DOMAIN TableOf(q) : kv_pool'[TableOf(q)[k]] = kv_pool[TableOf(q)[k]]
    BY <1>3, OthersFacts
  <2>2. IsolatedTable(q)'
    BY <1>1, <2>1 DEF IsolatedTable, Token
  <2>3. IsolatedCopy(q)'
    BY <1>1, <1>3 DEF OthersKept, IsolatedCopy, Token
  <2>4. QED
    BY <2>2, <2>3
<1>4. \A q : (IsolatedTable(q) /\ IsolatedCopy(q))'
  BY <1>2, <1>3
<1>5. QED
  BY <1>4 DEF Isolation, IsolatedTable, IsolatedCopy, TableOf, Token

-----------------------------------------------------------------------------
(* The invariants. *)

LEMMA InitIInv == Init => IInv
<1> SUFFICES ASSUME Init PROVE IInv
  OBVIOUS
<1>1. DOMAIN << >> = {}
  OBVIOUS
<1>2. ZeroBlock \in BlockContents
  BY DEF ZeroBlock, BlockContents
<1>3. TypeOK
  BY <1>1, <1>2 DEF Init, TypeOK
<1>4. QED
  BY <1>1, <1>3 DEF Init, IInv, OneOwner, MetadataIffUsed, FreeBlocksZeroed, Isolation,
                    Covered, SwapNonEmpty

LEMMA StepIInv ==
    ASSUME IInv, NEW r \in Requests, StepOf(r)
    PROVE  IInv'
<1>1. /\ TypeOK /\ OneOwner /\ MetadataIffUsed /\ FreeBlocksZeroed
      /\ Isolation /\ Covered /\ SwapNonEmpty
  BY DEF IInv
<1>2. OthersKept(r) /\ OwnBlocks(r)
  BY <1>1, StepKeepsOthers, StepOwnBlocks
<1>3. TypeOK'
  BY <1>1, TypeOKStep
<1>4. OneOwner'
  BY <1>1, <1>2, OneOwnerStep
<1>5. MetadataIffUsed'
  BY <1>1, MetadataIffUsedStep
<1>6. FreeBlocksZeroed'
  BY <1>1, FreeBlocksZeroedStep
<1>7. Isolation'
  BY <1>1, <1>2, IsolationStep
<1>8. Covered'
  BY <1>1, CoveredStep
<1>9. SwapNonEmpty'
  BY <1>1, <1>2, SwapNonEmptyStep
<1>10. QED
  BY <1>3, <1>4, <1>5, <1>6, <1>7, <1>8, <1>9 DEF IInv

LEMMA NextIInv == IInv /\ [Next]_vars => IInv'
<1> SUFFICES ASSUME IInv, [Next]_vars PROVE IInv'
  OBVIOUS
<1>1. CASE Next
  <2>1. PICK r \in Requests : StepOf(r)
    BY <1>1, NextKinds DEF IInv
  <2>2. QED
    BY <2>1, StepIInv
<1>2. CASE UNCHANGED vars
  BY <1>2 DEF vars, IInv, TypeOK, OneOwner, MetadataIffUsed, FreeBlocksZeroed, Isolation,
              Covered, SwapNonEmpty
<1>3. QED
  BY <1>1, <1>2

\* The inductive invariant holds in every reachable state of the cache.
THEOREM Inductive == Spec => []IInv
BY InitIInv, NextIInv, PTL DEF Spec

\* Type correctness: the five dictionaries of PagedKVCache.__init__ keep the
\* shape the code gives them.
THEOREM TypeCorrect == Spec => []TypeOK
<1>1. IInv => TypeOK
  BY DEF IInv
<1>2. QED
  BY <1>1, Inductive, PTL

\* A block has at most one user: it is free, or once in one table, or leaked.
THEOREM OneOwnerHolds == Spec => []OneOwner
<1>1. IInv => OneOwner
  BY DEF IInv
<1>2. QED
  BY <1>1, Inductive, PTL

\* The blocks with metadata are those in use, so free gives all of them back.
THEOREM MetadataIffUsedHolds == Spec => []MetadataIffUsed
<1>1. IInv => MetadataIffUsed
  BY DEF IInv
<1>2. QED
  BY <1>1, Inductive, PTL

\* No token survives in a free block.
THEOREM FreeBlocksZeroedHolds == Spec => []FreeBlocksZeroed
<1>1. IInv => FreeBlocksZeroed
  BY DEF IInv
<1>2. QED
  BY <1>1, Inductive, PTL

\* A block of r holds only tokens of r, of the positions it stands for, on the
\* GPU and in the swap copy.
THEOREM IsolationHolds == Spec => []Isolation
<1>1. IInv => Isolation
  BY DEF IInv
<1>2. QED
  BY <1>1, Inductive, PTL

LEMMA CoveredReads == IInv => ReadsEveryToken
<1> SUFFICES ASSUME IInv,
                    NEW r \in Requests, NEW k \in DOMAIN GetKV(r), NEW o \in Slots,
                    kv_pool[TableOf(r)[k]][o] # Zero
             PROVE  o \in DOMAIN GetKV(r)[k]
  BY DEF ReadsEveryToken
<1> DEFINE b == TableOf(r)[k]
<1>1. k \in DOMAIN TableOf(r)
  BY DEF GetKV
<1>2. b \in Blocks /\ b \notin free_blocks
  BY <1>1, TableType, OwnerFacts DEF IInv
<1>3. b \in DOMAIN block_metadata
  BY <1>2 DEF IInv, MetadataIffUsed
<1>4. PICK n \in Nat : n = block_metadata[b]
  BY <1>3, CacheAssumption DEF IInv, TypeOK
<1>5. o < n /\ o \in Nat
  BY <1>3, <1>4, CacheAssumption DEF IInv, Covered, Slots
<1>6. o \in 0..(n - 1)
  BY <1>4, <1>5
<1>7. DOMAIN GetKV(r)[k] = 0..(n - 1)
  BY <1>1, <1>3, <1>4 DEF GetKV, Restrict, TokensInBlock
<1>8. QED
  BY <1>6, <1>7

\* get_kv_for_request returns every token stored in the table.
THEOREM ReadsEveryTokenHolds == Spec => []ReadsEveryToken
BY CoveredReads, Inductive, PTL

-----------------------------------------------------------------------------
(* What a step may never do. *)

\* A call for one request never changes what another one has.
OthersUntouchedStep ==
    \E r \in Requests : \A q \in Requests \ {r} : View(q)' = View(q) /\ SwapOf(q)' = SwapOf(q)

LEMMA StepOthersUntouched ==
    ASSUME IInv, [Next]_vars
    PROVE  OthersUntouchedStep \/ UNCHANGED vars
<1>1. SUFFICES ASSUME Next PROVE OthersUntouchedStep
  OBVIOUS
<1>2. PICK r \in Requests : StepOf(r)
  BY <1>1, NextKinds DEF IInv
<1>3. OthersKept(r)
  BY <1>2, StepKeepsOthers DEF IInv
<1>4. ASSUME NEW q \in Requests \ {r}
      PROVE  View(q)' = View(q) /\ SwapOf(q)' = SwapOf(q)
  <2>1. /\ TableOf(q)' = TableOf(q)
        /\ SwapOf(q)' = SwapOf(q)
        /\ \A k \in DOMAIN TableOf(q) : kv_pool'[TableOf(q)[k]] = kv_pool[TableOf(q)[k]]
    BY <1>3, OthersFacts DEF IInv
  <2>2. View(q)' = View(q)
    BY <2>1 DEF View
  <2>3. QED
    BY <2>1, <2>2
<1>5. QED
  BY <1>4 DEF OthersUntouchedStep

\* Requests do not see one another: what a request has on the GPU and in its
\* swap copy changes only by a call for that request.
THEOREM OthersUntouchedHolds == Spec => OthersUntouched
<1>1. IInv /\ [Next]_vars => [OthersUntouchedStep]_vars
  BY StepOthersUntouched
<1>2. QED
  BY <1>1, Inductive, PTL DEF Spec, OthersUntouched, OthersUntouchedStep

\* swap_out copies what the table showed, swap_in restores what the copy held.
SwapKeepsDataOf(r) ==
    /\ TableOf(r) # <<>> /\ SwapOf(r)' # SwapOf(r) /\ SwapOf(r)' # <<>>
          => SwapOf(r)' = View(r)
    /\ SwapOf(r) # <<>> /\ SwapOf(r)' = <<>> /\ r \in (DOMAIN block_tables)'
          => View(r)' = SwapOf(r)

LEMMA StepSwapKeepsData ==
    ASSUME IInv, NEW r \in Requests, StepOf(r), NEW q \in Requests
    PROVE  SwapKeepsDataOf(q)
<1>1. SwapOf(q)' = SwapOf(q) => SwapKeepsDataOf(q)
  BY DEF SwapKeepsDataOf
<1>2. CASE q # r
  <2>1. OthersKept(r)
    BY StepKeepsOthers DEF IInv
  <2>2. SwapOf(q)' = SwapOf(q)
    BY <1>2, <2>1, OthersFacts DEF IInv
  <2>3. QED
    BY <1>1, <2>2
<1>3. CASE q = r /\ swap_space' = swap_space
  BY <1>1, <1>3 DEF SwapOf
<1>4. CASE q = r /\ Free(r)
  <2>1. SwapOf(q)' = <<>> /\ q \notin DOMAIN block_tables'
    BY <1>4 DEF Free, Unbind, Restrict, SwapOf
  <2>2. QED
    BY <2>1 DEF SwapKeepsDataOf
<1>5. CASE q = r /\ SwapOut(r)
  <2>1. SwapOf(q)' = View(q)
    BY <1>5, SwapOutFacts DEF IInv, SwapOf
  <2>2. r \in DOMAIN swap_space' => swap_space'[r] # <<>>
    BY StepIInv DEF IInv, SwapNonEmpty
  <2>3. SwapOf(q)' # <<>>
    BY <1>5, <2>2, SwapOutFacts DEF IInv, SwapOf
  <2>4. QED
    BY <2>1, <2>3 DEF SwapKeepsDataOf
<1>6. ASSUME q = r, NEW s \in Seq(Blocks), Restores(r, s)
      PROVE  SwapKeepsDataOf(q)
  <2>1. /\ TableOf(r)' = s
        /\ r \in DOMAIN swap_space
        /\ r \notin DOMAIN swap_space'
        /\ DOMAIN s = DOMAIN swap_space[r]
        /\ \A k \in DOMAIN s : kv_pool'[s[k]] = swap_space[r][k]
    BY <1>6, RestoresFacts DEF IInv
  <2>2. View(r)' = [k \in DOMAIN s |-> swap_space[r][k]]
    BY <2>1 DEF View
  <2>3. swap_space[r] = [k \in DOMAIN swap_space[r] |-> swap_space[r][k]]
    BY <2>1 DEF IInv, TypeOK
  <2>4. View(r)' = SwapOf(r) /\ SwapOf(r)' = <<>>
    BY <2>1, <2>2, <2>3 DEF SwapOf
  <2>5. QED
    BY <1>6, <2>4 DEF SwapKeepsDataOf
<1>7. QED
  BY <1>2, <1>3, <1>4, <1>5, <1>6
     DEF StepOf, Grows, Appends, WritesOld, WritesNew

\* Swapping loses nothing, block by block, through any swap_out and swap_in.
THEOREM SwapKeepsDataHolds == Spec => SwapKeepsData
<1>1. IInv /\ [Next]_vars => [\A r \in Requests : SwapKeepsDataOf(r)]_vars
  BY NextKinds, StepSwapKeepsData DEF IInv
<1>2. QED
  BY <1>1, Inductive, PTL DEF Spec, SwapKeepsData, SwapKeepsDataOf

\* Leaked, in terms of TableOf.
LEMMA LeakedFacts ==
    Leaked = {b \in Blocks : b \notin free_blocks /\ \A q : b \notin Range(TableOf(q))}
BY DEF Leaked, TableOf, Range

\* Which blocks are leaked after a step of r: only the table of r matters.
LEMMA LeakedAfter ==
    ASSUME TypeOK, OneOwner, NEW r \in Requests, OthersKept(r)
    PROVE  Leaked' = {b \in Blocks : /\ b \notin free_blocks'
                                     /\ b \notin Range(TableOf(r)')
                                     /\ \A q : q # r => b \notin Range(TableOf(q))}
<1>1. \A q : q # r => TableOf(q)' = TableOf(q)
  BY OthersFacts
<1>2. \A b \in Blocks : (\A q \in DOMAIN block_tables' : b \notin Range(block_tables'[q]))
                           <=> (\A q : b \notin Range(TableOf(q)'))
  BY DEF TableOf, Range
<1>3. Leaked' = {b \in Blocks : b \notin free_blocks' /\ \A q : b \notin Range(TableOf(q)')}
  BY <1>2 DEF Leaked
<1>4. QED
  BY <1>1, <1>3

LeakStep ==
    \/ Leaked' = Leaked
    \/ \E r \in DOMAIN swap_space :
          /\ TableOf(r) # <<>>
          /\ r \notin (DOMAIN swap_space)'
          /\ Leaked' = Leaked \cup Range(TableOf(r))

LEMMA StepLeaks ==
    ASSUME IInv, NEW r \in Requests, StepOf(r)
    PROVE  LeakStep
<1>1. TypeOK /\ OneOwner /\ MetadataIffUsed /\ OthersKept(r)
  BY StepKeepsOthers DEF IInv
<1>2. Leaked' = {b \in Blocks : /\ b \notin free_blocks'
                                /\ b \notin Range(TableOf(r)')
                                /\ \A q : q # r => b \notin Range(TableOf(q))}
  BY <1>1, LeakedAfter
<1>3. Leaked = {b \in Blocks : /\ b \notin free_blocks
                               /\ b \notin Range(TableOf(r))
                               /\ \A q : q # r => b \notin Range(TableOf(q))}
  BY LeakedFacts
<1>4. \A b \in Range(TableOf(r)) : /\ b \in Blocks
                                   /\ b \notin free_blocks
                                   /\ \A q : q # r => b \notin Range(TableOf(q))
  BY <1>1, TableType, OwnerFacts DEF Range
<1>5. \A b \in free_blocks : b \in Blocks /\ \A q : b \notin Range(TableOf(q))
  BY <1>1, OwnerFacts DEF TypeOK, Range
<1>6. ASSUME NEW s \in Seq(Blocks), Appends(r, s)
      PROVE  Leaked' = Leaked
  <2>1. Range(TableOf(r)') = Range(TableOf(r)) \cup Range(s)
    <3>1. TableOf(r)' = TableOf(r) \o s
      BY <1>6 DEF Appends, Bind, TableOf
    <3>2. Range(TableOf(r) \o s) = Range(TableOf(r)) \cup Range(s)
      BY <1>1, TableType, RangeConcatenation
    <3>3. QED
      BY <3>1, <3>2
  <2>2. free_blocks' = free_blocks \ Range(s) /\ Range(s) \subseteq free_blocks
    BY <1>6 DEF Appends, Popped, Range
  <2>3. QED
    BY <1>2, <1>3, <1>5, <2>1, <2>2
<1>7. CASE \E s \in Seq(Blocks) : Grows(r, s)
  BY <1>6, <1>7 DEF Grows, LeakStep
<1>8. CASE \E pos \in Positions : WritesOld(r, pos)
  BY <1>8 DEF WritesOld, Leaked, LeakStep
<1>9. ASSUME NEW pos \in Positions, NEW b \in Blocks, WritesNew(r, pos, b)
      PROVE  LeakStep
  <2>1. <<b>> \in Seq(Blocks) /\ Appends(r, <<b>>)
    BY <1>9 DEF WritesNew
  <2>2. QED
    BY <1>6, <2>1 DEF LeakStep
<1>10. Range(<< >>) = {}
  BY DEF Range
<1>11. CASE Free(r) \/ SwapOut(r)
  <2>1. /\ TableOf(r)' = <<>>
        /\ free_blocks' = free_blocks \cup Range(TableOf(r))
    BY <1>1, <1>11, FreeFacts, SwapOutFacts DEF Returns
  <2>2. Leaked' = Leaked
    BY <1>2, <1>3, <1>4, <1>10, <2>1
  <2>3. QED
    BY <2>2 DEF LeakStep
<1>12. ASSUME NEW s \in Seq(Blocks), Restores(r, s)
       PROVE  LeakStep
  <2>1. TableOf(r)' = s /\ r \in DOMAIN swap_space /\ r \notin DOMAIN swap_space'
    BY <1>1, <1>12, RestoresFacts
  <2>2. free_blocks' = free_blocks \ Range(s) /\ Range(s) \subseteq free_blocks
    BY <1>12 DEF Restores, Popped, Range
  <2>3. Leaked' = Leaked \cup Range(TableOf(r))
    BY <1>2, <1>3, <1>4, <1>5, <2>1, <2>2
  <2>4. TableOf(r) = <<>> => Leaked' = Leaked
    BY <1>10, <2>3
  <2>5. QED
    BY <2>1, <2>3, <2>4 DEF LeakStep
<1>13. QED
  BY <1>7, <1>8, <1>9, <1>11, <1>12 DEF StepOf

\* Blocks drop out of the accounting in one way only: swap_in puts a new table
\* in the place of one that was extended while the request was swapped out.
THEOREM LeakOnlyByOverwriteHolds == Spec => LeakOnlyByOverwrite
<1>1. IInv /\ [Next]_vars => [LeakStep]_vars
  BY NextKinds, StepLeaks DEF IInv
<1>2. QED
  BY <1>1, Inductive, PTL DEF Spec, LeakOnlyByOverwrite, LeakStep

-----------------------------------------------------------------------------
(* PagedKVCache implements the pool of counts. *)

\* A table without repetitions has as many blocks as it has places.
LEMMA RangeCardinality ==
    ASSUME NEW S, NEW s \in Seq(S), \A i, j \in DOMAIN s : s[i] = s[j] => i = j
    PROVE  IsFiniteSet(Range(s)) /\ Cardinality(Range(s)) = Len(s)
<1>1. PICK n \in Nat : n = Len(s)
  BY LenProperties
<1>2. DOMAIN s = 1..n /\ s \in [1..n -> S]
  BY <1>1, LenProperties
<1>3. s \in Bijection(1..n, Range(s))
  BY <1>2, Fun_IsInj, Fun_InjMeansBijImage
<1>4. IsFiniteSet(1..n) /\ Cardinality(1..n) = n
  BY FS_Interval
<1>5. ExistsBijection(1..n, Range(s))
  BY <1>3 DEF ExistsBijection
<1>6. QED
  BY <1>1, <1>4, <1>5, FS_Bijection

LEMMA TableCardinality ==
    ASSUME TypeOK, OneOwner, NEW r
    PROVE  /\ IsFiniteSet(Range(TableOf(r)))
           /\ Cardinality(Range(TableOf(r))) = Len(TableOf(r))
           /\ Range(TableOf(r)) \cap free_blocks = {}
<1>1. \A i, j \in DOMAIN TableOf(r) : TableOf(r)[i] = TableOf(r)[j] => i = j
  BY OwnerFacts
<1>2. Range(TableOf(r)) \cap free_blocks = {}
  BY OwnerFacts DEF Range
<1>3. QED
  BY <1>1, <1>2, TableType, RangeCardinality

\* Popping the blocks s from the free set leaves Len(s) fewer.
LEMMA PoppedCardinality ==
    ASSUME TypeOK, NEW s \in Seq(Blocks), s \in Popped(Len(s)),
           free_blocks' = free_blocks \ Range(s)
    PROVE  /\ Len(s) \in Nat
           /\ Cardinality(free_blocks) \in Nat
           /\ Cardinality(Blocks) \in Nat
           /\ Len(s) <= Cardinality(free_blocks)
           /\ Cardinality(free_blocks) <= Cardinality(Blocks)
           /\ Cardinality(free_blocks') = Cardinality(free_blocks) - Len(s)
<1>1. /\ \A i, j \in DOMAIN s : s[i] = s[j] => i = j
      /\ Range(s) \subseteq free_blocks
  BY DEF Popped, IsInjective, Range
<1>2. IsFiniteSet(Range(s)) /\ Cardinality(Range(s)) = Len(s)
  BY <1>1, RangeCardinality
<1>3. /\ IsFiniteSet(free_blocks)
      /\ Cardinality(free_blocks) \in Nat
      /\ Cardinality(Blocks) \in Nat
      /\ Cardinality(free_blocks) <= Cardinality(Blocks)
  BY CacheAssumption, FS_Subset, FS_CardinalityType DEF TypeOK
<1>4. /\ Len(s) \in Nat
      /\ Cardinality(Range(s)) <= Cardinality(free_blocks)
  BY <1>1, <1>3, LenProperties, FS_Subset
<1>5. Cardinality(free_blocks \ Range(s)) =
         Cardinality(free_blocks) - Cardinality(free_blocks \cap Range(s))
  BY <1>2, <1>3, FS_Difference
<1>6. free_blocks \cap Range(s) = Range(s)
  BY <1>1
<1>7. QED
  BY <1>2, <1>3, <1>4, <1>5, <1>6

\* Returning the table of r adds as many as it has.
LEMMA ReturnedCardinality ==
    ASSUME TypeOK, OneOwner, NEW r, free_blocks' = free_blocks \cup Range(TableOf(r))
    PROVE  Cardinality(free_blocks') = Cardinality(free_blocks) + Len(TableOf(r))
<1>1. IsFiniteSet(free_blocks) /\ Cardinality(free_blocks) \in Nat
  BY CacheAssumption, FS_Subset, FS_CardinalityType DEF TypeOK
<1>2. Cardinality(free_blocks \cup Range(TableOf(r))) =
         Cardinality(free_blocks) + Cardinality(Range(TableOf(r)))
           - Cardinality(free_blocks \cap Range(TableOf(r)))
  BY <1>1, TableCardinality, FS_Union
<1>3. Cardinality(free_blocks \cap Range(TableOf(r))) = 0
  BY TableCardinality, FS_EmptySet
<1>4. Len(TableOf(r)) \in Nat
  BY TableType
<1>5. QED
  BY <1>1, <1>2, <1>3, <1>4, TableCardinality

\* The two functions of the refinement mapping after a step of r.
LEMMA CountsAfter ==
    ASSUME TypeOK, OneOwner, NEW r \in Requests, OthersKept(r)
    PROVE  /\ [q \in Requests |-> Len(TableOf(q))]' =
                 [[q \in Requests |-> Len(TableOf(q))] EXCEPT ![r] = Len(TableOf(r)')]
           /\ [q \in Requests |-> Len(SwapOf(q))]' =
                 [[q \in Requests |-> Len(SwapOf(q))] EXCEPT ![r] = Len(SwapOf(r)')]
<1>1. \A q : q # r => TableOf(q)' = TableOf(q) /\ SwapOf(q)' = SwapOf(q)
  BY OthersFacts
<1>2. QED
  BY <1>1

LEMMA PoolInitialised == Init => Pool!PoolInit
<1> SUFFICES ASSUME Init PROVE Pool!PoolInit
  OBVIOUS
<1>1. \A r \in Requests : Len(TableOf(r)) = 0 /\ Len(SwapOf(r)) = 0
  BY EmptySeq DEF Init, TableOf, SwapOf
<1>2. QED
  BY <1>1 DEF Init, Pool!PoolInit

LEMMA StepPool ==
    ASSUME IInv, NEW r \in Requests, StepOf(r)
    PROVE  Pool!PoolNext \/ UNCHANGED Pool!poolVars
<1> DEFINE held == [q \in Requests |-> Len(TableOf(q))]
           swapped == [q \in Requests |-> Len(SwapOf(q))]
           free == Cardinality(free_blocks)
<1>1. TypeOK /\ OneOwner /\ MetadataIffUsed /\ SwapNonEmpty /\ OthersKept(r)
  BY StepKeepsOthers DEF IInv
<1>2. /\ held' = [held EXCEPT ![r] = Len(TableOf(r)')]
      /\ swapped' = [swapped EXCEPT ![r] = Len(SwapOf(r)')]
  BY <1>1, CountsAfter
<1>3. held[r] = Len(TableOf(r)) /\ swapped[r] = Len(SwapOf(r)) /\ Len(TableOf(r)) \in Nat
  BY <1>1, TableType
<1>4. Len(<< >>) = 0
  BY EmptySeq
<1>5. swap_space' = swap_space => swapped' = swapped
  BY DEF SwapOf
<1>6. ASSUME NEW s \in Seq(Blocks), Appends(r, s)
      PROVE  Pool!PoolNext \/ UNCHANGED Pool!poolVars
  <2>1. /\ Len(s) \in Nat
        /\ free \in Nat
        /\ Cardinality(Blocks) \in Nat
        /\ Len(s) <= free
        /\ free <= Cardinality(Blocks)
        /\ free' = free - Len(s)
    BY <1>1, <1>6, PoppedCardinality DEF Appends
  <2>2. Len(TableOf(r)') = Len(TableOf(r)) + Len(s)
    BY <1>1, <1>6, AppendsFacts
  <2>3. held' = [held EXCEPT ![r] = held[r] + Len(s)]
    BY <1>2, <1>3, <2>2
  <2>4. swapped' = swapped
    BY <1>5, <1>6 DEF Appends
  <2>5. CASE Len(s) = 0
    <3>1. free' = free /\ held[r] + Len(s) = held[r]
      BY <1>3, <2>1, <2>5
    <3>2. held' = held
      BY <2>3, <3>1
    <3>3. QED
      BY <2>4, <3>1, <3>2 DEF Pool!poolVars
  <2>6. CASE Len(s) # 0
    <3>1. Len(s) \in 1..Cardinality(Blocks)
      BY <2>1, <2>6
    <3>2. Pool!PoolAllocate(r, Len(s))
      BY <2>1, <2>3, <2>4 DEF Pool!PoolAllocate
    <3>3. QED
      BY <3>1, <3>2 DEF Pool!PoolNext
  <2>7. QED
    BY <2>5, <2>6
<1>7. CASE \E s \in Seq(Blocks) : Grows(r, s)
  BY <1>6, <1>7 DEF Grows
<1>8. CASE \E pos \in Positions : WritesOld(r, pos)
  BY <1>8 DEF WritesOld, Pool!poolVars, TableOf, SwapOf
<1>9. ASSUME NEW pos \in Positions, NEW b \in Blocks, WritesNew(r, pos, b)
      PROVE  Pool!PoolNext \/ UNCHANGED Pool!poolVars
  <2>1. <<b>> \in Seq(Blocks) /\ Appends(r, <<b>>)
    BY <1>9 DEF WritesNew
  <2>2. QED
    BY <1>6, <2>1
<1>10. CASE Free(r)
  <2>1. TableOf(r)' = <<>> /\ free_blocks' = free_blocks \cup Range(TableOf(r))
    BY <1>1, <1>10, FreeFacts DEF Returns
  <2>2. SwapOf(r)' = <<>>
    BY <1>10 DEF Free, Unbind, Restrict, SwapOf
  <2>3. free' = free + held[r]
    BY <1>1, <1>3, <2>1, ReturnedCardinality
  <2>4. Pool!PoolFree(r)
    BY <1>2, <1>4, <2>1, <2>2, <2>3 DEF Pool!PoolFree
  <2>5. QED
    BY <2>4 DEF Pool!PoolNext
<1>11. CASE SwapOut(r)
  <2>1. /\ TableOf(r) # <<>>
        /\ TableOf(r)' = <<>>
        /\ free_blocks' = free_blocks \cup Range(TableOf(r))
        /\ r \in DOMAIN swap_space' /\ swap_space'[r] = View(r)
    BY <1>1, <1>11, SwapOutFacts DEF Returns
  <2>2. Len(SwapOf(r)') = Len(TableOf(r))
    BY <1>1, <2>1, ViewFacts DEF SwapOf
  <2>3. free' = free + held[r]
    BY <1>1, <1>3, <2>1, ReturnedCardinality
  <2>4. held[r] # 0
    BY <1>1, <1>3, <2>1, TableType, EmptySeq
  <2>5. Pool!PoolSwapOut(r)
    BY <1>2, <1>3, <1>4, <2>1, <2>2, <2>3, <2>4 DEF Pool!PoolSwapOut
  <2>6. QED
    BY <2>5 DEF Pool!PoolNext
<1>12. ASSUME NEW s \in Seq(Blocks), Restores(r, s)
       PROVE  Pool!PoolNext
  <2>1. /\ TableOf(r)' = s
        /\ r \in DOMAIN swap_space
        /\ r \notin DOMAIN swap_space'
        /\ Len(s) = Len(swap_space[r])
    BY <1>1, <1>12, RestoresFacts
  <2>2. /\ Len(s) \in Nat
        /\ free \in Nat
        /\ Len(s) <= free
        /\ free' = free - Len(s)
    BY <1>1, <1>12, PoppedCardinality DEF Restores
  <2>3. swapped[r] = Len(s) /\ Len(SwapOf(r)') = 0
    BY <1>3, <1>4, <2>1 DEF SwapOf
  <2>4. Len(s) # 0
    BY <1>1, <2>1, EmptySeq DEF SwapNonEmpty, TypeOK
  <2>5. 0 < swapped[r] /\ swapped[r] <= free
    BY <2>2, <2>3, <2>4
  <2>6. Pool!PoolSwapIn(r)
    BY <1>2, <2>1, <2>2, <2>3, <2>5 DEF Pool!PoolSwapIn, Pool!CanSwapIn
  <2>7. QED
    BY <2>6 DEF Pool!PoolNext
<1>13. QED
  BY <1>7, <1>8, <1>9, <1>10, <1>11, <1>12 DEF StepOf

\* The block-level cache implements the pool of counts that the scheduler is
\* specified over: every call moves as many blocks as the pool says.
THEOREM ImplementsPoolHolds == Spec => ImplementsPool
<1>1. IInv /\ [Next]_vars => [Pool!PoolNext]_(Pool!poolVars)
  <2> SUFFICES ASSUME IInv, [Next]_vars PROVE [Pool!PoolNext]_(Pool!poolVars)
    OBVIOUS
  <2>1. CASE Next
    BY <2>1, NextKinds, StepPool DEF IInv
  <2>2. CASE UNCHANGED vars
    BY <2>2 DEF vars, Pool!poolVars, TableOf, SwapOf
  <2>3. QED
    BY <2>1, <2>2
<1>2. QED
  BY <1>1, PoolInitialised, Inductive, PTL DEF Spec, ImplementsPool, Pool!PoolSpec

=============================================================================
