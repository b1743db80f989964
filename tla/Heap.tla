-------------------------------- MODULE Heap --------------------------------
(***************************************************************************)
(* clks/kernel/heap.c: the first-fit kernel heap.  Every block starts with *)
(* a header that links it to the blocks before and after it in the arena.  *)
(* Addresses are offsets into the arena; bytes of data are left out.  A    *)
(* call of kmalloc walks the list one block per step; nothing else touches *)
(* the heap meanwhile, since no interrupt handler allocates.               *)
(***************************************************************************)
EXTENDS Integers

CONSTANTS
    ARENA,      \* CLKS_HEAP_ARENA_SIZE
    HDR,        \* sizeof(struct clks_heap_block)
    ALIGN,      \* CLKS_HEAP_ALIGN
    WORD,       \* 2^64: sizes are computed modulo this
    Sizes       \* sizes callers ask for

ASSUME HeapAssumption ==
    /\ ARENA \in Nat /\ HDR \in Nat \ {0} /\ ALIGN \in Nat \ {0} /\ WORD \in Nat
    /\ HDR < ARENA
    /\ ARENA + HDR + ALIGN <= WORD
    /\ Sizes \subseteq 0 .. WORD - 1

VARIABLES
    block,       \* the headers, by address
    used_bytes,  \* clks_heap_used_bytes
    walk,        \* the call of kmalloc in progress
    live         \* what callers hold: requested size by header address, or 0

vars == <<block, used_bytes, walk, live>>

NULL == -1
Addrs == 0 .. ARENA - 1

\* Memory that is not the header of a block has no magic.
NoHeader == [magic |-> FALSE, size |-> 0, is_free |-> FALSE, next |-> NULL, prev |-> NULL]
Headers == [magic : BOOLEAN, size : 0 .. ARENA, is_free : BOOLEAN,
            next : Addrs \cup {NULL}, prev : Addrs \cup {NULL}]
blocks_of(blk) == {a \in Addrs : blk[a].magic}
Blocks == blocks_of(block)

Idle == [cur |-> NULL, size |-> 0, busy |-> FALSE]

\* The ALIGN - 1 largest sizes wrap to 0: any free block is large enough for them.
align_up(value) == LET sum == (value + (ALIGN - 1)) % WORD IN sum - (sum % ALIGN)
wraps(size) == size + ALIGN > WORD

Init ==
    /\ block = [a \in Addrs |->
                  IF a = 0 THEN [magic |-> TRUE, size |-> ARENA - HDR, is_free |-> TRUE,
                                 next |-> NULL, prev |-> NULL]
                  ELSE NoHeader]
    /\ used_bytes = 0
    /\ walk = Idle
    /\ live = [a \in Addrs |-> 0]

\* The rest of a block becomes a free block of its own if it can hold a header
\* and ALIGN bytes.
split_block(blk, b, need) ==
    LET n == b + HDR + need
    IN  IF blk[b].size < need + HDR + ALIGN THEN blk
        ELSE [a \in Addrs |->
                CASE a = n -> [magic |-> TRUE, size |-> blk[b].size - need - HDR,
                               is_free |-> TRUE, next |-> blk[b].next, prev |-> b]
                  [] a = b -> [blk[b] EXCEPT !.next = n, !.size = need]
                  [] a = blk[b].next -> [blk[a] EXCEPT !.prev = n]
                  [] OTHER -> blk[a]]

\* The header of the absorbed block stays in memory, but no link leads to it any
\* more: it is modelled as no header.
merge_next(blk, b) ==
    LET n == blk[b].next
    IN  IF n = NULL \/ ~blk[n].is_free \/ ~blk[n].magic THEN blk
        ELSE [a \in Addrs |->
                CASE a = b -> [blk[b] EXCEPT !.size = @ + HDR + blk[n].size,
                                             !.next = blk[n].next]
                  [] a = n -> NoHeader
                  [] a = blk[n].next -> [blk[a] EXCEPT !.prev = b]
                  [] OTHER -> blk[a]]

-----------------------------------------------------------------------------
\* Mutant: the search starts behind the head.
KmallocCall_behind_head(size) ==
    /\ ~walk.busy
    /\ size # 0
    /\ walk' = [cur |-> block[0].next, size |-> size, busy |-> TRUE]
    /\ UNCHANGED <<block, used_bytes, live>>

KmallocCall(size) ==
    /\ ~walk.busy
    /\ size # 0
    /\ walk' = [cur |-> 0, size |-> size, busy |-> TRUE]
    /\ UNCHANGED <<block, used_bytes, live>>

fits(b, need) == block[b].is_free /\ block[b].size >= need

KmallocSkip ==
    /\ walk.busy /\ walk.cur # NULL
    /\ block[walk.cur].magic /\ ~fits(walk.cur, align_up(walk.size))
    /\ walk' = [walk EXCEPT !.cur = block[walk.cur].next]
    /\ UNCHANGED <<block, used_bytes, live>>

\* Mutant: what the caller asked for is counted, not what it got.
KmallocTake_counts_request ==
    /\ walk.busy /\ walk.cur # NULL
    /\ block[walk.cur].magic /\ fits(walk.cur, align_up(walk.size))
    /\ block' = [split_block(block, walk.cur, align_up(walk.size)) EXCEPT ![walk.cur].is_free = FALSE]
    /\ used_bytes' = used_bytes + align_up(walk.size)
    /\ live' = [live EXCEPT ![walk.cur] = walk.size]
    /\ walk' = Idle

KmallocTake ==
    /\ walk.busy /\ walk.cur # NULL
    /\ block[walk.cur].magic /\ fits(walk.cur, align_up(walk.size))
    /\ LET split == split_block(block, walk.cur, align_up(walk.size))
       IN  /\ block' = [split EXCEPT ![walk.cur].is_free = FALSE]
           /\ used_bytes' = used_bytes + split[walk.cur].size
    /\ live' = [live EXCEPT ![walk.cur] = walk.size]
    /\ walk' = Idle

\* The end of the list, or a header that is none, gives NULL to the caller.
KmallocFail ==
    /\ walk.busy
    /\ walk.cur # NULL => ~block[walk.cur].magic
    /\ walk' = Idle
    /\ UNCHANGED <<block, used_bytes, live>>

\* Mutant: only the block behind the freed one is merged.
Kfree_next_only(b) ==
    /\ ~walk.busy
    /\ live[b] # 0
    /\ live' = [live EXCEPT ![b] = 0]
    /\ block' = merge_next([block EXCEPT ![b].is_free = TRUE], b)
    /\ used_bytes' = used_bytes - block[b].size
    /\ UNCHANGED walk

\* Callers free what they hold.
Kfree(b) ==
    /\ ~walk.busy
    /\ live[b] # 0
    /\ live' = [live EXCEPT ![b] = 0]
    /\ IF ~block[b].magic \/ block[b].is_free
       THEN UNCHANGED <<block, used_bytes>>
       ELSE LET freed == [block EXCEPT ![b].is_free = TRUE]
                joined == merge_next(freed, b)
                p == joined[b].prev
            IN  /\ used_bytes' = IF used_bytes >= block[b].size
                                 THEN used_bytes - block[b].size ELSE 0
                /\ block' = IF p # NULL /\ joined[p].is_free THEN merge_next(joined, p)
                            ELSE joined
    /\ UNCHANGED walk

Next == \/ \E size \in Sizes : KmallocCall(size)
        \/ KmallocSkip \/ KmallocTake \/ KmallocFail
        \/ \E b \in Addrs : Kfree(b)

Spec == Init /\ [][Next]_vars

-----------------------------------------------------------------------------
\* Every variable keeps its type; no size goes negative or beyond the arena.
HeapTypeOK ==
    /\ block \in [Addrs -> Headers]
    /\ used_bytes \in Nat
    /\ walk \in [cur : Addrs \cup {NULL}, size : Sizes \cup {0}, busy : BOOLEAN]
    /\ live \in [Addrs -> Sizes \cup {0}]

end_of(blk, b) == b + HDR + blk[b].size

\* The links of the header of b agree with where b begins and ends.
linked(blk, b) ==
    /\ end_of(blk, b) <= ARENA
    /\ blk[b].next = (IF end_of(blk, b) = ARENA THEN NULL ELSE end_of(blk, b))
    /\ blk[b].next # NULL => blk[b].next \in blocks_of(blk) /\ blk[blk[b].next].prev = b
    /\ b = 0 => blk[b].prev = NULL
    /\ b # 0 => blk[b].prev \in blocks_of(blk) /\ blk[blk[b].prev].next = b

Tiles(blk) ==
    /\ 0 \in blocks_of(blk)
    /\ \A b \in blocks_of(blk) : linked(blk, b)
    /\ \A a, b \in blocks_of(blk) : a < b => end_of(blk, a) <= b

\* The blocks tile the arena: each ends where the next one begins, or at the
\* end of the arena; the links follow the addresses in both directions; and no
\* header lies inside another block, so two callers never share memory.
Tiling == Tiles(block)

\* No two adjacent blocks are free: when everything is freed, in any order, the
\* arena is one block again.
Coalesced ==
    \A b \in Blocks : block[b].is_free /\ block[b].next # NULL
                         => ~block[block[b].next].is_free

\* A block given for a request has at least its size, and less than a header and
\* ALIGN bytes to spare.  The exception is a request that wraps: kmalloc does not
\* refuse it, and hands out a block of next to nothing.
serves(size, request) ==
    /\ size < align_up(request) + HDR + ALIGN
    /\ IF wraps(request) THEN align_up(request) = 0 ELSE size >= request

\* What a caller holds is a block in use that serves its request, and every
\* block in use is held by some caller.
HeldBlocks ==
    /\ \A b \in Addrs : live[b] # 0 => b \in Blocks /\ ~block[b].is_free /\ serves(block[b].size, live[b])
    /\ \A b \in Blocks : ~block[b].is_free => live[b] # 0

\* kmalloc gives up only if no free block is large enough, and never returns a
\* block while a lower one would do: nothing the walk has passed fits.
FirstFit ==
    walk.busy => \A b \in Blocks : walk.cur = NULL \/ b < walk.cur
                                      => ~fits(b, align_up(walk.size))

\* The block list is what its walkers take it for: headers in range that tile
\* the arena, with no two free blocks side by side.
BlockList == HeapTypeOK /\ Tiling /\ Coalesced

\* A request gets the first block that fits what it is rounded up to, keeps it
\* until it is freed, and is refused only if no block fits.
RequestsServed == HeldBlocks /\ FirstFit

=============================================================================
