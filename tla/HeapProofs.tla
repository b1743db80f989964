----------------------------- MODULE HeapProofs -----------------------------
(***************************************************************************)
(* The kernel heap, for every arena, header size, alignment and set of     *)
(* request sizes: the blocks tile the arena, free neighbours are merged,   *)
(* callers hold distinct blocks that serve them, and kmalloc refuses       *)
(* only when no free block fits; the count of bytes in use is exact.       *)
(***************************************************************************)
EXTENDS HeapStats, Induction

\* The walk of kmalloc stands on a block or has reached the end of the list.
WalkOnList == walk.busy => /\ walk.size # 0
                           /\ walk.cur # NULL => walk.cur \in Blocks

\* The inductive invariant.
HeapInv == HeapTypeOK /\ Tiling /\ Coalesced /\ HeldBlocks /\ FirstFit /\ WalkOnList

-----------------------------------------------------------------------------
\* clks_heap_align_up never yields less than it is given, unless it wraps.
LEMMA AlignUpFits ==
    ASSUME NEW size \in Sizes, ~wraps(size)
    PROVE  align_up(size) \in Nat /\ align_up(size) >= size
<1>1. size \in Nat /\ size + ALIGN <= WORD /\ ALIGN \in Nat \ {0} /\ WORD \in Nat
  BY HeapAssumption DEF wraps
<1> DEFINE sum == size + (ALIGN - 1)
<1>2. sum \in Nat /\ sum < WORD /\ sum - (ALIGN - 1) = size
  BY <1>1
<1>3. sum % WORD = sum
  BY <1>2, <1>1
<1>4. sum % ALIGN \in 0 .. ALIGN - 1
  BY <1>2, <1>1
<1>5. align_up(size) = sum - (sum % ALIGN)
  BY <1>3 DEF align_up
<1>6. sum - (sum % ALIGN) >= size
  <2> HIDE DEF sum
  <2> QED BY <1>2, <1>4, <1>1
<1>7. QED
  BY <1>5, <1>6, <1>4, <1>2, <1>1

\* If it wraps, it yields nothing.
LEMMA AlignUpWraps ==
    ASSUME NEW size \in Sizes, wraps(size)
    PROVE  align_up(size) = 0
<1>1. /\ size \in Nat /\ size < WORD /\ size + ALIGN > WORD
      /\ ALIGN \in Nat \ {0} /\ WORD \in Nat /\ ALIGN < WORD
  BY HeapAssumption DEF wraps
<1> DEFINE sum == size + (ALIGN - 1)
           rest == sum - WORD
<1>2. sum \in Nat /\ rest \in 0 .. ALIGN - 2 /\ rest < WORD /\ sum = rest + WORD
  BY <1>1
<1> HIDE DEF sum, rest
<1>3. sum % WORD = rest
  BY <1>1, <1>2
<1>4. rest % ALIGN = rest
  BY <1>1, <1>2
<1> QED
  BY <1>2, <1>3, <1>4 DEF align_up, sum

LEMMA AlignUp ==
    ASSUME NEW size \in Sizes
    PROVE  align_up(size) \in Nat
  BY AlignUpFits, AlignUpWraps

\* A block of at least the rounded size serves the request, if no more is left over
\* than a split would take.
LEMMA Served ==
    ASSUME NEW request \in Sizes, NEW size \in Nat, size >= align_up(request),
           size < align_up(request) + HDR + ALIGN
    PROVE  serves(size, request)
<1>1. request \in Nat /\ align_up(request) \in Nat
  BY AlignUp, HeapAssumption
<1>2. CASE wraps(request)
  BY <1>2, AlignUpWraps DEF serves
<1>3. CASE ~wraps(request)
  BY <1>1, <1>3, AlignUpFits DEF serves
<1> QED
  BY <1>2, <1>3

-----------------------------------------------------------------------------
(***************************************************************************)
(* Splitting a block and merging two keep the tiling.                      *)
(***************************************************************************)
\* The headers after a split, field by field.
LEMMA SplitFields ==
    ASSUME NEW f \in [Addrs -> Headers], Tiles(f), NEW b \in blocks_of(f),
           NEW need \in Nat, f[b].size >= need + HDR + ALIGN
    PROVE  LET n == b + HDR + need
               g == split_block(f, b, need)
           IN  /\ n \in Addrs /\ n > b /\ n < end_of(f, b) /\ n \notin blocks_of(f)
               /\ g \in [Addrs -> Headers]
               /\ g[n].magic /\ g[n].size = f[b].size - need - HDR /\ g[n].is_free
               /\ g[n].next = f[b].next /\ g[n].prev = b
               /\ g[b].magic /\ g[b].size = need /\ g[b].is_free = f[b].is_free
               /\ g[b].next = n /\ g[b].prev = f[b].prev
               /\ \A a \in Addrs \ {n, b} :
                    /\ g[a].magic = f[a].magic /\ g[a].size = f[a].size
                    /\ g[a].is_free = f[a].is_free /\ g[a].next = f[a].next
                    /\ g[a].prev = (IF a = f[b].next THEN n ELSE f[a].prev)
<1> DEFINE n == b + HDR + need
           g == split_block(f, b, need)
<1>1. HDR \in Nat \ {0} /\ ALIGN \in Nat \ {0} /\ ARENA \in Nat
  BY HeapAssumption
<1>2. b \in Addrs /\ f[b] \in Headers /\ f[b].size \in Nat /\ b \in Nat
  BY DEF blocks_of, Headers, Addrs
<1>3. end_of(f, b) <= ARENA /\ \A a \in blocks_of(f) : b < a => end_of(f, b) <= a
  BY DEF Tiles, linked
<1>4. n \in Addrs /\ n > b /\ n < end_of(f, b)
  BY <1>1, <1>2, <1>3 DEF Addrs, end_of
<1>5. n \notin blocks_of(f)
  <2>1. end_of(f, b) \in Int /\ n \in Int
    BY <1>1, <1>2 DEF end_of
  <2> QED BY <1>3, <1>4, <2>1
<1>6. g = [a \in Addrs |->
                CASE a = n -> [magic |-> TRUE, size |-> f[b].size - need - HDR,
                               is_free |-> TRUE, next |-> f[b].next, prev |-> b]
                  [] a = b -> [f[b] EXCEPT !.next = n, !.size = need]
                  [] a = f[b].next -> [f[a] EXCEPT !.prev = n]
                  [] OTHER -> f[a]]
  BY <1>1, <1>2 DEF split_block
<1>7. n # b /\ n # f[b].next /\ b # f[b].next
  <2>1. f[b].next = NULL \/ f[b].next = end_of(f, b)
    BY DEF Tiles, linked
  <2>2. end_of(f, b) \in Int /\ n \in Nat
    BY <1>1, <1>2 DEF end_of
  <2> QED BY <1>4, <1>2, <2>1, <2>2 DEF NULL
<1> HIDE DEF n
<1>8. g[n] = [magic |-> TRUE, size |-> f[b].size - need - HDR,
              is_free |-> TRUE, next |-> f[b].next, prev |-> b]
  BY <1>4, <1>6, <1>7
<1>9. g[b] = [f[b] EXCEPT !.next = n, !.size = need]
  BY <1>2, <1>6, <1>7
<1>10. \A a \in Addrs \ {n, b} : g[a] = IF a = f[b].next THEN [f[a] EXCEPT !.prev = n] ELSE f[a]
  BY <1>6
<1>11. DOMAIN g = Addrs /\ g = [a \in Addrs |-> g[a]]
  BY <1>6
<1> HIDE DEF g
<1>12. g[n] \in Headers
  <2>1. f[b].size - need - HDR \in 0 .. ARENA
    BY <1>1, <1>2 DEF Headers
  <2> QED BY <1>8, <1>2, <2>1 DEF Headers
<1>13. g[b] \in Headers
  <2>1. need \in 0 .. ARENA
    BY <1>1, <1>2 DEF Headers
  <2> QED BY <1>9, <1>2, <1>4, <2>1 DEF Headers
<1>14. \A a \in Addrs \ {n, b} : g[a] \in Headers
  <2> SUFFICES ASSUME NEW a \in Addrs \ {n, b} PROVE g[a] \in Headers
    OBVIOUS
  <2>1. f[a] \in Headers
    OBVIOUS
  <2> QED BY <1>10, <1>4, <2>1 DEF Headers
<1>15. g \in [Addrs -> Headers]
  BY <1>11, <1>12, <1>13, <1>14
<1>16. /\ g[n].magic /\ g[n].size = f[b].size - need - HDR /\ g[n].is_free
       /\ g[n].next = f[b].next /\ g[n].prev = b
  BY <1>8
<1>17. /\ g[b].magic /\ g[b].size = need /\ g[b].is_free = f[b].is_free
       /\ g[b].next = n /\ g[b].prev = f[b].prev
  BY <1>9, <1>2 DEF Headers, blocks_of
<1>18. \A a \in Addrs \ {n, b} :
         /\ g[a].magic = f[a].magic /\ g[a].size = f[a].size
         /\ g[a].is_free = f[a].is_free /\ g[a].next = f[a].next
         /\ g[a].prev = (IF a = f[b].next THEN n ELSE f[a].prev)
  <2> SUFFICES ASSUME NEW a \in Addrs \ {n, b}
               PROVE  /\ g[a].magic = f[a].magic /\ g[a].size = f[a].size
                      /\ g[a].is_free = f[a].is_free /\ g[a].next = f[a].next
                      /\ g[a].prev = (IF a = f[b].next THEN n ELSE f[a].prev)
    OBVIOUS
  <2>1. f[a] \in Headers
    OBVIOUS
  <2> QED BY <1>10, <2>1 DEF Headers
<1>19. QED
  BY <1>4, <1>5, <1>15, <1>16, <1>17, <1>18 DEF n, g

\* clks_heap_split_block keeps the tiling.
LEMMA SplitTiles ==
    ASSUME NEW f \in [Addrs -> Headers], Tiles(f), NEW b \in blocks_of(f),
           NEW need \in Nat, f[b].size >= need + HDR + ALIGN
    PROVE  Tiles(split_block(f, b, need))
<1> DEFINE n == b + HDR + need
           g == split_block(f, b, need)
<1>1. HDR \in Nat \ {0} /\ ALIGN \in Nat \ {0} /\ ARENA \in Nat
  BY HeapAssumption
<1>2. /\ n \in Addrs /\ n > b /\ n < end_of(f, b) /\ n \notin blocks_of(f)
      /\ g[n].magic /\ g[n].size = f[b].size - need - HDR
      /\ g[n].next = f[b].next /\ g[n].prev = b
      /\ g[b].magic /\ g[b].size = need
      /\ g[b].next = n /\ g[b].prev = f[b].prev
      /\ \A a \in Addrs \ {n, b} :
           /\ g[a].magic = f[a].magic /\ g[a].size = f[a].size /\ g[a].next = f[a].next
           /\ g[a].prev = (IF a = f[b].next THEN n ELSE f[a].prev)
  BY SplitFields
<1>3. n = b + HDR + need
  OBVIOUS
<1>4. \A a \in Addrs : f[a].size \in Nat
  BY DEF Headers
<1>5. b \in Addrs /\ f[b].magic
  BY DEF blocks_of
<1> HIDE DEF n, g
<1>6. blocks_of(g) = blocks_of(f) \cup {n}
  BY <1>2, <1>5 DEF blocks_of
<1>7. \A a \in blocks_of(f) \ {b} : end_of(g, a) = end_of(f, a) /\ a # n /\ a \in Addrs
  BY <1>2 DEF blocks_of, end_of
<1>8. end_of(g, b) = n /\ end_of(g, n) = end_of(f, b)
  BY <1>1, <1>2, <1>3, <1>4, <1>5 DEF end_of, Addrs
<1>9. \A a \in blocks_of(f) : end_of(f, a) \in Int /\ a \in Nat
  BY <1>1, <1>4 DEF end_of, blocks_of, Addrs
<1>10. \A a, c \in blocks_of(g) : a < c => end_of(g, a) <= c
  <2>1. \A a, c \in blocks_of(f) : a < c => end_of(f, a) <= c
    BY DEF Tiles
  <2>2. n \in Nat /\ n > b /\ n < end_of(f, b)
    BY <1>2 DEF Addrs
  <2>3. SUFFICES ASSUME NEW a \in blocks_of(g), NEW c \in blocks_of(g), a < c
                 PROVE  end_of(g, a) <= c
    OBVIOUS
  <2>4. CASE a = n
    <3>1. c \in blocks_of(f) /\ b < c
      BY <2>2, <2>3, <2>4, <1>6, <1>9
    <3> QED BY <2>1, <2>4, <3>1, <1>8
  <2>5. CASE a = b
    <3>1. CASE c = n
      BY <2>5, <3>1, <1>8, <2>2
    <3>2. CASE c \in blocks_of(f)
      BY <2>1, <2>2, <2>3, <2>5, <3>2, <1>8, <1>9
    <3> QED BY <3>1, <3>2, <1>6
  <2>6. CASE a \in blocks_of(f) \ {b}
    <3>1. CASE c = n
      <4>1. a < b
        BY <2>1, <2>2, <2>3, <2>6, <3>1, <1>9
      <4> QED BY <4>1, <2>1, <2>2, <2>6, <3>1, <1>7, <1>9
    <3>2. CASE c \in blocks_of(f)
      BY <2>1, <2>3, <2>6, <3>2, <1>7
    <3> QED BY <3>1, <3>2, <1>6
  <2> QED BY <2>4, <2>5, <2>6, <1>6
<1>11. linked(g, b)
  <2>1. linked(f, b) /\ n # ARENA /\ n <= ARENA
    BY <1>2, <1>1 DEF Tiles, Addrs
  <2>2. b # 0 => f[b].prev \in blocks_of(f) /\ f[b].prev # b /\ f[f[b].prev].next = b
    <3>1. b # 0 => f[b].prev \in blocks_of(f) /\ f[f[b].prev].next = b
      BY <2>1 DEF linked
    <3>2. f[b].next # b
      BY <2>1, <1>1, <1>4, <1>5 DEF linked, end_of, NULL, Addrs
    <3> QED BY <3>1, <3>2
  <2>3. b # 0 => g[f[b].prev].next = b
    BY <2>2, <1>2, <1>7
  <2> QED BY <2>1, <2>2, <2>3, <1>2, <1>6, <1>8 DEF linked
<1>12. linked(g, n)
  <2>1. linked(f, b) /\ n # 0 /\ n # NULL
    BY <1>2, <1>5 DEF Tiles, Addrs, NULL
  <2>2. f[b].next # NULL => f[b].next \in blocks_of(f) /\ f[b].next # b
    BY <2>1, <1>1, <1>4, <1>5 DEF linked, end_of, NULL, Addrs
  <2>3. f[b].next # NULL => g[f[b].next].prev = n
    BY <2>2, <1>2, <1>7
  <2> QED BY <2>1, <2>2, <2>3, <1>2, <1>5, <1>6, <1>8 DEF linked
<1>13. ASSUME NEW a \in blocks_of(f) \ {b} PROVE linked(g, a)
  <2>1. linked(f, a) /\ linked(f, b)
    BY DEF Tiles
  <2>2. g[a].next = f[a].next /\ g[a].prev = (IF a = f[b].next THEN n ELSE f[a].prev)
    BY <1>2, <1>7
  <2>3. ASSUME f[a].next # NULL PROVE g[a].next \in blocks_of(g) /\ g[g[a].next].prev = a
    <3>1. f[a].next \in blocks_of(f) /\ f[f[a].next].prev = a
      BY <2>1, <2>3 DEF linked
    <3>2. CASE f[a].next = b
      BY <3>1, <3>2, <2>2, <1>2, <1>6
    <3>3. CASE f[a].next # b
      <4>1. f[a].next # f[b].next
        <5>1. f[b].next # NULL => f[f[b].next].prev = b
          BY <2>1 DEF linked
        <5> QED BY <5>1, <3>1, <2>3
      <4> QED BY <4>1, <3>1, <3>3, <2>2, <1>2, <1>6, <1>7
    <3> QED BY <3>2, <3>3
  <2>4. ASSUME a # 0 PROVE g[a].prev \in blocks_of(g) /\ g[g[a].prev].next = a
    <3>1. f[a].prev \in blocks_of(f) /\ f[f[a].prev].next = a
      BY <2>1, <2>4 DEF linked
    <3>2. CASE a = f[b].next
      BY <3>2, <2>2, <1>2, <1>6
    <3>3. CASE a # f[b].next
      BY <3>1, <3>3, <2>2, <1>2, <1>6, <1>7
    <3> QED BY <3>2, <3>3
  <2>5. a = 0 => g[a].prev = NULL
    <3>1. a = f[b].next => a # 0
      BY <2>1, <1>1, <1>4, <1>5 DEF linked, end_of, NULL, Addrs
    <3> QED BY <3>1, <2>1, <2>2 DEF linked
  <2> QED BY <2>1, <2>2, <2>3, <2>4, <2>5, <1>7 DEF linked
<1>14. 0 \in blocks_of(g)
  BY <1>6 DEF Tiles
<1> QED BY <1>6, <1>10, <1>11, <1>12, <1>13, <1>14 DEF Tiles, g

\* The headers after a merge, field by field.
LEMMA MergeFields ==
    ASSUME NEW f \in [Addrs -> Headers], Tiles(f), NEW b \in blocks_of(f),
           f[b].next # NULL, f[f[b].next].is_free
    PROVE  LET n == f[b].next
               g == merge_next(f, b)
           IN  /\ n \in blocks_of(f) /\ n = end_of(f, b) /\ n > b
               /\ g \in [Addrs -> Headers]
               /\ ~g[n].magic
               /\ g[b].magic /\ g[b].size = f[b].size + HDR + f[n].size
               /\ g[b].is_free = f[b].is_free
               /\ g[b].next = f[n].next /\ g[b].prev = f[b].prev
               /\ \A a \in Addrs \ {n, b} :
                    /\ g[a].magic = f[a].magic /\ g[a].size = f[a].size
                    /\ g[a].is_free = f[a].is_free /\ g[a].next = f[a].next
                    /\ g[a].prev = (IF a = f[n].next THEN b ELSE f[a].prev)
<1> DEFINE n == f[b].next
           g == merge_next(f, b)
<1>1. HDR \in Nat \ {0} /\ ARENA \in Nat
  BY HeapAssumption
<1>2. b \in Addrs /\ f[b] \in Headers /\ f[b].size \in Nat /\ b \in Nat
  BY DEF blocks_of, Headers, Addrs
<1>3. n \in blocks_of(f) /\ n = end_of(f, b) /\ linked(f, n)
  BY DEF Tiles, linked
<1>4. n \in Addrs /\ f[n] \in Headers /\ f[n].size \in Nat /\ n \in Nat /\ f[n].magic
  BY <1>3 DEF blocks_of, Headers, Addrs
<1>5. n > b
  BY <1>1, <1>2, <1>3 DEF end_of
<1>6. b # n /\ b # f[n].next /\ n # f[n].next
  <2>1. f[n].next = NULL \/ f[n].next = n + HDR + f[n].size
    BY <1>3 DEF linked, end_of
  <2> QED BY <2>1, <1>1, <1>2, <1>4, <1>5 DEF NULL
<1>7. g = [a \in Addrs |->
             CASE a = b -> [f[b] EXCEPT !.size = @ + HDR + f[n].size, !.next = f[n].next]
               [] a = n -> NoHeader
               [] a = f[n].next -> [f[a] EXCEPT !.prev = b]
               [] OTHER -> f[a]]
  BY <1>4 DEF merge_next
<1> HIDE DEF n
<1>8. g[b] = [f[b] EXCEPT !.size = @ + HDR + f[n].size, !.next = f[n].next]
  BY <1>2, <1>6, <1>7
<1>9. g[n] = NoHeader
  BY <1>4, <1>6, <1>7
<1>10. \A a \in Addrs \ {n, b} : g[a] = IF a = f[n].next THEN [f[a] EXCEPT !.prev = b] ELSE f[a]
  BY <1>7
<1>11. DOMAIN g = Addrs /\ g = [a \in Addrs |-> g[a]]
  BY <1>7
<1> HIDE DEF g
<1>12. g[b] \in Headers
  <2>1. f[b].size + HDR + f[n].size \in 0 .. ARENA
    BY <1>1, <1>2, <1>3, <1>4 DEF linked, end_of
  <2> QED BY <1>8, <1>2, <1>4, <2>1 DEF Headers
<1>13. g[n] \in Headers
  BY <1>9, <1>1 DEF NoHeader, Headers
<1>14. \A a \in Addrs \ {n, b} : g[a] \in Headers
  <2> SUFFICES ASSUME NEW a \in Addrs \ {n, b} PROVE g[a] \in Headers
    OBVIOUS
  <2>1. f[a] \in Headers
    OBVIOUS
  <2> QED BY <1>10, <1>2, <2>1 DEF Headers
<1>15. g \in [Addrs -> Headers]
  BY <1>11, <1>12, <1>13, <1>14
<1>16. /\ g[b].magic /\ g[b].size = f[b].size + HDR + f[n].size
       /\ g[b].is_free = f[b].is_free /\ g[b].next = f[n].next /\ g[b].prev = f[b].prev
  BY <1>8, <1>2 DEF Headers, blocks_of
<1>17. ~g[n].magic
  BY <1>9 DEF NoHeader
<1>18. \A a \in Addrs \ {n, b} :
         /\ g[a].magic = f[a].magic /\ g[a].size = f[a].size
         /\ g[a].is_free = f[a].is_free /\ g[a].next = f[a].next
         /\ g[a].prev = (IF a = f[n].next THEN b ELSE f[a].prev)
  <2> SUFFICES ASSUME NEW a \in Addrs \ {n, b}
               PROVE  /\ g[a].magic = f[a].magic /\ g[a].size = f[a].size
                      /\ g[a].is_free = f[a].is_free /\ g[a].next = f[a].next
                      /\ g[a].prev = (IF a = f[n].next THEN b ELSE f[a].prev)
    OBVIOUS
  <2>1. f[a] \in Headers
    OBVIOUS
  <2> QED BY <1>10, <2>1 DEF Headers
<1>19. QED
  BY <1>3, <1>5, <1>15, <1>16, <1>17, <1>18 DEF n, g

\* clks_heap_merge_next keeps the tiling.
LEMMA MergeTiles ==
    ASSUME NEW f \in [Addrs -> Headers], Tiles(f), NEW b \in blocks_of(f),
           f[b].next # NULL, f[f[b].next].is_free
    PROVE  /\ Tiles(merge_next(f, b))
           /\ blocks_of(merge_next(f, b)) = blocks_of(f) \ {f[b].next}
<1> DEFINE n == f[b].next
           g == merge_next(f, b)
<1>1. HDR \in Nat \ {0} /\ ARENA \in Nat
  BY HeapAssumption
<1>2. /\ n \in blocks_of(f) /\ n = end_of(f, b) /\ n > b
      /\ ~g[n].magic
      /\ g[b].magic /\ g[b].size = f[b].size + HDR + f[n].size
      /\ g[b].next = f[n].next /\ g[b].prev = f[b].prev
      /\ \A a \in Addrs \ {n, b} :
           /\ g[a].magic = f[a].magic /\ g[a].size = f[a].size /\ g[a].next = f[a].next
           /\ g[a].prev = (IF a = f[n].next THEN b ELSE f[a].prev)
  BY MergeFields
<1>3. \A a \in Addrs : f[a].size \in Nat
  BY DEF Headers
<1>4. b \in Addrs /\ f[b].magic /\ n \in Addrs /\ f[b].next = n /\ n # NULL
  BY <1>2 DEF blocks_of
<1> HIDE DEF n, g
<1>5. blocks_of(g) = blocks_of(f) \ {n} /\ b \in blocks_of(g)
  <2>1. b # n
    BY <1>2, <1>4 DEF Addrs
  <2> QED BY <2>1, <1>2, <1>4 DEF blocks_of
<1>6. \A a \in blocks_of(f) \ {b, n} : end_of(g, a) = end_of(f, a) /\ a \in Addrs
  BY <1>2 DEF blocks_of, end_of
<1>7. end_of(g, b) = end_of(f, n)
  BY <1>1, <1>2, <1>3, <1>4 DEF end_of, Addrs
<1>8. \A a \in blocks_of(f) : end_of(f, a) \in Int /\ a \in Nat /\ a < end_of(f, a)
  BY <1>1, <1>3 DEF end_of, blocks_of, Addrs
<1>9. \A a, c \in blocks_of(f) : a < c => end_of(f, a) <= c
  BY DEF Tiles
<1>10. linked(f, n) /\ linked(f, b)
  BY <1>2 DEF Tiles
<1>11. \A a, c \in blocks_of(g) : a < c => end_of(g, a) <= c
  <2>1. SUFFICES ASSUME NEW a \in blocks_of(g), NEW c \in blocks_of(g), a < c
                 PROVE  end_of(g, a) <= c
    OBVIOUS
  <2>2. a \in blocks_of(f) /\ c \in blocks_of(f) /\ a # n /\ c # n
    BY <1>5
  <2>3. CASE a = b
    <3>1. n < c
      BY <2>1, <2>2, <2>3, <1>2, <1>8, <1>9
    <3> QED BY <3>1, <2>2, <2>3, <1>2, <1>7, <1>9
  <2>4. CASE a # b
    BY <2>1, <2>2, <2>4, <1>6, <1>9
  <2> QED BY <2>3, <2>4
<1>12. ASSUME f[n].next # NULL
       PROVE  /\ f[n].next \in blocks_of(g) /\ f[n].next # b
              /\ g[f[n].next].prev = b
  <2>1. f[n].next \in blocks_of(f) /\ f[n].next = end_of(f, n)
    BY <1>10, <1>12 DEF linked
  <2>2. f[n].next > n
    BY <2>1, <1>2, <1>8
  <2>3. f[n].next # n /\ f[n].next # b
    BY <2>1, <2>2, <1>2, <1>8
  <2> QED BY <2>1, <2>3, <1>2, <1>5, <1>6
<1>13. linked(g, b)
  <2>1. f[b].prev # n /\ (b # 0 => f[b].prev \in blocks_of(f) /\ f[f[b].prev].next = b)
    <3>1. b # 0 => f[b].prev \in blocks_of(f) /\ f[f[b].prev].next = b
      BY <1>10 DEF linked
    <3>2. f[b].prev # n
      <4>1. CASE b = 0
        BY <4>1, <1>10, <1>4 DEF linked
      <4>2. CASE b # 0
        <5>1. f[n].next # b
          BY <1>2, <1>4, <1>10, <1>8 DEF linked, NULL, Addrs
        <5> QED BY <5>1, <4>2, <3>1
      <4> QED BY <4>1, <4>2
    <3> QED BY <3>1, <3>2
  <2>2. b # 0 => f[b].prev \in blocks_of(f) \ {b, n}
    <3>1. f[b].next # b
      BY <1>2, <1>4 DEF Addrs
    <3> QED BY <3>1, <2>1
  <2>3. b # 0 => g[f[b].prev].next = b /\ f[b].prev \in blocks_of(g)
    BY <2>1, <2>2, <1>2, <1>5, <1>6
  <2>4. b = 0 => g[b].prev = NULL
    BY <1>2, <1>10 DEF linked
  <2>5. /\ end_of(g, b) <= ARENA
        /\ g[b].next = (IF end_of(g, b) = ARENA THEN NULL ELSE end_of(g, b))
    BY <1>2, <1>7, <1>10 DEF linked
  <2> QED BY <2>3, <2>4, <2>5, <1>2, <1>12 DEF linked
<1>14. ASSUME NEW a \in blocks_of(f) \ {b, n} PROVE linked(g, a)
  <2>1. linked(f, a)
    BY DEF Tiles
  <2>2. g[a].next = f[a].next /\ g[a].prev = (IF a = f[n].next THEN b ELSE f[a].prev)
    BY <1>2, <1>6
  <2>3. ASSUME f[a].next # NULL PROVE g[a].next \in blocks_of(g) /\ g[g[a].next].prev = a
    <3>1. f[a].next \in blocks_of(f) /\ f[f[a].next].prev = a
      BY <2>1, <2>3 DEF linked
    <3>2. f[a].next # n
      <4>1. f[n].prev = b
        BY <1>10, <1>4 DEF linked
      <4> QED BY <4>1, <3>1
    <3>3. CASE f[a].next = b
      BY <3>1, <3>3, <2>2, <1>2, <1>5
    <3>4. CASE f[a].next # b
      <4>1. f[a].next # f[n].next
        <5>1. f[n].next # NULL => f[f[n].next].prev = n
          BY <1>10 DEF linked
        <5> QED BY <5>1, <3>1, <2>3
      <4> QED BY <4>1, <3>1, <3>2, <3>4, <2>2, <1>2, <1>5, <1>6
    <3> QED BY <3>3, <3>4
  <2>4. ASSUME a # 0 PROVE g[a].prev \in blocks_of(g) /\ g[g[a].prev].next = a
    <3>1. f[a].prev \in blocks_of(f) /\ f[f[a].prev].next = a
      BY <2>1, <2>4 DEF linked
    <3>2. CASE a = f[n].next
      BY <3>2, <2>2, <1>2, <1>5
    <3>3. CASE a # f[n].next
      <4>1. f[a].prev # n /\ f[a].prev # b
        BY <3>1, <3>3, <1>4
      <4> QED BY <4>1, <3>1, <3>3, <2>2, <1>2, <1>5, <1>6
    <3> QED BY <3>2, <3>3
  <2>5. a = 0 => g[a].prev = NULL
    <3>1. a = f[n].next => a # 0
      BY <1>2, <1>8, <1>10, <2>1 DEF linked, NULL
    <3> QED BY <3>1, <2>1, <2>2 DEF linked
  <2> QED BY <2>1, <2>2, <2>3, <2>4, <2>5, <1>6 DEF linked
<1>15. 0 \in blocks_of(g)
  <2>1. n # 0
    BY <1>2, <1>4 DEF Addrs
  <2> QED BY <2>1, <1>5 DEF Tiles
<1>16. \A a \in blocks_of(g) : linked(g, a)
  BY <1>5, <1>13, <1>14
<1> QED BY <1>5, <1>11, <1>15, <1>16 DEF Tiles, n, g

\* Marking a block free or used changes nothing else.
LEMMA FlagTiles ==
    ASSUME NEW f \in [Addrs -> Headers], NEW b \in Addrs, NEW flag \in BOOLEAN
    PROVE  LET g == [f EXCEPT ![b].is_free = flag]
           IN  /\ g \in [Addrs -> Headers]
               /\ g[b].is_free = flag
               /\ \A a \in Addrs : /\ g[a].magic = f[a].magic /\ g[a].size = f[a].size
                                   /\ g[a].next = f[a].next /\ g[a].prev = f[a].prev
               /\ \A a \in Addrs \ {b} : g[a].is_free = f[a].is_free
               /\ blocks_of(g) = blocks_of(f)
               /\ Tiles(f) => Tiles(g)
<1> DEFINE g == [f EXCEPT ![b].is_free = flag]
<1>1. g[b] = [f[b] EXCEPT !.is_free = flag] /\ \A a \in Addrs \ {b} : g[a] = f[a]
  OBVIOUS
<1>2. f[b] \in Headers /\ DOMAIN g = Addrs /\ g = [a \in Addrs |-> g[a]]
  OBVIOUS
<1> HIDE DEF g
<1>3. /\ g[b].is_free = flag
      /\ g[b].magic = f[b].magic /\ g[b].size = f[b].size
      /\ g[b].next = f[b].next /\ g[b].prev = f[b].prev
  BY <1>1, <1>2 DEF Headers
<1>4. g[b] \in Headers
  BY <1>1, <1>2 DEF Headers
<1>5. g \in [Addrs -> Headers]
  BY <1>1, <1>2, <1>4
<1>6. \A a \in Addrs : /\ g[a].magic = f[a].magic /\ g[a].size = f[a].size
                       /\ g[a].next = f[a].next /\ g[a].prev = f[a].prev
  BY <1>1, <1>3
<1>7. blocks_of(g) = blocks_of(f)
  BY <1>6 DEF blocks_of
<1>8. \A a \in blocks_of(f) : a \in Addrs /\ end_of(g, a) = end_of(f, a)
  BY <1>6 DEF blocks_of, end_of
<1>9. ASSUME Tiles(f) PROVE Tiles(g)
  <2>1. ASSUME NEW a \in blocks_of(f) PROVE linked(g, a)
    <3>1. linked(f, a)
      BY <1>9 DEF Tiles
    <3>2. f[a].next # NULL => f[a].next \in Addrs
      BY <3>1 DEF linked, blocks_of
    <3>3. a # 0 => f[a].prev \in Addrs
      BY <3>1 DEF linked, blocks_of
    <3> QED BY <3>1, <3>2, <3>3, <1>6, <1>7, <1>8 DEF linked
  <2> QED BY <2>1, <1>7, <1>8, <1>9 DEF Tiles
<1> QED BY <1>1, <1>3, <1>5, <1>6, <1>7, <1>9 DEF g

\* What merge_next does to a free block, whether or not its successor is free.
LEMMA MergeFree ==
    ASSUME NEW f \in [Addrs -> Headers], Tiles(f), NEW b \in blocks_of(f), f[b].is_free
    PROVE  LET g == merge_next(f, b)
           IN  /\ g \in [Addrs -> Headers] /\ Tiles(g)
               /\ b \in blocks_of(g) /\ blocks_of(g) \subseteq blocks_of(f)
               /\ \A a \in blocks_of(g) : g[a].is_free = f[a].is_free
               /\ \A a \in blocks_of(f) : ~f[a].is_free => /\ a \in blocks_of(g)
                                                           /\ g[a].size = f[a].size
               /\ \A a \in blocks_of(g) \ {b} : g[a].next = f[a].next
               /\ g[b].prev = f[b].prev
               /\ \/ /\ f[b].next = NULL \/ ~f[f[b].next].is_free
                     /\ g = f
                  \/ /\ f[b].next \in blocks_of(f) /\ f[f[b].next].is_free
                     /\ g[b].next = f[f[b].next].next
<1> DEFINE n == f[b].next
           g == merge_next(f, b)
<1>1. CASE n = NULL \/ ~f[n].is_free
  <2>1. g = f
    BY <1>1 DEF merge_next
  <2> QED BY <2>1, <1>1
<1>2. CASE n # NULL /\ f[n].is_free
  <2>0. f[b].next # NULL /\ f[f[b].next].is_free
    BY <1>2
  <2>1. /\ n \in blocks_of(f) /\ n = end_of(f, b) /\ n > b
        /\ g \in [Addrs -> Headers]
        /\ ~g[n].magic
        /\ g[b].magic /\ g[b].size = f[b].size + HDR + f[n].size
        /\ g[b].is_free = f[b].is_free
        /\ g[b].next = f[n].next /\ g[b].prev = f[b].prev
        /\ \A a \in Addrs \ {n, b} :
             /\ g[a].magic = f[a].magic /\ g[a].size = f[a].size
             /\ g[a].is_free = f[a].is_free /\ g[a].next = f[a].next
             /\ g[a].prev = (IF a = f[n].next THEN b ELSE f[a].prev)
    BY <2>0, MergeFields, Zenon
  <2>2. Tiles(g) /\ blocks_of(g) = blocks_of(f) \ {n}
    BY <2>0, MergeTiles
  <2>3. b # n
    BY <2>1 DEF blocks_of, Addrs
  <2>4. \A a \in blocks_of(f) : a \in Addrs
    BY DEF blocks_of
  <2> HIDE DEF g
  <2> QED BY <1>2, <2>1, <2>2, <2>3, <2>4 DEF g
<1> QED BY <1>1, <1>2

\* The successor of a block is another block, which points back.
LEMMA NextBlock ==
    ASSUME NEW f \in [Addrs -> Headers], Tiles(f), NEW b \in blocks_of(f), f[b].next # NULL
    PROVE  /\ f[b].next \in blocks_of(f) /\ f[b].next # b /\ f[f[b].next].prev = b
<1>1. linked(f, b) /\ b \in Nat /\ f[b].size \in Nat /\ HDR \in Nat \ {0}
  BY HeapAssumption DEF Tiles, blocks_of, Addrs, Headers
<1>2. f[b].next = end_of(f, b) /\ f[b].next \in blocks_of(f) /\ f[f[b].next].prev = b
  BY <1>1 DEF linked
<1>3. end_of(f, b) # b
  BY <1>1 DEF end_of
<1> QED BY <1>2, <1>3

\* What kmalloc's split does to a free block that is large enough, whether or
\* not it leaves a rest.
LEMMA SplitFree ==
    ASSUME NEW f \in [Addrs -> Headers], Tiles(f), NEW b \in blocks_of(f), f[b].is_free,
           NEW need \in Nat, f[b].size >= need
    PROVE  LET g == split_block(f, b, need)
           IN  /\ g \in [Addrs -> Headers] /\ Tiles(g)
               /\ blocks_of(f) \subseteq blocks_of(g)
               /\ g[b].size >= need /\ g[b].size < need + HDR + ALIGN
               /\ \A a \in blocks_of(f) \ {b} : /\ g[a].is_free = f[a].is_free
                                                /\ g[a].size = f[a].size
                                                /\ g[a].next = f[a].next
               /\ \A a \in blocks_of(g) \ blocks_of(f) : g[a].is_free /\ g[a].next = f[b].next
<1> DEFINE n == b + HDR + need
           g == split_block(f, b, need)
<1>1. HDR \in Nat \ {0} /\ ALIGN \in Nat \ {0} /\ f[b].size \in Nat
  BY HeapAssumption DEF blocks_of, Headers
<1>2. CASE f[b].size < need + HDR + ALIGN
  <2>1. g = f
    BY <1>2 DEF split_block
  <2> QED BY <2>1, <1>2
<1>3. CASE f[b].size >= need + HDR + ALIGN
  <2>1. /\ n \in Addrs /\ n \notin blocks_of(f)
        /\ g \in [Addrs -> Headers]
        /\ g[n].magic /\ g[n].is_free /\ g[n].next = f[b].next
        /\ g[b].magic /\ g[b].size = need
        /\ \A a \in Addrs \ {n, b} :
             /\ g[a].magic = f[a].magic /\ g[a].size = f[a].size
             /\ g[a].is_free = f[a].is_free /\ g[a].next = f[a].next
    BY <1>3, SplitFields
  <2>2. Tiles(g)
    BY <1>3, SplitTiles
  <2> HIDE DEF n, g
  <2>3. b \in Addrs /\ f[b].magic
    BY DEF blocks_of
  <2>4. blocks_of(g) = blocks_of(f) \cup {n}
    BY <2>1, <2>3 DEF blocks_of
  <2>5. \A a \in blocks_of(f) \ {b} : a \in Addrs \ {n, b}
    BY <2>1 DEF blocks_of
  <2>6. g[b].size >= need /\ g[b].size < need + HDR + ALIGN
    BY <2>1, <1>1
  <2> QED BY <2>1, <2>2, <2>4, <2>5, <2>6 DEF g
<1> QED BY <1>1, <1>2, <1>3

\* The free blocks whose successor is free too: Coalesced says there is none.
FreePairs(f) == {a \in blocks_of(f) : f[a].is_free /\ f[a].next # NULL /\ f[f[a].next].is_free}

\* Taking a free block out of a coalesced list leaves it coalesced.
LEMMA TakeCoalesced ==
    ASSUME NEW f \in [Addrs -> Headers], Tiles(f), FreePairs(f) = {},
           NEW b \in blocks_of(f), f[b].is_free, NEW need \in Nat, f[b].size >= need
    PROVE  LET h == [split_block(f, b, need) EXCEPT ![b].is_free = FALSE]
           IN  /\ h \in [Addrs -> Headers] /\ Tiles(h) /\ FreePairs(h) = {}
               /\ blocks_of(f) \subseteq blocks_of(h)
               /\ ~h[b].is_free /\ h[b].size >= need /\ h[b].size < need + HDR + ALIGN
               /\ \A a \in blocks_of(f) \ {b} : h[a].is_free = f[a].is_free /\ h[a].size = f[a].size
               /\ \A a \in blocks_of(h) \ blocks_of(f) : h[a].is_free
<1> DEFINE g == split_block(f, b, need)
           h == [g EXCEPT ![b].is_free = FALSE]
<1>1. /\ g \in [Addrs -> Headers] /\ Tiles(g)
      /\ blocks_of(f) \subseteq blocks_of(g)
      /\ g[b].size >= need /\ g[b].size < need + HDR + ALIGN
      /\ \A a \in blocks_of(f) \ {b} : /\ g[a].is_free = f[a].is_free
                                       /\ g[a].size = f[a].size
                                       /\ g[a].next = f[a].next
      /\ \A a \in blocks_of(g) \ blocks_of(f) : g[a].is_free /\ g[a].next = f[b].next
  BY SplitFree, Zenon
<1> HIDE DEF g
<1>2. b \in Addrs
  BY DEF blocks_of
<1>3. /\ h \in [Addrs -> Headers]
      /\ h[b].is_free = FALSE
      /\ \A a \in Addrs : /\ h[a].magic = g[a].magic /\ h[a].size = g[a].size
                          /\ h[a].next = g[a].next /\ h[a].prev = g[a].prev
      /\ \A a \in Addrs \ {b} : h[a].is_free = g[a].is_free
      /\ blocks_of(h) = blocks_of(g)
      /\ Tiles(g) => Tiles(h)
  BY <1>1, <1>2, FlagTiles, Zenon
<1> HIDE DEF h
<1>4. \A a \in blocks_of(g) : a \in Addrs
  BY DEF blocks_of
<1>5. \A a \in blocks_of(f) \ {b} : /\ h[a].is_free = f[a].is_free /\ h[a].size = f[a].size
                                    /\ h[a].next = f[a].next
  BY <1>1, <1>3, <1>4
<1>6. \A a \in blocks_of(h) \ blocks_of(f) : h[a].is_free /\ h[a].next = f[b].next
  BY <1>1, <1>3, <1>4
<1>7. ASSUME NEW a \in FreePairs(h) PROVE FALSE
  <2>1. a \in blocks_of(h) /\ h[a].is_free /\ h[a].next # NULL /\ h[h[a].next].is_free /\ a # b
    BY <1>3 DEF FreePairs
  <2>2. PICK o \in blocks_of(f) : f[o].is_free /\ f[o].next = h[a].next
    <3>1. CASE a \in blocks_of(f)
      BY <3>1, <2>1, <1>5
    <3>2. CASE a \notin blocks_of(f)
      BY <3>2, <2>1, <1>6
    <3> QED BY <3>1, <3>2
  <2>3. f[o].next \in blocks_of(f)
    BY <2>1, <2>2, NextBlock
  <2>4. ~f[f[o].next].is_free
    BY <2>1, <2>2 DEF FreePairs
  <2>5. f[o].next # b
    BY <2>4
  <2> QED BY <2>1, <2>2, <2>3, <2>4, <2>5, <1>5
<1>8. b \in blocks_of(h) /\ h[b].size >= need /\ h[b].size < need + HDR + ALIGN
  BY <1>1, <1>2, <1>3
<1>9. FreePairs(h) = {}
  BY <1>7
<1> QED BY <1>1, <1>3, <1>5, <1>6, <1>8, <1>9 DEF g, h

\* Freeing a block merges it with its neighbours, so that the list is coalesced
\* again, and leaves the blocks in use alone.
LEMMA FreeCoalesced ==
    ASSUME NEW f \in [Addrs -> Headers], Tiles(f), FreePairs(f) = {},
           NEW b \in blocks_of(f), ~f[b].is_free
    PROVE  LET freed == [f EXCEPT ![b].is_free = TRUE]
               joined == merge_next(freed, b)
               p == joined[b].prev
               k == IF p # NULL /\ joined[p].is_free THEN merge_next(joined, p) ELSE joined
           IN  /\ k \in [Addrs -> Headers] /\ Tiles(k) /\ FreePairs(k) = {}
               /\ \A a \in blocks_of(f) \ {b} : ~f[a].is_free =>
                    a \in blocks_of(k) /\ ~k[a].is_free /\ k[a].size = f[a].size
               /\ \A a \in blocks_of(k) : ~k[a].is_free =>
                    a \in blocks_of(f) /\ ~f[a].is_free /\ a # b
<1> DEFINE freed == [f EXCEPT ![b].is_free = TRUE]
           joined == merge_next(freed, b)
           p == joined[b].prev
           k == IF p # NULL /\ joined[p].is_free THEN merge_next(joined, p) ELSE joined
           Coalesces(m) == /\ m \in [Addrs -> Headers] /\ Tiles(m) /\ FreePairs(m) = {}
                           /\ \A a \in blocks_of(f) \ {b} : ~f[a].is_free =>
                                a \in blocks_of(m) /\ ~m[a].is_free /\ m[a].size = f[a].size
                           /\ \A a \in blocks_of(m) : ~m[a].is_free =>
                                a \in blocks_of(f) /\ ~f[a].is_free /\ a # b
<1>1. b \in Addrs /\ \A a \in blocks_of(f) : a \in Addrs
  BY DEF blocks_of
<1>2. /\ freed \in [Addrs -> Headers]
      /\ freed[b].is_free = TRUE
      /\ \A a \in Addrs : /\ freed[a].magic = f[a].magic /\ freed[a].size = f[a].size
                          /\ freed[a].next = f[a].next /\ freed[a].prev = f[a].prev
      /\ \A a \in Addrs \ {b} : freed[a].is_free = f[a].is_free
      /\ blocks_of(freed) = blocks_of(f)
      /\ Tiles(f) => Tiles(freed)
  BY <1>1, FlagTiles, Zenon
<1> HIDE DEF freed
<1>3. Tiles(freed) /\ b \in blocks_of(freed) /\ freed[b].is_free
  BY <1>2
<1>4. /\ joined \in [Addrs -> Headers] /\ Tiles(joined)
      /\ b \in blocks_of(joined) /\ blocks_of(joined) \subseteq blocks_of(freed)
      /\ \A a \in blocks_of(joined) : joined[a].is_free = freed[a].is_free
      /\ \A a \in blocks_of(freed) : ~freed[a].is_free => /\ a \in blocks_of(joined)
                                                          /\ joined[a].size = freed[a].size
      /\ \A a \in blocks_of(joined) \ {b} : joined[a].next = freed[a].next
      /\ joined[b].prev = freed[b].prev
      /\ \/ /\ freed[b].next = NULL \/ ~freed[freed[b].next].is_free
            /\ joined = freed
         \/ /\ freed[b].next \in blocks_of(freed) /\ freed[freed[b].next].is_free
            /\ joined[b].next = freed[freed[b].next].next
  BY <1>2, <1>3, MergeFree, Zenon
<1> HIDE DEF joined
<1>5. \A a \in FreePairs(joined) : joined[a].next = b
  <2>1. SUFFICES ASSUME NEW a \in FreePairs(joined), joined[a].next # b PROVE FALSE
    OBVIOUS
  <2>2. a \in blocks_of(joined) /\ joined[a].is_free /\ joined[a].next # NULL
        /\ joined[joined[a].next].is_free
    BY DEF FreePairs
  <2>3. joined[a].next \in blocks_of(joined) /\ joined[a].next # a
    BY <2>2, <1>4, NextBlock
  <2>4. f[joined[a].next].is_free
    BY <2>1, <2>2, <2>3, <1>1, <1>2, <1>4
  <2>5. CASE a # b
    <3>1. f[a].is_free /\ f[a].next = joined[a].next /\ a \in blocks_of(f)
      BY <2>2, <2>5, <1>1, <1>2, <1>4
    <3> QED BY <3>1, <2>2, <2>4 DEF FreePairs
  <2>6. CASE a = b
    <3>1. CASE joined = freed /\ (freed[b].next = NULL \/ ~freed[freed[b].next].is_free)
      BY <3>1, <2>2, <2>6
    <3>2. CASE /\ freed[b].next \in blocks_of(freed) /\ freed[freed[b].next].is_free
               /\ joined[b].next = freed[freed[b].next].next
      <4> DEFINE n == freed[b].next
      <4>1. n # NULL
        BY <3>2, <1>1, <1>2 DEF Addrs, NULL
      <4>2. n # b
        BY <4>1, <1>2, <1>3, NextBlock
      <4>3. n \in blocks_of(f) /\ f[n].is_free /\ f[n].next = joined[b].next
        BY <4>2, <3>2, <1>1, <1>2
      <4> QED BY <4>3, <2>2, <2>4, <2>6 DEF FreePairs
    <3> QED BY <3>1, <3>2, <1>4
  <2> QED BY <2>5, <2>6
<1>6. \A a \in FreePairs(joined) : a = p /\ a \in Addrs /\ joined[a].is_free
  <2>1. SUFFICES ASSUME NEW a \in FreePairs(joined)
                 PROVE  a = p /\ a \in Addrs /\ joined[a].is_free
    OBVIOUS
  <2>2. a \in blocks_of(joined) /\ joined[a].is_free /\ joined[a].next # NULL
    BY DEF FreePairs
  <2>3. joined[joined[a].next].prev = a
    BY <2>2, <1>4, NextBlock
  <2> QED BY <2>2, <2>3, <1>5 DEF blocks_of
<1>7. \A a \in blocks_of(f) \ {b} : ~f[a].is_free =>
        a \in blocks_of(joined) /\ ~joined[a].is_free /\ joined[a].size = f[a].size
  BY <1>1, <1>2, <1>4
<1>8. \A a \in blocks_of(joined) : ~joined[a].is_free =>
        a \in blocks_of(f) /\ ~f[a].is_free /\ a # b
  BY <1>1, <1>2, <1>4
<1>9. ASSUME p # NULL /\ joined[p].is_free PROVE Coalesces(k)
  <2>1. p \in blocks_of(joined) /\ joined[p].next = b
    <3>1. linked(joined, b)
      BY <1>4 DEF Tiles
    <3> QED BY <3>1, <1>9 DEF linked
  <2>2. k = merge_next(joined, p)
    BY <1>9
  <2> HIDE DEF p, k
  <2>3. /\ k \in [Addrs -> Headers] /\ Tiles(k)
        /\ p \in blocks_of(k) /\ blocks_of(k) \subseteq blocks_of(joined)
        /\ \A a \in blocks_of(k) : k[a].is_free = joined[a].is_free
        /\ \A a \in blocks_of(joined) : ~joined[a].is_free => /\ a \in blocks_of(k)
                                                              /\ k[a].size = joined[a].size
        /\ \A a \in blocks_of(k) \ {p} : k[a].next = joined[a].next
        /\ k[p].prev = joined[p].prev
        /\ \/ /\ joined[p].next = NULL \/ ~joined[joined[p].next].is_free
              /\ k = joined
           \/ /\ joined[p].next \in blocks_of(joined) /\ joined[joined[p].next].is_free
              /\ k[p].next = joined[joined[p].next].next
    <3>1. joined \in [Addrs -> Headers] /\ Tiles(joined) /\ joined[p].is_free
      BY <1>4, <1>9
    <3> QED BY <2>1, <2>2, <3>1, MergeFree, Zenon
  <2>4. joined[b].is_free /\ b # NULL
    BY <1>1, <1>2, <1>4 DEF Addrs, NULL
  <2>5. k[p].next = joined[b].next
    BY <2>1, <2>3, <2>4
  <2>6. ASSUME NEW a \in FreePairs(k) PROVE FALSE
    <3>1. a \in blocks_of(k) /\ k[a].is_free /\ k[a].next # NULL /\ k[k[a].next].is_free
      BY DEF FreePairs
    <3>2. k[a].next \in blocks_of(k)
      BY <3>1, <2>3, NextBlock
    <3>3. joined[a].is_free /\ joined[k[a].next].is_free /\ a \in blocks_of(joined)
      BY <3>1, <3>2, <2>3
    <3>4. CASE a # p
      <4>1. a \in FreePairs(joined)
        BY <3>1, <3>3, <3>4, <2>3 DEF FreePairs
      <4> QED BY <4>1, <3>4, <1>6
    <3>5. CASE a = p
      <4>1. b \in FreePairs(joined)
        BY <3>1, <3>3, <3>5, <2>4, <2>5, <1>4 DEF FreePairs
      <4>2. joined[b].next # NULL
        BY <4>1 DEF FreePairs
      <4>3. joined[b].next # b
        BY <4>2, <1>4, NextBlock
      <4> QED BY <4>1, <4>3, <1>5
    <3> QED BY <3>4, <3>5
  <2>7. FreePairs(k) = {}
    BY <2>6
  <2>8. \A a \in blocks_of(f) \ {b} : ~f[a].is_free =>
          a \in blocks_of(k) /\ ~k[a].is_free /\ k[a].size = f[a].size
    BY <2>3, <1>7
  <2>9. \A a \in blocks_of(k) : ~k[a].is_free => a \in blocks_of(f) /\ ~f[a].is_free /\ a # b
    BY <2>3, <1>8
  <2> QED BY <2>3, <2>7, <2>8, <2>9
<1>10. ASSUME ~(p # NULL /\ joined[p].is_free) PROVE Coalesces(k)
  <2>1. k = joined
    BY <1>10
  <2>2. FreePairs(joined) = {}
    BY <1>6, <1>10 DEF Addrs, NULL
  <2> HIDE DEF p, k
  <2> QED BY <2>1, <2>2, <1>4, <1>7, <1>8
<1>11. Coalesces(k)
  BY <1>9, <1>10
<1> QED BY <1>11 DEF p, k, joined, freed

-----------------------------------------------------------------------------
(***************************************************************************)
(* Each step keeps the invariant.                                          *)
(***************************************************************************)
LEMMA InitInv == Init => HeapInv
<1> SUFFICES ASSUME Init PROVE HeapInv
  OBVIOUS
<1>1. HDR \in Nat \ {0} /\ ARENA \in Nat /\ HDR < ARENA /\ 0 \in Addrs
  BY HeapAssumption DEF Addrs
<1> DEFINE first == [magic |-> TRUE, size |-> ARENA - HDR, is_free |-> TRUE,
                     next |-> NULL, prev |-> NULL]
<1>2. first \in Headers /\ NoHeader \in Headers
  <2>1. ARENA - HDR \in 0 .. ARENA
    BY <1>1
  <2>2. 0 \in 0 .. ARENA
    BY <1>1
  <2> QED BY <2>1, <2>2 DEF Headers, NoHeader
<1>3. block[0] = first /\ \A a \in Addrs \ {0} : block[a] = NoHeader
  BY <1>1 DEF Init
<1>4. HeapTypeOK
  <2>1. block \in [Addrs -> Headers]
    BY <1>2 DEF Init
  <2> QED BY <2>1 DEF Init, HeapTypeOK, Idle
<1>5. Blocks = {0}
  BY <1>1, <1>3 DEF Blocks, blocks_of, NoHeader
<1>6. block[0].size = ARENA - HDR /\ block[0].next = NULL /\ block[0].prev = NULL /\ block[0].is_free
  BY <1>3
<1>7. Tiling
  <2>1. end_of(block, 0) = ARENA
    BY <1>1, <1>6 DEF end_of
  <2>2. linked(block, 0)
    BY <2>1, <1>1, <1>6 DEF linked
  <2> QED BY <1>5, <2>2 DEF Tiling, Tiles, Blocks
<1>8. Coalesced /\ HeldBlocks
  BY <1>5, <1>6 DEF Init, Coalesced, HeldBlocks
<1>9. FirstFit /\ WalkOnList
  BY DEF Init, Idle, FirstFit, WalkOnList
<1> QED BY <1>4, <1>7, <1>8, <1>9 DEF HeapInv

LEMMA CallInv ==
    ASSUME HeapInv, NEW size \in Sizes, KmallocCall(size) PROVE HeapInv'
<1>1. 0 \in Blocks /\ 0 \in Addrs
  BY DEF HeapInv, Tiling, Tiles, Blocks, blocks_of
<1>2. walk' = [cur |-> 0, size |-> size, busy |-> TRUE] /\ size # 0
      /\ UNCHANGED <<block, used_bytes, live>>
  BY DEF KmallocCall
<1>3. HeapTypeOK'
  BY <1>1, <1>2 DEF HeapInv, HeapTypeOK
<1>4. Tiling' /\ Coalesced' /\ HeldBlocks'
  BY <1>2 DEF HeapInv, Tiling, Tiles, linked, end_of, Coalesced, HeldBlocks, Blocks, blocks_of
<1>5. FirstFit'
  <2>1. \A b \in Blocks' : ~(b < 0)
    BY DEF Blocks, blocks_of, Addrs
  <2> QED BY <1>2, <2>1 DEF FirstFit, NULL
<1>6. WalkOnList'
  BY <1>1, <1>2 DEF WalkOnList, Blocks, blocks_of
<1> QED BY <1>3, <1>4, <1>5, <1>6 DEF HeapInv

LEMMA SkipInv ==
    ASSUME HeapInv, KmallocSkip PROVE HeapInv'
<1> DEFINE c == walk.cur
<1>1. /\ walk.busy /\ c # NULL /\ ~fits(c, align_up(walk.size))
      /\ walk' = [walk EXCEPT !.cur = block[c].next]
      /\ UNCHANGED <<block, used_bytes, live>>
  BY DEF KmallocSkip
<1>2. c \in Blocks /\ c \in Addrs /\ walk.size # 0
  BY <1>1 DEF HeapInv, WalkOnList, Blocks, blocks_of
<1>3. linked(block, c) /\ \A a, b \in Blocks : a < b => end_of(block, a) <= b
  BY <1>2 DEF HeapInv, Tiling, Tiles, Blocks
<1>4. block[c] \in Headers /\ walk \in [cur : Addrs \cup {NULL}, size : Sizes \cup {0}, busy : BOOLEAN]
  BY <1>2 DEF HeapInv, HeapTypeOK
<1>5. walk'.cur = block[c].next /\ walk'.size = walk.size /\ walk'.busy
      /\ block[c].next \in Addrs \cup {NULL}
  BY <1>1, <1>4 DEF Headers
<1>6. HeapTypeOK'
  <2>1. walk' \in [cur : Addrs \cup {NULL}, size : Sizes \cup {0}, busy : BOOLEAN]
    BY <1>1, <1>4, <1>5
  <2> QED BY <2>1, <1>1 DEF HeapInv, HeapTypeOK
<1>7. Tiling' /\ Coalesced' /\ HeldBlocks'
  BY <1>1 DEF HeapInv, Tiling, Tiles, linked, end_of, Coalesced, HeldBlocks, Blocks, blocks_of
<1>8. WalkOnList'
  <2>1. block[c].next # NULL => block[c].next \in Blocks
    BY <1>3 DEF linked, Blocks
  <2> QED BY <2>1, <1>1, <1>2, <1>5 DEF WalkOnList, Blocks, blocks_of
<1>9. FirstFit'
  <2>1. ASSUME NEW b \in Blocks, block[c].next = NULL \/ b < block[c].next
        PROVE  ~fits(b, align_up(walk.size))
    <3>1. b \in Nat /\ c \in Nat /\ b < ARENA /\ ARENA \in Nat
      BY <1>2, HeapAssumption DEF Blocks, blocks_of, Addrs
    <3>2. ~(c < b)
      <4>1. SUFFICES ASSUME c < b PROVE FALSE
        OBVIOUS
      <4>2. end_of(block, c) <= b
        BY <4>1, <1>2, <1>3
      <4>3. end_of(block, c) \in Int
        BY <3>1, <1>4, HeapAssumption DEF end_of, Headers
      <4>4. block[c].next = IF end_of(block, c) = ARENA THEN NULL ELSE end_of(block, c)
        BY <1>3 DEF linked
      <4>5. end_of(block, c) # ARENA
        BY <4>2, <4>3, <3>1
      <4>6. end_of(block, c) > 0
        BY <3>1, <1>4, HeapAssumption DEF end_of, Headers
      <4>7. block[c].next = end_of(block, c) /\ block[c].next # NULL
        BY <4>2, <4>3, <4>4, <4>5, <4>6 DEF NULL
      <4> QED BY <4>2, <4>3, <4>7, <2>1, <3>1
    <3>3. CASE b = c
      BY <3>3, <1>1
    <3>4. CASE b < c
      BY <3>4, <1>1 DEF HeapInv, FirstFit
    <3> QED BY <3>1, <3>2, <3>3, <3>4
  <2>2. \A b \in Addrs : fits(b, align_up(walk.size))' <=> fits(b, align_up(walk.size))
    BY <1>1, <1>5 DEF fits, align_up
  <2>3. Blocks' = Blocks /\ Blocks \subseteq Addrs
    BY <1>1 DEF Blocks, blocks_of
  <2> QED BY <2>1, <2>2, <2>3, <1>5 DEF FirstFit
<1> QED BY <1>6, <1>7, <1>8, <1>9 DEF HeapInv

LEMMA FailInv ==
    ASSUME HeapInv, KmallocFail PROVE HeapInv'
<1>1. walk' = Idle /\ UNCHANGED <<block, used_bytes, live>>
  BY DEF KmallocFail
<1>2. HeapTypeOK'
  BY <1>1 DEF HeapInv, HeapTypeOK, Idle
<1>3. Tiling' /\ Coalesced' /\ HeldBlocks'
  BY <1>1 DEF HeapInv, Tiling, Tiles, linked, end_of, Coalesced, HeldBlocks, Blocks, blocks_of
<1>4. FirstFit' /\ WalkOnList'
  BY <1>1 DEF FirstFit, WalkOnList, Idle
<1> QED BY <1>2, <1>3, <1>4 DEF HeapInv

\* Coalesced, in the terms of the lemmas above.
LEMMA CoalescedPairs == Coalesced <=> FreePairs(block) = {}
BY DEF Coalesced, FreePairs, Blocks

LEMMA TakeInv ==
    ASSUME HeapInv, KmallocTake PROVE HeapInv'
<1> DEFINE c == walk.cur
           need == align_up(walk.size)
           h == [split_block(block, c, need) EXCEPT ![c].is_free = FALSE]
<1>1. /\ walk.busy /\ c # NULL /\ block[c].is_free /\ block[c].size >= need
      /\ block' = h
      /\ used_bytes' = used_bytes + split_block(block, c, need)[c].size
      /\ live' = [live EXCEPT ![c] = walk.size] /\ walk' = Idle
  BY DEF KmallocTake, fits
<1>2. c \in blocks_of(block) /\ c \in Addrs /\ walk.size # 0
  BY <1>1 DEF HeapInv, WalkOnList, Blocks, blocks_of
<1>3. /\ block \in [Addrs -> Headers] /\ Tiles(block) /\ FreePairs(block) = {}
      /\ walk.size \in Sizes /\ live \in [Addrs -> Sizes \cup {0}] /\ used_bytes \in Nat
  BY <1>2, CoalescedPairs DEF HeapInv, HeapTypeOK, Tiling
<1>4. need \in Nat /\ walk.size \in Nat
  <2>1. need \in Nat
    BY <1>3, AlignUp, Zenon
  <2>2. \A size \in Sizes : size \in Nat
    BY HeapAssumption
  <2> QED BY <2>1, <2>2, <1>3
<1> HIDE DEF c, need
<1>5. /\ h \in [Addrs -> Headers] /\ Tiles(h) /\ FreePairs(h) = {}
      /\ blocks_of(block) \subseteq blocks_of(h)
      /\ ~h[c].is_free /\ h[c].size >= need /\ h[c].size < need + HDR + ALIGN
      /\ \A a \in blocks_of(block) \ {c} : h[a].is_free = block[a].is_free /\ h[a].size = block[a].size
      /\ \A a \in blocks_of(h) \ blocks_of(block) : h[a].is_free
  BY <1>1, <1>2, <1>3, <1>4, TakeCoalesced, Zenon
<1>6. split_block(block, c, need)[c].size \in Nat
  <2>1. split_block(block, c, need) \in [Addrs -> Headers]
    BY <1>1, <1>2, <1>3, <1>4, SplitFree, Zenon
  <2> QED BY <2>1, <1>2 DEF Headers
<1> HIDE DEF h
<1>7. HeapTypeOK'
  <2>1. used_bytes' \in Nat
    BY <1>1, <1>3, <1>6
  <2>2. live' \in [Addrs -> Sizes \cup {0}]
    BY <1>1, <1>3
  <2> QED BY <2>1, <2>2, <1>1, <1>5 DEF HeapTypeOK, Idle
<1>8. Tiling'
  BY <1>1, <1>5 DEF Tiling, Tiles, linked, end_of, blocks_of
<1>9. Coalesced'
  BY <1>1, <1>5 DEF Coalesced, FreePairs, Blocks, blocks_of
<1>10. HeldBlocks'
  <2>1. Blocks' = blocks_of(h) /\ Blocks = blocks_of(block)
    BY <1>1 DEF Blocks, blocks_of
  <2>2. live'[c] = walk.size /\ \A a \in Addrs \ {c} : live'[a] = live[a]
    BY <1>1, <1>2, <1>3
  <2>3. serves(h[c].size, walk.size)
    <3>1. h[c].size \in Nat
      BY <1>2, <1>5 DEF Headers
    <3> QED BY <3>1, <1>3, <1>5, Served DEF need
  <2>4. ASSUME NEW a \in Addrs, live'[a] # 0
        PROVE  a \in blocks_of(h) /\ ~h[a].is_free /\ serves(h[a].size, live'[a])
    <3>1. CASE a = c
      BY <3>1, <2>2, <2>3, <1>2, <1>5
    <3>2. CASE a # c
      <4>1. live'[a] = live[a] /\ live[a] # 0
        BY <3>2, <2>2, <2>4
      <4>2. a \in blocks_of(block) /\ ~block[a].is_free /\ serves(block[a].size, live[a])
        BY <4>1, <2>1 DEF HeapInv, HeldBlocks
      <4> QED BY <4>1, <4>2, <3>2, <1>5
    <3> QED BY <3>1, <3>2
  <2>5. ASSUME NEW a \in blocks_of(h), ~h[a].is_free PROVE live'[a] # 0
    <3>1. CASE a = c
      BY <3>1, <2>2, <1>2
    <3>2. CASE a # c
      <4>1. a \in Blocks /\ a \in Addrs /\ ~block[a].is_free
        BY <3>2, <2>1, <2>5, <1>5 DEF blocks_of
      <4> QED BY <4>1, <3>2, <2>2 DEF HeapInv, HeldBlocks
    <3> QED BY <3>1, <3>2
  <2> QED BY <2>1, <2>4, <2>5, <1>1 DEF HeldBlocks
<1>11. FirstFit' /\ WalkOnList'
  BY <1>1 DEF FirstFit, WalkOnList, Idle
<1> QED BY <1>7, <1>8, <1>9, <1>10, <1>11 DEF HeapInv

LEMMA FreeInv ==
    ASSUME HeapInv, NEW b \in Addrs, Kfree(b) PROVE HeapInv'
<1> DEFINE freed == [block EXCEPT ![b].is_free = TRUE]
           joined == merge_next(freed, b)
           p == joined[b].prev
           k == IF p # NULL /\ joined[p].is_free THEN merge_next(joined, p) ELSE joined
<1>1. live[b] # 0 /\ ~walk.busy /\ live' = [live EXCEPT ![b] = 0] /\ walk' = walk
  BY DEF Kfree
<1>2. b \in blocks_of(block) /\ block[b].magic /\ ~block[b].is_free
  BY <1>1 DEF HeapInv, HeldBlocks, Blocks, blocks_of
<1>3. /\ block' = k
      /\ used_bytes' = IF used_bytes >= block[b].size THEN used_bytes - block[b].size ELSE 0
  BY <1>2 DEF Kfree
<1>4. /\ block \in [Addrs -> Headers] /\ Tiles(block) /\ FreePairs(block) = {}
      /\ live \in [Addrs -> Sizes \cup {0}] /\ used_bytes \in Nat
  BY CoalescedPairs DEF HeapInv, HeapTypeOK, Tiling
<1>5. /\ k \in [Addrs -> Headers] /\ Tiles(k) /\ FreePairs(k) = {}
      /\ \A a \in blocks_of(block) \ {b} : ~block[a].is_free =>
           a \in blocks_of(k) /\ ~k[a].is_free /\ k[a].size = block[a].size
      /\ \A a \in blocks_of(k) : ~k[a].is_free =>
           a \in blocks_of(block) /\ ~block[a].is_free /\ a # b
  BY <1>2, <1>4, FreeCoalesced, Zenon
<1> HIDE DEF k
<1>6. HeapTypeOK'
  <2>1. block[b].size \in Nat
    BY <1>4 DEF Headers
  <2>2. used_bytes' \in Nat
    BY <2>1, <1>3, <1>4
  <2>3. live' \in [Addrs -> Sizes \cup {0}]
    BY <1>1, <1>4
  <2> QED BY <2>2, <2>3, <1>1, <1>3, <1>5 DEF HeapInv, HeapTypeOK
<1>7. Tiling'
  BY <1>3, <1>5 DEF Tiling, Tiles, linked, end_of, blocks_of
<1>8. Coalesced'
  BY <1>3, <1>5 DEF Coalesced, FreePairs, Blocks, blocks_of
<1>9. HeldBlocks'
  <2>1. Blocks' = blocks_of(k) /\ Blocks = blocks_of(block)
    BY <1>3 DEF Blocks, blocks_of
  <2>2. live'[b] = 0 /\ \A a \in Addrs \ {b} : live'[a] = live[a]
    BY <1>1, <1>4
  <2>3. ASSUME NEW a \in Addrs, live'[a] # 0
        PROVE  a \in blocks_of(k) /\ ~k[a].is_free /\ serves(k[a].size, live'[a])
    <3>1. a # b /\ live'[a] = live[a] /\ live[a] # 0
      BY <2>2, <2>3
    <3>2. a \in blocks_of(block) /\ ~block[a].is_free /\ serves(block[a].size, live[a])
      BY <3>1, <2>1 DEF HeapInv, HeldBlocks
    <3> QED BY <3>1, <3>2, <1>5
  <2>4. ASSUME NEW a \in blocks_of(k), ~k[a].is_free PROVE live'[a] # 0
    <3>1. a \in Blocks /\ a \in Addrs /\ ~block[a].is_free /\ a # b
      BY <2>1, <2>4, <1>5 DEF blocks_of
    <3> QED BY <3>1, <2>2 DEF HeapInv, HeldBlocks
  <2> QED BY <2>1, <2>3, <2>4, <1>3 DEF HeldBlocks
<1>10. FirstFit' /\ WalkOnList'
  BY <1>1 DEF FirstFit, WalkOnList
<1> QED BY <1>6, <1>7, <1>8, <1>9, <1>10 DEF HeapInv

LEMMA StutterInv ==
    ASSUME HeapInv, UNCHANGED vars PROVE HeapInv'
<1>1. block' = block /\ used_bytes' = used_bytes /\ walk' = walk /\ live' = live
  BY DEF vars
<1>2. HeapTypeOK'
  BY <1>1 DEF HeapInv, HeapTypeOK
<1>3. Tiling' /\ Coalesced' /\ HeldBlocks'
  BY <1>1 DEF HeapInv, Tiling, Tiles, linked, end_of, Coalesced, HeldBlocks, Blocks, blocks_of
<1>4. FirstFit' /\ WalkOnList'
  BY <1>1 DEF HeapInv, FirstFit, WalkOnList, fits, align_up, Blocks, blocks_of
<1> QED BY <1>2, <1>3, <1>4 DEF HeapInv

-----------------------------------------------------------------------------
(***************************************************************************)
(* The theorems.                                                           *)
(***************************************************************************)
\* Every state of the heap satisfies the inductive invariant.
THEOREM HeapInvariance == Spec => []HeapInv
<1>1. HeapInv /\ [Next]_vars => HeapInv'
  <2> SUFFICES ASSUME HeapInv, [Next]_vars PROVE HeapInv'
    OBVIOUS
  <2>1. ASSUME NEW size \in Sizes, KmallocCall(size) PROVE HeapInv'
    BY <2>1, CallInv
  <2>2. CASE KmallocSkip
    BY <2>2, SkipInv
  <2>3. CASE KmallocTake
    BY <2>3, TakeInv
  <2>4. CASE KmallocFail
    BY <2>4, FailInv
  <2>5. ASSUME NEW b \in Addrs, Kfree(b) PROVE HeapInv'
    BY <2>5, FreeInv
  <2>6. CASE UNCHANGED vars
    BY <2>6, StutterInv
  <2> QED BY <2>1, <2>2, <2>3, <2>4, <2>5, <2>6 DEF Next
<1> QED BY <1>1, InitInv, PTL DEF Spec

\* Whatever is allocated and freed in whatever order, no size or link leaves its
\* range (splitting never underflows, merging never runs past the arena), the
\* blocks tile the arena with the links following the addresses, and clks_kfree
\* leaves no two adjacent free blocks.
THEOREM HeapBlockList == Spec => []BlockList
<1>1. HeapInv => BlockList
  BY DEF HeapInv, BlockList
<1> QED BY <1>1, HeapInvariance, PTL

\* What clks_kmalloc returned stays a block in use until it is freed, nothing else
\* stays in use, and clks_kmalloc passes no free block that would do, so it
\* returns NULL only when there is none.  For every size below WORD: the block has
\* at least the bytes asked for if rounding them up does not wrap, and next to
\* none if it does.
THEOREM HeapRequestsServed == Spec => []RequestsServed
<1>1. HeapInv => RequestsServed
  BY DEF HeapInv, RequestsServed
<1> QED BY <1>1, HeapInvariance, PTL

-----------------------------------------------------------------------------
(***************************************************************************)
(* Sums over the arena.                                                    *)
(***************************************************************************)
\* s is the sums of w below the places up to n.
sums_to(w, s, n) == /\ s \in [0 .. n -> Nat] /\ s[0] = 0
                    /\ \A i \in 1 .. n : s[i] = s[i - 1] + w[i - 1]

LEMMA SumsExist ==
    ASSUME NEW w \in [Addrs -> Nat] PROVE \E s : sums_to(w, s, ARENA)
<1> DEFINE step == [n \in 1 .. ARENA |-> [x \in Nat |-> x + w[n - 1]]]
<1>1. ARENA \in Nat /\ \A n \in 1 .. ARENA : n - 1 \in Addrs /\ n - 1 \in 0 .. ARENA
  BY HeapAssumption DEF Addrs
<1>2. step \in [1 .. ARENA -> [Nat -> Nat]] /\ 0 \in Nat
  BY <1>1
<1>3. \A n \in 1 .. ARENA, x \in Nat : step[n][x] = x + w[n - 1]
  OBVIOUS
<1> HIDE DEF step
<1>4. PICK s \in [0 .. ARENA -> Nat] : iterates(s, 0, step, ARENA)
  BY <1>1, <1>2, IteratesExist
<1>5. ASSUME NEW i \in 1 .. ARENA PROVE s[i] = s[i - 1] + w[i - 1]
  BY <1>1, <1>3, <1>4 DEF iterates
<1>6. sums_to(w, s, ARENA)
  BY <1>4, <1>5 DEF sums_to, iterates
<1> QED BY <1>6

LEMMA Sums ==
    ASSUME NEW w \in [Addrs -> Nat] PROVE sums_to(w, sums(w), ARENA)
<1> DEFINE is(s) == s = [n \in 0 .. ARENA |-> IF n = 0 THEN 0 ELSE s[n - 1] + w[n - 1]]
<1>1. PICK s : sums_to(w, s, ARENA)
  BY SumsExist
<1>2. ARENA \in Nat /\ 0 \in 0 .. ARENA
  BY HeapAssumption
<1>3. is(s)
  <2>1. \A n \in 0 .. ARENA : n = 0 \/ n \in 1 .. ARENA
    BY <1>2
  <2>2. \A n \in 0 .. ARENA : s[n] = IF n = 0 THEN 0 ELSE s[n - 1] + w[n - 1]
    BY <1>1, <2>1 DEF sums_to
  <2>3. s = [n \in 0 .. ARENA |-> s[n]]
    BY <1>1 DEF sums_to
  <2> QED BY <2>2, <2>3
<1> DEFINE u == sums(w)
<1>4. u = CHOOSE x : is(x)
  BY DEF sums
<1>5. is(u)
  <2> HIDE DEF is
  <2> QED BY <1>3, <1>4
<1> HIDE DEF u
<1>6. u[0] = 0 /\ \A n \in 1 .. ARENA : u[n] = u[n - 1] + w[n - 1]
  <2>1. \A n \in 0 .. ARENA : u[n] = IF n = 0 THEN 0 ELSE u[n - 1] + w[n - 1]
    BY <1>5
  <2>2. \A n \in 1 .. ARENA : n \in 0 .. ARENA /\ n # 0
    BY <1>2
  <2> QED BY <1>2, <2>1, <2>2
<1>7. \A n \in 0 .. ARENA : u[n] = s[n]
  <2> DEFINE H == {n \in 0 .. ARENA : u[n] = s[n]}
  <2>1. 0 \in H
    BY <1>1, <1>2, <1>6 DEF sums_to
  <2>2. ASSUME NEW n \in 1 .. ARENA, n - 1 \in H PROVE n \in H
    BY <1>1, <1>6, <2>2 DEF sums_to
  <2>3. H \in SUBSET Nat
    OBVIOUS
  <2> HIDE DEF H
  <2>4. 0 .. ARENA \subseteq H
    BY <1>2, <2>1, <2>2, <2>3, UpTo
  <2> QED BY <2>4 DEF H
<1>8. u = s
  <2>1. u = [n \in 0 .. ARENA |-> u[n]]
    BY <1>5
  <2>2. s = [n \in 0 .. ARENA |-> s[n]]
    BY <1>1 DEF sums_to
  <2> QED BY <1>7, <2>1, <2>2
<1> QED BY <1>1, <1>8 DEF u

\* Changing one value changes the whole sum by as much.
LEMMA SumChange ==
    ASSUME NEW w \in [Addrs -> Nat], NEW v \in [Addrs -> Nat], NEW x \in Addrs,
           \A a \in Addrs \ {x} : v[a] = w[a]
    PROVE  /\ sums(v)[ARENA] = sums(w)[ARENA] + (v[x] - w[x])
           /\ sums(v)[ARENA] \in Nat /\ sums(w)[ARENA] \in Nat
<1> DEFINE s == sums(w)
           t == sums(v)
           d == v[x] - w[x]
           H == {n \in 0 .. ARENA : t[n] = s[n] + (IF n > x THEN d ELSE 0)}
<1>1. sums_to(w, s, ARENA) /\ sums_to(v, t, ARENA)
  BY Sums
<1>2. ARENA \in Nat /\ x \in Nat /\ x < ARENA /\ d \in Int /\ w[x] \in Nat /\ v[x] \in Nat
      /\ 0 \in 0 .. ARENA /\ ARENA \in 0 .. ARENA
  BY HeapAssumption DEF Addrs
<1> HIDE DEF s, t
<1>3. 0 \in H
  BY <1>1, <1>2 DEF sums_to
<1>4. ASSUME NEW n \in 1 .. ARENA, n - 1 \in H PROVE n \in H
  <2>1. n \in 0 .. ARENA /\ n - 1 \in 0 .. ARENA /\ n - 1 \in Addrs
    BY <1>2 DEF Addrs
  <2>2. t[n] = t[n - 1] + v[n - 1] /\ s[n] = s[n - 1] + w[n - 1]
    BY <1>1 DEF sums_to
  <2>3. t[n - 1] = s[n - 1] + (IF n - 1 > x THEN d ELSE 0) /\ s[n - 1] \in Nat /\ w[n - 1] \in Nat
    BY <1>1, <1>4, <2>1 DEF sums_to
  <2>4. CASE n - 1 = x
    <3>1. v[n - 1] = w[n - 1] + d /\ n > x /\ ~(n - 1 > x)
      BY <1>2, <2>4
    <3> HIDE DEF d
    <3> QED BY <1>2, <2>1, <2>2, <2>3, <3>1
  <2>5. CASE n - 1 # x
    <3>1. v[n - 1] = w[n - 1] /\ (n - 1 > x <=> n > x)
      BY <1>2, <2>1, <2>5
    <3> HIDE DEF d
    <3> QED BY <1>2, <2>1, <2>2, <2>3, <3>1
  <2> QED BY <2>4, <2>5
<1>5. H \in SUBSET Nat
  OBVIOUS
<1> HIDE DEF H
<1>6. 0 .. ARENA \subseteq H
  BY <1>2, <1>3, <1>4, <1>5, UpTo
<1>7. t[ARENA] = s[ARENA] + (IF ARENA > x THEN d ELSE 0)
  BY <1>2, <1>6 DEF H
<1>8. s[ARENA] \in Nat /\ t[ARENA] \in Nat
  BY <1>1, <1>2 DEF sums_to
<1> QED BY <1>2, <1>7, <1>8 DEF s, t

-----------------------------------------------------------------------------
(***************************************************************************)
(* The byte count.  A call of kmalloc or kfree changes what one address    *)
(* adds to the bytes in use; the headers that splits write and merges      *)
(* erase are of free blocks.                                               *)
(***************************************************************************)
LEMMA InUseType ==
    ASSUME NEW f \in [Addrs -> Headers]
    PROVE  /\ in_use(f) \in [Addrs -> Nat]
           /\ \A a \in Addrs : in_use(f)[a] = IF f[a].magic /\ ~f[a].is_free THEN f[a].size ELSE 0
<1>1. \A a \in Addrs : f[a].size \in Nat
  BY HeapAssumption DEF Headers
<1> QED BY <1>1 DEF in_use

LEMMA TakeBytes ==
    ASSUME HeapInv, UsedBytesExact, KmallocTake PROVE UsedBytesExact'
<1> DEFINE c == walk.cur
           need == align_up(walk.size)
           split == split_block(block, c, need)
           h == [split EXCEPT ![c].is_free = FALSE]
<1>1. /\ walk.busy /\ c # NULL /\ block[c].is_free /\ block[c].size >= need
      /\ block' = h /\ used_bytes' = used_bytes + split[c].size
  BY DEF KmallocTake, fits
<1>2. c \in blocks_of(block) /\ c \in Addrs /\ walk.size \in Sizes
      /\ block \in [Addrs -> Headers] /\ Tiles(block) /\ FreePairs(block) = {}
  BY <1>1, CoalescedPairs DEF HeapInv, HeapTypeOK, Tiling, WalkOnList, Blocks, blocks_of
<1>3. need \in Nat
  BY <1>2, AlignUp, Zenon
<1> HIDE DEF c, need
<1>4. /\ h \in [Addrs -> Headers] /\ Tiles(h) /\ FreePairs(h) = {}
      /\ blocks_of(block) \subseteq blocks_of(h)
      /\ ~h[c].is_free /\ h[c].size >= need /\ h[c].size < need + HDR + ALIGN
      /\ \A a \in blocks_of(block) \ {c} : h[a].is_free = block[a].is_free /\ h[a].size = block[a].size
      /\ \A a \in blocks_of(h) \ blocks_of(block) : h[a].is_free
  BY <1>1, <1>2, <1>3, TakeCoalesced, Zenon
<1>5. split \in [Addrs -> Headers] /\ blocks_of(block) \subseteq blocks_of(split)
  BY <1>1, <1>2, <1>3, SplitFree, Zenon
<1>6. h[c].magic /\ ~h[c].is_free /\ h[c].size = split[c].size
  BY <1>2, <1>5 DEF blocks_of
<1> HIDE DEF h, split
<1>7. in_use(h)[c] = split[c].size /\ in_use(block)[c] = 0
  BY <1>1, <1>2, <1>4, <1>6, InUseType
<1>8. ASSUME NEW a \in Addrs \ {c} PROVE in_use(h)[a] = in_use(block)[a]
  <2>1. CASE block[a].magic
    BY <1>2, <1>4, <2>1, InUseType DEF blocks_of
  <2>2. CASE ~block[a].magic
    BY <1>2, <1>4, <2>2, InUseType DEF blocks_of
  <2> QED BY <2>1, <2>2
<1>9. /\ sums(in_use(h))[ARENA] = sums(in_use(block))[ARENA] + (split[c].size - 0)
      /\ sums(in_use(block))[ARENA] \in Nat
  BY <1>2, <1>4, <1>7, <1>8, InUseType, SumChange
<1>10. split[c].size \in Nat
  BY <1>2, <1>5 DEF Headers
<1> QED BY <1>1, <1>9, <1>10 DEF UsedBytesExact

LEMMA FreeBytes ==
    ASSUME HeapInv, UsedBytesExact, NEW b \in Addrs, Kfree(b) PROVE UsedBytesExact'
<1> DEFINE freed == [block EXCEPT ![b].is_free = TRUE]
           joined == merge_next(freed, b)
           p == joined[b].prev
           k == IF p # NULL /\ joined[p].is_free THEN merge_next(joined, p) ELSE joined
           size == block[b].size
<1>1. b \in blocks_of(block) /\ block[b].magic /\ ~block[b].is_free
      /\ block \in [Addrs -> Headers] /\ Tiles(block) /\ FreePairs(block) = {}
  BY CoalescedPairs DEF Kfree, HeapInv, HeapTypeOK, Tiling, HeldBlocks, Blocks, blocks_of
<1>2. block' = k /\ used_bytes' = IF used_bytes >= size THEN used_bytes - size ELSE 0
  BY <1>1 DEF Kfree
<1>3. /\ k \in [Addrs -> Headers]
      /\ \A a \in blocks_of(block) \ {b} : ~block[a].is_free =>
           a \in blocks_of(k) /\ ~k[a].is_free /\ k[a].size = block[a].size
      /\ \A a \in blocks_of(k) : ~k[a].is_free =>
           a \in blocks_of(block) /\ ~block[a].is_free /\ a # b
  BY <1>1, FreeCoalesced, Zenon
<1> HIDE DEF k
<1>4. in_use(k)[b] = 0 /\ in_use(block)[b] = size
  BY <1>1, <1>3, InUseType DEF blocks_of
<1>5. ASSUME NEW a \in Addrs \ {b} PROVE in_use(k)[a] = in_use(block)[a]
  BY <1>1, <1>3, InUseType DEF blocks_of
<1>6. /\ sums(in_use(k))[ARENA] = sums(in_use(block))[ARENA] + (0 - size)
      /\ sums(in_use(k))[ARENA] \in Nat /\ sums(in_use(block))[ARENA] \in Nat
  BY <1>1, <1>3, <1>4, <1>5, InUseType, SumChange
<1>7. size \in Nat
  BY <1>1 DEF Headers
<1> HIDE DEF size
<1> QED BY <1>2, <1>6, <1>7 DEF UsedBytesExact

LEMMA InitBytes == Init => UsedBytesExact
<1> SUFFICES ASSUME Init PROVE UsedBytesExact
  OBVIOUS
<1> DEFINE w == in_use(block)
           zero == [a \in Addrs |-> 0]
<1>1. ARENA \in Nat /\ block \in [Addrs -> Headers]
  BY HeapAssumption, InitInv DEF HeapInv, HeapTypeOK
<1>2. w \in [Addrs -> Nat] /\ \A a \in Addrs : w[a] = 0
  <2>1. \A a \in Addrs : ~(block[a].magic /\ ~block[a].is_free)
    BY DEF Init, NoHeader
  <2> QED BY <1>1, <2>1, InUseType
<1> HIDE DEF w
<1>3. sums_to(w, sums(w), ARENA)
  BY <1>2, Sums
<1> DEFINE H == {n \in 0 .. ARENA : sums(w)[n] = 0}
<1>4. 0 \in H
  BY <1>1, <1>3 DEF sums_to
<1>5. ASSUME NEW n \in 1 .. ARENA, n - 1 \in H PROVE n \in H
  <2>1. n \in 0 .. ARENA /\ n - 1 \in Addrs
    BY <1>1 DEF Addrs
  <2> QED BY <1>2, <1>3, <1>5, <2>1 DEF sums_to
<1>6. H \in SUBSET Nat
  OBVIOUS
<1> HIDE DEF H
<1>7. 0 .. ARENA \subseteq H
  BY <1>1, <1>4, <1>5, <1>6, UpTo
<1>8. sums(w)[ARENA] = 0
  BY <1>1, <1>7 DEF H
<1> QED BY <1>8 DEF Init, UsedBytesExact, w

\* The byte count that memstat reports is exact after every call, however blocks were
\* split and merged, in arenas of every size: kfree's guard against an underflow of the
\* count is never taken.
THEOREM HeapBytes == Spec => []UsedBytesExact
<1>1. HeapInv /\ UsedBytesExact /\ [Next]_vars => UsedBytesExact'
  <2> SUFFICES ASSUME HeapInv, UsedBytesExact, [Next]_vars PROVE UsedBytesExact'
    OBVIOUS
  <2>1. CASE UNCHANGED <<block, used_bytes>>
    BY <2>1 DEF UsedBytesExact
  <2>2. CASE KmallocTake
    BY <2>2, TakeBytes
  <2>3. ASSUME NEW b \in Addrs, Kfree(b) PROVE UsedBytesExact'
    BY <2>3, FreeBytes
  <2>4. CASE ~KmallocTake /\ ~(\E b \in Addrs : Kfree(b))
    <3>1. UNCHANGED <<block, used_bytes>>
      BY <2>4 DEF Next, vars, KmallocCall, KmallocSkip, KmallocFail
    <3> QED BY <2>1, <3>1
  <2> QED BY <2>2, <2>3, <2>4
<1> QED BY <1>1, InitBytes, HeapInvariance, PTL DEF Spec
=============================================================================
