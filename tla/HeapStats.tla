------------------------------ MODULE HeapStats ------------------------------
(***************************************************************************)
(* The byte count of the heap against its blocks.                          *)
(***************************************************************************)
EXTENDS Heap

\* What each address adds to the bytes in use: the size of the block in use whose
\* header it is, if it is one.
in_use(blk) == [a \in Addrs |-> IF blk[a].magic /\ ~blk[a].is_free THEN blk[a].size ELSE 0]

\* The sums of the values of w below each address.
sums(w) == LET below[n \in 0 .. ARENA] == IF n = 0 THEN 0 ELSE below[n - 1] + w[n - 1]
           IN  below

\* used_bytes, which memstat and the heap statistics report, is the sum of the
\* sizes of the blocks in use, whatever was split and merged on the way; the
\* guard against a negative count in kfree is never needed.
UsedBytesExact == used_bytes = sums(in_use(block))[ARENA]
=============================================================================
