-------------------------------- MODULE KHeap -------------------------------
(***************************************************************************)
(* The kernel heap of paging.c as operators on a heap.                     *)
(*                                                                         *)
(* Addresses and block sizes count words of four bytes, the unit kmalloc   *)
(* rounds to.  A heap is a function from the addresses of the headers on   *)
(* the list of heap_first to what they hold.  Blocks are inserted and      *)
(* removed between neighbours only, so the list is in address order: next  *)
(* is the least header above.  krealloc has no caller.                     *)
(***************************************************************************)
EXTENDS Integers

CONSTANT HEAP_WORDS     \* HEAP_INIT_SIZE / 4

HDR == 3                \* sizeof(heap_block_t) / 4
NULL == 0               \* no block's data starts there

ASSUME HeapAssumption == HEAP_WORDS \in Nat /\ HEAP_WORDS > HDR

Addr == 0 .. HEAP_WORDS - 1

\* kheap_init: one free block.
kheap_init == [b \in {0} |-> [size |-> HEAP_WORDS - HDR, free |-> TRUE]]

\* (size + 3) & ~3, in words.
Words(bytes) == (bytes + 3) \div 4

Fits(h, n) == {b \in DOMAIN h : h[b].free /\ h[b].size >= n}

\* Where the walk along the list stops.
FirstFit(h, n) == CHOOSE b \in Fits(h, n) : \A c \in Fits(h, n) : b <= c

\* Mutant: the new block is made one word too large.
Split_OffByOne(h, b, n) ==
  [c \in DOMAIN h \cup {b + HDR + n} |->
     IF c = b THEN [size |-> n, free |-> FALSE]
     ELSE IF c = b + HDR + n THEN [size |-> h[b].size - n - HDR + 1, free |-> TRUE]
     ELSE h[c]]

\* The rest of block b becomes a free block of its own.
Split(h, b, n) ==
  [c \in DOMAIN h \cup {b + HDR + n} |->
     IF c = b THEN [size |-> n, free |-> FALSE]
     ELSE IF c = b + HDR + n THEN [size |-> h[b].size - n - HDR, free |-> TRUE]
     ELSE h[c]]

Whole(h, b) == [h EXCEPT ![b] = [size |-> h[b].size, free |-> FALSE]]

Take(h, b, n) == IF h[b].size > n + HDR + 1 THEN Split(h, b, n) ELSE Whole(h, b)

\* The pointer kmalloc returns and the heap it leaves; NULL when nothing fits.
kmalloc(h, bytes) ==
  IF bytes = 0 \/ Fits(h, Words(bytes)) = {} THEN NULL ELSE FirstFit(h, Words(bytes)) + HDR

Kmalloced(h, bytes) ==
  IF bytes = 0 \/ Fits(h, Words(bytes)) = {} THEN h
  ELSE Take(h, FirstFit(h, Words(bytes)), Words(bytes))

Above(h, b) == {c \in DOMAIN h : c > b}
Below(h, b) == {c \in DOMAIN h : c < b}
NextBlock(h, b) == CHOOSE c \in Above(h, b) : \A d \in Above(h, b) : c <= d
PrevBlock(h, b) == CHOOSE c \in Below(h, b) : \A d \in Below(h, b) : d <= c

\* b takes over its neighbour c, header included.
Absorb(h, b, c) ==
  [d \in DOMAIN h \ {c} |->
     IF d = b THEN [size |-> h[b].size + HDR + h[c].size, free |-> h[b].free] ELSE h[d]]

FreeBlock(h, b) == [h EXCEPT ![b] = [size |-> h[b].size, free |-> TRUE]]

MergeNext(h, b) ==
  IF Above(h, b) # {} /\ h[NextBlock(h, b)].free THEN Absorb(h, b, NextBlock(h, b)) ELSE h

MergePrev(h, b) ==
  IF Below(h, b) # {} /\ h[PrevBlock(h, b)].free THEN Absorb(h, PrevBlock(h, b), b) ELSE h

\* For a pointer that kmalloc returned and that is not free; see Allocated.
kfree(h, p) ==
  IF p = NULL THEN h
  ELSE MergePrev(MergeNext(FreeBlock(h, p - HDR), p - HDR), p - HDR)

\* p is the data of a block in use.
Allocated(h, p) == p - HDR \in DOMAIN h /\ ~h[p - HDR].free

Bytes(h, p) == 4 * h[p - HDR].size

-----------------------------------------------------------------------------
\* The first word after block b.
EndOf(h, b) == b + HDR + h[b].size

IsHeap(h) ==
  /\ DOMAIN h \subseteq Addr /\ 0 \in DOMAIN h
  /\ \A b \in DOMAIN h : h[b].size \in Nat /\ h[b].free \in BOOLEAN
  /\ h = [b \in DOMAIN h |-> [size |-> h[b].size, free |-> h[b].free]]

\* The blocks cover the heap without gap or overlap.
Tiled(h) ==
  \A b \in DOMAIN h : /\ EndOf(h, b) \in DOMAIN h \cup {HEAP_WORDS}
                      /\ \A c \in DOMAIN h : c > b => c >= EndOf(h, b)

\* No two neighbours are free: kfree merges on both sides.
Coalesced(h) ==
  \A b \in DOMAIN h : h[b].free /\ EndOf(h, b) \in DOMAIN h => ~h[EndOf(h, b)].free

WellFormed(h) == IsHeap(h) /\ Tiled(h) /\ Coalesced(h)
=============================================================================
