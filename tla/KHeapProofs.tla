----------------------------- MODULE KHeapProofs -----------------------------
(***************************************************************************)
(* kmalloc and kfree keep the heap well formed, and freeing what was just  *)
(* allocated restores it, for heaps of every size.                         *)
(***************************************************************************)
EXTENDS KHeap, WellFoundedInduction, TLAPS

(***************************************************************************)
(* A set of numbers that is not empty has a least element.                 *)
(***************************************************************************)
LEMMA LeastExists ==
  ASSUME NEW S \in SUBSET Nat, S # {}
  PROVE  \E x \in S : \A y \in S : x <= y
<1> DEFINE R == OpToRel(<, Nat)
<1>1. IsWellFoundedOn(R, Nat) BY NatLessThanWellFounded
<1>2. ASSUME NEW x \in Nat, NEW y \in Nat, y < x PROVE <<y, x>> \in R
  <2>1. <<y, x>> \in Nat \X Nat OBVIOUS
  <2>2. <<y, x>>[1] < <<y, x>>[2] BY <1>2
  <2> QED BY ONLY <2>1, <2>2, Zenon DEF OpToRel
<1> HIDE DEF R
<1>3. PICK x \in S : \A y \in S : ~(<<y, x>> \in R)
  BY <1>1, WFMin
<1>4. \A y \in S : ~(y < x) BY <1>2, <1>3
<1>5. \A y \in S : x <= y BY <1>4
<1> QED BY <1>5

(***************************************************************************)
(* A set of numbers that is not empty and is bounded has a greatest one.   *)
(***************************************************************************)
LEMMA GreatestExists ==
  ASSUME NEW n \in Nat, NEW S \in SUBSET (0 .. n), S # {}
  PROVE  \E x \in S : \A y \in S : y <= x
<1> DEFINE T == {n - y : y \in S}
<1>1. T \in SUBSET Nat /\ T # {}
  <2>1. \A y \in S : n - y \in Nat OBVIOUS
  <2>2. PICK y \in S : TRUE OBVIOUS
  <2>3. n - y \in T OBVIOUS
  <2> QED BY <2>1, <2>3
<1>2. PICK m \in T : \A t \in T : m <= t BY <1>1, LeastExists
<1>3. PICK x \in S : m = n - x BY <1>2
<1>4. \A y \in S : n - x <= n - y BY <1>2, <1>3
<1> QED BY <1>4

(***************************************************************************)
(* What a well-formed heap says of one block.                              *)
(***************************************************************************)
LEMMA BlockFacts ==
  ASSUME NEW h, IsHeap(h), Tiled(h), NEW b \in DOMAIN h
  PROVE  /\ b \in Nat /\ b < HEAP_WORDS /\ h[b].size \in Nat /\ h[b].free \in BOOLEAN
         /\ EndOf(h, b) \in Nat /\ EndOf(h, b) > b /\ EndOf(h, b) <= HEAP_WORDS
         /\ \A c \in DOMAIN h : c < b => EndOf(h, c) <= b
BY HeapAssumption DEF IsHeap, Tiled, Addr, EndOf, HDR

(***************************************************************************)
(* The block kheap_init makes is a well-formed heap.                       *)
(***************************************************************************)
LEMMA InitWellFormed == WellFormed(kheap_init)
<1>1. DOMAIN kheap_init = {0} BY DEF kheap_init
<1>2. kheap_init[0] = [size |-> HEAP_WORDS - HDR, free |-> TRUE] BY DEF kheap_init
<1>3. IsHeap(kheap_init)
  <2>1. kheap_init[0].size \in Nat /\ kheap_init[0].free \in BOOLEAN
    BY <1>2, HeapAssumption DEF HDR
  <2>2. DOMAIN kheap_init \subseteq Addr BY <1>1, HeapAssumption DEF Addr, HDR
  <2>3. kheap_init[0] = [size |-> kheap_init[0].size, free |-> kheap_init[0].free] BY <1>2
  <2>4. kheap_init = [b \in DOMAIN kheap_init |-> kheap_init[b]] BY DEF kheap_init
  <2> QED BY <1>1, <2>1, <2>2, <2>3, <2>4 DEF IsHeap
<1>4. EndOf(kheap_init, 0) = HEAP_WORDS BY <1>2, HeapAssumption DEF EndOf, HDR
<1>5. Tiled(kheap_init) BY <1>1, <1>4 DEF Tiled
<1>6. Coalesced(kheap_init) BY <1>1, <1>4, HeapAssumption DEF Coalesced, HDR
<1> QED BY <1>3, <1>5, <1>6 DEF WellFormed

-----------------------------------------------------------------------------
(***************************************************************************)
(* Splitting a free block keeps the heap well formed.                      *)
(***************************************************************************)
LEMMA SplitWellFormed ==
  ASSUME NEW h, WellFormed(h), NEW b \in DOMAIN h, h[b].free, NEW n \in Nat,
         h[b].size > n + HDR
  PROVE  WellFormed(Split(h, b, n))
<1> DEFINE s == Split(h, b, n)
           r == b + HDR + n
<1>0. IsHeap(h) /\ Tiled(h) /\ Coalesced(h) BY DEF WellFormed
<1>1. /\ b \in Nat /\ h[b].size \in Nat /\ EndOf(h, b) = b + HDR + h[b].size
      /\ EndOf(h, b) <= HEAP_WORDS /\ HDR = 3 /\ HEAP_WORDS \in Nat
  BY <1>0, BlockFacts, HeapAssumption DEF EndOf, HDR
<1>2. r \in Nat /\ b < r /\ r < EndOf(h, b) BY <1>1
<1>3. r \notin DOMAIN h BY <1>0, <1>1, <1>2 DEF Tiled
<1>4. DOMAIN s = DOMAIN h \cup {r} BY DEF Split
<1>5. /\ s[b] = [size |-> n, free |-> FALSE]
      /\ s[r] = [size |-> h[b].size - n - HDR, free |-> TRUE]
      /\ \A c \in DOMAIN h \ {b} : s[c] = h[c]
  BY <1>2, <1>3 DEF Split
<1>6. IsHeap(s)
  <2>1. DOMAIN s \subseteq Addr /\ 0 \in DOMAIN s
    BY <1>0, <1>1, <1>2, <1>4 DEF IsHeap, Addr
  <2>2. \A c \in DOMAIN s : s[c].size \in Nat /\ s[c].free \in BOOLEAN
    <3>1. \A c \in DOMAIN h \ {b} : s[c].size \in Nat /\ s[c].free \in BOOLEAN
      BY <1>0, <1>5 DEF IsHeap
    <3>2. s[b].size \in Nat /\ s[b].free \in BOOLEAN BY <1>5
    <3>3. s[r].size \in Nat /\ s[r].free \in BOOLEAN BY <1>1, <1>5
    <3> QED BY <1>4, <3>1, <3>2, <3>3
  <2>3. \A c \in DOMAIN s : s[c] = [size |-> s[c].size, free |-> s[c].free]
    BY <1>0, <1>4, <1>5 DEF IsHeap
  <2>4. s = [c \in DOMAIN s |-> s[c]] BY DEF Split
  <2> QED BY <2>1, <2>2, <2>3, <2>4 DEF IsHeap
<1>7. /\ EndOf(s, b) = r /\ EndOf(s, r) = EndOf(h, b)
      /\ \A c \in DOMAIN h \ {b} : EndOf(s, c) = EndOf(h, c)
  BY <1>1, <1>2, <1>5 DEF EndOf
<1>8. Tiled(s)
  <2>1. ASSUME NEW c \in DOMAIN h \ {b}
        PROVE  /\ EndOf(s, c) \in DOMAIN s \cup {HEAP_WORDS}
               /\ \A d \in DOMAIN s : d > c => d >= EndOf(s, c)
    <3>1. EndOf(s, c) \in DOMAIN s \cup {HEAP_WORDS} BY <1>0, <1>4, <1>7 DEF Tiled
    <3>2. \A d \in DOMAIN h : d > c => d >= EndOf(s, c) BY <1>0, <1>7 DEF Tiled
    <3>3. r > c => r >= EndOf(s, c)
      <4>1. c \in Nat /\ EndOf(h, c) \in Nat BY <1>0, BlockFacts
      <4>2. c < b => EndOf(h, c) <= b BY <1>0, BlockFacts
      <4>3. c > b => c >= EndOf(h, b) BY <1>0 DEF Tiled
      <4> QED BY <1>1, <1>2, <1>7, <4>1, <4>2, <4>3
    <3> QED BY <1>4, <3>1, <3>2, <3>3
  <2>2. /\ EndOf(s, b) \in DOMAIN s \cup {HEAP_WORDS}
        /\ \A d \in DOMAIN s : d > b => d >= EndOf(s, b)
    <3>1. \A d \in DOMAIN h : d \in Nat /\ (d > b => d >= EndOf(h, b))
      BY <1>0, BlockFacts DEF Tiled
    <3> QED BY <1>1, <1>2, <1>4, <1>7, <3>1
  <2>3. /\ EndOf(s, r) \in DOMAIN s \cup {HEAP_WORDS}
        /\ \A d \in DOMAIN s : d > r => d >= EndOf(s, r)
    <3>1. \A d \in DOMAIN h : d \in Nat /\ (d > b => d >= EndOf(h, b))
      BY <1>0, BlockFacts DEF Tiled
    <3>2. EndOf(h, b) \in DOMAIN h \cup {HEAP_WORDS} BY <1>0 DEF Tiled
    <3> QED BY <1>1, <1>2, <1>4, <1>7, <3>1, <3>2
  <2> QED BY <1>4, <2>1, <2>2, <2>3 DEF Tiled
<1>9. Coalesced(s)
  <2>1. ASSUME NEW c \in DOMAIN s, s[c].free, EndOf(s, c) \in DOMAIN s
        PROVE  ~s[EndOf(s, c)].free
    <3>1. c # b BY <1>5, <2>1
    <3>2. CASE c = r
      <4>1. EndOf(h, b) \in DOMAIN h \ {b} BY <1>1, <1>2, <1>4, <1>7, <2>1, <3>2
      <4>2. ~h[EndOf(h, b)].free BY <1>0, <4>1 DEF Coalesced
      <4> QED BY <1>5, <1>7, <3>2, <4>1, <4>2
    <3>3. CASE c \in DOMAIN h \ {b}
      <4>1. h[c].free /\ EndOf(s, c) = EndOf(h, c) BY <1>5, <1>7, <2>1, <3>3
      <4>2. c \in Nat /\ EndOf(h, c) \in Nat /\ (c < b => EndOf(h, c) <= b) /\ (c > b => c > r)
              /\ EndOf(h, c) > c
        BY <1>0, <1>1, <1>2, <3>3, BlockFacts DEF Tiled
      <4>3. EndOf(s, c) # r BY <1>1, <1>2, <3>3, <4>1, <4>2
      <4>4. EndOf(h, c) \in DOMAIN h BY <1>4, <2>1, <4>1, <4>3
      <4>5. ~h[EndOf(h, c)].free BY <1>0, <4>1, <4>4, <3>3 DEF Coalesced
      <4> QED BY <1>5, <4>1, <4>4, <4>5
    <3> QED BY <1>4, <3>1, <3>2, <3>3
  <2> QED BY <2>1 DEF Coalesced
<1> QED BY <1>6, <1>8, <1>9 DEF WellFormed

(***************************************************************************)
(* Handing out a free block as a whole keeps the heap well formed.         *)
(***************************************************************************)
LEMMA WholeWellFormed ==
  ASSUME NEW h, WellFormed(h), NEW b \in DOMAIN h
  PROVE  WellFormed(Whole(h, b))
<1> DEFINE s == Whole(h, b)
<1>0. IsHeap(h) /\ Tiled(h) /\ Coalesced(h) BY DEF WellFormed
<1>1. DOMAIN s = DOMAIN h BY DEF Whole
<1>2. /\ s[b] = [size |-> h[b].size, free |-> FALSE]
      /\ \A c \in DOMAIN h \ {b} : s[c] = h[c]
  BY DEF Whole
<1>3. IsHeap(s)
  <2>1. \A c \in DOMAIN h : s[c].size \in Nat /\ s[c].free \in BOOLEAN
    <3>1. s[b].size \in Nat /\ s[b].free \in BOOLEAN BY <1>0, <1>2 DEF IsHeap
    <3>2. \A c \in DOMAIN h \ {b} : s[c].size \in Nat /\ s[c].free \in BOOLEAN
      BY <1>0, <1>2 DEF IsHeap
    <3> QED BY <3>1, <3>2
  <2>2. \A c \in DOMAIN s : s[c] = [size |-> s[c].size, free |-> s[c].free]
    BY <1>0, <1>1, <1>2 DEF IsHeap
  <2>3. s = [c \in DOMAIN s |-> s[c]] BY DEF Whole
  <2> QED BY <1>0, <1>1, <2>1, <2>2, <2>3 DEF IsHeap
<1>4. \A c \in DOMAIN h : EndOf(s, c) = EndOf(h, c) BY <1>2 DEF EndOf
<1>5. Tiled(s) BY <1>0, <1>1, <1>4 DEF Tiled
<1>6. Coalesced(s)
  <2>1. \A c \in DOMAIN h : s[c].free => h[c].free BY <1>2
  <2> QED BY <1>0, <1>1, <1>4, <2>1 DEF Coalesced
<1> QED BY <1>3, <1>5, <1>6 DEF WellFormed

(***************************************************************************)
(* The walk of kmalloc ends at a free block that is large enough.          *)
(***************************************************************************)
LEMMA FirstFitFits ==
  ASSUME NEW h, IsHeap(h), NEW n, Fits(h, n) # {}
  PROVE  FirstFit(h, n) \in DOMAIN h /\ h[FirstFit(h, n)].free /\ h[FirstFit(h, n)].size >= n
<1>1. Fits(h, n) \in SUBSET Nat BY DEF Fits, IsHeap, Addr
<1>2. \E b \in Fits(h, n) : \A c \in Fits(h, n) : b <= c BY <1>1, LeastExists
<1>3. FirstFit(h, n) \in Fits(h, n) BY <1>2 DEF FirstFit
<1> QED BY <1>3 DEF Fits

(***************************************************************************)
(* kmalloc keeps the heap well formed, whatever is asked for.              *)
(***************************************************************************)
LEMMA MallocWellFormed ==
  ASSUME NEW h, WellFormed(h), NEW bytes \in Nat
  PROVE  WellFormed(Kmalloced(h, bytes))
<1> DEFINE n == Words(bytes)
           b == FirstFit(h, n)
<1>1. n \in Nat BY DEF Words
<1>2. CASE bytes = 0 \/ Fits(h, n) = {} BY <1>2 DEF Kmalloced
<1>3. CASE ~(bytes = 0 \/ Fits(h, n) = {})
  <2>1. b \in DOMAIN h /\ h[b].free BY <1>3, FirstFitFits DEF WellFormed
  <2>2. h[b].size \in Nat BY <2>1 DEF WellFormed, IsHeap
  <2>3. WellFormed(Take(h, b, n))
    <3>1. CASE h[b].size > n + HDR + 1
      <4>1. h[b].size > n + HDR BY <1>1, <2>2, <3>1 DEF HDR
      <4> HIDE DEF n, b
      <4> QED BY <1>1, <2>1, <3>1, <4>1, SplitWellFormed DEF Take
    <3>2. CASE ~(h[b].size > n + HDR + 1)
      <4> HIDE DEF n, b
      <4> QED BY <2>1, <3>2, WholeWellFormed DEF Take
    <3> QED BY <3>1, <3>2
  <2> QED BY <1>3, <2>3 DEF Kmalloced
<1> QED BY <1>2, <1>3

(***************************************************************************)
(* kmalloc never returns a block that was in use, and leaves those that    *)
(* were in use as they are; what it returns is in use and large enough.    *)
(***************************************************************************)
LEMMA MallocFresh ==
  ASSUME NEW h, WellFormed(h), NEW bytes \in Nat, kmalloc(h, bytes) # NULL
  PROVE  /\ kmalloc(h, bytes) \in Nat
         /\ ~Allocated(h, kmalloc(h, bytes))
         /\ Allocated(Kmalloced(h, bytes), kmalloc(h, bytes))
         /\ Bytes(Kmalloced(h, bytes), kmalloc(h, bytes)) >= bytes
<1> DEFINE n == Words(bytes)
           b == FirstFit(h, n)
<1>0. n \in Nat /\ 4 * n >= bytes BY DEF Words
<1>1. ~(bytes = 0 \/ Fits(h, n) = {}) BY DEF kmalloc
<1>2. b \in DOMAIN h /\ h[b].free /\ h[b].size >= n BY <1>1, FirstFitFits DEF WellFormed
<1>3. b \in Nat /\ h[b].size \in Nat BY <1>2, BlockFacts DEF WellFormed
<1>4. kmalloc(h, bytes) = b + HDR /\ Kmalloced(h, bytes) = Take(h, b, n)
  BY <1>1 DEF kmalloc, Kmalloced
<1>5. kmalloc(h, bytes) - HDR = b BY <1>3, <1>4 DEF HDR
<1> HIDE DEF b, n
<1>6. /\ b \in DOMAIN Take(h, b, n) /\ ~Take(h, b, n)[b].free
      /\ Take(h, b, n)[b].size \in Nat /\ Take(h, b, n)[b].size >= n
  BY <1>0, <1>2, <1>3 DEF Take, Split, Whole
<1> QED BY <1>0, <1>2, <1>3, <1>4, <1>5, <1>6 DEF Allocated, Bytes, HDR

(***************************************************************************)
(* A block in use stays in use, and as large, when kmalloc is called.      *)
(***************************************************************************)
LEMMA MallocKeepsOthers ==
  ASSUME NEW h, WellFormed(h), NEW bytes \in Nat, NEW p, Allocated(h, p)
  PROVE  Allocated(Kmalloced(h, bytes), p) /\ Bytes(Kmalloced(h, bytes), p) = Bytes(h, p)
<1> DEFINE n == Words(bytes)
           b == FirstFit(h, n)
           q == p - HDR
<1>0. n \in Nat BY DEF Words
<1>1. q \in DOMAIN h /\ ~h[q].free BY DEF Allocated
<1>2. CASE bytes = 0 \/ Fits(h, n) = {} BY <1>2 DEF Kmalloced
<1>3. CASE ~(bytes = 0 \/ Fits(h, n) = {})
  <2>1. b \in DOMAIN h /\ h[b].free BY <1>3, FirstFitFits DEF WellFormed
  <2>2. Kmalloced(h, bytes) = Take(h, b, n) BY <1>3 DEF Kmalloced
  <2>3. b \in Nat /\ h[b].size \in Nat /\ EndOf(h, b) = b + HDR + h[b].size
    BY <2>1, BlockFacts DEF WellFormed, EndOf
  <2>4. q \in Nat /\ (q > b => q >= EndOf(h, b)) BY <1>1, <2>1, BlockFacts DEF WellFormed, Tiled
  <2>5. q # b BY <1>1, <2>1
  <2> HIDE DEF b, n, q
  <2>6. CASE h[b].size > n + HDR + 1
    <3>1. q # b + HDR + n BY <1>0, <2>3, <2>4, <2>6 DEF HDR
    <3>2. q \in DOMAIN Split(h, b, n) /\ Split(h, b, n)[q] = h[q]
      BY <1>1, <2>5, <3>1 DEF Split
    <3>3. q \in DOMAIN Take(h, b, n) /\ Take(h, b, n)[q] = h[q] BY <2>6, <3>2 DEF Take
    <3> QED BY <1>1, <2>2, <3>3 DEF Allocated, Bytes, q
  <2>7. CASE ~(h[b].size > n + HDR + 1)
    <3>1. q \in DOMAIN Take(h, b, n) /\ Take(h, b, n)[q] = h[q]
      BY <1>1, <2>5, <2>7 DEF Take, Whole
    <3> QED BY <1>1, <2>2, <3>1 DEF Allocated, Bytes, q
  <2> QED BY <2>6, <2>7
<1> QED BY <1>2, <1>3

-----------------------------------------------------------------------------
(***************************************************************************)
(* The next block on the list starts where a block ends.                   *)
(***************************************************************************)
LEMMA NextIsEnd ==
  ASSUME NEW h, IsHeap(h), Tiled(h), NEW b \in DOMAIN h
  PROVE  /\ Above(h, b) # {} <=> EndOf(h, b) \in DOMAIN h
         /\ EndOf(h, b) \in DOMAIN h => NextBlock(h, b) = EndOf(h, b)
<1>1. /\ b \in Nat /\ EndOf(h, b) \in Nat /\ EndOf(h, b) > b
      /\ EndOf(h, b) \in DOMAIN h \cup {HEAP_WORDS}
      /\ \A c \in DOMAIN h : c \in Nat /\ c < HEAP_WORDS /\ (c > b => c >= EndOf(h, b))
  BY BlockFacts DEF Tiled
<1>2. ASSUME NEW c \in Above(h, b) PROVE EndOf(h, b) \in DOMAIN h
  BY <1>1, <1>2, HeapAssumption DEF Above
<1>3. ASSUME EndOf(h, b) \in DOMAIN h PROVE EndOf(h, b) \in Above(h, b)
  BY <1>1, <1>3 DEF Above
<1>4. ASSUME EndOf(h, b) \in DOMAIN h PROVE NextBlock(h, b) = EndOf(h, b)
  <2>1. \A d \in Above(h, b) : d \in Nat /\ EndOf(h, b) <= d BY <1>1 DEF Above
  <2>2. \A c \in Above(h, b) : (\A d \in Above(h, b) : c <= d) => c = EndOf(h, b)
    BY <1>1, <1>3, <1>4, <2>1
  <2> QED BY <1>3, <1>4, <2>1, <2>2 DEF NextBlock
<1> QED BY <1>2, <1>3, <1>4

(***************************************************************************)
(* The block before b on the list ends where b starts.                     *)
(***************************************************************************)
LEMMA PrevEndsHere ==
  ASSUME NEW h, IsHeap(h), Tiled(h), NEW b \in DOMAIN h, Below(h, b) # {}
  PROVE  PrevBlock(h, b) \in DOMAIN h /\ EndOf(h, PrevBlock(h, b)) = b
<1>1. b \in Nat /\ \A c \in DOMAIN h : c \in Nat BY BlockFacts
<1>2. Below(h, b) \in SUBSET (0 .. b) BY <1>1 DEF Below
<1>3. \E c \in Below(h, b) : \A d \in Below(h, b) : d <= c BY <1>1, <1>2, GreatestExists
<1> DEFINE c == PrevBlock(h, b)
<1>4. c \in Below(h, b) /\ \A d \in Below(h, b) : d <= c BY <1>3 DEF PrevBlock
<1>5. c \in DOMAIN h /\ c < b BY <1>4 DEF Below
<1> HIDE DEF c
<1>6. /\ c \in Nat /\ EndOf(h, c) \in Nat /\ EndOf(h, c) > c /\ EndOf(h, c) <= b
      /\ EndOf(h, c) \in DOMAIN h \cup {HEAP_WORDS} /\ b < HEAP_WORDS
  BY <1>5, BlockFacts DEF Tiled
<1>7. ~(EndOf(h, c) < b)
  <2>1. SUFFICES ASSUME EndOf(h, c) < b PROVE FALSE OBVIOUS
  <2>2. EndOf(h, c) \in Below(h, b) BY <1>1, <1>6, <2>1, HeapAssumption DEF Below
  <2> QED BY <1>4, <1>6, <2>2
<1>8. EndOf(h, c) = b BY <1>1, <1>6, <1>7
<1> QED BY <1>5, <1>8 DEF c

(***************************************************************************)
(* A block that takes over the one behind it leaves a tiled heap.          *)
(***************************************************************************)
LEMMA AbsorbTiled ==
  ASSUME NEW h, IsHeap(h), Tiled(h), NEW b \in DOMAIN h, NEW c \in DOMAIN h, c = EndOf(h, b)
  PROVE  LET a == Absorb(h, b, c) IN
         /\ IsHeap(a) /\ Tiled(a) /\ DOMAIN a = DOMAIN h \ {c} /\ b # c
         /\ EndOf(a, b) = EndOf(h, c) /\ a[b].free = h[b].free
         /\ \A d \in DOMAIN a \ {b} : a[d] = h[d] /\ EndOf(a, d) = EndOf(h, d)
<1> DEFINE a == Absorb(h, b, c)
<1>1. /\ b \in Nat /\ h[b].size \in Nat /\ c \in Nat /\ h[c].size \in Nat /\ b < c /\ HDR = 3
      /\ EndOf(h, c) \in Nat /\ EndOf(h, c) = c + HDR + h[c].size /\ c = b + HDR + h[b].size
      /\ h[b].free \in BOOLEAN
  BY BlockFacts DEF EndOf, HDR
<1>2. DOMAIN a = DOMAIN h \ {c} BY DEF Absorb
<1>3. /\ a[b] = [size |-> h[b].size + HDR + h[c].size, free |-> h[b].free]
      /\ \A d \in DOMAIN a \ {b} : a[d] = h[d]
  BY <1>1, <1>2 DEF Absorb
<1>4. /\ EndOf(a, b) = EndOf(h, c) /\ a[b].free = h[b].free
      /\ \A d \in DOMAIN a \ {b} : EndOf(a, d) = EndOf(h, d)
  BY <1>1, <1>3 DEF EndOf
<1>5. IsHeap(a)
  <2>1. DOMAIN a \subseteq Addr /\ 0 \in DOMAIN a BY <1>1, <1>2 DEF IsHeap
  <2>2. \A d \in DOMAIN a \ {b} : a[d].size \in Nat /\ a[d].free \in BOOLEAN
    BY <1>2, <1>3 DEF IsHeap
  <2>3. a[b].size \in Nat /\ a[b].free \in BOOLEAN BY <1>1, <1>3
  <2>4. \A d \in DOMAIN a : a[d] = [size |-> a[d].size, free |-> a[d].free]
    BY <1>2, <1>3 DEF IsHeap
  <2>5. a = [d \in DOMAIN a |-> a[d]] BY DEF Absorb
  <2> QED BY <2>1, <2>2, <2>3, <2>4, <2>5 DEF IsHeap
<1>6. Tiled(a)
  <2>0. \A d \in DOMAIN h : /\ d \in Nat /\ EndOf(h, d) \in DOMAIN h \cup {HEAP_WORDS}
                             /\ EndOf(h, d) \in Nat /\ EndOf(h, d) > d
                             /\ \A e \in DOMAIN h : e > d => e >= EndOf(h, d)
    BY BlockFacts DEF Tiled
  <2>1. ASSUME NEW d \in DOMAIN a \ {b}
        PROVE  /\ EndOf(a, d) \in DOMAIN a \cup {HEAP_WORDS}
               /\ \A e \in DOMAIN a : e > d => e >= EndOf(a, d)
    <3>1. EndOf(h, d) # c
      <4>1. d < b => EndOf(h, d) <= b BY <1>2, <2>0
      <4>2. d > b => d >= c BY <1>2, <2>0
      <4> QED BY <1>1, <1>2, <2>0, <4>1, <4>2
    <3> QED BY <1>2, <1>4, <2>0, <3>1
  <2>2. EndOf(a, b) \in DOMAIN a \cup {HEAP_WORDS} BY <1>2, <1>4, <2>0
  <2>3. \A e \in DOMAIN a : e > b => e >= EndOf(a, b)
    <3>1. ASSUME NEW e \in DOMAIN a, e > b PROVE e >= EndOf(a, b)
      <4>1. e \in DOMAIN h /\ e # c /\ e \in Nat BY <1>2, <2>0
      <4>2. e >= c BY <2>0, <3>1, <4>1
      <4>3. e > c BY <1>1, <4>1, <4>2
      <4> QED BY <1>4, <2>0, <4>1, <4>3
    <3> QED BY <3>1
  <2> QED BY <1>2, <2>1, <2>2, <2>3 DEF Tiled
<1> QED BY <1>1, <1>2, <1>3, <1>4, <1>5, <1>6

(***************************************************************************)
(* Marking a block free: only pairs of neighbours it is part of can be     *)
(* free now.                                                               *)
(***************************************************************************)
LEMMA FreedTiled ==
  ASSUME NEW h, WellFormed(h), NEW b \in DOMAIN h
  PROVE  LET f == FreeBlock(h, b) IN
         /\ IsHeap(f) /\ Tiled(f) /\ DOMAIN f = DOMAIN h /\ f[b].free
         /\ \A c \in DOMAIN f : EndOf(f, c) = EndOf(h, c)
         /\ \A c \in DOMAIN f \ {b} : f[c] = h[c]
<1> DEFINE f == FreeBlock(h, b)
<1>0. IsHeap(h) /\ Tiled(h) BY DEF WellFormed
<1>1. DOMAIN f = DOMAIN h BY DEF FreeBlock
<1>2. /\ f[b] = [size |-> h[b].size, free |-> TRUE]
      /\ \A c \in DOMAIN h \ {b} : f[c] = h[c]
  BY DEF FreeBlock
<1>3. \A c \in DOMAIN h : EndOf(f, c) = EndOf(h, c) BY <1>2 DEF EndOf
<1>4. IsHeap(f)
  <2>1. \A c \in DOMAIN h \ {b} : f[c].size \in Nat /\ f[c].free \in BOOLEAN
    BY <1>0, <1>2 DEF IsHeap
  <2>2. f[b].size \in Nat /\ f[b].free \in BOOLEAN BY <1>0, <1>2 DEF IsHeap
  <2>3. \A c \in DOMAIN f : f[c] = [size |-> f[c].size, free |-> f[c].free]
    BY <1>0, <1>1, <1>2 DEF IsHeap
  <2>4. f = [c \in DOMAIN f |-> f[c]] BY DEF FreeBlock
  <2> QED BY <1>0, <1>1, <2>1, <2>2, <2>3, <2>4 DEF IsHeap
<1>5. Tiled(f) BY <1>0, <1>1, <1>3 DEF Tiled
<1> QED BY <1>1, <1>2, <1>3, <1>4, <1>5

\* Free neighbours only where the second of them is b.
FreeBefore(h, b) ==
  \A c \in DOMAIN h : h[c].free /\ EndOf(h, c) \in DOMAIN h /\ h[EndOf(h, c)].free
                        => EndOf(h, c) = b

(***************************************************************************)
(* After the merge with the block behind it, a freed block can only have a *)
(* free neighbour before it.                                               *)
(***************************************************************************)
LEMMA MergeNextTiled ==
  ASSUME NEW h, WellFormed(h), NEW b \in DOMAIN h
  PROVE  LET m == MergeNext(FreeBlock(h, b), b) IN
         IsHeap(m) /\ Tiled(m) /\ b \in DOMAIN m /\ m[b].free /\ FreeBefore(m, b)
<1> DEFINE f == FreeBlock(h, b)
           e == EndOf(f, b)
           m == MergeNext(f, b)
<1>1. /\ IsHeap(f) /\ Tiled(f) /\ DOMAIN f = DOMAIN h /\ f[b].free
      /\ \A c \in DOMAIN f : EndOf(f, c) = EndOf(h, c)
      /\ \A c \in DOMAIN f \ {b} : f[c] = h[c]
  BY FreedTiled
<1>2. \A c \in DOMAIN h : h[c].free /\ EndOf(h, c) \in DOMAIN h => ~h[EndOf(h, c)].free
  BY DEF WellFormed, Coalesced
<1>3. /\ Above(f, b) # {} <=> e \in DOMAIN f
      /\ e \in DOMAIN f => NextBlock(f, b) = e
  BY <1>1, NextIsEnd
<1>4. \A c \in DOMAIN f : c \in Nat /\ EndOf(f, c) \in Nat /\ EndOf(f, c) > c
  BY <1>1, BlockFacts
<1> HIDE DEF f
<1>5. CASE e \in DOMAIN f /\ f[e].free
  <2>1. m = Absorb(f, b, e) /\ e = EndOf(f, b) BY <1>3, <1>5 DEF MergeNext
  <2> HIDE DEF m, e
  <2>2. /\ IsHeap(m) /\ Tiled(m) /\ DOMAIN m = DOMAIN f \ {e} /\ b # e
        /\ EndOf(m, b) = EndOf(f, e) /\ m[b].free = f[b].free
        /\ \A d \in DOMAIN m \ {b} : m[d] = f[d] /\ EndOf(m, d) = EndOf(f, d)
    <3>1. IsHeap(f) /\ Tiled(f) /\ b \in DOMAIN f /\ e \in DOMAIN f BY <1>1, <1>5
    <3> QED BY <2>1, <3>1, AbsorbTiled
  <2>3. h[e].free BY <1>1, <1>5, <2>2
  <2>4. ASSUME NEW c \in DOMAIN m, m[c].free, EndOf(m, c) \in DOMAIN m, m[EndOf(m, c)].free,
               EndOf(m, c) # b
        PROVE  FALSE
    <3>1. m[EndOf(m, c)] = h[EndOf(m, c)] /\ EndOf(m, c) \in DOMAIN h BY <1>1, <2>2, <2>4
    <3>2. CASE c = b
      <4>1. EndOf(m, c) = EndOf(h, e) BY <1>1, <1>5, <2>2, <3>2
      <4> QED BY <1>1, <1>2, <1>5, <2>3, <2>4, <3>1, <4>1
    <3>3. CASE c # b
      <4>1. EndOf(m, c) = EndOf(h, c) /\ h[c].free /\ c \in DOMAIN h BY <1>1, <2>2, <2>4, <3>3
      <4> QED BY <1>2, <2>4, <3>1, <4>1
    <3> QED BY <3>2, <3>3
  <2>5. FreeBefore(m, b) BY <2>4 DEF FreeBefore
  <2> QED BY <1>1, <2>2, <2>5 DEF m, f
<1>6. CASE ~(e \in DOMAIN f /\ f[e].free)
  <2>1. m = f BY <1>3, <1>6 DEF MergeNext
  <2>2. ASSUME NEW c \in DOMAIN f, f[c].free, EndOf(f, c) \in DOMAIN f, f[EndOf(f, c)].free,
               EndOf(f, c) # b
        PROVE  FALSE
    <3>1. c # b BY <1>6, <2>2
    <3>2. h[c].free /\ EndOf(f, c) = EndOf(h, c) /\ f[EndOf(f, c)] = h[EndOf(h, c)]
      BY <1>1, <2>2, <3>1
    <3> QED BY <1>1, <1>2, <2>2, <3>2
  <2>3. FreeBefore(f, b) BY <2>2 DEF FreeBefore
  <2> QED BY <1>1, <2>1, <2>3 DEF f
<1> QED BY <1>5, <1>6

(***************************************************************************)
(* kfree keeps the heap well formed.                                       *)
(***************************************************************************)
LEMMA FreeWellFormed ==
  ASSUME NEW h, WellFormed(h), NEW p, p = NULL \/ Allocated(h, p)
  PROVE  WellFormed(kfree(h, p))
<1> DEFINE b == p - HDR
           m == MergeNext(FreeBlock(h, b), b)
           q == PrevBlock(m, b)
           r == MergePrev(m, b)
<1>1. CASE p = NULL BY <1>1 DEF kfree
<1>2. CASE p # NULL
  <2>1. b \in DOMAIN h BY <1>2 DEF Allocated
  <2>2. IsHeap(m) /\ Tiled(m) /\ b \in DOMAIN m /\ m[b].free /\ FreeBefore(m, b)
    BY <2>1, MergeNextTiled
  <2>3. kfree(h, p) = r BY <1>2 DEF kfree
  <2> HIDE DEF m, b
  <2>4. \A c \in DOMAIN m : c \in Nat /\ EndOf(m, c) \in Nat /\ EndOf(m, c) > c
    BY <2>2, BlockFacts
  <2>5. CASE Below(m, b) # {} /\ m[q].free
    <3>1. q \in DOMAIN m /\ EndOf(m, q) = b BY <2>2, <2>5, PrevEndsHere
    <3>2. r = Absorb(m, q, b) BY <2>5 DEF MergePrev
    <3> HIDE DEF q, r
    <3>3. /\ IsHeap(r) /\ Tiled(r) /\ DOMAIN r = DOMAIN m \ {b} /\ q # b
          /\ EndOf(r, q) = EndOf(m, b) /\ r[q].free = m[q].free
          /\ \A d \in DOMAIN r \ {q} : r[d] = m[d] /\ EndOf(r, d) = EndOf(m, d)
      BY <2>2, <3>1, <3>2, AbsorbTiled
    <3>4. ASSUME NEW c \in DOMAIN r, r[c].free, EndOf(r, c) \in DOMAIN r, r[EndOf(r, c)].free
          PROVE  FALSE
      <4>1. CASE c = q
        <5>1. EndOf(r, c) = EndOf(m, b) /\ EndOf(m, b) > b BY <2>2, <2>4, <3>3, <4>1
        <5>2. EndOf(m, b) # q BY <2>2, <2>4, <3>1
        <5>3. EndOf(m, b) \in DOMAIN m /\ m[EndOf(m, b)].free BY <3>3, <3>4, <5>1, <5>2
        <5> QED BY <2>2, <2>4, <5>3 DEF FreeBefore
      <4>2. CASE c # q
        <5>1. EndOf(r, c) = EndOf(m, c) /\ m[c].free /\ c \in DOMAIN m BY <3>3, <3>4, <4>2
        <5>2. EndOf(m, c) \in DOMAIN m /\ m[EndOf(m, c)].free
          BY <2>5, <3>3, <3>4, <5>1
        <5>3. EndOf(m, c) = b BY <2>2, <5>1, <5>2 DEF FreeBefore
        <5> QED BY <3>3, <3>4, <5>1, <5>3
      <4> QED BY <4>1, <4>2
    <3>5. Coalesced(r) BY <3>4 DEF Coalesced
    <3> QED BY <2>3, <3>3, <3>5 DEF WellFormed, r
  <2>6. CASE ~(Below(m, b) # {} /\ m[q].free)
    <3>1. r = m BY <2>6 DEF MergePrev
    <3>2. ASSUME NEW c \in DOMAIN m, m[c].free, EndOf(m, c) = b PROVE FALSE
      <4>1. c \in Below(m, b) BY <2>2, <2>4, <3>2 DEF Below
      <4>2. q \in DOMAIN m /\ EndOf(m, q) = b /\ ~m[q].free BY <2>2, <2>6, <4>1, PrevEndsHere
      <4> HIDE DEF q
      <4>3. q = c
        <5>1. \A x, y \in DOMAIN m : x < y => EndOf(m, x) <= y BY <2>2, BlockFacts
        <5> QED BY <2>4, <3>2, <4>2, <5>1
      <4> QED BY <3>2, <4>2, <4>3
    <3>3. Coalesced(m) BY <2>2, <3>2 DEF Coalesced, FreeBefore
    <3> QED BY <2>2, <2>3, <3>1, <3>3 DEF WellFormed
  <2> QED BY <2>5, <2>6
<1> QED BY <1>1, <1>2

(***************************************************************************)
(* No block's data is at NULL.                                             *)
(***************************************************************************)
LEMMA NullNotAllocated ==
  ASSUME NEW h, WellFormed(h)
  PROVE  ~Allocated(h, NULL)
<1>1. DOMAIN h \subseteq Nat BY DEF WellFormed, IsHeap, Addr
<1> QED BY <1>1 DEF Allocated, NULL, HDR

(***************************************************************************)
(* When kmalloc returns NULL it has changed nothing.                       *)
(***************************************************************************)
LEMMA MallocNull ==
  ASSUME NEW h, WellFormed(h), NEW bytes \in Nat, kmalloc(h, bytes) = NULL
  PROVE  Kmalloced(h, bytes) = h
<1> DEFINE n == Words(bytes)
           b == FirstFit(h, n)
<1>1. CASE bytes = 0 \/ Fits(h, n) = {} BY <1>1 DEF Kmalloced
<1>2. CASE ~(bytes = 0 \/ Fits(h, n) = {})
  <2>1. b \in DOMAIN h BY <1>2, FirstFitFits DEF WellFormed
  <2>2. b \in Nat BY <2>1, BlockFacts DEF WellFormed
  <2>3. kmalloc(h, bytes) = b + HDR BY <1>2 DEF kmalloc
  <2> HIDE DEF b
  <2> QED BY <2>2, <2>3 DEF HDR, NULL
<1> QED BY <1>1, <1>2

(***************************************************************************)
(* What is in use after kmalloc was in use before or is what it returned.  *)
(***************************************************************************)
LEMMA MallocOnlyAdds ==
  ASSUME NEW h, WellFormed(h), NEW bytes \in Nat, NEW p \in Nat,
         Allocated(Kmalloced(h, bytes), p), ~Allocated(h, p)
  PROVE  p = kmalloc(h, bytes) /\ kmalloc(h, bytes) # NULL
<1> DEFINE n == Words(bytes)
           b == FirstFit(h, n)
           q == p - HDR
<1>0. n \in Nat BY DEF Words
<1>1. CASE bytes = 0 \/ Fits(h, n) = {} BY <1>1 DEF Kmalloced
<1>2. CASE ~(bytes = 0 \/ Fits(h, n) = {})
  <2>1. b \in DOMAIN h BY <1>2, FirstFitFits DEF WellFormed
  <2>2. b \in Nat BY <2>1, BlockFacts DEF WellFormed
  <2>3. kmalloc(h, bytes) = b + HDR /\ Kmalloced(h, bytes) = Take(h, b, n)
    BY <1>2 DEF kmalloc, Kmalloced
  <2>4. q \in DOMAIN Take(h, b, n) /\ ~Take(h, b, n)[q].free BY <2>3 DEF Allocated
  <2>5. ~(q \in DOMAIN h /\ ~h[q].free) BY DEF Allocated
  <2> HIDE DEF b, n, q
  <2>6. q = b
    <3>1. SUFFICES ASSUME q # b PROVE FALSE OBVIOUS
    <3>2. CASE h[b].size > n + HDR + 1
      <4>1. q \in DOMAIN Split(h, b, n) /\ ~Split(h, b, n)[q].free BY <2>4, <3>2 DEF Take
      <4>2. CASE q = b + HDR + n
        <5>1. Split(h, b, n)[q] = [size |-> h[b].size - n - HDR, free |-> TRUE]
          BY <3>1, <4>1, <4>2 DEF Split
        <5> QED BY <4>1, <5>1
      <4>3. CASE q # b + HDR + n BY <2>5, <3>1, <4>1, <4>3 DEF Split
      <4> QED BY <4>2, <4>3
    <3>3. CASE ~(h[b].size > n + HDR + 1) BY <2>4, <2>5, <3>1, <3>3 DEF Take, Whole
    <3> QED BY <3>2, <3>3
  <2> QED BY <2>2, <2>3, <2>6 DEF q, HDR, NULL
<1> QED BY <1>1, <1>2

(***************************************************************************)
(* kfree gives back the block of p and leaves every other block in use as  *)
(* it is.                                                                  *)
(***************************************************************************)
LEMMA FreeKeepsOthers ==
  ASSUME NEW h, WellFormed(h), NEW p \in Nat, Allocated(h, p), NEW q \in Nat
  PROVE  /\ Allocated(kfree(h, p), q) <=> Allocated(h, q) /\ q # p
         /\ Allocated(h, q) /\ q # p => Bytes(kfree(h, p), q) = Bytes(h, q)
<1> DEFINE b == p - HDR
           d == q - HDR
           f == FreeBlock(h, b)
           e == NextBlock(f, b)
           m == MergeNext(f, b)
           a == PrevBlock(m, b)
           r == MergePrev(m, b)
<1>1. b \in DOMAIN h /\ b \in Nat BY BlockFacts DEF Allocated, WellFormed
<1>2. p # NULL /\ kfree(h, p) = r BY <1>1 DEF kfree, NULL, HDR
<1>3. d = b <=> q = p BY DEF HDR
<1>4. /\ IsHeap(f) /\ Tiled(f) /\ DOMAIN f = DOMAIN h /\ f[b].free
      /\ \A c \in DOMAIN f \ {b} : f[c] = h[c]
  BY <1>1, FreedTiled
<1>5. IsHeap(m) /\ Tiled(m) /\ b \in DOMAIN m /\ m[b].free BY <1>1, MergeNextTiled
<1> HIDE DEF f, b, d
\* After the merge with the next block.
<1>6. /\ d \in DOMAIN m /\ ~m[d].free <=> d \in DOMAIN f /\ ~f[d].free
      /\ d \in DOMAIN f /\ ~f[d].free => m[d] = f[d]
  <2>1. CASE Above(f, b) # {} /\ f[e].free
    <3>1. e \in DOMAIN f /\ e = EndOf(f, b) BY <1>1, <1>4, <2>1, NextIsEnd
    <3>2. m = Absorb(f, b, e) BY <2>1 DEF MergeNext
    <3> HIDE DEF m, e
    <3>3. /\ DOMAIN m = DOMAIN f \ {e} /\ b # e /\ m[b].free = f[b].free
          /\ \A c \in DOMAIN m \ {b} : m[c] = f[c]
      <4>1. IsHeap(f) /\ Tiled(f) /\ b \in DOMAIN f BY <1>1, <1>4
      <4> QED BY <3>1, <3>2, <4>1, AbsorbTiled
    <3>4. f[e].free BY <2>1 DEF e
    <3> QED BY <1>4, <3>3, <3>4
  <2>2. CASE ~(Above(f, b) # {} /\ f[e].free) BY <2>2 DEF MergeNext
  <2> QED BY <2>1, <2>2
<1> HIDE DEF m
\* After the merge with the block before.
<1>7. /\ d \in DOMAIN r /\ ~r[d].free <=> d \in DOMAIN m /\ ~m[d].free
      /\ d \in DOMAIN m /\ ~m[d].free => r[d] = m[d]
  <2>1. CASE Below(m, b) # {} /\ m[a].free
    <3>1. a \in DOMAIN m /\ EndOf(m, a) = b BY <1>5, <2>1, PrevEndsHere
    <3>2. r = Absorb(m, a, b) BY <2>1 DEF MergePrev
    <3> HIDE DEF r, a
    <3>3. /\ DOMAIN r = DOMAIN m \ {b} /\ a # b /\ r[a].free = m[a].free
          /\ \A c \in DOMAIN r \ {a} : r[c] = m[c]
      BY <1>5, <3>1, <3>2, AbsorbTiled
    <3> QED BY <1>5, <2>1, <3>3
  <2>2. CASE ~(Below(m, b) # {} /\ m[a].free) BY <2>2 DEF MergePrev
  <2> QED BY <2>1, <2>2
<1> HIDE DEF r
<1>8. /\ d \in DOMAIN r /\ ~r[d].free <=> d \in DOMAIN h /\ ~h[d].free /\ d # b
      /\ d \in DOMAIN h /\ ~h[d].free /\ d # b => r[d] = h[d]
  BY <1>4, <1>6, <1>7
<1> QED BY <1>2, <1>3, <1>8 DEF Allocated, Bytes, d

(***************************************************************************)
(* Allocating a buffer and then freeing the one it replaces (none if NULL) *)
(* gives a fresh buffer of the size asked for and takes only the old one.  *)
(***************************************************************************)
LEMMA ReplaceBuffer ==
  ASSUME NEW h, WellFormed(h), NEW bytes \in Nat, kmalloc(h, bytes) # NULL,
         NEW c \in Nat, c = NULL \/ Allocated(h, c)
  PROVE  LET k == kfree(Kmalloced(h, bytes), c)
             n == kmalloc(h, bytes)
         IN  /\ WellFormed(k) /\ n \in Nat /\ n # c /\ ~Allocated(h, n)
             /\ Allocated(k, n) /\ Bytes(k, n) >= bytes
             /\ \A p \in Nat : Allocated(h, p) /\ p # c => Allocated(k, p) /\ Bytes(k, p) = Bytes(h, p)
             /\ \A p \in Nat : Allocated(k, p) => p = n \/ (Allocated(h, p) /\ p # c)
<1> DEFINE m == Kmalloced(h, bytes)
           n == kmalloc(h, bytes)
           k == kfree(m, c)
<1>1. WellFormed(m) BY MallocWellFormed
<1>2. n \in Nat /\ n # NULL /\ ~Allocated(h, n) /\ Allocated(m, n) /\ Bytes(m, n) >= bytes
  BY MallocFresh
<1>3. n # c BY <1>2
<1>4. \A p : Allocated(h, p) => Allocated(m, p) /\ Bytes(m, p) = Bytes(h, p) BY MallocKeepsOthers
<1>5. \A p \in Nat : Allocated(m, p) /\ ~Allocated(h, p) => p = n BY MallocOnlyAdds
<1>6. WellFormed(k) BY <1>1, <1>4, FreeWellFormed
<1>7. \A p \in Nat : Allocated(k, p) <=> Allocated(m, p) /\ p # c
  <2>1. CASE c = NULL
    <3>1. k = m BY <2>1 DEF kfree
    <3> QED BY <1>1, <2>1, <3>1, NullNotAllocated
  <2>2. CASE Allocated(h, c)
    <3>1. Allocated(m, c) BY <1>4, <2>2
    <3> HIDE DEF m
    <3> QED BY <1>1, <3>1, FreeKeepsOthers
  <2> QED BY <2>1, <2>2
<1>8. \A p \in Nat : Allocated(m, p) /\ p # c => Bytes(k, p) = Bytes(m, p)
  <2>1. CASE c = NULL BY <2>1 DEF kfree
  <2>2. CASE Allocated(h, c)
    <3>1. Allocated(m, c) BY <1>4, <2>2
    <3> HIDE DEF m
    <3> QED BY <1>1, <3>1, FreeKeepsOthers
  <2> QED BY <2>1, <2>2
<1> HIDE DEF m, n, k
<1>9. Allocated(k, n) /\ Bytes(k, n) >= bytes BY <1>2, <1>3, <1>7, <1>8
<1>10. \A p \in Nat : Allocated(h, p) /\ p # c => Allocated(k, p) /\ Bytes(k, p) = Bytes(h, p)
  BY <1>4, <1>7, <1>8
<1>11. \A p \in Nat : Allocated(k, p) => p = n \/ (Allocated(h, p) /\ p # c) BY <1>5, <1>7
<1> QED BY <1>2, <1>3, <1>6, <1>9, <1>10, <1>11 DEF m, n, k

(***************************************************************************)
(* kmalloc followed by kfree of what it returned leaves the heap exactly   *)
(* as it was: saving, which does that, does not fragment the heap.         *)
(***************************************************************************)
THEOREM MallocFreeRestores ==
  ASSUME NEW h, WellFormed(h), NEW bytes \in Nat, kmalloc(h, bytes) # NULL
  PROVE  kfree(Kmalloced(h, bytes), kmalloc(h, bytes)) = h
<1> DEFINE n == Words(bytes)
           b == FirstFit(h, n)
           t == Take(h, b, n)
           f == FreeBlock(t, b)
<1>0. n \in Nat BY DEF Words
<1>1. ~(bytes = 0 \/ Fits(h, n) = {}) BY DEF kmalloc
<1>2. b \in DOMAIN h /\ h[b].free BY <1>1, FirstFitFits DEF WellFormed
<1>3. /\ IsHeap(h) /\ Tiled(h) /\ b \in Nat /\ h[b].size \in Nat
      /\ EndOf(h, b) = b + HDR + h[b].size /\ HDR = 3
  BY <1>2, BlockFacts DEF WellFormed, EndOf, HDR
<1>4. kmalloc(h, bytes) = b + HDR /\ Kmalloced(h, bytes) = t
  BY <1>1 DEF kmalloc, Kmalloced
<1>5. kmalloc(h, bytes) - HDR = b BY <1>3, <1>4
<1>6. kfree(Kmalloced(h, bytes), kmalloc(h, bytes)) = MergePrev(MergeNext(f, b), b)
  BY <1>4, <1>5 DEF kfree
<1>7. h[b] = [size |-> h[b].size, free |-> TRUE]
  <2>1. h[b].free = TRUE BY <1>2, <1>3 DEF IsHeap
  <2> QED BY <1>2, <1>3, <2>1 DEF IsHeap
<1>8. h = [c \in DOMAIN h |-> h[c]] BY <1>3 DEF IsHeap
<1> HIDE DEF b, n
<1>9. MergeNext(f, b) = h
  <2>1. CASE h[b].size > n + HDR + 1
    <3> DEFINE r == b + HDR + n
               s == Split(h, b, n)
    <3>1. t = s /\ h[b].size > n + HDR BY <1>0, <1>3, <2>1 DEF Take
    <3>2. r \in Nat /\ b < r /\ r < EndOf(h, b) BY <1>0, <1>3, <3>1
    <3>3. r \notin DOMAIN h BY <1>2, <1>3, <3>2 DEF Tiled
    <3>4. /\ DOMAIN s = DOMAIN h \cup {r} /\ s[b] = [size |-> n, free |-> FALSE]
          /\ s[r] = [size |-> h[b].size - n - HDR, free |-> TRUE]
          /\ \A c \in DOMAIN h \ {b} : s[c] = h[c]
      BY <1>2, <3>2, <3>3 DEF Split
    <3>5. WellFormed(s) BY <1>0, <1>2, <3>1, SplitWellFormed
    <3>6. f = FreeBlock(s, b) BY <3>1
    <3> HIDE DEF s, r, t, f
    <3>7. b \in DOMAIN s /\ b # r BY <1>2, <1>3, <3>2, <3>4
    <3>8. /\ IsHeap(f) /\ Tiled(f) /\ DOMAIN f = DOMAIN s
          /\ \A c \in DOMAIN f : EndOf(f, c) = EndOf(s, c)
          /\ \A c \in DOMAIN f \ {b} : f[c] = s[c]
      BY <3>5, <3>6, <3>7, FreedTiled
    <3>9. f[b] = [size |-> n, free |-> TRUE] BY <3>4, <3>6, <3>7 DEF FreeBlock
    <3>10. EndOf(f, b) = r BY <1>0, <1>3, <3>4, <3>7, <3>8 DEF EndOf, r
    <3>11. Above(f, b) # {} /\ NextBlock(f, b) = r
      BY <3>4, <3>7, <3>8, <3>10, NextIsEnd
    <3>12. f[r] = s[r] /\ f[r].free BY <3>4, <3>7, <3>8
    <3>13. MergeNext(f, b) = Absorb(f, b, r) BY <3>11, <3>12 DEF MergeNext
    <3>14. DOMAIN f \ {r} = DOMAIN h BY <3>3, <3>4, <3>8
    <3>15. Absorb(f, b, r) = [c \in DOMAIN h |->
                                IF c = b THEN [size |-> f[b].size + HDR + f[r].size, free |-> f[b].free]
                                ELSE f[c]]
      BY <3>14 DEF Absorb
    <3>16. [size |-> f[b].size + HDR + f[r].size, free |-> f[b].free] = h[b]
      <4>1. f[b].size = n /\ f[r].size = h[b].size - n - HDR /\ f[b].free = TRUE
        BY <3>4, <3>9, <3>12
      <4>2. f[b].size + HDR + f[r].size = h[b].size BY <1>0, <1>3, <4>1
      <4> QED BY <1>7, <4>1, <4>2
    <3>17. \A c \in DOMAIN h \ {b} : f[c] = h[c] BY <3>4, <3>8
    <3> QED BY <1>8, <3>13, <3>15, <3>16, <3>17
  <2>2. CASE ~(h[b].size > n + HDR + 1)
    <3>1. f = h
      <4>1. t = Whole(h, b) BY <2>2 DEF Take
      <4>2. DOMAIN f = DOMAIN h BY <4>1 DEF FreeBlock, Whole
      <4>3. f[b] = h[b] BY <1>2, <1>7, <4>1 DEF FreeBlock, Whole
      <4>4. \A c \in DOMAIN h \ {b} : f[c] = h[c] BY <4>1 DEF FreeBlock, Whole
      <4>5. f = [c \in DOMAIN f |-> f[c]] BY DEF FreeBlock
      <4> HIDE DEF f
      <4> QED BY <1>8, <4>2, <4>3, <4>4, <4>5
    <3>2. Above(h, b) # {} => ~h[NextBlock(h, b)].free
      BY <1>2, <1>3, NextIsEnd DEF WellFormed, Coalesced
    <3> QED BY <3>1, <3>2 DEF MergeNext
  <2> QED BY <2>1, <2>2
<1>10. MergePrev(h, b) = h
  <2>1. Below(h, b) # {} => ~h[PrevBlock(h, b)].free
    BY <1>2, <1>3, PrevEndsHere DEF WellFormed, Coalesced
  <2> QED BY <2>1 DEF MergePrev
<1> QED BY <1>6, <1>9, <1>10
=============================================================================
