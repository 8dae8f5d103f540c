----------------------------- MODULE PagesProofs -----------------------------
(***************************************************************************)
(* A page has one owner unless mmap comes between the search and the store *)
(* of pmm_alloc in the shell, and reserved pages are never handed out even *)
(* then, for every number of pages and every width of the bitmap's cells.  *)
(***************************************************************************)
EXTENDS Pages, KHeapProofs

Reserved == {p \in Page : p < KERNEL_PAGES \/ p \in Video \cup {0}}

PagesTypeInv ==
  /\ pmm_last_alloc \in Nat
  /\ alloc.pc \in {"idle", "found", "loaded", "stored"}

\* What the search has found, and the byte loaded for it, leave the reserved
\* pages alone, however old they are.
SearchSparesReserved ==
  /\ alloc.pc # "idle" => alloc.page \in Page \ Reserved
  /\ alloc.pc = "loaded" => Reserved \cap InByte(alloc.page) \subseteq alloc.byte

\* Without a race every page handed out is marked, and what the shell is about
\* to mark is still clear in the bitmap and in its copy of the byte.
MarkedIfGiven ==
  ~raced => /\ given \subseteq pmm_bitmap
            /\ alloc.pc \in {"found", "loaded"} => alloc.page \notin pmm_bitmap
            /\ alloc.pc = "loaded" => alloc.byte = pmm_bitmap \cap InByte(alloc.page)
            /\ alloc.pc = "stored" => alloc.page \in pmm_bitmap \ given

PagesInv ==
  PagesTypeInv /\ ReservedKept /\ SearchSparesReserved /\ MarkedIfGiven /\ PagesGivenOnce

(***************************************************************************)
(* The search ends at a page of the machine whose bit is clear.            *)
(***************************************************************************)
LEMMA FoundIsClear ==
  ASSUME pmm_last_alloc \in Nat, Found # NoPage
  PROVE  Found \in Page \ pmm_bitmap
<1> DEFINE above == {p \in Page : p >= pmm_last_alloc /\ p \notin pmm_bitmap}
           below == {p \in Page : 1 <= p /\ p < pmm_last_alloc /\ p \notin pmm_bitmap}
<1>1. Page \subseteq Nat BY PagesAssumption DEF Page
<1>2. ASSUME NEW S \in SUBSET Nat, S # {} PROVE Least(S) \in S
  <2>1. \E p \in S : \A q \in S : p <= q BY <1>2, LeastExists
  <2> QED BY <2>1 DEF Least
<1>3. above \in SUBSET Nat /\ below \in SUBSET Nat BY <1>1
<1>4. Found = IF above # {} THEN Least(above) ELSE IF below # {} THEN Least(below) ELSE NoPage
  BY DEF Found
<1>5. Found \in above \/ Found \in below BY <1>2, <1>3, <1>4
<1> QED BY <1>5

(***************************************************************************)
(* A clear page is not a reserved one.                                     *)
(***************************************************************************)
LEMMA ClearIsFree ==
  ASSUME PagesInv, NEW p \in Page \ pmm_bitmap
  PROVE  p \in Page \ Reserved
BY DEF PagesInv, ReservedKept, Reserved

(***************************************************************************)
(* ReservedKept in terms of Reserved.                                      *)
(***************************************************************************)
LEMMA ReservedSets ==
  ReservedKept <=> Reserved \subseteq pmm_bitmap /\ Reserved \cap given = {}
BY DEF ReservedKept, Reserved

(***************************************************************************)
(* The bitmap and the search position as pmm_init leaves them.             *)
(***************************************************************************)
LEMMA PagesInitInv == PagesInit => PagesInv
<1> SUFFICES ASSUME PagesInit PROVE PagesInv OBVIOUS
<1>1. PagesTypeInv BY PagesAssumption DEF PagesInit, PagesTypeInv, NotAllocating
<1>2. ReservedKept BY DEF PagesInit, ReservedKept, pmm_init
<1>3. SearchSparesReserved /\ MarkedIfGiven
  BY DEF PagesInit, SearchSparesReserved, MarkedIfGiven, NotAllocating
<1>4. PagesGivenOnce BY DEF PagesInit, PagesGivenOnce
<1> QED BY <1>1, <1>2, <1>3, <1>4 DEF PagesInv

(***************************************************************************)
(* pmm_alloc in the shell, step by step.                                   *)
(***************************************************************************)
LEMMA AllocKeepsInv ==
  ASSUME PagesInv, AllocFinds \/ AllocLoads \/ AllocStores \/ AllocReturns
  PROVE  PagesInv'
<1>1. CASE AllocFinds
  <2>1. /\ alloc' = [pc |-> "found", page |-> Found, byte |-> {}]
        /\ UNCHANGED <<pmm_bitmap, pmm_last_alloc, given, twice, raced>>
    BY <1>1 DEF AllocFinds
  <2>2. Found \in Page \ pmm_bitmap
    BY <1>1, FoundIsClear DEF AllocFinds, PagesInv, PagesTypeInv
  <2>3. Found \in Page \ Reserved BY <2>2, ClearIsFree
  <2> QED BY <2>1, <2>2, <2>3, ReservedSets
      DEF PagesInv, PagesTypeInv, ReservedKept, SearchSparesReserved, MarkedIfGiven, PagesGivenOnce,
          Reserved
<1>2. CASE AllocLoads
  <2>1. /\ alloc.pc = "found"
        /\ alloc' = [pc |-> "loaded", page |-> alloc.page,
                     byte |-> pmm_bitmap \cap InByte(alloc.page)]
        /\ UNCHANGED <<pmm_bitmap, pmm_last_alloc, given, twice, raced>>
    BY <1>2 DEF AllocLoads
  <2>2. ReservedKept' BY <2>1 DEF PagesInv, ReservedKept
  <2>3. SearchSparesReserved'
    BY <2>1, ReservedSets DEF PagesInv, SearchSparesReserved, Reserved
  <2>4. MarkedIfGiven' BY <2>1 DEF PagesInv, MarkedIfGiven
  <2> QED BY <2>1, <2>2, <2>3, <2>4 DEF PagesInv, PagesTypeInv, PagesGivenOnce
<1>3. CASE AllocStores
  <2> DEFINE p == alloc.page
  <2>1. /\ alloc.pc = "loaded"
        /\ pmm_bitmap' = (pmm_bitmap \ InByte(p)) \cup (alloc.byte \cup {p})
        /\ alloc' = [pc |-> "stored", page |-> p, byte |-> {}]
        /\ UNCHANGED <<pmm_last_alloc, given, twice, raced>>
    BY <1>3 DEF AllocStores, Marked
  <2>2. ReservedKept'
    <3>1. Reserved \subseteq pmm_bitmap' BY <2>1, ReservedSets DEF PagesInv, SearchSparesReserved
    <3> QED BY <2>1, <3>1 DEF PagesInv, ReservedKept, Reserved
  <2>3. SearchSparesReserved' BY <2>1 DEF PagesInv, SearchSparesReserved, Reserved
  <2>4. MarkedIfGiven' BY <2>1 DEF PagesInv, MarkedIfGiven
  <2> QED BY <2>1, <2>2, <2>3, <2>4 DEF PagesInv, PagesTypeInv, PagesGivenOnce
<1>4. CASE AllocReturns
  <2>1. /\ alloc.pc = "stored" /\ alloc' = NotAllocating
        /\ pmm_last_alloc' = alloc.page + 1
        /\ given' = given \cup {alloc.page}
        /\ twice' = IF alloc.page \in given THEN twice \cup {alloc.page} ELSE twice
        /\ UNCHANGED <<pmm_bitmap, raced>>
    BY <1>4 DEF AllocReturns, Given
  <2>2. alloc.page \in Page \ Reserved BY <2>1 DEF PagesInv, SearchSparesReserved
  <2>3. PagesTypeInv'
    BY <2>1, <2>2, PagesAssumption DEF PagesInv, PagesTypeInv, NotAllocating, Page
  <2>4. ReservedKept' BY <2>1, <2>2 DEF PagesInv, ReservedKept, Reserved
  <2>5. SearchSparesReserved' /\ MarkedIfGiven' /\ PagesGivenOnce'
    BY <2>1 DEF PagesInv, SearchSparesReserved, MarkedIfGiven, PagesGivenOnce, NotAllocating
  <2> QED BY <2>3, <2>4, <2>5 DEF PagesInv
<1> QED BY <1>1, <1>2, <1>3, <1>4

(***************************************************************************)
(* A page taken in a system call, wherever the shell stands.               *)
(***************************************************************************)
LEMMA MmapKeepsInv ==
  ASSUME PagesInv, MmapTakes
  PROVE  PagesInv'
<1>1. /\ pmm_bitmap' = pmm_bitmap \cup {Found}
      /\ pmm_last_alloc' = Found + 1
      /\ given' = given \cup {Found}
      /\ twice' = IF Found \in given THEN twice \cup {Found} ELSE twice
      /\ raced' = (raced \/ alloc.pc \in {"found", "loaded"})
      /\ UNCHANGED alloc
  BY DEF MmapTakes, Marked, Given
<1>2. Found \in Page \ pmm_bitmap BY FoundIsClear DEF MmapTakes, PagesInv, PagesTypeInv
<1>3. Found \in Page \ Reserved BY <1>2, ClearIsFree
<1>4. PagesTypeInv' BY <1>1, <1>2, PagesAssumption DEF PagesInv, PagesTypeInv, Page
<1>5. ReservedKept' BY <1>1, <1>3 DEF PagesInv, ReservedKept, Reserved
<1>6. SearchSparesReserved' BY <1>1 DEF PagesInv, SearchSparesReserved, Reserved
<1>7. MarkedIfGiven' BY <1>1, <1>2 DEF PagesInv, MarkedIfGiven
<1>8. PagesGivenOnce' BY <1>1, <1>2 DEF PagesInv, MarkedIfGiven, PagesGivenOnce
<1> QED BY <1>4, <1>5, <1>6, <1>7, <1>8 DEF PagesInv

(***************************************************************************)
(* Every step keeps the invariant.                                         *)
(***************************************************************************)
LEMMA PagesStep == PagesInv /\ [PagesNext]_pageVars => PagesInv'
<1> SUFFICES ASSUME PagesInv, [PagesNext]_pageVars PROVE PagesInv' OBVIOUS
<1>1. CASE AllocFinds \/ AllocLoads \/ AllocStores \/ AllocReturns BY <1>1, AllocKeepsInv
<1>2. CASE MmapTakes BY <1>2, MmapKeepsInv
<1>3. CASE UNCHANGED <<pmm_bitmap, pmm_last_alloc, alloc, given, twice, raced>>
  BY <1>3 DEF PagesInv, PagesTypeInv, ReservedKept, SearchSparesReserved, MarkedIfGiven,
              PagesGivenOnce
<1>4. ASSUME NEW n, cmd_exec(n) \/ sys_mmap(n)
      PROVE  UNCHANGED <<pmm_bitmap, pmm_last_alloc, alloc, given, twice, raced>>
  BY <1>4 DEF cmd_exec, sys_mmap
<1>5. AllocFails \/ MmapFails
        => UNCHANGED <<pmm_bitmap, pmm_last_alloc, alloc, given, twice, raced>>
  BY DEF AllocFails, MmapFails
<1>6. UNCHANGED pageVars => UNCHANGED <<pmm_bitmap, pmm_last_alloc, alloc, given, twice, raced>>
  BY DEF pageVars
<1> QED BY <1>1, <1>2, <1>3, <1>4, <1>5, <1>6 DEF PagesNext

(***************************************************************************)
(* A page is handed out twice only if a program called mmap while exec was *)
(* between finding a clear bit and storing the byte.                       *)
(***************************************************************************)
THEOREM PagesHaveOneOwner == PagesSpec => []PagesGivenOnce
<1>1. PagesInv => PagesGivenOnce BY DEF PagesInv
<1> QED BY <1>1, PagesInitInv, PagesStep, PTL DEF PagesSpec

(***************************************************************************)
(* The pages of the kernel and of the adapters stay marked and are never   *)
(* handed out, also when a stale byte is stored over the bitmap.           *)
(***************************************************************************)
THEOREM ReservedPagesKept == PagesSpec => []ReservedKept
<1>1. PagesInv => ReservedKept BY DEF PagesInv
<1> QED BY <1>1, PagesInitInv, PagesStep, PTL DEF PagesSpec
=============================================================================
