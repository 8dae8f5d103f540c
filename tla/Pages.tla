-------------------------------- MODULE Pages -------------------------------
(***************************************************************************)
(* Physical pages: the bitmap of the page allocator; paging_init,          *)
(* kheap_init and exec, which take pages in the kernel and the shell; and  *)
(* mmap, by which programs take them.                                      *)
(*                                                                         *)
(* pmm_alloc does not disable interrupts.  In a system call they are off;  *)
(* in the shell a program may run between any two of its steps: finding a  *)
(* clear bit, loading the byte, storing it with the bit set, and storing   *)
(* pmm_last_alloc.  The search is one step: nobody clears a bit during it. *)
(* That it may end without a page because mmap moves pmm_last_alloc while  *)
(* it is under way is left out; it then fails as when there is none.       *)
(* pmm_free has no caller: neither munmap nor exit gives a page back.      *)
(***************************************************************************)
EXTENDS Integers

CONSTANTS MAX_PAGE,        \* pmm_max_page
          KERNEL_PAGES,    \* pages below kernel_end
          Video,           \* 0xA0 .. 0xFF
          HEAP_PAGES,      \* HEAP_INIT_SIZE / PAGE_SIZE
          BITS,            \* pages per byte of the bitmap: 8
          MaxPages         \* bound of the model on the pages of a program or an mmap

ASSUME PagesAssumption ==
  /\ MAX_PAGE \in Nat /\ KERNEL_PAGES \in 0 .. MAX_PAGE /\ BITS \in Nat \ {0}
  /\ Video \subseteq Nat /\ HEAP_PAGES \in Nat /\ MaxPages \in Nat

VARIABLES pmm_bitmap,      \* pages whose bit is set
          pmm_last_alloc,
          shell,           \* what the shell takes pages for, and how many more
          alloc,           \* its progress through pmm_alloc
          mmap,            \* the pages a program in sys_mmap still needs
          given, twice,    \* history: pages handed out, and handed out again
          raced            \* history: a program took a page while the shell took one

pageVars == <<pmm_bitmap, pmm_last_alloc, shell, alloc, mmap, given, twice, raced>>

Page == 0 .. MAX_PAGE - 1
NoPage == 0
NotAllocating == [pc |-> "idle", page |-> NoPage, byte |-> {}]
Wants(what, left) == [what |-> what, left |-> left]
AtPrompt == Wants("nothing", 0)
NoCall == [left |-> 0, table |-> FALSE]

\* Mutant: the pages of the adapters are free.
pmm_init_NoVideo == {p \in Page : p < KERNEL_PAGES} \cup {0}

pmm_init == {p \in Page : p < KERNEL_PAGES} \cup {0} \cup Video

\* The pages whose bits share a byte with p's.
InByte(p) == {q \in Page \cup Video \cup {0} : q \div BITS = p \div BITS}

\* Mutant: the bit of the next page is set.
Marked_Next(bitmap, p) == bitmap \cup {p + 1}

Marked(bitmap, p) == bitmap \cup {p}

Least(S) == CHOOSE p \in S : \A q \in S : p <= q

\* The first clear bit from pmm_last_alloc on, then from page 1.
Found ==
  LET above == {p \in Page : p >= pmm_last_alloc /\ p \notin pmm_bitmap}
      below == {p \in Page : 1 <= p /\ p < pmm_last_alloc /\ p \notin pmm_bitmap}
  IN IF above # {} THEN Least(above) ELSE IF below # {} THEN Least(below) ELSE NoPage

Given(p) == given' = given \cup {p} /\ twice' = IF p \in given THEN twice \cup {p} ELSE twice

\* What the caller in the shell does next with the page it was given.  A table
\* is needed or not; for directories and tables nobody looks whether there was
\* a page: page 0 serves.
AfterFrame(left) == IF left > 1 THEN Wants("frame", left - 1) ELSE Wants("stack", 0)
Following(want, p) ==
  CASE want.what = "boot" -> {IF want.left > 1 THEN Wants("boot", want.left - 1) ELSE AtPrompt}
    [] want.what = "dir" -> {IF p = NoPage THEN AtPrompt ELSE AfterFrame(want.left + 1)}
    [] want.what = "frame" -> IF p = NoPage THEN {AtPrompt}
                              ELSE {Wants("table", want.left), AfterFrame(want.left)}
    [] want.what = "table" -> {AfterFrame(want.left)}
    [] want.what = "stack" -> IF p = NoPage THEN {AtPrompt}
                              ELSE {Wants("stack table", 0), Wants("page_dir", 0)}
    [] want.what = "stack table" -> {Wants("page_dir", 0)}
    [] want.what = "page_dir" -> {AtPrompt}

\* cmd_exec, for an ELF form whose segments have n pages.
cmd_exec(n) ==
  /\ shell = AtPrompt /\ mmap = NoCall
  /\ shell' = Wants("dir", n)
  /\ UNCHANGED <<pmm_bitmap, pmm_last_alloc, alloc, mmap, given, twice, raced>>

\* pmm_alloc in the shell: search ...
AllocFinds ==
  /\ shell # AtPrompt /\ mmap = NoCall /\ alloc = NotAllocating /\ Found # NoPage
  /\ alloc' = [pc |-> "found", page |-> Found, byte |-> {}]
  /\ UNCHANGED <<pmm_bitmap, pmm_last_alloc, shell, mmap, given, twice, raced>>

AllocFails ==
  /\ shell # AtPrompt /\ mmap = NoCall /\ alloc = NotAllocating /\ Found = NoPage
  /\ shell' \in Following(shell, NoPage)
  /\ UNCHANGED <<pmm_bitmap, pmm_last_alloc, alloc, mmap, given, twice, raced>>

\* ... pmm_set, a load and a store of the byte ...
AllocLoads ==
  /\ mmap = NoCall /\ alloc.pc = "found"
  /\ alloc' = [pc |-> "loaded", page |-> alloc.page, byte |-> pmm_bitmap \cap InByte(alloc.page)]
  /\ UNCHANGED <<pmm_bitmap, pmm_last_alloc, shell, mmap, given, twice, raced>>

AllocStores ==
  /\ mmap = NoCall /\ alloc.pc = "loaded"
  /\ pmm_bitmap' = (pmm_bitmap \ InByte(alloc.page)) \cup Marked(alloc.byte, alloc.page)
  /\ alloc' = [pc |-> "stored", page |-> alloc.page, byte |-> {}]
  /\ UNCHANGED <<pmm_last_alloc, shell, mmap, given, twice, raced>>

\* ... and pmm_last_alloc.
AllocReturns ==
  /\ mmap = NoCall /\ alloc.pc = "stored"
  /\ pmm_last_alloc' = alloc.page + 1
  /\ Given(alloc.page)
  /\ shell' \in Following(shell, alloc.page)
  /\ alloc' = NotAllocating
  /\ UNCHANGED <<pmm_bitmap, mmap, raced>>

\* A program calls sys_mmap for n pages; the shell stands still until it returns.
sys_mmap(n) ==
  /\ shell.what # "boot" /\ mmap = NoCall
  /\ mmap' = [left |-> n, table |-> FALSE]
  /\ UNCHANGED <<pmm_bitmap, pmm_last_alloc, shell, alloc, given, twice, raced>>

\* Its next page, or the table that map_page needs for the one before.
MmapTakes ==
  /\ mmap # NoCall /\ Found # NoPage
  /\ pmm_bitmap' = Marked(pmm_bitmap, Found)
  /\ pmm_last_alloc' = Found + 1
  /\ Given(Found)
  /\ raced' = (raced \/ alloc.pc \in {"found", "loaded"})
  /\ mmap' \in IF mmap.table THEN {[left |-> mmap.left, table |-> FALSE]}
               ELSE [left : {mmap.left - 1}, table : BOOLEAN]
  /\ UNCHANGED <<shell, alloc>>

\* No page is left: ENOMEM for a page, page 0 for a table.
MmapFails ==
  /\ mmap # NoCall /\ Found = NoPage
  /\ mmap' = IF mmap.table THEN [left |-> mmap.left, table |-> FALSE] ELSE NoCall
  /\ UNCHANGED <<pmm_bitmap, pmm_last_alloc, shell, alloc, given, twice, raced>>

\* paging_init takes three pages; kheap_init takes one for its table and then
\* those of the heap.
PagesInit ==
  /\ pmm_bitmap = pmm_init /\ pmm_last_alloc = KERNEL_PAGES
  /\ shell = Wants("boot", 4 + HEAP_PAGES) /\ alloc = NotAllocating /\ mmap = NoCall
  /\ given = {} /\ twice = {} /\ raced = FALSE

PagesNext ==
  \/ \E n \in 0 .. MaxPages : cmd_exec(n)
  \/ \E n \in 1 .. MaxPages : sys_mmap(n)
  \/ AllocFinds \/ AllocFails \/ AllocLoads \/ AllocStores \/ AllocReturns
  \/ MmapTakes \/ MmapFails

PagesSpec == PagesInit /\ [][PagesNext]_pageVars

-----------------------------------------------------------------------------
(***************************************************************************)
(* A page is handed out twice only if a program called mmap while exec was *)
(* between finding a clear bit and storing the byte; a mmap before or      *)
(* after that, also before pmm_last_alloc is stored, does no harm.         *)
(***************************************************************************)
PagesGivenOnce == ~raced => twice = {}

(***************************************************************************)
(* Also when a stale byte is stored over the bits a program has set, page  *)
(* 0, the pages of the kernel and those of the adapters stay marked, and   *)
(* none of them is ever handed out.                                        *)
(***************************************************************************)
ReservedKept ==
  LET reserved == {p \in Page : p < KERNEL_PAGES \/ p \in Video \cup {0}}
  IN reserved \subseteq pmm_bitmap /\ reserved \cap given = {}
=============================================================================
