# A verification project for HexaOS

TLA+ models of HexaOS 7.2, a 32-bit hobby operating system in C: its form
store on disk (HEXAFS), the block cache below it, the shell commands and the
boot sequence above it, the kernel heap and the buffers of forms, the task
scheduler, and the channels between tasks, interrupts and the shell: event
inboxes, keyboard, command line, pipes, pages. The models are checked with TLC
and part of what they say is proved with TLAPS. Paths and line numbers
refer to the repository (`src/`); `PROJECT.json` maps every definition to the
lines it stands for.

## 1. The system

One processor, no threads beside the tasks of `process.c`. The shell
(`hexa.c`) runs as the kernel's second task with interrupts enabled; programs
started with `exec` run as further tasks; the timer interrupt switches
between them. Everything persistent goes from the shell's tables through
HEXAFS and a write-through block cache to one ATA disk.

| Component | State it keeps | Operations | Talks to |
|---|---|---|---|
| Block cache (`hexafs_disk.c` 1-113) | 16 slots: sector, dirty flag, data | read, write, flush, clear at mount | ATA driver (`hexa.c` 2660-2720) |
| Object store (`hexafs_disk.c`) | allocation bitmap and hint, cached superblock, blocks: objects, contents, abstractions (directories) in chains, snapshots | allocate, free, write and read object, add and find entry, snapshot, format, mount | block cache |
| Transactions, persistence (`hexafs.c`) | the one transaction, pimp rules, capabilities | begin, commit, abort, save and load all forms, save and load accounts and rules | object store, form and user tables |
| Boot policy (`boot_policy.c`) | stages, fallback | run the stages, take the boot snapshot | transactions |
| Shell (`hexa.c`) | form table and buffers, user table | mkform, write, append, edit, delete, copy, move, makedim, setmode, setowner, ayo, useradd, passwd, login, pimp, exec | persistence, tasks, heap |
| Tasks (`process.c`) | task table, `current_task`, `num_tasks`, `next_pid` | create, exec, exit, wait, schedule | interrupts, paging |
| Event queues (`process.c` 281-320) | a ring of 16 per task | send, poll | tasks, system calls |
| Descriptors, VFS, pipes (`process.c` 201-242, `vfs.c`, `pipe.c`) | descriptor tables, pipe rings | open, read, write, close, pipe, dup | forms |
| Intents (`intent.c`) | handles on forms, by index | create, fulfil, close | forms |
| Paging and heap (`paging.c`) | page bitmap, list of heap blocks | `pmm_alloc`, `kmalloc`, `kfree` | everything |
| Capabilities (`hexafs.c`) | grants | grant, check | transactions, intents |
| Command line (`hexa.c`, `get_line`) | the line, a ring of the last commands | type, erase, recall, enter | keyboard, shell |
| Interrupts, keyboard (`interrupts.c`) | key ring, ticks | IRQ handlers, `kb_getchar` | scheduler, shell |
| Mutexes, semaphores (`sync.c`) | a word each | lock, wait, signal | no caller |
| Log, observation, replay, network loopback, driver registry | rings and tables | record, list | shell |
| Console, framebuffer, games, loaders | device state | output | hardware |

What is hard here, and what makes each part correct:

* **Persistence.** A command is dozens of sector writes and the power may fail
  between any two. A save must be all or nothing for whoever boots next; what
  was saved must be found again; the bitmap must always cover the root; the
  chain of snapshots must stay walkable. Accounts and pimp rules are rewritten
  in place, tables pass through the layout of forms, directories overflow into
  chained blocks, the disk fills up, and every boot commits a snapshot itself.
* **Block cache.** It evicts dirty slots without writing them back and keeps
  data whose write failed. A read must still return the last value written.
* **Tasks.** `exec` fills a task slot and `proc_exit` leaves one with
  interrupts enabled, so the timer can look at any intermediate state. The
  table must stay consistent, tasks must be resumed where they stopped, and a
  ready task must eventually run.
* **Heap and forms.** A form owns a heap buffer; entries of the table behind
  `form_count` keep the pointer and capacity of a form that has gone, and some
  commands write through them. Whoever still owns a buffer must keep it alone,
  the block list must stay a partition of the heap, nothing may leak, and an
  intent, which names a form by index, must not write to the form that has moved
  there.
* **Channels.** Senders, a polling program, the interrupt and the shell work on
  the same rings, partly with interrupts enabled. What was accepted must arrive
  once, in order and unchanged, and a wait must end when its cause is there.
* **Pages.** `pmm_alloc` searches and marks with interrupts enabled in the shell,
  while programs call it through `mmap`. A page must have one owner.

`PROJECT.json` lists these hazards one by one, at their lines, with the
properties that cover them.

## 2. Modules

| Module | Models |
|---|---|
| `BlockDevice` | abstract: a plain disk, what `hexafs_block_read` and `_write` promise |
| `BlockCache` | `cache_find` ... `cache_flush_dirty`, mount, ATA errors; implements `BlockDevice` |
| `BlockCacheProofs` | proofs about `BlockCache` |
| `HexaStore` | allocator, objects, abstractions, snapshots, transactions as operators on the store's state |
| `HexaFS` | the system around the store: commands, boot, sector writes, power loss |
| `HexaStoreProofs` | what a sound disk is, and which writes keep it sound |
| `HexaFSProofs` | proofs about `HexaFS`: persistence across power loss |
| `Process` | task table, `exec`, `proc_exit`, the timer interrupt |
| `ProcessProofs` | proofs about `Process` |
| `KHeap` | `kmalloc` and `kfree` as operators on a heap |
| `KHeapProofs` | what they preserve |
| `Forms` | the form table, its buffers, the commands on them, packages, capabilities, intents; composes `KHeap` |
| `FormsProofs` | the heap stays intact, forms own their buffers, programs only read |
| `Ring` | the ring buffer of events, keys and pipes |
| `Mailbox` | abstract: a bounded queue per owner |
| `Events` | `process_event_send`, `process_event_poll`, `sys_kill`, `sendevent`; implements `Mailbox` |
| `Keyboard` | the keyboard interrupt, `kb_getchar`, `get_char`, `sys_read` |
| `LineEdit` | `get_line` and the command history |
| `Pipes` | pipes, typed pipes, `proc_alloc_fd` |
| `ChannelsProofs` | proofs about `Ring`, `Events`, `Keyboard`, `LineEdit` and `Pipes` |
| `Pages` | the page bitmap, `pmm_alloc` from `exec` and from `mmap` |
| `PagesProofs` | proofs about `Pages` |
| `MC...` | constants for TLC; `MCKernel` puts the last five components side by side |

### BlockCache

State: `cache` (slot -> sector, dirty, data), `disk`, the last answer `ret` and
the history `doubt`, the sectors whose last write reported failure. One action
per path of `cache_read` (`ReadHit`, `ReadMiss`, `ReadError`), `CacheWrite`
with both answers of `ata_write_sector`, `FlushDirty` and `Mount`. A failed
write may have reached the sector or not: `ata_write_sector` can give up before
the data phase or in its last status poll. `cache_flush_dirty` is reachable in
the code only through `hexafs_cache_flush_all`, which nobody calls (in
particular no commit does); it is modelled so that the result does not depend
on that.

`ImplementsDevice` is the refinement: a sector reads as its slot if it has one,
else as the disk; under that mapping every step is one of `BlockDevice`. A
sector in doubt may read differently from one request to the next, any other
sector only after a write.

### HexaStore and HexaFS

Each C function of the store is an operator from a state of the store to the
state it leaves, with its sector writes appended to `log`; `OnSuccess` is the C
idiom of returning at the first failure. Blocks hold records (object, contents,
abstraction, snapshot), not bytes. Where bytes matter the conversion is
modelled by its effect: a table of accounts that `hexafs_load_all` takes for a
form loses its first 10 bytes to metadata (`FormLayout`, `UsersIn`); contents
of two versions read as a table nobody wrote (`Torn`); a size that belongs to
another version cuts the table (`Sized`); a chain pointer set without a new
checksum makes later `add_entry` calls fail (`set_chain`).

In `HexaFS` a command computes its effect in memory at once and leaves its
sector writes in `pend`; `DiskWrite` carries them out in order; no command
starts before they are done, since only the shell uses the store and every
write is synchronous. `PowerOff` may come at any point. `Boot` is mount (with
format of an empty disk), `load_data` and the boot snapshot. Commands
that refuse to act still save (`Resave`, as `execute_cmd` does), `useradd` and
`passwd` save twice. `ayo` changes several forms and saves once (`AyoAdd`,
`AyoRemove`, `AyoUpdate`, for a package of one form). `hist` is history for the
properties. Left out is the save with which `login` and `diese` replace a
password hash in the format of an earlier version: a disk formatted here never
holds one, and it is a `save_data` like those of `passwd`.

Sector writes succeed in `HexaFS`; failing ones are the subject of
`BlockCache`. Form texts are those of at most 2038 bytes (the store cuts
longer ones), the two allocator sectors are one write because all object
blocks lie in the first, and the out-of-memory paths of `kmalloc` are left to a
heap model. Form metadata (owner, mode) is not told apart.

### Process

One variable per field of the task table, plus `cpu`, what the processor is
executing, and `exec`, the shell's progress through `proc_create_user`. `exec`
and `proc_exit` are split exactly where the timer can see a difference; the
build has no `-O` flag, so stores happen in source order and `num_tasks++` is a
load and a store. `ctx` abstracts `esp` to the task whose code it resumes, "no
frame yet", "the first frame of a program", "a frame inside `proc_exit`" or "the
`iret` of `proc_exit` that is repeated".

The first frame of a program has CS 0x18 and SS 0x20 (`process.c` 115, 118),
selectors of privilege 0 for segments of privilege 3 (`interrupts.c` 161-162).
The `iret` that should enter the program raises #GP, and `isr_handler` returns to
the same `iret` (`interrupts.c` 234-238): for ever, in `schedule` with interrupts
off (`cpu = "fault"`), in `proc_exit` with interrupts on (`cpu = "spin"`). That is
the code as built, `ENTERS = {FALSE}`, and what `process_context` and
`process_cycles` check. With `TRUE` in `ENTERS` the frame may be accepted and
programs run, so that the code that serves them is checked and proved too; the
run `process` and the theorems are about both.

`proc_exit` is called by programs, and by the shell when it touches an address
at or above 0x40000000 that nothing maps (`interrupts.c` 217): `mode clear` after
`mode set` does, outside of `exec` (`MayExit`). user_task only asks for the ticks,
in a loop, and cannot fault. `proc_kill` and `proc_reap_zombies` have no caller and
are left out; `proc_wait` (`Reapable`) never finds anything, which is
`WaitReapsNothing`.

### KHeap and Forms

A heap is a function from the addresses of its block headers to size and free
flag, in words of four bytes: the unit `kmalloc` rounds to. First fit, the split
with its threshold and the merge with both neighbours are as in `paging.c`; the
list order is address order.

`Forms` keeps the whole form table, the entries behind `form_count` included.
`Store` is what most commands share: `form_ensure_cap` (or not), the bytes
written, the entry set. An entry that takes over a buffer that is free or another
form's counts as touching it, even if no byte is copied. A command that touches a buffer it does not own has no
defined effect, so it is recorded in `fault` and the behaviour ends there; the
properties say which commands can be the first. A buffer that `ayo remove` or a
failing `hexpack` lets go stays in use, without an owner, in `dropped`; a stale
entry that still points there can be taken over by `copy`, `makedim` or `ayo`,
and that command stays within memory in use. The form has then adopted the buffer
(`Adopted`), with the capacity of an earlier, larger one if it is the second
block allocated there: a later `write` that fits the capacity overruns the block.
This takes some sixteen commands, more than the run explores; it came up in the
proof of `BuffersOwned`. `ayo` is one step per form of the
package, with system calls of programs in between. A save allocates and frees
one buffer, which leaves the heap as it was (`MallocFreeRestores`), so only the
way it ends is kept: `tx` is a transaction that a failed commit left active,
which is the only situation in which `grantcap` succeeds. The session starts
with an empty disk; a form loaded at boot is like one made by `mkform` and
`write`. Other users of the heap (the back buffer of the framebuffer, the
buffer of a save while it runs) are left out: they hold blocks the forms do not
refer to.

### Ring, Mailbox and Events

`Ring` is the ring with one unused slot that `process.c`, `interrupts.c` and
`pipe.c` each write out. `Contents` is the sequence it holds.

System calls run with interrupts off, so a program's send is one step. The shell
may be interrupted between finding a task and putting the event, and by then the
task may have exited. `process_event_poll` gives its slot back, enables
interrupts and only then reads the answer from the slot: `PollTake` and
`PollReturn` are two steps. Of an event only the type reaches a program, so
sender and payload are left out, and so are events of type 0, whose answer is
also that of a timeout. A negative type (bit 31 set) is taken from the queue and
then treated as no event. `InboxesAreQueues` is the refinement: `Mailbox` with
the contents of the ring as the queue and what a poll is about to return as what
was taken.

### Keyboard and LineEdit

The controller holds one byte; the interrupt may come at any time after it.
`get_char` in the shell looks into `kbuf`, then at the status port, then reads
the data port, three steps between which the interrupt can read the same byte.
Both `interrupts.c` and `hexa.c` keep a `shift_pressed` of their own. Arrow keys
reach `kbuf` as negative chars (`char` is signed in this build), and both
readers take a negative char for no key; an arrow works only when `get_char`
wins the race for the port. `REVIEW.md` (line 15) says the arrow keys are "now
properly mapped for history navigation"; the model follows the code.

`LineEdit` is one line of input after the other, at prompts of different sizes,
with the history shared between them. Recalling a command sets the length to
that of the entry, whatever the size of the prompt's buffer: `overrun` records
the write beyond it.

### Pipes

`pipe_create` is reachable by a system call and passes a task slot where
`proc_alloc_fd` expects a pid: the descriptors end up in the table of the task
one slot below, and the model follows that. The calls that read, write and close
have no reachable caller; they are modelled as `pipe.h` offers them, with one
reader and one writer per pipe, each turn of their loops one step.

### Pages

`pmm_alloc` in the shell is split into search, load of the byte, store of the
byte and store of `pmm_last_alloc`; in a system call it is one step. `exec`
takes pages for the directory, the segments and the page tables, the stack and
the task's directory, and goes on with page 0 where the code does not look at
the result. Nothing gives a page back. The search loop is one step, so a search
that misses the last free page because `mmap` moves `pmm_last_alloc` under it does
not happen here; it would only fail earlier, and no property depends on it.

The five components of `MCKernel` share no state, so its `Init` picks the one
that moves and one run checks them all; fairness is that of the chosen one.

## 3. Runs

Passing:

| Run | Bounds | States | Shows |
|---|---|---|---|
| `cache` | 2 slots, 3 sectors, 2 values | 17,248 | `Coherent`, `ImplementsDevice` |
| `hexafs` | 24 blocks, 2 entries per abstraction, 1 record per block, 3 forms, 2 users, 3 commands, 2 boots, 1 power loss during writes | 606,954 | `SaveAtomic`, `FormsGenuine`, `SavedDurable`, `RootAllocated`, `SnapshotChainIntact` |
| `sessions` | as `hexafs`, with 32 blocks, one form name and 3 boots | 759,422 | `SaveAtomic`, `SavedDurable` when `.users` and `.pimp` have passed through the form layout |
| `forms` | heap of 30 words, 3 entries, 2 names and a dimension, a package of one form, 1 intent, 7 steps | 442,364 | `HeapIntact`, `BuffersOwned`, `SafeCommands`, `NoLeak`, `ProgramsReadOnly` |
| `kernel` | 2 programs, rings of 3 slots, 5 events; 3 keys; lines of 2 characters, 2 history entries, 3 commands; 1 pipe, 3 bytes, typed pipes of 2; 14 pages, 3 to a byte | 111,792 | `AnswerIntact`, `PendingExact`, `InboxesAreQueues`, `KillTakesEffect`; `KeysFaithful`, `AtMostTwice`, `KeysArrive`; `RecallsEntered`, `LineFits`; `BytesInOrder`, `SecondEofFinal`, `HangUpFreesPeer`; `PagesGivenOnce`, `ReservedKept` |
| `process` | 5 slots, `ENTERS` = {TRUE, FALSE} | 34,120 | `RunningIsCurrent`, `PidIsSlot`, `WaitReapsNothing`, `CountCoversLive`, `ReadyRuns` |

Why the bounds are enough. Two slots and three sectors make every kind of
eviction happen, of clean, dirty and doubtful slots. Three commands are enough
to create, change and delete a form and to overflow an abstraction of two
entries; one record per content block makes a table of two accounts span
blocks; 24 blocks are few enough for saves to run out of space in the middle
(a save of three forms takes about ten) and enough for three commands to
succeed; a second boot reads what the first session and a power loss left. Only
a third boot reads a table of accounts as the contents of a form (the first
boot after it was created sees a configuration object, and the save that follows
makes it a form), which is what `sessions` is for.
The heap of `forms` has room for three small buffers and not for two
grown ones, so `kmalloc` fails, splits and merges on both sides; seven steps are
enough to fill the table, delete, reuse the stale entry and grow again, and for
an intent to outlive the form it named. In `kernel` every ring wraps (five events
and three bytes through two usable slots), fills up and empties; the history wraps
after two of three commands and a recalled command is longer than the short
prompt's buffer; the pages run out within two programs, and a byte of the bitmap
covers pages of both racing parties and reserved ones.
With five slots three programs run beside the two kernel tasks, and the table
fills up. The bounds `MaxCommands`, `MaxBoots` and `MaxCrashes` are guards of
the actions; deadlock is not checked where a behaviour may end at them, or, in
`Process`, where the processor may be lost.

Disagreements between the documentation and the code, each shown by a run that
TLC ends with a counterexample:

| Run | Says (README.md) | Shows |
|---|---|---|
| `users_reboot` | "On subsequent boots, users are loaded from disk automatically" | the boot snapshot has no root object: two clean reboots lose the accounts |
| `copy_fixed` | "copy command fixed - now uses proper form_ensure_cap" | after a `delete` the entry behind the last form keeps pointer and capacity: the copy gets a buffer that is free or another form's |
| `forms_chain` | "removes 11-entry limit" | `hexafs_load_all` reads the first block of the chain only |
| `users_crash` | "Crash-safe metadata updates" | power loss between the two commits of `save_data` loses the accounts |
| `process_context` | "saves/restores full register context" | a tick during `exec` resumes a slot without context |
| `process_cycles` | "cycles through ready tasks" | the `iret` into a program started by `exec` raises #GP and is repeated for ever with interrupts off: the shell and user_task stay ready |

Consequently the passing properties state what does hold: `SavedDurable` speaks
of a session that has saved, and of forms that fit one abstraction block;
it does not ask that a `pimp` command right after boot saves anything, which for
want of a root object it does not (`hexafs.c` 255);
`SaveAtomic` of forms, and counts the empty root of a boot as the state after
it; `ReadyRuns` excepts a switched-off scheduler (`num_tasks` at 1), a processor that
repeats a refused `iret` with interrupts off, and one that is lost.
`BuffersOwned` and `NoLeak` hold until a command has gone astray, and
`SafeCommands` says which never do; `NoLeak` excepts what `ayo remove` and a
failing `hexpack` let go, and the other two except forms that adopted such a
buffer. `ProgramsReadOnly` holds while no commit has failed.
`KillTakesEffect` speaks of a program that keeps asking for any event: with a
mask, an event that does not match hides a kill behind it for ever, and a program
that never polls is not killed. `KeysFaithful` holds as long as `get_char` has
not read the controller itself; after that `AtMostTwice` remains. `LineFits`
excepts a recalled command at a short prompt. `SecondEofFinal` speaks of the
second end of file, since the first may come before the last bytes.
`PagesGivenOnce` excepts a `mmap` between the search and the store of the byte.

**Fairness.** Weak fairness of `Tick` (the timer fires 100 times a second and
interrupts are enabled again and again, except in the #GP loop and perhaps in a
lost processor, where `Tick` is not enabled and nothing is assumed), of the steps of a
started `exec` and of the end of `proc_exit` (the processor carries on with
what it executes). Starting a program and exiting are not fair: nobody has to.
In `kernel`: weak fairness of a started poll, of the turns of a started pipe
read or write, of the keyboard interrupt and of `get_char`, in which the shell
waits while it lives. They are loops of ready tasks, which `ReadyRuns` keeps
running under the conditions it names, or served by the interrupt controller. Nobody has to send, poll again, press a key, call
`sys_read`, write or close.

## 4. Proofs

All for every value of the constants, from the named assumptions
`CacheAssumption` (at least one slot, sectors are positive numbers, some value
exists), `TasksAssumption` (at least three slots), `EntersAssumption` (a first
frame is accepted or refused), `EventsAssumption` (rings of
at least two slots, no event of type 0), `HeapAssumption` (room for more than one
header), `FormsAssumption` (sizes are natural numbers, a buffer grows by at
least 20 bytes), `LineAssumption` (at least one history entry, no prompt's buffer
longer than a command's), `PipesAssumption` and `KeyboardAssumption` (rings of at
least two slots), `PagesAssumption` (the kernel's pages are pages),
`StoreAssumption` (at least one block, one entry per abstraction and one record
per block; a text takes one to four blocks), `FSAssumption` (the texts of forms
are texts, bounds are natural numbers, there is room for one account) and
`NamesAssumption` (no form of a user is called `.users` or `.pimp`).

* `BlockCacheProofs`: `TypeCorrect`, `CacheCoherent`, `CacheImplementsDevice`.
  The inductive invariant is `TypeOK /\ Coherent`: eviction is harmless because
  a slot agrees with its sector unless the last write failed, a flush is because
  no sector is in two slots. For the refinement, `ViewFacts` says what a sector
  reads as, and each action changes that view only where `BlockDevice` may.
* `ProcessProofs`: `TypeCorrect`, `RunningCorrect`, `PidsCorrect`,
  `WaitCorrect`. `RunningIsCurrent` alone is not inductive: a tick in the middle
  of `proc_exit` must pick the very task the interrupted search has marked, so
  the invariant keeps that the exiting task is a zombie and that `next` is still
  the nearest runnable task (`ExitingIsZombie`, `NearestUnique`). Pids and slots
  go together because a slot is free with a pid only while `exec` fills it
  (`PidsOfStates`, `ExecSlot`); no zombie can be waited for because every
  program is a child of the shell (`ShellIsParent`) and the shell, which may have
  exited too, one of user_task, which never does (`KernelTasks`). A task that is
  alone stays current and ready after a tick that found no other (`TickAlone`). `CountCorrect`: during an
  `exec` the count is off by what has been loaded and not stored, so `CountInv`
  speaks of `Counted`, the value `num_tasks` will have been incremented from, and
  allows one live task more while the task being created has exited before it was
  counted. `FrameInv` says which slots have a context: a tick that gives one to
  a task adds it to the live tasks and must find it counted.
* `KHeapProofs`: `kheap_init`, `kmalloc` and `kfree` keep a heap well formed
  (`IsHeap`, `Tiled`, `Coalesced`), `kmalloc` returns a fresh block and leaves the
  others alone, and `MallocFreeRestores`: freeing what was just allocated
  restores the heap exactly, because a well-formed heap has no free neighbour to
  merge with beyond the block that was split.
* `FormsProofs`: `HeapStaysIntact`, `FormsTyped`, `FormsOwnBuffers`,
  `BuffersNotLost`, `CommandsStaySafe`, `ProgramsStayReaders`. The invariant
  `FormsInv` adds to the intact heap that the count stays within the table and that
  entries keep natural sizes, so that every `kmalloc` is asked for a natural number
  of bytes and every `kfree` gets a block in use. Ownership needs `OwnInv`, in which
  `BuffersOwned` and `NoLeak` carry each other: that no other form has the new
  buffer follows from `kmalloc` returning a block that was not in use
  (`MallocOnlyAdds`), that a `kfree` takes nothing from another form from each
  buffer having one owner (`FreeKeepsOthers`), and that a stale pointer to a block
  in use and nobody's leads to one that was let go from `NoLeak`. Programs only read
  because a grant needs a transaction that a failed save left active (`ReadOnly`).
* `PagesProofs`: `PagesHaveOneOwner`, `ReservedPagesKept`. `PagesInv` adds that a
  page that was given out is marked unless the shell was overtaken
  (`MarkedIfGiven`) and that the byte the shell is about to store has the bits of
  the reserved pages, however old it is (`SearchSparesReserved`).
* `ChannelsProofs`:
  * Lemmas on the ring: putting appends to its contents, dropping removes the
    head, the number held stays below the number of slots.
  * `EventsTypeCorrect`, `PendingCorrect`, `AnswerCorrect`,
    `InboxesImplementQueues`. `AnswerIntact` alone is not inductive: the invariant
    adds that the slot a poll has given back is the one just behind `tail`
    (`SlotBehindTail`), which is the unused slot of the ring, so that a sender
    finds the ring full before it would write there. For the refinement, a put is
    `Accept` (`PutAccepts`), a take is `Take` (`TakeTakes`), everything else
    stutters because the answer is intact.
  * `LineTyping`, `ArrowsRecall`, `LinesFit`. `RecallsEntered` speaks of the entry
    the arrow keys point at; what is inductive is `HistoryRemembers`: every entry
    of the ring, counted backwards from `hist_idx`, is the command entered that
    many commands ago (`EntryWraps`, `EntryShifts` do the arithmetic of the index).
  * `PipesKeepOrder`, `SecondEofIsFinal`. What was read, followed by the contents
    of the ring, is what was sent (`PutKeepsOrder`, `DropKeepsOrder`, on the lemmas
    of the ring). For the end of file `PipeOK` adds that a running write has
    its end open, that a read which returned 0 had no writer, and that from then on
    the ring is empty whenever the reader has found it so.
  * `KeyboardTyping`, `KeysStayFaithful`, `NoKeyThrice`. The keys readers were
    given fall into those from the ring and those from the controller
    (`KeyOrder`); each of the two parts increases and stays below the next key its
    source can give (`RingLimit`, `PortLimit`). So a key comes at most once from
    each, and before `get_char` has read the controller there is only one part.
    `CaseInv` says that until then the interrupt's `shift_pressed` is the shift
    key as it was when the pending byte was sent.

* `HexaStoreProofs` and `HexaFSProofs`: `TypesHold`, `SnapshotChainStaysIntact`,
  `RootStaysAllocated`, `SaveIsAtomic`, `FormsStayGenuine`, `SavedStaysDurable`, all
  consequences of one inductive invariant, `Inv` (`InvHolds`).
  * None of the six properties is inductive, because each speaks of the disk as
    it is now and the next write on its way is arbitrary. `Inv` therefore speaks of
    the whole way: `Trail` says that carrying out the pending writes in order leads
    to a disk that the memory agrees with (`Live`: the superblock is `mem.root`,
    the bitmap on disk marks no more than the one in memory, and exactly that if it
    is not dirty), and that after every single write the disk is sound and shows one
    of the contents in `May`: those of before the command, those it saves, or some
    of those if they do not fit; none, for the snapshot of the boot policy.
  * A disk is sound (`Shape`) if there are the snapshots `h` along the parent
    pointers, all different and allocated, and a labelling `own` of the blocks that
    gives the root abstraction a tree: an abstraction block belongs to the
    abstraction (0), an object and its contents to the object, everything else is
    outside. Without labels no write could be shown to spare the forms; with them
    it is enough to look at the label of the block written (`Harmless`, `GrownBy`,
    `Apart`). The labels are chosen anew at each step and need no field of the
    program.
  * `Work` is the invariant of a command in the middle of its writes. A save builds
    a second tree in blocks that are free on disk as well as in memory (mode
    "new"), so a crash shows the old tree until the superblock is out
    (`ShapeNewRoot`, `CommitSettles`). Saving the users or the rules works on the
    live tree (mode "live") and touches no form of the user (`NotAForm`). For each
    function of the store there is a lemma on what it keeps of `Work` and which
    owner's blocks it touches (`WorkAlloc`, `WorkWriteData`, `WorkAddEntry`,
    `WorkSaveForms`, `WorkConfigObject`, `WorkPublish`).
  * Durability needs the exact result of a save and not only what it spares.
    `Live` therefore also says, once the session has saved and everything has fitted
    (`Sure`), that a boot from the disk at the end of the writes loads the forms and
    the accounts in memory, and after a `pimp` command the rules (`Kept`). What a
    table reads back as after it was rewritten in place depends on the content
    blocks of its object being different from one another and from the object
    (`Separate`, a part of every labelled tree; `TablesReadBack`). Which object a
    name leads to depends on the shape of the root abstraction (`RootTable`): one
    block, or two when the first was full; linking the second spoils the checksum of
    the first, so that nothing is added afterwards, and every entry leads to an
    object. Finding or adding `.users` or `.pimp` keeps that shape and what every
    other name leads to (`Listed`). `Fits` is needed: a full disk, a refused entry or more forms than
    an abstraction block holds make the save incomplete, which the violation runs
    and `FormsGenuine` are about.
  * The loops of the store (content blocks, chains, forms, ancestors) are recursive
    functions. Their values are reached by ordinary induction on the number of
    rounds over an explicit set (`RecursionExists`, `RecursionUnique`,
    `AllNumbers`), not by the library's induction theorems.

`CountInv`, `KeyOrder` and `CaseInv` were checked with TLC on small instances before
they were proved; the model-checked properties they imply stay in the runs.

Only model-checked: `ReadyRuns`, `KillTakesEffect`, `KeysArrive` and
`HangUpFreesPeer`, which are liveness under fairness and beyond TLAPS. Every
safety property of a passing run is stated by a theorem.

## 5. Not modelled

Not modelled, with the reason:

* no caller in the repository: mutexes and semaphores (`sync.c`), `vfs_open`,
  `vfs_read` and `vfs_write` (the table of `vfs.c` only ever holds the console),
  connections and the loopback ring of `net.c`, `krealloc`, `intent_close`,
  `pmm_free`, `proc_free_fd`, `proc_kill`, `proc_reap_zombies`, `hex_load`;
* no state another part depends on: log, kernel observation, the replay buffer
  (replaying calls no handler), the driver registry, listings;
* hardware and output: console, framebuffer, games, boot loader, the RTL8139
  driver, ELF byte handling, the register level of interrupt and system call
  entry, page tables beyond the pages they take;
* the shell interrupted inside `kmalloc` by a program whose `sys_open` calls
  `kmalloc` too: the pointers of the block list would have to be modelled one
  store at a time; `Forms` takes each call as one step;
* programs beyond their first frame: as built none is entered (`process_cycles`),
  and `exec` maps the segments into another directory than the one of the task.
  `Events`, `Pages`, `Pipes`, the intents of `Forms`, `sys_read` of `Keyboard` and
  `Process` with `ENTERS` true say what the code that serves programs guarantees
  once they run.
