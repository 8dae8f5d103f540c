-------------------------------- MODULE Forms -------------------------------
(***************************************************************************)
(* The form table, the heap buffers behind it and the intents programs     *)
(* hold on it.                                                             *)
(*                                                                         *)
(* Entries at and above form_count are not cleared: they keep the name,    *)
(* buffer and capacity of the form that was there.  A command that touches *)
(* a buffer it does not own (freed, too small, or that of another form)    *)
(* has no defined effect: it is recorded in fault and nothing follows.     *)
(* Address 0 is mapped and unused, so a NULL buffer is harmless.           *)
(*                                                                         *)
(* A shell command is one step, except that ayo is one step per package    *)
(* form; system calls of programs come in between.  Commands are those of  *)
(* a user who has the permission; a refused one saves at most (Resave).    *)
(* Saving allocates and frees a buffer, which leaves the heap as it was    *)
(* (theorem MallocFreeRestores), so here it only matters how it ends.      *)
(***************************************************************************)
EXTENDS KHeap, Sequences

CONSTANTS MAX_FORMS,
          GROWTH,        \* the 1024 bytes form_ensure_cap adds
          MAX_INTENTS,
          Names,         \* names given to forms
          DimNames,      \* names that end in /
          Lengths,       \* lengths of texts
          EditSizes,     \* sizes of what is typed into edit
          MaxSize,       \* bound of the model on the size of a form
          MaxSteps,      \* bound of the model on the length of a session
          PkgMarker,     \* the one package of the model: its marker form,
          PkgForms,      \* its forms
          PkgLength,     \* and the length of their texts
          HexName,       \* the name hexpack gives to the wrapped form
          HexHeader      \* sizeof(hex_header_t)

ASSUME FormsAssumption ==
  /\ MAX_FORMS \in Nat /\ MAX_INTENTS \in Nat /\ MaxSize \in Nat /\ MaxSteps \in Nat
  /\ GROWTH \in Nat /\ GROWTH >= 20
  /\ Lengths \subseteq Nat /\ EditSizes \subseteq Nat
  /\ PkgForms \in Seq(Names) /\ PkgLength \in Nat /\ HexHeader \in Nat \ {0}

VARIABLES heap, form_table, form_count,
          job,           \* the ayo command in progress and the forms it has left
          intents,       \* intent_table: entries are never released
          granted,       \* some grant of CAP_TYPE_INTENT exists
          tx,            \* hexafs_current_tx.active between two commands
          ioerr,         \* history: a save has left its transaction active
          dropped,       \* history: buffers the code let go without kfree
          fault,         \* the command that used memory it does not own
          steps          \* the steps taken, for the bound

vars == <<heap, form_table, form_count, job, intents, granted, tx, ioerr, dropped, fault, steps>>
forms == <<heap, form_table, form_count>>
programs == <<intents, granted>>
commit == <<tx, ioerr>>

Form(name, content, size, cap) ==
  [name |-> name, content |-> content, size |-> size, cap |-> cap]

Index == 0 .. MAX_FORMS - 1
Live == 0 .. form_count - 1
Idle == [cmd |-> "none", rest |-> <<>>]
Writers == {"PRODUCE", "TRANSFORM"}

\* The index of the form called n, if there is one.
find_form(n) ==
  {i \in Live : form_table[i].name = n /\ \A j \in Live : form_table[j].name = n => i <= j}

\* No other form uses the buffer of entry i.
Sole(i) == \A j \in Live \ {i} : form_table[j].content # form_table[i].content
Mine(i) == Allocated(heap, form_table[i].content) /\ Sole(i)

(***************************************************************************)
(* form_ensure_cap: the entry and the heap it leaves, and whether it frees *)
(* a buffer that is not the entry's own.                                   *)
(***************************************************************************)
\* Mutant: a form that has a buffer keeps it.
Enough_HasBuffer(e, needed) == e.content # NULL

Enough(e, needed) == needed <= e.cap

Keeps(e, needed) == Enough(e, needed) \/ kmalloc(heap, needed + GROWTH) = NULL

cap_ok(e, needed) == Enough(e, needed) \/ kmalloc(heap, needed + GROWTH) # NULL

cap_entry(e, needed) ==
  IF Keeps(e, needed) THEN e
  ELSE Form(e.name, kmalloc(heap, needed + GROWTH), e.size, needed + GROWTH)

\* Mutant: the old buffer is not freed.
cap_heap_NoFree(e, needed) ==
  IF Keeps(e, needed) THEN heap ELSE Kmalloced(heap, needed + GROWTH)

cap_heap(e, needed) ==
  IF Keeps(e, needed) THEN heap ELSE kfree(Kmalloced(heap, needed + GROWTH), e.content)

FreesForeign(i, needed) ==
  ~Keeps(form_table[i], needed) /\ form_table[i].content # NULL /\ ~Mine(i)

\* Keeping n bytes in the buffer of e, what form_ensure_cap made of entry i, in
\* heap h.  A form that takes over the buffer of another counts too, even if empty.
Overruns(i, e, h, n) ==
  /\ e.content # NULL
  /\ \/ ~Allocated(h, e.content)
     \/ n > Bytes(h, e.content)
     \/ e.content = form_table[i].content /\ ~Sole(i)

(***************************************************************************)
(* What every command does to entry i: form_ensure_cap for needed bytes    *)
(* (0 where the code does not call it), n bytes written, name and size     *)
(* set; the entry behind the last form becomes a form.                     *)
(***************************************************************************)
Store(cmd, i, needed, n, name, size) ==
  IF FreesForeign(i, needed)
       \/ Overruns(i, cap_entry(form_table[i], needed), cap_heap(form_table[i], needed), n)
  THEN fault' = cmd /\ UNCHANGED forms
  ELSE /\ heap' = cap_heap(form_table[i], needed)
       /\ form_table' = [form_table EXCEPT ![i] =
                           Form(name, cap_entry(@, needed).content, size, cap_entry(@, needed).cap)]
       /\ form_count' = IF i = form_count THEN form_count + 1 ELSE form_count
       /\ UNCHANGED fault

\* save_data: when its last commit cannot write a sector the transaction stays active.
Save == tx' \in BOOLEAN /\ ioerr' = (ioerr \/ tx')

Step == fault = "none" /\ steps < MaxSteps /\ steps' = steps + 1
Shell == Step /\ job = Idle

-----------------------------------------------------------------------------
(***************************************************************************)
(* Commands of the shell on forms.                                         *)
(***************************************************************************)
\* Mutant: the table may be full.
cmd_mkform_NoLimit(n) ==
  /\ find_form(n) = {}
  /\ heap' = Kmalloced(heap, 1)
  /\ form_table' = [form_table EXCEPT ![form_count] = Form(n, kmalloc(heap, 1), 0, 1)]
  /\ form_count' = form_count + 1
  /\ UNCHANGED fault

\* Also called by intent_compat_open and hex_pack_elf.
cmd_mkform(n) ==
  /\ find_form(n) = {} /\ form_count < MAX_FORMS
  /\ heap' = Kmalloced(heap, 1)
  /\ IF kmalloc(heap, 1) = NULL
     THEN /\ form_table' = [form_table EXCEPT ![form_count] = Form(n, NULL, @.size, @.cap)]
          /\ UNCHANGED form_count
     ELSE /\ form_table' = [form_table EXCEPT ![form_count] = Form(n, kmalloc(heap, 1), 0, 1)]
          /\ form_count' = form_count + 1
  /\ UNCHANGED fault

MkForm(n) == Shell /\ cmd_mkform(n) /\ Save /\ UNCHANGED <<job, programs, dropped>>

Write(n, len) ==
  /\ Shell
  /\ \E i \in find_form(n) : /\ cap_ok(form_table[i], len + 1)
                             /\ Store("write", i, len + 1, len + 1, n, len)
  /\ Save
  /\ UNCHANGED <<job, programs, dropped>>

Appended(i, len) == form_table[i].size + len

AppendText(n, len) ==
  /\ Shell
  /\ \E i \in find_form(n) :
       /\ Appended(i, len) <= MaxSize
       /\ cap_ok(form_table[i], Appended(i, len) + 1)
       /\ Store("append", i, Appended(i, len) + 1, Appended(i, len) + 1, n, Appended(i, len))
  /\ Save
  /\ UNCHANGED <<job, programs, dropped>>

\* The first byte is cleared before anything is typed.
Edit(n, total) ==
  /\ Shell
  /\ \E i \in find_form(n) : Store("edit", i, 0, IF total = 0 THEN 1 ELSE total, n, total)
  /\ Save
  /\ UNCHANGED <<job, programs, dropped>>

\* Mutant: only the name and the size of the following entries move down.
Shifted_KeepsBuffer(i) ==
  [k \in Index |-> IF i <= k /\ k < form_count - 1
                   THEN [form_table[k + 1] EXCEPT !.content = form_table[k].content,
                                                  !.cap = form_table[k].cap]
                   ELSE form_table[k]]

\* Entries i + 1 .. form_count - 1 move down; the last one also stays where it was.
Shifted(i) ==
  [k \in Index |-> IF i <= k /\ k < form_count - 1 THEN form_table[k + 1] ELSE form_table[k]]

Delete(n) ==
  /\ Shell
  /\ \E i \in find_form(n) :
       IF form_table[i].content # NULL /\ ~Mine(i)
       THEN fault' = "delete" /\ UNCHANGED forms
       ELSE /\ heap' = kfree(heap, form_table[i].content)
            /\ form_table' = Shifted(i)
            /\ form_count' = form_count - 1
            /\ UNCHANGED fault
  /\ Save
  /\ UNCHANGED <<job, programs, dropped>>

\* useradd, passwd, setmode, setowner, and the commands above when they are refused.
Resave ==
  /\ Shell /\ Save
  /\ UNCHANGED <<forms, job, programs, dropped, fault>>

Move(n, dst) ==
  /\ Shell
  /\ \E i \in find_form(n) : form_table' = [form_table EXCEPT ![i] = Form(dst, @.content, @.size, @.cap)]
  /\ Save
  /\ UNCHANGED <<heap, form_count, job, programs, dropped, fault>>

\* form_ensure_cap of the entry behind the last form, result not checked.
Copy(n, dst) ==
  /\ Shell /\ form_count < MAX_FORMS
  /\ \E i \in find_form(n) :
       Store("copy", form_count, form_table[i].size, form_table[i].size, dst, form_table[i].size)
  /\ Save
  /\ UNCHANGED <<job, programs, dropped>>

MakeDim(d) ==
  /\ Shell /\ find_form(d) = {} /\ form_count < MAX_FORMS
  /\ Store("makedim", form_count, 0, 1, d, 0)
  /\ UNCHANGED <<job, programs, commit, dropped>>

(***************************************************************************)
(* hexpack n: the wrapped copy replaces the buffer of n.hex.               *)
(***************************************************************************)
HexSize(i) == HexHeader + form_table[i].size
Packed(i) == kmalloc(heap, HexSize(i) + 1)
HexEntry(i) == Form(HexName, Packed(i), HexSize(i), HexSize(i))

HexpackAgain(n) ==
  /\ Shell
  /\ \E i \in find_form(n), x \in find_form(HexName) :
       /\ HexSize(i) <= MaxSize /\ Packed(i) # NULL
       /\ IF form_table[x].content # NULL /\ ~Mine(x)
          THEN fault' = "hexpack" /\ UNCHANGED <<heap, form_table>>
          ELSE /\ heap' = kfree(Kmalloced(heap, HexSize(i) + 1), form_table[x].content)
               /\ form_table' = [form_table EXCEPT ![x] = HexEntry(i)]
               /\ UNCHANGED fault
  /\ UNCHANGED <<form_count, job, programs, commit, dropped>>

\* cmd_mkform succeeds: the buffer it allocates is freed again, which restores
\* the heap as it was before.
HexpackNew(n) ==
  /\ Shell /\ find_form(HexName) = {} /\ form_count < MAX_FORMS
  /\ \E i \in find_form(n) :
       /\ HexSize(i) <= MaxSize /\ Packed(i) # NULL
       /\ kmalloc(Kmalloced(heap, HexSize(i) + 1), 1) # NULL
       /\ heap' = Kmalloced(heap, HexSize(i) + 1)
       /\ form_table' = [form_table EXCEPT ![form_count] = HexEntry(i)]
  /\ form_count' = form_count + 1
  /\ UNCHANGED <<job, programs, commit, dropped, fault>>

\* cmd_mkform fails, and nobody frees the wrapped copy.
HexpackFails(n) ==
  /\ Shell /\ find_form(HexName) = {}
  /\ \E i \in find_form(n) :
       /\ HexSize(i) <= MaxSize /\ Packed(i) # NULL
       /\ \/ /\ form_count = MAX_FORMS
             /\ UNCHANGED form_table
          \/ /\ form_count < MAX_FORMS
             /\ kmalloc(Kmalloced(heap, HexSize(i) + 1), 1) = NULL
             /\ form_table' = [form_table EXCEPT ![form_count] = Form(HexName, NULL, @.size, @.cap)]
       /\ heap' = Kmalloced(heap, HexSize(i) + 1)
       /\ dropped' = dropped \cup {Packed(i)}
  /\ UNCHANGED <<form_count, job, programs, commit, fault>>

(***************************************************************************)
(* ayo, the package manager.  Results of form_ensure_cap are not checked.  *)
(***************************************************************************)
AyoAdd ==
  /\ Shell /\ find_form(PkgMarker) = {} /\ form_count + Len(PkgForms) + 1 < MAX_FORMS
  /\ Store("ayo", form_count, 2, 2, PkgMarker, 1)
  /\ job' = [cmd |-> "add", rest |-> PkgForms]
  /\ UNCHANGED <<programs, commit, dropped>>

AyoRemove ==
  /\ Shell /\ find_form(PkgMarker) # {}
  /\ job' = [cmd |-> "remove", rest |-> Append(PkgForms, PkgMarker)]
  /\ UNCHANGED <<forms, programs, commit, dropped, fault>>

AyoUpdate ==
  /\ Shell /\ find_form(PkgMarker) # {}
  /\ job' = [cmd |-> "update", rest |-> PkgForms]
  /\ UNCHANGED <<forms, programs, commit, dropped, fault>>

Working(cmds) == Step /\ job.cmd \in cmds /\ job.rest # <<>>
Done == job' = [job EXCEPT !.rest = Tail(@)]

\* A package form that is missing; ayo add has checked that there is room.
AyoPut ==
  /\ Working({"add", "update"}) /\ find_form(Head(job.rest)) = {} /\ form_count < MAX_FORMS
  /\ Store("ayo", form_count, PkgLength + 1, PkgLength + 1, Head(job.rest), PkgLength)
  /\ Done
  /\ UNCHANGED <<programs, commit, dropped>>

AyoRefresh ==
  /\ Working({"update"})
  /\ \E i \in find_form(Head(job.rest)) :
       Store("ayo", i, PkgLength + 1, PkgLength + 1, Head(job.rest), PkgLength)
  /\ Done
  /\ UNCHANGED <<programs, commit, dropped>>

\* The entry goes, its buffer stays allocated.
AyoDrop ==
  /\ Working({"remove"})
  /\ \E i \in find_form(Head(job.rest)) :
       /\ form_table' = Shifted(i)
       /\ dropped' = dropped \cup {form_table[i].content}
  /\ form_count' = form_count - 1
  /\ Done
  /\ UNCHANGED <<heap, programs, commit, fault>>

AyoSkip ==
  /\ \/ Working({"add"}) /\ find_form(Head(job.rest)) # {}
     \/ Working({"update"}) /\ find_form(Head(job.rest)) = {} /\ form_count = MAX_FORMS
     \/ Working({"remove"}) /\ find_form(Head(job.rest)) = {}
  /\ Done
  /\ UNCHANGED <<forms, programs, commit, dropped, fault>>

AyoSave ==
  /\ Step /\ job # Idle /\ job.rest = <<>>
  /\ job' = Idle /\ Save
  /\ UNCHANGED <<forms, programs, dropped, fault>>

-----------------------------------------------------------------------------
(***************************************************************************)
(* Capabilities and the system calls on intents.                           *)
(***************************************************************************)
\* Mutant: grants need no transaction.
hexafs_cap_grant_NoTx == granted' = TRUE

\* Refused outside a transaction; the grant itself goes to the store.
hexafs_cap_grant == tx /\ granted' = TRUE

\* cmd_grantcap, which begins no transaction of its own.
GrantCap ==
  /\ Shell /\ hexafs_cap_grant
  /\ UNCHANGED <<forms, job, intents, commit, dropped, fault>>

\* hexafs_cap_check looks at the type of a grant and not at whom it is for.
MayCreate(type) == Len(intents) < MAX_INTENTS /\ (type \in Writers => granted)

\* intent_create; reading changes nothing, so the target of a reader is left out.
Intent(type, i) ==
  Append(intents, [type |-> type, target |-> IF type \in Writers THEN i ELSE 0])

\* sys_open of a form that exists.
OpenForm(n, type) ==
  /\ Step /\ MayCreate(type)
  /\ \E i \in find_form(n) : intents' = Intent(type, i)
  /\ UNCHANGED <<forms, job, granted, commit, dropped, fault>>

\* sys_open with the create flag: the form is made even if the intent is refused.
OpenCreate(n, type) ==
  /\ Step /\ cmd_mkform(n)
  /\ intents' = IF MayCreate(type) /\ form_count' > form_count
                THEN Intent(type, form_count) ELSE intents
  /\ UNCHANGED <<job, granted, commit, dropped>>

sys_open(n, type) == OpenForm(n, type) \/ OpenCreate(n, type)

\* sys_intent: the target is whatever index the program passes.
SysIntent(type, i) ==
  /\ Step /\ MayCreate(type) /\ (type = "OBSERVE" => granted)
  /\ intents' = Intent(type, i)
  /\ UNCHANGED <<forms, job, granted, commit, dropped, fault>>

Larger(a, b) == IF a > b THEN a ELSE b

\* intent_fulfill with an intent to write to index i: the form is the one that
\* has the index now, and its buffer is not grown.
Produce(i, len) ==
  Store("fulfill", i, 0, len + 1, form_table[i].name, Larger(form_table[i].size, len))

\* sys_fulfill, or sys_write with a handle.  Reading changes nothing.
Fulfill(k, len) ==
  /\ Step /\ len > 0 /\ intents[k].type \in Writers /\ intents[k].target \in Live
  /\ Produce(intents[k].target, len)
  /\ UNCHANGED <<job, programs, commit, dropped>>

\* sys_write with the address of a name for a handle: the intent it makes for
\* the form is fulfilled at once, and stays.
WriteNamed(n, len) ==
  /\ Step /\ len > 0 /\ MayCreate("PRODUCE")
  /\ \E i \in find_form(n) : intents' = Intent("PRODUCE", i) /\ Produce(i, len)
  /\ UNCHANGED <<job, granted, commit, dropped>>

-----------------------------------------------------------------------------
Blank == Form("", NULL, 0, 0)

\* After boot with an empty disk; the commit of the boot policy may have failed.
Init ==
  /\ heap = kheap_init
  /\ form_table = [i \in Index |-> Blank] /\ form_count = 0
  /\ job = Idle /\ intents = <<>> /\ granted = FALSE
  /\ tx \in BOOLEAN /\ ioerr = tx
  /\ dropped = {} /\ fault = "none" /\ steps = 0

FormCommand ==
  \/ \E n \in Names : \/ MkForm(n) \/ Delete(n)
                      \/ HexpackAgain(n) \/ HexpackNew(n) \/ HexpackFails(n)
  \/ \E n \in Names, len \in Lengths : Write(n, len) \/ AppendText(n, len)
  \/ \E n \in Names, total \in EditSizes : Edit(n, total)
  \/ \E n, dst \in Names : Move(n, dst) \/ Copy(n, dst)
  \/ \E d \in DimNames : MakeDim(d)
  \/ Resave

Ayo == AyoAdd \/ AyoRemove \/ AyoUpdate \/ AyoPut \/ AyoRefresh \/ AyoDrop \/ AyoSkip \/ AyoSave

SystemCall ==
  \/ \E n \in Names, type \in {"CONSUME", "PRODUCE"} : sys_open(n, type)
  \/ \E type \in Writers \cup {"CONSUME", "OBSERVE"}, i \in Index : SysIntent(type, i)
  \/ \E k \in 1 .. Len(intents), len \in Lengths : Fulfill(k, len)
  \/ \E n \in Names, len \in Lengths : WriteNamed(n, len)

Next == FormCommand \/ Ayo \/ GrantCap \/ SystemCall

Spec == Init /\ [][Next]_vars

-----------------------------------------------------------------------------
\* The types of the table, the job, the intents and the flags.
TypeOK ==
  /\ form_table \in [Index -> [name : Names \cup DimNames \cup {PkgMarker, HexName, ""},
                               content : Nat, size : Nat, cap : Nat]]
  /\ form_count \in 0 .. MAX_FORMS
  /\ job.cmd \in {"none", "add", "remove", "update"}
  /\ Len(intents) <= MAX_INTENTS /\ granted \in BOOLEAN /\ tx \in BOOLEAN /\ ioerr \in BOOLEAN
  /\ steps \in 0 .. MaxSteps
  /\ fault \in {"none", "write", "append", "edit", "delete", "hexpack",
                "makedim", "copy", "ayo", "fulfill"}

(***************************************************************************)
(* Whatever kmalloc and kfree were called with, the blocks of the heap     *)
(* cover it without gap or overlap and no two neighbours are free.         *)
(***************************************************************************)
HeapIntact == WellFormed(heap)

\* A form that took over, with a stale entry, a buffer that ayo remove or a
\* failing hexpack let go: its capacity may be that of an earlier buffer.
Adopted(i) == form_table[i].content \in dropped

(***************************************************************************)
(* As long as no command has gone astray, the buffer of a form is in use,  *)
(* is no other form's buffer and is as large as size says and, unless it   *)
(* was adopted, as cap says, after any sequence of creations, deletions,   *)
(* renames and growth.                                                     *)
(***************************************************************************)
BuffersOwned ==
  fault = "none" =>
    \A i \in Live : form_table[i].content # NULL =>
      /\ Mine(i)
      /\ form_table[i].size <= Bytes(heap, form_table[i].content)
      /\ form_table[i].cap <= Bytes(heap, form_table[i].content) \/ Adopted(i)

(***************************************************************************)
(* delete and hexpack always stay within memory they own, and so do write  *)
(* and append unless a form has adopted a buffer smaller than its capacity *)
(* says: the first command to go astray is one that reuses a stale entry   *)
(* (copy, makedim, ayo) or skips form_ensure_cap (edit, an intent).        *)
(***************************************************************************)
SafeCommands ==
  /\ fault \notin {"delete", "hexpack"}
  /\ fault \in {"write", "append"} =>
       \E i \in Live : Adopted(i) /\ form_table[i].cap > Bytes(heap, form_table[i].content)

(***************************************************************************)
(* Every block in use belongs to a form, except those that ayo remove and  *)
(* a failing hexpack let go: growing, replacing and deleting leak nothing. *)
(***************************************************************************)
NoLeak ==
  fault = "none" =>
    \A b \in DOMAIN heap :
      heap[b].free \/ b + HDR \in {form_table[i].content : i \in Live} \cup dropped

(***************************************************************************)
(* While no save has left its transaction active no grant can exist, so no *)
(* program writes to a form: an index that a delete has moved to another   *)
(* form is then only ever read through.                                    *)
(***************************************************************************)
ProgramsReadOnly ==
  ~ioerr => fault # "fulfill" /\ \A k \in 1 .. Len(intents) : intents[k].type = "CONSUME"

(***************************************************************************)
(* README.md: "copy command fixed - now uses proper form_ensure_cap": copy *)
(* stays within a buffer of the new form.                                  *)
(***************************************************************************)
CopyFixed == fault # "copy"
=============================================================================
