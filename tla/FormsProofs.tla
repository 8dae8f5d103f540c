----------------------------- MODULE FormsProofs -----------------------------
(***************************************************************************)
(* For tables, heaps and texts of every size and sessions of every length: *)
(* the heap stays well formed under every command and system call that     *)
(* allocates or frees, forms own their buffers, no buffer is lost, and     *)
(* only the commands named by SafeCommands can be the first to go astray.  *)
(***************************************************************************)
EXTENDS Forms, KHeapProofs

\* The heap, and what keeps the requests to kmalloc numbers.
FormsInv ==
  /\ WellFormed(heap)
  /\ form_count \in 0 .. MAX_FORMS
  /\ form_table = [i \in Index |-> form_table[i]]
  /\ \A i \in Index : form_table[i].size \in Nat

(***************************************************************************)
(* What form_ensure_cap makes of the heap, unless it frees a buffer that   *)
(* is not the entry's own.                                                 *)
(***************************************************************************)
LEMMA CapWellFormed ==
  ASSUME FormsInv, NEW i \in Index, NEW needed \in Nat, ~FreesForeign(i, needed)
  PROVE  WellFormed(cap_heap(form_table[i], needed))
<1> DEFINE e == form_table[i]
           n == needed + GROWTH
<1>1. n \in Nat BY FormsAssumption
<1>2. CASE Keeps(e, needed) BY <1>2 DEF cap_heap, FormsInv
<1>3. CASE ~Keeps(e, needed)
  <2>1. WellFormed(Kmalloced(heap, n)) BY <1>1, MallocWellFormed DEF FormsInv
  <2>2. e.content = NULL \/ Allocated(heap, e.content) BY <1>3 DEF FreesForeign, Mine
  <2>3. e.content = NULL \/ Allocated(Kmalloced(heap, n), e.content)
    BY <1>1, <2>2, MallocKeepsOthers DEF FormsInv
  <2> QED BY <1>3, <2>1, <2>3, FreeWellFormed DEF cap_heap
<1> QED BY <1>2, <1>3

(***************************************************************************)
(* Setting an entry of the table.                                          *)
(***************************************************************************)
LEMMA EntryKeepsInv ==
  ASSUME FormsInv, NEW i \in Index, NEW name, NEW content, NEW size \in Nat, NEW cap,
         form_table' = [form_table EXCEPT ![i] = Form(name, content, size, cap)]
  PROVE  /\ form_table' = [j \in Index |-> form_table'[j]]
         /\ \A j \in Index : form_table'[j].size \in Nat
<1>1. DOMAIN form_table = Index BY DEF FormsInv
<1>2. form_table'[i] = Form(name, content, size, cap) /\ DOMAIN form_table' = Index BY <1>1
<1>3. form_table'[i].size = size BY <1>2 DEF Form
<1>4. \A j \in Index \ {i} : form_table'[j] = form_table[j] BY <1>1
<1>5. \A j \in Index : form_table'[j].size \in Nat BY <1>3, <1>4 DEF FormsInv
<1> QED BY <1>1, <1>5

(***************************************************************************)
(* What commands and system calls do to an entry keeps the invariant.      *)
(***************************************************************************)
LEMMA StoreKeepsInv ==
  ASSUME FormsInv, NEW cmd, NEW i \in Index, i <= form_count, NEW needed \in Nat, NEW n,
         NEW name, NEW size \in Nat, Store(cmd, i, needed, n, name, size)
  PROVE  FormsInv'
<1>1. CASE UNCHANGED forms
  <2>1. UNCHANGED heap /\ UNCHANGED form_table /\ UNCHANGED form_count BY <1>1 DEF forms
  <2> QED BY <2>1 DEF FormsInv
<1>2. CASE ~UNCHANGED forms
  <2>1. /\ ~FreesForeign(i, needed)
        /\ heap' = cap_heap(form_table[i], needed)
        /\ form_table' = [form_table EXCEPT ![i] =
              Form(name, cap_entry(form_table[i], needed).content, size,
                   cap_entry(form_table[i], needed).cap)]
        /\ form_count' = IF i = form_count THEN form_count + 1 ELSE form_count
    BY <1>2 DEF Store
  <2>2. WellFormed(heap') BY <2>1, CapWellFormed
  <2>3. form_count' \in 0 .. MAX_FORMS BY <2>1, FormsAssumption DEF FormsInv, Index
  <2>4. /\ form_table' = [j \in Index |-> form_table'[j]]
        /\ \A j \in Index : form_table'[j].size \in Nat
    BY <2>1, EntryKeepsInv
  <2> QED BY <2>2, <2>3, <2>4 DEF FormsInv
<1> QED BY <1>1, <1>2

(***************************************************************************)
(* A form that is found has an index of the table.                         *)
(***************************************************************************)
LEMMA FoundIsIndex ==
  ASSUME FormsInv, NEW n, NEW i \in find_form(n)
  PROVE  i \in Index /\ i <= form_count /\ form_table[i].size \in Nat
<1>1. i \in Live BY DEF find_form
<1>2. i \in Index /\ i <= form_count BY <1>1, FormsAssumption DEF Live, Index, FormsInv
<1> QED BY <1>2 DEF FormsInv

(***************************************************************************)
(* cmd_mkform keeps the invariant, also when there is no memory.           *)
(***************************************************************************)
LEMMA MkFormKeepsInv ==
  ASSUME FormsInv, NEW n, cmd_mkform(n)
  PROVE  FormsInv'
<1>1. form_count \in Index BY FormsAssumption DEF cmd_mkform, FormsInv, Index
<1>2. WellFormed(heap') BY MallocWellFormed DEF cmd_mkform, FormsInv
<1>3. form_count' \in 0 .. MAX_FORMS BY FormsAssumption DEF cmd_mkform, FormsInv
<1>4. \/ form_table' = [form_table EXCEPT ![form_count] =
            Form(n, NULL, form_table[form_count].size, form_table[form_count].cap)]
      \/ form_table' = [form_table EXCEPT ![form_count] = Form(n, kmalloc(heap, 1), 0, 1)]
  BY DEF cmd_mkform
<1>5. form_table[form_count].size \in Nat BY <1>1 DEF FormsInv
<1>6. /\ form_table' = [j \in Index |-> form_table'[j]]
      /\ \A j \in Index : form_table'[j].size \in Nat
  BY <1>1, <1>4, <1>5, EntryKeepsInv
<1> QED BY <1>2, <1>3, <1>6 DEF FormsInv

(***************************************************************************)
(* Moving entries down keeps the table a table.                            *)
(***************************************************************************)
LEMMA ShiftKeepsInv ==
  ASSUME FormsInv, NEW i \in Index, form_table' = Shifted(i)
  PROVE  /\ form_table' = [j \in Index |-> form_table'[j]]
         /\ \A j \in Index : form_table'[j].size \in Nat
<1>1. \A k \in Index : k < form_count - 1 => k + 1 \in Index
  BY FormsAssumption DEF Index, FormsInv
<1>2. \A k \in Index : form_table'[k] = IF i <= k /\ k < form_count - 1 THEN form_table[k + 1]
                                        ELSE form_table[k]
  BY DEF Shifted
<1>3. \A k \in Index : form_table'[k].size \in Nat BY <1>1, <1>2 DEF FormsInv
<1>4. form_table' = [j \in Index |-> form_table'[j]] BY DEF Shifted
<1> QED BY <1>3, <1>4

-----------------------------------------------------------------------------
(***************************************************************************)
(* write, append, edit, delete, move, copy, mkform and makedim keep the    *)
(* invariant.                                                              *)
(***************************************************************************)
LEMMA CommandKeepsInv ==
  ASSUME FormsInv, NEW n, NEW len \in Nat, NEW dst,
         \/ MkForm(n) \/ Write(n, len) \/ AppendText(n, len) \/ Edit(n, len)
         \/ Delete(n) \/ Move(n, dst) \/ Copy(n, dst) \/ MakeDim(n)
  PROVE  FormsInv'
<1>0. len + 1 \in Nat /\ 0 \in Nat OBVIOUS
<1>1. CASE MkForm(n) BY <1>1, MkFormKeepsInv DEF MkForm
<1>2. CASE Write(n, len)
  <2>1. PICK i \in find_form(n) : Store("write", i, len + 1, len + 1, n, len)
    BY <1>2 DEF Write
  <2> QED BY <1>0, <2>1, FoundIsIndex, StoreKeepsInv
<1>3. CASE AppendText(n, len)
  <2>1. PICK i \in find_form(n) :
          Store("append", i, Appended(i, len) + 1, Appended(i, len) + 1, n, Appended(i, len))
    BY <1>3 DEF AppendText
  <2>2. Appended(i, len) \in Nat /\ Appended(i, len) + 1 \in Nat
    BY <2>1, FoundIsIndex DEF Appended
  <2> QED BY <2>1, <2>2, FoundIsIndex, StoreKeepsInv
<1>4. CASE Edit(n, len)
  <2>1. PICK i \in find_form(n) : Store("edit", i, 0, IF len = 0 THEN 1 ELSE len, n, len)
    BY <1>4 DEF Edit
  <2> QED BY <1>0, <2>1, FoundIsIndex, StoreKeepsInv
<1>5. CASE Delete(n)
  <2>1. PICK i \in find_form(n) :
          IF form_table[i].content # NULL /\ ~Mine(i)
          THEN fault' = "delete" /\ UNCHANGED forms
          ELSE /\ heap' = kfree(heap, form_table[i].content)
               /\ form_table' = Shifted(i)
               /\ form_count' = form_count - 1
               /\ UNCHANGED fault
    BY <1>5 DEF Delete
  <2>2. i \in Index BY <2>1, FoundIsIndex
  <2>3. CASE UNCHANGED forms BY <2>3 DEF forms, FormsInv
  <2>4. CASE ~UNCHANGED forms
    <3>1. form_table[i].content = NULL \/ Allocated(heap, form_table[i].content)
      BY <2>1, <2>4 DEF Mine
    <3>2. WellFormed(heap') BY <2>1, <2>4, <3>1, FreeWellFormed DEF FormsInv
    <3>3. form_count' \in 0 .. MAX_FORMS
      <4>1. i \in 0 .. form_count - 1 BY <2>1 DEF find_form, Live
      <4> QED BY <2>1, <2>4, <4>1, FormsAssumption DEF FormsInv
    <3>4. /\ form_table' = [j \in Index |-> form_table'[j]]
          /\ \A j \in Index : form_table'[j].size \in Nat
      BY <2>1, <2>2, <2>4, ShiftKeepsInv
    <3> QED BY <3>2, <3>3, <3>4 DEF FormsInv
  <2> QED BY <2>3, <2>4
<1>6. CASE Move(n, dst)
  <2>1. PICK i \in find_form(n) :
          form_table' = [form_table EXCEPT ![i] =
             Form(dst, form_table[i].content, form_table[i].size, form_table[i].cap)]
    BY <1>6 DEF Move
  <2>2. i \in Index /\ form_table[i].size \in Nat BY <2>1, FoundIsIndex
  <2>3. /\ form_table' = [j \in Index |-> form_table'[j]]
        /\ \A j \in Index : form_table'[j].size \in Nat
    BY <2>1, <2>2, EntryKeepsInv
  <2>4. UNCHANGED heap /\ UNCHANGED form_count BY <1>6 DEF Move
  <2> QED BY <2>3, <2>4 DEF FormsInv
<1>7. CASE Copy(n, dst)
  <2>1. PICK i \in find_form(n) :
          Store("copy", form_count, form_table[i].size, form_table[i].size, dst, form_table[i].size)
    BY <1>7 DEF Copy
  <2>2. form_table[i].size \in Nat BY <2>1, FoundIsIndex
  <2>3. form_count \in Index /\ form_count <= form_count
    BY <1>7, FormsAssumption DEF Copy, FormsInv, Index
  <2> QED BY <2>1, <2>2, <2>3, StoreKeepsInv
<1>8. CASE MakeDim(n)
  <2>1. Store("makedim", form_count, 0, 1, n, 0) BY <1>8 DEF MakeDim
  <2>2. form_count \in Index /\ form_count <= form_count
    BY <1>8, FormsAssumption DEF MakeDim, FormsInv, Index
  <2> QED BY <1>0, <2>1, <2>2, StoreKeepsInv
<1> QED BY <1>1, <1>2, <1>3, <1>4, <1>5, <1>6, <1>7, <1>8

(***************************************************************************)
(* hexpack keeps the invariant, whether n.hex is there, made or refused.   *)
(***************************************************************************)
LEMMA HexpackKeepsInv ==
  ASSUME FormsInv, NEW n, HexpackAgain(n) \/ HexpackNew(n) \/ HexpackFails(n)
  PROVE  FormsInv'
<1>0. ASSUME NEW i \in find_form(n)
      PROVE  HexSize(i) \in Nat /\ HexSize(i) + 1 \in Nat
                /\ WellFormed(Kmalloced(heap, HexSize(i) + 1))
  <2>1. HexSize(i) \in Nat /\ HexSize(i) + 1 \in Nat
    BY FoundIsIndex, FormsAssumption DEF HexSize
  <2> QED BY <2>1, MallocWellFormed DEF FormsInv
<1>1. CASE HexpackAgain(n)
  <2>1. PICK i \in find_form(n), x \in find_form(HexName) :
          IF form_table[x].content # NULL /\ ~Mine(x)
          THEN fault' = "hexpack" /\ UNCHANGED <<heap, form_table>>
          ELSE /\ heap' = kfree(Kmalloced(heap, HexSize(i) + 1), form_table[x].content)
               /\ form_table' = [form_table EXCEPT ![x] = HexEntry(i)]
               /\ UNCHANGED fault
    BY <1>1 DEF HexpackAgain
  <2>2. x \in Index BY <2>1, FoundIsIndex
  <2>3. UNCHANGED form_count BY <1>1 DEF HexpackAgain
  <2>4. CASE form_table[x].content # NULL /\ ~Mine(x)
    BY <2>1, <2>3, <2>4 DEF FormsInv
  <2>5. CASE ~(form_table[x].content # NULL /\ ~Mine(x))
    <3>1. form_table[x].content = NULL \/ Allocated(heap, form_table[x].content)
      BY <2>5 DEF Mine
    <3>2. form_table[x].content = NULL
            \/ Allocated(Kmalloced(heap, HexSize(i) + 1), form_table[x].content)
      BY <1>0, <2>1, <3>1, MallocKeepsOthers DEF FormsInv
    <3>3. WellFormed(heap') BY <1>0, <2>1, <2>5, <3>2, FreeWellFormed
    <3>4. /\ form_table' = [j \in Index |-> form_table'[j]]
          /\ \A j \in Index : form_table'[j].size \in Nat
      BY <1>0, <2>1, <2>2, <2>5, EntryKeepsInv DEF HexEntry
    <3> QED BY <2>3, <3>3, <3>4 DEF FormsInv
  <2> QED BY <2>4, <2>5
<1>2. CASE HexpackNew(n)
  <2>1. PICK i \in find_form(n) :
          /\ heap' = Kmalloced(heap, HexSize(i) + 1)
          /\ form_table' = [form_table EXCEPT ![form_count] = HexEntry(i)]
    BY <1>2 DEF HexpackNew
  <2>2. form_count \in Index /\ form_count' \in 0 .. MAX_FORMS
    BY <1>2, FormsAssumption DEF HexpackNew, FormsInv, Index
  <2>3. /\ form_table' = [j \in Index |-> form_table'[j]]
        /\ \A j \in Index : form_table'[j].size \in Nat
    BY <1>0, <2>1, <2>2, EntryKeepsInv DEF HexEntry
  <2> QED BY <1>0, <2>1, <2>2, <2>3 DEF FormsInv
<1>3. CASE HexpackFails(n)
  <2>1. PICK i \in find_form(n) :
          /\ heap' = Kmalloced(heap, HexSize(i) + 1)
          /\ \/ UNCHANGED form_table
             \/ /\ form_count < MAX_FORMS
                /\ form_table' = [form_table EXCEPT ![form_count] =
                     Form(HexName, NULL, form_table[form_count].size, form_table[form_count].cap)]
    BY <1>3 DEF HexpackFails
  <2>2. UNCHANGED form_count BY <1>3 DEF HexpackFails
  <2>3. CASE UNCHANGED form_table BY <1>0, <2>1, <2>2, <2>3 DEF FormsInv
  <2>4. CASE ~UNCHANGED form_table
    <3>1. form_count \in Index BY <2>1, <2>4, FormsAssumption DEF FormsInv, Index
    <3>2. form_table[form_count].size \in Nat BY <3>1 DEF FormsInv
    <3>3. /\ form_table' = [j \in Index |-> form_table'[j]]
          /\ \A j \in Index : form_table'[j].size \in Nat
      BY <2>1, <2>4, <3>1, <3>2, EntryKeepsInv
    <3> QED BY <1>0, <2>1, <2>2, <3>3 DEF FormsInv
  <2> QED BY <2>3, <2>4
<1> QED BY <1>1, <1>2, <1>3

(***************************************************************************)
(* The steps of ayo keep the invariant.                                    *)
(***************************************************************************)
LEMMA AyoKeepsInv ==
  ASSUME FormsInv, Ayo
  PROVE  FormsInv'
<1>0. PkgLength + 1 \in Nat /\ PkgLength \in Nat BY FormsAssumption
<1>1. CASE AyoAdd
  <2>1. Store("ayo", form_count, 2, 2, PkgMarker, 1) BY <1>1 DEF AyoAdd
  <2>2. Len(PkgForms) \in Nat BY FormsAssumption
  <2>3. form_count \in Index /\ form_count <= form_count
    BY <1>1, <2>2, FormsAssumption DEF AyoAdd, FormsInv, Index
  <2> QED BY <2>1, <2>3, StoreKeepsInv
<1>2. CASE AyoPut
  <2>1. Store("ayo", form_count, PkgLength + 1, PkgLength + 1, Head(job.rest), PkgLength)
    BY <1>2 DEF AyoPut
  <2>2. form_count \in Index /\ form_count <= form_count
    BY <1>2, FormsAssumption DEF AyoPut, FormsInv, Index
  <2> QED BY <1>0, <2>1, <2>2, StoreKeepsInv
<1>3. CASE AyoRefresh
  <2>1. PICK i \in find_form(Head(job.rest)) :
          Store("ayo", i, PkgLength + 1, PkgLength + 1, Head(job.rest), PkgLength)
    BY <1>3 DEF AyoRefresh
  <2> QED BY <1>0, <2>1, FoundIsIndex, StoreKeepsInv
<1>4. CASE AyoDrop
  <2>1. PICK i \in find_form(Head(job.rest)) : form_table' = Shifted(i) BY <1>4 DEF AyoDrop
  <2>2. UNCHANGED heap /\ form_count' = form_count - 1 BY <1>4 DEF AyoDrop
  <2>3. i \in Index /\ i \in 0 .. form_count - 1 BY <2>1, FoundIsIndex DEF find_form, Live
  <2>4. form_count' \in 0 .. MAX_FORMS BY <2>2, <2>3, FormsAssumption DEF FormsInv
  <2>5. /\ form_table' = [j \in Index |-> form_table'[j]]
        /\ \A j \in Index : form_table'[j].size \in Nat
    BY <2>1, <2>3, ShiftKeepsInv
  <2> QED BY <2>2, <2>4, <2>5 DEF FormsInv
<1>5. CASE UNCHANGED forms BY <1>5 DEF forms, FormsInv
<1>6. AyoRemove \/ AyoUpdate \/ AyoSkip \/ AyoSave => UNCHANGED forms
  BY DEF AyoRemove, AyoUpdate, AyoSkip, AyoSave, forms
<1> QED BY <1>1, <1>2, <1>3, <1>4, <1>5, <1>6 DEF Ayo

(***************************************************************************)
(* Grants and system calls keep the invariant.                             *)
(***************************************************************************)
LEMMA SystemCallKeepsInv ==
  ASSUME FormsInv, GrantCap \/ SystemCall
  PROVE  FormsInv'
<1>1. CASE UNCHANGED forms BY <1>1 DEF forms, FormsInv
<1>2. ASSUME NEW n \in Names, NEW type, OpenCreate(n, type) PROVE FormsInv'
  BY <1>2, MkFormKeepsInv DEF OpenCreate
<1>2a. ASSUME NEW i \in Live, NEW len \in Lengths, Produce(i, len) PROVE FormsInv'
  <2>1. Store("fulfill", i, 0, len + 1, form_table[i].name, Larger(form_table[i].size, len))
    BY <1>2a DEF Produce
  <2>2. i \in Index /\ i <= form_count BY FormsAssumption DEF Live, Index, FormsInv
  <2>3. Larger(form_table[i].size, len) \in Nat BY <2>2, FormsAssumption DEF Larger, FormsInv
  <2> QED BY <2>1, <2>2, <2>3, StoreKeepsInv
<1>3. ASSUME NEW k \in 1 .. Len(intents), NEW len \in Lengths, Fulfill(k, len) PROVE FormsInv'
  <2> DEFINE i == intents[k].target
  <2>0. i \in Live /\ Produce(i, len) BY <1>3 DEF Fulfill
  <2> HIDE DEF i
  <2> QED BY <1>2a, <2>0
<1>3a. ASSUME NEW n \in Names, NEW len \in Lengths, WriteNamed(n, len) PROVE FormsInv'
  <2>1. PICK i \in find_form(n) : Produce(i, len) BY <1>3a DEF WriteNamed
  <2> QED BY <1>2a, <2>1 DEF find_form
<1>4. ASSUME NEW n, NEW type, OpenForm(n, type) PROVE UNCHANGED forms BY <1>4 DEF OpenForm, forms
<1>5. ASSUME NEW i, NEW type, SysIntent(type, i) PROVE UNCHANGED forms
  BY <1>5 DEF SysIntent, forms
<1>6. ASSUME GrantCap PROVE UNCHANGED forms BY <1>6 DEF GrantCap, forms
<1> QED BY <1>1, <1>2, <1>3, <1>4, <1>5, <1>6, <1>3a DEF SystemCall, sys_open

(***************************************************************************)
(* Every step keeps the invariant.                                         *)
(***************************************************************************)
LEMMA FormsStep == FormsInv /\ [Next]_vars => FormsInv'
<1> SUFFICES ASSUME FormsInv, [Next]_vars PROVE FormsInv' OBVIOUS
<1>1. CASE FormCommand
  <2>1. Lengths \subseteq Nat /\ EditSizes \subseteq Nat /\ 0 \in Nat BY FormsAssumption
  <2>2. CASE Resave BY <2>2 DEF Resave, forms, FormsInv
  <2> QED BY <1>1, <2>1, <2>2, CommandKeepsInv, HexpackKeepsInv DEF FormCommand
<1>2. CASE Ayo BY <1>2, AyoKeepsInv
<1>3. CASE GrantCap \/ SystemCall BY <1>3, SystemCallKeepsInv
<1>4. CASE UNCHANGED vars BY <1>4 DEF vars, FormsInv
<1> QED BY <1>1, <1>2, <1>3, <1>4 DEF Next

(***************************************************************************)
(* The blocks of the kernel heap cover it without gap or overlap, and no   *)
(* two neighbours are free, whatever commands and programs do to forms.    *)
(***************************************************************************)
THEOREM HeapStaysIntact == Spec => []HeapIntact
<1>1. Init => FormsInv
  <2> SUFFICES ASSUME Init PROVE FormsInv OBVIOUS
  <2>1. WellFormed(heap) BY InitWellFormed DEF Init
  <2>2. form_count \in 0 .. MAX_FORMS BY FormsAssumption DEF Init
  <2>3. form_table = [i \in Index |-> form_table[i]] BY DEF Init
  <2>4. \A i \in Index : form_table[i].size \in Nat BY DEF Init, Blank, Form
  <2> QED BY <2>1, <2>2, <2>3, <2>4 DEF FormsInv
<1>2. FormsInv => HeapIntact BY DEF FormsInv, HeapIntact
<1> QED BY <1>1, <1>2, FormsStep, PTL DEF Spec

-----------------------------------------------------------------------------
(***************************************************************************)
(* Types of the table, of the job of ayo and of intent_table.              *)
(***************************************************************************)
FormNames == Names \cup DimNames \cup {PkgMarker, HexName, ""}
FormType == [name : FormNames, content : Nat, size : Nat, cap : Nat]
JobType == [cmd : {"none", "add", "remove", "update"}, rest : Seq(Names \cup {PkgMarker})]
IntentType == [type : Writers \cup {"CONSUME", "OBSERVE"}, target : Nat]

(***************************************************************************)
(* Setting an entry to a form keeps the type of the table.                 *)
(***************************************************************************)
LEMMA EntryTyped ==
  ASSUME form_table \in [Index -> FormType], NEW i \in Index, NEW name \in FormNames,
         NEW content \in Nat, NEW size \in Nat, NEW cap \in Nat,
         form_table' = [form_table EXCEPT ![i] = Form(name, content, size, cap)]
  PROVE  form_table' \in [Index -> FormType]
<1>1. Form(name, content, size, cap) \in FormType BY DEF Form, FormType
<1> QED BY <1>1

(***************************************************************************)
(* What form_ensure_cap leaves in an entry.                                *)
(***************************************************************************)
LEMMA CapTyped ==
  ASSUME FormsInv, NEW e \in FormType, NEW needed \in Nat
  PROVE  cap_entry(e, needed).content \in Nat /\ cap_entry(e, needed).cap \in Nat
<1>1. needed + GROWTH \in Nat BY FormsAssumption
<1>2. CASE Keeps(e, needed) BY <1>2 DEF cap_entry, FormType
<1>3. CASE ~Keeps(e, needed)
  <2>1. kmalloc(heap, needed + GROWTH) # NULL BY <1>3 DEF Keeps
  <2>2. kmalloc(heap, needed + GROWTH) \in Nat BY <1>1, <2>1, MallocFresh DEF FormsInv
  <2> QED BY <1>1, <1>3, <2>2 DEF cap_entry, Form
<1> QED BY <1>2, <1>3

(***************************************************************************)
(* A command on an entry keeps the types of the table and the count.       *)
(***************************************************************************)
LEMMA StoreTyped ==
  ASSUME FormsInv, form_table \in [Index -> FormType], NEW cmd, NEW i \in Index,
         i <= form_count, NEW needed \in Nat, NEW n, NEW name \in FormNames, NEW size \in Nat,
         Store(cmd, i, needed, n, name, size)
  PROVE  form_table' \in [Index -> FormType] /\ fault' \in {fault, cmd}
<1>1. CASE UNCHANGED forms BY <1>1 DEF forms, Store
<1>2. CASE ~UNCHANGED forms
  <2>1. /\ form_table' = [form_table EXCEPT ![i] =
              Form(name, cap_entry(form_table[i], needed).content, size,
                   cap_entry(form_table[i], needed).cap)]
        /\ fault' = fault
    BY <1>2 DEF Store
  <2>2. form_table[i] \in FormType OBVIOUS
  <2>3. cap_entry(form_table[i], needed).content \in Nat /\ cap_entry(form_table[i], needed).cap \in Nat
    BY <2>2, CapTyped
  <2> QED BY <2>1, <2>3, EntryTyped
<1> QED BY <1>1, <1>2

(***************************************************************************)
(* So does cmd_mkform.                                                     *)
(***************************************************************************)
LEMMA MkFormTyped ==
  ASSUME FormsInv, form_table \in [Index -> FormType], NEW n \in FormNames, cmd_mkform(n)
  PROVE  form_table' \in [Index -> FormType] /\ fault' = fault
<1>1. form_count \in Index BY FormsAssumption DEF cmd_mkform, FormsInv, Index
<1>2. form_table[form_count].size \in Nat /\ form_table[form_count].cap \in Nat
  BY <1>1 DEF FormType
<1>3. kmalloc(heap, 1) \in Nat BY MallocFresh DEF FormsInv, NULL
<1>4. \/ form_table' = [form_table EXCEPT ![form_count] =
            Form(n, NULL, form_table[form_count].size, form_table[form_count].cap)]
      \/ form_table' = [form_table EXCEPT ![form_count] = Form(n, kmalloc(heap, 1), 0, 1)]
  BY DEF cmd_mkform
<1>5. NULL \in Nat /\ 0 \in Nat /\ 1 \in Nat BY DEF NULL
<1>6. fault' = fault BY DEF cmd_mkform
<1> QED BY <1>1, <1>2, <1>3, <1>4, <1>5, <1>6, EntryTyped

(***************************************************************************)
(* So does moving entries down.                                            *)
(***************************************************************************)
LEMMA ShiftTyped ==
  ASSUME FormsInv, form_table \in [Index -> FormType], NEW i, form_table' = Shifted(i)
  PROVE  form_table' \in [Index -> FormType]
<1>1. \A k \in Index : k < form_count - 1 => k + 1 \in Index
  BY FormsAssumption DEF Index, FormsInv
<1> QED BY <1>1 DEF Shifted

Faults == {"none", "write", "append", "edit", "delete", "hexpack", "makedim", "copy", "ayo", "fulfill"}

TableTyped == form_table \in [Index -> FormType] /\ fault \in Faults

(***************************************************************************)
(* The commands of the shell on forms keep the types of the table.         *)
(***************************************************************************)
LEMMA CommandTyped ==
  ASSUME FormsInv, TableTyped, FormCommand
  PROVE  TableTyped'
<1>0. /\ form_table \in [Index -> FormType] /\ fault \in Faults
      /\ Lengths \subseteq Nat /\ EditSizes \subseteq Nat /\ 0 \in Nat
      /\ Names \subseteq FormNames /\ DimNames \subseteq FormNames /\ HexName \in FormNames
  BY FormsAssumption DEF TableTyped, FormNames
<1>1. ASSUME NEW n \in Names, MkForm(n) PROVE TableTyped'
  BY <1>0, <1>1, MkFormTyped DEF MkForm, TableTyped
<1>2. ASSUME NEW n \in Names, Delete(n) PROVE TableTyped'
  <2>1. fault' \in {fault, "delete"} BY <1>2 DEF Delete
  <2>2. \E i \in find_form(n) : form_table' = form_table \/ form_table' = Shifted(i)
    BY <1>2 DEF Delete, forms
  <2>3. fault' \in Faults BY <1>0, <2>1 DEF Faults
  <2> QED BY <1>0, <2>2, <2>3, ShiftTyped DEF TableTyped
<1>3. ASSUME NEW n \in Names, NEW len \in Lengths, Write(n, len) PROVE TableTyped'
  <2>1. PICK i \in find_form(n) : Store("write", i, len + 1, len + 1, n, len) BY <1>3 DEF Write
  <2>2. len \in Nat /\ len + 1 \in Nat /\ n \in FormNames BY <1>0
  <2>3. form_table' \in [Index -> FormType] /\ fault' \in {fault, "write"}
    BY <1>0, <2>1, <2>2, FoundIsIndex, StoreTyped
  <2> QED BY <1>0, <2>3 DEF TableTyped, Faults
<1>4. ASSUME NEW n \in Names, NEW len \in Lengths, AppendText(n, len) PROVE TableTyped'
  <2>1. PICK i \in find_form(n) :
          Store("append", i, Appended(i, len) + 1, Appended(i, len) + 1, n, Appended(i, len))
    BY <1>4 DEF AppendText
  <2>2. Appended(i, len) \in Nat /\ Appended(i, len) + 1 \in Nat /\ n \in FormNames
    BY <1>0, FoundIsIndex DEF Appended
  <2>3. form_table' \in [Index -> FormType] /\ fault' \in {fault, "append"}
    BY <1>0, <2>1, <2>2, FoundIsIndex, StoreTyped
  <2> QED BY <1>0, <2>3 DEF TableTyped, Faults
<1>5. ASSUME NEW n \in Names, NEW total \in EditSizes, Edit(n, total) PROVE TableTyped'
  <2>1. PICK i \in find_form(n) : Store("edit", i, 0, IF total = 0 THEN 1 ELSE total, n, total)
    BY <1>5 DEF Edit
  <2>2. total \in Nat /\ n \in FormNames BY <1>0
  <2>3. form_table' \in [Index -> FormType] /\ fault' \in {fault, "edit"}
    BY <1>0, <2>1, <2>2, FoundIsIndex, StoreTyped
  <2> QED BY <1>0, <2>3 DEF TableTyped, Faults
<1>6. ASSUME NEW n \in Names, NEW dst \in Names, Move(n, dst) PROVE TableTyped'
  <2>1. PICK i \in find_form(n) :
          form_table' = [form_table EXCEPT ![i] =
             Form(dst, form_table[i].content, form_table[i].size, form_table[i].cap)]
    BY <1>6 DEF Move
  <2>2. i \in Index /\ form_table[i] \in FormType BY <1>0, <2>1, FoundIsIndex
  <2>3. form_table[i].content \in Nat /\ form_table[i].size \in Nat /\ form_table[i].cap \in Nat
    BY <2>2 DEF FormType
  <2>4. fault' = fault /\ dst \in FormNames BY <1>0, <1>6 DEF Move
  <2> QED BY <1>0, <2>1, <2>2, <2>3, <2>4, EntryTyped DEF TableTyped
<1>7. ASSUME NEW n \in Names, NEW dst \in Names, Copy(n, dst) PROVE TableTyped'
  <2>1. PICK i \in find_form(n) :
          Store("copy", form_count, form_table[i].size, form_table[i].size, dst, form_table[i].size)
    BY <1>7 DEF Copy
  <2>2. form_table[i].size \in Nat /\ dst \in FormNames BY <1>0, FoundIsIndex
  <2>3. form_count \in Index /\ form_count <= form_count
    BY <1>7, FormsAssumption DEF Copy, FormsInv, Index
  <2>4. form_table' \in [Index -> FormType] /\ fault' \in {fault, "copy"}
    BY <1>0, <2>1, <2>2, <2>3, StoreTyped
  <2> QED BY <1>0, <2>4 DEF TableTyped, Faults
<1>8. ASSUME NEW d \in DimNames, MakeDim(d) PROVE TableTyped'
  <2>1. Store("makedim", form_count, 0, 1, d, 0) /\ d \in FormNames BY <1>0, <1>8 DEF MakeDim
  <2>2. form_count \in Index /\ form_count <= form_count
    BY <1>8, FormsAssumption DEF MakeDim, FormsInv, Index
  <2>3. form_table' \in [Index -> FormType] /\ fault' \in {fault, "makedim"}
    BY <1>0, <2>1, <2>2, StoreTyped
  <2> QED BY <1>0, <2>3 DEF TableTyped, Faults
<1>9. ASSUME NEW n \in Names, HexpackAgain(n) \/ HexpackNew(n) \/ HexpackFails(n)
      PROVE  TableTyped'
  <2>0. ASSUME NEW i \in find_form(n), Packed(i) # NULL, NEW x \in Index,
               form_table' = [form_table EXCEPT ![x] = HexEntry(i)]
        PROVE  form_table' \in [Index -> FormType]
    <3>1. HexSize(i) \in Nat /\ HexSize(i) + 1 \in Nat
      BY FoundIsIndex, FormsAssumption DEF HexSize
    <3>2. Packed(i) \in Nat BY <2>0, <3>1, MallocFresh DEF Packed, FormsInv
    <3> QED BY <1>0, <2>0, <3>1, <3>2, EntryTyped DEF HexEntry
  <2>1. CASE HexpackAgain(n)
    <3>1. fault' \in Faults BY <1>0, <2>1 DEF HexpackAgain, Faults
    <3>2. PICK i \in find_form(n), x \in find_form(HexName) :
            /\ Packed(i) # NULL
            /\ form_table' = form_table \/ form_table' = [form_table EXCEPT ![x] = HexEntry(i)]
      BY <2>1 DEF HexpackAgain
    <3>3. x \in Index BY FoundIsIndex
    <3> QED BY <1>0, <2>0, <3>1, <3>2, <3>3 DEF TableTyped
  <2>2. CASE HexpackNew(n)
    <3>1. fault' = fault /\ form_count \in Index
      BY <2>2, FormsAssumption DEF HexpackNew, FormsInv, Index
    <3>2. PICK i \in find_form(n) :
            Packed(i) # NULL /\ form_table' = [form_table EXCEPT ![form_count] = HexEntry(i)]
      BY <2>2 DEF HexpackNew
    <3> QED BY <1>0, <2>0, <3>1, <3>2 DEF TableTyped
  <2>3. CASE HexpackFails(n)
    <3>1. fault' = fault BY <2>3 DEF HexpackFails
    <3>2. CASE form_table' = form_table BY <1>0, <3>1, <3>2 DEF TableTyped
    <3>3. CASE /\ form_count < MAX_FORMS
               /\ form_table' = [form_table EXCEPT ![form_count] =
                    Form(HexName, NULL, form_table[form_count].size, form_table[form_count].cap)]
      <4>1. form_count \in Index BY <3>3, FormsAssumption DEF FormsInv, Index
      <4>2. form_table[form_count].size \in Nat /\ form_table[form_count].cap \in Nat
        BY <1>0, <4>1 DEF FormType
      <4>3. NULL \in Nat BY DEF NULL
      <4> QED BY <1>0, <3>1, <3>3, <4>1, <4>2, <4>3, EntryTyped DEF TableTyped
    <3> QED BY <2>3, <3>2, <3>3 DEF HexpackFails
  <2> QED BY <1>9, <2>1, <2>2, <2>3
<1>10. CASE Resave BY <1>10 DEF Resave, forms, TableTyped
<1> QED BY <1>1, <1>2, <1>3, <1>4, <1>5, <1>6, <1>7, <1>8, <1>9, <1>10 DEF FormCommand

(***************************************************************************)
(* The steps of ayo and the system calls keep them too.                    *)
(***************************************************************************)
LEMMA OtherTyped ==
  ASSUME FormsInv, TableTyped, job \in JobType, Ayo \/ GrantCap \/ SystemCall
  PROVE  TableTyped'
<1>0. /\ form_table \in [Index -> FormType] /\ fault \in Faults
      /\ Lengths \subseteq Nat /\ PkgLength \in Nat /\ PkgLength + 1 \in Nat
      /\ Names \subseteq FormNames /\ PkgMarker \in FormNames
  <2>1. form_table \in [Index -> FormType] /\ fault \in Faults BY DEF TableTyped
  <2>2. Lengths \subseteq Nat /\ PkgLength \in Nat /\ PkgLength + 1 \in Nat BY FormsAssumption
  <2>3. Names \subseteq FormNames /\ PkgMarker \in FormNames BY DEF FormNames
  <2> QED BY <2>1, <2>2, <2>3
<1>1. ASSUME NEW i \in Index, i <= form_count, NEW needed \in Nat, NEW n, NEW name \in FormNames,
             NEW size \in Nat, NEW cmd \in {"ayo", "fulfill"}, Store(cmd, i, needed, n, name, size)
      PROVE  TableTyped'
  <2>0. form_table \in [Index -> FormType] BY <1>0
  <2>1. form_table' \in [Index -> FormType] /\ fault' \in {fault, cmd} BY <1>1, <2>0, StoreTyped
  <2>2. cmd \in Faults BY <1>1 DEF Faults
  <2> QED BY <1>0, <2>1, <2>2 DEF TableTyped
<1>2. form_count < MAX_FORMS => form_count \in Index /\ form_count <= form_count
  BY FormsAssumption DEF FormsInv, Index
<1>3. ASSUME job.rest # <<>> PROVE Head(job.rest) \in FormNames
  <2>1. job.rest \in Seq(Names \cup {PkgMarker}) BY DEF JobType
  <2>2. Head(job.rest) \in Names \cup {PkgMarker} BY <1>3, <2>1
  <2> QED BY <2>2 DEF FormNames
<1>4. CASE AyoAdd
  <2>1. Store("ayo", form_count, 2, 2, PkgMarker, 1) BY <1>4 DEF AyoAdd
  <2>2. Len(PkgForms) \in Nat BY FormsAssumption
  <2>3. form_count < MAX_FORMS BY <1>4, <2>2, FormsAssumption DEF AyoAdd, FormsInv
  <2> QED BY <1>0, <1>1, <1>2, <2>1, <2>3
<1>5. CASE AyoPut
  <2>1. Store("ayo", form_count, PkgLength + 1, PkgLength + 1, Head(job.rest), PkgLength)
    BY <1>5 DEF AyoPut
  <2>2. form_count < MAX_FORMS /\ job.rest # <<>> BY <1>5 DEF AyoPut, Working
  <2> QED BY <1>0, <1>1, <1>2, <1>3, <2>1, <2>2
<1>6. CASE AyoRefresh
  <2>1. PICK i \in find_form(Head(job.rest)) :
          Store("ayo", i, PkgLength + 1, PkgLength + 1, Head(job.rest), PkgLength)
    BY <1>6 DEF AyoRefresh
  <2>2. job.rest # <<>> BY <1>6 DEF AyoRefresh, Working
  <2> QED BY <1>0, <1>1, <1>3, <2>1, <2>2, FoundIsIndex
<1>7. CASE AyoDrop
  <2>1. PICK i \in find_form(Head(job.rest)) : form_table' = Shifted(i) BY <1>7 DEF AyoDrop
  <2>2. fault' = fault BY <1>7 DEF AyoDrop
  <2> QED BY <1>0, <2>1, <2>2, ShiftTyped DEF TableTyped
<1>8. CASE UNCHANGED <<forms, fault>> BY <1>8 DEF forms, TableTyped
<1>9. AyoRemove \/ AyoUpdate \/ AyoSkip \/ AyoSave \/ GrantCap => UNCHANGED <<forms, fault>>
  BY DEF AyoRemove, AyoUpdate, AyoSkip, AyoSave, GrantCap, forms
<1>10. ASSUME NEW n \in Names, NEW type, OpenCreate(n, type) PROVE TableTyped'
  BY <1>0, <1>10, MkFormTyped DEF OpenCreate, TableTyped
<1>10a. ASSUME NEW i \in Live, NEW len \in Lengths, Produce(i, len) PROVE TableTyped'
  <2>1. Store("fulfill", i, 0, len + 1, form_table[i].name, Larger(form_table[i].size, len))
    BY <1>10a DEF Produce
  <2>2. i \in Index /\ i <= form_count BY FormsAssumption DEF Live, Index, FormsInv
  <2>3. Larger(form_table[i].size, len) \in Nat BY <2>2, FormsAssumption DEF Larger, FormsInv
  <2>4. form_table[i].name \in FormNames BY <1>0, <2>2 DEF FormType
  <2> QED BY <1>1, <2>1, <2>2, <2>3, <2>4
<1>11. ASSUME NEW k \in 1 .. Len(intents), NEW len \in Lengths, Fulfill(k, len) PROVE TableTyped'
  BY <1>11, <1>10a DEF Fulfill
<1>11a. ASSUME NEW n \in Names, NEW len \in Lengths, WriteNamed(n, len) PROVE TableTyped'
  BY <1>10a, <1>11a DEF WriteNamed, find_form
<1>12. ASSUME NEW n, NEW type, OpenForm(n, type) PROVE UNCHANGED <<forms, fault>>
  BY <1>12 DEF OpenForm, forms
<1>13. ASSUME NEW i, NEW type, SysIntent(type, i) PROVE UNCHANGED <<forms, fault>>
  BY <1>13 DEF SysIntent, forms
<1> QED BY <1>4, <1>5, <1>6, <1>7, <1>8, <1>9, <1>10, <1>11, <1>12, <1>13, <1>11a
    DEF Ayo, SystemCall, sys_open

\* The types of what is not in the table.
RestTyped ==
  /\ job \in JobType
  /\ intents \in Seq(IntentType) /\ Len(intents) <= MAX_INTENTS
  /\ steps \in 0 .. MaxSteps

(***************************************************************************)
(* The names ayo has left to do are names of forms.                        *)
(***************************************************************************)
LEMMA JobStays ==
  ASSUME RestTyped, Ayo
  PROVE  job' \in JobType
<1>0. PkgForms \in Seq(Names \cup {PkgMarker}) BY FormsAssumption
<1>1. job \in JobType /\ job.rest \in Seq(Names \cup {PkgMarker})
        /\ job.cmd \in {"none", "add", "remove", "update"}
  BY DEF RestTyped, JobType
<1>2. CASE AyoAdd BY <1>0, <1>2 DEF AyoAdd, JobType
<1>3. CASE AyoRemove
  <2>1. Append(PkgForms, PkgMarker) \in Seq(Names \cup {PkgMarker}) BY <1>0
  <2> QED BY <1>3, <2>1 DEF AyoRemove, JobType
<1>4. CASE AyoUpdate BY <1>0, <1>4 DEF AyoUpdate, JobType
<1>5. ASSUME Done, job.rest # <<>> PROVE job' \in JobType
  <2>1. Tail(job.rest) \in Seq(Names \cup {PkgMarker}) BY <1>1, <1>5
  <2> QED BY <1>1, <1>5, <2>1 DEF Done, JobType
<1>6. CASE AyoSave BY <1>6 DEF AyoSave, Idle, JobType
<1>7. AyoPut \/ AyoRefresh \/ AyoDrop \/ AyoSkip => Done /\ job.rest # <<>>
  BY DEF AyoPut, AyoRefresh, AyoDrop, AyoSkip, Working
<1> QED BY <1>2, <1>3, <1>4, <1>5, <1>6, <1>7 DEF Ayo

(***************************************************************************)
(* intent_table grows up to its limit.                                     *)
(***************************************************************************)
LEMMA IntentsStay ==
  ASSUME FormsInv, RestTyped, SystemCall
  PROVE  intents' \in Seq(IntentType) /\ Len(intents') <= MAX_INTENTS
<1>0. intents \in Seq(IntentType) /\ Len(intents) <= MAX_INTENTS /\ MAX_INTENTS \in Nat
  BY FormsAssumption DEF RestTyped
<1>1. ASSUME NEW type \in Writers \cup {"CONSUME", "OBSERVE"}, NEW i \in Nat, MayCreate(type),
             intents' = Intent(type, i)
      PROVE  intents' \in Seq(IntentType) /\ Len(intents') <= MAX_INTENTS
  <2> DEFINE r == [type |-> type, target |-> IF type \in Writers THEN i ELSE 0]
  <2>1. r \in IntentType BY DEF IntentType
  <2>2. intents' = Append(intents, r) BY <1>1 DEF Intent
  <2> HIDE DEF r
  <2>3. Len(intents) < MAX_INTENTS BY <1>1 DEF MayCreate
  <2> QED BY <1>0, <2>1, <2>2, <2>3
<1>2. Index \subseteq Nat /\ form_count \in Nat BY DEF Index, FormsInv
<1>3. ASSUME NEW n, NEW type \in {"CONSUME", "PRODUCE"}, OpenForm(n, type) \/ OpenCreate(n, type)
      PROVE  intents' \in Seq(IntentType) /\ Len(intents') <= MAX_INTENTS
  <2>0. type \in Writers \cup {"CONSUME", "OBSERVE"} BY DEF Writers
  <2>1. CASE OpenForm(n, type)
    <3>1. PICK i \in find_form(n) : intents' = Intent(type, i) BY <2>1 DEF OpenForm
    <3>2. i \in Nat BY <1>2, FoundIsIndex
    <3> QED BY <1>1, <2>0, <2>1, <3>1, <3>2 DEF OpenForm
  <2>2. CASE OpenCreate(n, type) BY <1>0, <1>1, <1>2, <2>0, <2>2 DEF OpenCreate
  <2> QED BY <1>3, <2>1, <2>2
<1>4. ASSUME NEW type \in Writers \cup {"CONSUME", "OBSERVE"}, NEW i \in Index, SysIntent(type, i)
      PROVE  intents' \in Seq(IntentType) /\ Len(intents') <= MAX_INTENTS
  BY <1>1, <1>2, <1>4 DEF SysIntent
<1>5. ASSUME NEW k, NEW len, Fulfill(k, len) PROVE intents' = intents
  BY <1>5 DEF Fulfill, programs
<1>6. ASSUME NEW n, NEW len, WriteNamed(n, len)
      PROVE  intents' \in Seq(IntentType) /\ Len(intents') <= MAX_INTENTS
  <2>1. PICK i \in find_form(n) : intents' = Intent("PRODUCE", i) BY <1>6 DEF WriteNamed
  <2>2. i \in Nat /\ MayCreate("PRODUCE") BY <1>2, <1>6, FoundIsIndex DEF WriteNamed
  <2>3. "PRODUCE" \in Writers \cup {"CONSUME", "OBSERVE"} BY DEF Writers
  <2> QED BY <1>1, <2>1, <2>2, <2>3
<1> QED BY <1>0, <1>3, <1>4, <1>5, <1>6 DEF SystemCall, sys_open

(***************************************************************************)
(* Every action is a step, and only those of ayo change the job and only   *)
(* system calls the intents.                                               *)
(***************************************************************************)
LEMMA StepKeeps ==
  ASSUME Next
  PROVE  /\ Step
         /\ job' = job \/ Ayo
         /\ intents' = intents \/ SystemCall
  BY DEF Next, FormCommand, Ayo, SystemCall, MkForm, Delete, HexpackAgain, HexpackNew,
         HexpackFails, Write, AppendText, Edit, Move, Copy, MakeDim, Resave, AyoAdd, AyoRemove,
         AyoUpdate, AyoPut, AyoRefresh, AyoDrop, AyoSkip, AyoSave, GrantCap, OpenForm,
         OpenCreate, SysIntent, Fulfill, WriteNamed, sys_open, Shell, Working, programs

(***************************************************************************)
(* The job, the intents and the count of steps keep their types.           *)
(***************************************************************************)
LEMMA RestStays ==
  ASSUME FormsInv, RestTyped, Next
  PROVE  RestTyped'
<1>1. job' \in JobType BY StepKeeps, JobStays DEF RestTyped
<1>2. intents' \in Seq(IntentType) /\ Len(intents') <= MAX_INTENTS
  BY StepKeeps, IntentsStay DEF RestTyped
<1>3. steps' \in 0 .. MaxSteps BY StepKeeps, FormsAssumption DEF Step, RestTyped
<1> QED BY <1>1, <1>2, <1>3 DEF RestTyped

(***************************************************************************)
(* As long as every save has ended its transaction: no transaction is      *)
(* active between commands, nothing is granted and no intent can write.    *)
(***************************************************************************)
FlagsTyped == granted \in BOOLEAN /\ tx \in BOOLEAN /\ ioerr \in BOOLEAN

ReadOnly ==
  ~ioerr => /\ ~tx /\ ~granted /\ fault # "fulfill"
            /\ \A k \in 1 .. Len(intents) : intents[k].type = "CONSUME"

(***************************************************************************)
(* tx and ioerr change only in a save, granted only inside a transaction.  *)
(***************************************************************************)
LEMMA FlagsStep ==
  ASSUME Next
  PROVE  /\ Save \/ UNCHANGED commit
         /\ granted' = granted \/ (tx /\ granted' = TRUE)
<1>1. \/ Save \/ UNCHANGED commit
  BY DEF Next, FormCommand, Ayo, SystemCall, MkForm, Delete, HexpackAgain, HexpackNew,
         HexpackFails, Write, AppendText, Edit, Move, Copy, MakeDim, Resave, AyoAdd, AyoRemove,
         AyoUpdate, AyoPut, AyoRefresh, AyoDrop, AyoSkip, AyoSave, GrantCap, OpenForm,
         OpenCreate, SysIntent, Fulfill, WriteNamed, sys_open
<1>2. granted' = granted \/ (tx /\ granted' = TRUE)
  BY Zenon
     DEF Next, FormCommand, Ayo, SystemCall, MkForm, Delete, HexpackAgain, HexpackNew,
         HexpackFails, Write, AppendText, Edit, Move, Copy, MakeDim, Resave, AyoAdd, AyoRemove,
         AyoUpdate, AyoPut, AyoRefresh, AyoDrop, AyoSkip, AyoSave, GrantCap, OpenForm,
         OpenCreate, SysIntent, Fulfill, WriteNamed, sys_open, programs, hexafs_cap_grant
<1> QED BY <1>1, <1>2

(***************************************************************************)
(* Only a program that holds, or may make, an intent to write goes astray  *)
(* in fulfill.                                                             *)
(***************************************************************************)
LEMMA FulfillNeedsIntent ==
  ASSUME Next, fault' = "fulfill"
  PROVE  granted \/ \E k \in 1 .. Len(intents) : intents[k].type \in Writers
<1>1. fault = "none" BY StepKeeps DEF Step
<1>2. ASSUME NEW cmd, cmd # "fulfill", NEW i, NEW needed, NEW n, NEW name, NEW size,
             Store(cmd, i, needed, n, name, size)
      PROVE  fault' # "fulfill"
  BY <1>1, <1>2 DEF Store
<1>3. ASSUME NEW n, cmd_mkform(n) PROVE fault' # "fulfill" BY <1>1, <1>3 DEF cmd_mkform
<1>4. CASE FormCommand
  <2>1. ASSUME NEW n, MkForm(n) PROVE fault' # "fulfill" BY <1>3, <2>1 DEF MkForm
  <2>2. ASSUME NEW n, Delete(n) PROVE fault' # "fulfill" BY <1>1, <2>2 DEF Delete
  <2>3. ASSUME NEW n, HexpackAgain(n) \/ HexpackNew(n) \/ HexpackFails(n) PROVE fault' # "fulfill"
    BY <1>1, <2>3 DEF HexpackAgain, HexpackNew, HexpackFails
  <2>4. ASSUME NEW n, NEW len, Write(n, len) \/ AppendText(n, len) \/ Edit(n, len)
        PROVE  fault' # "fulfill"
    BY <1>2, <2>4 DEF Write, AppendText, Edit
  <2>5. ASSUME NEW n, NEW dst, Move(n, dst) PROVE fault' # "fulfill" BY <1>1, <2>5 DEF Move
  <2>6. ASSUME NEW n, NEW dst, Copy(n, dst) \/ MakeDim(n) PROVE fault' # "fulfill"
    BY <1>2, <2>6 DEF Copy, MakeDim
  <2>7. CASE Resave BY <1>1, <2>7 DEF Resave
  <2> QED BY <1>4, <2>1, <2>2, <2>3, <2>4, <2>5, <2>6, <2>7 DEF FormCommand
<1>5. CASE Ayo
  <2>1. CASE AyoAdd \/ AyoPut \/ AyoRefresh BY <1>2, <2>1 DEF AyoAdd, AyoPut, AyoRefresh
  <2>2. CASE AyoRemove \/ AyoUpdate \/ AyoDrop \/ AyoSkip \/ AyoSave
    BY <1>1, <2>2 DEF AyoRemove, AyoUpdate, AyoDrop, AyoSkip, AyoSave
  <2> QED BY <1>5, <2>1, <2>2 DEF Ayo
<1>6. CASE GrantCap \/ SystemCall
  <2>1. CASE GrantCap BY <1>1, <2>1 DEF GrantCap
  <2>2. ASSUME NEW n, NEW type, OpenForm(n, type) PROVE fault' # "fulfill"
    BY <1>1, <2>2 DEF OpenForm
  <2>3. ASSUME NEW n, NEW type, OpenCreate(n, type) PROVE fault' # "fulfill"
    BY <1>3, <2>3 DEF OpenCreate
  <2>4. ASSUME NEW i, NEW type, SysIntent(type, i) PROVE fault' # "fulfill"
    BY <1>1, <2>4 DEF SysIntent
  <2>5. ASSUME NEW k, NEW len, Fulfill(k, len) PROVE intents[k].type \in Writers
    BY <2>5 DEF Fulfill
  <2>6. ASSUME NEW n, NEW len, WriteNamed(n, len) PROVE granted
    BY <2>6 DEF WriteNamed, MayCreate, Writers
  <2> QED BY <1>6, <2>1, <2>2, <2>3, <2>4, <2>5, <2>6 DEF SystemCall, sys_open
<1> QED BY <1>4, <1>5, <1>6 DEF Next

(***************************************************************************)
(* The flags stay flags.                                                   *)
(***************************************************************************)
LEMMA FlagsStay ==
  ASSUME FlagsTyped, Next
  PROVE  FlagsTyped'
<1>1. granted' \in BOOLEAN BY FlagsStep, Zenon DEF FlagsTyped
<1>2. tx' \in BOOLEAN /\ ioerr' \in BOOLEAN BY FlagsStep, Zenon DEF FlagsTyped, Save, commit
<1> QED BY <1>1, <1>2, Zenon DEF FlagsTyped

(***************************************************************************)
(* A new intent writes or observes only if something is granted.           *)
(***************************************************************************)
LEMMA IntentsReadOnly ==
  ASSUME RestTyped, ~granted, \A k \in 1 .. Len(intents) : intents[k].type = "CONSUME", SystemCall
  PROVE  \A k \in 1 .. Len(intents') : intents'[k].type = "CONSUME"
<1>0. intents \in Seq(IntentType) BY DEF RestTyped
<1>1. ASSUME NEW i, intents' = Intent("CONSUME", i)
      PROVE  \A k \in 1 .. Len(intents') : intents'[k].type = "CONSUME"
  <2> DEFINE r == [type |-> "CONSUME", target |-> IF "CONSUME" \in Writers THEN i ELSE 0]
  <2>1. r.type = "CONSUME" /\ intents' = Append(intents, r) BY <1>1 DEF Intent
  <2>2. r \in IntentType BY DEF IntentType, Writers
  <2> HIDE DEF r
  <2> QED BY <1>0, <2>1, <2>2
<1>2. ASSUME NEW type \in Writers \cup {"CONSUME", "OBSERVE"}, NEW i, SysIntent(type, i)
      PROVE  type = "CONSUME" /\ intents' = Intent("CONSUME", i)
  BY <1>2 DEF SysIntent, MayCreate
<1>3. ASSUME NEW n, NEW type \in {"CONSUME", "PRODUCE"}, OpenForm(n, type)
      PROVE  \E i : intents' = Intent("CONSUME", i)
  BY <1>3 DEF OpenForm, MayCreate, Writers
<1>4. ASSUME NEW n, NEW type \in {"CONSUME", "PRODUCE"}, OpenCreate(n, type)
      PROVE  intents' = intents \/ \E i : intents' = Intent("CONSUME", i)
  BY <1>4 DEF OpenCreate, MayCreate, Writers
<1>5. ASSUME NEW k, NEW len, Fulfill(k, len) PROVE intents' = intents
  BY <1>5 DEF Fulfill, programs
<1>5a. ASSUME NEW n, NEW len, WriteNamed(n, len) PROVE granted
  BY <1>5a DEF WriteNamed, MayCreate, Writers
<1>6. intents' = intents \/ \E i : intents' = Intent("CONSUME", i)
  BY <1>2, <1>3, <1>4, <1>5, <1>5a DEF SystemCall, sys_open
<1> QED BY <1>1, <1>6

(***************************************************************************)
(* Without a failed save no step grants anything or makes a writer.        *)
(***************************************************************************)
LEMMA ReadOnlyStays ==
  ASSUME RestTyped, ReadOnly, Next
  PROVE  ReadOnly'
<1> SUFFICES ASSUME ~ioerr'
             PROVE  /\ ~tx' /\ ~granted' /\ fault' # "fulfill"
                    /\ \A k \in 1 .. Len(intents') : intents'[k].type = "CONSUME"
  BY DEF ReadOnly
<1>1. ~ioerr /\ ~tx'
  <2>1. CASE Save BY <2>1, Zenon DEF Save
  <2>2. CASE UNCHANGED commit BY <2>2, Zenon DEF commit, ReadOnly
  <2> QED BY <2>1, <2>2, FlagsStep
<1>2. /\ ~tx /\ ~granted /\ \A k \in 1 .. Len(intents) : intents[k].type = "CONSUME"
  BY <1>1, Zenon DEF ReadOnly
<1>3. ~granted' BY <1>2, FlagsStep, Zenon
<1>4. fault' # "fulfill" BY <1>2, FulfillNeedsIntent DEF Writers
<1>5. \A k \in 1 .. Len(intents') : intents'[k].type = "CONSUME"
  <2>1. CASE SystemCall BY <1>2, <2>1, IntentsReadOnly
  <2>2. CASE intents' = intents BY <1>2, <2>2
  <2> QED BY <2>1, <2>2, StepKeeps
<1> QED BY <1>1, <1>3, <1>4, <1>5

-----------------------------------------------------------------------------
(***************************************************************************)
(* Ownership of buffers.  The invariant joins BuffersOwned, NoLeak and     *)
(* SafeCommands: NoLeak is what makes a buffer found behind the last form, *)
(* in use and no form's, one that was let go.                              *)
(***************************************************************************)
OwnInv == FormsInv /\ TableTyped /\ BuffersOwned /\ NoLeak

\* What the buffer of a form is like: the parts of BuffersOwned for one entry.
Good(h, d, e) ==
  /\ Allocated(h, e.content)
  /\ e.size <= Bytes(h, e.content)
  /\ e.cap <= Bytes(h, e.content) \/ e.content \in d

(***************************************************************************)
(* BuffersOwned and NoLeak said with pointers instead of blocks.           *)
(***************************************************************************)
LEMMA OwnFacts ==
  ASSUME OwnInv, fault = "none"
  PROVE  /\ form_count \in 0 .. MAX_FORMS /\ MAX_FORMS \in Nat /\ WellFormed(heap)
         /\ Live \subseteq Index /\ form_table \in [Index -> FormType]
         /\ \A j \in Index : form_table[j].content \in Nat
         /\ \A j \in Live : form_table[j].content # NULL =>
              /\ Good(heap, dropped, form_table[j])
              /\ \A k \in Live \ {j} : form_table[k].content # form_table[j].content
         /\ \A p \in Nat : Allocated(heap, p) =>
              p \in dropped \/ \E j \in Live : form_table[j].content = p
<1>1. form_count \in 0 .. MAX_FORMS /\ MAX_FORMS \in Nat /\ WellFormed(heap)
  BY FormsAssumption DEF OwnInv, FormsInv
<1>2. Live \subseteq Index BY <1>1 DEF Live, Index
<1>3. form_table \in [Index -> FormType] BY DEF OwnInv, TableTyped
<1>4. \A j \in Index : form_table[j].content \in Nat BY <1>3 DEF FormType
<1>5. \A j \in Live : form_table[j].content # NULL =>
         /\ Good(heap, dropped, form_table[j])
         /\ \A k \in Live \ {j} : form_table[k].content # form_table[j].content
  BY DEF OwnInv, BuffersOwned, Good, Mine, Sole, Adopted
<1>6. ASSUME NEW p \in Nat, Allocated(heap, p)
      PROVE  p \in dropped \/ \E j \in Live : form_table[j].content = p
  <2>1. p - HDR \in DOMAIN heap /\ ~heap[p - HDR].free BY <1>6 DEF Allocated
  <2>2. (p - HDR) + HDR = p BY DEF HDR
  <2>3. p \in {form_table[i].content : i \in Live} \cup dropped BY <2>1, <2>2 DEF OwnInv, NoLeak
  <2> QED BY <2>3
<1> QED BY <1>1, <1>2, <1>3, <1>4, <1>5, <1>6

(***************************************************************************)
(* NoLeak in the next state, from what is said of pointers.                *)
(***************************************************************************)
LEMMA LeakFacts ==
  ASSUME WellFormed(heap'),
         \A p \in Nat : Allocated(heap', p) =>
           p \in dropped' \/ \E j \in Live' : form_table'[j].content = p
  PROVE  NoLeak'
<1>1. ASSUME NEW b \in DOMAIN heap', ~heap'[b].free
      PROVE  b + HDR \in {form_table'[i].content : i \in Live'} \cup dropped'
  <2>1. b \in Nat BY BlockFacts DEF WellFormed
  <2>2. b + HDR \in Nat /\ (b + HDR) - HDR = b BY <2>1 DEF HDR
  <2>3. Allocated(heap', b + HDR) BY <1>1, <2>2 DEF Allocated
  <2> QED BY <2>2, <2>3
<1> QED BY <1>1 DEF NoLeak

(***************************************************************************)
(* Entry i becomes e: the buffers of the other forms must stay, e must own *)
(* its buffer, and the buffer that entry i had must be freed or kept.      *)
(***************************************************************************)
LEMMA EntryOwned ==
  ASSUME OwnInv, fault = "none", NEW i \in Index, i <= form_count, NEW e \in FormType,
         form_table' = [form_table EXCEPT ![i] = e],
         form_count' = IF i = form_count THEN form_count + 1 ELSE form_count,
         dropped' = dropped, WellFormed(heap'),
         \A j \in Live \ {i} : form_table[j].content # NULL =>
           /\ Allocated(heap', form_table[j].content)
           /\ Bytes(heap', form_table[j].content) = Bytes(heap, form_table[j].content),
         e.content # NULL =>
           /\ Good(heap', dropped, e)
           /\ \A j \in Live \ {i} : form_table[j].content # e.content,
         \A p \in Nat : Allocated(heap', p) =>
           \/ p = e.content
           \/ Allocated(heap, p) /\ (i = form_count \/ p # form_table[i].content)
  PROVE  BuffersOwned' /\ NoLeak'
<1>0. /\ form_count \in 0 .. MAX_FORMS /\ MAX_FORMS \in Nat
      /\ Live \subseteq Index /\ form_table \in [Index -> FormType]
      /\ \A j \in Live : form_table[j].content # NULL =>
           /\ Good(heap, dropped, form_table[j])
           /\ \A k \in Live \ {j} : form_table[k].content # form_table[j].content
      /\ \A p \in Nat : Allocated(heap, p) =>
           p \in dropped \/ \E j \in Live : form_table[j].content = p
  BY OwnFacts
<1>1. Live' = Live \cup {i}
  <2>1. Live' = 0 .. form_count' - 1 BY DEF Live
  <2>2. i \in Nat BY DEF Index
  <2> QED BY <1>0, <2>1, <2>2 DEF Live
<1>2. /\ form_table'[i] = e
      /\ \A j \in Live \ {i} : form_table'[j] = form_table[j]
  BY <1>0
<1>3. ASSUME NEW j \in Live', form_table'[j].content # NULL
      PROVE  /\ Good(heap', dropped', form_table'[j])
             /\ \A k \in Live' \ {j} : form_table'[k].content # form_table'[j].content
  <2>1. CASE j = i BY <1>1, <1>2, <1>3, <2>1 DEF Good
  <2>2. CASE j # i
    <3>1. j \in Live \ {i} /\ form_table'[j] = form_table[j] BY <1>1, <1>2, <2>2
    <3>2. Good(heap', dropped, form_table[j]) BY <1>0, <1>3, <3>1 DEF Good
    <3>3. e.content # form_table[j].content BY <1>3, <3>1
    <3> QED BY <1>0, <1>1, <1>2, <1>3, <3>1, <3>2, <3>3 DEF Good
  <2> QED BY <2>1, <2>2
<1>4. BuffersOwned' BY <1>3 DEF BuffersOwned, Good, Mine, Sole, Adopted
<1>5. ASSUME NEW p \in Nat, Allocated(heap', p)
      PROVE  p \in dropped' \/ \E j \in Live' : form_table'[j].content = p
  <2>1. CASE p = e.content BY <1>1, <1>2, <2>1
  <2>2. CASE Allocated(heap, p) /\ (i = form_count \/ p # form_table[i].content)
    <3>1. CASE p \in dropped BY <3>1
    <3>2. CASE \E j \in Live : form_table[j].content = p
      <4>1. PICK j \in Live : form_table[j].content = p BY <3>2
      <4>2. j # i BY <1>0, <2>2, <4>1 DEF Live
      <4> QED BY <1>1, <1>2, <4>1, <4>2
    <3> QED BY <1>0, <2>2, <3>1, <3>2
  <2> QED BY <1>5, <2>1, <2>2
<1>6. NoLeak' BY <1>5, LeakFacts
<1> QED BY <1>4, <1>6

(***************************************************************************)
(* Form i goes and the following ones move down.                           *)
(***************************************************************************)
LEMMA ShiftOwned ==
  ASSUME OwnInv, fault = "none", NEW i \in Live,
         form_table' = Shifted(i), form_count' = form_count - 1,
         dropped \subseteq dropped', WellFormed(heap'),
         \A j \in Live \ {i} : form_table[j].content # NULL =>
           /\ Allocated(heap', form_table[j].content)
           /\ Bytes(heap', form_table[j].content) = Bytes(heap, form_table[j].content),
         \A p \in Nat : Allocated(heap', p) =>
           Allocated(heap, p) /\ (p \in dropped' \/ p # form_table[i].content)
  PROVE  BuffersOwned' /\ NoLeak'
<1> DEFINE from(k) == IF i <= k THEN k + 1 ELSE k
<1>0. /\ form_count \in 0 .. MAX_FORMS /\ MAX_FORMS \in Nat
      /\ Live \subseteq Index /\ form_table \in [Index -> FormType]
      /\ \A j \in Live : form_table[j].content # NULL =>
           /\ Good(heap, dropped, form_table[j])
           /\ \A k \in Live \ {j} : form_table[k].content # form_table[j].content
      /\ \A p \in Nat : Allocated(heap, p) =>
           p \in dropped \/ \E j \in Live : form_table[j].content = p
  BY OwnFacts
<1>1. Live' = 0 .. form_count - 2 BY <1>0 DEF Live
<1>2. \A k \in Live' : from(k) \in Live \ {i} BY <1>0, <1>1 DEF Live
<1>3. \A k \in Live' : form_table'[k] = form_table[from(k)]
  <2>1. ASSUME NEW k \in Live' PROVE k \in Index /\ k < form_count - 1
    BY <1>0, <1>1 DEF Index
  <2> QED BY <2>1 DEF Shifted
<1>4. \A k, l \in Live' : k # l => from(k) # from(l) BY <1>0, <1>1 DEF Live
<1>5. \A j \in Live \ {i} : \E k \in Live' : j = from(k)
  <2>1. ASSUME NEW j \in Live \ {i} PROVE \E k \in Live' : j = from(k)
    <3>1. CASE j < i
      <4>1. j \in Live' /\ j = from(j) BY <1>0, <1>1, <3>1 DEF Live
      <4> QED BY <4>1
    <3>2. CASE j > i
      <4>1. j - 1 \in Live' /\ j = from(j - 1) BY <1>0, <1>1, <3>2 DEF Live
      <4> QED BY <4>1
    <3> QED BY <1>0, <3>1, <3>2 DEF Live
  <2> QED BY <2>1
<1> HIDE DEF from
<1>6. ASSUME NEW j \in Live', form_table'[j].content # NULL
      PROVE  /\ Good(heap', dropped', form_table'[j])
             /\ \A k \in Live' \ {j} : form_table'[k].content # form_table'[j].content
  <2>1. from(j) \in Live \ {i} /\ form_table'[j] = form_table[from(j)] BY <1>2, <1>3
  <2>2. Good(heap', dropped', form_table'[j]) BY <1>0, <1>6, <2>1 DEF Good
  <2>3. ASSUME NEW k \in Live' \ {j} PROVE form_table'[k].content # form_table'[j].content
    <3>1. from(k) \in Live /\ from(k) # from(j) /\ form_table'[k] = form_table[from(k)]
      BY <1>2, <1>3, <1>4
    <3> QED BY <1>0, <1>6, <2>1, <3>1
  <2> QED BY <2>2, <2>3
<1>7. BuffersOwned' BY <1>6 DEF BuffersOwned, Good, Mine, Sole, Adopted
<1>8. ASSUME NEW p \in Nat, Allocated(heap', p)
      PROVE  p \in dropped' \/ \E j \in Live' : form_table'[j].content = p
  <2>1. CASE p \in dropped' BY <2>1
  <2>2. CASE p \notin dropped'
    <3>1. PICK j \in Live : form_table[j].content = p BY <1>0, <1>8, <2>2
    <3>2. j # i BY <1>8, <2>2, <3>1
    <3> QED BY <1>3, <1>5, <3>1, <3>2
  <2> QED BY <2>1, <2>2
<1>9. NoLeak' BY <1>8, LeakFacts
<1> QED BY <1>7, <1>9

(***************************************************************************)
(* What form_ensure_cap leaves when it grows the buffer of entry i.        *)
(***************************************************************************)
LEMMA Grown ==
  ASSUME OwnInv, NEW i \in Index, NEW needed \in Nat, ~Keeps(form_table[i], needed),
         ~FreesForeign(i, needed)
  PROVE  LET c == form_table[i].content
             e == cap_entry(form_table[i], needed)
             k == cap_heap(form_table[i], needed)
         IN  /\ WellFormed(k) /\ e.content \in Nat /\ e.content # c /\ e.content # NULL
             /\ e.cap = needed + GROWTH
             /\ ~Allocated(heap, e.content) /\ Allocated(k, e.content)
             /\ Bytes(k, e.content) >= needed + GROWTH
             /\ \A p \in Nat : Allocated(heap, p) /\ p # c =>
                  Allocated(k, p) /\ Bytes(k, p) = Bytes(heap, p)
             /\ \A p \in Nat : Allocated(k, p) => p = e.content \/ (Allocated(heap, p) /\ p # c)
<1> DEFINE n == needed + GROWTH
           c == form_table[i].content
<1>1. n \in Nat /\ c \in Nat /\ WellFormed(heap)
  BY FormsAssumption DEF OwnInv, TableTyped, FormType, FormsInv
<1>2. kmalloc(heap, n) # NULL BY DEF Keeps
<1>3. c = NULL \/ Allocated(heap, c) BY DEF FreesForeign, Mine
<1>4. cap_entry(form_table[i], needed) = Form(form_table[i].name, kmalloc(heap, n), form_table[i].size, n)
  BY DEF cap_entry
<1>5. /\ cap_entry(form_table[i], needed).content = kmalloc(heap, n)
      /\ cap_entry(form_table[i], needed).cap = n
  BY <1>4 DEF Form
<1>6. cap_heap(form_table[i], needed) = kfree(Kmalloced(heap, n), c) BY DEF cap_heap
<1> HIDE DEF n, c
<1> QED BY <1>1, <1>2, <1>3, <1>5, <1>6, ReplaceBuffer DEF n, c

(***************************************************************************)
(* What commands and system calls do to an entry keeps ownership.  The     *)
(* size that is set is covered by the bytes written, except that fulfill   *)
(* may leave it as it was.                                                 *)
(***************************************************************************)
LEMMA StoreOwned ==
  ASSUME OwnInv, fault = "none", NEW cmd, cmd # "none", NEW i \in Index, i <= form_count,
         NEW needed \in Nat, NEW n \in Nat, NEW name \in FormNames, NEW size \in Nat,
         Store(cmd, i, needed, n, name, size), dropped' = dropped,
         size <= n \/ (i < form_count /\ needed = 0 /\ size <= form_table[i].size)
  PROVE  BuffersOwned' /\ NoLeak'
<1> DEFINE c == form_table[i].content
           x == cap_entry(form_table[i], needed)
           k == cap_heap(form_table[i], needed)
           e == Form(name, x.content, size, x.cap)
<1>0. /\ form_count \in 0 .. MAX_FORMS /\ MAX_FORMS \in Nat /\ WellFormed(heap)
      /\ Live \subseteq Index /\ form_table \in [Index -> FormType]
      /\ \A j \in Index : form_table[j].content \in Nat
      /\ \A j \in Live : form_table[j].content # NULL =>
           /\ Good(heap, dropped, form_table[j])
           /\ \A l \in Live \ {j} : form_table[l].content # form_table[j].content
      /\ \A p \in Nat : Allocated(heap, p) =>
           p \in dropped \/ \E j \in Live : form_table[j].content = p
  BY OwnFacts
<1>1. CASE FreesForeign(i, needed) \/ Overruns(i, x, k, n)
  <2>1. fault' # "none" BY <1>1 DEF Store
  <2> QED BY <2>1 DEF BuffersOwned, NoLeak
<1>2. CASE ~(FreesForeign(i, needed) \/ Overruns(i, x, k, n))
  <2>1. /\ heap' = k
        /\ form_table' = [form_table EXCEPT ![i] = e]
        /\ form_count' = IF i = form_count THEN form_count + 1 ELSE form_count
    BY <1>2 DEF Store
  <2>2. x.content \in Nat /\ x.cap \in Nat
    <3>1. FormsInv /\ form_table[i] \in FormType BY <1>0 DEF OwnInv
    <3> QED BY <3>1, CapTyped
  <2>3. e \in FormType /\ e.content = x.content /\ e.size = size /\ e.cap = x.cap
    BY <2>2 DEF Form, FormType
  <2>4. x.content # NULL =>
          /\ Allocated(k, x.content) /\ n <= Bytes(k, x.content)
          /\ x.content # c \/ Sole(i)
    <3> HIDE DEF x, k
    <3>1. ASSUME x.content # NULL, Allocated(k, x.content) PROVE Bytes(k, x.content) \in Nat
      <4>1. WellFormed(k) BY <1>2, CapWellFormed DEF k, OwnInv
      <4> QED BY <3>1, <4>1, BlockFacts DEF WellFormed, Allocated, Bytes
    <3> QED BY <1>2, <3>1 DEF Overruns
  <2>5. WellFormed(k) BY <1>2, CapWellFormed DEF OwnInv
  <2> HIDE DEF e
  <2>6. CASE Keeps(form_table[i], needed)
    <3>1. x = form_table[i] /\ k = heap BY <2>6 DEF cap_entry, cap_heap
    <3> HIDE DEF x, k
    <3>2. ASSUME c # NULL
          PROVE  /\ Good(heap, dropped, e)
                 /\ \A j \in Live \ {i} : form_table[j].content # c
      <4>1. Sole(i) /\ Allocated(heap, c) /\ n <= Bytes(heap, c) BY <2>4, <3>1, <3>2
      <4>2. \A j \in Live \ {i} : form_table[j].content # c BY <4>1 DEF Sole
      <4>3. Bytes(heap, c) \in Nat BY <1>0, <4>1, BlockFacts DEF WellFormed, Allocated, Bytes
      <4>4. CASE i \in Live
        <5>1. Good(heap, dropped, form_table[i]) BY <1>0, <3>2, <4>4
        <5>2. form_table[i].size \in Nat BY <1>0 DEF FormType
        <5>3. size <= Bytes(heap, c) BY <4>1, <4>3, <5>1, <5>2 DEF Good
        <5> QED BY <2>3, <3>1, <4>2, <5>1, <5>3 DEF Good
      <4>5. CASE i \notin Live
        <5>1. i = form_count BY <1>0, <4>5 DEF Live, Index
        <5>2. size <= Bytes(heap, c) BY <1>0, <4>1, <4>3, <5>1
        <5>3. c \in Nat /\ c \in dropped BY <1>0, <4>1, <4>2, <4>5
        <5> QED BY <2>3, <3>1, <4>1, <4>2, <5>2, <5>3 DEF Good
      <4> QED BY <4>4, <4>5
    <3>3. \A j \in Live \ {i} : form_table[j].content # NULL =>
            /\ Allocated(heap', form_table[j].content)
            /\ Bytes(heap', form_table[j].content) = Bytes(heap, form_table[j].content)
      BY <1>0, <2>1, <3>1 DEF Good
    <3>4. \A p \in Nat : Allocated(heap', p) =>
            \/ p = e.content
            \/ Allocated(heap, p) /\ (i = form_count \/ p # form_table[i].content)
      BY <2>1, <2>3, <3>1
    <3>5. e.content # NULL =>
            /\ Good(heap', dropped, e)
            /\ \A j \in Live \ {i} : form_table[j].content # e.content
      BY <2>1, <2>3, <3>1, <3>2
    <3> HIDE DEF c
    <3> QED BY <2>1, <2>3, <2>5, <3>3, <3>4, <3>5, EntryOwned
  <2>7. CASE ~Keeps(form_table[i], needed)
    <3>1. /\ x.content \in Nat /\ x.content # c /\ x.content # NULL
          /\ x.cap = needed + GROWTH /\ ~Allocated(heap, x.content)
          /\ Allocated(k, x.content) /\ Bytes(k, x.content) >= needed + GROWTH
          /\ \A p \in Nat : Allocated(heap, p) /\ p # c =>
               Allocated(k, p) /\ Bytes(k, p) = Bytes(heap, p)
          /\ \A p \in Nat : Allocated(k, p) => p = x.content \/ (Allocated(heap, p) /\ p # c)
      BY <1>2, <2>7, Grown
    <3> HIDE DEF x, k
    <3>2. Good(heap', dropped, e)
      <4>1. Bytes(k, x.content) \in Nat
        BY <2>5, <3>1, BlockFacts DEF WellFormed, Allocated, Bytes
      <4>2. size <= n
        <5>1. ~Enough(form_table[i], needed) BY <2>7 DEF Keeps
        <5>2. form_table[i].cap \in Nat BY <1>0 DEF FormType
        <5>3. needed # 0 BY <5>1, <5>2 DEF Enough
        <5> QED BY <5>3
      <4>3. size <= Bytes(k, x.content) BY <2>4, <3>1, <4>1, <4>2
      <4>4. x.cap <= Bytes(k, x.content) BY <2>2, <3>1, <4>1
      <4> QED BY <2>1, <2>3, <3>1, <4>3, <4>4 DEF Good
    <3>3. ASSUME NEW j \in Live \ {i}, form_table[j].content # NULL
          PROVE  Allocated(heap, form_table[j].content) /\ form_table[j].content # c
      <4>1. Allocated(heap, form_table[j].content) BY <1>0, <3>3 DEF Good
      <4>2. c = NULL \/ Sole(i) BY <1>2, <2>7 DEF FreesForeign, Mine
      <4> QED BY <3>3, <4>1, <4>2 DEF Sole
    <3>4. \A j \in Live \ {i} : form_table[j].content \in Nat BY <1>0
    <3>5. \A j \in Live \ {i} : form_table[j].content # NULL =>
            /\ Allocated(heap', form_table[j].content)
            /\ Bytes(heap', form_table[j].content) = Bytes(heap, form_table[j].content)
      BY <2>1, <3>1, <3>3, <3>4
    <3>6. \A j \in Live \ {i} : form_table[j].content # e.content BY <2>3, <3>1, <3>3
    <3>7. \A p \in Nat : Allocated(heap', p) =>
            \/ p = e.content
            \/ Allocated(heap, p) /\ (i = form_count \/ p # form_table[i].content)
      BY <2>1, <2>3, <3>1
    <3> HIDE DEF c
    <3> QED BY <2>1, <2>3, <2>5, <3>2, <3>5, <3>6, <3>7, EntryOwned
  <2> QED BY <2>6, <2>7
<1> QED BY <1>1, <1>2

(***************************************************************************)
(* write and append, which check form_ensure_cap and write no more than    *)
(* they ask for, go astray only in a buffer that is smaller than cap.      *)
(***************************************************************************)
LEMMA StoreSafe ==
  ASSUME OwnInv, fault = "none", NEW cmd \in {"write", "append"}, NEW i \in Live,
         NEW needed \in Nat, NEW name, NEW size, cap_ok(form_table[i], needed),
         Store(cmd, i, needed, needed, name, size), dropped' = dropped
  PROVE  SafeCommands'
<1> DEFINE c == form_table[i].content
           x == cap_entry(form_table[i], needed)
           k == cap_heap(form_table[i], needed)
<1>0. /\ i \in Index /\ form_table[i] \in FormType /\ GROWTH \in Nat
      /\ c # NULL => /\ Good(heap, dropped, form_table[i])
                     /\ \A j \in Live \ {i} : form_table[j].content # form_table[i].content
  BY OwnFacts, FormsAssumption
<1>1. c # NULL => Mine(i) BY <1>0 DEF Mine, Sole, Good
<1>2. ~FreesForeign(i, needed) BY <1>1 DEF FreesForeign
<1>3. CASE Overruns(i, x, k, needed)
  <2>1. fault' = cmd /\ UNCHANGED forms BY <1>3 DEF Store
  <2>2. Keeps(form_table[i], needed)
    <3>1. SUFFICES ASSUME ~Keeps(form_table[i], needed) PROVE FALSE OBVIOUS
    <3>2. /\ WellFormed(k) /\ x.content # c /\ Allocated(k, x.content)
          /\ Bytes(k, x.content) >= needed + GROWTH
      BY <1>0, <1>2, <3>1, Grown
    <3> HIDE DEF x, k
    <3>3. Bytes(k, x.content) \in Nat BY <3>2, BlockFacts DEF WellFormed, Allocated, Bytes
    <3> QED BY <1>0, <1>3, <3>2, <3>3 DEF Overruns
  <2>3. x = form_table[i] /\ k = heap BY <2>2 DEF cap_entry, cap_heap
  <2>4. needed <= form_table[i].cap BY <2>2 DEF Keeps, cap_ok, Enough
  <2> HIDE DEF x, k
  <2>5. c # NULL /\ ~(~Allocated(heap, c) \/ ~Sole(i)) /\ needed > Bytes(heap, c)
    BY <1>1, <1>3, <2>3 DEF Overruns, Mine
  <2>6. Bytes(heap, c) \in Nat
    BY <2>5, BlockFacts DEF OwnInv, FormsInv, WellFormed, Allocated, Bytes
  <2>7. form_table[i].cap \in Nat BY <1>0 DEF FormType
  <2>8. form_table[i].cap > Bytes(heap, c) BY <2>4, <2>5, <2>6, <2>7
  <2>9. Adopted(i) BY <1>0, <2>5, <2>6, <2>7, <2>8 DEF Good, Adopted
  <2>10. \E j \in Live' : Adopted(j)' /\ form_table'[j].cap > Bytes(heap', form_table'[j].content)
    BY <2>1, <2>8, <2>9 DEF forms, Live, Adopted
  <2>11. fault' \notin {"delete", "hexpack"} BY <2>1
  <2> QED BY <2>10, <2>11 DEF SafeCommands, Adopted
<1>4. CASE ~Overruns(i, x, k, needed)
  <2>1. fault' = "none" BY <1>2, <1>4 DEF Store
  <2> QED BY <2>1 DEF SafeCommands
<1> QED BY <1>3, <1>4

Owned == BuffersOwned /\ NoLeak /\ SafeCommands

(***************************************************************************)
(* The commands that reuse a stale entry or do not grow the buffer record  *)
(* a fault of their own.                                                   *)
(***************************************************************************)
LEMMA StoreOther ==
  ASSUME OwnInv, fault = "none", NEW cmd \in {"edit", "copy", "makedim", "ayo", "fulfill"},
         NEW i \in Index, i <= form_count, NEW needed \in Nat, NEW n \in Nat,
         NEW name \in FormNames, NEW size \in Nat,
         Store(cmd, i, needed, n, name, size), dropped' = dropped,
         size <= n \/ (i < form_count /\ needed = 0 /\ size <= form_table[i].size)
  PROVE  Owned'
<1>1. cmd # "none" OBVIOUS
<1>2. BuffersOwned' /\ NoLeak' BY <1>1, StoreOwned
<1>3. fault' \in {"none", cmd} BY DEF Store
<1>4. fault' \notin {"delete", "hexpack", "write", "append"} BY <1>3
<1> QED BY <1>2, <1>4 DEF Owned, SafeCommands

(***************************************************************************)
(* cmd_mkform gives the new form a fresh buffer.                           *)
(***************************************************************************)
LEMMA MkFormOwned ==
  ASSUME OwnInv, fault = "none", NEW n \in FormNames, cmd_mkform(n), dropped' = dropped
  PROVE  Owned'
<1> DEFINE p == kmalloc(heap, 1)
           e == Form(n, p, 0, 1)
<1>0. /\ form_count \in 0 .. MAX_FORMS /\ MAX_FORMS \in Nat /\ WellFormed(heap)
      /\ Live \subseteq Index /\ form_table \in [Index -> FormType]
      /\ \A j \in Index : form_table[j].content \in Nat
      /\ \A j \in Live : form_table[j].content # NULL => Good(heap, dropped, form_table[j])
      /\ \A q \in Nat : Allocated(heap, q) =>
           q \in dropped \/ \E j \in Live : form_table[j].content = q
  BY OwnFacts
<1>1. form_count \in Index /\ form_count <= form_count
  BY <1>0 DEF cmd_mkform, Index
<1>2. fault' = "none" /\ heap' = Kmalloced(heap, 1) BY DEF cmd_mkform
<1>3. WellFormed(heap') BY <1>0, <1>2, MallocWellFormed
<1>4. CASE p = NULL
  <2>1. heap' = heap BY <1>0, <1>2, <1>4, MallocNull
  <2>2. /\ form_count' = form_count
        /\ form_table' = [form_table EXCEPT ![form_count] =
             Form(n, NULL, form_table[form_count].size, form_table[form_count].cap)]
    BY <1>4 DEF cmd_mkform
  <2>3. Live' = Live /\ \A j \in Live : form_table'[j] = form_table[j]
    BY <1>0, <2>2 DEF Live
  <2>4. BuffersOwned'
    <3>1. BuffersOwned BY DEF OwnInv
    <3> QED BY <2>1, <2>3, <3>1 DEF BuffersOwned, Mine, Sole, Adopted
  <2>5. NoLeak' BY <1>0, <1>3, <2>1, <2>3, LeakFacts
  <2> QED BY <1>2, <2>4, <2>5 DEF Owned, SafeCommands
<1>5. CASE p # NULL
  <2>1. /\ form_table' = [form_table EXCEPT ![form_count] = e]
        /\ form_count' = IF form_count = form_count THEN form_count + 1 ELSE form_count
    BY <1>5 DEF cmd_mkform
  <2>2. /\ p \in Nat /\ ~Allocated(heap, p) /\ Allocated(heap', p) /\ Bytes(heap', p) >= 1
    BY <1>0, <1>2, <1>5, MallocFresh
  <2>3. Bytes(heap', p) \in Nat BY <1>3, <2>2, BlockFacts DEF WellFormed, Allocated, Bytes
  <2>4. e \in FormType /\ e.content = p /\ e.size = 0 /\ e.cap = 1
    BY <2>2 DEF Form, FormType
  <2>5. \A q : Allocated(heap, q) => Allocated(heap', q) /\ Bytes(heap', q) = Bytes(heap, q)
    BY <1>0, <1>2, MallocKeepsOthers
  <2>6. \A q \in Nat : Allocated(heap', q) => q = p \/ Allocated(heap, q)
    BY <1>0, <1>2, MallocOnlyAdds
  <2> HIDE DEF e, p
  <2>7. Good(heap', dropped, e) BY <2>2, <2>3, <2>4 DEF Good
  <2>8. \A j \in Live \ {form_count} : form_table[j].content # e.content
    <3>1. ASSUME NEW j \in Live \ {form_count}, form_table[j].content = p PROVE FALSE
      BY <1>0, <1>5, <2>2, <3>1 DEF Good
    <3> QED BY <2>4, <3>1
  <2>9. \A j \in Live \ {form_count} : form_table[j].content # NULL =>
          /\ Allocated(heap', form_table[j].content)
          /\ Bytes(heap', form_table[j].content) = Bytes(heap, form_table[j].content)
    BY <1>0, <2>5 DEF Good
  <2>10. \A q \in Nat : Allocated(heap', q) =>
           \/ q = e.content
           \/ Allocated(heap, q) /\ (form_count = form_count \/ q # form_table[form_count].content)
    BY <2>4, <2>6
  <2>11. BuffersOwned' /\ NoLeak'
    BY <1>1, <1>3, <2>1, <2>4, <2>7, <2>8, <2>9, <2>10, EntryOwned
  <2> QED BY <1>2, <2>11 DEF Owned, SafeCommands
<1> QED BY <1>4, <1>5

(***************************************************************************)
(* Commands that change neither forms nor what was let go.                 *)
(***************************************************************************)
LEMMA FormsKept ==
  ASSUME OwnInv, fault = "none", UNCHANGED <<forms, fault, dropped>>
  PROVE  Owned'
<1>1. UNCHANGED heap /\ UNCHANGED form_table /\ UNCHANGED form_count BY DEF forms
<1>2. Live' = Live BY <1>1 DEF Live
<1>3. BuffersOwned'
  <2>1. BuffersOwned BY DEF OwnInv
  <2> QED BY <1>1, <1>2, <2>1 DEF BuffersOwned, Mine, Sole, Adopted
<1>4. NoLeak'
  <2>1. NoLeak BY DEF OwnInv
  <2> QED BY <1>1, <1>2, <2>1 DEF NoLeak
<1> QED BY <1>3, <1>4 DEF Owned, SafeCommands

(***************************************************************************)
(* The commands of the shell other than hexpack.                           *)
(***************************************************************************)
LEMMA CommandOwned ==
  ASSUME OwnInv, fault = "none", FormCommand,
         ~\E n \in Names : HexpackAgain(n) \/ HexpackNew(n) \/ HexpackFails(n)
  PROVE  Owned'
<1>0. /\ Lengths \subseteq Nat /\ EditSizes \subseteq Nat /\ FormsInv
      /\ form_table \in [Index -> FormType]
      /\ Names \subseteq FormNames /\ DimNames \subseteq FormNames
  BY FormsAssumption DEF OwnInv, TableTyped, FormNames
<1>1. ASSUME NEW n \in Names, MkForm(n) PROVE Owned'
  BY <1>0, <1>1, MkFormOwned DEF MkForm
<1>2. ASSUME NEW n \in Names, Delete(n) PROVE Owned'
  <2>0. dropped' = dropped BY <1>2 DEF Delete
  <2>1. PICK i \in find_form(n) :
          IF form_table[i].content # NULL /\ ~Mine(i)
          THEN fault' = "delete" /\ UNCHANGED forms
          ELSE /\ heap' = kfree(heap, form_table[i].content)
               /\ form_table' = Shifted(i)
               /\ form_count' = form_count - 1
               /\ UNCHANGED fault
    BY <1>2 DEF Delete
  <2> DEFINE c == form_table[i].content
  <2>2. i \in Live BY DEF find_form
  <2>3. /\ WellFormed(heap) /\ \A j \in Live : form_table[j].content \in Nat
        /\ \A j \in Live : form_table[j].content # NULL =>
             /\ Good(heap, dropped, form_table[j])
             /\ \A k \in Live \ {j} : form_table[k].content # form_table[j].content
    BY OwnFacts
  <2>4. c # NULL => Allocated(heap, c) /\ Mine(i) BY <2>2, <2>3 DEF Good, Mine, Sole
  <2>5. /\ heap' = kfree(heap, c) /\ form_table' = Shifted(i) /\ form_count' = form_count - 1
        /\ fault' = "none"
    BY <2>1, <2>4
  <2>6. WellFormed(heap') BY <2>3, <2>4, <2>5, FreeWellFormed
  <2>7. c \in Nat BY <2>2, <2>3
  <2> HIDE DEF c
  <2>8. \A p \in Nat : /\ Allocated(heap', p) <=> Allocated(heap, p) /\ p # c
                       /\ Allocated(heap, p) /\ p # c => Bytes(heap', p) = Bytes(heap, p)
    <3>1. CASE c = NULL
      <4>1. heap' = heap BY <2>5, <3>1 DEF kfree
      <4> QED BY <2>3, <3>1, <4>1, NullNotAllocated
    <3>2. CASE c # NULL BY <2>3, <2>4, <2>5, <2>7, <3>2, FreeKeepsOthers
    <3> QED BY <3>1, <3>2
  <2>9. \A j \in Live \ {i} : form_table[j].content # NULL =>
          /\ Allocated(heap', form_table[j].content)
          /\ Bytes(heap', form_table[j].content) = Bytes(heap, form_table[j].content)
    <3>1. ASSUME NEW j \in Live \ {i}, form_table[j].content # NULL
          PROVE  Allocated(heap, form_table[j].content) /\ form_table[j].content # c
      BY <2>2, <2>3, <3>1 DEF Good, c
    <3> QED BY <2>3, <2>8, <3>1
  <2>10. \A p \in Nat : Allocated(heap', p) =>
           Allocated(heap, p) /\ (p \in dropped' \/ p # form_table[i].content)
    BY <2>8 DEF c
  <2>11. BuffersOwned' /\ NoLeak' BY <2>0, <2>2, <2>5, <2>6, <2>9, <2>10, ShiftOwned
  <2> QED BY <2>5, <2>11 DEF Owned, SafeCommands
<1>3. ASSUME NEW n \in Names, NEW len \in Lengths, Write(n, len) PROVE Owned'
  <2>1. PICK i \in find_form(n) : /\ cap_ok(form_table[i], len + 1)
                                  /\ Store("write", i, len + 1, len + 1, n, len)
    BY <1>3 DEF Write
  <2>2. dropped' = dropped BY <1>3 DEF Write
  <2>3. len \in Nat /\ len + 1 \in Nat /\ len <= len + 1 /\ n \in FormNames BY <1>0
  <2>4. i \in Index /\ i <= form_count /\ i \in Live BY <1>0, FoundIsIndex DEF find_form
  <2>5. BuffersOwned' /\ NoLeak' BY <2>1, <2>2, <2>3, <2>4, StoreOwned
  <2>6. SafeCommands' BY <2>1, <2>2, <2>3, <2>4, StoreSafe
  <2> QED BY <2>5, <2>6 DEF Owned
<1>4. ASSUME NEW n \in Names, NEW len \in Lengths, AppendText(n, len) PROVE Owned'
  <2>1. PICK i \in find_form(n) :
          /\ cap_ok(form_table[i], Appended(i, len) + 1)
          /\ Store("append", i, Appended(i, len) + 1, Appended(i, len) + 1, n, Appended(i, len))
    BY <1>4 DEF AppendText
  <2>2. dropped' = dropped BY <1>4 DEF AppendText
  <2>3. /\ Appended(i, len) \in Nat /\ Appended(i, len) + 1 \in Nat
        /\ Appended(i, len) <= Appended(i, len) + 1 /\ n \in FormNames
    BY <1>0, FoundIsIndex DEF Appended
  <2>4. i \in Index /\ i <= form_count /\ i \in Live BY <1>0, FoundIsIndex DEF find_form
  <2>5. BuffersOwned' /\ NoLeak' BY <2>1, <2>2, <2>3, <2>4, StoreOwned
  <2>6. SafeCommands' BY <2>1, <2>2, <2>3, <2>4, StoreSafe
  <2> QED BY <2>5, <2>6 DEF Owned
<1>5. ASSUME NEW n \in Names, NEW total \in EditSizes, Edit(n, total) PROVE Owned'
  <2> DEFINE w == IF total = 0 THEN 1 ELSE total
  <2>1. PICK i \in find_form(n) : Store("edit", i, 0, w, n, total) BY <1>5 DEF Edit
  <2>2. dropped' = dropped BY <1>5 DEF Edit
  <2>3. total \in Nat /\ w \in Nat /\ total <= w /\ n \in FormNames BY <1>0
  <2>4. i \in Index /\ i <= form_count BY <1>0, FoundIsIndex
  <2> HIDE DEF w
  <2> QED BY <2>1, <2>2, <2>3, <2>4, StoreOther
<1>6. ASSUME NEW n \in Names, NEW dst \in Names, Move(n, dst) PROVE Owned'
  <2>1. PICK i \in find_form(n) :
          form_table' = [form_table EXCEPT ![i] =
             Form(dst, form_table[i].content, form_table[i].size, form_table[i].cap)]
    BY <1>6 DEF Move
  <2> DEFINE e == Form(dst, form_table[i].content, form_table[i].size, form_table[i].cap)
  <2>2. i \in Index /\ i <= form_count /\ i \in Live BY <1>0, FoundIsIndex DEF find_form
  <2>3. heap' = heap /\ form_count' = form_count /\ dropped' = dropped /\ fault' = "none"
    BY <1>6 DEF Move
  <2>4. /\ e \in FormType /\ e.content = form_table[i].content /\ e.size = form_table[i].size
        /\ e.cap = form_table[i].cap
    BY <1>0, <2>2 DEF Form, FormType, FormNames
  <2>5. /\ WellFormed(heap)
        /\ \A j \in Live : form_table[j].content # NULL =>
             /\ Good(heap, dropped, form_table[j])
             /\ \A k \in Live \ {j} : form_table[k].content # form_table[j].content
    BY OwnFacts
  <2>6. i # form_count BY <1>0, <2>2 DEF Live, FormsInv
  <2> HIDE DEF e
  <2>7. e.content # NULL =>
          /\ Good(heap', dropped, e)
          /\ \A j \in Live \ {i} : form_table[j].content # e.content
    BY <2>2, <2>3, <2>4, <2>5 DEF Good
  <2>8. \A j \in Live \ {i} : form_table[j].content # NULL =>
          /\ Allocated(heap', form_table[j].content)
          /\ Bytes(heap', form_table[j].content) = Bytes(heap, form_table[j].content)
    BY <2>3, <2>5 DEF Good
  <2>9. \A p \in Nat : Allocated(heap', p) =>
          \/ p = e.content
          \/ Allocated(heap, p) /\ (i = form_count \/ p # form_table[i].content)
    BY <2>3, <2>4
  <2>10. form_count' = IF i = form_count THEN form_count + 1 ELSE form_count BY <2>3, <2>6
  <2>11. form_table' = [form_table EXCEPT ![i] = e] /\ WellFormed(heap')
    BY <2>1, <2>3, <2>5 DEF e
  <2>12. BuffersOwned' /\ NoLeak'
    BY <2>2, <2>3, <2>4, <2>7, <2>8, <2>9, <2>10, <2>11, EntryOwned
  <2> QED BY <2>3, <2>12 DEF Owned, SafeCommands
<1>7. ASSUME NEW n \in Names, NEW dst \in Names, Copy(n, dst) PROVE Owned'
  <2>1. PICK i \in find_form(n) :
          Store("copy", form_count, form_table[i].size, form_table[i].size, dst, form_table[i].size)
    BY <1>7 DEF Copy
  <2>2. dropped' = dropped BY <1>7 DEF Copy
  <2> DEFINE s == form_table[i].size
  <2>3. s \in Nat /\ s <= s /\ dst \in FormNames BY <1>0, FoundIsIndex
  <2>4. form_count \in Index /\ form_count <= form_count
    BY <1>0, <1>7, FormsAssumption DEF Copy, FormsInv, Index
  <2> HIDE DEF s
  <2> QED BY <2>1, <2>2, <2>3, <2>4, StoreOther DEF s
<1>8. ASSUME NEW d \in DimNames, MakeDim(d) PROVE Owned'
  <2>1. Store("makedim", form_count, 0, 1, d, 0) /\ d \in FormNames /\ dropped' = dropped
    BY <1>0, <1>8 DEF MakeDim
  <2>2. form_count \in Index /\ form_count <= form_count
    BY <1>0, <1>8, FormsAssumption DEF MakeDim, FormsInv, Index
  <2> QED BY <2>1, <2>2, StoreOther
<1>9. CASE Resave BY <1>9, FormsKept DEF Resave
<1> QED BY <1>1, <1>2, <1>3, <1>4, <1>5, <1>6, <1>7, <1>8, <1>9 DEF FormCommand

(***************************************************************************)
(* hexpack: the buffer it replaces is freed, the one it cannot place is    *)
(* recorded as let go.                                                     *)
(***************************************************************************)
LEMMA HexpackOwned ==
  ASSUME OwnInv, fault = "none", NEW n \in Names,
         HexpackAgain(n) \/ HexpackNew(n) \/ HexpackFails(n)
  PROVE  Owned'
<1>0. /\ form_count \in 0 .. MAX_FORMS /\ MAX_FORMS \in Nat /\ WellFormed(heap)
      /\ Live \subseteq Index /\ form_table \in [Index -> FormType]
      /\ \A j \in Index : form_table[j].content \in Nat
      /\ \A j \in Live : form_table[j].content # NULL =>
           /\ Good(heap, dropped, form_table[j])
           /\ \A k \in Live \ {j} : form_table[k].content # form_table[j].content
      /\ \A p \in Nat : Allocated(heap, p) =>
           p \in dropped \/ \E j \in Live : form_table[j].content = p
  BY OwnFacts
<1>1. ASSUME NEW i \in find_form(n), Packed(i) # NULL
      PROVE  /\ HexSize(i) \in Nat /\ HexSize(i) + 1 \in Nat /\ Packed(i) \in Nat
             /\ HexEntry(i) \in FormType /\ HexEntry(i).content = Packed(i)
             /\ HexEntry(i).size = HexSize(i) /\ HexEntry(i).cap = HexSize(i)
             /\ ~Allocated(heap, Packed(i))
  <2>1. HexSize(i) \in Nat /\ HexSize(i) + 1 \in Nat
    BY FoundIsIndex, FormsAssumption DEF HexSize, OwnInv
  <2>2. Packed(i) \in Nat /\ ~Allocated(heap, Packed(i))
    BY <1>0, <1>1, <2>1, MallocFresh DEF Packed
  <2> QED BY <2>1, <2>2 DEF HexEntry, Form, FormType, FormNames
\* What kmalloc alone does to the heap.
<1>2. ASSUME NEW i \in find_form(n), Packed(i) # NULL, heap' = Kmalloced(heap, HexSize(i) + 1)
      PROVE  /\ WellFormed(heap') /\ Allocated(heap', Packed(i))
             /\ Bytes(heap', Packed(i)) \in Nat /\ Bytes(heap', Packed(i)) >= HexSize(i) + 1
             /\ \A p : Allocated(heap, p) => Allocated(heap', p) /\ Bytes(heap', p) = Bytes(heap, p)
             /\ \A p \in Nat : Allocated(heap', p) => p = Packed(i) \/ Allocated(heap, p)
  <2>1. HexSize(i) + 1 \in Nat BY <1>1, <1>2
  <2>2. WellFormed(heap') BY <1>0, <1>2, <2>1, MallocWellFormed
  <2>3. Allocated(heap', Packed(i)) /\ Bytes(heap', Packed(i)) >= HexSize(i) + 1
    BY <1>0, <1>2, <2>1, MallocFresh DEF Packed
  <2>4. Bytes(heap', Packed(i)) \in Nat BY <2>2, <2>3, BlockFacts DEF WellFormed, Allocated, Bytes
  <2>5. \A p : Allocated(heap, p) => Allocated(heap', p) /\ Bytes(heap', p) = Bytes(heap, p)
    BY <1>0, <1>2, <2>1, MallocKeepsOthers
  <2>6. \A p \in Nat : Allocated(heap', p) => p = Packed(i) \/ Allocated(heap, p)
    BY <1>0, <1>2, <2>1, MallocOnlyAdds DEF Packed
  <2> QED BY <2>2, <2>3, <2>4, <2>5, <2>6
<1>3. CASE HexpackAgain(n)
  <2>1. PICK i \in find_form(n), x \in find_form(HexName) :
          /\ Packed(i) # NULL
          /\ IF form_table[x].content # NULL /\ ~Mine(x)
             THEN fault' = "hexpack" /\ UNCHANGED <<heap, form_table>>
             ELSE /\ heap' = kfree(Kmalloced(heap, HexSize(i) + 1), form_table[x].content)
                  /\ form_table' = [form_table EXCEPT ![x] = HexEntry(i)]
                  /\ UNCHANGED fault
    BY <1>3 DEF HexpackAgain
  <2> DEFINE c == form_table[x].content
             e == HexEntry(i)
  <2>2. x \in Index /\ x <= form_count /\ x \in Live BY FoundIsIndex DEF find_form, OwnInv
  <2>3. c # NULL => Allocated(heap, c) /\ Mine(x) BY <1>0, <2>2 DEF Good, Mine, Sole
  <2>4. /\ heap' = kfree(Kmalloced(heap, HexSize(i) + 1), c)
        /\ form_table' = [form_table EXCEPT ![x] = e] /\ fault' = "none"
    BY <2>1, <2>3
  <2>5. dropped' = dropped /\ form_count' = form_count BY <1>3 DEF HexpackAgain
  <2>6. /\ HexSize(i) \in Nat /\ HexSize(i) + 1 \in Nat /\ Packed(i) \in Nat
        /\ e \in FormType /\ e.content = Packed(i)
        /\ e.size = HexSize(i) /\ e.cap = HexSize(i)
    BY <1>1, <2>1
  <2>7. c \in Nat BY <1>0, <2>2
  <2> HIDE DEF c, e
  <2>8. /\ WellFormed(heap') /\ Packed(i) # c /\ ~Allocated(heap, Packed(i))
        /\ Allocated(heap', Packed(i)) /\ Bytes(heap', Packed(i)) >= HexSize(i) + 1
        /\ \A p \in Nat : Allocated(heap, p) /\ p # c =>
             Allocated(heap', p) /\ Bytes(heap', p) = Bytes(heap, p)
        /\ \A p \in Nat : Allocated(heap', p) => p = Packed(i) \/ (Allocated(heap, p) /\ p # c)
    BY <1>0, <2>1, <2>3, <2>4, <2>6, <2>7, ReplaceBuffer DEF Packed
  <2>9. Bytes(heap', Packed(i)) \in Nat BY <2>8, BlockFacts DEF WellFormed, Allocated, Bytes
  <2>10. Good(heap', dropped, e) BY <2>6, <2>8, <2>9 DEF Good
  <2>11. ASSUME NEW j \in Live \ {x}, form_table[j].content # NULL
         PROVE  /\ Allocated(heap, form_table[j].content) /\ form_table[j].content # c
                /\ form_table[j].content \in Nat
    BY <1>0, <2>2, <2>11 DEF Good, c
  <2>12. \A j \in Live \ {x} : form_table[j].content # NULL =>
           /\ Allocated(heap', form_table[j].content)
           /\ Bytes(heap', form_table[j].content) = Bytes(heap, form_table[j].content)
    BY <2>8, <2>11
  <2>13. \A j \in Live \ {x} : form_table[j].content # e.content
    BY <2>1, <2>6, <2>8, <2>11
  <2>14. \A p \in Nat : Allocated(heap', p) =>
           \/ p = e.content
           \/ Allocated(heap, p) /\ (x = form_count \/ p # form_table[x].content)
    BY <2>6, <2>8 DEF c
  <2>15. form_count' = IF x = form_count THEN form_count + 1 ELSE form_count
    BY <1>0, <2>2, <2>5 DEF Live
  <2>16. BuffersOwned' /\ NoLeak'
    BY <2>2, <2>4, <2>5, <2>6, <2>8, <2>10, <2>12, <2>13, <2>14, <2>15, EntryOwned
  <2> QED BY <2>4, <2>16 DEF Owned, SafeCommands
<1>4. CASE HexpackNew(n)
  <2>1. PICK i \in find_form(n) :
          /\ Packed(i) # NULL
          /\ heap' = Kmalloced(heap, HexSize(i) + 1)
          /\ form_table' = [form_table EXCEPT ![form_count] = HexEntry(i)]
    BY <1>4 DEF HexpackNew
  <2> DEFINE e == HexEntry(i)
  <2>2. /\ form_count < MAX_FORMS /\ dropped' = dropped /\ fault' = "none"
        /\ form_count' = form_count + 1
    BY <1>4 DEF HexpackNew
  <2>3. form_count \in Index /\ form_count <= form_count BY <1>0, <2>2 DEF Index
  <2>4. /\ HexSize(i) \in Nat /\ Packed(i) \in Nat /\ ~Allocated(heap, Packed(i))
        /\ e \in FormType /\ e.content = Packed(i)
        /\ e.size = HexSize(i) /\ e.cap = HexSize(i)
    BY <1>1, <2>1
  <2>5. /\ WellFormed(heap') /\ Allocated(heap', Packed(i))
        /\ Bytes(heap', Packed(i)) \in Nat /\ Bytes(heap', Packed(i)) >= HexSize(i) + 1
        /\ \A p : Allocated(heap, p) => Allocated(heap', p) /\ Bytes(heap', p) = Bytes(heap, p)
        /\ \A p \in Nat : Allocated(heap', p) => p = Packed(i) \/ Allocated(heap, p)
    BY <1>2, <2>1
  <2>6. form_table' = [form_table EXCEPT ![form_count] = e] BY <2>1
  <2> HIDE DEF e
  <2>7. Good(heap', dropped, e) BY <2>4, <2>5 DEF Good
  <2>8. \A j \in Live \ {form_count} : form_table[j].content # e.content
    <3>1. ASSUME NEW j \in Live, form_table[j].content = Packed(i) PROVE FALSE
      BY <1>0, <2>1, <2>4, <3>1 DEF Good
    <3> QED BY <2>4, <3>1
  <2>9. \A j \in Live \ {form_count} : form_table[j].content # NULL =>
          /\ Allocated(heap', form_table[j].content)
          /\ Bytes(heap', form_table[j].content) = Bytes(heap, form_table[j].content)
    BY <1>0, <2>5 DEF Good
  <2>10. \A p \in Nat : Allocated(heap', p) =>
           \/ p = e.content
           \/ Allocated(heap, p) /\ (form_count = form_count \/ p # form_table[form_count].content)
    BY <2>4, <2>5
  <2>11. form_count' = IF form_count = form_count THEN form_count + 1 ELSE form_count BY <2>2
  <2>12. BuffersOwned' /\ NoLeak'
    BY <2>2, <2>3, <2>4, <2>5, <2>6, <2>7, <2>8, <2>9, <2>10, <2>11, EntryOwned
  <2> QED BY <2>2, <2>12 DEF Owned, SafeCommands
<1>5. CASE HexpackFails(n)
  <2>1. PICK i \in find_form(n) :
          /\ Packed(i) # NULL
          /\ heap' = Kmalloced(heap, HexSize(i) + 1)
          /\ dropped' = dropped \cup {Packed(i)}
          /\ \/ form_table' = form_table
             \/ form_table' = [form_table EXCEPT ![form_count] =
                  Form(HexName, NULL, form_table[form_count].size, form_table[form_count].cap)]
    BY <1>5 DEF HexpackFails
  <2>2. form_count' = form_count /\ fault' = "none" BY <1>5 DEF HexpackFails
  <2>3. Live' = Live /\ \A j \in Live : form_table'[j] = form_table[j]
    BY <1>0, <2>1, <2>2 DEF Live
  <2>4. /\ WellFormed(heap')
        /\ \A p : Allocated(heap, p) => Allocated(heap', p) /\ Bytes(heap', p) = Bytes(heap, p)
        /\ \A p \in Nat : Allocated(heap', p) => p = Packed(i) \/ Allocated(heap, p)
    BY <1>2, <2>1
  <2>5. \A j \in Live : form_table[j].content # NULL => Good(heap', dropped', form_table[j])
    BY <1>0, <2>1, <2>4 DEF Good
  <2>6. BuffersOwned'
    BY <1>0, <2>3, <2>5 DEF BuffersOwned, Good, Mine, Sole, Adopted
  <2>7. NoLeak' BY <1>0, <2>1, <2>3, <2>4, LeakFacts
  <2> QED BY <2>2, <2>6, <2>7 DEF Owned, SafeCommands
<1> QED BY <1>3, <1>4, <1>5

(***************************************************************************)
(* The steps of ayo: a buffer it does not free is recorded as let go.      *)
(***************************************************************************)
LEMMA AyoOwned ==
  ASSUME OwnInv, fault = "none", job \in JobType, Ayo
  PROVE  Owned'
<1>0. /\ PkgLength \in Nat /\ PkgLength + 1 \in Nat /\ PkgLength <= PkgLength + 1
      /\ PkgMarker \in FormNames /\ FormsInv
  BY FormsAssumption DEF FormNames, OwnInv
<1>1. form_count < MAX_FORMS => form_count \in Index /\ form_count <= form_count
  BY <1>0, FormsAssumption DEF FormsInv, Index
<1>2. ASSUME job.rest # <<>> PROVE Head(job.rest) \in FormNames
  <2>1. job.rest \in Seq(Names \cup {PkgMarker}) BY DEF JobType
  <2>2. Head(job.rest) \in Names \cup {PkgMarker} BY <1>2, <2>1
  <2> QED BY <2>2 DEF FormNames
<1>3. CASE AyoAdd
  <2>1. Store("ayo", form_count, 2, 2, PkgMarker, 1) /\ dropped' = dropped BY <1>3 DEF AyoAdd
  <2>2. Len(PkgForms) \in Nat BY FormsAssumption
  <2>3. form_count < MAX_FORMS BY <1>0, <1>3, <2>2, FormsAssumption DEF AyoAdd, FormsInv
  <2> QED BY <1>0, <1>1, <2>1, <2>3, StoreOther
<1>4. CASE AyoPut
  <2>1. /\ Store("ayo", form_count, PkgLength + 1, PkgLength + 1, Head(job.rest), PkgLength)
        /\ dropped' = dropped /\ form_count < MAX_FORMS /\ job.rest # <<>>
    BY <1>4 DEF AyoPut, Working
  <2>2. Head(job.rest) \in FormNames BY <1>2, <2>1
  <2> QED BY <1>0, <1>1, <2>1, <2>2, StoreOther
<1>5. CASE AyoRefresh
  <2>1. PICK i \in find_form(Head(job.rest)) :
          Store("ayo", i, PkgLength + 1, PkgLength + 1, Head(job.rest), PkgLength)
    BY <1>5 DEF AyoRefresh
  <2>2. dropped' = dropped /\ job.rest # <<>> BY <1>5 DEF AyoRefresh, Working
  <2>3. i \in Index /\ i <= form_count /\ Head(job.rest) \in FormNames
    BY <1>0, <1>2, <2>2, FoundIsIndex
  <2> QED BY <1>0, <2>1, <2>2, <2>3, StoreOther
<1>6. CASE AyoDrop
  <2>1. PICK i \in find_form(Head(job.rest)) :
          form_table' = Shifted(i) /\ dropped' = dropped \cup {form_table[i].content}
    BY <1>6 DEF AyoDrop
  <2>2. heap' = heap /\ form_count' = form_count - 1 /\ fault' = "none" BY <1>6 DEF AyoDrop
  <2>3. i \in Live BY DEF find_form
  <2>4. /\ WellFormed(heap)
        /\ \A j \in Live : form_table[j].content # NULL => Good(heap, dropped, form_table[j])
    BY OwnFacts
  <2>5. \A j \in Live \ {i} : form_table[j].content # NULL =>
          /\ Allocated(heap', form_table[j].content)
          /\ Bytes(heap', form_table[j].content) = Bytes(heap, form_table[j].content)
    BY <2>2, <2>4 DEF Good
  <2>6. \A p \in Nat : Allocated(heap', p) =>
          Allocated(heap, p) /\ (p \in dropped' \/ p # form_table[i].content)
    BY <2>1, <2>2
  <2>7. dropped \subseteq dropped' /\ WellFormed(heap') BY <2>1, <2>2, <2>4
  <2>8. BuffersOwned' /\ NoLeak' BY <2>1, <2>2, <2>3, <2>5, <2>6, <2>7, ShiftOwned
  <2> QED BY <2>2, <2>8 DEF Owned, SafeCommands
<1>7. AyoRemove \/ AyoUpdate \/ AyoSkip \/ AyoSave => UNCHANGED <<forms, fault, dropped>>
  BY DEF AyoRemove, AyoUpdate, AyoSkip, AyoSave
<1> QED BY <1>3, <1>4, <1>5, <1>6, <1>7, FormsKept DEF Ayo

(***************************************************************************)
(* Grants and system calls.                                                *)
(***************************************************************************)
LEMMA SystemCallOwned ==
  ASSUME OwnInv, fault = "none", GrantCap \/ SystemCall
  PROVE  Owned'
<1>0. FormsInv /\ form_table \in [Index -> FormType] /\ Names \subseteq FormNames
  BY DEF OwnInv, TableTyped, FormNames
<1>1. ASSUME NEW n \in Names, NEW type, OpenCreate(n, type) PROVE Owned'
  BY <1>0, <1>1, MkFormOwned DEF OpenCreate
<1>1a. ASSUME NEW i \in Live, NEW len \in Lengths, Produce(i, len), dropped' = dropped
      PROVE  Owned'
  <2> DEFINE s == Larger(form_table[i].size, len)
  <2>0. dropped' = dropped BY <1>1a
  <2>1. Store("fulfill", i, 0, len + 1, form_table[i].name, s) BY <1>1a DEF Produce
  <2>2. i \in Index /\ i < form_count /\ i <= form_count /\ 0 \in Nat
    BY <1>0, FormsAssumption DEF Live, Index, FormsInv
  <2>3. form_table[i].name \in FormNames /\ form_table[i].size \in Nat
    BY <1>0, <2>2 DEF FormType
  <2>4. len \in Nat /\ len + 1 \in Nat BY FormsAssumption
  <2>5. s \in Nat /\ (s <= len + 1 \/ s <= form_table[i].size) BY <2>3, <2>4 DEF Larger
  <2> HIDE DEF s
  <2> QED BY <2>0, <2>1, <2>2, <2>3, <2>4, <2>5, StoreOther
<1>2. ASSUME NEW k \in 1 .. Len(intents), NEW len \in Lengths, Fulfill(k, len) PROVE Owned'
  BY <1>2, <1>1a DEF Fulfill
<1>2a. ASSUME NEW n \in Names, NEW len \in Lengths, WriteNamed(n, len) PROVE Owned'
  BY <1>1a, <1>2a DEF WriteNamed, find_form
<1>3. ASSUME NEW n, NEW type, OpenForm(n, type) PROVE UNCHANGED <<forms, fault, dropped>>
  BY <1>3 DEF OpenForm
<1>4. ASSUME NEW i, NEW type, SysIntent(type, i) PROVE UNCHANGED <<forms, fault, dropped>>
  BY <1>4 DEF SysIntent
<1>5. GrantCap => UNCHANGED <<forms, fault, dropped>> BY DEF GrantCap
<1> QED BY <1>1, <1>2, <1>3, <1>4, <1>5, <1>2a, FormsKept DEF SystemCall, sys_open

-----------------------------------------------------------------------------
\* The inductive invariant of Forms.
Inv == OwnInv /\ SafeCommands /\ RestTyped /\ FlagsTyped /\ ReadOnly

(***************************************************************************)
(* The state after boot satisfies the invariant.                           *)
(***************************************************************************)
LEMMA InvInit == Init => Inv
<1> SUFFICES ASSUME Init PROVE Inv OBVIOUS
<1>1. FormsInv
  <2>1. WellFormed(heap) BY InitWellFormed DEF Init
  <2>2. form_count \in 0 .. MAX_FORMS BY FormsAssumption DEF Init
  <2>3. form_table = [i \in Index |-> form_table[i]] BY DEF Init
  <2>4. \A i \in Index : form_table[i].size \in Nat BY DEF Init, Blank, Form
  <2> QED BY <2>1, <2>2, <2>3, <2>4 DEF FormsInv
<1>2. TableTyped
  <2>1. Blank \in FormType BY DEF Blank, Form, FormType, FormNames, NULL
  <2> QED BY <2>1 DEF Init, TableTyped, Faults
<1>3. BuffersOwned BY DEF Init, BuffersOwned, Live
<1>4. NoLeak
  <2>1. heap = kheap_init /\ DOMAIN heap = {0} BY DEF Init, kheap_init
  <2>2. heap[0] = [size |-> HEAP_WORDS - HDR, free |-> TRUE] BY <2>1 DEF kheap_init
  <2> QED BY <2>1, <2>2 DEF NoLeak
<1>5. SafeCommands BY DEF Init, SafeCommands
<1>6. RestTyped BY FormsAssumption DEF Init, RestTyped, JobType, Idle
<1>7. FlagsTyped BY Zenon DEF Init, FlagsTyped
<1>8. ReadOnly
  <2>1. intents = <<>> /\ fault = "none" BY DEF Init
  <2>2. ~ioerr => ~tx /\ ~granted BY Zenon DEF Init
  <2>3. \A k \in 1 .. Len(intents) : intents[k].type = "CONSUME" BY <2>1
  <2>4. fault # "fulfill" BY <2>1
  <2> QED BY <2>2, <2>3, <2>4, Zenon DEF ReadOnly
<1> QED BY <1>1, <1>2, <1>3, <1>4, <1>5, <1>6, <1>7, <1>8 DEF Inv, OwnInv

(***************************************************************************)
(* Every step keeps it; nothing follows a fault.                           *)
(***************************************************************************)
LEMMA InvStep == Inv /\ [Next]_vars => Inv'
<1> SUFFICES ASSUME Inv, [Next]_vars PROVE Inv' OBVIOUS
<1>0. FormsInv' BY FormsStep DEF Inv, OwnInv
<1>1. CASE Next
  <2>1. fault = "none" BY <1>1, StepKeeps DEF Step
  <2>2. OwnInv /\ FormsInv /\ TableTyped /\ RestTyped /\ job \in JobType
    BY DEF Inv, OwnInv, RestTyped
  <2>3. TableTyped' BY <1>1, <2>2, CommandTyped, OtherTyped DEF Next
  <2>4. Owned'
    <3>1. CASE FormCommand BY <2>1, <2>2, <3>1, CommandOwned, HexpackOwned
    <3>2. CASE Ayo BY <2>1, <2>2, <3>2, AyoOwned
    <3>3. CASE GrantCap \/ SystemCall BY <2>1, <2>2, <3>3, SystemCallOwned
    <3> QED BY <1>1, <3>1, <3>2, <3>3 DEF Next
  <2>5. RestTyped' BY <1>1, <2>2, RestStays
  <2>6. FlagsTyped' BY <1>1, FlagsStay, Zenon DEF Inv
  <2>7. ReadOnly' BY <1>1, <2>2, ReadOnlyStays, Zenon DEF Inv
  <2> QED BY <1>0, <2>3, <2>4, <2>5, <2>6, <2>7, Zenon DEF Inv, OwnInv, Owned
<1>2. CASE UNCHANGED vars
  <2>1. Live' = Live BY <1>2 DEF vars, Live
  <2>2. BuffersOwned' /\ NoLeak' /\ SafeCommands'
    BY <1>2, <2>1 DEF Inv, OwnInv, vars, BuffersOwned, NoLeak, SafeCommands, Mine, Sole, Adopted
  <2>3. TableTyped' /\ RestTyped' BY <1>2 DEF Inv, OwnInv, vars, TableTyped, RestTyped
  <2>4. FlagsTyped' /\ ReadOnly' BY <1>2, Zenon DEF Inv, vars, FlagsTyped, ReadOnly
  <2> QED BY <1>0, <2>2, <2>3, <2>4, Zenon DEF Inv, OwnInv
<1> QED BY <1>1, <1>2

(***************************************************************************)
(* The table, the job of ayo, the intents and the flags keep their types.  *)
(***************************************************************************)
THEOREM FormsTyped == Spec => []TypeOK
<1>1. Inv => TypeOK
  <2> SUFFICES ASSUME Inv PROVE TypeOK OBVIOUS
  <2>1. form_table \in [Index -> FormType] /\ fault \in Faults BY DEF Inv, OwnInv, TableTyped
  <2>2. form_count \in 0 .. MAX_FORMS BY DEF Inv, OwnInv, FormsInv
  <2>3. /\ job.cmd \in {"none", "add", "remove", "update"} /\ Len(intents) <= MAX_INTENTS
        /\ steps \in 0 .. MaxSteps
    BY DEF Inv, RestTyped, JobType
  <2>4. granted \in BOOLEAN /\ tx \in BOOLEAN /\ ioerr \in BOOLEAN BY Zenon DEF Inv, FlagsTyped
  <2> QED BY <2>1, <2>2, <2>3, <2>4, Zenon DEF TypeOK, FormType, FormNames, Faults
<1> QED BY <1>1, InvInit, InvStep, PTL DEF Spec

(***************************************************************************)
(* Whatever sequence of commands and system calls comes before: the buffer *)
(* of a form is in use, is its own and is as large as size and, unless it  *)
(* was adopted, as cap says.                                               *)
(***************************************************************************)
THEOREM FormsOwnBuffers == Spec => []BuffersOwned
<1>1. Inv => BuffersOwned BY DEF Inv, OwnInv
<1> QED BY <1>1, InvInit, InvStep, PTL DEF Spec

(***************************************************************************)
(* No buffer is lost except by ayo remove and by a failing hexpack.        *)
(***************************************************************************)
THEOREM BuffersNotLost == Spec => []NoLeak
<1>1. Inv => NoLeak BY DEF Inv, OwnInv
<1> QED BY <1>1, InvInit, InvStep, PTL DEF Spec

(***************************************************************************)
(* delete and hexpack never touch memory that is not theirs, and write and *)
(* append only through a form that has adopted a smaller buffer.           *)
(***************************************************************************)
THEOREM CommandsStaySafe == Spec => []SafeCommands
<1>1. Inv => SafeCommands BY DEF Inv
<1> QED BY <1>1, InvInit, InvStep, PTL DEF Spec

(***************************************************************************)
(* Without a save that fails, programs only ever read forms.               *)
(***************************************************************************)
THEOREM ProgramsStayReaders == Spec => []ProgramsReadOnly
<1>1. Inv => ProgramsReadOnly BY Zenon DEF Inv, ReadOnly, ProgramsReadOnly
<1> QED BY <1>1, InvInit, InvStep, PTL DEF Spec
=============================================================================
