------------------------------- MODULE HexaFS -------------------------------
(***************************************************************************)
(* Persistence in HEXA OS: the forms, the user accounts and the pimp rules *)
(* kept in memory by the shell, the commands that change them and save     *)
(* them, the boot sequence that loads them, and power loss at any moment.  *)
(*                                                                         *)
(* A command runs to its end in memory at once and leaves the sector       *)
(* writes it issued in pend; DiskWrite carries them out one by one, in     *)
(* order; nothing else starts before they are done (the shell is the only  *)
(* user of the store).  PowerOff may come between any two of them, or when *)
(* there are none left: the system has no shutdown that writes anything.   *)
(***************************************************************************)
EXTENDS HexaStore

CONSTANTS Names,       \* names the user gives to forms
          Texts,       \* texts of forms
          PimpUsers,   \* users named in pimp rules
          MAX_FORMS, MAX_USERS, PIMP_RULE_MAX,
          MaxCommands, \* bound: commands over a whole behaviour
          MaxBoots,    \* bound: boots over a whole behaviour
          MaxCrashes   \* bound: power losses with sector writes pending

ASSUME FSAssumption == /\ Texts \subseteq DOMAIN FormBlocks
                       /\ "empty" \in DOMAIN FormBlocks
                       /\ {MAX_FORMS, PIMP_RULE_MAX} \subseteq Nat
                       /\ MAX_USERS \in Nat \ {0}
                       /\ {MaxCommands, MaxBoots, MaxCrashes} \subseteq Nat

VARIABLES disk,   \* [sb, bmp, blk]: what survives power loss
          on,     \* the system is running
          mem,    \* what the running system keeps in memory
          pend,   \* sector writes issued and not yet on disk
          hist    \* history, for the properties only

vars == <<disk, on, mem, pend, hist>>

ASSUME NamesAssumption == {".users", ".pimp"} \cap Names = {}
DotUsers == ".users"
DotPimp == ".pimp"

\* init_users: the root account with its default password.
InitUsers == <<"root">>

Nothing == [forms |-> <<>>, users |-> InitUsers, pimp |-> <<>>]

(***************************************************************************)
(* Loading: hexafs_load_all, load_users, pimp_load_rules.                  *)
(***************************************************************************)
\* The object an entry leads to, read as a form: only objects of type FORM
\* have their bytes taken, the first 10 as metadata.
FormLayout(p) == [p EXCEPT !.k = CASE p.k = "users" -> "cutusers"
                                   [] p.k = "pimp" -> "cutpimp"
                                   [] p.k \notin {"users", "pimp"} -> p.k]

AsForm(blk, o) ==
  IF blk[o].kind # "obj" \/ blk[o].type # "FORM" \/ blk[o].cb = <<>> THEN Form("empty")
  ELSE FormLayout(object_read_data(blk, o))

\* hexafs_load_all reads the first block of the root abstraction only, and
\* turns every entry of it into a form, .users and .pimp too.
load_all(blk, abs) ==
  IF abs = 0 \/ blk[abs].kind # "abs" THEN <<>>
  ELSE LET n == Min({Len(blk[abs].entries), MAX_FORMS})
       IN [i \in 1 .. n |-> [name |-> blk[abs].entries[i].name,
                             body |-> AsForm(blk, blk[abs].entries[i].obj)]]

\* The contents of the object the root abstraction names so, if there is one.
ReadNamed(blk, abs, name) ==
  LET o == IF abs = 0 THEN 0 ELSE abstraction_find(blk, abs, name)
  IN IF o = 0 THEN NoData ELSE object_read_data(blk, o)

\* load_users: a table whose count field is out of range is ignored.  In a
\* table that went through the form layout the count is the owner field and
\* the front of the first name is lost.
UsersIn(p) ==
  CASE p.k = "users" -> p.list
    [] p.k = "cutusers" /\ Len(p.list) < MAX_USERS -> <<"cut">> \o Tail(p.list)
    [] p.k = "torn" -> <<"torn">>
    [] p.k \notin {"users", "torn"} /\ ~(p.k = "cutusers" /\ Len(p.list) < MAX_USERS) -> InitUsers

load_users(blk, abs) == UsersIn(ReadNamed(blk, abs, DotUsers))

PimpIn(p) == CASE p.k = "pimp" -> p.list
               [] p.k = "cutpimp" /\ p.list # <<>> -> <<"cut">> \o Tail(p.list)
               [] p.k = "torn" -> <<"torn">>
               [] OTHER -> <<>>

pimp_load_rules(blk, abs) == PimpIn(ReadNamed(blk, abs, DotPimp))

\* The root abstraction of a snapshot; 0 if there is none.
RootObject(blk, snap) ==
  IF snap = 0 \/ blk[snap].kind # "snap" THEN 0 ELSE blk[snap].rootObj

load_data(blk, snap) ==
  LET abs == RootObject(blk, snap)
  IN [forms |-> load_all(blk, abs), users |-> load_users(blk, abs),
      pimp |-> pimp_load_rules(blk, abs)]

\* What a boot now would load from the disk.
NoSuper == NBLOCKS + 1
Recovered == IF disk.sb = NoSuper THEN Nothing ELSE load_data(disk.blk, disk.sb)

(***************************************************************************)
(* Saving: hexafs_save_all, hexafs_users_save, pimp_save_rules.            *)
(***************************************************************************)
Running(m) == [blk |-> disk.blk, bmp |-> m.bmp, bd |-> m.bd, hint |-> m.hint,
               root |-> m.root, tx |-> NoTx, log |-> <<>>, r |-> 0, cb |-> <<>>,
               full |-> FALSE, refused |-> FALSE]

\* form_from_fentry: object, then contents; the object is freed if they fail.
KeepOrFree(w, o) == IF w.r = 0 THEN [free_block(w, o) EXCEPT !.r = 0] ELSE w

form_from_fentry(s, body) ==
  OnSuccess(object_alloc(s, "FORM"), LAMBDA o : KeepOrFree(object_write_data(o, o.r, body), o.r))

\* Every form gets a new object; one that does not fit is left out silently.
SaveForm(a, abs, f) ==
  OnSuccess(form_from_fentry(a, f.body), LAMBDA w : add_entry(w, abs, f.name, w.r))

SaveForms(s, abs, forms) ==
  LET after[i \in 0 .. Len(forms)] ==
        IF i = 0 THEN s ELSE SaveForm(after[i - 1], abs, forms[i])
  IN after[Len(forms)]

SaveInto(a, forms) == IF a.r = 0 THEN tx_abort(a) ELSE publish(SaveForms(a, a.r, forms), a.r)

\* Mutant: the live abstraction is emptied and refilled in place.
save_all_InPlace(s, forms) ==
  LET live == RootObject(s.blk, s.root)
  IN SaveInto(IF live = 0 THEN abstraction_create(tx_begin(s))
              ELSE [block_write(tx_begin(s), live, Abs(<<>>, 0, TRUE)) EXCEPT !.r = live], forms)

\* hexafs_save_all: a new abstraction with all forms, a snapshot, the commit.
save_all(s, forms) == SaveInto(abstraction_create(tx_begin(s)), forms)

\* Mutant: an object that is there already is not looked for.
ConfigObject_NoFind(s, abs, name) ==
  OnSuccess(object_alloc(s, "CONFIG"), LAMBDA o :
    [add_entry(o, abs, name, o.r) EXCEPT !.r = o.r])

\* hexafs_users_save and pimp_save_rules: an object of the live abstraction is
\* rewritten in place, or added to it; then a snapshot of the same root.
ConfigObject(s, abs, name) ==
  LET found == abstraction_find(s.blk, abs, name)
  IN IF found # 0 THEN [s EXCEPT !.r = found]
     ELSE OnSuccess(object_alloc(s, "CONFIG"), LAMBDA o :
            [add_entry(o, abs, name, o.r) EXCEPT !.r = o.r])

CommitOrAbort(w, abs) == IF w.r = 0 THEN tx_abort(w) ELSE publish(w, abs)

SaveConfigIn(s, abs, name, p) ==
  IF abs = 0 THEN tx_abort(s)
  ELSE CommitOrAbort(OnSuccess(ConfigObject(s, abs, name),
                               LAMBDA e : object_write_data(e, e.r, p)), abs)

config_save(s, name, p) == SaveConfigIn(tx_begin(s), RootObject(s.blk, s.root), name, p)

\* Mutant: only the forms are saved.
save_data_NoUsers(s, m) == save_all(s, m.forms)

\* save_data: the forms, then the users.
save_data(s, m) == config_save(save_all(s, m.forms), DotUsers, Users(m.users))

(***************************************************************************)
(* Commands.                                                               *)
(***************************************************************************)
Contents(m) == [forms |-> m.forms, users |-> m.users, pimp |-> m.pimp]

\* The command leaves memory m, and the store as s: its writes are pending.
Issue(m, s, kind) ==
  /\ on /\ pend = <<>> /\ hist.commands < MaxCommands
  /\ mem' = [m EXCEPT !.bmp = s.bmp, !.bd = s.bd, !.hint = s.hint, !.root = s.root]
  /\ pend' = s.log
  /\ hist' = [hist EXCEPT !.commands = @ + 1,
                          !.saved = kind = "data" \/ (@ /\ kind = "pimp"),
                          !.last = kind, !.base = Recovered,
                          !.full = @ \/ s.full, !.refused = @ \/ s.refused]
  /\ UNCHANGED <<disk, on>>

SaveCommand(m) == Issue(m, save_data(Running(m), m), "data")
\* useradd and passwd save, and execute_cmd saves once more.
SaveTwice(m) == Issue(m, save_data(save_data(Running(m), m), m), "data")
PimpCommand(m) == Issue(m, config_save(Running(m), DotPimp, Pimp(m.pimp)), "pimp")

find_form(n) == SelectInSeq(mem.forms, LAMBDA f : f.name = n)

AppendForm(n, body) == [mem EXCEPT !.forms = Append(@, [name |-> n, body |-> body])]

MkForm(n) == /\ Len(mem.forms) < MAX_FORMS /\ find_form(n) = 0
             /\ SaveCommand(AppendForm(n, Form("empty")))

\* makedim: a form that is not saved until the next command that saves.
MakeDim(n) == /\ Len(mem.forms) < MAX_FORMS /\ find_form(n) = 0
              /\ LET m == AppendForm(n, Form("empty")) IN Issue(m, Running(m), "mem")

\* copy and move take any new name, that of another form too.
Copy(n, to) == /\ find_form(n) # 0 /\ Len(mem.forms) < MAX_FORMS
               /\ SaveCommand(AppendForm(to, mem.forms[find_form(n)].body))

Move(n, to) == /\ find_form(n) # 0
               /\ SaveCommand([mem EXCEPT !.forms[find_form(n)].name = to])

\* write, append and edit.  setmode and setowner change metadata that no
\* property looks at: they are Resave.
WriteForm(n, t) == /\ find_form(n) # 0
                   /\ SaveCommand([mem EXCEPT !.forms[find_form(n)].body = Form(t)])

Delete(n) == /\ find_form(n) # 0
             /\ SaveCommand([mem EXCEPT !.forms = RemoveAt(@, find_form(n))])

(***************************************************************************)
(* ayo add, remove and update, for a package of one form n with text t and *)
(* marker form mkr (one byte, which is stored like no byte): the table     *)
(* changes by two forms and is saved once.                                 *)
(***************************************************************************)
Without(q, n) ==
  LET i == SelectInSeq(q, LAMBDA f : f.name = n) IN IF i = 0 THEN q ELSE RemoveAt(q, i)

\* The package form, unless there is one.
WithForm(q, n, t) == IF find_form(n) = 0 THEN Append(q, [name |-> n, body |-> Form(t)]) ELSE q

AyoAdd(mkr, n, t) ==
  /\ Len(mem.forms) + 2 < MAX_FORMS /\ find_form(mkr) = 0
  /\ SaveCommand([mem EXCEPT !.forms =
                    WithForm(Append(mem.forms, [name |-> mkr, body |-> Form("empty")]), n, t)])

AyoRemove(mkr, n) ==
  /\ find_form(mkr) # 0
  /\ SaveCommand([mem EXCEPT !.forms = Without(Without(mem.forms, n), mkr)])

\* A form that is there is written again, as WriteForm does; with a full table
\* it is passed over, which is Resave.
AyoUpdate(mkr, n, t) ==
  /\ find_form(mkr) # 0
  /\ IF find_form(n) # 0 THEN WriteForm(n, t)
     ELSE Len(mem.forms) < MAX_FORMS /\ SaveCommand(AppendForm(n, Form(t)))

\* execute_cmd saves after these commands even if they refused to act.
Resave == SaveCommand(mem)

\* Mutant: the limit on users is not checked.
UserAdd_NoLimit == SaveTwice([mem EXCEPT !.users = Append(@, "user")])

UserAdd == /\ Len(mem.users) < MAX_USERS
           /\ SaveTwice([mem EXCEPT !.users = Append(@, "user")])

\* "new" at the login prompt.
LoginNew == /\ Len(mem.users) < MAX_USERS
            /\ SaveCommand([mem EXCEPT !.users = Append(@, "user")])

\* Every new password of a user is the same one here.
Passwd(i) == SaveTwice([mem EXCEPT !.users[i] = "changed"])

\* The rule of a user who has one is replaced.
PimpAdd(u) == /\ Len(mem.pimp) < PIMP_RULE_MAX
              /\ PimpCommand([mem EXCEPT !.pimp = IF Contains(@, u) THEN @ ELSE Append(@, u)])

PimpRemove(u) ==
  /\ Contains(mem.pimp, u)
  /\ PimpCommand([mem EXCEPT !.pimp = RemoveAt(@, SelectInSeq(@, LAMBDA x : x = u))])

(***************************************************************************)
(* Booting: hexafs_mount, load_data, boot_policy_execute.                  *)
(***************************************************************************)
\* hexafs_format, then a root abstraction and a first snapshot.
Formatted(blk) ==
  [blk |-> blk, bmp |-> {}, bd |-> TRUE, hint |-> 1, root |-> 0, tx |-> NoTx, log |-> <<>>,
   r |-> 0, cb |-> <<>>, full |-> FALSE, refused |-> FALSE]

format(blk) ==
  OnSuccess(abstraction_create(save_bitmap(write_superblock(Formatted(blk)))),
            LAMBDA a : publish(tx_begin(a), a.r))

\* Mutant: the bitmap is not read back.
bitmap_load_Nothing == {}

bitmap_load == disk.bmp

\* hexafs_mount and hexafs_mount_disk.
mount ==
  IF disk.sb = NoSuper THEN format(disk.blk)
  ELSE Running([bmp |-> bitmap_load, bd |-> FALSE, hint |-> 1, root |-> disk.sb])

\* boot_policy_execute: every stage succeeds, and a snapshot whose root object
\* is the 0 that hexafs_tx_begin left becomes the root.
boot_policy(s) == publish(tx_begin(s), 0)

StartWith(s, l) ==
  /\ mem' = [bmp |-> s.bmp, bd |-> s.bd, hint |-> s.hint, root |-> s.root,
             forms |-> l.forms, users |-> l.users, pimp |-> l.pimp]
  /\ pend' = s.log
  /\ hist' = [hist EXCEPT !.boots = @ + 1, !.saved = FALSE, !.last = "boot", !.base = Recovered,
                          !.full = s.full, !.refused = s.refused]

BootFrom(m) == StartWith(boot_policy(m), load_data(m.blk, m.root))

Boot == /\ ~on /\ hist.boots < MaxBoots
        /\ on' = TRUE
        /\ BootFrom(mount)
        /\ UNCHANGED disk

(***************************************************************************)
(* The disk and the power switch.                                          *)
(***************************************************************************)
Written(d, w) == CASE w.to = "blk" -> [d EXCEPT !.blk[w.b] = w.v]
                   [] w.to = "bmp" -> [d EXCEPT !.bmp = w.v]
                   [] w.to = "sb" -> [d EXCEPT !.sb = w.v]

DiskWrite ==
  /\ pend # <<>>
  /\ disk' = Written(disk, Head(pend))
  /\ pend' = Tail(pend)
  /\ UNCHANGED <<on, mem, hist>>

NoMem == [bmp |-> {}, bd |-> FALSE, hint |-> 1, root |-> 0,
          forms |-> <<>>, users |-> InitUsers, pimp |-> <<>>]

PowerOff ==
  /\ on /\ on' = FALSE
  /\ pend = <<>> \/ hist.crashes < MaxCrashes
  /\ mem' = NoMem
  /\ pend' = <<>>
  /\ hist' = [hist EXCEPT !.shut = Contents(mem), !.shutSaved = hist.saved,
                          !.clean = (pend = <<>>),
                          !.crashes = IF pend = <<>> THEN @ ELSE @ + 1]
  /\ UNCHANGED disk

Init == /\ disk = [sb |-> NoSuper, bmp |-> {}, blk |-> [b \in Block |-> Zero]]
        /\ on = FALSE
        /\ mem = NoMem
        /\ pend = <<>>
        /\ hist = [commands |-> 0, boots |-> 0, crashes |-> 0, saved |-> FALSE, last |-> "none",
                   base |-> Nothing, shut |-> Nothing, shutSaved |-> FALSE,
                   clean |-> TRUE, full |-> FALSE, refused |-> FALSE]

Command == \/ \E n \in Names : MkForm(n) \/ MakeDim(n) \/ Delete(n)
           \/ \E n, to \in Names : Copy(n, to) \/ Move(n, to)
           \/ \E n \in Names, t \in Texts : WriteForm(n, t)
           \/ \E mkr \in Names : \E n \in Names \ {mkr} :
                \/ AyoRemove(mkr, n)
                \/ \E t \in Texts : AyoAdd(mkr, n, t) \/ AyoUpdate(mkr, n, t)
           \/ Resave \/ UserAdd \/ LoginNew
           \/ \E i \in DOMAIN mem.users : Passwd(i)
           \/ \E u \in PimpUsers : PimpAdd(u) \/ PimpRemove(u)

Next == Command \/ Boot \/ DiskWrite \/ PowerOff

Spec == Init /\ [][Next]_vars

-----------------------------------------------------------------------------
(***************************************************************************)
(* Properties.                                                             *)
(***************************************************************************)
\* The forms of the user, without those loaded for .users and .pimp.
KeepNamed(kept, f) == IF f.name \in Names THEN Append(kept, f) ELSE kept
Ordinary(forms) ==
  LET kept[i \in 0 .. Len(forms)] ==
        IF i = 0 THEN <<>> ELSE KeepNamed(kept[i - 1], forms[i])
  IN kept[Len(forms)]

\* The disk, the memory and the writes on their way are well formed.
TypeOK ==
  /\ disk.sb \in 0 .. NBLOCKS + 1 /\ disk.bmp \subseteq Block
  /\ mem.bmp \subseteq Block /\ mem.hint \in 1 .. NBLOCKS + 1 /\ mem.root \in 0 .. NBLOCKS
  /\ Len(mem.forms) <= MAX_FORMS /\ Len(mem.users) \in 1 .. MAX_USERS
  /\ \A i \in DOMAIN pend : pend[i].to = "blk" => pend[i].b \in Block

\* Enough blocks and no more entries than one abstraction block holds.
Fits == ~hist.full /\ ~hist.refused /\ Len(mem.forms) <= ABS_MAX_ENTRIES

(***************************************************************************)
(* hexafs_save_all is atomic towards power loss: after every single sector *)
(* write of a command, a boot would find either exactly the forms it would *)
(* have found before the command or exactly those in memory.               *)
(***************************************************************************)
SaveAtomic ==
  on /\ Fits =>
    Ordinary(Recovered.forms) \in
      {Ordinary(hist.base.forms),
       CASE hist.last = "data" -> Ordinary(mem.forms)
         [] hist.last \in {"pimp", "mem"} -> Ordinary(hist.base.forms)
         [] OTHER -> <<>>}

(***************************************************************************)
(* Even when the disk fills up in the middle of a save, no form that a     *)
(* boot would find mixes old and new: each is, name and text, one that was *)
(* on disk before the command or is in memory now.                         *)
(***************************************************************************)
FormsGenuine ==
  on => \A f \in ToSet(Recovered.forms) :
          f.name \in Names => f \in ToSet(hist.base.forms) \cup ToSet(mem.forms)

(***************************************************************************)
(* Once a session has saved and its writes are out, a boot would find the  *)
(* forms and the accounts in memory, and after a pimp command the rules.   *)
(***************************************************************************)
SavedDurable ==
  on /\ pend = <<>> /\ hist.saved /\ Fits =>
    /\ Ordinary(Recovered.forms) = Ordinary(mem.forms)
    /\ Recovered.users = mem.users
    /\ hist.last = "pimp" => Recovered.pimp = mem.pimp

\* The blocks of one form of the abstraction abs.
FormEntries(blk, abs) ==
  {i \in DOMAIN blk[abs].entries : blk[abs].entries[i].name \in Names}
FormBlocksOf(blk, abs, i) ==
  LET o == blk[abs].entries[i].obj IN {o} \cup ToSet(blk[o].cb)

(***************************************************************************)
(* The bitmap on disk covers the root on disk, at every moment: the root   *)
(* snapshot, its abstraction and every form object with its contents are   *)
(* marked allocated, and no block belongs to two forms.                    *)
(***************************************************************************)
RootAllocated ==
  LET abs == RootObject(disk.blk, disk.sb)
  IN disk.sb \in Block =>
       /\ disk.sb \in disk.bmp
       /\ abs # 0 =>
            /\ abs \in disk.bmp
            /\ \A i \in FormEntries(disk.blk, abs) :
                 /\ FormBlocksOf(disk.blk, abs, i) \subseteq disk.bmp
                 /\ \A j \in FormEntries(disk.blk, abs) : i # j =>
                      FormBlocksOf(disk.blk, abs, i) \cap FormBlocksOf(disk.blk, abs, j) = {}

\* The snapshots along the parent pointers.
FollowParent(blk, c) ==
  IF blk[Last(c)].kind # "snap" \/ blk[Last(c)].parent = 0 THEN c
  ELSE Append(c, blk[Last(c)].parent)
Ancestry(blk, snap) ==
  LET parents[n \in 0 .. NBLOCKS] ==
        IF n = 0 THEN <<snap>> ELSE FollowParent(blk, parents[n - 1])
  IN parents[NBLOCKS]

(***************************************************************************)
(* hexafs_snap_find, timels and setfallback can follow the parent pointers *)
(* from the root on disk to the first snapshot: every block on the way is  *)
(* an allocated snapshot and there is no cycle.                            *)
(***************************************************************************)
SnapshotChainIntact ==
  LET chain == Ancestry(disk.blk, disk.sb)
  IN disk.sb \in Block =>
       /\ IsInjective(chain)
       /\ \A i \in DOMAIN chain : chain[i] \in disk.bmp /\ disk.blk[chain[i]].kind = "snap"

(***************************************************************************)
(* What the documentation says of persistence.                             *)
(***************************************************************************)
\* README.md: "On subsequent boots, users are loaded from disk automatically".
UsersSurviveReboot ==
  on /\ hist.last = "boot" /\ hist.clean /\ hist.boots > 1 => mem.users = hist.shut.users

\* README.md: abstraction chains remove the limit on entries; what a session
\* saved, the next boot loads.
FormsSurviveReboot ==
  on /\ hist.last = "boot" /\ hist.clean /\ hist.shutSaved =>
    Ordinary(mem.forms) = Ordinary(hist.shut.forms)

\* README.md: "Crash-safe metadata updates": power loss during a command
\* leaves the accounts as they were before or after it.
UsersCrashSafe ==
  ~on /\ hist.last = "data" => Recovered.users \in {hist.base.users, hist.shut.users}
=============================================================================
