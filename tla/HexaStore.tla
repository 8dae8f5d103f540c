----------------------------- MODULE HexaStore -----------------------------
(***************************************************************************)
(* The HEXAFS store: block allocator, objects, abstractions (directories), *)
(* snapshots and transactions of hexafs_disk.c and hexafs.c.               *)
(*                                                                         *)
(* Each C function is an operator from the state of the running store to   *)
(* the state it leaves.  That state is a record:                           *)
(*   blk   the object blocks as hexafs_block_read sees them                *)
(*   bmp   alloc_bitmap, as the set of allocated object blocks             *)
(*   bd    alloc_bitmap_dirty           hint  next_alloc_hint              *)
(*   root  sb_cache.root_snap_block     tx    hexafs_current_tx            *)
(*   log   the sector writes issued so far, oldest first                   *)
(*   r     the value the last function returned (0 is failure)             *)
(*   full  an allocation has failed     refused  an add_entry has failed   *)
(* A running function is atomic for its callers (nothing else in the       *)
(* kernel touches the store) but not for the disk: power may fail between  *)
(* any two writes of log.  Sector writes succeed here; what the block      *)
(* cache makes of failing ones is the subject of BlockCache.  The two      *)
(* allocator sectors are one write: object blocks all lie in the first.    *)
(***************************************************************************)
EXTENDS Naturals, Sequences, FiniteSets, FiniteSetsExt, SequencesExt

CONSTANTS NBLOCKS,          \* object blocks: HEXAFS_DISK_BLOCKS - HEXAFS_OBJECT_LBA
          ABS_MAX_ENTRIES,  \* entries of one abstraction block
          RECORDS_PER_BLOCK, \* records of a table that fit a content block
          FormBlocks        \* form text -> content blocks it takes, 1..4 (texts of up
                            \* to 2038 bytes: form_from_fentry cuts longer ones)

ASSUME StoreAssumption == /\ NBLOCKS \in Nat \ {0}
                          /\ ABS_MAX_ENTRIES \in Nat \ {0}
                          /\ RECORDS_PER_BLOCK \in Nat \ {0}
                          /\ \A c \in DOMAIN FormBlocks : FormBlocks[c] \in 1 .. 4

\* Object block 1 is HEXAFS_OBJECT_LBA; 0 stands for "no block" as in the code.
Block == 1 .. NBLOCKS

(***************************************************************************)
(* What a sector holds.  crc says whether the stored checksum of an        *)
(* abstraction block is that of its contents; next is the chain pointer    *)
(* kept in pad[0..3].  The size of an object counts the records of a table. *)
(* The checksums of objects and snapshots are written but never refuse     *)
(* anything.                                                               *)
(***************************************************************************)
Zero == [kind |-> "zero"]
Obj(type, cb, size) == [kind |-> "obj", type |-> type, cb |-> cb, size |-> size]
Data(p, i) == [kind |-> "data", of |-> p, part |-> i]
Snap(parent, rootObj) == [kind |-> "snap", parent |-> parent, rootObj |-> rootObj]
Abs(entries, next, crc) == [kind |-> "abs", entries |-> entries, next |-> next, crc |-> crc]

(***************************************************************************)
(* What an object can contain.  k is the layout of the bytes: "form" (10   *)
(* bytes of metadata, then the text t), "users" and "pimp" (tables, list). *)
(* "cutusers" and "cutpimp" are such tables after a trip through the form  *)
(* layout, which replaces the 10 bytes at the front (see AsForm).          *)
(***************************************************************************)
Form(t) == [k |-> "form", t |-> t, list |-> <<>>]
Users(u) == [k |-> "users", t |-> "", list |-> u]
Pimp(p) == [k |-> "pimp", t |-> "", list |-> p]
NoData == [k |-> "none", t |-> "", list |-> <<>>]
Torn == [k |-> "torn", t |-> "", list |-> <<>>]

\* nblocks of hexafs_object_write_data.
BlocksOf(p) == CASE p.k = "form" -> FormBlocks[p.t]
                 [] p.k \in {"users", "cutusers", "pimp", "cutpimp"} ->
                      (Len(p.list) + RECORDS_PER_BLOCK - 1) \div RECORDS_PER_BLOCK
                 [] OTHER -> 1

\* The C idiom  x = f(); if (!x) return 0; ...  : Then is what follows.
OnSuccess(a, Then(_)) == IF a.r = 0 THEN a ELSE Then(a)

(***************************************************************************)
(* Block layer.                                                            *)
(***************************************************************************)
block_write(s, b, v) ==
  [s EXCEPT !.blk[b] = v, !.log = Append(@, [to |-> "blk", b |-> b, v |-> v])]

\* hexafs_alloc_block: next fit from the hint, then from the start; the block
\* is cleared on disk.
FreeFrom(s) ==
  LET free == Block \ s.bmp
      up == {b \in free : b >= s.hint}
  IN IF up # {} THEN up ELSE free

claim_block(s, b) ==
  [block_write(s, b, Zero) EXCEPT !.bmp = @ \cup {b}, !.bd = TRUE, !.hint = b + 1, !.r = b]

alloc_block(s) == IF s.bmp = Block THEN [s EXCEPT !.r = 0, !.full = TRUE]
                  ELSE claim_block(s, Min(FreeFrom(s)))

free_block(s, b) == [s EXCEPT !.bmp = @ \ {b}, !.bd = TRUE,
                              !.hint = IF b < @ THEN b ELSE @]

save_bitmap(s) ==
  IF s.bd THEN [s EXCEPT !.bd = FALSE, !.log = Append(@, [to |-> "bmp", v |-> s.bmp])]
  ELSE s

write_superblock(s) == [s EXCEPT !.log = Append(@, [to |-> "sb", v |-> s.root])]

(***************************************************************************)
(* Objects.                                                                *)
(***************************************************************************)
object_alloc(s, type) ==
  OnSuccess(alloc_block(s), LAMBDA a : block_write(a, a.r, Obj(type, <<>>, 0)))

\* hexafs_object_write_data: content blocks the object has are overwritten in
\* place, missing ones allocated, spare ones forgotten; the object block last.
\* A failed allocation leaves the earlier blocks written and the object as is.
ContentBlock(a, old, i) == IF i <= Len(old) THEN [a EXCEPT !.r = old[i]] ELSE alloc_block(a)

FillBlock(n, p, i) == [block_write(n, n.r, Data(p, i)) EXCEPT !.cb = Append(@, n.r)]

WriteBlock(a, old, p, i) ==
  OnSuccess(a, LAMBDA c :
    OnSuccess(ContentBlock(c, old, i), LAMBDA n : FillBlock(n, p, i)))

WriteContent(s, old, p) ==
  LET after[i \in 0 .. BlocksOf(p)] ==
        IF i = 0 THEN s ELSE WriteBlock(after[i - 1], old, p, i)
  IN after[BlocksOf(p)]

object_write_data(s, o, p) ==
  IF s.blk[o].kind # "obj" THEN [s EXCEPT !.r = 0]
  ELSE OnSuccess(WriteContent([s EXCEPT !.r = o, !.cb = <<>>], s.blk[o].cb, p),
                 LAMBDA d : [block_write(d, o, Obj(s.blk[o].type, d.cb, Len(p.list)))
                               EXCEPT !.r = o])

\* A table p in an object whose size is still that of an earlier version with
\* n records: load_users refuses a count the size does not cover, while
\* pimp_load_rules takes n rules, blank ones after the last.
Sized(p, n) ==
  IF p.k \in {"pimp", "cutpimp"}
  THEN [p EXCEPT !.list = [i \in 1 .. n |-> IF i <= Len(p.list) THEN p.list[i] ELSE "blank"]]
  ELSE IF Len(p.list) <= n THEN p ELSE NoData

\* hexafs_object_read_data: blocks of different versions of a table read as a
\* table that nobody wrote.
object_read_data(blk, o) ==
  LET cb == blk[o].cb
      first == blk[cb[1]].of
  IN IF blk[o].kind # "obj" \/ cb = <<>> THEN NoData
     ELSE IF blk[cb[1]].kind # "data" THEN Torn
     ELSE IF \A i \in DOMAIN cb : blk[cb[i]] = Data(first, i) THEN Sized(first, blk[o].size)
     ELSE IF Len(first.list) > blk[o].size THEN NoData ELSE Torn

(***************************************************************************)
(* Abstractions.                                                           *)
(***************************************************************************)
abstraction_create(s) ==
  OnSuccess(alloc_block(s), LAMBDA a : block_write(a, a.r, Abs(<<>>, 0, TRUE)))

\* The blocks of an abstraction along hexafs_abstraction_next_chain.
FollowNext(blk, c) ==
  IF blk[Last(c)].kind # "abs" \/ blk[Last(c)].next = 0 THEN c
  ELSE Append(c, blk[Last(c)].next)

Chain(blk, abs) ==
  LET walk[n \in 0 .. NBLOCKS] == IF n = 0 THEN <<abs>> ELSE FollowNext(blk, walk[n - 1])
  IN walk[NBLOCKS]

\* hexafs_abstraction_set_chain does not recompute the checksum.
set_chain(s, b, next) == block_write(s, b, [s.blk[b] EXCEPT !.next = next, !.crc = FALSE])

\* hexafs_abstraction_add_entry: into the first block of the chain with room,
\* stopping with failure at the first bad checksum; else into a new block.
Sound(blk, b) == blk[b].kind = "abs" /\ blk[b].crc

AppendEntry(s, b, e) ==
  IF ~Sound(s.blk, b) THEN [s EXCEPT !.r = 0, !.refused = TRUE]
  ELSE [block_write(s, b, [s.blk[b] EXCEPT !.entries = Append(@, e)]) EXCEPT !.r = 1]

ExtendChain(s, last, e) ==
  OnSuccess(abstraction_create(s), LAMBDA a :
    [block_write(set_chain(a, last, a.r), a.r, Abs(<<e>>, 0, TRUE)) EXCEPT !.r = 1])

AddToChain(s, chain, e) ==
  LET stop == SelectInSeq(chain, LAMBDA b : \/ ~Sound(s.blk, b)
                                           \/ Len(s.blk[b].entries) < ABS_MAX_ENTRIES)
  IN IF stop # 0 THEN AppendEntry(s, chain[stop], e) ELSE ExtendChain(s, Last(chain), e)

add_entry(s, abs, name, o) ==
  AddToChain(s, Chain(s.blk, abs), [name |-> name, obj |-> o])

\* hexafs_abstraction_find: the object of the first entry of that name.
FindIn(blk, b, name) ==
  IF blk[b].kind # "abs" THEN 0 ELSE SelectInSeq(blk[b].entries, LAMBDA e : e.name = name)

FindAlong(blk, chain, name) ==
  LET i == SelectInSeq(chain, LAMBDA b : FindIn(blk, b, name) # 0)
  IN IF i = 0 THEN 0 ELSE blk[chain[i]].entries[FindIn(blk, chain[i], name)].obj

abstraction_find(blk, abs, name) == FindAlong(blk, Chain(blk, abs), name)

(***************************************************************************)
(* Transactions and snapshots.                                             *)
(***************************************************************************)
NoTx == [active |-> FALSE, dirty |-> FALSE, newRoot |-> 0]

tx_begin(s) == IF s.tx.active THEN s
               ELSE [s EXCEPT !.tx = [active |-> TRUE, dirty |-> FALSE, newRoot |-> 0]]

\* Mutant: the superblock goes out before the bitmap.
tx_commit_SuperFirst(s) ==
  IF ~s.tx.active THEN s
  ELSE [(IF s.tx.dirty THEN save_bitmap(write_superblock(s)) ELSE s)
          EXCEPT !.tx.active = FALSE]

tx_commit(s) ==
  IF ~s.tx.active THEN s
  ELSE [(IF s.tx.dirty THEN write_superblock(save_bitmap(s)) ELSE s)
          EXCEPT !.tx.active = FALSE]

tx_abort(s) == [s EXCEPT !.tx.active = FALSE]

\* hexafs_snap_create: the new snapshot becomes the root in sb_cache only.
snap_create(s) ==
  IF ~s.tx.active \/ ~s.tx.dirty THEN [s EXCEPT !.r = 0]
  ELSE OnSuccess(alloc_block(s), LAMBDA a :
         [block_write(a, a.r, Snap(s.root, s.tx.newRoot)) EXCEPT !.root = a.r])

\* The end of every update: newRoot becomes the root of a new snapshot.
publish(s, newRoot) ==
  tx_commit(snap_create([s EXCEPT !.tx.newRoot = newRoot, !.tx.dirty = TRUE]))
=============================================================================
