-------------------------- MODULE HexaStoreProofs --------------------------
(***************************************************************************)
(* What the functions of the HEXAFS store do to the blocks, the bitmap and *)
(* the sector writes issued, for every size of the disk: the lemmas on     *)
(* which the proofs of HexaFSProofs rest.                                  *)
(***************************************************************************)
EXTENDS HexaFS, WellFoundedInduction, SequenceTheorems, TLAPS

-----------------------------------------------------------------------------
(***************************************************************************)
(* Numbers, and functions defined by recursion on them.  The library       *)
(* states these facts for an operator; here they are about sets.           *)
(***************************************************************************)

\* Among numbers there is always a least one.
LEMMA LeastOf ==
  ASSUME NEW S \in SUBSET Nat, S # {}
  PROVE  \E x \in S : \A y \in S : x <= y
<1> DEFINE R == OpToRel(<, Nat)
<1>1. IsWellFoundedOn(R, Nat) BY NatLessThanWellFounded
<1>2. ASSUME NEW x \in Nat, NEW y \in Nat, y < x PROVE <<y, x>> \in R
  <2>1. <<y, x>> \in Nat \X Nat OBVIOUS
  <2>2. <<y, x>>[1] < <<y, x>>[2] BY <1>2
  <2> QED BY ONLY <2>1, <2>2, Zenon DEF OpToRel
<1> HIDE DEF R
<1>3. PICK x \in S : \A y \in S : ~(<<y, x>> \in R) BY <1>1, WFMin
<1>4. \A y \in S : ~(y < x) BY <1>2, <1>3
<1> QED BY <1>4

\* A set of numbers with 0 and with the successor of each is all of them.
LEMMA AllNumbers ==
  ASSUME NEW T, 0 \in T, \A n \in Nat : n \in T => n + 1 \in T
  PROVE  \A n \in Nat : n \in T
<1> SUFFICES ASSUME NEW m \in Nat, m \notin T PROVE FALSE OBVIOUS
<1> DEFINE S == {n \in Nat : n \notin T}
<1>1. PICK x \in S : \A y \in S : x <= y BY LeastOf
<1>2. x # 0 /\ x \in Nat OBVIOUS
<1>3. x - 1 \in Nat /\ x - 1 \notin S BY <1>1, <1>2
<1>4. x - 1 \in T BY <1>3
<1> QED BY <1>2, <1>3, <1>4

\* F is one step of a recursion over 1 .. m in the set S; f is the recursion.
StepOn(F, S, m) == F \in [S \X (1 .. m) -> S]
Iterates(f, S, x0, F, m) == /\ f \in [0 .. m -> S] /\ f[0] = x0
                            /\ \A n \in 1 .. m : f[n] = F[<<f[n - 1], n>>]
\* g obeys the recursion as long as its values are in S.
Obeys(g, S, x0, F, m) == /\ g[0] = x0
                         /\ \A n \in 1 .. m : g[n - 1] \in S => g[n] = F[<<g[n - 1], n>>]

\* A recursion whose steps stay in a set exists.
LEMMA RecursionExists ==
  ASSUME NEW S, NEW x0 \in S, NEW m \in Nat, NEW F, StepOn(F, S, m)
  PROVE  \E f : Iterates(f, S, x0, F, m)
<1> DEFINE T == {n \in Nat : n <= m => \E f : Iterates(f, S, x0, F, n)}
<1>1. 0 \in T
  <2>1. Iterates([i \in 0 .. 0 |-> x0], S, x0, F, 0) BY DEF Iterates
  <2> QED BY <2>1
<1>2. ASSUME NEW n \in Nat, n \in T PROVE n + 1 \in T
  <2> SUFFICES ASSUME n + 1 <= m PROVE \E f : Iterates(f, S, x0, F, n + 1) OBVIOUS
  <2>1. PICK g : Iterates(g, S, x0, F, n) BY <1>2
  <2> DEFINE y == F[<<g[n], n + 1>>]
             k == [i \in 0 .. n + 1 |-> IF i <= n THEN g[i] ELSE y]
  <2>2. y \in S
    <3>1. g[n] \in S /\ n + 1 \in 1 .. m BY <2>1 DEF Iterates
    <3>2. <<g[n], n + 1>> \in S \X (1 .. m) BY <3>1
    <3> QED BY <3>2 DEF StepOn
  <2>3. \A i \in 0 .. n : k[i] = g[i] OBVIOUS
  <2>4. k[n + 1] = y OBVIOUS
  <2>5. k \in [0 .. n + 1 -> S] BY <2>1, <2>2 DEF Iterates
  <2> HIDE DEF k
  <2>6. ASSUME NEW i \in 1 .. n + 1 PROVE k[i] = F[<<k[i - 1], i>>]
    <3>1. CASE i <= n
      <4>1. i \in 1 .. n /\ i \in 0 .. n /\ i - 1 \in 0 .. n BY <3>1
      <4>2. k[i] = g[i] /\ k[i - 1] = g[i - 1] BY <4>1, <2>3
      <4> QED BY <4>1, <4>2, <2>1 DEF Iterates
    <3>2. CASE i = n + 1
      <4>1. i - 1 = n /\ n \in 0 .. n BY <3>2
      <4>2. k[i - 1] = g[n] BY <4>1, <2>3
      <4> QED BY <4>2, <3>2, <2>4
    <3> QED BY <3>1, <3>2
  <2>7. k[0] = x0 BY <2>1, <2>3 DEF Iterates
  <2>8. Iterates(k, S, x0, F, n + 1) BY <2>5, <2>6, <2>7 DEF Iterates
  <2> QED BY <2>8
<1>3. \A n \in Nat : n \in T
  <2> HIDE DEF T
  <2> QED BY <1>1, <1>2, AllNumbers
<1> QED BY <1>3

\* Its equation has one solution.
LEMMA RecursionUnique ==
  ASSUME NEW S, NEW x0, NEW m \in Nat, NEW F, NEW f, Iterates(f, S, x0, F, m),
         NEW g, Obeys(g, S, x0, F, m)
  PROVE  \A n \in 0 .. m : g[n] = f[n]
<1> DEFINE T == {n \in Nat : n <= m => g[n] = f[n]}
<1>1. 0 \in T BY DEF Iterates, Obeys
<1>2. ASSUME NEW n \in Nat, n \in T PROVE n + 1 \in T
  <2>1. CASE n + 1 <= m
    <3>1. n + 1 \in 1 .. m /\ (n + 1) - 1 = n /\ n <= m BY <2>1
    <3>2. f[n] = g[n] /\ f[n] \in S BY <1>2, <3>1 DEF Iterates
    <3>3. f[n + 1] = F[<<f[n], n + 1>>] BY <3>1 DEF Iterates
    <3>4. g[n + 1] = F[<<g[n], n + 1>>] BY <3>1, <3>2 DEF Obeys
    <3> QED BY <3>2, <3>3, <3>4
  <2>2. CASE ~(n + 1 <= m) BY <2>2
  <2> QED BY <2>1, <2>2
<1>3. \A n \in Nat : n \in T
  <2> HIDE DEF T
  <2> QED BY <1>1, <1>2, AllNumbers
<1> QED BY <1>3

-----------------------------------------------------------------------------
(***************************************************************************)
(* What the sectors hold.                                                  *)
(***************************************************************************)
Flag == BOOLEAN
AnyName == Names \cup {DotUsers, DotPimp}
Item == PimpUsers \cup {"root", "user", "changed", "cut", "torn", "blank"}
Layout == {"form", "users", "pimp", "cutusers", "cutpimp", "none", "torn"}

\* Contents of objects: a form has a text and no list, a table of users a user.
RawPayload == [k : Layout, t : DOMAIN FormBlocks \cup {""}, list : Seq(Item)]
Payload == {p \in RawPayload :
              /\ p.k = "form" => p.t \in DOMAIN FormBlocks /\ p.list = <<>>
              /\ p.k \in {"users", "cutusers"} => Len(p.list) \in 1 .. MAX_USERS}

Entry == [name : AnyName, obj : Block]
ObjSector == [kind : {"obj"}, type : {"FORM", "CONFIG"}, cb : Seq(Block), size : Nat]
DataSector == [kind : {"data"}, of : Payload, part : Nat]
SnapSector == [kind : {"snap"}, parent : 0 .. NBLOCKS, rootObj : 0 .. NBLOCKS]
AbsSector == [kind : {"abs"}, entries : Seq(Entry), next : 0 .. NBLOCKS, crc : Flag]
Sector == {Zero} \cup ObjSector \cup DataSector \cup SnapSector \cup AbsSector

Blocks == [Block -> Sector]
BlkWrite == [to : {"blk"}, b : Block, v : Sector]
BmpWrite == [to : {"bmp"}, v : SUBSET Block]
SbWrite == [to : {"sb"}, v : 0 .. NBLOCKS]
Write == BlkWrite \cup BmpWrite \cup SbWrite

Tx == [active : Flag, dirty : Flag, newRoot : 0 .. NBLOCKS]
Store == [blk : Blocks, bmp : SUBSET Block, bd : Flag, hint : 1 .. NBLOCKS + 1,
          root : 0 .. NBLOCKS, tx : Tx, log : Seq(Write), r : 0 .. NBLOCKS, cb : Seq(Block),
          full : Flag, refused : Flag]
Disk == [sb : 0 .. NBLOCKS + 1, bmp : SUBSET Block, blk : Blocks]

\* A form in memory; what a user named is a text.
RawForm == [name : AnyName, body : Payload]
FormRec == {f \in RawForm : f.name \in Names => f.body.k = "form"}

\* TRUE and FALSE are flags.
LEMMA Flags == TRUE \in Flag /\ FALSE \in Flag
BY Zenon DEF Flag

\* The kind of a sector decides its fields.
LEMMA SectorFacts ==
  ASSUME NEW v \in Sector
  PROVE  /\ v.kind \in {"zero", "obj", "data", "snap", "abs"}
         /\ v.kind = "obj" => v \in ObjSector
         /\ v.kind = "data" => v \in DataSector
         /\ v.kind = "snap" => v \in SnapSector
         /\ v.kind = "abs" => v \in AbsSector
<1>1. CASE v = Zero BY <1>1 DEF Zero
<1>2. CASE v \in ObjSector BY <1>2 DEF ObjSector
<1>3. CASE v \in DataSector BY <1>3 DEF DataSector
<1>4. CASE v \in SnapSector BY <1>4 DEF SnapSector
<1>5. CASE v \in AbsSector BY <1>5 DEF AbsSector
<1> QED BY <1>1, <1>2, <1>3, <1>4, <1>5 DEF Sector

\* The fields of an object block.
LEMMA ObjFacts ==
  ASSUME NEW v \in Sector, v.kind = "obj"
  PROVE  v.type \in {"FORM", "CONFIG"} /\ v.cb \in Seq(Block) /\ v.size \in Nat
BY SectorFacts DEF ObjSector

\* The fields of a content block.
LEMMA DataFacts ==
  ASSUME NEW v \in Sector, v.kind = "data"
  PROVE  v.of \in Payload /\ v.part \in Nat
BY SectorFacts DEF DataSector

\* The fields of a snapshot block.
LEMMA SnapFacts ==
  ASSUME NEW v \in Sector, v.kind = "snap"
  PROVE  v.parent \in 0 .. NBLOCKS /\ v.rootObj \in 0 .. NBLOCKS
BY SectorFacts DEF SnapSector

\* The fields of an abstraction block.
LEMMA AbsFacts ==
  ASSUME NEW v \in Sector, v.kind = "abs"
  PROVE  v.entries \in Seq(Entry) /\ v.next \in 0 .. NBLOCKS /\ v.crc \in Flag
BY SectorFacts DEF AbsSector

\* The entries of an abstraction block name objects.
LEMMA EntryFacts ==
  ASSUME NEW v \in Sector, v.kind = "abs", NEW i \in DOMAIN v.entries
  PROVE  v.entries[i] \in Entry /\ v.entries[i].name \in AnyName /\ v.entries[i].obj \in Block
<1>1. v.entries \in Seq(Entry) BY AbsFacts
<1>2. v.entries[i] \in Entry BY <1>1
<1> QED BY <1>2 DEF Entry

\* The kinds of sectors are sectors.
LEMMA SectorKinds ==
  /\ Zero \in Sector /\ ObjSector \subseteq Sector /\ DataSector \subseteq Sector
  /\ SnapSector \subseteq Sector /\ AbsSector \subseteq Sector
BY DEF Sector

\* What the constructors of sectors make.
LEMMA ZeroMade == Zero \in Sector /\ Zero.kind = "zero"
BY SectorKinds DEF Zero

\* An object block as it is written.
LEMMA ObjMade ==
  ASSUME NEW t \in {"FORM", "CONFIG"}, NEW c \in Seq(Block), NEW n \in Nat
  PROVE  /\ Obj(t, c, n) \in Sector /\ Obj(t, c, n).kind = "obj" /\ Obj(t, c, n).cb = c
         /\ Obj(t, c, n).type = t /\ Obj(t, c, n).size = n
<1>1. Obj(t, c, n) \in ObjSector BY DEF Obj, ObjSector
<1> QED BY <1>1, SectorKinds DEF Obj

\* A content block as it is written.
LEMMA DataMade ==
  ASSUME NEW p \in Payload, NEW i \in Nat
  PROVE  Data(p, i) \in Sector /\ Data(p, i).kind = "data" /\ Data(p, i).of = p
<1>1. Data(p, i) \in DataSector BY DEF Data, DataSector
<1> QED BY <1>1, SectorKinds DEF Data

\* A snapshot block as it is written.
LEMMA SnapMade ==
  ASSUME NEW a \in 0 .. NBLOCKS, NEW b \in 0 .. NBLOCKS
  PROVE  /\ Snap(a, b) \in Sector /\ Snap(a, b).kind = "snap"
         /\ Snap(a, b).parent = a /\ Snap(a, b).rootObj = b
<1>1. Snap(a, b) \in SnapSector BY DEF Snap, SnapSector
<1> QED BY <1>1, SectorKinds DEF Snap

\* An abstraction block as it is written.
LEMMA AbsMade ==
  ASSUME NEW e \in Seq(Entry), NEW n \in 0 .. NBLOCKS, NEW c \in Flag
  PROVE  /\ Abs(e, n, c) \in Sector /\ Abs(e, n, c).kind = "abs"
         /\ Abs(e, n, c).entries = e /\ Abs(e, n, c).next = n /\ Abs(e, n, c).crc = c
<1>1. Abs(e, n, c) \in AbsSector BY DEF Abs, AbsSector
<1> QED BY <1>1, SectorKinds DEF Abs

\* Each kind of sector write is a write.
LEMMA Writes ==
  /\ \A b \in Block, v \in Sector : [to |-> "blk", b |-> b, v |-> v] \in Write
  /\ \A B \in SUBSET Block : [to |-> "bmp", v |-> B] \in Write
  /\ \A n \in 0 .. NBLOCKS : [to |-> "sb", v |-> n] \in Write
<1>1. ASSUME NEW b \in Block, NEW v \in Sector
      PROVE  [to |-> "blk", b |-> b, v |-> v] \in BlkWrite
  BY DEF BlkWrite
<1>2. ASSUME NEW B \in SUBSET Block PROVE [to |-> "bmp", v |-> B] \in BmpWrite
  BY DEF BmpWrite
<1>3. ASSUME NEW n \in 0 .. NBLOCKS PROVE [to |-> "sb", v |-> n] \in SbWrite
  BY DEF SbWrite
<1> QED BY <1>1, <1>2, <1>3 DEF Write

-----------------------------------------------------------------------------
(***************************************************************************)
(* The primitive steps of the store: which fields they change.             *)
(***************************************************************************)

\* What no function of the store between two commits touches: the root, the
\* transaction, and failures are never forgotten.
Frame(s, t) == /\ t.root = s.root /\ t.tx = s.tx
               /\ s.full => t.full
               /\ s.refused => t.refused

\* The fields of a store.
LEMMA StoreFields ==
  ASSUME NEW s \in Store
  PROVE  /\ s.blk \in Blocks /\ s.bmp \subseteq Block /\ s.hint \in 1 .. NBLOCKS + 1
         /\ s.root \in 0 .. NBLOCKS /\ s.tx \in Tx /\ s.log \in Seq(Write)
         /\ s.r \in 0 .. NBLOCKS /\ s.cb \in Seq(Block)
BY DEF Store

\* A sector write changes one block and is logged.
LEMMA BlockWriteFields ==
  ASSUME NEW s \in Store, NEW b \in Block, NEW v \in Sector
  PROVE  LET t == block_write(s, b, v) IN
         /\ t \in Store /\ Frame(s, t)
         /\ t.blk = [s.blk EXCEPT ![b] = v]
         /\ t.log = Append(s.log, [to |-> "blk", b |-> b, v |-> v])
         /\ t.bmp = s.bmp /\ t.bd = s.bd /\ t.r = s.r /\ t.cb = s.cb
         /\ t.full = s.full /\ t.refused = s.refused
<1> DEFINE B == [s.blk EXCEPT ![b] = v]
           L == Append(s.log, [to |-> "blk", b |-> b, v |-> v])
<1>1. B \in Blocks BY DEF Store, Blocks
<1>2. L \in Seq(Write) BY Writes DEF Store
<1>3. block_write(s, b, v) = [s EXCEPT !.blk = B, !.log = L] BY DEF block_write
<1> HIDE DEF B, L
<1>4. block_write(s, b, v) \in Store BY <1>1, <1>2, <1>3 DEF Store
<1> QED BY <1>3, <1>4 DEF Store, B, L, Frame

\* Only the returned value changes.
LEMMA ReturnFields ==
  ASSUME NEW s \in Store, NEW x \in 0 .. NBLOCKS
  PROVE  LET t == [s EXCEPT !.r = x] IN
         /\ t \in Store /\ Frame(s, t) /\ t.r = x
         /\ t.blk = s.blk /\ t.log = s.log /\ t.bmp = s.bmp /\ t.bd = s.bd /\ t.cb = s.cb
         /\ t.full = s.full /\ t.refused = s.refused
BY DEF Store, Frame

\* The least block of a set of blocks is one of them.
LEMMA MinOf ==
  ASSUME NEW S \in SUBSET Nat, S # {}
  PROVE  Min(S) \in S /\ \A y \in S : Min(S) <= y
<1>1. \E x \in S : \A y \in S : x <= y BY LeastOf
<1> QED BY <1>1 DEF Min

\* The block hexafs_alloc_block takes was free, when there is a free one.
LEMMA FreeFromFacts ==
  ASSUME NEW s \in Store, s.bmp # Block
  PROVE  Min(FreeFrom(s)) \in Block \ s.bmp
<1>1. FreeFrom(s) \subseteq Block \ s.bmp /\ FreeFrom(s) # {} BY DEF FreeFrom, Store
<1>2. FreeFrom(s) \in SUBSET Nat BY <1>1 DEF Block
<1> QED BY <1>1, <1>2, MinOf

\* hexafs_alloc_block on a full disk changes nothing but the answer.
LEMMA AllocFails ==
  ASSUME NEW s \in Store, s.bmp = Block
  PROVE  LET t == alloc_block(s) IN
         /\ t \in Store /\ Frame(s, t) /\ t.r = 0 /\ t.full
         /\ t.blk = s.blk /\ t.log = s.log /\ t.bmp = s.bmp /\ t.bd = s.bd /\ t.cb = s.cb
         /\ t.refused = s.refused
<1>1. alloc_block(s) = [s EXCEPT !.r = 0, !.full = TRUE] BY DEF alloc_block
<1>2. 0 \in 0 .. NBLOCKS BY StoreAssumption
<1> QED BY <1>1, <1>2, Flags DEF Store, Frame

\* Otherwise it takes a block that was free, marks it and clears it on disk.
LEMMA AllocSucceeds ==
  ASSUME NEW s \in Store, s.bmp # Block
  PROVE  LET t == alloc_block(s)
             b == t.r
         IN /\ t \in Store /\ Frame(s, t) /\ b \in Block \ s.bmp
            /\ t.blk = [s.blk EXCEPT ![b] = Zero]
            /\ t.log = Append(s.log, [to |-> "blk", b |-> b, v |-> Zero])
            /\ t.bmp = s.bmp \cup {b} /\ t.bd /\ t.cb = s.cb
            /\ t.full = s.full /\ t.refused = s.refused
<1> DEFINE b == Min(FreeFrom(s))
           w == block_write(s, b, Zero)
           U == s.bmp \cup {b}
<1>1. b \in Block \ s.bmp BY FreeFromFacts
<1>2. alloc_block(s) = [w EXCEPT !.bmp = w.bmp \cup {b}, !.bd = TRUE, !.hint = b + 1, !.r = b]
  BY DEF alloc_block, claim_block
<1> HIDE DEF b
<1>3. /\ w \in Store /\ Frame(s, w) /\ w.blk = [s.blk EXCEPT ![b] = Zero]
      /\ w.log = Append(s.log, [to |-> "blk", b |-> b, v |-> Zero])
      /\ w.bmp = s.bmp /\ w.cb = s.cb /\ w.full = s.full /\ w.refused = s.refused
  BY <1>1, BlockWriteFields, ZeroMade
<1>4. U \subseteq Block /\ b + 1 \in 1 .. NBLOCKS + 1 /\ b \in 0 .. NBLOCKS
  BY <1>1, StoreAssumption DEF Store, Block
<1> HIDE DEF w, U
<1>5. alloc_block(s) = [w EXCEPT !.bmp = U, !.bd = TRUE, !.hint = b + 1, !.r = b]
  BY <1>2, <1>3 DEF U
<1>6. alloc_block(s) \in Store BY <1>3, <1>4, <1>5, Flags DEF Store
<1>7. /\ alloc_block(s).r = b /\ alloc_block(s).blk = w.blk /\ alloc_block(s).log = w.log
      /\ alloc_block(s).bmp = U /\ alloc_block(s).bd /\ alloc_block(s).cb = w.cb
      /\ alloc_block(s).root = w.root /\ alloc_block(s).tx = w.tx
      /\ alloc_block(s).full = w.full /\ alloc_block(s).refused = w.refused
  BY <1>3, <1>5 DEF Store
<1>8. Frame(s, alloc_block(s)) BY <1>3, <1>7 DEF Frame
<1> QED BY <1>1, <1>3, <1>6, <1>7, <1>8 DEF U

\* hexafs_free_block changes the bitmap only.
LEMMA FreeFields ==
  ASSUME NEW s \in Store, NEW b \in Block
  PROVE  LET t == free_block(s, b) IN
         /\ t \in Store /\ Frame(s, t) /\ t.bmp = s.bmp \ {b} /\ t.bd
         /\ t.blk = s.blk /\ t.log = s.log /\ t.cb = s.cb
         /\ t.full = s.full /\ t.refused = s.refused
<1> DEFINE B == s.bmp \ {b}
           H == IF b < s.hint THEN b ELSE s.hint
<1>1. B \in SUBSET Block /\ H \in 1 .. NBLOCKS + 1 BY StoreAssumption DEF Store, Block
<1>2. free_block(s, b) = [s EXCEPT !.bmp = B, !.bd = TRUE, !.hint = H] BY DEF free_block
<1> HIDE DEF B, H
<1>3. free_block(s, b) \in Store BY <1>1, <1>2, Flags DEF Store
<1> QED BY <1>2, <1>3 DEF Store, B, Frame

\* hexafs_save_bitmap writes the bitmap when it is dirty.
LEMMA SaveBitmapFields ==
  ASSUME NEW s \in Store
  PROVE  LET t == save_bitmap(s) IN
         /\ t \in Store /\ Frame(s, t) /\ ~t.bd /\ t.bmp = s.bmp /\ t.blk = s.blk
         /\ s.bd => t.log = Append(s.log, [to |-> "bmp", v |-> s.bmp])
         /\ ~s.bd => t.log = s.log
         /\ t.cb = s.cb /\ t.r = s.r /\ t.full = s.full /\ t.refused = s.refused
<1>1. Append(s.log, [to |-> "bmp", v |-> s.bmp]) \in Seq(Write) BY Writes DEF Store
<1>2. CASE ~s.bd
  <2>1. save_bitmap(s) = s BY <1>2 DEF save_bitmap
  <2> QED BY <2>1, <1>2 DEF Frame
<1>3. CASE s.bd
  <2> DEFINE L == Append(s.log, [to |-> "bmp", v |-> s.bmp])
  <2>1. save_bitmap(s) = [s EXCEPT !.bd = FALSE, !.log = L] BY <1>3 DEF save_bitmap
  <2> HIDE DEF L
  <2>2. L \in Seq(Write) BY <1>1 DEF L
  <2>3. save_bitmap(s) \in Store BY <2>1, <2>2, Flags DEF Store
  <2> QED BY <1>3, <2>1, <2>3 DEF Store, Frame, L
<1> QED BY <1>2, <1>3

\* hexafs_write_superblock writes the root kept in memory.
LEMMA WriteSuperFields ==
  ASSUME NEW s \in Store
  PROVE  LET t == write_superblock(s) IN
         /\ t \in Store /\ Frame(s, t) /\ t.bd = s.bd /\ t.bmp = s.bmp /\ t.blk = s.blk
         /\ t.log = Append(s.log, [to |-> "sb", v |-> s.root])
         /\ t.cb = s.cb /\ t.r = s.r /\ t.full = s.full /\ t.refused = s.refused
<1> DEFINE L == Append(s.log, [to |-> "sb", v |-> s.root])
<1>1. L \in Seq(Write) BY Writes DEF Store
<1>2. write_superblock(s) = [s EXCEPT !.log = L] BY DEF write_superblock
<1> HIDE DEF L
<1> QED BY <1>1, <1>2 DEF Store, Frame, L

-----------------------------------------------------------------------------
(***************************************************************************)
(* The recursive definitions of the store: each has the values its         *)
(* equation says.                                                          *)
(***************************************************************************)

\* What Ordinary keeps, one form after the other.
LEMMA OrdinaryUnfold ==
  ASSUME NEW X, NEW q \in Seq(X)
  PROVE  \E k \in [0 .. Len(q) -> Seq(X)] :
           /\ k[0] = <<>> /\ Ordinary(q) = k[Len(q)]
           /\ \A n \in 1 .. Len(q) : k[n] = KeepNamed(k[n - 1], q[n])
<1> DEFINE m == Len(q)
           S == Seq(X)
           F == [x \in S \X (1 .. m) |-> KeepNamed(x[1], q[x[2]])]
           Rec(k) == [i \in 0 .. Len(q) |-> IF i = 0 THEN <<>> ELSE KeepNamed(k[i - 1], q[i])]
<1>1. m \in Nat /\ <<>> \in S OBVIOUS
<1>2. ASSUME NEW x \in S \X (1 .. m) PROVE F[x] \in S
  <2>1. q[x[2]] \in X OBVIOUS
  <2> QED BY <2>1 DEF KeepNamed
<1>3. StepOn(F, S, m) BY <1>2 DEF StepOn
<1>4. ASSUME NEW y \in S, NEW n \in 1 .. m PROVE F[<<y, n>>] = KeepNamed(y, q[n]) OBVIOUS
<1> HIDE DEF F, S
<1>5. PICK f : Iterates(f, S, <<>>, F, m) BY <1>1, <1>3, RecursionExists
<1>6. ASSUME NEW n \in 1 .. m PROVE f[n] = KeepNamed(f[n - 1], q[n])
  <2>1. f[n - 1] \in S /\ f[n] = F[<<f[n - 1], n>>] BY <1>5 DEF Iterates
  <2> QED BY <1>4, <2>1
<1>7. f = Rec(f) BY <1>5, <1>6 DEF Iterates
<1> DEFINE kept == CHOOSE kept : kept = Rec(kept)
<1>8. kept = Rec(kept)
  <2> HIDE DEF Rec
  <2> QED BY <1>7, Zenon
<1>9. Ordinary(q) = kept[Len(q)] BY DEF Ordinary
<1> HIDE DEF kept
<1>10. kept[0] = <<>> /\ \A n \in 1 .. m : kept[n] = KeepNamed(kept[n - 1], q[n]) BY <1>8
<1>11. Obeys(kept, S, <<>>, F, m) BY <1>4, <1>10 DEF Obeys
<1>12. \A n \in 0 .. m : kept[n] = f[n] BY <1>1, <1>5, <1>11, RecursionUnique
<1>13. Ordinary(q) = f[Len(q)] BY <1>9, <1>12
<1> QED BY <1>5, <1>6, <1>13 DEF S, Iterates

\* Sequences that agree on the forms of the user keep the same ones; forms
\* the system added at the end do not count.
LEMMA OrdinaryAgree ==
  ASSUME NEW X, NEW p \in Seq(X), NEW q \in Seq(X), Len(p) <= Len(q),
         \A i \in 1 .. Len(p) : /\ p[i].name = q[i].name
                                /\ q[i].name \in Names => p[i] = q[i],
         \A i \in 1 .. Len(q) : i > Len(p) => q[i].name \notin Names
  PROVE  Ordinary(p) = Ordinary(q)
<1>1. PICK j \in [0 .. Len(p) -> Seq(X)] :
        /\ j[0] = <<>> /\ Ordinary(p) = j[Len(p)]
        /\ \A n \in 1 .. Len(p) : j[n] = KeepNamed(j[n - 1], p[n])
  BY OrdinaryUnfold, ZenonT(30)
<1>2. PICK k \in [0 .. Len(q) -> Seq(X)] :
        /\ k[0] = <<>> /\ Ordinary(q) = k[Len(q)]
        /\ \A n \in 1 .. Len(q) : k[n] = KeepNamed(k[n - 1], q[n])
  BY OrdinaryUnfold, ZenonT(30)
<1> DEFINE T == {n \in Nat : n <= Len(q) => k[n] = j[IF n <= Len(p) THEN n ELSE Len(p)]}
<1>3. Len(p) \in Nat /\ Len(q) \in Nat OBVIOUS
<1>4. 0 \in T BY <1>1, <1>2, <1>3
<1>5. ASSUME NEW n \in Nat, n \in T PROVE n + 1 \in T
  <2> SUFFICES ASSUME n + 1 <= Len(q)
               PROVE  k[n + 1] = j[IF n + 1 <= Len(p) THEN n + 1 ELSE Len(p)]
    OBVIOUS
  <2>1. n + 1 \in 1 .. Len(q) /\ (n + 1) - 1 = n BY <1>3
  <2>2. k[n + 1] = KeepNamed(k[n], q[n + 1]) BY <1>2, <2>1
  <2>3. CASE n + 1 <= Len(p)
    <3>1. n + 1 \in 1 .. Len(p) /\ n <= Len(p) BY <2>3, <1>3
    <3>2. j[n + 1] = KeepNamed(j[n], p[n + 1]) BY <1>1, <3>1, <2>1
    <3>3. k[n] = j[n] BY <1>5, <3>1, <2>1
    <3>4. p[n + 1].name = q[n + 1].name /\ (q[n + 1].name \in Names => p[n + 1] = q[n + 1])
      BY <3>1
    <3> QED BY <2>2, <2>3, <3>2, <3>3, <3>4 DEF KeepNamed
  <2>4. CASE ~(n + 1 <= Len(p))
    <3>1. q[n + 1].name \notin Names BY <2>1, <2>4, <1>3
    <3>2. k[n + 1] = k[n] BY <3>1, <2>2 DEF KeepNamed
    <3>3. (IF n <= Len(p) THEN n ELSE Len(p)) = Len(p) BY <2>4, <1>3
    <3> QED BY <3>2, <3>3, <2>4, <1>5, <2>1
  <2> QED BY <2>3, <2>4
<1>6. \A n \in Nat : n \in T
  <2> HIDE DEF T
  <2> QED BY <1>4, <1>5, AllNumbers
<1>7. (IF Len(q) <= Len(p) THEN Len(q) ELSE Len(p)) = Len(p) BY <1>3
<1>8. k[Len(q)] = j[Len(p)] BY <1>3, <1>6, <1>7
<1> QED BY <1>1, <1>2, <1>8

\* Ordinary keeps the forms of the user and nothing else.
LEMMA OrdinaryElements ==
  ASSUME NEW X, NEW q \in Seq(X)
  PROVE  /\ Ordinary(q) \in Seq(X)
         /\ \A i \in 1 .. Len(Ordinary(q)) : \E j \in 1 .. Len(q) : Ordinary(q)[i] = q[j]
         /\ \A j \in 1 .. Len(q) : q[j].name \in Names =>
              \E i \in 1 .. Len(Ordinary(q)) : Ordinary(q)[i] = q[j]
<1>1. PICK k \in [0 .. Len(q) -> Seq(X)] :
        /\ k[0] = <<>> /\ Ordinary(q) = k[Len(q)]
        /\ \A n \in 1 .. Len(q) : k[n] = KeepNamed(k[n - 1], q[n])
  BY OrdinaryUnfold
<1> DEFINE Good(n) ==
      /\ \A i \in 1 .. Len(k[n]) : \E j \in 1 .. n : k[n][i] = q[j]
      /\ \A j \in 1 .. n : q[j].name \in Names => \E i \in 1 .. Len(k[n]) : k[n][i] = q[j]
           T == {n \in Nat : n <= Len(q) => Good(n)}
<1>2. Len(q) \in Nat OBVIOUS
<1>3. 0 \in T BY <1>1
<1>4. ASSUME NEW n \in Nat, n \in T PROVE n + 1 \in T
  <2> SUFFICES ASSUME n + 1 <= Len(q) PROVE Good(n + 1) OBVIOUS
  <2>1. n + 1 \in 1 .. Len(q) /\ (n + 1) - 1 = n /\ n <= Len(q) /\ n \in 0 .. Len(q) BY <1>2
  <2>2. k[n + 1] = KeepNamed(k[n], q[n + 1]) BY <1>1, <2>1
  <2>3. Good(n) /\ k[n] \in Seq(X) BY <1>1, <1>4, <2>1
  <2>4. CASE q[n + 1].name \notin Names
    <3>1. k[n + 1] = k[n] BY <2>2, <2>4 DEF KeepNamed
    <3>2. ASSUME NEW i \in 1 .. Len(k[n + 1]) PROVE \E j \in 1 .. n + 1 : k[n + 1][i] = q[j]
      BY <2>3, <3>1
    <3>3. ASSUME NEW j \in 1 .. n + 1, q[j].name \in Names
          PROVE  \E i \in 1 .. Len(k[n + 1]) : k[n + 1][i] = q[j]
      <4>1. j \in 1 .. n BY <3>3, <2>4
      <4> QED BY <2>3, <3>1, <3>3, <4>1
    <3> QED BY <3>2, <3>3
  <2>5. CASE q[n + 1].name \in Names
    <3>1. k[n + 1] = Append(k[n], q[n + 1]) BY <2>2, <2>5 DEF KeepNamed
    <3> DEFINE c == k[n]
    <3> HIDE DEF c
    <3>2. c \in Seq(X) /\ q[n + 1] \in X /\ k[n + 1] = Append(c, q[n + 1])
      BY <2>1, <2>3, <3>1 DEF c
    <3>3. /\ Len(k[n + 1]) = Len(c) + 1 /\ k[n + 1][Len(c) + 1] = q[n + 1]
          /\ \A i \in 1 .. Len(c) : k[n + 1][i] = c[i] /\ Len(c) \in Nat
      BY <3>2
    <3>4. Len(c) \in Nat BY <3>2
    <3>5. ASSUME NEW i \in 1 .. Len(k[n + 1]) PROVE \E j \in 1 .. n + 1 : k[n + 1][i] = q[j]
      <4>1. CASE i \in 1 .. Len(c)
        <5>1. PICK j \in 1 .. n : c[i] = q[j] BY <4>1, <2>3 DEF c
        <5> QED BY <5>1, <4>1, <3>3
      <4>2. CASE i = Len(c) + 1 BY <4>2, <3>3
      <4> QED BY <4>1, <4>2, <3>3, <3>4
    <3>6. ASSUME NEW j \in 1 .. n + 1, q[j].name \in Names
          PROVE  \E i \in 1 .. Len(k[n + 1]) : k[n + 1][i] = q[j]
      <4>1. CASE j = n + 1
        <5>1. Len(c) + 1 \in 1 .. Len(k[n + 1]) BY <3>3, <3>4
        <5> QED BY <5>1, <4>1, <3>3
      <4>2. CASE j \in 1 .. n
        <5>1. PICK i \in 1 .. Len(c) : c[i] = q[j] BY <4>2, <3>6, <2>3 DEF c
        <5>2. i \in 1 .. Len(k[n + 1]) BY <5>1, <3>3, <3>4
        <5> QED BY <5>1, <5>2, <3>3
      <4> QED BY <4>1, <4>2
    <3> QED BY <3>5, <3>6
  <2> QED BY <2>4, <2>5
<1>5. \A n \in Nat : n \in T
  <2> HIDE DEF T
  <2> QED BY <1>3, <1>4, AllNumbers
<1>6. Good(Len(q)) BY <1>2, <1>5
<1>7. Len(q) \in 0 .. Len(q) BY <1>2
<1>8. Ordinary(q) \in Seq(X) BY <1>1, <1>7
<1> QED BY <1>1, <1>6, <1>8

\* The walk along the chain is the one that starts and goes on like it.
Walks(f, blk, c) ==
  f = [n \in 0 .. NBLOCKS |-> IF n = 0 THEN c ELSE FollowNext(blk, f[n - 1])]

LEMMA ChainIs ==
  ASSUME NEW blk, NEW abs, NEW f, Walks(f, blk, <<abs>>)
  PROVE  Chain(blk, abs) = f[NBLOCKS]
<1> DEFINE Rec(k) == [n \in 0 .. NBLOCKS |-> IF n = 0 THEN <<abs>> ELSE FollowNext(blk, k[n - 1])]
           walk == CHOOSE walk : walk = Rec(walk)
           T == {n \in Nat : n <= NBLOCKS => walk[n] = f[n]}
<1>1. NBLOCKS \in Nat BY StoreAssumption
<1>2. walk = Rec(walk)
  <2>1. f = Rec(f) BY DEF Walks
  <2> HIDE DEF Rec
  <2> QED BY <2>1, Zenon
<1>3. Chain(blk, abs) = walk[NBLOCKS] BY DEF Chain
<1> HIDE DEF walk
<1>4. walk[0] = <<abs>> /\ \A n \in 1 .. NBLOCKS : walk[n] = FollowNext(blk, walk[n - 1])
  BY <1>1, <1>2
<1>5. f[0] = <<abs>> /\ \A n \in 1 .. NBLOCKS : f[n] = FollowNext(blk, f[n - 1])
  BY <1>1 DEF Walks
<1>6. 0 \in T BY <1>4, <1>5
<1>7. ASSUME NEW n \in Nat, n \in T PROVE n + 1 \in T
  <2> SUFFICES ASSUME n + 1 <= NBLOCKS PROVE walk[n + 1] = f[n + 1] OBVIOUS
  <2>1. n + 1 \in 1 .. NBLOCKS /\ (n + 1) - 1 = n /\ walk[n] = f[n] BY <1>1, <1>7
  <2> QED BY <2>1, <1>4, <1>5
<1>8. \A n \in Nat : n \in T
  <2> HIDE DEF T
  <2> QED BY <1>6, <1>7, AllNumbers
<1> QED BY <1>1, <1>3, <1>8

\* The chain of an abstraction stays in a set of blocks closed under next.
LEMMA ChainIn ==
  ASSUME NEW blk \in Blocks, NEW N \in SUBSET Block, NEW abs \in N,
         \A b \in N : blk[b].kind = "abs" /\ blk[b].next # 0 => blk[b].next \in N
  PROVE  Chain(blk, abs) \in Seq(N) /\ Len(Chain(blk, abs)) >= 1 /\ Chain(blk, abs)[1] = abs
<1> DEFINE S == {c \in Seq(N) : Len(c) >= 1 /\ c[1] = abs}
           F == [x \in S \X (1 .. NBLOCKS) |-> FollowNext(blk, x[1])]
<1>1. NBLOCKS \in Nat /\ <<abs>> \in S BY StoreAssumption
<1>2. ASSUME NEW c \in S PROVE FollowNext(blk, c) \in S
  <2>1. Last(c) \in N BY DEF Last
  <2>2. CASE blk[Last(c)].kind # "abs" \/ blk[Last(c)].next = 0 BY <2>2 DEF FollowNext
  <2>3. CASE blk[Last(c)].kind = "abs" /\ blk[Last(c)].next # 0
    <3> DEFINE y == blk[Last(c)].next
    <3>1. y \in N BY <2>1, <2>3
    <3>2. FollowNext(blk, c) = Append(c, y) BY <2>3 DEF FollowNext
    <3> HIDE DEF y
    <3>3. c \in Seq(N) /\ Len(c) >= 1 /\ c[1] = abs /\ Len(c) \in Nat OBVIOUS
    <3>4. Append(c, y) \in Seq(N) /\ Len(Append(c, y)) = Len(c) + 1 /\ Append(c, y)[1] = c[1]
      BY <3>1, <3>3
    <3>5. Len(Append(c, y)) >= 1 BY <3>3, <3>4
    <3> QED BY <3>2, <3>3, <3>4, <3>5
  <2> QED BY <2>2, <2>3
<1>3. StepOn(F, S, NBLOCKS) BY <1>2 DEF StepOn
<1>4. ASSUME NEW y \in S, NEW n \in 1 .. NBLOCKS PROVE F[<<y, n>>] = FollowNext(blk, y) OBVIOUS
<1> HIDE DEF F, S
<1>5. PICK f : Iterates(f, S, <<abs>>, F, NBLOCKS) BY <1>1, <1>3, RecursionExists
<1>6. ASSUME NEW n \in 1 .. NBLOCKS PROVE f[n] = FollowNext(blk, f[n - 1])
  <2>1. f[n - 1] \in S /\ f[n] = F[<<f[n - 1], n>>] BY <1>1, <1>5 DEF Iterates
  <2> QED BY <1>4, <2>1
<1>7. Walks(f, blk, <<abs>>) BY <1>1, <1>5, <1>6 DEF Iterates, Walks
<1>8. Chain(blk, abs) = f[NBLOCKS] BY <1>7, ChainIs
<1>9. Chain(blk, abs) \in S BY <1>1, <1>5, <1>8 DEF Iterates
<1> QED BY <1>9 DEF S

\* An abstraction of one block.
LEMMA ChainOne ==
  ASSUME NEW blk, NEW A, blk[A].next = 0
  PROVE  Chain(blk, A) = <<A>>
<1> DEFINE c == <<A>>
           f == [n \in 0 .. NBLOCKS |-> c]
           g == [n \in 0 .. NBLOCKS |-> IF n = 0 THEN c ELSE FollowNext(blk, f[n - 1])]
<1>1. NBLOCKS \in Nat BY StoreAssumption
<1>2. Last(c) = A BY DEF Last
<1>3. FollowNext(blk, c) = c BY <1>2 DEF FollowNext
<1> HIDE DEF c
<1>4. \A n \in 0 .. NBLOCKS : g[n] = c
  <2>1. ASSUME NEW n \in 0 .. NBLOCKS, n # 0 PROVE g[n] = c
    <3>1. f[n - 1] = c BY <1>1, <2>1
    <3> HIDE DEF f
    <3> QED BY <1>3, <2>1, <3>1
  <2> QED BY <2>1
<1>5. f = g BY <1>4
<1>6. f[NBLOCKS] = c BY <1>1
<1> HIDE DEF f
<1>7. Walks(f, blk, c) BY <1>5 DEF Walks
<1> QED BY <1>6, <1>7, ChainIs DEF c

\* An abstraction of two blocks.
LEMMA ChainTwo ==
  ASSUME NEW blk, NEW A \in Block, NEW B \in Block, blk[A].kind = "abs", blk[A].next = B,
         B # A, blk[B].next = 0
  PROVE  Chain(blk, A) = <<A, B>>
<1> DEFINE a == <<A>>
           c == <<A, B>>
           f == [n \in 0 .. NBLOCKS |-> IF n = 0 THEN a ELSE c]
           g == [n \in 0 .. NBLOCKS |-> IF n = 0 THEN a ELSE FollowNext(blk, f[n - 1])]
<1>1. NBLOCKS \in Nat /\ NBLOCKS # 0 /\ B # 0 BY StoreAssumption DEF Block
<1>2. Last(a) = A /\ Last(c) = B BY DEF Last
<1>3. FollowNext(blk, a) = c
  <2>1. Append(a, B) = c
    <3> DEFINE x == Append(a, B)
    <3>1. a \in Seq(Block) /\ Len(a) = 1 /\ a[1] = A OBVIOUS
    <3>2. c \in Seq(Block) /\ Len(c) = 2 /\ c[1] = A /\ c[2] = B OBVIOUS
    <3> HIDE DEF a, c
    <3>3. /\ x \in Seq(Block) /\ Len(x) = Len(a) + 1 /\ x[Len(a) + 1] = B
          /\ \A i \in 1 .. Len(a) : x[i] = a[i]
      <4>1. B \in Block /\ a \in Seq(Block) BY <3>1
      <4> QED BY ONLY <4>1, AppendProperties
    <3>4. Len(x) = 2 /\ x[1] = A /\ x[2] = B BY <3>1, <3>3
    <3> HIDE DEF x
    <3>5. \A i \in 1 .. 2 : i = 1 \/ i = 2 OBVIOUS
    <3>6. \A i \in 1 .. Len(c) : x[i] = c[i] BY <3>2, <3>4, <3>5
    <3> QED BY <3>2, <3>3, <3>4, <3>6, SeqEqual DEF x
  <2> HIDE DEF a, c
  <2> QED BY <1>1, <1>2, <2>1 DEF FollowNext
<1>4. FollowNext(blk, c) = c BY <1>2 DEF FollowNext
<1> HIDE DEF a, c
<1>5. \A n \in 0 .. NBLOCKS : g[n] = f[n]
  <2>1. ASSUME NEW n \in 0 .. NBLOCKS, n # 0 PROVE g[n] = c /\ f[n] = c
    <3>1. f[n - 1] = a \/ f[n - 1] = c BY <1>1, <2>1
    <3>2. f[n] = c BY <2>1
    <3> HIDE DEF f
    <3> QED BY <1>3, <1>4, <2>1, <3>1, <3>2
  <2> QED BY <2>1
<1>6. f = g BY <1>5
<1>7. f[NBLOCKS] = c BY <1>1
<1> HIDE DEF f
<1>8. Walks(f, blk, a) BY <1>6 DEF Walks
<1> QED BY <1>7, <1>8, ChainIs DEF a, c

-----------------------------------------------------------------------------
(***************************************************************************)
(* The tree of an abstraction.  own labels the blocks: 0 for a block of    *)
(* the abstraction itself, o for a block of object o (o included), Outside *)
(* for all others.  Nothing in the code keeps such a table: it exists      *)
(* because the store never gives a block to two owners.                    *)
(***************************************************************************)
Outside == NBLOCKS + 1
Labels == [Block -> 0 .. NBLOCKS + 1]

AbsOk(blk, own, b) ==
  /\ own[b] = 0
  /\ blk[b].next # 0 => own[blk[b].next] = 0
  /\ \A i \in DOMAIN blk[b].entries : own[blk[b].entries[i].obj] = blk[b].entries[i].obj
\* The content blocks of an object b: none of them twice, and not b itself.
Separate(cb, b) == \A i, j \in DOMAIN cb : cb[i] # b /\ (cb[i] = cb[j] => i = j)
ObjOk(blk, own, b) ==
  own[b] = b /\ Separate(blk[b].cb, b) /\ \A i \in DOMAIN blk[b].cb : own[blk[b].cb[i]] = b

\* b is an abstraction block of the tree.
InTree(blk, own, b) == own[b] = 0 /\ blk[b].kind = "abs"
NoSharing(blk, own) ==
  \A b, c \in Block : InTree(blk, own, b) /\ InTree(blk, own, c) =>
    \A i \in DOMAIN blk[b].entries, j \in DOMAIN blk[c].entries :
      blk[b].entries[i].obj = blk[c].entries[j].obj => b = c /\ i = j

Tree(blk, own) ==
  /\ \A b \in Block : own[b] # Outside /\ blk[b].kind = "abs" => AbsOk(blk, own, b)
  /\ \A b \in Block : own[b] # Outside /\ blk[b].kind = "obj" => ObjOk(blk, own, b)
  /\ NoSharing(blk, own)

\* o is the object of an entry of the tree; o is the object of a form.
Entered(blk, own, o) ==
  \E b \in Block : /\ InTree(blk, own, b)
                   /\ \E i \in DOMAIN blk[b].entries : blk[b].entries[i].obj = o
IsForm(blk, own, o) ==
  \E b \in Block : /\ InTree(blk, own, b)
                   /\ \E i \in DOMAIN blk[b].entries :
                        blk[b].entries[i].obj = o /\ blk[b].entries[i].name \in Names

\* A write that cannot touch the abstraction: outside the tree; a content
\* block of an object; an object block whose contents are its own.
Harmless(own, b, v) ==
  \/ own[b] = Outside
  \/ own[b] # 0 /\ v.kind = "data"
  \/ own[b] = b /\ v.kind = "obj" /\ Separate(v.cb, b) /\ \A i \in DOMAIN v.cb : own[v.cb[i]] = b

\* Such a write leaves the tree a tree, with the same abstraction blocks.
LEMMA TreeHarmless ==
  ASSUME NEW blk \in Blocks, NEW own \in Labels, Tree(blk, own),
         NEW b \in Block, NEW v \in Sector, Harmless(own, b, v)
  PROVE  LET new == [blk EXCEPT ![b] = v] IN
         /\ own[b] # 0
         /\ Tree(new, own)
         /\ \A c \in Block : InTree(new, own, c) <=> InTree(blk, own, c)
<1> DEFINE new == [blk EXCEPT ![b] = v]
<1>1. new[b] = v /\ \A c \in Block : c # b => new[c] = blk[c] BY DEF Blocks
<1>2. Outside # 0 /\ own[b] # 0 BY StoreAssumption DEF Outside, Harmless, Block
<1> HIDE DEF new
<1>3. \A c \in Block : InTree(new, own, c) <=> InTree(blk, own, c) BY <1>1, <1>2 DEF InTree
<1>4. ASSUME NEW c \in Block, own[c] # Outside, new[c].kind = "abs" PROVE AbsOk(new, own, c)
  <2>1. new[c] = blk[c] BY <1>1, <1>4 DEF Harmless
  <2> QED BY <1>4, <2>1 DEF Tree, AbsOk
<1>5. ASSUME NEW c \in Block, own[c] # Outside, new[c].kind = "obj" PROVE ObjOk(new, own, c)
  <2>1. CASE c = b BY <2>1, <1>1, <1>5 DEF ObjOk, Harmless
  <2>2. CASE c # b
    <3>1. new[c] = blk[c] BY <1>1, <2>2
    <3> QED BY <1>5, <3>1 DEF Tree, ObjOk
  <2> QED BY <2>1, <2>2
<1>6. NoSharing(new, own)
  <2> SUFFICES ASSUME NEW c \in Block, NEW e \in Block, InTree(new, own, c), InTree(new, own, e),
                      NEW i \in DOMAIN new[c].entries, NEW j \in DOMAIN new[e].entries,
                      new[c].entries[i].obj = new[e].entries[j].obj
               PROVE  c = e /\ i = j
    BY DEF NoSharing
  <2>1. new[c] = blk[c] /\ new[e] = blk[e] BY <1>1, <1>2 DEF InTree
  <2>2. InTree(blk, own, c) /\ InTree(blk, own, e) BY <1>3
  <2> QED BY <2>1, <2>2 DEF Tree, NoSharing
<1>7. Tree(new, own) BY <1>4, <1>5, <1>6 DEF Tree
<1> QED BY <1>2, <1>3, <1>7 DEF new

\* What an abstraction block of the tree may become: a block with the same
\* entries and another next, or with one more entry, for an object that has
\* none; and a block labelled for it may become one, empty or with such an entry.
EntriesBefore(u) == IF u.kind = "abs" THEN u.entries ELSE <<>>
GrownBy(blk, own, b, v) ==
  /\ own[b] = 0 /\ v.kind = "abs"
  /\ v.next # 0 => own[v.next] = 0
  /\ \/ v.entries = EntriesBefore(blk[b])
     \/ \E e \in Entry : /\ v.entries = Append(EntriesBefore(blk[b]), e)
                         /\ own[e.obj] = e.obj /\ ~Entered(blk, own, e.obj)

\* What the entries of such a block are.
LEMMA GrownEntries ==
  ASSUME NEW blk \in Blocks, NEW own \in Labels, Tree(blk, own),
         NEW b \in Block, NEW v \in Sector, GrownBy(blk, own, b, v)
  PROVE  LET old == EntriesBefore(blk[b]) IN
         /\ old \in Seq(Entry) /\ v.entries \in Seq(Entry)
         /\ Len(old) <= Len(v.entries) /\ Len(v.entries) <= Len(old) + 1
         /\ \A i \in 1 .. Len(old) : v.entries[i] = old[i] /\ own[old[i].obj] = old[i].obj
         /\ Len(v.entries) = Len(old) + 1 =>
              LET o == v.entries[Len(old) + 1].obj IN own[o] = o /\ ~Entered(blk, own, o)
<1> DEFINE old == EntriesBefore(blk[b])
<1>1. blk[b] \in Sector BY DEF Blocks
<1>2. old \in Seq(Entry) /\ v.entries \in Seq(Entry) BY <1>1, AbsFacts DEF EntriesBefore, GrownBy
<1>3. ASSUME NEW i \in 1 .. Len(old) PROVE own[old[i].obj] = old[i].obj
  <2>1. CASE blk[b].kind = "abs"
    <3>1. own[b] # Outside BY StoreAssumption DEF GrownBy, Outside
    <3>2. AbsOk(blk, own, b) BY <2>1, <3>1 DEF Tree
    <3>3. old = blk[b].entries BY <2>1 DEF EntriesBefore
    <3> QED BY <3>2, <3>3, <1>2 DEF AbsOk
  <2>2. CASE blk[b].kind # "abs" BY <2>2 DEF EntriesBefore
  <2> QED BY <2>1, <2>2
<1>4. CASE v.entries = old
  <2> HIDE DEF old
  <2> QED BY <1>2, <1>3, <1>4 DEF old
<1>5. CASE \E e \in Entry : /\ v.entries = Append(old, e)
                            /\ own[e.obj] = e.obj /\ ~Entered(blk, own, e.obj)
  <2>1. PICK e \in Entry : /\ v.entries = Append(old, e)
                           /\ own[e.obj] = e.obj /\ ~Entered(blk, own, e.obj)
    BY <1>5
  <2> HIDE DEF old
  <2>2. /\ Len(v.entries) = Len(old) + 1 /\ v.entries[Len(old) + 1] = e
        /\ \A i \in 1 .. Len(old) : v.entries[i] = old[i]
    BY <1>2, <2>1
  <2> QED BY <1>2, <1>3, <2>1, <2>2 DEF old
<1> QED BY <1>4, <1>5 DEF GrownBy

\* The tree is still one, and has that block.
LEMMA TreeGrows ==
  ASSUME NEW blk \in Blocks, NEW own \in Labels, Tree(blk, own),
         NEW b \in Block, NEW v \in Sector, GrownBy(blk, own, b, v)
  PROVE  LET new == [blk EXCEPT ![b] = v] IN
         /\ Tree(new, own) /\ InTree(new, own, b)
         /\ \A c \in Block : c # b => (InTree(new, own, c) <=> InTree(blk, own, c))
<1> DEFINE new == [blk EXCEPT ![b] = v]
           old == EntriesBefore(blk[b])
<1>1. new[b] = v /\ \A c \in Block : c # b => new[c] = blk[c] BY DEF Blocks
<1>2. own[b] = 0 /\ v.kind = "abs" /\ (v.next # 0 => own[v.next] = 0) BY DEF GrownBy
<1>3. /\ old \in Seq(Entry) /\ v.entries \in Seq(Entry)
      /\ Len(old) <= Len(v.entries) /\ Len(v.entries) <= Len(old) + 1
      /\ \A i \in 1 .. Len(old) : v.entries[i] = old[i] /\ own[old[i].obj] = old[i].obj
  BY GrownEntries
<1>4. Len(v.entries) = Len(old) + 1 =>
        LET o == v.entries[Len(old) + 1].obj IN own[o] = o /\ ~Entered(blk, own, o)
  BY GrownEntries
<1>5. \A i \in 1 .. Len(old) : InTree(blk, own, b) /\ blk[b].entries = old
  BY <1>2 DEF InTree, EntriesBefore
<1> HIDE DEF new, old
<1>6. Len(old) \in Nat /\ Len(v.entries) \in Nat /\ DOMAIN v.entries = 1 .. Len(v.entries) BY <1>3
<1>7. ASSUME NEW i \in 1 .. Len(v.entries)
      PROVE  \/ i \in 1 .. Len(old)
             \/ i = Len(old) + 1 /\ Len(v.entries) = Len(old) + 1
  BY <1>3, <1>6
<1>8. InTree(new, own, b) BY <1>1, <1>2 DEF InTree
<1>9. \A c \in Block : c # b => (InTree(new, own, c) <=> InTree(blk, own, c)) BY <1>1 DEF InTree
<1>10. ASSUME NEW c \in Block, own[c] # Outside, new[c].kind = "abs" PROVE AbsOk(new, own, c)
  <2>1. CASE c = b
    <3>1. ASSUME NEW i \in 1 .. Len(v.entries) PROVE own[v.entries[i].obj] = v.entries[i].obj
      <4>1. CASE i \in 1 .. Len(old) BY <4>1, <1>3
      <4>2. CASE i = Len(old) + 1 /\ Len(v.entries) = Len(old) + 1 BY <4>2, <1>4
      <4> QED BY <4>1, <4>2, <1>7
    <3> QED BY <2>1, <3>1, <1>1, <1>2, <1>6 DEF AbsOk
  <2>2. CASE c # b
    <3>1. new[c] = blk[c] BY <1>1, <2>2
    <3> QED BY <1>10, <3>1 DEF Tree, AbsOk
  <2> QED BY <2>1, <2>2
<1>11. ASSUME NEW c \in Block, own[c] # Outside, new[c].kind = "obj" PROVE ObjOk(new, own, c)
  <2>1. c # b BY <1>11, <1>1, <1>2
  <2>2. new[c] = blk[c] BY <1>1, <2>1
  <2> QED BY <1>11, <2>2 DEF Tree, ObjOk
<1>12. ASSUME NEW e \in Block, e # b, InTree(new, own, e), NEW i \in 1 .. Len(v.entries),
              NEW j \in DOMAIN new[e].entries, v.entries[i].obj = new[e].entries[j].obj
       PROVE  FALSE
  <2>1. new[e] = blk[e] /\ InTree(blk, own, e) BY <1>12, <1>1, <1>9
  <2>2. Entered(blk, own, v.entries[i].obj) BY <2>1, <1>12 DEF Entered
  <2>3. i \in 1 .. Len(old) BY <2>2, <1>7, <1>4
  <2>4. InTree(blk, own, b) /\ blk[b].entries = old /\ v.entries[i] = old[i] BY <2>3, <1>3, <1>5
  <2>5. i \in DOMAIN blk[b].entries BY <2>3, <2>4, <1>3
  <2> QED BY <2>1, <2>4, <2>5, <1>12 DEF Tree, NoSharing
<1>13. ASSUME NEW i \in 1 .. Len(v.entries), NEW j \in 1 .. Len(v.entries), i < j,
              v.entries[i].obj = v.entries[j].obj
       PROVE  FALSE
  <2>1. i \in 1 .. Len(old) BY <1>13, <1>6, <1>7
  <2>2. /\ InTree(blk, own, b) /\ blk[b].entries = old /\ v.entries[i] = old[i]
        /\ i \in DOMAIN blk[b].entries
    BY <2>1, <1>3, <1>5
  <2>3. CASE j \in 1 .. Len(old)
    <3>1. v.entries[j] = old[j] /\ j \in DOMAIN blk[b].entries BY <2>3, <1>3, <1>5
    <3> QED BY <3>1, <2>2, <1>13 DEF Tree, NoSharing
  <2>4. CASE j = Len(old) + 1 /\ Len(v.entries) = Len(old) + 1
    <3>1. Entered(blk, own, v.entries[i].obj) BY <2>2 DEF Entered
    <3> QED BY <3>1, <2>4, <1>4, <1>13
  <2> QED BY <2>3, <2>4, <1>7
<1>14. NoSharing(new, own)
  <2> SUFFICES ASSUME NEW c \in Block, NEW e \in Block, InTree(new, own, c), InTree(new, own, e),
                      NEW i \in DOMAIN new[c].entries, NEW j \in DOMAIN new[e].entries,
                      new[c].entries[i].obj = new[e].entries[j].obj
               PROVE  c = e /\ i = j
    BY DEF NoSharing
  <2>1. CASE c = b /\ e = b
    <3>1. i \in 1 .. Len(v.entries) /\ j \in 1 .. Len(v.entries) BY <2>1, <1>1, <1>6
    <3>2. ~(i < j) /\ ~(j < i) BY <3>1, <2>1, <1>1, <1>13
    <3> QED BY <2>1, <3>1, <3>2, <1>6
  <2>2. CASE c = b /\ e # b BY <2>2, <1>1, <1>6, <1>12
  <2>3. CASE c # b /\ e = b BY <2>3, <1>1, <1>6, <1>12
  <2>4. CASE c # b /\ e # b
    <3>1. /\ new[c] = blk[c] /\ new[e] = blk[e]
          /\ InTree(blk, own, c) /\ InTree(blk, own, e)
      BY <2>4, <1>1, <1>9
    <3> QED BY <3>1 DEF Tree, NoSharing
  <2> QED BY <2>1, <2>2, <2>3, <2>4
<1>15. Tree(new, own) BY <1>10, <1>11, <1>14 DEF Tree
<1> QED BY <1>8, <1>9, <1>15 DEF new

\* A cleared block outside the tree may be given any owner.
LEMMA TreeLabel ==
  ASSUME NEW blk \in Blocks, NEW own \in Labels, Tree(blk, own),
         NEW b \in Block, own[b] = Outside, blk[b].kind = "zero", NEW x \in 0 .. NBLOCKS
  PROVE  LET more == [own EXCEPT ![b] = x] IN
         /\ more \in Labels /\ Tree(blk, more) /\ more[b] = x
         /\ \A c \in Block : c # b => more[c] = own[c]
         /\ \A c \in Block : InTree(blk, more, c) <=> InTree(blk, own, c)
<1> DEFINE more == [own EXCEPT ![b] = x]
<1>1. more \in Labels /\ more[b] = x /\ \A c \in Block : c # b => more[c] = own[c]
  BY StoreAssumption DEF Labels
<1>2. \A c \in Nat : c # 0 /\ c <= NBLOCKS => c \in Block BY StoreAssumption DEF Block
<1>3. Outside # 0 /\ \A c \in Block : c # Outside /\ c # 0 /\ c \in Nat
  BY StoreAssumption DEF Outside, Block
<1> HIDE DEF more
<1>4. \A c \in Block : InTree(blk, more, c) <=> InTree(blk, own, c)
  <2> SUFFICES ASSUME NEW c \in Block PROVE InTree(blk, more, c) <=> InTree(blk, own, c) OBVIOUS
  <2> QED BY <1>1, <1>3 DEF InTree
<1>5. \A c \in Block : blk[c] \in Sector BY DEF Blocks
<1>6. ASSUME NEW c \in Block, more[c] # Outside, blk[c].kind = "abs" PROVE AbsOk(blk, more, c)
  <2>1. c # b /\ more[c] = own[c] BY <1>1, <1>6
  <2>2. AbsOk(blk, own, c) BY <2>1, <1>6 DEF Tree
  <2>3. blk[c].next # 0 => more[blk[c].next] = 0
    <3> SUFFICES ASSUME blk[c].next # 0 PROVE more[blk[c].next] = 0 OBVIOUS
    <3>1. blk[c].next \in Block BY <1>5, <1>6, AbsFacts, StoreAssumption DEF Block
    <3>2. own[blk[c].next] = 0 BY <2>2 DEF AbsOk
    <3>3. blk[c].next # b BY <3>2, <1>3
    <3> QED BY <1>1, <3>1, <3>2, <3>3
  <2>4. ASSUME NEW i \in DOMAIN blk[c].entries
        PROVE  more[blk[c].entries[i].obj] = blk[c].entries[i].obj
    <3>1. blk[c].entries[i].obj \in Block BY <1>5, <1>6, EntryFacts
    <3>2. own[blk[c].entries[i].obj] = blk[c].entries[i].obj BY <2>2 DEF AbsOk
    <3>3. blk[c].entries[i].obj # b BY <3>1, <3>2, <1>3
    <3> QED BY <1>1, <3>1, <3>2, <3>3
  <2> QED BY <2>1, <2>2, <2>3, <2>4 DEF AbsOk
<1>7. ASSUME NEW c \in Block, more[c] # Outside, blk[c].kind = "obj" PROVE ObjOk(blk, more, c)
  <2>1. c # b /\ more[c] = own[c] BY <1>1, <1>7
  <2>2. ObjOk(blk, own, c) BY <2>1, <1>7 DEF Tree
  <2>3. ASSUME NEW i \in DOMAIN blk[c].cb PROVE more[blk[c].cb[i]] = c
    <3>1. blk[c].cb \in Seq(Block) BY <1>5, <1>7, ObjFacts
    <3>2. blk[c].cb[i] \in Block BY <3>1
    <3>3. own[blk[c].cb[i]] = c BY <2>2 DEF ObjOk
    <3>4. blk[c].cb[i] # b BY <3>3, <1>3
    <3> QED BY <1>1, <3>2, <3>3, <3>4
  <2> QED BY <2>1, <2>2, <2>3 DEF ObjOk
<1>8. NoSharing(blk, more) BY <1>4, Zenon DEF Tree, NoSharing
<1>9. Tree(blk, more) BY <1>6, <1>7, <1>8 DEF Tree
<1> QED BY <1>1, <1>4, <1>9 DEF more

\* An object that no entry leads to may leave the tree.
LEMMA TreeUnlabel ==
  ASSUME NEW blk \in Blocks, NEW own \in Labels, Tree(blk, own),
         NEW o \in Block, own[o] = o, ~Entered(blk, own, o)
  PROVE  LET less == [own EXCEPT ![o] = Outside] IN
         /\ less \in Labels /\ Tree(blk, less) /\ less[o] = Outside
         /\ \A c \in Block : c # o => less[c] = own[c]
         /\ \A c \in Block : InTree(blk, less, c) <=> InTree(blk, own, c)
<1> DEFINE less == [own EXCEPT ![o] = Outside]
<1>1. less \in Labels /\ less[o] = Outside /\ \A c \in Block : c # o => less[c] = own[c]
  BY StoreAssumption DEF Labels, Outside
<1>3. Outside # 0 /\ \A c \in Block : c # Outside /\ c # 0 /\ c \in Nat
  BY StoreAssumption DEF Outside, Block
<1> HIDE DEF less
<1>4. \A c \in Block : InTree(blk, less, c) <=> InTree(blk, own, c)
  <2> SUFFICES ASSUME NEW c \in Block PROVE InTree(blk, less, c) <=> InTree(blk, own, c) OBVIOUS
  <2> QED BY <1>1, <1>3 DEF InTree
<1>5. \A c \in Block : blk[c] \in Sector BY DEF Blocks
<1>6. ASSUME NEW c \in Block, less[c] # Outside, blk[c].kind = "abs" PROVE AbsOk(blk, less, c)
  <2>1. c # o /\ less[c] = own[c] BY <1>1, <1>6
  <2>2. AbsOk(blk, own, c) BY <2>1, <1>6 DEF Tree
  <2>3. blk[c].next # 0 => less[blk[c].next] = 0
    <3> SUFFICES ASSUME blk[c].next # 0 PROVE less[blk[c].next] = 0 OBVIOUS
    <3>1. blk[c].next \in Block BY <1>5, <1>6, AbsFacts, StoreAssumption DEF Block
    <3>2. own[blk[c].next] = 0 BY <2>2 DEF AbsOk
    <3>3. blk[c].next # o BY <3>2, <1>3
    <3> QED BY <1>1, <3>1, <3>2, <3>3
  <2>4. ASSUME NEW i \in DOMAIN blk[c].entries
        PROVE  less[blk[c].entries[i].obj] = blk[c].entries[i].obj
    <3>1. blk[c].entries[i].obj \in Block BY <1>5, <1>6, EntryFacts
    <3>2. own[blk[c].entries[i].obj] = blk[c].entries[i].obj BY <2>2 DEF AbsOk
    <3>3. InTree(blk, own, c) BY <2>2, <1>6 DEF AbsOk, InTree
    <3>4. blk[c].entries[i].obj # o BY <3>3 DEF Entered
    <3> QED BY <1>1, <3>1, <3>2, <3>4
  <2> QED BY <2>1, <2>2, <2>3, <2>4 DEF AbsOk
<1>7. ASSUME NEW c \in Block, less[c] # Outside, blk[c].kind = "obj" PROVE ObjOk(blk, less, c)
  <2>1. c # o /\ less[c] = own[c] BY <1>1, <1>7
  <2>2. ObjOk(blk, own, c) BY <2>1, <1>7 DEF Tree
  <2>3. ASSUME NEW i \in DOMAIN blk[c].cb PROVE less[blk[c].cb[i]] = c
    <3>1. blk[c].cb \in Seq(Block) BY <1>5, <1>7, ObjFacts
    <3>2. blk[c].cb[i] \in Block BY <3>1
    <3>3. own[blk[c].cb[i]] = c BY <2>2 DEF ObjOk
    <3>4. blk[c].cb[i] # o BY <3>3, <2>1
    <3> QED BY <1>1, <3>2, <3>3, <3>4
  <2> QED BY <2>1, <2>2, <2>3 DEF ObjOk
<1>8. NoSharing(blk, less) BY <1>4, Zenon DEF Tree, NoSharing
<1>9. Tree(blk, less) BY <1>6, <1>7, <1>8 DEF Tree
<1> QED BY <1>1, <1>4, <1>9 DEF less

\* Entered and IsForm only look at the abstraction blocks of the tree.
LEMMA SameEntries ==
  ASSUME NEW blk, NEW own, NEW new, NEW more,
         \A c \in Block : InTree(new, more, c) <=> InTree(blk, own, c),
         \A c \in Block : InTree(blk, own, c) => new[c] = blk[c],
         NEW o
  PROVE  /\ Entered(new, more, o) <=> Entered(blk, own, o)
         /\ IsForm(new, more, o) <=> IsForm(blk, own, o)
<1>1. ASSUME Entered(new, more, o) PROVE Entered(blk, own, o) BY <1>1, Zenon DEF Entered
<1>2. ASSUME Entered(blk, own, o) PROVE Entered(new, more, o) BY <1>2, Zenon DEF Entered
<1>3. ASSUME IsForm(new, more, o) PROVE IsForm(blk, own, o) BY <1>3, Zenon DEF IsForm
<1>4. ASSUME IsForm(blk, own, o) PROVE IsForm(new, more, o) BY <1>4, Zenon DEF IsForm
<1> QED BY <1>1, <1>2, <1>3, <1>4

\* The object of a form is an object of the tree.
LEMMA FormsEntered ==
  ASSUME NEW blk \in Blocks, NEW own \in Labels, Tree(blk, own), NEW o,
         IsForm(blk, own, o) \/ Entered(blk, own, o)
  PROVE  Entered(blk, own, o) /\ o \in Block /\ own[o] = o /\ own[o] # 0 /\ own[o] # Outside
<1>1. Entered(blk, own, o) BY Zenon DEF IsForm, Entered
<1>2. PICK b \in Block : /\ InTree(blk, own, b)
                         /\ \E i \in DOMAIN blk[b].entries : blk[b].entries[i].obj = o
  BY <1>1 DEF Entered
<1>3. PICK i \in DOMAIN blk[b].entries : blk[b].entries[i].obj = o BY <1>2
<1>4. blk[b].kind = "abs" /\ own[b] # Outside BY <1>2, StoreAssumption DEF InTree, Outside
<1>5. AbsOk(blk, own, b) BY <1>4 DEF Tree
<1>6. own[o] = o BY <1>3, <1>5 DEF AbsOk
<1>7. blk[b] \in Sector BY DEF Blocks
<1>8. o \in Block BY <1>3, <1>4, <1>7, EntryFacts
<1> QED BY <1>1, <1>6, <1>8, StoreAssumption DEF Block, Outside

-----------------------------------------------------------------------------
(***************************************************************************)
(* Reading objects.                                                        *)
(***************************************************************************)

\* The fields of what an object contains.
LEMMA PayloadFacts ==
  ASSUME NEW p \in Payload
  PROVE  /\ p \in RawPayload /\ p.k \in Layout /\ p.t \in DOMAIN FormBlocks \cup {""}
         /\ p.list \in Seq(Item) /\ Len(p.list) \in Nat
         /\ p.k = "form" => p.t \in DOMAIN FormBlocks /\ p.list = <<>> /\ Len(p.list) = 0
         /\ p.k \in {"users", "cutusers"} => Len(p.list) \in 1 .. MAX_USERS
<1>1. p \in RawPayload BY DEF Payload
<1>2. p.list \in Seq(Item) /\ p.k \in Layout /\ p.t \in DOMAIN FormBlocks \cup {""}
  BY <1>1 DEF RawPayload
<1>3. p.k = "form" => p.t \in DOMAIN FormBlocks /\ p.list = <<>> BY DEF Payload
<1>4. p.k \in {"users", "cutusers"} => Len(p.list) \in 1 .. MAX_USERS BY DEF Payload
<1>5. p.list = <<>> => Len(p.list) = 0 OBVIOUS
<1>6. Len(p.list) \in Nat
  <2>1. p.list \in Seq(Item) BY <1>2
  <2> QED BY ONLY <2>1, LenProperties
<1> QED BY <1>1, <1>2, <1>3, <1>4, <1>5, <1>6, Zenon

\* The contents the commands write.
LEMMA PayloadMade ==
  /\ \A t \in DOMAIN FormBlocks : Form(t) \in Payload /\ Form(t).k = "form"
  /\ \A u \in Seq(Item) : Len(u) \in 1 .. MAX_USERS => Users(u) \in Payload
  /\ \A u \in Seq(Item) : Pimp(u) \in Payload
  /\ NoData \in Payload /\ Torn \in Payload
<1>0. <<>> \in Seq(Item) OBVIOUS
<1>1. ASSUME NEW t \in DOMAIN FormBlocks PROVE Form(t) \in Payload /\ Form(t).k = "form"
  <2>1. Form(t) \in RawPayload BY <1>0 DEF Form, RawPayload, Layout
  <2> QED BY <2>1 DEF Form, Payload
<1>2. ASSUME NEW u \in Seq(Item), Len(u) \in 1 .. MAX_USERS PROVE Users(u) \in Payload
  <2>1. Users(u) \in RawPayload BY DEF Users, RawPayload, Layout
  <2> QED BY <2>1, <1>2 DEF Users, Payload
<1>3. ASSUME NEW u \in Seq(Item) PROVE Pimp(u) \in Payload
  <2>1. Pimp(u) \in RawPayload BY DEF Pimp, RawPayload, Layout
  <2> QED BY <2>1 DEF Pimp, Payload
<1>4. NoData \in Payload
  <2>1. NoData \in RawPayload BY <1>0 DEF NoData, RawPayload, Layout
  <2> QED BY <2>1 DEF NoData, Payload
<1>5. Torn \in Payload
  <2>1. Torn \in RawPayload BY <1>0 DEF Torn, RawPayload, Layout
  <2> QED BY <2>1 DEF Torn, Payload
<1> QED BY <1>1, <1>2, <1>3, <1>4, <1>5

\* A table read with the size of another version is still a table; a form
\* does not depend on the size.
LEMMA SizedTyped ==
  ASSUME NEW p \in Payload, NEW n \in Nat
  PROVE  Sized(p, n) \in Payload /\ (p.k = "form" => Sized(p, n) = p)
<1>1. CASE p.k \in {"pimp", "cutpimp"}
  <2> DEFINE l == [i \in 1 .. n |-> IF i <= Len(p.list) THEN p.list[i] ELSE "blank"]
             q == [p EXCEPT !.list = l]
  <2>1. p.list \in Seq(Item) /\ Len(p.list) \in Nat /\ p \in RawPayload BY PayloadFacts
  <2>2. "blank" \in Item BY DEF Item
  <2>3. ASSUME NEW i \in 1 .. n PROVE l[i] \in Item
    <3>1. CASE i <= Len(p.list)
      <4>1. i \in 1 .. Len(p.list) BY <3>1, <2>1
      <4>2. p.list[i] \in Item BY <4>1, <2>1
      <4> QED BY <4>2, <3>1
    <3>2. CASE ~(i <= Len(p.list)) BY <3>2, <2>2
    <3> QED BY <3>1, <3>2
  <2>4. l \in Seq(Item) BY <2>3
  <2>5. Sized(p, n) = q BY <1>1 DEF Sized
  <2> HIDE DEF l
  <2>6. q \in RawPayload /\ q.k = p.k BY <2>1, <2>4 DEF RawPayload
  <2>7. q \in Payload BY <2>6, <1>1 DEF Payload
  <2> QED BY <2>5, <2>7, <1>1
<1>2. CASE p.k \notin {"pimp", "cutpimp"}
  <2>1. Sized(p, n) = IF Len(p.list) <= n THEN p ELSE NoData BY <1>2 DEF Sized
  <2>2. p.k = "form" => Len(p.list) = 0 BY PayloadFacts
  <2>3. p.k = "form" => Len(p.list) <= n BY <2>2
  <2> QED BY <2>1, <2>3, PayloadMade
<1> QED BY <1>1, <1>2

\* hexafs_object_read_data reads something an object can contain.
LEMMA ReadTyped ==
  ASSUME NEW blk \in Blocks, NEW o \in Block
  PROVE  object_read_data(blk, o) \in Payload
<1> DEFINE cb == blk[o].cb
           first == blk[cb[1]].of
<1>1. \A c \in Block : blk[c] \in Sector BY DEF Blocks
<1>2. CASE blk[o].kind # "obj" \/ cb = <<>>
  <2>1. object_read_data(blk, o) = NoData BY <1>2 DEF object_read_data
  <2> QED BY <2>1, PayloadMade
<1>3. CASE blk[o].kind = "obj" /\ cb # <<>>
  <2>1. cb \in Seq(Block) /\ blk[o].size \in Nat BY <1>1, <1>3, ObjFacts
  <2>2. cb[1] \in Block BY <2>1, <1>3
  <2>3. CASE blk[cb[1]].kind # "data"
    <3>1. object_read_data(blk, o) = Torn BY <1>3, <2>3 DEF object_read_data
    <3> QED BY <3>1, PayloadMade
  <2>4. CASE blk[cb[1]].kind = "data"
    <3>1. first \in Payload BY <1>1, <2>2, <2>4, DataFacts
    <3>2. object_read_data(blk, o) \in {Sized(first, blk[o].size), NoData, Torn}
      BY <1>3, <2>4 DEF object_read_data
    <3> HIDE DEF first
    <3> QED BY <2>1, <3>1, <3>2, SizedTyped, PayloadMade
  <2> QED BY <2>3, <2>4
<1> QED BY <1>2, <1>3

\* A table read with its own size is the table.
LEMMA SizedSame ==
  ASSUME NEW p \in Payload
  PROVE  Sized(p, Len(p.list)) = p
<1>1. p.list \in Seq(Item) /\ Len(p.list) \in Nat /\ p \in RawPayload BY PayloadFacts
<1>2. CASE p.k \in {"pimp", "cutpimp"}
  <2> DEFINE c == p.list
             l == [i \in 1 .. Len(c) |-> IF i <= Len(c) THEN c[i] ELSE "blank"]
             q == [p EXCEPT !.list = l]
  <2>1. Sized(p, Len(p.list)) = q BY <1>2 DEF Sized
  <2>2. c \in Seq(Item) BY <1>1
  <2>3. l = c
    <3> HIDE DEF c
    <3>1. Len(c) \in Nat /\ c = [i \in 1 .. Len(c) |-> c[i]] BY <2>2
    <3>2. \A i \in 1 .. Len(c) : l[i] = c[i] BY <3>1
    <3> QED BY <3>1, <3>2
  <2>4. q = p
    <3> HIDE DEF l
    <3> QED BY <1>1, <2>3 DEF RawPayload
  <2> QED BY <2>1, <2>4
<1>3. CASE p.k \notin {"pimp", "cutpimp"} BY <1>1, <1>3 DEF Sized
<1> QED BY <1>2, <1>3

\* An object all of whose content blocks hold one version reads as that version.
LEMMA ReadWhole ==
  ASSUME NEW blk \in Blocks, NEW o \in Block, NEW p \in Payload, blk[o].size = Len(p.list),
         blk[o].kind = "obj", blk[o].cb # <<>>,
         \A i \in DOMAIN blk[o].cb : blk[blk[o].cb[i]] = Data(p, i)
  PROVE  object_read_data(blk, o) = p
<1> DEFINE cb == blk[o].cb
           first == blk[cb[1]].of
<1>1. blk[o] \in Sector BY DEF Blocks
<1>2. cb \in Seq(Block) BY <1>1, ObjFacts
<1>3. 1 \in DOMAIN cb BY <1>2
<1>4. blk[cb[1]] = Data(p, 1) BY <1>3
<1>5. first = p /\ blk[cb[1]].kind = "data" BY <1>4 DEF Data
<1>6. \A i \in DOMAIN cb : blk[cb[i]] = Data(first, i) BY <1>5
<1>7. object_read_data(blk, o) = Sized(p, blk[o].size)
  BY <1>5, <1>6 DEF object_read_data
<1> QED BY <1>7, SizedSame

\* Taken as a form, contents are contents; forms are themselves.
LEMMA LayoutTyped ==
  ASSUME NEW p \in Payload
  PROVE  FormLayout(p) \in Payload /\ (p.k = "form" => FormLayout(p) = p)
<1> DEFINE l == CASE p.k = "users" -> "cutusers"
                  [] p.k = "pimp" -> "cutpimp"
                  [] p.k \notin {"users", "pimp"} -> p.k
           q == [p EXCEPT !.k = l]
<1>1. p \in RawPayload /\ p.k \in Layout BY PayloadFacts
<1>2. FormLayout(p) = q BY DEF FormLayout
<1>3. /\ p.k = "users" => l = "cutusers"
      /\ p.k = "pimp" => l = "cutpimp"
      /\ p.k \notin {"users", "pimp"} => l = p.k
  OBVIOUS
<1>4. l \in Layout BY <1>1, <1>3 DEF Layout
<1> HIDE DEF l
<1>5. q \in RawPayload /\ q.k = l /\ q.t = p.t /\ q.list = p.list BY <1>1, <1>4 DEF RawPayload
<1>6. q \in Payload BY <1>1, <1>3, <1>5, PayloadFacts DEF Payload, Layout
<1>7. p.k = "form" => q = p BY <1>1, <1>3 DEF RawPayload
<1> QED BY <1>2, <1>6, <1>7

\* A form loaded is something an object can contain.
LEMMA AsFormTyped ==
  ASSUME NEW blk \in Blocks, NEW o \in Block
  PROVE  AsForm(blk, o) \in Payload
<1>1. object_read_data(blk, o) \in Payload BY ReadTyped
<1>2. FormLayout(object_read_data(blk, o)) \in Payload BY <1>1, LayoutTyped
<1>3. Form("empty") \in Payload BY PayloadMade, FSAssumption
<1> QED BY <1>2, <1>3 DEF AsForm

\* What is read from an object, and loaded for it, depends on its blocks only.
LEMMA ReadSame ==
  ASSUME NEW blk, NEW new, NEW o, new[o] = blk[o],
         blk[o].kind = "obj" => /\ blk[o].cb \in Seq(Block)
                                /\ \A i \in DOMAIN blk[o].cb : new[blk[o].cb[i]] = blk[blk[o].cb[i]]
  PROVE  object_read_data(new, o) = object_read_data(blk, o)
<1>1. CASE blk[o].kind # "obj" \/ blk[o].cb = <<>> BY <1>1 DEF object_read_data
<1>2. CASE blk[o].kind = "obj" /\ blk[o].cb # <<>>
  <2> DEFINE cb == blk[o].cb
  <2>1. 1 \in DOMAIN cb BY <1>2
  <2>2. new[cb[1]] = blk[cb[1]] BY <2>1, <1>2
  <2>3. \A x : (\A i \in DOMAIN cb : new[cb[i]] = Data(x, i))
                 <=> (\A i \in DOMAIN cb : blk[cb[i]] = Data(x, i))
    BY <1>2
  <2> QED BY <1>2, <2>2, <2>3, SMTT(30) DEF object_read_data
<1> QED BY <1>1, <1>2

LEMMA AsFormSame ==
  ASSUME NEW blk, NEW new, NEW o, new[o] = blk[o],
         blk[o].kind = "obj" => /\ blk[o].cb \in Seq(Block)
                                /\ \A i \in DOMAIN blk[o].cb : new[blk[o].cb[i]] = blk[blk[o].cb[i]]
  PROVE  AsForm(new, o) = AsForm(blk, o)
<1>1. object_read_data(new, o) = object_read_data(blk, o) BY ReadSame
<1> QED BY <1>1 DEF AsForm

-----------------------------------------------------------------------------
(***************************************************************************)
(* The root abstraction A of a session that has saved: one block, or two   *)
(* when the first was full, which is then never added to again, since      *)
(* hexafs_abstraction_set_chain spoils its checksum.  Every entry leads to *)
(* an object.                                                              *)
(***************************************************************************)
Filed(blk, b) == \A i \in DOMAIN blk[b].entries : blk[blk[b].entries[i].obj].kind = "obj"
Short(blk, A) == /\ A \in Block /\ blk[A].kind = "abs"
                 /\ LET B == blk[A].next
                    IN B # 0 => /\ B \in Block /\ B # A /\ ~blk[A].crc
                                /\ blk[B].kind = "abs" /\ blk[B].next = 0
RootTable(blk, A) ==
  Short(blk, A) /\ Filed(blk, A) /\ (blk[A].next # 0 => Filed(blk, blk[A].next))

\* The first entry of that name, and its object; 0 if there is none.
First(es, name) == SelectInSeq(es, LAMBDA e : e.name = name)
Held(es, name) == IF First(es, name) = 0 THEN 0 ELSE es[First(es, name)].obj

\* The first entry of that name, when there is one.
LEMMA FirstFacts ==
  ASSUME NEW es \in Seq(Entry), NEW name
  PROVE  LET n == First(es, name) IN
         /\ n \in 0 .. Len(es)
         /\ n # 0 => es[n].name = name /\ es[n].obj \in Block
         /\ \A i \in 1 .. Len(es) : es[i].name = name => n # 0 /\ n <= i
<1> DEFINE J == {j \in 1 .. Len(es) : es[j].name = name}
           n == First(es, name)
<1>1. n = IF J # {} THEN Min(J) ELSE 0 BY DEF First, SelectInSeq
<1>2. Len(es) \in Nat /\ J \in SUBSET Nat OBVIOUS
<1>3. J # {} => Min(J) \in J /\ \A i \in J : Min(J) <= i
  <2> HIDE DEF J
  <2> QED BY <1>2, MinOf
<1> HIDE DEF n
<1>4. CASE J = {} BY <1>1, <1>2, <1>4 DEF n
<1>5. CASE J # {}
  <2>1. n \in J /\ \A i \in J : n <= i BY <1>1, <1>3, <1>5
  <2>2. n \in 1 .. Len(es) /\ es[n].name = name BY <2>1
  <2>3. es[n] \in Entry BY <2>2
  <2>4. es[n].obj \in Block BY <2>3 DEF Entry
  <2>5. \A i \in 1 .. Len(es) : es[i].name = name => n <= i BY <2>1
  <2>6. n \in 0 .. Len(es) /\ n # 0 BY <1>2, <2>2
  <2> QED BY <2>2, <2>4, <2>5, <2>6 DEF n
<1> QED BY <1>4, <1>5

\* One more entry at the end.
LEMMA HeldAppend ==
  ASSUME NEW es \in Seq(Entry), NEW e \in Entry, NEW name
  PROVE  LET old == Held(es, name) IN
         Held(Append(es, e), name) = IF old # 0 THEN old ELSE IF e.name = name THEN e.obj ELSE 0
<1> DEFINE more == Append(es, e)
           m == First(more, name)
           n == First(es, name)
           len == Len(es)
<1>1. more \in Seq(Entry) /\ Len(more) = len + 1 /\ more[len + 1] = e
      /\ \A i \in 1 .. len : more[i] = es[i]
  <2>1. e \in Entry /\ es \in Seq(Entry) OBVIOUS
  <2> QED BY ONLY <2>1, AppendProperties
<1>2. len \in Nat OBVIOUS
<1> HIDE DEF more, len
<1>3. /\ n \in 0 .. len
      /\ n # 0 => es[n].name = name /\ es[n].obj \in Block
      /\ \A i \in 1 .. len : es[i].name = name => n # 0 /\ n <= i
  BY FirstFacts DEF len
<1>4. /\ m \in 0 .. len + 1
      /\ m # 0 => more[m].name = name /\ more[m].obj \in Block
      /\ \A i \in 1 .. len + 1 : more[i].name = name => m # 0 /\ m <= i
  BY <1>1, FirstFacts
<1>5. \A b \in Block : b # 0 BY DEF Block
<1> HIDE DEF m, n
<1>6. CASE n # 0
  <2>1. n \in 1 .. len /\ n \in 1 .. len + 1 BY <1>2, <1>3, <1>6
  <2>2. more[n].name = name BY <2>1, <1>1, <1>3, <1>6
  <2>3. m # 0 /\ m <= n BY <2>1, <2>2, <1>4
  <2>4. m \in 1 .. len BY <2>1, <2>3, <1>2, <1>4
  <2>5. es[m].name = name BY <2>3, <2>4, <1>1, <1>4
  <2>6. n <= m BY <2>4, <2>5, <1>3
  <2>7. m = n BY <2>1, <2>3, <2>4, <2>6
  <2>8. more[m].obj = es[n].obj /\ es[n].obj # 0 BY <2>4, <2>7, <1>1, <1>3, <1>5, <1>6
  <2> QED BY <1>6, <2>3, <2>8 DEF Held, m, n, more
<1>7. CASE n = 0 /\ e.name = name
  <2>1. len + 1 \in 1 .. len + 1 BY <1>2
  <2>2. m # 0 /\ m <= len + 1 BY <2>1, <1>1, <1>4, <1>7
  <2>3. ASSUME m \in 1 .. len PROVE FALSE BY <2>2, <2>3, <1>1, <1>3, <1>4, <1>7
  <2>4. m = len + 1 BY <2>2, <2>3, <1>2, <1>4
  <2> QED BY <1>1, <1>7, <2>2, <2>4 DEF Held, m, n, more
<1>8. CASE n = 0 /\ e.name # name
  <2>1. ASSUME m # 0 PROVE FALSE
    <3>1. m \in 1 .. len \/ m = len + 1 BY <2>1, <1>2, <1>4
    <3>2. more[m].name = name BY <2>1, <1>4
    <3> QED BY <3>1, <3>2, <1>1, <1>3, <1>8
  <2> QED BY <1>8, <2>1 DEF Held, m, n, more
<1> QED BY <1>6, <1>7, <1>8

\* hexafs_abstraction_find in such a table.
LEMMA FindShort ==
  ASSUME NEW blk \in Blocks, NEW A, Short(blk, A), NEW name
  PROVE  LET a == Held(blk[A].entries, name)
             B == blk[A].next
         IN /\ B = 0 => abstraction_find(blk, A, name) = a
            /\ B # 0 => abstraction_find(blk, A, name)
                          = IF a # 0 THEN a ELSE Held(blk[B].entries, name)
<1> DEFINE B == blk[A].next
           chain == Chain(blk, A)
           I == {i \in 1 .. Len(chain) : FindIn(blk, chain[i], name) # 0}
           stop == IF I # {} THEN Min(I) ELSE 0
           Is(b) == /\ FindIn(blk, b, name) = First(blk[b].entries, name)
                    /\ FindIn(blk, b, name) # 0 => blk[b].entries[FindIn(blk, b, name)].obj # 0
<1>1. A \in Block /\ blk[A].kind = "abs" BY DEF Short
<1>2. ASSUME NEW b \in Block, blk[b].kind = "abs" PROVE Is(b)
  <2>1. blk[b] \in Sector BY DEF Blocks
  <2>2. blk[b].entries \in Seq(Entry) BY <1>2, <2>1, AbsFacts
  <2>3. FindIn(blk, b, name) = First(blk[b].entries, name) BY <1>2 DEF FindIn, First
  <2>4. \A c \in Block : c # 0 BY DEF Block
  <2> QED BY <2>2, <2>3, <2>4, FirstFacts
<1>3. abstraction_find(blk, A, name)
        = IF stop = 0 THEN 0 ELSE blk[chain[stop]].entries[FindIn(blk, chain[stop], name)].obj
  BY DEF abstraction_find, FindAlong, SelectInSeq
<1>4. Is(A) BY <1>1, <1>2
<1> HIDE DEF chain
<1>5. CASE B = 0
  <2>1. chain = <<A>> BY <1>5, ChainOne DEF chain
  <2>2. Len(chain) = 1 /\ chain[1] = A BY <2>1
  <2>3. I = IF FindIn(blk, A, name) # 0 THEN {1} ELSE {} BY <2>2
  <2>4. Min({1}) = 1 BY MinOf
  <2>5. stop = IF FindIn(blk, A, name) # 0 THEN 1 ELSE 0 BY <2>3, <2>4
  <2> HIDE DEF stop
  <2> QED BY <1>3, <1>4, <1>5, <2>2, <2>5, SMTT(30) DEF Held
<1>6. CASE B # 0
  <2>1. B \in Block /\ B # A /\ blk[B].kind = "abs" /\ blk[B].next = 0 BY <1>6 DEF Short
  <2> HIDE DEF B
  <2>2. blk[A].next = B BY DEF B
  <2>3. chain = <<A, B>> BY <1>1, <2>1, <2>2, ChainTwo DEF chain
  <2>4. Len(chain) = 2 /\ chain[1] = A /\ chain[2] = B BY <2>3
  <2>5. Is(B) BY <2>1, <1>2
  <2>6. I \subseteq 1 .. 2 /\ I \in SUBSET Nat BY <2>4
  <2>7. I # {} => Min(I) \in I /\ \A i \in I : Min(I) <= i
    <3> HIDE DEF I
    <3> QED BY <2>6, MinOf
  <2>8. CASE FindIn(blk, A, name) # 0
    <3>1. 1 \in I BY <2>4, <2>8
    <3>2. I # {} BY <3>1
    <3>3. stop = Min(I) BY <3>2
    <3> HIDE DEF I
    <3>4. stop \in 1 .. 2 /\ stop <= 1 BY <2>6, <2>7, <3>1, <3>2, <3>3
    <3>5. stop = 1 BY <3>4
    <3> HIDE DEF stop
    <3> QED BY <1>3, <1>4, <1>6, <2>2, <2>4, <2>8, <3>5 DEF Held
  <2>9. CASE FindIn(blk, A, name) = 0 /\ FindIn(blk, B, name) # 0
    <3>1. 2 \in I /\ 1 \notin I BY <2>4, <2>9
    <3>2. I # {} BY <3>1
    <3>3. stop = Min(I) BY <3>2
    <3> HIDE DEF I
    <3>4. stop \in 1 .. 2 /\ stop # 1 BY <2>6, <2>7, <3>1, <3>2, <3>3
    <3>5. stop = 2 BY <3>4
    <3> HIDE DEF stop
    <3> QED BY <1>3, <1>4, <1>6, <2>2, <2>4, <2>5, <2>9, <3>5 DEF Held
  <2>10. CASE FindIn(blk, A, name) = 0 /\ FindIn(blk, B, name) = 0
    <3>1. 1 \notin I /\ 2 \notin I BY <2>4, <2>10
    <3>2. \A i \in 1 .. 2 : i = 1 \/ i = 2 OBVIOUS
    <3>3. I = {} BY <2>6, <3>1, <3>2
    <3>4. stop = 0 BY <3>3
    <3> HIDE DEF stop
    <3> QED BY <1>3, <1>4, <1>6, <2>2, <2>5, <2>10, <3>4 DEF Held
  <2> QED BY <2>8, <2>9, <2>10
<1> QED BY <1>5, <1>6

-----------------------------------------------------------------------------
(***************************************************************************)
(* What is true of the disk after every single sector write: h is the      *)
(* history of snapshots, own the tree of the root abstraction.  The blocks *)
(* of forms are marked in the bitmap; those of .users and .pimp need not   *)
(* be, as they are added to the live abstraction before the bitmap goes    *)
(* out.                                                                    *)
(***************************************************************************)
History(blk, sb, h) ==
  /\ \A i, j \in DOMAIN h : h[i] = h[j] => i = j
  /\ sb \in Block => h # <<>> /\ h[Len(h)] = sb
  /\ sb \notin Block => h = <<>>
  /\ \A i \in DOMAIN h : /\ blk[h[i]].kind = "snap"
                         /\ i = 1 => blk[h[i]].parent = 0
                         /\ i # 1 => blk[h[i]].parent = h[i - 1]

FormOk(blk, bmp, o) ==
  /\ o \in bmp /\ blk[o].kind = "obj"
  /\ \A i \in DOMAIN blk[o].cb : blk[o].cb[i] \in bmp
  /\ AsForm(blk, o).k = "form"
FormsOk(blk, own, bmp) == \A o \in Block : IsForm(blk, own, o) => FormOk(blk, bmp, o)

RootOk(blk, own, bmp, A) == A # 0 => A \in bmp /\ InTree(blk, own, A)

Shape(d, h, own) ==
  /\ d \in Disk /\ own \in Labels /\ h \in Seq(Block)
  /\ d.sb = NoSuper => d.bmp = {}
  /\ History(d.blk, d.sb, h)
  /\ \A i \in DOMAIN h : h[i] \in d.bmp /\ own[h[i]] = Outside
  /\ Tree(d.blk, own)
  /\ FormsOk(d.blk, own, d.bmp)
  /\ d.sb \in Block => RootOk(d.blk, own, d.bmp, RootObject(d.blk, d.sb))

\* What a boot would load, and the forms of the user in it.
Loaded(blk, sb) == IF sb \in Block THEN load_all(blk, RootObject(blk, sb)) ELSE <<>>
Shows(d) == Ordinary(Loaded(d.blk, d.sb))

\* The disk after a sector write, and the fields of a disk.
LEMMA DiskFields ==
  ASSUME NEW d \in Disk
  PROVE  d.sb \in 0 .. NBLOCKS + 1 /\ d.bmp \subseteq Block /\ d.blk \in Blocks
BY DEF Disk

\* A disk with another block.
LEMMA DiskBlock ==
  ASSUME NEW d \in Disk, NEW b \in Block, NEW v \in Sector
  PROVE  LET e == Written(d, [to |-> "blk", b |-> b, v |-> v]) IN
         /\ e \in Disk /\ e.sb = d.sb /\ e.bmp = d.bmp
         /\ e.blk = [d.blk EXCEPT ![b] = v] /\ e.blk[b] = v
         /\ \A c \in Block : c # b => e.blk[c] = d.blk[c]
<1> DEFINE B == [d.blk EXCEPT ![b] = v]
<1>1. B \in Blocks /\ B[b] = v /\ \A c \in Block : c # b => B[c] = d.blk[c] BY DEF Disk, Blocks
<1>2. Written(d, [to |-> "blk", b |-> b, v |-> v]) = [d EXCEPT !.blk = B] BY DEF Written
<1> HIDE DEF B
<1>3. LET e == [d EXCEPT !.blk = B] IN e \in Disk /\ e.sb = d.sb /\ e.bmp = d.bmp /\ e.blk = B
  BY <1>1 DEF Disk
<1> QED BY <1>1, <1>2, <1>3 DEF B

\* A disk with another bitmap.
LEMMA DiskBitmap ==
  ASSUME NEW d \in Disk, NEW B \in SUBSET Block
  PROVE  LET e == Written(d, [to |-> "bmp", v |-> B]) IN
         e \in Disk /\ e.sb = d.sb /\ e.bmp = B /\ e.blk = d.blk
<1>1. Written(d, [to |-> "bmp", v |-> B]) = [d EXCEPT !.bmp = B] BY DEF Written
<1> QED BY <1>1 DEF Disk

\* A disk with another superblock.
LEMMA DiskSuper ==
  ASSUME NEW d \in Disk, NEW n \in 0 .. NBLOCKS
  PROVE  LET e == Written(d, [to |-> "sb", v |-> n]) IN
         e \in Disk /\ e.sb = n /\ e.bmp = d.bmp /\ e.blk = d.blk
<1>1. Written(d, [to |-> "sb", v |-> n]) = [d EXCEPT !.sb = n] BY DEF Written
<1>2. n \in 0 .. NBLOCKS + 1 BY StoreAssumption
<1> QED BY <1>1, <1>2 DEF Disk

\* The root abstraction of a disk is a block of it.
LEMMA RootObjectTyped ==
  ASSUME NEW blk \in Blocks, NEW sb \in 0 .. NBLOCKS
  PROVE  RootObject(blk, sb) \in 0 .. NBLOCKS
<1>1. CASE sb = 0 \/ blk[sb].kind # "snap" BY <1>1, StoreAssumption DEF RootObject
<1>2. CASE sb # 0 /\ blk[sb].kind = "snap"
  <2>1. sb \in Block BY <1>2, StoreAssumption DEF Block
  <2>2. blk[sb] \in Sector BY <2>1 DEF Blocks
  <2>3. blk[sb].rootObj \in 0 .. NBLOCKS BY <1>2, <2>2, SnapFacts
  <2> QED BY <1>2, <2>3 DEF RootObject
<1> QED BY <1>1, <1>2

\* What load_all returns: a form for every entry of the first block, up to
\* the number there is room for.
LEMMA LoadAllValue ==
  ASSUME NEW blk \in Blocks, NEW A \in Block, blk[A].kind = "abs"
  PROVE  LET q == load_all(blk, A)
             es == blk[A].entries
         IN /\ q \in Seq(RawForm) /\ Len(q) \in Nat /\ Len(es) \in Nat
            /\ Len(q) <= Len(es) /\ Len(q) <= MAX_FORMS
            /\ Len(q) = Len(es) \/ Len(q) = MAX_FORMS
            /\ \A i \in 1 .. Len(q) : /\ q[i].name = es[i].name
                                      /\ q[i].body = AsForm(blk, es[i].obj)
                                      /\ q[i] = [name |-> es[i].name, body |-> AsForm(blk, es[i].obj)]
<1> DEFINE es == blk[A].entries
           S == {Len(es), MAX_FORMS}
           n == Min(S)
           q == [i \in 1 .. n |-> [name |-> es[i].name, body |-> AsForm(blk, es[i].obj)]]
<1>1. blk[A] \in Sector /\ A # 0 BY DEF Blocks, Block
<1>2. es \in Seq(Entry) BY <1>1, AbsFacts
<1>3. Len(es) \in Nat /\ MAX_FORMS \in Nat BY <1>2, FSAssumption
<1>4. S \in SUBSET Nat /\ S # {} BY <1>3
<1>5. n \in S /\ \A y \in S : n <= y
  <2> HIDE DEF S
  <2> QED BY <1>4, MinOf
<1>6. /\ n \in Nat /\ n <= Len(es) /\ n <= MAX_FORMS
      /\ n = Len(es) \/ n = MAX_FORMS
  BY <1>3, <1>5
<1>7. load_all(blk, A) = q BY <1>1 DEF load_all
<1> HIDE DEF n
<1>8. ASSUME NEW i \in 1 .. n
      PROVE  q[i] \in RawForm
  <2>1. i \in 1 .. Len(es) BY <1>3, <1>6
  <2>2. i \in DOMAIN es BY <1>2, <2>1
  <2>3. es[i].name \in AnyName /\ es[i].obj \in Block BY <1>1, <2>2, EntryFacts
  <2>4. AsForm(blk, es[i].obj) \in Payload BY <2>3, AsFormTyped
  <2> QED BY <2>3, <2>4 DEF RawForm
<1>9. q \in Seq(RawForm) /\ Len(q) = n BY <1>6, <1>8
<1>10. \A i \in 1 .. n : /\ q[i].name = es[i].name
                         /\ q[i].body = AsForm(blk, es[i].obj)
                         /\ q[i] = [name |-> es[i].name, body |-> AsForm(blk, es[i].obj)]
  OBVIOUS
<1> HIDE DEF q
<1> QED BY <1>3, <1>6, <1>7, <1>9, <1>10

\* The root abstraction of a sound disk, when there is one.
LEMMA ShapeRoot ==
  ASSUME NEW d, NEW h, NEW own, Shape(d, h, own), d.sb \in Block
  PROVE  LET A == RootObject(d.blk, d.sb) IN
         /\ d.blk[d.sb].kind = "snap" /\ A = d.blk[d.sb].rootObj
         /\ d.sb \in d.bmp /\ own[d.sb] = Outside
         /\ A # 0 => A \in Block /\ A \in d.bmp /\ InTree(d.blk, own, A) /\ d.blk[A].kind = "abs"
         /\ A = 0 => Loaded(d.blk, d.sb) = <<>>
         /\ A # 0 => Loaded(d.blk, d.sb) = load_all(d.blk, A)
<1> DEFINE A == RootObject(d.blk, d.sb)
<1>1. h # <<>> /\ h[Len(h)] = d.sb /\ h \in Seq(Block) BY DEF Shape, History
<1>2. Len(h) \in DOMAIN h BY <1>1
<1>3. d.blk[d.sb].kind = "snap" BY <1>1, <1>2 DEF Shape, History
<1>4. d.sb \in d.bmp /\ own[d.sb] = Outside BY <1>1, <1>2 DEF Shape
<1>5. A = d.blk[d.sb].rootObj BY <1>3 DEF RootObject, Block
<1>6. A # 0 => A \in d.bmp /\ InTree(d.blk, own, A) BY DEF Shape, RootOk
<1>7. d.bmp \subseteq Block BY DiskFields DEF Shape
<1>8. A = 0 => Loaded(d.blk, d.sb) = <<>> BY DEF Loaded, load_all
<1>9. A # 0 => Loaded(d.blk, d.sb) = load_all(d.blk, A) BY DEF Loaded
<1> HIDE DEF A
<1> QED BY <1>3, <1>4, <1>5, <1>6, <1>7, <1>8, <1>9 DEF InTree, A

\* Everything a boot would load from a sound disk is well formed.
LEMMA LoadedTyped ==
  ASSUME NEW d, NEW h, NEW own, Shape(d, h, own)
  PROVE  /\ Loaded(d.blk, d.sb) \in Seq(FormRec)
         /\ Len(Loaded(d.blk, d.sb)) <= MAX_FORMS
<1> DEFINE A == RootObject(d.blk, d.sb)
<1>1. CASE d.sb \notin Block \/ A = 0
  <2>1. Loaded(d.blk, d.sb) = <<>> BY <1>1, ShapeRoot DEF Loaded
  <2> QED BY <2>1, FSAssumption
<1>2. CASE d.sb \in Block /\ A # 0
  <2> DEFINE q == load_all(d.blk, A)
             es == d.blk[A].entries
  <2>1. /\ A \in Block /\ InTree(d.blk, own, A) /\ d.blk[A].kind = "abs"
        /\ Loaded(d.blk, d.sb) = q
    BY <1>2, ShapeRoot
  <2>2. d.blk \in Blocks BY DiskFields DEF Shape
  <2> HIDE DEF A
  <2>3. /\ q \in Seq(RawForm) /\ Len(q) \in Nat /\ Len(es) \in Nat
        /\ Len(q) <= Len(es) /\ Len(q) <= MAX_FORMS
        /\ \A i \in 1 .. Len(q) : q[i].name = es[i].name /\ q[i].body = AsForm(d.blk, es[i].obj)
    BY <2>1, <2>2, LoadAllValue
  <2>4. d.blk[A] \in Sector BY <2>1, <2>2 DEF Blocks
  <2>5. es \in Seq(Entry) BY <2>1, <2>4, AbsFacts
  <2> HIDE DEF q
  <2>6. ASSUME NEW i \in 1 .. Len(q) PROVE q[i] \in FormRec
    <3>1. q[i] \in RawForm BY <2>3
    <3>2. i \in 1 .. Len(es) BY <2>3
    <3>3. i \in DOMAIN es BY <2>5, <3>2
    <3>4. ASSUME es[i].name \in Names PROVE AsForm(d.blk, es[i].obj).k = "form"
      <4>1. IsForm(d.blk, own, es[i].obj) BY <3>3, <3>4, <2>1 DEF IsForm
      <4>2. es[i].obj \in Block BY <2>1, <2>4, <3>3, EntryFacts
      <4> QED BY <4>1, <4>2 DEF Shape, FormsOk, FormOk
    <3> QED BY <3>1, <3>4, <2>3 DEF FormRec
  <2>7. q \in Seq(FormRec) BY <2>3, <2>6
  <2> QED BY <2>1, <2>3, <2>7
<1> QED BY <1>1, <1>2

\* More entries at the end, none of a form of the user.
Extends(p, q) == /\ Len(p) <= Len(q)
                 /\ \A i \in 1 .. Len(p) : q[i] = p[i]
                 /\ \A i \in 1 .. Len(q) : i > Len(p) => q[i].name \notin Names

\* A sector write that keeps the tree, and stays away from the snapshots and
\* the forms, keeps the disk sound and what a boot would find.
Apart(d, h, own, b, v) ==
  /\ Tree([d.blk EXCEPT ![b] = v], own)
  /\ \A i \in DOMAIN h : h[i] # b
  /\ \A o \in Block : IsForm(d.blk, own, o) => own[b] # o
  /\ own[b] = 0 => v.kind = "abs" /\ Extends(EntriesBefore(d.blk[b]), v.entries)

\* The forms after such a write are those before it, and unchanged.
LEMMA ApartForms ==
  ASSUME NEW d, NEW h, NEW own, Shape(d, h, own), NEW b \in Block, NEW v \in Sector,
         Apart(d, h, own, b, v), NEW o \in Block
  PROVE  LET new == [d.blk EXCEPT ![b] = v] IN
         /\ IsForm(new, own, o) => IsForm(d.blk, own, o)
         /\ IsForm(d.blk, own, o) => /\ new[o] = d.blk[o] /\ AsForm(new, o) = AsForm(d.blk, o)
                                     /\ FormOk(new, d.bmp, o)
<1> DEFINE new == [d.blk EXCEPT ![b] = v]
<1>1. d.blk \in Blocks /\ own \in Labels /\ Tree(d.blk, own) BY DiskFields DEF Shape
<1>2. new[b] = v /\ \A c \in Block : c # b => new[c] = d.blk[c] BY <1>1 DEF Blocks
<1>3. d.blk[b] \in Sector /\ d.blk[o] \in Sector BY <1>1 DEF Blocks
<1> HIDE DEF new
<1>4. ASSUME IsForm(new, own, o) PROVE IsForm(d.blk, own, o)
  <2>1. PICK c \in Block : /\ InTree(new, own, c)
                           /\ \E i \in DOMAIN new[c].entries :
                                new[c].entries[i].obj = o /\ new[c].entries[i].name \in Names
    BY <1>4 DEF IsForm
  <2>2. CASE c # b
    <3>1. new[c] = d.blk[c] /\ InTree(d.blk, own, c) BY <2>1, <2>2, <1>2 DEF InTree
    <3> QED BY <2>1, <3>1 DEF IsForm
  <2>3. CASE c = b
    <3> DEFINE old == EntriesBefore(d.blk[b])
    <3>1. own[b] = 0 /\ new[b] = v BY <2>1, <2>3, <1>2 DEF InTree
    <3>2. v.kind = "abs" /\ Extends(old, v.entries) BY <3>1 DEF Apart
    <3>3. v.entries \in Seq(Entry) BY <3>2, AbsFacts
    <3>4. PICK i \in DOMAIN v.entries : v.entries[i].obj = o /\ v.entries[i].name \in Names
      BY <2>1, <2>3, <3>1
    <3>5. old \in Seq(Entry) BY <1>3, AbsFacts DEF EntriesBefore
    <3>6. i \in 1 .. Len(old) /\ v.entries[i] = old[i] BY <3>2, <3>3, <3>4, <3>5 DEF Extends
    <3>7. d.blk[b].kind = "abs" /\ old = d.blk[b].entries BY <3>6, <3>5 DEF EntriesBefore
    <3>8. InTree(d.blk, own, b) BY <3>1, <3>7 DEF InTree
    <3>9. i \in DOMAIN d.blk[b].entries BY <3>5, <3>6, <3>7
    <3> QED BY <3>4, <3>6, <3>7, <3>8, <3>9 DEF IsForm
  <2> QED BY <2>2, <2>3
<1>5. ASSUME IsForm(d.blk, own, o)
      PROVE  new[o] = d.blk[o] /\ AsForm(new, o) = AsForm(d.blk, o) /\ FormOk(new, d.bmp, o)
  <2>1. own[o] = o /\ own[o] # Outside BY <1>1, <1>5, FormsEntered
  <2>2. own[b] # o BY <1>5 DEF Apart
  <2>3. new[o] = d.blk[o] BY <2>1, <2>2, <1>2
  <2>4. FormOk(d.blk, d.bmp, o) BY <1>5 DEF Shape, FormsOk
  <2>5. d.blk[o].kind = "obj" BY <2>4 DEF FormOk
  <2>6. ObjOk(d.blk, own, o) BY <1>1, <2>1, <2>5 DEF Tree
  <2>7. d.blk[o].cb \in Seq(Block) BY <1>3, <2>5, ObjFacts
  <2>8. ASSUME NEW i \in DOMAIN d.blk[o].cb PROVE new[d.blk[o].cb[i]] = d.blk[d.blk[o].cb[i]]
    <3>1. d.blk[o].cb[i] \in Block BY <2>7
    <3>2. own[d.blk[o].cb[i]] = o BY <2>6 DEF ObjOk
    <3> QED BY <3>1, <3>2, <2>2, <1>2
  <2>9. AsForm(new, o) = AsForm(d.blk, o) BY <2>3, <2>7, <2>8, AsFormSame
  <2>10. FormOk(new, d.bmp, o) BY <2>3, <2>4, <2>9 DEF FormOk
  <2> QED BY <2>3, <2>9, <2>10
<1> QED BY <1>4, <1>5 DEF new

\* The root after such a write.
LEMMA ApartRoot ==
  ASSUME NEW d, NEW h, NEW own, Shape(d, h, own), NEW b \in Block, NEW v \in Sector,
         Apart(d, h, own, b, v), d.sb \in Block
  PROVE  LET new == [d.blk EXCEPT ![b] = v]
             A == RootObject(d.blk, d.sb)
         IN /\ RootObject(new, d.sb) = A
            /\ A # 0 => /\ InTree(new, own, A) /\ new[A].entries \in Seq(Entry)
                        /\ d.blk[A].entries \in Seq(Entry)
                        /\ Extends(d.blk[A].entries, new[A].entries)
<1> DEFINE new == [d.blk EXCEPT ![b] = v]
           A == RootObject(d.blk, d.sb)
<1>1. d.blk \in Blocks /\ own \in Labels BY DiskFields DEF Shape
<1>2. new[b] = v /\ \A c \in Block : c # b => new[c] = d.blk[c] BY <1>1 DEF Blocks
<1>3. h # <<>> /\ h[Len(h)] = d.sb /\ h \in Seq(Block) BY DEF Shape, History
<1>4. Len(h) \in DOMAIN h BY <1>3
<1>5. d.sb # b BY <1>3, <1>4 DEF Apart
<1>6. new[d.sb] = d.blk[d.sb] BY <1>2, <1>5
<1>7. RootObject(new, d.sb) = A BY <1>6 DEF RootObject
<1>8. A # 0 => A \in Block /\ InTree(d.blk, own, A) /\ d.blk[A].kind = "abs" BY ShapeRoot
<1> HIDE DEF new, A
<1>9. ASSUME A # 0 PROVE /\ InTree(new, own, A) /\ new[A].entries \in Seq(Entry)
                         /\ d.blk[A].entries \in Seq(Entry)
                         /\ Extends(d.blk[A].entries, new[A].entries)
  <2>1. d.blk[A] \in Sector BY <1>1, <1>8, <1>9 DEF Blocks
  <2>2. d.blk[A].entries \in Seq(Entry) BY <2>1, <1>8, <1>9, AbsFacts
  <2>3. CASE A = b
    <3>1. own[b] = 0 BY <2>3, <1>8, <1>9 DEF InTree
    <3>2. v.kind = "abs" /\ Extends(EntriesBefore(d.blk[b]), v.entries) BY <3>1 DEF Apart
    <3>3. EntriesBefore(d.blk[b]) = d.blk[b].entries BY <2>3, <1>8, <1>9 DEF EntriesBefore
    <3>4. v.entries \in Seq(Entry) BY <3>2, AbsFacts
    <3> QED BY <2>2, <2>3, <3>1, <3>2, <3>3, <3>4, <1>2 DEF InTree
  <2>4. CASE A # b
    <3>1. new[A] = d.blk[A] BY <2>4, <1>2, <1>8, <1>9
    <3>2. Extends(d.blk[A].entries, d.blk[A].entries)
      <4>1. Len(d.blk[A].entries) \in Nat BY <2>2
      <4> QED BY <4>1 DEF Extends
    <3> QED BY <2>2, <3>1, <3>2, <1>8, <1>9 DEF InTree
  <2> QED BY <2>3, <2>4
<1> QED BY <1>7, <1>9 DEF new, A

\* What a boot would find after such a write is what it would have found before.
LEMMA ApartShows ==
  ASSUME NEW d, NEW h, NEW own, Shape(d, h, own), NEW b \in Block, NEW v \in Sector,
         Apart(d, h, own, b, v)
  PROVE  Ordinary(Loaded([d.blk EXCEPT ![b] = v], d.sb)) = Shows(d)
<1> DEFINE new == [d.blk EXCEPT ![b] = v]
           A == RootObject(d.blk, d.sb)
<1>1. CASE d.sb \notin Block BY <1>1 DEF Loaded, Shows
<1>2. CASE d.sb \in Block /\ A = 0
  <2>1. RootObject(new, d.sb) = 0 BY <1>2, ApartRoot
  <2> QED BY <1>2, <2>1 DEF Loaded, load_all, Shows
<1>3. CASE d.sb \in Block /\ A # 0
  <2> DEFINE p == load_all(d.blk, A)
             q == load_all(new, A)
             es == d.blk[A].entries
             fs == new[A].entries
  <2>1. d.blk \in Blocks /\ new \in Blocks
    <3>1. d.blk \in Blocks BY DiskFields DEF Shape
    <3> QED BY <3>1 DEF Blocks
  <2>2. RootObject(new, d.sb) = A /\ InTree(new, own, A) /\ fs \in Seq(Entry) /\ es \in Seq(Entry)
    BY <1>3, ApartRoot
  <2>3. Extends(es, fs) BY <1>3, ApartRoot
  <2>4. A \in Block /\ d.blk[A].kind = "abs" /\ InTree(d.blk, own, A) BY <1>3, ShapeRoot
  <2>5. new[A].kind = "abs" BY <2>2 DEF InTree
  <2>6. Loaded(new, d.sb) = q /\ Shows(d) = Ordinary(p)
    BY <1>3, <2>2 DEF Loaded, Shows
  <2>14. ASSUME NEW o \in Block, IsForm(d.blk, own, o) PROVE AsForm(new, o) = AsForm(d.blk, o)
    BY <2>14, ApartForms
  <2> HIDE DEF A, new
  <2>7. /\ p \in Seq(RawForm) /\ Len(p) \in Nat /\ Len(es) \in Nat
        /\ Len(p) <= Len(es) /\ Len(p) <= MAX_FORMS /\ (Len(p) = Len(es) \/ Len(p) = MAX_FORMS)
        /\ \A i \in 1 .. Len(p) : /\ p[i].name = es[i].name
                                  /\ p[i] = [name |-> es[i].name, body |-> AsForm(d.blk, es[i].obj)]
    BY <2>1, <2>4, LoadAllValue
  <2>8. /\ q \in Seq(RawForm) /\ Len(q) \in Nat /\ Len(fs) \in Nat
        /\ Len(q) <= Len(fs) /\ Len(q) <= MAX_FORMS /\ (Len(q) = Len(fs) \/ Len(q) = MAX_FORMS)
        /\ \A i \in 1 .. Len(q) : /\ q[i].name = fs[i].name
                                  /\ q[i] = [name |-> fs[i].name, body |-> AsForm(new, fs[i].obj)]
    BY <2>1, <2>4, <2>5, LoadAllValue
  <2> HIDE DEF p, q
  <2>9. MAX_FORMS \in Nat BY FSAssumption
  <2>10. Len(es) <= Len(fs) BY <2>3 DEF Extends
  <2>11. Len(p) <= Len(q) BY <2>7, <2>8, <2>9, <2>10
  <2>12. ASSUME NEW i \in 1 .. Len(p)
         PROVE  p[i].name = q[i].name /\ (q[i].name \in Names => p[i] = q[i])
    <3>1. i \in 1 .. Len(q) /\ i \in 1 .. Len(es) BY <2>7, <2>8, <2>11
    <3>2. fs[i] = es[i] BY <3>1, <2>3 DEF Extends
    <3>3. p[i].name = q[i].name BY <2>7, <2>8, <3>1, <3>2
    <3>4. ASSUME es[i].name \in Names PROVE AsForm(new, es[i].obj) = AsForm(d.blk, es[i].obj)
      <4>1. i \in DOMAIN es BY <2>2, <3>1
      <4>2. IsForm(d.blk, own, es[i].obj) BY <2>4, <3>4, <4>1 DEF IsForm
      <4>3. es[i] \in Entry BY <2>2, <3>1
      <4>4. es[i].obj \in Block BY <4>3 DEF Entry
      <4> QED BY <4>2, <4>4, <2>14
    <3> QED BY <2>7, <2>8, <3>1, <3>2, <3>3, <3>4
  <2>13. ASSUME NEW i \in 1 .. Len(q), i > Len(p) PROVE q[i].name \notin Names
    <3>1. Len(p) = Len(es) /\ i \in 1 .. Len(fs) BY <2>7, <2>8, <2>9, <2>13
    <3>2. fs[i].name \notin Names BY <3>1, <2>3, <2>13 DEF Extends
    <3> QED BY <3>2, <2>8
  <2>15. Ordinary(p) = Ordinary(q) BY <2>7, <2>8, <2>11, <2>12, <2>13, OrdinaryAgree
  <2> QED BY <2>6, <2>15 DEF new
<1> QED BY <1>1, <1>2, <1>3

\* The write keeps the disk sound.
LEMMA ShapeWrite ==
  ASSUME NEW d, NEW h, NEW own, Shape(d, h, own), NEW b \in Block, NEW v \in Sector,
         Apart(d, h, own, b, v)
  PROVE  LET e == Written(d, [to |-> "blk", b |-> b, v |-> v]) IN
         Shape(e, h, own) /\ Shows(e) = Shows(d)
<1> DEFINE e == Written(d, [to |-> "blk", b |-> b, v |-> v])
           new == [d.blk EXCEPT ![b] = v]
<1>1. d \in Disk /\ own \in Labels /\ h \in Seq(Block) BY DEF Shape
<1>2. /\ e \in Disk /\ e.sb = d.sb /\ e.bmp = d.bmp /\ e.blk = new
      /\ \A c \in Block : c # b => new[c] = d.blk[c]
  BY <1>1, DiskBlock
<1>3. \A o \in Block : IsForm(new, own, o) => IsForm(d.blk, own, o) /\ FormOk(new, d.bmp, o)
  BY ApartForms
<1>4. Ordinary(Loaded(new, d.sb)) = Shows(d) BY ApartShows
<1>5. d.sb \in Block => LET A == RootObject(d.blk, d.sb) IN
        RootObject(new, d.sb) = A /\ (A # 0 => InTree(new, own, A))
  BY ApartRoot
<1>6. Tree(new, own) BY DEF Apart
<1> HIDE DEF e, new
<1>7. FormsOk(new, own, d.bmp) BY <1>3 DEF FormsOk
<1>8. History(new, d.sb, h)
  <2>1. ASSUME NEW i \in DOMAIN h PROVE new[h[i]] = d.blk[h[i]]
    <3>1. h[i] \in Block BY <1>1
    <3> QED BY <3>1, <1>2 DEF Apart
  <2>2. History(d.blk, d.sb, h) BY DEF Shape
  <2> QED BY <2>1, <2>2 DEF History
<1>9. d.sb \in Block => RootOk(new, own, d.bmp, RootObject(new, d.sb)) BY <1>5 DEF Shape, RootOk
<1>10. \A i \in DOMAIN h : h[i] \in d.bmp /\ own[h[i]] = Outside BY DEF Shape
<1>11. d.sb = NoSuper => d.bmp = {} BY DEF Shape
<1>12. Shape(e, h, own) BY <1>1, <1>2, <1>6, <1>7, <1>8, <1>9, <1>10, <1>11 DEF Shape
<1> QED BY <1>2, <1>4, <1>12 DEF Shows, e

\* Marking more blocks keeps the disk sound.
LEMMA ShapeBitmap ==
  ASSUME NEW d, NEW h, NEW own, Shape(d, h, own), NEW B \in SUBSET Block, d.bmp \subseteq B,
         d.sb # NoSuper
  PROVE  LET e == Written(d, [to |-> "bmp", v |-> B]) IN
         Shape(e, h, own) /\ Shows(e) = Shows(d)
<1> DEFINE e == Written(d, [to |-> "bmp", v |-> B])
<1>1. d \in Disk /\ own \in Labels /\ h \in Seq(Block) BY DEF Shape
<1>2. e \in Disk /\ e.sb = d.sb /\ e.bmp = B /\ e.blk = d.blk BY <1>1, DiskBitmap
<1> HIDE DEF e
<1>3. FormsOk(d.blk, own, B)
  <2> SUFFICES ASSUME NEW o \in Block, IsForm(d.blk, own, o) PROVE FormOk(d.blk, B, o)
    BY DEF FormsOk
  <2>1. FormOk(d.blk, d.bmp, o) BY DEF Shape, FormsOk
  <2> QED BY <2>1 DEF FormOk
<1>4. d.sb \in Block => RootOk(d.blk, own, B, RootObject(d.blk, d.sb)) BY DEF Shape, RootOk
<1>5. \A i \in DOMAIN h : h[i] \in B /\ own[h[i]] = Outside BY DEF Shape
<1>6. History(d.blk, d.sb, h) /\ Tree(d.blk, own) BY DEF Shape
<1>7. Shape(e, h, own) BY <1>1, <1>2, <1>3, <1>4, <1>5, <1>6 DEF Shape
<1> QED BY <1>2, <1>7 DEF Shows, e

\* Writing the superblock that is there changes nothing.
LEMMA SuperAgain ==
  ASSUME NEW d \in Disk
  PROVE  Written(d, [to |-> "sb", v |-> d.sb]) = d
<1>1. Written(d, [to |-> "sb", v |-> d.sb]) = [d EXCEPT !.sb = d.sb] BY DEF Written
<1> QED BY <1>1 DEF Disk

\* A cleared block that is no snapshot may be given an owner.
LEMMA ShapeLabel ==
  ASSUME NEW d, NEW h, NEW own, Shape(d, h, own), NEW b \in Block, own[b] = Outside,
         d.blk[b].kind = "zero", NEW x \in 0 .. NBLOCKS
  PROVE  Shape(d, h, [own EXCEPT ![b] = x])
<1> DEFINE more == [own EXCEPT ![b] = x]
<1>1. /\ d \in Disk /\ d.blk \in Blocks /\ own \in Labels /\ h \in Seq(Block) /\ Tree(d.blk, own)
      /\ History(d.blk, d.sb, h)
  BY DiskFields DEF Shape
<1>2. /\ more \in Labels /\ Tree(d.blk, more) /\ more[b] = x
      /\ \A c \in Block : c # b => more[c] = own[c]
      /\ \A c \in Block : InTree(d.blk, more, c) <=> InTree(d.blk, own, c)
  BY <1>1, TreeLabel
<1> HIDE DEF more
<1>3. ASSUME NEW o \in Block PROVE IsForm(d.blk, more, o) <=> IsForm(d.blk, own, o)
  BY <1>2, SameEntries
<1>4. FormsOk(d.blk, more, d.bmp) BY <1>3 DEF FormsOk, Shape
<1>5. d.sb \in Block => RootOk(d.blk, more, d.bmp, RootObject(d.blk, d.sb))
  <2> SUFFICES ASSUME d.sb \in Block, RootObject(d.blk, d.sb) # 0
               PROVE  /\ RootObject(d.blk, d.sb) \in d.bmp
                      /\ InTree(d.blk, more, RootObject(d.blk, d.sb))
    BY DEF RootOk
  <2>1. /\ RootObject(d.blk, d.sb) \in Block /\ RootObject(d.blk, d.sb) \in d.bmp
        /\ InTree(d.blk, own, RootObject(d.blk, d.sb))
    BY ShapeRoot
  <2> QED BY <2>1, <1>2
<1>6. ASSUME NEW i \in DOMAIN h PROVE h[i] \in d.bmp /\ more[h[i]] = Outside
  <2>1. h[i] \in d.bmp /\ own[h[i]] = Outside /\ h[i] \in Block BY <1>1 DEF Shape
  <2>2. d.blk[h[i]].kind = "snap" BY <1>1 DEF History
  <2>3. h[i] # b BY <2>2
  <2> QED BY <2>1, <2>3, <1>2
<1>7. Shape(d, h, more) BY <1>1, <1>2, <1>4, <1>5, <1>6 DEF Shape
<1> QED BY <1>7 DEF more

\* No tree at all.
NoTree == [b \in Block |-> Outside]

\* It is a tree of any blocks, without forms.
LEMMA EmptyTree ==
  ASSUME NEW blk, NEW bmp
  PROVE  /\ NoTree \in Labels /\ Tree(blk, NoTree) /\ FormsOk(blk, NoTree, bmp)
         /\ \A b \in Block : NoTree[b] = Outside
         /\ \A b \in Block : ~InTree(blk, NoTree, b)
         /\ \A o : ~Entered(blk, NoTree, o)
<1>1. Outside # 0 BY StoreAssumption DEF Outside
<1>2. NoTree \in Labels /\ \A b \in Block : NoTree[b] = Outside
  BY StoreAssumption DEF NoTree, Labels, Outside
<1>3. \A b \in Block : ~InTree(blk, NoTree, b) BY <1>1, <1>2 DEF InTree
<1>4. Tree(blk, NoTree) BY <1>2, <1>3 DEF Tree, NoSharing
<1>5. FormsOk(blk, NoTree, bmp) BY <1>3 DEF FormsOk, IsForm
<1>6. \A o : ~Entered(blk, NoTree, o) BY <1>3 DEF Entered
<1> QED BY <1>2, <1>3, <1>4, <1>5, <1>6

\* The superblock may be pointed at a new snapshot whose parent is the root,
\* once the bitmap on disk marks the snapshot and all it leads to.
LEMMA ShapeNewRoot ==
  ASSUME NEW d, NEW h, NEW own, Shape(d, h, own), d.sb # NoSuper,
         NEW b \in Block, b \in d.bmp, \A i \in DOMAIN h : h[i] # b,
         NEW A \in 0 .. NBLOCKS, d.blk[b] = Snap(d.sb, A),
         NEW more \in Labels, Tree(d.blk, more), FormsOk(d.blk, more, d.bmp), more[b] = Outside,
         \A i \in DOMAIN h : more[h[i]] = Outside, RootOk(d.blk, more, d.bmp, A)
  PROVE  LET e == Written(d, [to |-> "sb", v |-> b]) IN
         /\ Shape(e, Append(h, b), more)
         /\ Shows(e) = Ordinary(load_all(d.blk, A))
<1> DEFINE e == Written(d, [to |-> "sb", v |-> b])
           g == Append(h, b)
<1>1. d \in Disk /\ h \in Seq(Block) /\ History(d.blk, d.sb, h) BY DEF Shape
<1>2. b \in 0 .. NBLOCKS /\ b # 0 /\ b # NoSuper BY StoreAssumption DEF Block, NoSuper
<1>3. e \in Disk /\ e.sb = b /\ e.bmp = d.bmp /\ e.blk = d.blk BY <1>1, <1>2, DiskSuper
<1>4. /\ g \in Seq(Block) /\ Len(g) = Len(h) + 1 /\ g[Len(h) + 1] = b /\ Len(h) \in Nat
      /\ \A i \in 1 .. Len(h) : g[i] = h[i]
      /\ DOMAIN h = 1 .. Len(h) /\ DOMAIN g = 1 .. Len(g)
  BY <1>1
<1>5. d.sb \in 0 .. NBLOCKS /\ (d.sb \notin Block => d.sb = 0)
  <2>1. d.sb \in 0 .. NBLOCKS + 1 BY <1>1, DiskFields
  <2> QED BY <2>1, StoreAssumption DEF Block, NoSuper
<1>6. d.blk[b].kind = "snap" /\ d.blk[b].parent = d.sb /\ d.blk[b].rootObj = A
  BY <1>5, SnapMade
<1> HIDE DEF e, g
<1>7. RootObject(d.blk, b) = A BY <1>2, <1>6 DEF RootObject
<1>8. History(d.blk, b, g)
  <2>1. ASSUME NEW i \in DOMAIN g, NEW j \in DOMAIN g, g[i] = g[j] PROVE i = j
    <3>1. CASE i \in 1 .. Len(h) /\ j \in 1 .. Len(h)
      <4>1. h[i] = h[j] BY <3>1, <2>1, <1>4
      <4> QED BY <4>1, <3>1, <1>1, <1>4 DEF History
    <3>2. CASE i = Len(h) + 1 /\ j = Len(h) + 1 BY <3>2
    <3>3. CASE i = Len(h) + 1 /\ j \in 1 .. Len(h) BY <3>3, <2>1, <1>4
    <3>4. CASE j = Len(h) + 1 /\ i \in 1 .. Len(h) BY <3>4, <2>1, <1>4
    <3> QED BY <3>1, <3>2, <3>3, <3>4, <1>4
  <2>2. g # <<>> /\ g[Len(g)] = b BY <1>4
  <2>3. ASSUME NEW i \in DOMAIN g
        PROVE  /\ d.blk[g[i]].kind = "snap"
               /\ i = 1 => d.blk[g[i]].parent = 0
               /\ i # 1 => d.blk[g[i]].parent = g[i - 1]
    <3>1. CASE i \in 1 .. Len(h)
      <4>1. g[i] = h[i] /\ (i # 1 => g[i - 1] = h[i - 1]) BY <3>1, <1>4
      <4> QED BY <4>1, <3>1, <1>1, <1>4 DEF History
    <3>2. CASE i = Len(h) + 1
      <4>1. g[i] = b BY <3>2, <1>4
      <4>2. CASE d.sb \in Block
        <5>1. h # <<>> /\ h[Len(h)] = d.sb BY <4>2, <1>1 DEF History
        <5>2. Len(h) # 0 BY <5>1, <1>1
        <5>3. i # 1 /\ g[i - 1] = d.sb BY <3>2, <5>1, <5>2, <1>4
        <5> QED BY <4>1, <5>3, <1>6
      <4>3. CASE d.sb \notin Block
        <5>1. h = <<>> BY <4>3, <1>1 DEF History
        <5>2. i = 1 BY <3>2, <5>1
        <5> QED BY <4>1, <4>3, <5>2, <1>5, <1>6
      <4> QED BY <4>2, <4>3
    <3> QED BY <3>1, <3>2, <1>4
  <2> QED BY <2>1, <2>2, <2>3 DEF History
<1>9. ASSUME NEW i \in DOMAIN g PROVE g[i] \in d.bmp /\ more[g[i]] = Outside
  <2>1. CASE i \in 1 .. Len(h)
    <3>1. g[i] = h[i] /\ i \in DOMAIN h BY <2>1, <1>4
    <3> QED BY <3>1 DEF Shape
  <2>2. CASE i = Len(h) + 1 BY <2>2, <1>4
  <2> QED BY <2>1, <2>2, <1>4
<1>10. Shape(e, g, more) BY <1>2, <1>3, <1>4, <1>7, <1>8, <1>9 DEF Shape
<1>11. Shows(e) = Ordinary(load_all(d.blk, A)) BY <1>3, <1>7 DEF Shows, Loaded
<1> QED BY <1>10, <1>11 DEF e, g

\* Formatting starts with an empty superblock.
LEMMA ShapeFormat ==
  ASSUME NEW d, NEW h, NEW own, Shape(d, h, own), d.sb = NoSuper
  PROVE  LET e == Written(d, [to |-> "sb", v |-> 0]) IN
         /\ Shape(e, <<>>, NoTree) /\ e.bmp = {} /\ e.blk = d.blk /\ e.sb = 0
         /\ Shows(e) = Shows(d)
<1> DEFINE e == Written(d, [to |-> "sb", v |-> 0])
<1>1. d \in Disk /\ d.bmp = {} BY DEF Shape
<1>2. 0 \in 0 .. NBLOCKS /\ 0 # NoSuper /\ 0 \notin Block /\ d.sb \notin Block
  BY StoreAssumption DEF NoSuper, Block
<1>3. e \in Disk /\ e.sb = 0 /\ e.bmp = {} /\ e.blk = d.blk BY <1>1, <1>2, DiskSuper
<1> HIDE DEF e
<1>4. NoTree \in Labels /\ Tree(e.blk, NoTree) /\ FormsOk(e.blk, NoTree, e.bmp) BY EmptyTree
<1>5. <<>> \in Seq(Block) /\ History(e.blk, e.sb, <<>>) BY <1>2, <1>3 DEF History
<1>6. Shape(e, <<>>, NoTree) BY <1>2, <1>3, <1>4, <1>5 DEF Shape
<1>7. Shows(e) = Shows(d) BY <1>2, <1>3 DEF Shows, Loaded
<1> QED BY <1>3, <1>6, <1>7 DEF e
=============================================================================
