---------------------------- MODULE HexaFSProofs ----------------------------
(***************************************************************************)
(* Persistence survives power loss, for every size of the disk and every   *)
(* number of commands: the proofs of the invariants of HexaFS.             *)
(***************************************************************************)
EXTENDS HexaStoreProofs

-----------------------------------------------------------------------------
(***************************************************************************)
(* The writes of a command, one by one.  Trail says that carrying out the  *)
(* writes of log in order leads from disk d0 to disk d, and that after     *)
(* every one of them (and before the first) the disk is sound and a boot   *)
(* would find one of the contents in E.                                    *)
(***************************************************************************)
Safe(d, E) == Shows(d) \in E /\ \E h, own : Shape(d, h, own)

Trail(d0, log, d, E) ==
  \E D : /\ D[0] = d0 /\ D[Len(log)] = d
         /\ \A i \in 1 .. Len(log) : D[i] = Written(D[i - 1], log[i])
         /\ \A i \in 0 .. Len(log) : Safe(D[i], E)

\* A command that writes nothing.
LEMMA TrailEmpty ==
  ASSUME NEW d, NEW E, Safe(d, E)
  PROVE  Trail(d, <<>>, d, E)
<1> DEFINE D == [i \in 0 .. 0 |-> d]
<1>1. D[0] = d /\ Len(<<>>) = 0 OBVIOUS
<1> HIDE DEF D
<1>2. \A i \in 1 .. Len(<<>>) : D[i] = Written(D[i - 1], <<>>[i]) BY <1>1
<1>3. \A i \in 0 .. Len(<<>>) : Safe(D[i], E) BY <1>1
<1> QED BY <1>1, <1>2, <1>3 DEF Trail

\* One more write.
LEMMA TrailAppend ==
  ASSUME NEW d0, NEW log \in Seq(Write), NEW d, NEW E, Trail(d0, log, d, E),
         NEW w \in Write, Safe(Written(d, w), E)
  PROVE  Trail(d0, Append(log, w), Written(d, w), E)
<1>1. PICK D : /\ D[0] = d0 /\ D[Len(log)] = d
               /\ \A i \in 1 .. Len(log) : D[i] = Written(D[i - 1], log[i])
               /\ \A i \in 0 .. Len(log) : Safe(D[i], E)
  BY DEF Trail
<1> DEFINE n == Len(log)
           more == Append(log, w)
           F == [i \in 0 .. n + 1 |-> IF i <= n THEN D[i] ELSE Written(d, w)]
<1>2. n \in Nat /\ Len(more) = n + 1 /\ more[n + 1] = w /\ \A i \in 1 .. n : more[i] = log[i]
  OBVIOUS
<1>3. F[n + 1] = Written(d, w) /\ \A i \in 0 .. n : F[i] = D[i] BY <1>2
<1> HIDE DEF n, more, F
<1>4. F[0] = d0 /\ F[n] = d BY <1>1, <1>2, <1>3 DEF n
<1>5. ASSUME NEW i \in 1 .. n + 1 PROVE F[i] = Written(F[i - 1], more[i])
  <2>1. CASE i \in 1 .. n
    <3>1. F[i] = D[i] /\ F[i - 1] = D[i - 1] /\ more[i] = log[i] BY <2>1, <1>2, <1>3
    <3> QED BY <3>1, <2>1, <1>1 DEF n
  <2>2. CASE i = n + 1
    <3>1. i - 1 = n BY <2>2, <1>2
    <3> QED BY <3>1, <2>2, <1>2, <1>3, <1>4
  <2> QED BY <2>1, <2>2, <1>2
<1>6. ASSUME NEW i \in 0 .. n + 1 PROVE Safe(F[i], E)
  <2>1. CASE i \in 0 .. n BY <2>1, <1>1, <1>3 DEF n
  <2>2. CASE i = n + 1 BY <2>2, <1>3
  <2> QED BY <2>1, <2>2, <1>2
<1>7. Trail(d0, more, Written(d, w), E)
  <2>1. F[Len(more)] = Written(d, w) BY <1>2, <1>3
  <2>2. \A i \in 1 .. Len(more) : F[i] = Written(F[i - 1], more[i]) BY <1>2, <1>5
  <2>3. \A i \in 0 .. Len(more) : Safe(F[i], E) BY <1>2, <1>6
  <2> QED BY <1>4, <2>1, <2>2, <2>3 DEF Trail
<1> QED BY <1>7 DEF more

\* The first write carried out.
LEMMA TrailHead ==
  ASSUME NEW d0, NEW log \in Seq(Write), log # <<>>, NEW d, NEW E, Trail(d0, log, d, E)
  PROVE  Trail(Written(d0, Head(log)), Tail(log), d, E)
<1>1. PICK D : /\ D[0] = d0 /\ D[Len(log)] = d
               /\ \A i \in 1 .. Len(log) : D[i] = Written(D[i - 1], log[i])
               /\ \A i \in 0 .. Len(log) : Safe(D[i], E)
  BY DEF Trail
<1> DEFINE n == Len(log)
           rest == Tail(log)
           F == [i \in 0 .. n - 1 |-> D[i + 1]]
<1>2. /\ n \in Nat /\ n >= 1 /\ Len(rest) = n - 1 /\ Head(log) = log[1]
      /\ \A i \in 1 .. n - 1 : rest[i] = log[i + 1]
  OBVIOUS
<1>3. \A i \in 0 .. n - 1 : F[i] = D[i + 1] OBVIOUS
<1> HIDE DEF n, rest, F
<1>4. F[0] = Written(d0, log[1]) BY <1>1, <1>2, <1>3 DEF n
<1>5. F[n - 1] = d BY <1>1, <1>2, <1>3 DEF n
<1>6. ASSUME NEW i \in 1 .. n - 1 PROVE F[i] = Written(F[i - 1], rest[i])
  <2>1. F[i] = D[i + 1] /\ F[i - 1] = D[i] /\ rest[i] = log[i + 1] BY <1>2, <1>3
  <2>2. i + 1 \in 1 .. n /\ (i + 1) - 1 = i BY <1>2
  <2> QED BY <2>1, <2>2, <1>1 DEF n
<1>7. ASSUME NEW i \in 0 .. n - 1 PROVE Safe(F[i], E)
  <2>1. i + 1 \in 0 .. n BY <1>2
  <2> QED BY <2>1, <1>1, <1>3 DEF n
<1>8. Trail(Written(d0, log[1]), rest, d, E) BY <1>2, <1>4, <1>5, <1>6, <1>7 DEF Trail
<1> QED BY <1>2, <1>8 DEF rest

\* The disk at both ends of a trail.
LEMMA TrailEnds ==
  ASSUME NEW d0, NEW log \in Seq(Write), NEW d, NEW E, Trail(d0, log, d, E)
  PROVE  Safe(d0, E) /\ Safe(d, E) /\ (log = <<>> => d = d0)
<1>1. PICK D : /\ D[0] = d0 /\ D[Len(log)] = d
               /\ \A i \in 1 .. Len(log) : D[i] = Written(D[i - 1], log[i])
               /\ \A i \in 0 .. Len(log) : Safe(D[i], E)
  BY DEF Trail
<1>2. 0 \in 0 .. Len(log) /\ Len(log) \in 0 .. Len(log) OBVIOUS
<1>3. log = <<>> => Len(log) = 0 OBVIOUS
<1> QED BY <1>1, <1>2, <1>3

-----------------------------------------------------------------------------
(***************************************************************************)
(* A command at work.  g remembers the disk before the command (d0), what  *)
(* a boot may find (E) and the last root that was published: its           *)
(* superblock sb, its root abstraction root, the bitmap bmp on disk, the   *)
(* snapshots h, the forms shows that a boot finds under it.  In mode       *)
(* "live" the command works on the tree of that root (own is its tree); in *)
(* mode "new" it builds another tree own in blocks that are free on disk,  *)
(* and old is the tree of the root.                                        *)
(***************************************************************************)
DiskNow(s, g) == [sb |-> g.sb, bmp |-> g.bmp, blk |-> s.blk]
Base(g, own) == IF g.mode = "live" THEN own ELSE g.old

Work(s, g, own) ==
  /\ s \in Store /\ own \in Labels /\ Tree(s.blk, own)
  /\ \A b \in Block : own[b] # Outside \/ Base(g, own)[b] # Outside => b \in s.bmp
  /\ \A i \in DOMAIN g.h : own[g.h[i]] = Outside
  /\ g.mode # "live" => \A b \in Block : own[b] # Outside => b \notin g.bmp /\ g.old[b] = Outside
  /\ g.sb # NoSuper /\ s.root = g.sb /\ RootObject(s.blk, g.sb) = g.root
  /\ g.bmp \subseteq s.bmp /\ (~s.bd => g.bmp = s.bmp)
  /\ Trail(g.d0, s.log, DiskNow(s, g), g.E)
  /\ Shape(DiskNow(s, g), g.h, Base(g, own)) /\ Shows(DiskNow(s, g)) \in g.E
  /\ Shows(DiskNow(s, g)) = g.shows

\* What changes in the fields no property looks at does not matter; more may
\* be marked in memory when that is noted.
LEMMA WorkFields ==
  ASSUME NEW s, NEW g, NEW own, Work(s, g, own), NEW t \in Store,
         t.blk = s.blk, t.log = s.log, t.root = s.root, s.bmp \subseteq t.bmp,
         t.bd \/ (t.bmp = s.bmp /\ t.bd = s.bd)
  PROVE  Work(t, g, own)
<1>1. DiskNow(t, g) = DiskNow(s, g) BY DEF DiskNow
<1> QED BY <1>1 DEF Work

\* The disk after a write of the command.
LEMMA DiskNowWrite ==
  ASSUME NEW s \in Store, NEW g, DiskNow(s, g) \in Disk, NEW b \in Block, NEW v \in Sector
  PROVE  DiskNow(block_write(s, b, v), g)
           = Written(DiskNow(s, g), [to |-> "blk", b |-> b, v |-> v])
<1> DEFINE B == [s.blk EXCEPT ![b] = v]
<1>1. block_write(s, b, v).blk = B BY BlockWriteFields
<1>2. Written(DiskNow(s, g), [to |-> "blk", b |-> b, v |-> v]) = [DiskNow(s, g) EXCEPT !.blk = B]
  BY DEF Written, DiskNow
<1> HIDE DEF B
<1> QED BY <1>1, <1>2 DEF DiskNow

\* A write that is apart from the published root.
LEMMA WorkApart ==
  ASSUME NEW s, NEW g, NEW own, Work(s, g, own), NEW b \in Block, NEW v \in Sector,
         Tree([s.blk EXCEPT ![b] = v], own), Apart(DiskNow(s, g), g.h, Base(g, own), b, v)
  PROVE  Work(block_write(s, b, v), g, own)
<1> DEFINE t == block_write(s, b, v)
           w == [to |-> "blk", b |-> b, v |-> v]
           d == DiskNow(s, g)
           e == Written(d, w)
<1>1. /\ s \in Store /\ Shape(d, g.h, Base(g, own)) /\ Shows(d) \in g.E
      /\ Trail(g.d0, s.log, d, g.E) /\ Shows(d) = g.shows
  BY DEF Work
<1>2. d \in Disk BY <1>1 DEF Shape
<1>3. Shape(e, g.h, Base(g, own)) /\ Shows(e) = Shows(d) BY <1>1, ShapeWrite
<1>4. /\ t \in Store /\ t.blk = [s.blk EXCEPT ![b] = v] /\ t.log = Append(s.log, w)
      /\ t.bmp = s.bmp /\ t.bd = s.bd /\ t.root = s.root
  BY <1>1, BlockWriteFields DEF Frame
<1>5. DiskNow(t, g) = e BY <1>1, <1>2, DiskNowWrite
<1>6. Safe(e, g.E) BY <1>1, <1>3 DEF Safe
<1>7. w \in Write /\ s.log \in Seq(Write) BY <1>1, Writes, StoreFields
<1> HIDE DEF t, w, d, e
<1>8. Trail(g.d0, t.log, e, g.E) BY <1>1, <1>4, <1>6, <1>7, TrailAppend DEF e
<1>9. RootObject(t.blk, g.sb) = g.root
  <2>1. d.blk = s.blk /\ d.sb = g.sb BY DEF d, DiskNow
  <2>2. RootObject(s.blk, g.sb) = g.root BY DEF Work
  <2>3. CASE g.sb \in Block
    <3>1. RootObject([d.blk EXCEPT ![b] = v], d.sb) = RootObject(d.blk, d.sb)
      BY <1>1, <2>1, <2>3, ApartRoot DEF d
    <3> QED BY <3>1, <2>1, <2>2, <1>4
  <2>4. CASE g.sb \notin Block
    <3>1. g.sb \in 0 .. NBLOCKS BY <1>1, StoreFields DEF Work
    <3>2. g.sb = 0 BY <3>1, <2>4, StoreAssumption DEF Block
    <3> QED BY <3>2, <2>2 DEF RootObject
  <2> QED BY <2>3, <2>4
<1>10. Work(t, g, own) BY <1>1, <1>3, <1>4, <1>5, <1>8, <1>9 DEF Work
<1> QED BY <1>10 DEF t

\* A write to a block of the tree at work: in mode "live" it must spare the
\* forms.
LEMMA WorkWrite ==
  ASSUME NEW s, NEW g, NEW own, Work(s, g, own), NEW b \in Block, NEW v \in Sector,
         own[b] # Outside, Tree([s.blk EXCEPT ![b] = v], own),
         g.mode = "live" =>
           /\ \A o \in Block : IsForm(s.blk, own, o) => own[b] # o
           /\ own[b] = 0 => v.kind = "abs" /\ Extends(EntriesBefore(s.blk[b]), v.entries)
  PROVE  Work(block_write(s, b, v), g, own)
<1> DEFINE d == DiskNow(s, g)
<1>1. /\ d.blk = s.blk /\ d.bmp = g.bmp BY DEF DiskNow
<1>2. Shape(d, g.h, Base(g, own)) BY DEF Work
<1>3. \A i \in DOMAIN g.h : g.h[i] # b BY DEF Work
<1>4. CASE g.mode = "live"
  <2>1. Base(g, own) = own BY <1>4 DEF Base
  <2>2. Apart(d, g.h, own, b, v) BY <1>1, <1>3, <1>4 DEF Apart
  <2> QED BY <2>1, <2>2, WorkApart
<1>5. CASE g.mode # "live"
  <2>1. Base(g, own) = g.old BY <1>5 DEF Base
  <2>2. b \notin g.bmp /\ g.old[b] = Outside BY <1>5 DEF Work
  <2>3. d.blk \in Blocks /\ g.old \in Labels /\ Tree(d.blk, g.old)
    BY <1>2, <2>1, DiskFields DEF Shape
  <2>4. Tree([d.blk EXCEPT ![b] = v], g.old) BY <2>2, <2>3, TreeHarmless DEF Harmless
  <2>5. Outside # 0 /\ \A o \in Block : o # Outside BY StoreAssumption DEF Outside, Block
  <2>6. Apart(d, g.h, g.old, b, v) BY <1>3, <2>2, <2>4, <2>5 DEF Apart
  <2> QED BY <2>1, <2>6, WorkApart
<1> QED BY <1>4, <1>5

\* A write to a block that is free on disk and belongs to no tree.
LEMMA WorkFree ==
  ASSUME NEW s, NEW g, NEW own, Work(s, g, own), NEW b \in Block, NEW v \in Sector,
         own[b] = Outside, Base(g, own)[b] = Outside, b \notin g.bmp
  PROVE  Work(block_write(s, b, v), g, own)
<1> DEFINE d == DiskNow(s, g)
<1>1. /\ d.blk = s.blk /\ d.bmp = g.bmp BY DEF DiskNow
<1>2. Shape(d, g.h, Base(g, own)) BY DEF Work
<1>3. \A i \in DOMAIN g.h : g.h[i] # b BY <1>1, <1>2 DEF Shape
<1>4. /\ d.blk \in Blocks /\ Base(g, own) \in Labels /\ Tree(d.blk, Base(g, own))
      /\ own \in Labels /\ Tree(s.blk, own)
  BY <1>2, DiskFields DEF Shape, Work
<1>5. Tree([d.blk EXCEPT ![b] = v], Base(g, own)) /\ Tree([s.blk EXCEPT ![b] = v], own)
  BY <1>1, <1>4, TreeHarmless DEF Harmless
<1>6. Outside # 0 /\ \A o \in Block : o # Outside BY StoreAssumption DEF Outside, Block
<1>7. Apart(d, g.h, Base(g, own), b, v) BY <1>3, <1>5, <1>6 DEF Apart
<1> QED BY <1>5, <1>7, WorkApart

\* A cleared block of no tree may be taken into the tree at work.
LEMMA WorkLabel ==
  ASSUME NEW s, NEW g, NEW own, Work(s, g, own), NEW b \in Block, b \in s.bmp,
         own[b] = Outside, Base(g, own)[b] = Outside, b \notin g.bmp,
         s.blk[b].kind = "zero", NEW x \in 0 .. NBLOCKS
  PROVE  Work(s, g, [own EXCEPT ![b] = x])
<1> DEFINE more == [own EXCEPT ![b] = x]
           d == DiskNow(s, g)
<1>1. d.blk = s.blk /\ d.bmp = g.bmp BY DEF DiskNow
<1>2. own \in Labels /\ Tree(s.blk, own) /\ s.blk \in Blocks BY StoreFields DEF Work
<1>3. /\ more \in Labels /\ Tree(s.blk, more)
      /\ \A c \in Block : c # b => more[c] = own[c]
  BY <1>2, TreeLabel
<1>4. Shape(d, g.h, Base(g, own)) BY DEF Work
<1>5. ASSUME NEW i \in DOMAIN g.h PROVE more[g.h[i]] = Outside
  <2>1. g.h[i] \in g.bmp /\ g.bmp \subseteq Block BY <1>1, <1>4, DiskFields DEF Shape
  <2>2. own[g.h[i]] = Outside BY DEF Work
  <2> QED BY <1>3, <2>1, <2>2
<1>6. CASE g.mode = "live"
  <2>1. Base(g, own) = own /\ Base(g, more) = more BY <1>6 DEF Base
  <2>2. Shape(d, g.h, more) BY <1>1, <1>4, <2>1, ShapeLabel
  <2> HIDE DEF more
  <2>3. Work(s, g, more) BY <1>3, <1>5, <1>6, <2>1, <2>2 DEF Work
  <2> QED BY <2>3 DEF more
<1>7. CASE g.mode # "live"
  <2>1. Base(g, own) = g.old /\ Base(g, more) = g.old BY <1>7 DEF Base
  <2> HIDE DEF more
  <2>2. Work(s, g, more) BY <1>3, <1>5, <1>7, <2>1 DEF Work
  <2> QED BY <2>2 DEF more
<1> QED BY <1>6, <1>7

-----------------------------------------------------------------------------
(***************************************************************************)
(* What the functions of the store do to the tree at work.                 *)
(***************************************************************************)

\* From s to t only blocks of owner x have changed, and the tree has grown by
\* blocks of owner x only.
Touches(s, own, t, more, x) ==
  /\ \A b \in Block : own[b] # Outside => more[b] = own[b]
  /\ \A b \in Block : own[b] = Outside => more[b] = Outside \/ more[b] = x
  /\ \A b \in Block : own[b] # Outside /\ own[b] # x => t.blk[b] = s.blk[b]
  /\ Frame(s, t)

\* Two such steps are one.
LEMMA TouchesTwice ==
  ASSUME NEW s, NEW own, NEW t, NEW more, NEW u, NEW most, NEW x, x # Outside,
         Touches(s, own, t, more, x), Touches(t, more, u, most, x)
  PROVE  Touches(s, own, u, most, x)
<1>1. \A b \in Block : own[b] # Outside => most[b] = own[b] BY DEF Touches
<1>2. \A b \in Block : own[b] = Outside => most[b] = Outside \/ most[b] = x BY DEF Touches
<1>3. \A b \in Block : own[b] # Outside /\ own[b] # x => u.blk[b] = s.blk[b] BY DEF Touches
<1>4. Frame(s, u) BY DEF Touches, Frame
<1> QED BY <1>1, <1>2, <1>3, <1>4 DEF Touches

\* If x is an object (or nothing), the abstraction is as it was.
LEMMA TouchesEntries ==
  ASSUME NEW s, NEW own, NEW t, NEW more, NEW x \in Block \cup {Outside}, Touches(s, own, t, more, x)
  PROVE  /\ \A c \in Block : InTree(t.blk, more, c) <=> InTree(s.blk, own, c)
         /\ \A c \in Block : InTree(s.blk, own, c) => t.blk[c] = s.blk[c]
         /\ \A o : /\ Entered(t.blk, more, o) <=> Entered(s.blk, own, o)
                   /\ IsForm(t.blk, more, o) <=> IsForm(s.blk, own, o)
<1>1. x # 0 /\ Outside # 0 BY StoreAssumption DEF Block, Outside
<1>2. ASSUME NEW c \in Block PROVE InTree(t.blk, more, c) <=> InTree(s.blk, own, c)
  <2>1. CASE own[c] = Outside BY <2>1, <1>1 DEF Touches, InTree
  <2>2. CASE own[c] # Outside
    <3>1. more[c] = own[c] BY <2>2 DEF Touches
    <3>2. own[c] = 0 => t.blk[c] = s.blk[c] BY <1>1 DEF Touches
    <3> QED BY <3>1, <3>2 DEF InTree
  <2> QED BY <2>1, <2>2
<1>3. \A c \in Block : InTree(s.blk, own, c) => t.blk[c] = s.blk[c] BY <1>1 DEF Touches, InTree
<1>4. ASSUME NEW o
      PROVE  /\ Entered(t.blk, more, o) <=> Entered(s.blk, own, o)
             /\ IsForm(t.blk, more, o) <=> IsForm(s.blk, own, o)
  BY <1>2, <1>3, SameEntries
<1> QED BY <1>2, <1>3, <1>4

\* hexafs_alloc_block: the new block belongs to no tree, and may be taken in.
LEMMA WorkAlloc ==
  ASSUME NEW s, NEW g, NEW own, Work(s, g, own)
  PROVE  LET t == alloc_block(s)
             b == t.r
         IN /\ t \in Store /\ Frame(s, t) /\ t.cb = s.cb /\ t.refused = s.refused
            /\ Work(t, g, own)
            /\ \A c \in Block : c \in s.bmp => t.blk[c] = s.blk[c]
            /\ b = 0 => t.full /\ t.blk = s.blk
            /\ b # 0 => /\ b \in Block /\ b \notin s.bmp /\ b \in t.bmp /\ b \notin g.bmp
                        /\ own[b] = Outside /\ Base(g, own)[b] = Outside
                        /\ t.blk[b] = Zero /\ t.full = s.full /\ t.bmp = s.bmp \cup {b} /\ t.bd
                        /\ \A c \in Block : c # b => t.blk[c] = s.blk[c]
                        /\ \A x \in 0 .. NBLOCKS : Work(t, g, [own EXCEPT ![b] = x])
<1> DEFINE t == alloc_block(s)
           b == t.r
<1>1. s \in Store BY DEF Work
<1>2. CASE s.bmp = Block
  <2>1. /\ t \in Store /\ Frame(s, t) /\ t.r = 0 /\ t.full
        /\ t.blk = s.blk /\ t.log = s.log /\ t.bmp = s.bmp /\ t.bd = s.bd /\ t.cb = s.cb
        /\ t.refused = s.refused
    BY <1>1, <1>2, AllocFails
  <2> HIDE DEF t
  <2>2. t.root = s.root BY <2>1 DEF Frame
  <2>3. Work(t, g, own) BY <2>1, <2>2, WorkFields
  <2> QED BY <2>1, <2>3 DEF t
<1>3. CASE s.bmp # Block
  <2> DEFINE w == block_write(s, b, Zero)
  <2>1. /\ t \in Store /\ Frame(s, t) /\ b \in Block /\ b \notin s.bmp
        /\ t.blk = [s.blk EXCEPT ![b] = Zero]
        /\ t.log = Append(s.log, [to |-> "blk", b |-> b, v |-> Zero])
        /\ t.bmp = s.bmp \cup {b} /\ t.bd /\ t.cb = s.cb
        /\ t.full = s.full /\ t.refused = s.refused
    BY <1>1, <1>3, AllocSucceeds
  <2> HIDE DEF t
  <2>2. b # 0 BY <2>1 DEF Block
  <2>3. b \notin g.bmp /\ own[b] = Outside /\ Base(g, own)[b] = Outside BY <2>1 DEF Work
  <2>4. Work(w, g, own) BY <2>1, <2>3, WorkFree, ZeroMade
  <2>5. /\ w.blk = t.blk /\ w.log = t.log /\ w.bmp = s.bmp /\ w.root = s.root
    BY <1>1, <2>1, BlockWriteFields, ZeroMade DEF Frame
  <2>6. t.root = s.root BY <2>1 DEF Frame
  <2> HIDE DEF w, b
  <2>7. Work(t, g, own)
    <3>1. /\ t \in Store /\ t.blk = w.blk /\ t.log = w.log /\ t.root = w.root
          /\ w.bmp \subseteq t.bmp
      BY <2>1, <2>5, <2>6
    <3>2. t.bd BY <2>1
    <3> QED BY ONLY <2>4, <3>1, <3>2, WorkFields
  <2>8. t.blk[b] = Zero /\ \A c \in Block : c # b => t.blk[c] = s.blk[c]
    <3>1. s.blk \in Blocks BY <1>1, StoreFields
    <3> QED BY <2>1, <3>1 DEF Blocks
  <2>9. ASSUME NEW x \in 0 .. NBLOCKS PROVE Work(t, g, [own EXCEPT ![b] = x])
    <3>1. t.blk[b].kind = "zero" /\ b \in t.bmp BY <2>1, <2>8, ZeroMade
    <3> QED BY <2>1, <2>3, <2>7, <3>1, WorkLabel
  <2> QED BY <2>1, <2>2, <2>3, <2>7, <2>8, <2>9 DEF t, b
<1> QED BY <1>2, <1>3

\* hexafs_object_alloc: a new object of the tree at work, empty and in no entry.
LEMMA WorkObject ==
  ASSUME NEW s, NEW g, NEW own, Work(s, g, own), NEW type \in {"FORM", "CONFIG"}
  PROVE  LET t == object_alloc(s, type)
             o == t.r
             more == [own EXCEPT ![o] = o]
         IN /\ t \in Store /\ Frame(s, t) /\ t.refused = s.refused
            /\ o = 0 => t.full /\ Work(t, g, own) /\ t.blk = s.blk
            /\ o # 0 => /\ o \in Block /\ own[o] = Outside /\ o \notin g.bmp /\ more[o] = o
                        /\ Work(t, g, more) /\ Touches(s, own, t, more, o)
                        /\ t.blk[o] = Obj(type, <<>>, 0) /\ ~Entered(t.blk, more, o)
                        /\ t.full = s.full
<1> DEFINE a == alloc_block(s)
           o == a.r
           more == [own EXCEPT ![o] = o]
           v == Obj(type, <<>>, 0)
           t == block_write(a, o, v)
<1>1. /\ a \in Store /\ Frame(s, a) /\ a.refused = s.refused /\ Work(a, g, own)
      /\ \A c \in Block : c \in s.bmp => a.blk[c] = s.blk[c]
      /\ o = 0 => a.full /\ a.blk = s.blk
      /\ o # 0 => /\ o \in Block /\ o \notin s.bmp /\ o \notin g.bmp
                  /\ own[o] = Outside /\ a.full = s.full
                  /\ \A x \in 0 .. NBLOCKS : Work(a, g, [own EXCEPT ![o] = x])
  BY WorkAlloc
<1>2. object_alloc(s, type) = IF o = 0 THEN a ELSE t BY DEF object_alloc, OnSuccess
<1>3. CASE o = 0 BY <1>1, <1>2, <1>3
<1>4. CASE o # 0
  <2>1. o \in 0 .. NBLOCKS /\ own \in Labels BY <1>1, StoreFields DEF Work
  <2>2. Work(a, g, more) BY <1>1, <1>4, <2>1
  <2>3. more[o] = o /\ \A c \in Block : c # o => more[c] = own[c] BY <1>1, <1>4, <2>1 DEF Labels
  <2>4. v \in Sector /\ v.kind = "obj" /\ v.cb = <<>>
    <3> DEFINE c == <<>>
    <3>1. c \in Seq(Block) /\ 0 \in Nat OBVIOUS
    <3> HIDE DEF c
    <3>2. LET u == Obj(type, c, 0) IN u \in Sector /\ u.kind = "obj" /\ u.cb = c BY <3>1, ObjMade
    <3> QED BY <3>2 DEF c
  <2> HIDE DEF a, o, more, v
  <2>5. a.blk \in Blocks /\ more \in Labels /\ Tree(a.blk, more) BY <2>2, StoreFields DEF Work
  <2>6. Harmless(more, o, v)
    <3>1. DOMAIN v.cb = {} BY <2>4
    <3> QED BY <3>1, <2>3, <2>4 DEF Harmless, Separate
  <2>7. o # 0 /\ o # Outside BY <1>1, <1>4, StoreAssumption DEF Block, Outside
  <2>8. /\ Tree([a.blk EXCEPT ![o] = v], more)
        /\ \A c \in Block : InTree([a.blk EXCEPT ![o] = v], more, c) <=> InTree(a.blk, more, c)
    BY <1>1, <1>4, <2>4, <2>5, <2>6, TreeHarmless
  <2>9. \A c \in Block : own[c] # Outside => c \in s.bmp BY DEF Work
  <2>10. ASSUME NEW c \in Block PROVE InTree(a.blk, more, c) <=> InTree(s.blk, own, c)
    <3>1. CASE c = o
      <4>1. Outside # 0 BY StoreAssumption DEF Outside
      <4> QED BY <4>1, <3>1, <2>3, <2>7, <1>1, <1>4 DEF InTree
    <3>2. CASE c # o
      <4>1. more[c] = own[c] BY <3>2, <2>3
      <4>2. own[c] = 0 => a.blk[c] = s.blk[c]
        <5>1. Outside # 0 BY StoreAssumption DEF Outside
        <5> QED BY <5>1, <1>1, <2>9
      <4> QED BY <4>1, <4>2 DEF InTree
    <3> QED BY <3>1, <3>2
  <2>11. ~Entered(s.blk, own, o)
    <3>1. s.blk \in Blocks /\ own \in Labels /\ Tree(s.blk, own) BY StoreFields DEF Work
    <3> QED BY <3>1, FormsEntered, <1>1, <1>4
  <2>12. \A c \in Block : InTree(s.blk, own, c) => a.blk[c] = s.blk[c]
    <3>1. Outside # 0 BY StoreAssumption DEF Outside
    <3> QED BY <3>1, <1>1, <2>9 DEF InTree
  <2>13. ~Entered(a.blk, more, o) /\ \A x : IsForm(a.blk, more, x) <=> IsForm(s.blk, own, x)
    <3>1. ASSUME NEW x PROVE /\ Entered(a.blk, more, x) <=> Entered(s.blk, own, x)
                             /\ IsForm(a.blk, more, x) <=> IsForm(s.blk, own, x)
      BY <2>10, <2>12, SameEntries
    <3> QED BY <2>11, <3>1
  <2>14. ~IsForm(a.blk, more, o) BY <2>5, <2>13, FormsEntered
  <2>15. Work(t, g, more) BY <1>1, <1>4, <2>2, <2>3, <2>4, <2>7, <2>8, <2>14, WorkWrite
  <2>16. /\ t \in Store /\ Frame(a, t) /\ t.blk = [a.blk EXCEPT ![o] = v]
         /\ t.full = a.full /\ t.refused = a.refused
    BY <1>1, <1>4, <2>4, BlockWriteFields, ZenonT(30)
  <2> HIDE DEF t
  <2>17. t.blk[o] = v /\ \A c \in Block : c # o => t.blk[c] = a.blk[c]
    BY <1>1, <1>4, <2>5, <2>16 DEF Blocks
  <2>18. Touches(s, own, t, more, o)
    <3>1. ASSUME NEW c \in Block, own[c] # Outside
          PROVE  more[c] = own[c] /\ t.blk[c] = s.blk[c]
      BY <3>1, <1>1, <1>4, <2>3, <2>9, <2>17
    <3>2. ASSUME NEW c \in Block, own[c] = Outside PROVE more[c] = Outside \/ more[c] = o
      BY <3>2, <2>3
    <3>3. Frame(s, t) BY <1>1, <2>16 DEF Frame
    <3> QED BY <3>1, <3>2, <3>3 DEF Touches
  <2>19. ~Entered(t.blk, more, o)
    <3>1. \A c \in Block : InTree(a.blk, more, c) => t.blk[c] = a.blk[c]
      BY <2>3, <2>7, <2>17 DEF InTree
    <3>2. \A c \in Block : InTree(t.blk, more, c) <=> InTree(a.blk, more, c) BY <2>8, <2>16
    <3>3. Entered(t.blk, more, o) <=> Entered(a.blk, more, o) BY <3>1, <3>2, SameEntries
    <3> QED BY <2>13, <3>3
  <2>20. Frame(s, t) BY <2>18 DEF Touches
  <2>21. object_alloc(s, type) = t BY <1>2, <1>4 DEF a, t, o
  <2>22. t.r = o
    <3>1. t.r = a.r BY <1>1, <1>4, <2>4, BlockWriteFields DEF t
    <3> QED BY <3>1 DEF o
  <2> QED BY <1>1, <1>4, <2>3, <2>7, <2>15, <2>16, <2>17, <2>18, <2>19, <2>20, <2>21, <2>22
          DEF more, v
<1> QED BY <1>3, <1>4

\* The block that content goes to: one the object has, or a new one.
LEMMA WorkContentBlock ==
  ASSUME NEW a, NEW g, NEW own, Work(a, g, own), NEW o \in Block, own[o] = o,
         NEW old \in Seq(Block), \A j \in DOMAIN old : own[old[j]] = o, NEW i \in Nat \ {0}
  PROVE  LET n == ContentBlock(a, old, i) IN \E more :
         /\ n \in Store /\ Work(n, g, more) /\ Touches(a, own, n, more, o) /\ n.cb = a.cb
         /\ n.refused = a.refused /\ a.bmp \subseteq n.bmp
         /\ n.r = 0 => n.full
         /\ n.r # 0 => /\ n.r \in Block /\ more[n.r] = o /\ n.full = a.full
                       /\ \A b \in Block : b # n.r => n.blk[b] = a.blk[b]
                       /\ i > Len(old) => n.r \notin a.bmp
                       /\ i <= Len(old) => n.r = old[i]
<1> DEFINE n == ContentBlock(a, old, i)
<1>1. a \in Store /\ own \in Labels BY DEF Work
<1>2. Len(old) \in Nat OBVIOUS
<1>3. CASE i <= Len(old)
  <2>1. i \in DOMAIN old /\ old[i] \in Block BY <1>2, <1>3
  <2>2. old[i] \in 0 .. NBLOCKS /\ old[i] # 0 BY <2>1, StoreAssumption DEF Block
  <2>3. n = [a EXCEPT !.r = old[i]] BY <1>3 DEF ContentBlock
  <2>4. /\ n \in Store /\ Frame(a, n) /\ n.r = old[i]
        /\ n.blk = a.blk /\ n.log = a.log /\ n.bmp = a.bmp /\ n.bd = a.bd /\ n.cb = a.cb
        /\ n.full = a.full /\ n.refused = a.refused
    BY <1>1, <2>2, <2>3, ReturnFields
  <2> HIDE DEF n
  <2>5. Work(n, g, own)
    <3>1. n.root = a.root BY <2>4 DEF Frame
    <3> QED BY <2>4, <3>1, WorkFields
  <2>6. Touches(a, own, n, own, o) BY <2>4 DEF Touches
  <2>7. ~(i > Len(old)) BY <1>2, <1>3
  <2> QED BY <2>1, <2>2, <2>4, <2>5, <2>6, <2>7 DEF n
<1>4. CASE ~(i <= Len(old))
  <2>1. n = alloc_block(a) BY <1>4 DEF ContentBlock
  <2>2. /\ n \in Store /\ Frame(a, n) /\ n.cb = a.cb /\ n.refused = a.refused /\ Work(n, g, own)
        /\ \A c \in Block : c \in a.bmp => n.blk[c] = a.blk[c]
        /\ n.r = 0 => n.full /\ n.blk = a.blk
        /\ n.r # 0 => /\ n.r \in Block /\ n.r \notin a.bmp /\ n.full = a.full
                      /\ own[n.r] = Outside
                      /\ \A c \in Block : c # n.r => n.blk[c] = a.blk[c]
                      /\ \A x \in 0 .. NBLOCKS : Work(n, g, [own EXCEPT ![n.r] = x])
    <3> DEFINE m == alloc_block(a)
    <3>1. /\ m \in Store /\ Frame(a, m) /\ m.cb = a.cb /\ m.refused = a.refused /\ Work(m, g, own)
          /\ \A c \in Block : c \in a.bmp => m.blk[c] = a.blk[c]
          /\ m.r = 0 => m.full /\ m.blk = a.blk
          /\ m.r # 0 => /\ m.r \in Block /\ m.r \notin a.bmp /\ m.full = a.full
                        /\ own[m.r] = Outside
                        /\ \A c \in Block : c # m.r => m.blk[c] = a.blk[c]
                        /\ \A x \in 0 .. NBLOCKS : Work(m, g, [own EXCEPT ![m.r] = x])
      <4>1. Work(a, g, own) OBVIOUS
      <4> QED BY ONLY <4>1, WorkAlloc
    <3>2. n = m BY <2>1
    <3> HIDE DEF m, n
    <3> QED BY <3>1, <3>2
  <2>3. a.bmp \subseteq n.bmp
    <3>1. CASE a.bmp = Block BY <1>1, <2>1, <3>1, AllocFails
    <3>2. CASE a.bmp # Block BY <1>1, <2>1, <3>2, AllocSucceeds
    <3> QED BY <3>1, <3>2
  <2>4. \A c \in Block : own[c] # Outside => c \in a.bmp BY DEF Work
  <2> HIDE DEF n
  <2>5. CASE n.r = 0
    <3>1. Touches(a, own, n, own, o) BY <2>2, <2>5 DEF Touches
    <3> QED BY <2>2, <2>3, <2>5, <3>1 DEF n
  <2>6. CASE n.r # 0
    <3> DEFINE more == [own EXCEPT ![n.r] = o]
    <3>1. o \in 0 .. NBLOCKS BY StoreAssumption DEF Block
    <3>2. Work(n, g, more) BY <2>2, <2>6, <3>1
    <3>3. more[n.r] = o /\ \A c \in Block : c # n.r => more[c] = own[c]
      BY <1>1, <2>2, <2>6 DEF Labels
    <3> HIDE DEF more
    <3>4. Touches(a, own, n, more, o)
      <4>1. ASSUME NEW c \in Block, own[c] # Outside
            PROVE  more[c] = own[c] /\ n.blk[c] = a.blk[c]
        BY <4>1, <2>2, <2>4, <2>6, <3>3
      <4>2. ASSUME NEW c \in Block, own[c] = Outside PROVE more[c] = Outside \/ more[c] = o
        BY <4>2, <3>3
      <4> QED BY <4>1, <4>2, <2>2 DEF Touches
    <3> QED BY <1>4, <2>2, <2>3, <2>6, <3>2, <3>3, <3>4 DEF n
  <2> QED BY <2>5, <2>6
<1> QED BY <1>3, <1>4

\* Content written to a block of an object that is not a form.
LEMMA WorkFill ==
  ASSUME NEW n, NEW g, NEW own, Work(n, g, own), NEW o \in Block, own[o] = o,
         ~IsForm(n.blk, own, o), n.r \in Block, own[n.r] = o, NEW p \in Payload, NEW i \in Nat
  PROVE  LET t == FillBlock(n, p, i) IN
         /\ t \in Store /\ Work(t, g, own) /\ Touches(n, own, t, own, o)
         /\ t.cb = Append(n.cb, n.r) /\ t.r = n.r /\ t.full = n.full /\ t.refused = n.refused
         /\ t.bmp = n.bmp /\ t.blk[n.r] = Data(p, i)
         /\ \A b \in Block : b # n.r => t.blk[b] = n.blk[b]
<1> DEFINE v == Data(p, i)
           b == n.r
           w == block_write(n, b, v)
           c == Append(n.cb, b)
           t == FillBlock(n, p, i)
<1>1. n \in Store /\ own \in Labels /\ Tree(n.blk, own) BY DEF Work
<1>2. n.blk \in Blocks /\ n.cb \in Seq(Block) BY <1>1, StoreFields
<1>3. v \in Sector /\ v.kind = "data" BY DataMade
<1>4. /\ w \in Store /\ Frame(n, w) /\ w.blk = [n.blk EXCEPT ![b] = v]
      /\ w.bmp = n.bmp /\ w.bd = n.bd /\ w.r = n.r /\ w.cb = n.cb
      /\ w.full = n.full /\ w.refused = n.refused
  <2>1. b \in Block OBVIOUS
  <2> HIDE DEF b, v
  <2> QED BY ONLY <1>1, <1>3, <2>1, BlockWriteFields, ZenonT(30)
<1>5. t = [w EXCEPT !.cb = Append(w.cb, b)] BY DEF FillBlock
<1>6. c \in Seq(Block) BY <1>2
<1>7. o # 0 /\ o # Outside BY StoreAssumption DEF Block, Outside
<1>8. Harmless(own, b, v) BY <1>3, <1>7 DEF Harmless
<1>9. Tree([n.blk EXCEPT ![b] = v], own) BY <1>1, <1>2, <1>3, <1>8, TreeHarmless
<1> HIDE DEF v, w, b, c, t
<1>10. Work(w, g, own)
  <2>1. own[b] = o /\ b \in Block BY DEF b
  <2>2. \A x \in Block : IsForm(n.blk, own, x) => own[b] # x BY <2>1
  <2> QED BY <1>3, <1>7, <1>9, <2>1, <2>2, WorkWrite DEF w
<1>11. t = [w EXCEPT !.cb = c] BY <1>4, <1>5 DEF c
<1>12. /\ t \in Store /\ t.blk = w.blk /\ t.log = w.log /\ t.bmp = w.bmp /\ t.bd = w.bd
       /\ t.r = w.r /\ t.cb = c /\ t.full = w.full /\ t.refused = w.refused
       /\ t.root = w.root /\ t.tx = w.tx
  BY <1>4, <1>6, <1>11 DEF Store
<1>13. Work(t, g, own) BY <1>10, <1>12, WorkFields
<1>14. b \in Block /\ own[b] = o BY DEF b
<1>15. t.blk[b] = v /\ \A x \in Block : x # b => t.blk[x] = n.blk[x]
  BY <1>2, <1>4, <1>12, <1>14 DEF Blocks
<1>16. Frame(n, t) BY <1>4, <1>12 DEF Frame
<1>17. Touches(n, own, t, own, o) BY <1>14, <1>15, <1>16 DEF Touches
<1> QED BY <1>4, <1>12, <1>13, <1>15, <1>17 DEF b, c, t, v

\* One content block.
LEMMA WorkWriteBlock ==
  ASSUME NEW a, NEW g, NEW own, Work(a, g, own), NEW o \in Block, own[o] = o,
         ~IsForm(a.blk, own, o), NEW old \in Seq(Block), \A j \in DOMAIN old : own[old[j]] = o,
         NEW i \in Nat \ {0}, NEW p \in Payload, a.r # 0
  PROVE  LET t == WriteBlock(a, old, p, i) IN \E more :
         /\ t \in Store /\ Work(t, g, more) /\ Touches(a, own, t, more, o)
         /\ t.refused = a.refused /\ a.bmp \subseteq t.bmp
         /\ t.r = 0 => t.full /\ t.cb = a.cb
         /\ t.r # 0 => /\ t.r \in Block /\ more[t.r] = o /\ t.full = a.full
                       /\ t.cb = Append(a.cb, t.r) /\ t.blk[t.r] = Data(p, i)
                       /\ \A b \in Block : b # t.r => t.blk[b] = a.blk[b]
                       /\ i > Len(old) => t.r \notin a.bmp
                       /\ i <= Len(old) => t.r = old[i]
<1> DEFINE n == ContentBlock(a, old, i)
           f == FillBlock(n, p, i)
           t == WriteBlock(a, old, p, i)
<1>1. PICK more :
         /\ n \in Store /\ Work(n, g, more) /\ Touches(a, own, n, more, o) /\ n.cb = a.cb
         /\ n.refused = a.refused /\ a.bmp \subseteq n.bmp
         /\ n.r = 0 => n.full
         /\ n.r # 0 => /\ n.r \in Block /\ more[n.r] = o /\ n.full = a.full
                       /\ \A b \in Block : b # n.r => n.blk[b] = a.blk[b]
                       /\ i > Len(old) => n.r \notin a.bmp
                       /\ i <= Len(old) => n.r = old[i]
  BY WorkContentBlock
<1>2. t = IF n.r = 0 THEN n ELSE f BY DEF WriteBlock, OnSuccess
<1> HIDE DEF n, t
<1>3. CASE n.r = 0
  <2>1. t = n BY <1>2, <1>3
  <2> QED BY <1>1, <1>3, <2>1 DEF t
<1>4. CASE n.r # 0
  <2>1. t = f BY <1>2, <1>4
  <2>2. o # Outside /\ more[o] = o
    <3>1. o # Outside BY StoreAssumption DEF Block, Outside
    <3> QED BY <3>1, <1>1 DEF Touches
  <2>3. ~IsForm(n.blk, more, o) BY <1>1, TouchesEntries
  <2>4. /\ f \in Store /\ Work(f, g, more) /\ Touches(n, more, f, more, o)
        /\ f.cb = Append(n.cb, n.r) /\ f.r = n.r /\ f.full = n.full /\ f.refused = n.refused
        /\ f.bmp = n.bmp /\ f.blk[n.r] = Data(p, i)
        /\ \A b \in Block : b # n.r => f.blk[b] = n.blk[b]
    BY <1>1, <1>4, <2>2, <2>3, WorkFill
  <2> HIDE DEF f
  <2>5. Touches(a, own, f, more, o) BY <1>1, <2>2, <2>4, TouchesTwice
  <2>6. \A b \in Block : b # n.r => f.blk[b] = a.blk[b] BY <1>1, <1>4, <2>4
  <2> QED BY <1>1, <1>4, <2>1, <2>4, <2>5, <2>6 DEF t
<1> QED BY <1>3, <1>4

\* The number of content blocks is a number, and at least one for a form.
LEMMA BlocksOfTyped ==
  ASSUME NEW p \in Payload
  PROVE  BlocksOf(p) \in Nat /\ (p.k = "form" => BlocksOf(p) >= 1)
<1>1. p.k \in Layout /\ Len(p.list) \in Nat BY PayloadFacts
<1>2. CASE p.k = "form"
  <2>1. p.t \in DOMAIN FormBlocks BY <1>2, PayloadFacts
  <2>2. BlocksOf(p) = FormBlocks[p.t] BY <1>2 DEF BlocksOf
  <2>3. FormBlocks[p.t] \in 1 .. 4 BY <2>1, StoreAssumption
  <2> QED BY <2>2, <2>3
<1>3. CASE p.k \in {"users", "cutusers", "pimp", "cutpimp"}
  <2> DEFINE x == Len(p.list) + RECORDS_PER_BLOCK - 1
  <2>1. x \in Nat /\ RECORDS_PER_BLOCK \in Nat \ {0} BY <1>1, StoreAssumption
  <2>2. BlocksOf(p) = x \div RECORDS_PER_BLOCK BY <1>3 DEF BlocksOf
  <2> HIDE DEF x
  <2>3. x \div RECORDS_PER_BLOCK \in Nat BY <2>1
  <2> QED BY <1>3, <2>2, <2>3
<1>4. CASE p.k \in {"none", "torn"}
  <2>1. BlocksOf(p) = 1 BY <1>4 DEF BlocksOf
  <2> QED BY <2>1
<1> QED BY <1>1, <1>2, <1>3, <1>4 DEF Layout

\* One content block more leaves a store.
LEMMA WriteBlockTyped ==
  ASSUME NEW a \in Store, NEW old \in Seq(Block), NEW p \in Payload, NEW i \in Nat \ {0}
  PROVE  WriteBlock(a, old, p, i) \in Store
<1> DEFINE n == ContentBlock(a, old, i)
           v == Data(p, i)
           w == block_write(n, n.r, v)
           c == Append(w.cb, n.r)
<1>1. n \in Store
  <2>1. CASE i <= Len(old)
    <3>1. i \in 1 .. Len(old) BY <2>1
    <3>2. old[i] \in Block BY <3>1
    <3>3. old[i] \in 0 .. NBLOCKS BY <3>2, StoreAssumption DEF Block
    <3>4. [a EXCEPT !.r = old[i]] \in Store BY <3>3, ReturnFields
    <3> QED BY <2>1, <3>4 DEF ContentBlock
  <2>2. CASE ~(i <= Len(old))
    <3>1. n = alloc_block(a) BY <2>2 DEF ContentBlock
    <3>2. CASE a.bmp = Block BY <3>1, <3>2, AllocFails
    <3>3. CASE a.bmp # Block BY <3>1, <3>3, AllocSucceeds
    <3> QED BY <3>2, <3>3
  <2> QED BY <2>1, <2>2
<1>2. WriteBlock(a, old, p, i) = IF a.r = 0 THEN a ELSE IF n.r = 0 THEN n ELSE [w EXCEPT !.cb = c]
  BY DEF WriteBlock, OnSuccess, FillBlock
<1>3. v \in Sector BY DataMade
<1> HIDE DEF n, v
<1>4. ASSUME n.r # 0 PROVE [w EXCEPT !.cb = c] \in Store
  <2>1. n.r \in Block
    <3>1. n.r \in 0 .. NBLOCKS BY <1>1, StoreFields
    <3> QED BY <1>4, <3>1, StoreAssumption DEF Block
  <2>2. w \in Store BY ONLY <1>1, <1>3, <2>1, BlockWriteFields
  <2>3. w.cb \in Seq(Block) BY <2>2, StoreFields
  <2>4. c \in Seq(Block) BY <2>1, <2>3
  <2> HIDE DEF w, c
  <2> QED BY <2>2, <2>4 DEF Store
<1> QED BY <1>1, <1>2, <1>4

\* WriteContent writes one block after the other.
LEMMA WriteContentUnfold ==
  ASSUME NEW s \in Store, NEW old \in Seq(Block), NEW p \in Payload
  PROVE  \E f : /\ f[0] = s /\ WriteContent(s, old, p) = f[BlocksOf(p)]
                /\ \A n \in 1 .. BlocksOf(p) : f[n] = WriteBlock(f[n - 1], old, p, n)
<1> DEFINE m == BlocksOf(p)
           F == [x \in Store \X (1 .. m) |-> WriteBlock(x[1], old, p, x[2])]
           Rec(k) == [i \in 0 .. BlocksOf(p) |-> IF i = 0 THEN s ELSE WriteBlock(k[i - 1], old, p, i)]
<1>1. m \in Nat BY BlocksOfTyped
<1> HIDE DEF m
<1>2. ASSUME NEW x \in Store \X (1 .. m) PROVE F[x] \in Store
  <2>1. x[1] \in Store /\ x[2] \in Nat \ {0} BY <1>1
  <2>2. WriteBlock(x[1], old, p, x[2]) \in Store BY <2>1, WriteBlockTyped
  <2> QED BY <2>2
<1>3. StepOn(F, Store, m) BY <1>2 DEF StepOn
<1>4. ASSUME NEW y \in Store, NEW n \in 1 .. m PROVE F[<<y, n>>] = WriteBlock(y, old, p, n)
  OBVIOUS
<1> HIDE DEF F
<1>5. PICK f : Iterates(f, Store, s, F, m) BY <1>1, <1>3, RecursionExists
<1>6. ASSUME NEW n \in 1 .. m PROVE f[n] = WriteBlock(f[n - 1], old, p, n)
  <2>1. f[n - 1] \in Store /\ f[n] = F[<<f[n - 1], n>>] BY <1>1, <1>5 DEF Iterates
  <2> QED BY <1>4, <2>1
<1>7. f = Rec(f)
  <2>1. f \in [0 .. m -> Store] /\ f[0] = s BY <1>5 DEF Iterates
  <2> QED BY <1>1, <1>6, <2>1 DEF m
<1> DEFINE after == CHOOSE after : after = Rec(after)
<1>8. after = Rec(after)
  <2> HIDE DEF Rec
  <2> QED BY <1>7, Zenon
<1>9. WriteContent(s, old, p) = after[BlocksOf(p)] BY DEF WriteContent
<1> HIDE DEF after
<1>10. after[0] = s /\ \A n \in 1 .. m : after[n] = WriteBlock(after[n - 1], old, p, n)
  BY <1>1, <1>8 DEF m
<1> QED BY <1>9, <1>10 DEF m

\* After n content blocks of object o, which had the blocks old: what has been
\* written since s.
Filled(s, own, t, more, g, o, p, n, old) ==
  /\ t \in Store /\ Work(t, g, more) /\ Touches(s, own, t, more, o)
  /\ t.refused = s.refused /\ s.bmp \subseteq t.bmp
  /\ \A j \in DOMAIN t.cb : more[t.cb[j]] = o
  /\ t.r = 0 => t.full
  /\ t.r # 0 => /\ t.full = s.full /\ t.blk[o] = s.blk[o]
                /\ Len(t.cb) = n /\ Separate(t.cb, o)
                /\ \A j \in 1 .. n : /\ t.blk[t.cb[j]] = Data(p, j)
                                     /\ j <= Len(old) => t.cb[j] = old[j]

\* One block more.
LEMMA FilledStep ==
  ASSUME NEW s, NEW own, NEW t, NEW more, NEW g, NEW o \in Block, NEW p \in Payload, NEW n \in Nat,
         NEW old \in Seq(Block), own[o] = o, ~IsForm(s.blk, own, o), o \in s.bmp,
         \A j \in DOMAIN old : own[old[j]] = o, Separate(old, o),
         Filled(s, own, t, more, g, o, p, n, old)
  PROVE  \E most : Filled(s, own, WriteBlock(t, old, p, n + 1), most, g, o, p, n + 1, old)
<1> DEFINE u == WriteBlock(t, old, p, n + 1)
<1>1. /\ t \in Store /\ Work(t, g, more) /\ Touches(s, own, t, more, o)
      /\ t.refused = s.refused /\ s.bmp \subseteq t.bmp
      /\ \A j \in DOMAIN t.cb : more[t.cb[j]] = o
      /\ t.r = 0 => t.full
      /\ t.r # 0 => /\ t.full = s.full /\ t.blk[o] = s.blk[o]
                    /\ Len(t.cb) = n /\ Separate(t.cb, o)
                    /\ \A j \in 1 .. n : /\ t.blk[t.cb[j]] = Data(p, j)
                                         /\ j <= Len(old) => t.cb[j] = old[j]
  BY DEF Filled
<1>2. o # Outside BY StoreAssumption DEF Block, Outside
<1>3. CASE t.r = 0
  <2>1. u = t BY <1>3 DEF WriteBlock, OnSuccess
  <2>2. Filled(s, own, t, more, g, o, p, n + 1, old) BY <1>1, <1>3 DEF Filled
  <2> QED BY <2>1, <2>2
<1>4. CASE t.r # 0
  <2>1. more[o] = o BY <1>1, <1>2 DEF Touches
  <2>2. ~IsForm(t.blk, more, o) BY <1>1, TouchesEntries
  <2>3. \A j \in DOMAIN old : more[old[j]] = o
    <3> SUFFICES ASSUME NEW j \in DOMAIN old PROVE more[old[j]] = o OBVIOUS
    <3>1. old[j] \in Block /\ own[old[j]] = o OBVIOUS
    <3> QED BY <3>1, <1>1, <1>2 DEF Touches
  <2>4. n + 1 \in Nat \ {0} OBVIOUS
  <2>5. PICK most :
         /\ u \in Store /\ Work(u, g, most) /\ Touches(t, more, u, most, o)
         /\ u.refused = t.refused /\ t.bmp \subseteq u.bmp
         /\ u.r = 0 => u.full /\ u.cb = t.cb
         /\ u.r # 0 => /\ u.r \in Block /\ most[u.r] = o /\ u.full = t.full
                       /\ u.cb = Append(t.cb, u.r) /\ u.blk[u.r] = Data(p, n + 1)
                       /\ \A b \in Block : b # u.r => u.blk[b] = t.blk[b]
                       /\ n + 1 > Len(old) => u.r \notin t.bmp
                       /\ n + 1 <= Len(old) => u.r = old[n + 1]
    BY <1>1, <1>4, <2>1, <2>2, <2>3, <2>4, WorkWriteBlock
  <2> HIDE DEF u
  <2>6. Touches(s, own, u, most, o) BY <1>1, <1>2, <2>5, TouchesTwice
  <2>7. t.cb \in Seq(Block) BY <1>1, StoreFields
  <2>8. \A j \in DOMAIN t.cb : most[t.cb[j]] = o
    <3> SUFFICES ASSUME NEW j \in DOMAIN t.cb PROVE most[t.cb[j]] = o OBVIOUS
    <3>1. t.cb[j] \in Block /\ more[t.cb[j]] = o BY <1>1, <2>7
    <3> QED BY <3>1, <1>2, <2>5 DEF Touches
  <2>9. CASE u.r = 0
    <3>1. Filled(s, own, u, most, g, o, p, n + 1, old)
      BY <1>1, <2>5, <2>6, <2>8, <2>9 DEF Filled
    <3> QED BY <3>1 DEF u
  <2>10. CASE u.r # 0
    <3> DEFINE c == t.cb
               x == u.r
    <3>1. c \in Seq(Block) /\ x \in Block /\ u.cb = Append(c, x) BY <2>5, <2>7, <2>10
    <3>2. /\ Len(c) = n /\ t.blk[o] = s.blk[o] /\ Separate(c, o)
          /\ \A j \in 1 .. n : t.blk[c[j]] = Data(p, j) /\ (j <= Len(old) => c[j] = old[j])
          /\ \A j \in DOMAIN c : more[c[j]] = o
      BY <1>1, <1>4
    <3> HIDE DEF c, x
    <3>3. /\ Len(u.cb) = n + 1 /\ u.cb[n + 1] = x /\ DOMAIN u.cb = 1 .. n + 1
          /\ \A j \in 1 .. n : u.cb[j] = c[j]
          /\ DOMAIN c = 1 .. n
      BY <3>1, <3>2
    <3>4. /\ u.blk[x] = Data(p, n + 1) /\ \A b \in Block : b # x => u.blk[b] = t.blk[b]
          /\ n + 1 > Len(old) => x \notin t.bmp
          /\ n + 1 <= Len(old) => x = old[n + 1]
      BY <2>5, <2>10 DEF x
    <3>5. x # o /\ \A j \in 1 .. n : c[j] # x
      <4>1. Len(old) \in Nat /\ DOMAIN old = 1 .. Len(old) OBVIOUS
      <4>2. CASE n + 1 > Len(old)
        <5>1. x \notin t.bmp BY <3>4, <4>2
        <5>2. o \in t.bmp BY <1>1
        <5>3. ASSUME NEW j \in 1 .. n PROVE c[j] \in t.bmp
          <6>1. c[j] \in Block /\ more[c[j]] # Outside BY <1>2, <3>1, <3>2, <3>3
          <6> QED BY <6>1, <1>1 DEF Work
        <5> QED BY <5>1, <5>2, <5>3
      <4>3. CASE ~(n + 1 > Len(old))
        <5>1. n + 1 <= Len(old) /\ n + 1 \in DOMAIN old BY <4>1, <4>3
        <5>2. x = old[n + 1] BY <3>4, <5>1
        <5>3. x # o BY <5>1, <5>2 DEF Separate
        <5>4. ASSUME NEW j \in 1 .. n PROVE c[j] # x
          <6>1. j <= Len(old) /\ j \in DOMAIN old /\ j # n + 1 BY <4>1, <5>1
          <6>2. c[j] = old[j] BY <3>2, <6>1
          <6> QED BY <5>1, <5>2, <6>1, <6>2 DEF Separate
        <5> QED BY <5>3, <5>4
      <4> QED BY <4>2, <4>3
    <3>6. ASSUME NEW j \in DOMAIN u.cb PROVE most[u.cb[j]] = o
      <4>1. CASE j \in 1 .. n BY <4>1, <3>3, <2>8 DEF c
      <4>2. CASE j = n + 1 BY <4>2, <3>3, <2>5, <2>10 DEF x
      <4> QED BY <4>1, <4>2, <3>3
    <3>7. Separate(u.cb, o)
      <4>1. ASSUME NEW j \in 1 .. n PROVE u.cb[j] # o /\ u.cb[j] # x BY <3>2, <3>3, <3>5 DEF Separate
      <4>2. ASSUME NEW i \in 1 .. n, NEW j \in 1 .. n, u.cb[i] = u.cb[j] PROVE i = j
        <5>1. c[i] = c[j] /\ i \in DOMAIN c /\ j \in DOMAIN c BY <3>3, <4>2
        <5> QED BY <3>2, <5>1 DEF Separate
      <4>3. \A j \in 1 .. n + 1 : j \in 1 .. n \/ j = n + 1 OBVIOUS
      <4> QED BY <3>3, <3>5, <4>1, <4>2, <4>3 DEF Separate
    <3>8. u.blk[o] = s.blk[o] BY <3>2, <3>4, <3>5
    <3>9. ASSUME NEW j \in 1 .. n + 1
          PROVE  u.blk[u.cb[j]] = Data(p, j) /\ (j <= Len(old) => u.cb[j] = old[j])
      <4>1. CASE j \in 1 .. n
        <5>1. u.cb[j] = c[j] /\ c[j] \in Block /\ c[j] # x BY <4>1, <3>1, <3>3, <3>5
        <5>2. u.blk[c[j]] = t.blk[c[j]] BY <5>1, <3>4
        <5> QED BY <4>1, <5>1, <5>2, <3>2
      <4>2. CASE j = n + 1 BY <4>2, <3>3, <3>4
      <4> QED BY <4>1, <4>2
    <3>10. Filled(s, own, u, most, g, o, p, n + 1, old)
      BY <1>1, <1>4, <2>5, <2>6, <2>10, <3>3, <3>6, <3>7, <3>8, <3>9 DEF Filled
    <3> QED BY <3>10 DEF u
  <2> QED BY <2>9, <2>10
<1> QED BY <1>3, <1>4

\* All content blocks of an object that is not a form.
LEMMA WorkContent ==
  ASSUME NEW s, NEW g, NEW own, Work(s, g, own), NEW o \in Block, own[o] = o,
         ~IsForm(s.blk, own, o), NEW old \in Seq(Block), \A j \in DOMAIN old : own[old[j]] = o,
         Separate(old, o), NEW p \in Payload, s.r # 0, s.cb = <<>>
  PROVE  \E more : Filled(s, own, WriteContent(s, old, p), more, g, o, p, BlocksOf(p), old)
<1>1. s \in Store BY DEF Work
<1>2. PICK f : /\ f[0] = s /\ WriteContent(s, old, p) = f[BlocksOf(p)]
               /\ \A n \in 1 .. BlocksOf(p) : f[n] = WriteBlock(f[n - 1], old, p, n)
  BY <1>1, WriteContentUnfold
<1>3. BlocksOf(p) \in Nat BY BlocksOfTyped
<1> DEFINE T == {n \in Nat : n <= BlocksOf(p) =>
                   \E more : Filled(s, own, f[n], more, g, o, p, n, old)}
<1>4. o \in s.bmp
  <2>1. o # Outside BY StoreAssumption DEF Block, Outside
  <2> QED BY <2>1 DEF Work
<1>5. 0 \in T
  <2>1. Touches(s, own, s, own, o) BY DEF Touches, Frame
  <2>2. DOMAIN s.cb = {} /\ Len(s.cb) = 0 OBVIOUS
  <2>3. Separate(s.cb, o) BY <2>2 DEF Separate
  <2>4. Filled(s, own, s, own, g, o, p, 0, old) BY <1>1, <2>1, <2>2, <2>3 DEF Filled
  <2> QED BY <1>2, <2>4
<1>6. ASSUME NEW n \in Nat, n \in T PROVE n + 1 \in T
  <2> SUFFICES ASSUME n + 1 <= BlocksOf(p)
               PROVE  \E more : Filled(s, own, f[n + 1], more, g, o, p, n + 1, old)
    OBVIOUS
  <2>1. PICK more : Filled(s, own, f[n], more, g, o, p, n, old) BY <1>3, <1>6
  <2>2. n + 1 \in 1 .. BlocksOf(p) /\ (n + 1) - 1 = n BY <1>3
  <2>3. f[n + 1] = WriteBlock(f[n], old, p, n + 1) BY <1>2, <2>2
  <2>4. \E most : Filled(s, own, WriteBlock(f[n], old, p, n + 1), most, g, o, p, n + 1, old)
    BY <2>1, <1>4, FilledStep
  <2> QED BY <2>3, <2>4
<1>7. \A n \in Nat : n \in T
  <2> HIDE DEF T
  <2> QED BY <1>5, <1>6, AllNumbers
<1> QED BY <1>2, <1>3, <1>7

\* The object o holds all of p.
Stored(blk, o, p) == /\ blk[o].kind = "obj" /\ blk[o].size = Len(p.list)
                     /\ Len(blk[o].cb) = BlocksOf(p)
                     /\ \A j \in DOMAIN blk[o].cb : blk[blk[o].cb[j]] = Data(p, j)

\* hexafs_object_write_data on an object that is not a form: nothing else is
\* touched, and when it is written to the end it holds the data.
LEMMA WorkWriteData ==
  ASSUME NEW s, NEW g, NEW own, Work(s, g, own), NEW o \in Block, own[o] = o,
         ~IsForm(s.blk, own, o), NEW p \in Payload
  PROVE  LET t == object_write_data(s, o, p) IN \E more :
         /\ t \in Store /\ Work(t, g, more) /\ Touches(s, own, t, more, o)
         /\ t.refused = s.refused /\ s.bmp \subseteq t.bmp
         /\ t.r = 0 \/ t.r = o
         /\ t.r = 0 /\ s.blk[o].kind = "obj" => t.full
         /\ t.r # 0 => /\ t.full = s.full /\ t.blk[o].kind = "obj"
                       /\ t.blk[o].type = s.blk[o].type /\ Stored(t.blk, o, p)
<1> DEFINE t == object_write_data(s, o, p)
           old == s.blk[o].cb
           type == s.blk[o].type
           z == <<>>
           s0 == [s EXCEPT !.r = o, !.cb = z]
           d == WriteContent(s0, old, p)
           v == Obj(type, d.cb, Len(p.list))
           w == block_write(d, o, v)
<1>1. s \in Store /\ s.blk \in Blocks /\ own \in Labels /\ Tree(s.blk, own)
  BY StoreFields DEF Work
<1>2. o \in 0 .. NBLOCKS /\ 0 \in 0 .. NBLOCKS /\ o # 0 /\ o # Outside
  BY StoreAssumption DEF Block, Outside
<1>3. s.blk[o] \in Sector BY <1>1 DEF Blocks
<1>4. CASE s.blk[o].kind # "obj"
  <2>1. t = [s EXCEPT !.r = 0] BY <1>4 DEF object_write_data
  <2>2. /\ t \in Store /\ Frame(s, t) /\ t.r = 0
        /\ t.blk = s.blk /\ t.log = s.log /\ t.bmp = s.bmp /\ t.bd = s.bd /\ t.cb = s.cb
        /\ t.full = s.full /\ t.refused = s.refused
    BY <1>1, <1>2, <2>1, ReturnFields
  <2> HIDE DEF t
  <2>3. t.root = s.root BY <2>2 DEF Frame
  <2>4. Work(t, g, own) BY <2>2, <2>3, WorkFields
  <2>5. Touches(s, own, t, own, o) BY <2>2 DEF Touches
  <2> QED BY <1>4, <2>2, <2>4, <2>5 DEF t
<1>5. CASE s.blk[o].kind = "obj"
  <2>1. old \in Seq(Block) /\ type \in {"FORM", "CONFIG"} BY <1>3, <1>5, ObjFacts
  <2>2. ObjOk(s.blk, own, o) BY <1>1, <1>2, <1>5 DEF Tree
  <2>3. Separate(old, o) /\ \A j \in DOMAIN old : own[old[j]] = o BY <2>2 DEF ObjOk
  <2>4. t = IF d.r = 0 THEN d ELSE [w EXCEPT !.r = o]
    BY <1>5 DEF object_write_data, OnSuccess
  <2>5. z \in Seq(Block) OBVIOUS
  <2> HIDE DEF t, old, type, z
  <2>6. /\ s0 \in Store /\ s0.blk = s.blk /\ s0.log = s.log /\ s0.bmp = s.bmp /\ s0.bd = s.bd
        /\ s0.root = s.root /\ s0.tx = s.tx /\ s0.full = s.full /\ s0.refused = s.refused
        /\ s0.r = o /\ s0.cb = z
    BY <1>1, <1>2, <2>5 DEF Store
  <2> HIDE DEF s0
  <2>7. Work(s0, g, own) BY <2>6, WorkFields
  <2>8. PICK more : Filled(s0, own, d, more, g, o, p, BlocksOf(p), old)
    <3>1. ~IsForm(s0.blk, own, o) /\ s0.r # 0 /\ s0.cb = <<>> BY <2>6, <1>2 DEF z
    <3> QED BY <2>1, <2>3, <2>7, <3>1, WorkContent
  <2> HIDE DEF d
  <2>9. /\ d \in Store /\ Work(d, g, more) /\ Touches(s0, own, d, more, o)
        /\ d.refused = s.refused /\ s.bmp \subseteq d.bmp
        /\ \A j \in DOMAIN d.cb : more[d.cb[j]] = o
        /\ d.r = 0 => d.full
        /\ d.r # 0 => /\ d.full = s.full /\ Len(d.cb) = BlocksOf(p) /\ Separate(d.cb, o)
                      /\ \A j \in 1 .. BlocksOf(p) : d.blk[d.cb[j]] = Data(p, j)
    BY <2>6, <2>8 DEF Filled
  <2>10. Touches(s, own, d, more, o) BY <2>6, <2>9 DEF Touches, Frame
  <2>11. CASE d.r = 0
    <3>1. t = d BY <2>4, <2>11
    <3> QED BY <2>9, <2>10, <2>11, <3>1 DEF t
  <2>12. CASE d.r # 0
    <3>1. d.cb \in Seq(Block) /\ d.blk \in Blocks /\ Len(p.list) \in Nat
      BY <2>9, StoreFields, PayloadFacts
    <3>2. v \in Sector /\ v.kind = "obj" /\ v.cb = d.cb /\ v.type = type /\ v.size = Len(p.list)
      BY <2>1, <3>1, ObjMade
    <3> HIDE DEF v
    <3>3. more[o] = o BY <1>2, <2>10 DEF Touches
    <3>4. more \in Labels /\ Tree(d.blk, more) BY <2>9 DEF Work
    <3>5. Harmless(more, o, v) BY <2>9, <2>12, <3>2, <3>3 DEF Harmless
    <3>6. Tree([d.blk EXCEPT ![o] = v], more) BY <3>1, <3>2, <3>4, <3>5, TreeHarmless
    <3>7. ~IsForm(d.blk, more, o) BY <2>10, TouchesEntries
    <3>8. Work(w, g, more) BY <1>2, <2>9, <3>2, <3>3, <3>6, <3>7, WorkWrite
    <3>9. /\ w \in Store /\ Frame(d, w) /\ w.blk = [d.blk EXCEPT ![o] = v]
          /\ w.bmp = d.bmp /\ w.full = d.full /\ w.refused = d.refused
      <4>1. d \in Store /\ v \in Sector /\ o \in Block BY <2>9, <3>2
      <4> QED BY ONLY <4>1, BlockWriteFields
    <3> HIDE DEF w
    <3>10. t = [w EXCEPT !.r = o] BY <2>4, <2>12
    <3>11. /\ t \in Store /\ Frame(w, t) /\ t.r = o
           /\ t.blk = w.blk /\ t.log = w.log /\ t.bmp = w.bmp /\ t.bd = w.bd
           /\ t.full = w.full /\ t.refused = w.refused
      BY <1>2, <3>9, <3>10, ReturnFields
    <3>12. Work(t, g, more)
      <4>1. t.root = w.root BY <3>11 DEF Frame
      <4> QED BY <3>8, <3>11, <4>1, WorkFields
    <3>13. t.blk[o] = v /\ \A c \in Block : c # o => t.blk[c] = d.blk[c]
      BY <3>1, <3>9, <3>11 DEF Blocks
    <3>14. Touches(d, more, t, more, o)
      <4>1. Frame(d, t) BY <3>9, <3>11 DEF Frame
      <4> QED BY <3>3, <3>13, <4>1 DEF Touches
    <3>15. Touches(s, own, t, more, o) BY <1>2, <2>10, <3>14, TouchesTwice
    <3>16. Stored(t.blk, o, p)
      <4>1. Len(d.cb) = BlocksOf(p) /\ DOMAIN d.cb = 1 .. Len(d.cb) BY <2>9, <2>12, <3>1
      <4>2. ASSUME NEW j \in DOMAIN d.cb PROVE t.blk[d.cb[j]] = Data(p, j)
        <5>1. d.cb[j] \in Block BY <3>1
        <5>2. d.blk[d.cb[j]] = Data(p, j) /\ d.cb[j] # o BY <2>9, <2>12, <4>1 DEF Separate
        <5> QED BY <5>1, <5>2, <3>13
      <4> QED BY <3>2, <3>13, <4>1, <4>2 DEF Stored
    <3> QED BY <1>2, <2>9, <2>12, <3>2, <3>9, <3>11, <3>12, <3>13, <3>15, <3>16 DEF t, old, type
  <2> QED BY <2>11, <2>12
<1> QED BY <1>4, <1>5

\* hexafs_free_block on an object made in vain, while a new tree is built.
LEMMA WorkFreeBlock ==
  ASSUME NEW w, NEW g, NEW own, Work(w, g, own), g.mode # "live", NEW o \in Block, own[o] = o,
         ~Entered(w.blk, own, o)
  PROVE  LET t == [free_block(w, o) EXCEPT !.r = 0]
             less == [own EXCEPT ![o] = Outside]
         IN /\ t \in Store /\ Work(t, g, less) /\ Frame(w, t) /\ t.r = 0 /\ t.blk = w.blk
            /\ t.full = w.full /\ t.refused = w.refused
<1> DEFINE f == free_block(w, o)
           t == [f EXCEPT !.r = 0]
           less == [own EXCEPT ![o] = Outside]
<1>1. w \in Store /\ w.blk \in Blocks /\ own \in Labels /\ Tree(w.blk, own)
  BY StoreFields DEF Work
<1>2. /\ f \in Store /\ Frame(w, f) /\ f.bmp = w.bmp \ {o} /\ f.bd
      /\ f.blk = w.blk /\ f.log = w.log /\ f.full = w.full /\ f.refused = w.refused
  BY <1>1, FreeFields
<1> HIDE DEF f
<1>3. 0 \in 0 .. NBLOCKS BY StoreAssumption
<1>4. /\ t \in Store /\ Frame(f, t) /\ t.r = 0
      /\ t.blk = f.blk /\ t.log = f.log /\ t.bmp = f.bmp /\ t.bd = f.bd
      /\ t.full = f.full /\ t.refused = f.refused
  BY ONLY <1>2, <1>3, ReturnFields
<1>5. /\ less \in Labels /\ Tree(w.blk, less) /\ less[o] = Outside
      /\ \A c \in Block : c # o => less[c] = own[c]
  BY <1>1, TreeUnlabel
<1> HIDE DEF t, less
<1>6. Frame(w, t) BY <1>2, <1>4 DEF Frame
<1>7. o # Outside BY StoreAssumption DEF Block, Outside
<1>8. o \notin g.bmp /\ g.old[o] = Outside BY <1>7 DEF Work
<1>9. Base(g, own) = g.old /\ Base(g, less) = g.old BY DEF Base
<1>10. Work(t, g, less)
  <2>1. DiskNow(t, g) = DiskNow(w, g) BY <1>2, <1>4 DEF DiskNow
  <2>2. ASSUME NEW b \in Block, less[b] # Outside \/ g.old[b] # Outside PROVE b \in t.bmp
    <3>1. b # o BY <2>2, <1>5, <1>8
    <3>2. own[b] # Outside \/ g.old[b] # Outside BY <2>2, <3>1, <1>5
    <3>3. b \in w.bmp BY <3>2, <1>9 DEF Work
    <3> QED BY <3>1, <3>3, <1>2, <1>4
  <2>3. ASSUME NEW i \in DOMAIN g.h PROVE less[g.h[i]] = Outside
    <3>1. g.h \in Seq(Block) BY DEF Work, Shape
    <3>2. g.h[i] \in Block /\ own[g.h[i]] = Outside BY <3>1 DEF Work
    <3> QED BY <3>2, <1>5
  <2>4. ASSUME NEW b \in Block, less[b] # Outside PROVE b \notin g.bmp /\ g.old[b] = Outside
    <3>1. own[b] # Outside BY <2>4, <1>5
    <3> QED BY <3>1 DEF Work
  <2>5. g.bmp \subseteq t.bmp BY <1>2, <1>4, <1>8 DEF Work
  <2>6. t.bd BY <1>2, <1>4
  <2>7. t.root = g.sb BY <1>6 DEF Work, Frame
  <2>8. Trail(g.d0, t.log, DiskNow(t, g), g.E) BY <1>2, <1>4, <2>1 DEF Work
  <2>9. /\ Shape(DiskNow(t, g), g.h, Base(g, less)) /\ Shows(DiskNow(t, g)) \in g.E
        /\ Shows(DiskNow(t, g)) = g.shows
    BY <1>9, <2>1 DEF Work
  <2>10. Tree(t.blk, less) BY <1>2, <1>4, <1>5
  <2>11. g.sb # NoSuper /\ RootObject(t.blk, g.sb) = g.root BY <1>2, <1>4 DEF Work
  <2> QED BY <1>4, <1>5, <1>9, <2>2, <2>3, <2>4, <2>5, <2>6, <2>7, <2>8, <2>9, <2>10, <2>11
          DEF Work
<1> QED BY <1>2, <1>4, <1>6, <1>10 DEF t, less, f

\* An object reads as what it holds.
LEMMA StoredReads ==
  ASSUME NEW blk \in Blocks, NEW o \in Block, NEW p \in Payload, Stored(blk, o, p)
  PROVE  /\ BlocksOf(p) >= 1 => blk[o].cb # <<>> /\ object_read_data(blk, o) = p
         /\ BlocksOf(p) = 0 => object_read_data(blk, o) = NoData
<1>1. blk[o] \in Sector /\ blk[o].kind = "obj" /\ Len(blk[o].cb) = BlocksOf(p) BY DEF Blocks, Stored
<1>2. blk[o].cb \in Seq(Block) BY <1>1, ObjFacts
<1>3. ASSUME BlocksOf(p) >= 1 PROVE blk[o].cb # <<>> /\ object_read_data(blk, o) = p
  <2>1. blk[o].cb # <<>> BY <1>1, <1>3
  <2> QED BY <2>1, ReadWhole DEF Stored
<1>4. ASSUME BlocksOf(p) = 0 PROVE object_read_data(blk, o) = NoData
  <2>1. blk[o].cb = <<>> BY <1>1, <1>2, <1>4
  <2> QED BY <2>1 DEF object_read_data
<1> QED BY <1>3, <1>4

\* An object of type FORM that holds a form loads as that form.
LEMMA StoredForm ==
  ASSUME NEW blk \in Blocks, NEW o \in Block, NEW p \in Payload, p.k = "form",
         Stored(blk, o, p), blk[o].type = "FORM"
  PROVE  AsForm(blk, o) = p
<1>1. blk[o].cb # <<>> /\ object_read_data(blk, o) = p BY BlocksOfTyped, StoredReads
<1>2. FormLayout(p) = p BY LayoutTyped
<1> QED BY <1>1, <1>2 DEF AsForm, Stored

\* form_from_fentry, while a new tree is built: a new object with the form in
\* it, or failure because the disk is full.
LEMMA WorkForm ==
  ASSUME NEW s, NEW g, NEW own, Work(s, g, own), g.mode # "live", NEW p \in Payload
  PROVE  LET t == form_from_fentry(s, p) IN \E more, x :
         /\ t \in Store /\ Work(t, g, more) /\ Touches(s, own, t, more, x)
         /\ x = Outside \/ (x \in Block /\ own[x] = Outside)
         /\ t.refused = s.refused
         /\ t.r = 0 => t.full
         /\ t.r # 0 => /\ t.r = x /\ x \in Block /\ more[x] = x /\ ~Entered(t.blk, more, x)
                       /\ t.full = s.full /\ t.blk[x].kind = "obj"
                       /\ p.k = "form" => AsForm(t.blk, x) = p
<1> DEFINE t == form_from_fentry(s, p)
           a == object_alloc(s, "FORM")
           o == a.r
           own1 == [own EXCEPT ![o] = o]
           w == object_write_data(a, o, p)
           f == [free_block(w, o) EXCEPT !.r = 0]
<1>1. /\ a \in Store /\ Frame(s, a) /\ a.refused = s.refused
      /\ o = 0 => a.full /\ Work(a, g, own) /\ a.blk = s.blk
      /\ o # 0 => /\ o \in Block /\ own[o] = Outside /\ o \notin g.bmp /\ own1[o] = o
                  /\ Work(a, g, own1) /\ Touches(s, own, a, own1, o)
                  /\ a.blk[o] = Obj("FORM", <<>>, 0) /\ ~Entered(a.blk, own1, o)
                  /\ a.full = s.full
  <2>1. Work(s, g, own) /\ "FORM" \in {"FORM", "CONFIG"} OBVIOUS
  <2> QED BY ONLY <2>1, WorkObject
<1>2. t = IF o = 0 THEN a ELSE IF w.r = 0 THEN f ELSE w
  BY DEF form_from_fentry, OnSuccess, KeepOrFree
<1> HIDE DEF t, a, o, own1, w
<1>3. CASE o = 0
  <2>1. t = a BY <1>2, <1>3
  <2>2. t.r = 0 BY <2>1, <1>3 DEF o
  <2>3. Touches(s, own, t, own, Outside) BY <1>1, <1>3, <2>1 DEF Touches
  <2> QED BY <1>1, <1>3, <2>1, <2>2, <2>3 DEF t
<1>4. CASE o # 0
  <2>1. a.blk[o].kind = "obj" /\ a.blk[o].cb = <<>> /\ a.blk[o].type = "FORM" BY <1>1, <1>4 DEF Obj
  <2>2. own1 \in Labels /\ Tree(a.blk, own1) /\ a.blk \in Blocks BY <1>1, <1>4, StoreFields DEF Work
  <2>3. ~IsForm(a.blk, own1, o) BY <1>1, <1>4, <2>2, FormsEntered
  <2>4. PICK more :
         /\ w \in Store /\ Work(w, g, more) /\ Touches(a, own1, w, more, o)
         /\ w.refused = a.refused /\ a.bmp \subseteq w.bmp
         /\ w.r = 0 \/ w.r = o
         /\ w.r = 0 /\ a.blk[o].kind = "obj" => w.full
         /\ w.r # 0 => /\ w.full = a.full /\ w.blk[o].kind = "obj"
                       /\ w.blk[o].type = a.blk[o].type /\ Stored(w.blk, o, p)
    <3>1. Work(a, g, own1) /\ o \in Block /\ own1[o] = o /\ ~IsForm(a.blk, own1, o) /\ p \in Payload
      BY <1>1, <1>4, <2>3
    <3> QED BY ONLY <3>1, WorkWriteData DEF w
  <2>5. o # Outside /\ o \in Block BY <1>1, <1>4, StoreAssumption DEF Block, Outside
  <2>6. Touches(s, own, w, more, o) BY <1>1, <1>4, <2>4, <2>5, TouchesTwice
  <2>7. more[o] = o BY <1>1, <1>4, <2>4, <2>5 DEF Touches
  <2>8. ~Entered(w.blk, more, o) BY <1>1, <1>4, <2>4, <2>5, TouchesEntries
  <2>9. CASE w.r = 0
    <3> DEFINE less == [more EXCEPT ![o] = Outside]
    <3>1. t = f BY <1>2, <1>4, <2>9
    <3>2. /\ f \in Store /\ Work(f, g, less) /\ Frame(w, f) /\ f.r = 0 /\ f.blk = w.blk
          /\ f.full = w.full /\ f.refused = w.refused
      BY <2>4, <2>5, <2>7, <2>8, WorkFreeBlock
    <3>3. less[o] = Outside /\ \A c \in Block : c # o => less[c] = more[c]
      <4>1. more \in Labels BY <2>4 DEF Work
      <4> QED BY <4>1, <2>5 DEF Labels
    <3> HIDE DEF less, f
    <3>4. Touches(s, own, f, less, o)
      <4>1. ASSUME NEW c \in Block, own[c] # Outside
            PROVE  less[c] = own[c] /\ (own[c] # o => f.blk[c] = s.blk[c])
        <5>1. c # o BY <4>1, <1>1, <1>4
        <5> QED BY <4>1, <5>1, <3>2, <3>3, <2>6 DEF Touches
      <4>2. ASSUME NEW c \in Block, own[c] = Outside PROVE less[c] = Outside \/ less[c] = o
        <5>1. CASE c = o BY <5>1, <3>3
        <5>2. CASE c # o BY <5>2, <3>3, <4>2, <2>6 DEF Touches
        <5> QED BY <5>1, <5>2
      <4>3. Frame(s, f) BY <2>6, <3>2 DEF Touches, Frame
      <4> QED BY <4>1, <4>2, <4>3 DEF Touches
    <3> QED BY <1>1, <1>4, <2>1, <2>4, <2>9, <3>1, <3>2, <3>4 DEF t
  <2>10. CASE w.r # 0
    <3>1. t = w /\ w.r = o BY <1>2, <1>4, <2>4, <2>10
    <3>2. ASSUME p.k = "form" PROVE AsForm(w.blk, o) = p
      <4>1. Stored(w.blk, o, p) /\ w.blk[o].type = "FORM" BY <2>1, <2>4, <2>10
      <4>2. w.blk \in Blocks BY <2>4, StoreFields
      <4> QED BY <3>2, <4>1, <4>2, <2>5, StoredForm
    <3> QED BY <1>1, <1>4, <2>4, <2>5, <2>6, <2>7, <2>8, <2>10, <3>1, <3>2 DEF t
  <2> QED BY <2>9, <2>10
<1> QED BY <1>3, <1>4

-----------------------------------------------------------------------------
(***************************************************************************)
(* Entries.                                                                *)
(***************************************************************************)
\* e is an entry of the tree.
EntryOf(blk, own, e) ==
  \E b \in Block : InTree(blk, own, b) /\ \E i \in DOMAIN blk[b].entries : blk[b].entries[i] = e

\* An abstraction block of the tree is written, with the entries it had and
\* perhaps one of X at the end; on the live tree X must not name forms.
LEMMA WorkGrow ==
  ASSUME NEW s, NEW g, NEW own, Work(s, g, own), NEW b \in Block, NEW v \in Sector,
         GrownBy(s.blk, own, b, v), NEW X,
         v.entries # EntriesBefore(s.blk[b]) => v.entries[Len(v.entries)] \in X,
         g.mode = "live" => \A e \in X : e.name \notin Names
  PROVE  LET t == block_write(s, b, v) IN
         /\ t \in Store /\ Work(t, g, own) /\ Touches(s, own, t, own, 0)
         /\ t.r = s.r /\ t.full = s.full /\ t.refused = s.refused
         /\ t.blk[b] = v /\ \A c \in Block : c # b => t.blk[c] = s.blk[c]
         /\ \A c \in Block : InTree(s.blk, own, c) => InTree(t.blk, own, c)
         /\ \A e : EntryOf(t.blk, own, e) => EntryOf(s.blk, own, e) \/ e \in X
<1> DEFINE t == block_write(s, b, v)
           old == EntriesBefore(s.blk[b])
           new == v.entries
           n == Len(old)
<1>1. s \in Store /\ s.blk \in Blocks /\ own \in Labels /\ Tree(s.blk, own)
  BY StoreFields DEF Work
<1>2. Outside # 0 /\ \A o \in Block : o # 0 BY StoreAssumption DEF Outside, Block
<1>3. own[b] = 0 /\ v.kind = "abs" BY DEF GrownBy
<1>4. /\ old \in Seq(Entry) /\ new \in Seq(Entry) /\ n <= Len(new) /\ Len(new) <= n + 1
      /\ \A i \in 1 .. n : new[i] = old[i]
  BY <1>1, GrownEntries
<1>5. Tree([s.blk EXCEPT ![b] = v], own) BY <1>1, TreeGrows
<1>6. new # old => new[Len(new)] \in X OBVIOUS
<1>7. \A i \in DOMAIN old : InTree(s.blk, own, b) /\ s.blk[b].entries = old
  BY <1>3 DEF EntriesBefore, InTree
<1>8. /\ t \in Store /\ Frame(s, t) /\ t.blk = [s.blk EXCEPT ![b] = v]
      /\ t.r = s.r /\ t.full = s.full /\ t.refused = s.refused
  BY <1>1, BlockWriteFields
<1>9. t.blk[b] = v /\ \A c \in Block : c # b => t.blk[c] = s.blk[c] BY <1>1, <1>8 DEF Blocks
<1> HIDE DEF old, n
<1>10. n \in Nat /\ Len(new) \in Nat /\ DOMAIN new = 1 .. Len(new) /\ n = Len(old) BY <1>4 DEF n
<1>11. ASSUME NEW i \in 1 .. Len(new), i > n PROVE new[i] \in X
  <2>1. i = n + 1 /\ i = Len(new) BY <1>4, <1>10, <1>11
  <2>2. new # old BY <2>1, <1>10
  <2> QED BY <2>1, <2>2, <1>6
<1>12. ASSUME g.mode = "live" PROVE Extends(old, new)
  BY <1>4, <1>10, <1>11, <1>12 DEF Extends
<1>13. Work(t, g, own)
  <2>1. own[b] # Outside BY <1>2, <1>3
  <2>2. g.mode = "live" =>
           /\ \A o \in Block : IsForm(s.blk, own, o) => own[b] # o
           /\ own[b] = 0 => v.kind = "abs" /\ Extends(EntriesBefore(s.blk[b]), v.entries)
    BY <1>2, <1>3, <1>12 DEF old
  <2> QED BY <1>5, <2>1, <2>2, WorkWrite
<1> HIDE DEF t
<1>14. Touches(s, own, t, own, 0) BY <1>3, <1>8, <1>9 DEF Touches
<1>15. ASSUME NEW e, EntryOf(t.blk, own, e) PROVE EntryOf(s.blk, own, e) \/ e \in X
  <2>1. PICK c \in Block : /\ InTree(t.blk, own, c)
                           /\ \E i \in DOMAIN t.blk[c].entries : t.blk[c].entries[i] = e
    BY <1>15 DEF EntryOf
  <2>2. PICK i \in DOMAIN t.blk[c].entries : t.blk[c].entries[i] = e BY <2>1
  <2>3. CASE c # b
    <3>1. t.blk[c] = s.blk[c] BY <2>3, <1>9
    <3> QED BY <2>1, <3>1 DEF EntryOf, InTree
  <2>4. CASE c = b
    <3>1. i \in 1 .. Len(new) /\ new[i] = e BY <2>2, <2>4, <1>9, <1>10
    <3>2. CASE i > n BY <3>1, <3>2, <1>11
    <3>3. CASE ~(i > n)
      <4>1. i \in 1 .. n /\ i \in DOMAIN old BY <3>1, <3>3, <1>4, <1>10
      <4>2. old[i] = e BY <3>1, <4>1, <1>4
      <4> QED BY <4>1, <4>2, <1>7 DEF EntryOf
    <3> QED BY <3>2, <3>3
  <2> QED BY <2>3, <2>4
<1>16. \A c \in Block : InTree(s.blk, own, c) => InTree(t.blk, own, c)
  BY <1>3, <1>9 DEF InTree
<1> QED BY <1>8, <1>9, <1>13, <1>14, <1>15, <1>16 DEF t

\* Entered, by entries.
LEMMA EnteredEntry ==
  ASSUME NEW blk, NEW own, NEW o
  PROVE  /\ Entered(blk, own, o) <=> \E e : EntryOf(blk, own, e) /\ e.obj = o
         /\ IsForm(blk, own, o) <=> \E e : EntryOf(blk, own, e) /\ e.obj = o /\ e.name \in Names
<1>1. ASSUME Entered(blk, own, o) PROVE \E e : EntryOf(blk, own, e) /\ e.obj = o
  BY <1>1, Zenon DEF Entered, EntryOf
<1>2. ASSUME NEW e, EntryOf(blk, own, e), e.obj = o PROVE Entered(blk, own, o)
  BY <1>2, Zenon DEF Entered, EntryOf
<1>3. ASSUME IsForm(blk, own, o)
      PROVE  \E e : EntryOf(blk, own, e) /\ e.obj = o /\ e.name \in Names
  BY <1>3, Zenon DEF IsForm, EntryOf
<1>4. ASSUME NEW e, EntryOf(blk, own, e), e.obj = o, e.name \in Names PROVE IsForm(blk, own, o)
  BY <1>4, Zenon DEF IsForm, EntryOf
<1> QED BY <1>1, <1>2, <1>3, <1>4

\* An abstraction block that ends a chain, as it is written.
LEMMA AbsNew ==
  ASSUME NEW c \in Seq(Entry)
  PROVE  /\ Abs(c, 0, TRUE) \in Sector /\ Abs(c, 0, TRUE).kind = "abs"
         /\ Abs(c, 0, TRUE).entries = c /\ Abs(c, 0, TRUE).next = 0
<1> DEFINE x == TRUE
<1>1. x \in Flag BY Flags, Zenon
<1>2. 0 \in 0 .. NBLOCKS BY StoreAssumption
<1> HIDE DEF x
<1>3. /\ Abs(c, 0, x) \in Sector /\ Abs(c, 0, x).kind = "abs"
      /\ Abs(c, 0, x).entries = c /\ Abs(c, 0, x).next = 0
  BY <1>1, <1>2, AbsMade
<1> QED BY <1>3 DEF x

\* hexafs_abstraction_create: a new block of the abstraction, without entries.
LEMMA WorkAbstraction ==
  ASSUME NEW s, NEW g, NEW own, Work(s, g, own)
  PROVE  LET t == abstraction_create(s)
             b == t.r
             more == [own EXCEPT ![b] = 0]
         IN /\ t \in Store /\ Frame(s, t) /\ t.refused = s.refused
            /\ b = 0 => t.full /\ Work(t, g, own) /\ t.blk = s.blk
            /\ b # 0 => /\ b \in Block /\ own[b] = Outside /\ more[b] = 0
                        /\ Work(t, g, more) /\ Touches(s, own, t, more, 0)
                        /\ t.blk[b] = Abs(<<>>, 0, TRUE) /\ t.full = s.full
                        /\ \A c \in Block : InTree(s.blk, own, c) => InTree(t.blk, more, c)
                        /\ \A e : EntryOf(t.blk, more, e) => EntryOf(s.blk, own, e)
<1> DEFINE a == alloc_block(s)
           b == a.r
           more == [own EXCEPT ![b] = 0]
           v == Abs(<<>>, 0, TRUE)
           t == block_write(a, b, v)
           X == {}
<1>1. /\ a \in Store /\ Frame(s, a) /\ a.cb = s.cb /\ a.refused = s.refused
      /\ Work(a, g, own)
      /\ \A c \in Block : c \in s.bmp => a.blk[c] = s.blk[c]
      /\ b = 0 => a.full /\ a.blk = s.blk
      /\ b # 0 => /\ b \in Block /\ b \notin s.bmp /\ b \in a.bmp /\ b \notin g.bmp
                  /\ own[b] = Outside /\ Base(g, own)[b] = Outside
                  /\ a.blk[b] = Zero /\ a.full = s.full /\ a.bmp = s.bmp \cup {b} /\ a.bd
                  /\ \A c \in Block : c # b => a.blk[c] = s.blk[c]
                  /\ \A x \in 0 .. NBLOCKS : Work(a, g, [own EXCEPT ![b] = x])
  <2>1. Work(s, g, own) OBVIOUS
  <2> QED BY ONLY <2>1, WorkAlloc
<1>2. abstraction_create(s) = IF b = 0 THEN a ELSE t BY DEF abstraction_create, OnSuccess
<1>3. CASE b = 0 BY <1>1, <1>2, <1>3
<1>4. CASE b # 0
  <2>1. 0 \in 0 .. NBLOCKS /\ own \in Labels /\ Outside # 0 BY StoreAssumption DEF Work, Outside
  <2>2. Work(a, g, more) BY <1>1, <1>4, <2>1
  <2>3. more[b] = 0 /\ \A c \in Block : c # b => more[c] = own[c] BY <1>1, <1>4, <2>1 DEF Labels
  <2>4. /\ v \in Sector /\ v.kind = "abs" /\ v.entries = <<>> /\ v.next = 0
    <3> DEFINE c == <<>>
    <3>1. c \in Seq(Entry) OBVIOUS
    <3> HIDE DEF c
    <3>2. LET u == Abs(c, 0, TRUE)
          IN u \in Sector /\ u.kind = "abs" /\ u.entries = c /\ u.next = 0
      BY ONLY <3>1, AbsNew
    <3> QED BY <3>2 DEF c
  <2> HIDE DEF a, b, more, v
  <2>5. EntriesBefore(a.blk[b]) = <<>> BY <1>1, <1>4, ZeroMade DEF EntriesBefore
  <2>6. GrownBy(a.blk, more, b, v) BY <2>3, <2>4, <2>5 DEF GrownBy
  <2>7. /\ t \in Store /\ Work(t, g, more) /\ Touches(a, more, t, more, 0)
        /\ t.r = a.r /\ t.full = a.full /\ t.refused = a.refused
        /\ t.blk[b] = v /\ \A c \in Block : c # b => t.blk[c] = a.blk[c]
        /\ \A c \in Block : InTree(a.blk, more, c) => InTree(t.blk, more, c)
        /\ \A e : EntryOf(t.blk, more, e) => EntryOf(a.blk, more, e) \/ e \in X
    <3>1. /\ Work(a, g, more) /\ b \in Block /\ v \in Sector /\ GrownBy(a.blk, more, b, v)
          /\ v.entries = EntriesBefore(a.blk[b]) /\ \A e \in X : e.name \notin Names
      BY <1>1, <1>4, <2>2, <2>4, <2>5, <2>6
    <3> HIDE DEF X
    <3> QED BY ONLY <3>1, WorkGrow
  <2> HIDE DEF t
  <2>8. \A c \in Block : own[c] # Outside => c \in s.bmp BY DEF Work
  <2>9. ASSUME NEW c \in Block, own[c] # Outside PROVE more[c] = own[c] /\ t.blk[c] = s.blk[c]
    <3>1. c \in s.bmp /\ c # b BY <2>8, <2>9, <1>1, <1>4
    <3> QED BY <3>1, <2>3, <2>7, <1>1
  <2>10. ASSUME NEW c \in Block, own[c] = Outside PROVE more[c] = Outside \/ more[c] = 0
    BY <2>3, <2>10
  <2>11. Frame(s, t) BY <1>1, <2>7 DEF Touches, Frame
  <2>12. Touches(s, own, t, more, 0) BY <2>9, <2>10, <2>11 DEF Touches
  <2>13. ASSUME NEW e, EntryOf(t.blk, more, e) PROVE EntryOf(s.blk, own, e)
    <3>1. EntryOf(a.blk, more, e) BY <2>7, <2>13 DEF X
    <3>2. PICK c \in Block : /\ InTree(a.blk, more, c)
                             /\ \E i \in DOMAIN a.blk[c].entries : a.blk[c].entries[i] = e
      BY <3>1 DEF EntryOf
    <3>3. c # b BY <3>2, <1>1, <1>4, ZeroMade DEF InTree
    <3>4. own[c] = 0 BY <3>2, <3>3, <2>3 DEF InTree
    <3>5. a.blk[c] = s.blk[c] BY <3>4, <2>1, <2>8, <1>1
    <3> QED BY <3>2, <3>4, <3>5 DEF EntryOf, InTree
  <2>14. abstraction_create(s) = t BY <1>2, <1>4 DEF a, b, v, t
  <2>15. t.r = b BY <2>7 DEF b
  <2>16. \A c \in Block : InTree(s.blk, own, c) => InTree(t.blk, more, c)
    BY <2>1, <2>9 DEF InTree
  <2> QED BY <1>1, <1>4, <2>3, <2>7, <2>11, <2>12, <2>13, <2>14, <2>15, <2>16 DEF more, v
<1> QED BY <1>3, <1>4

\* An abstraction block with one more entry.
WithEntry(u, e) == [u EXCEPT !.entries = Append(@, e)]
\* An abstraction block that another one follows.
Chained(u, n) == [u EXCEPT !.next = n, !.crc = FALSE]
\* Entry e has been added in a new block after A; to A, or in such a block.
Followed(blk, new, A, e) ==
  \E n \in Block : n # A /\ new[A] = Chained(blk[A], n) /\ new[n] = Abs(<<e>>, 0, TRUE)
Enlarged(blk, new, A, e) == new[A] = WithEntry(blk[A], e) \/ Followed(blk, new, A, e)

\* An entry goes into a block of the abstraction.
LEMMA WorkAppendEntry ==
  ASSUME NEW s, NEW g, NEW own, Work(s, g, own), NEW b \in Block, own[b] = 0, NEW e0 \in Entry,
         own[e0.obj] = e0.obj, ~Entered(s.blk, own, e0.obj),
         g.mode = "live" => e0.name \notin Names
  PROVE  LET t == AppendEntry(s, b, e0) IN
         /\ t \in Store /\ Work(t, g, own) /\ Touches(s, own, t, own, 0)
         /\ \A c \in Block : InTree(s.blk, own, c) => InTree(t.blk, own, c)
         /\ \A e : EntryOf(t.blk, own, e) => EntryOf(s.blk, own, e) \/ e = e0
         /\ t.full = s.full
         /\ ~Sound(s.blk, b) => t.refused
         /\ Sound(s.blk, b) =>
              /\ t.refused = s.refused /\ t.r = 1
              /\ t.blk[b] = WithEntry(s.blk[b], e0)
<1> DEFINE t == AppendEntry(s, b, e0)
<1>1. s \in Store /\ s.blk \in Blocks /\ own \in Labels /\ Tree(s.blk, own)
  BY StoreFields DEF Work
<1>2. 0 \in 0 .. NBLOCKS /\ 1 \in 0 .. NBLOCKS /\ Outside # 0 BY StoreAssumption DEF Outside
<1>3. CASE ~Sound(s.blk, b)
  <2>1. t = [s EXCEPT !.r = 0, !.refused = TRUE] BY <1>3 DEF AppendEntry
  <2>2. /\ t \in Store /\ t.blk = s.blk /\ t.log = s.log /\ t.bmp = s.bmp /\ t.bd = s.bd
        /\ t.root = s.root /\ t.tx = s.tx /\ t.full = s.full /\ t.refused
    BY <1>1, <1>2, <2>1, Flags DEF Store
  <2> HIDE DEF t
  <2>3. Work(t, g, own) BY <2>2, WorkFields
  <2>4. Frame(s, t) BY <2>2 DEF Frame
  <2>5. Touches(s, own, t, own, 0) BY <2>2, <2>4 DEF Touches
  <2> QED BY <1>3, <2>2, <2>3, <2>5 DEF t
<1>4. CASE Sound(s.blk, b)
  <2> DEFINE u == s.blk[b]
             new == Append(u.entries, e0)
             v == [u EXCEPT !.entries = new]
             w == block_write(s, b, v)
             X == {e0}
  <2>1. u \in Sector /\ u.kind = "abs" BY <1>1, <1>4 DEF Blocks, Sound
  <2>2. u \in AbsSector /\ u.entries \in Seq(Entry) BY <2>1, SectorFacts, AbsFacts
  <2>3. new \in Seq(Entry) /\ Len(new) = Len(u.entries) + 1 /\ new[Len(new)] = e0
    <3>1. u.entries \in Seq(Entry) /\ e0 \in Entry BY <2>2
    <3> HIDE DEF u
    <3> QED BY ONLY <3>1, SMTT(30)
  <2>4. t = [w EXCEPT !.r = 1] BY <1>4 DEF AppendEntry
  <2>5. EntriesBefore(u) = u.entries BY <2>1 DEF EntriesBefore
  <2> HIDE DEF u, new
  <2>6. v \in AbsSector /\ v.kind = "abs" /\ v.entries = new /\ v.next = u.next
    BY <2>1, <2>2, <2>3 DEF AbsSector
  <2>7. v \in Sector BY <2>6, SectorKinds
  <2> HIDE DEF v
  <2>8. AbsOk(s.blk, own, b) BY <1>1, <1>2, <2>1 DEF Tree, u
  <2>9. v.next # 0 => own[v.next] = 0 BY <2>6, <2>8 DEF AbsOk, u
  <2>10. v.entries = Append(EntriesBefore(s.blk[b]), e0) BY <2>5, <2>6 DEF new, u
  <2>11. GrownBy(s.blk, own, b, v) BY <2>6, <2>9, <2>10 DEF GrownBy
  <2>12. v.entries[Len(v.entries)] \in X BY <2>3, <2>6
  <2>13. g.mode = "live" => \A e \in X : e.name \notin Names OBVIOUS
  <2>14. /\ w \in Store /\ Work(w, g, own) /\ Touches(s, own, w, own, 0)
         /\ w.r = s.r /\ w.full = s.full /\ w.refused = s.refused
         /\ w.blk[b] = v /\ \A c \in Block : c # b => w.blk[c] = s.blk[c]
         /\ \A c \in Block : InTree(s.blk, own, c) => InTree(w.blk, own, c)
         /\ \A e : EntryOf(w.blk, own, e) => EntryOf(s.blk, own, e) \/ e \in X
    <3> HIDE DEF X
    <3>1. Work(s, g, own) /\ b \in Block OBVIOUS
    <3> QED BY ONLY <3>1, <2>7, <2>11, <2>12, <2>13, WorkGrow
  <2> HIDE DEF w, t
  <2>15. /\ t \in Store /\ Frame(w, t) /\ t.r = 1
         /\ t.blk = w.blk /\ t.log = w.log /\ t.bmp = w.bmp /\ t.bd = w.bd
         /\ t.full = w.full /\ t.refused = w.refused
    BY ONLY <2>4, <2>14, <1>2, ReturnFields
  <2>16. Work(t, g, own)
    <3>1. t.root = w.root BY <2>15 DEF Frame
    <3> QED BY <2>14, <2>15, <3>1, WorkFields
  <2>17. Touches(s, own, t, own, 0) BY <2>14, <2>15 DEF Touches, Frame
  <2> QED BY <1>4, <2>14, <2>15, <2>16, <2>17 DEF t, v, u, new, X, WithEntry
<1> QED BY <1>3, <1>4

\* An entry goes into a new block at the end of the chain.
LEMMA WorkExtendChain ==
  ASSUME NEW s, NEW g, NEW own, Work(s, g, own), NEW b \in Block, own[b] = 0,
         s.blk[b].kind = "abs", NEW e0 \in Entry,
         own[e0.obj] = e0.obj, ~Entered(s.blk, own, e0.obj),
         g.mode = "live" => e0.name \notin Names
  PROVE  LET t == ExtendChain(s, b, e0) IN \E more :
         /\ t \in Store /\ Work(t, g, more) /\ Touches(s, own, t, more, 0)
         /\ \A c \in Block : InTree(s.blk, own, c) => InTree(t.blk, more, c)
         /\ \A e : EntryOf(t.blk, more, e) => EntryOf(s.blk, own, e) \/ e = e0
         /\ t.r = 0 => t.full
         /\ t.r # 0 => Followed(s.blk, t.blk, b, e0)
<1> DEFINE t == ExtendChain(s, b, e0)
           a == abstraction_create(s)
           n == a.r
           more == [own EXCEPT ![n] = 0]
           u == a.blk[b]
           v == [u EXCEPT !.next = n, !.crc = FALSE]
           w == block_write(a, b, v)
           one == <<e0>>
           y == Abs(one, 0, TRUE)
           z == block_write(w, n, y)
           X == {e0}
           N == {}
<1>1. /\ a \in Store /\ Frame(s, a) /\ a.refused = s.refused
      /\ n = 0 => a.full /\ Work(a, g, own) /\ a.blk = s.blk
      /\ n # 0 => /\ n \in Block /\ own[n] = Outside /\ more[n] = 0
                  /\ Work(a, g, more) /\ Touches(s, own, a, more, 0)
                  /\ a.blk[n] = Abs(<<>>, 0, TRUE) /\ a.full = s.full
                  /\ \A c \in Block : InTree(s.blk, own, c) => InTree(a.blk, more, c)
                  /\ \A e : EntryOf(a.blk, more, e) => EntryOf(s.blk, own, e)
  BY WorkAbstraction
<1>2. t = IF n = 0 THEN a ELSE [z EXCEPT !.r = 1] BY DEF ExtendChain, OnSuccess, set_chain
<1>3. 0 \in 0 .. NBLOCKS /\ 1 \in 0 .. NBLOCKS /\ Outside # 0 BY StoreAssumption DEF Outside
<1> HIDE DEF a, n, more, t
<1>4. CASE n = 0
  <2>1. t = a BY <1>2, <1>4
  <2>2. Touches(s, own, a, own, 0) BY <1>1, <1>4 DEF Touches
  <2>3. t.r = 0 BY <1>4, <2>1 DEF n
  <2> QED BY <1>1, <1>4, <2>1, <2>2, <2>3 DEF t
<1>5. CASE n # 0
  <2>1. a.blk \in Blocks /\ more \in Labels /\ Tree(a.blk, more) /\ n \in 0 .. NBLOCKS
    BY <1>1, <1>5, StoreFields DEF Work, n
  <2>2. s.blk[b] \in Sector /\ s.blk \in Blocks /\ Tree(s.blk, own) /\ own \in Labels
    BY StoreFields DEF Work, Blocks
  <2>3. own[b] # Outside /\ more[b] = 0 BY <1>1, <1>3, <1>5 DEF Touches
  <2>4. n # b BY <1>1, <1>5, <1>3
  <2>5. a.blk[b] = s.blk[b] /\ a.blk[b].kind = "abs"
    <3> DEFINE aa == alloc_block(s)
    <3>1. b \in s.bmp BY <2>3 DEF Work
    <3> DEFINE vv == Abs(<<>>, 0, TRUE)
    <3>0. a = IF aa.r = 0 THEN aa ELSE block_write(aa, aa.r, vv)
      BY DEF a, abstraction_create, OnSuccess
    <3>2. aa \in Store /\ aa.blk[b] = s.blk[b]
      <4>1. Work(s, g, own) OBVIOUS
      <4>2. aa \in Store /\ \A c \in Block : c \in s.bmp => aa.blk[c] = s.blk[c]
        BY ONLY <4>1, WorkAlloc, Zenon
      <4> QED BY <3>1, <4>2
    <3> HIDE DEF aa, vv
    <3>4. aa.r # 0 BY <3>0, <1>5 DEF n
    <3>5. a = block_write(aa, aa.r, vv) BY <3>0, <3>4
    <3>6. n = aa.r BY <3>5 DEF n, block_write
    <3>3. a.blk[b] = aa.blk[b]
      <4>1. aa.blk \in Blocks BY <3>2, StoreFields
      <4>2. a.blk = [aa.blk EXCEPT ![n] = vv]
        <5> DEFINE bb == [aa.blk EXCEPT ![aa.r] = vv]
        <5>1. block_write(aa, aa.r, vv).blk = bb BY <3>2 DEF block_write, Store
        <5> QED BY <5>1, <3>5, <3>6
      <4> QED BY <4>1, <4>2, <2>4, <1>1, <1>5 DEF Blocks
    <3> QED BY <3>2, <3>3
  <2>6. u \in Sector /\ u \in AbsSector BY <2>1, <2>5, SectorFacts DEF Blocks
  <2>7. v \in AbsSector /\ v.kind = "abs" /\ v.entries = u.entries /\ v.next = n
    <3> HIDE DEF u
    <3> QED BY <2>6, <2>1, Flags DEF AbsSector
  <2>8. v \in Sector BY <2>7, SectorKinds
  <2>9. EntriesBefore(a.blk[b]) = u.entries BY <2>5 DEF EntriesBefore
  <2> HIDE DEF v, u
  <2>10. GrownBy(a.blk, more, b, v) BY <2>3, <2>7, <2>9, <1>1, <1>5 DEF GrownBy
  <2>11. /\ w \in Store /\ Work(w, g, more) /\ Touches(a, more, w, more, 0)
         /\ w.r = a.r /\ w.full = a.full /\ w.refused = a.refused
         /\ w.blk[b] = v /\ \A c \in Block : c # b => w.blk[c] = a.blk[c]
         /\ \A c \in Block : InTree(a.blk, more, c) => InTree(w.blk, more, c)
         /\ \A e : EntryOf(w.blk, more, e) => EntryOf(a.blk, more, e) \/ e \in N
    <3>1. Work(a, g, more) /\ b \in Block /\ v.entries = EntriesBefore(a.blk[b])
      BY <1>1, <1>5, <2>7, <2>9
    <3>2. \A e \in N : e.name \notin Names OBVIOUS
    <3> HIDE DEF N
    <3> QED BY ONLY <3>1, <3>2, <2>8, <2>10, WorkGrow
  <2> HIDE DEF w
  <2>12. \A e : EntryOf(w.blk, more, e) => EntryOf(s.blk, own, e) BY <2>11, <1>1, <1>5 DEF N
  <2>13. ~Entered(w.blk, more, e0.obj)
    <3>1. \A e : EntryOf(s.blk, own, e) => e.obj # e0.obj BY EnteredEntry
    <3> QED BY <3>1, <2>12, EnteredEntry
  <2>14. more[e0.obj] = e0.obj
    <3>1. e0.obj \in Block BY DEF Entry
    <3>2. own[e0.obj] # Outside BY <3>1, StoreAssumption DEF Block, Outside
    <3> QED BY <3>1, <3>2, <1>1, <1>5 DEF Touches
  <2>15. one \in Seq(Entry) /\ Len(one) = 1 /\ one[1] = e0 /\ one = Append(<<>>, e0)
         /\ one # <<>>
    OBVIOUS
  <2> HIDE DEF one
  <2>16. y \in Sector /\ y.kind = "abs" /\ y.entries = one /\ y.next = 0
    BY ONLY <2>15, AbsNew
  <2> HIDE DEF y
  <2>17. EntriesBefore(w.blk[n]) = <<>>
    <3>1. w.blk[n] = Abs(<<>>, 0, TRUE) BY <2>4, <2>11, <1>1, <1>5
    <3> QED BY <3>1 DEF EntriesBefore, Abs
  <2>18. y.entries = Append(EntriesBefore(w.blk[n]), e0) BY <2>15, <2>16, <2>17
  <2>19. GrownBy(w.blk, more, n, y) BY <1>1, <1>5, <2>13, <2>14, <2>16, <2>18 DEF GrownBy
  <2>20. /\ z \in Store /\ Work(z, g, more) /\ Touches(w, more, z, more, 0)
         /\ z.r = w.r /\ z.full = w.full /\ z.refused = w.refused
         /\ z.blk[n] = y /\ \A c \in Block : c # n => z.blk[c] = w.blk[c]
         /\ \A c \in Block : InTree(w.blk, more, c) => InTree(z.blk, more, c)
         /\ \A e : EntryOf(z.blk, more, e) => EntryOf(w.blk, more, e) \/ e \in X
    <3>1. Work(w, g, more) /\ n \in Block /\ y \in Sector BY <1>1, <1>5, <2>11, <2>16
    <3>2. y.entries[Len(y.entries)] \in X BY <2>15, <2>16
    <3>3. g.mode = "live" => \A e \in X : e.name \notin Names OBVIOUS
    <3> HIDE DEF X
    <3> QED BY ONLY <3>1, <3>2, <3>3, <2>19, WorkGrow
  <2> HIDE DEF z
  <2>21. t = [z EXCEPT !.r = 1] BY <1>2, <1>5
  <2>22. /\ t \in Store /\ Frame(z, t) /\ t.r = 1
         /\ t.blk = z.blk /\ t.log = z.log /\ t.bmp = z.bmp /\ t.bd = z.bd
         /\ t.full = z.full /\ t.refused = z.refused
    BY ONLY <2>20, <2>21, <1>3, ReturnFields
  <2>23. Work(t, g, more)
    <3>1. t.root = z.root BY <2>22 DEF Frame
    <3> QED BY <2>20, <2>22, <3>1, WorkFields
  <2>24. Touches(s, own, t, more, 0)
    <3>1. Touches(s, own, w, more, 0) BY <1>1, <1>3, <1>5, <2>11, TouchesTwice
    <3>2. Touches(s, own, z, more, 0) BY <1>3, <2>20, <3>1, TouchesTwice
    <3> QED BY <3>2, <2>22 DEF Touches, Frame
  <2>25. \A e : EntryOf(t.blk, more, e) => EntryOf(s.blk, own, e) \/ e = e0
    BY <2>12, <2>20, <2>22 DEF X
  <2>26. \A c \in Block : InTree(s.blk, own, c) => InTree(t.blk, more, c)
    BY <1>1, <1>5, <2>11, <2>20, <2>22
  <2>27. n \in Block /\ n # b /\ t.blk[b] = Chained(s.blk[b], n) /\ t.blk[n] = Abs(<<e0>>, 0, TRUE)
    <3>1. n \in Block BY <1>1, <1>5
    <3>2. t.blk[n] = y /\ t.blk[b] = v BY <2>4, <2>11, <2>20, <2>22
    <3>3. v = Chained(s.blk[b], n) BY <2>5 DEF v, u, Chained
    <3> QED BY <2>4, <3>1, <3>2, <3>3 DEF y, one
  <2>28. Followed(s.blk, t.blk, b, e0) BY <2>27 DEF Followed
  <2> QED BY <2>22, <2>23, <2>24, <2>25, <2>26, <2>28 DEF t
<1> QED BY <1>4, <1>5

\* hexafs_abstraction_add_entry: at most this entry is added, and it is
\* appended to the first block when that has room.
LEMMA WorkAddEntry ==
  ASSUME NEW s, NEW g, NEW own, Work(s, g, own), NEW abs \in Block, own[abs] = 0,
         NEW name \in AnyName, NEW o \in Block, own[o] = o, ~Entered(s.blk, own, o),
         g.mode = "live" => name \notin Names
  PROVE  LET t == add_entry(s, abs, name, o)
             e0 == [name |-> name, obj |-> o]
         IN \E more :
         /\ t \in Store /\ Work(t, g, more) /\ Touches(s, own, t, more, 0)
         /\ \A c \in Block : InTree(s.blk, own, c) => InTree(t.blk, more, c)
         /\ \A e : EntryOf(t.blk, more, e) => EntryOf(s.blk, own, e) \/ e = e0
         /\ Sound(s.blk, abs) /\ Len(s.blk[abs].entries) < ABS_MAX_ENTRIES =>
              /\ t.full = s.full /\ t.refused = s.refused /\ t.r = 1
              /\ t.blk[abs] = WithEntry(s.blk[abs], e0)
         /\ ~Sound(s.blk, abs) => t.refused
         /\ ~t.full /\ ~t.refused /\ s.blk[abs].next = 0 => Enlarged(s.blk, t.blk, abs, e0)
<1> DEFINE e0 == [name |-> name, obj |-> o]
           t == add_entry(s, abs, name, o)
           chain == Chain(s.blk, abs)
           N == {b \in Block : own[b] = 0}
           I == {i \in 1 .. Len(chain) : ~Sound(s.blk, chain[i])
                                           \/ Len(s.blk[chain[i]].entries) < ABS_MAX_ENTRIES}
           stop == IF I # {} THEN Min(I) ELSE 0
<1>1. s \in Store /\ s.blk \in Blocks /\ own \in Labels /\ Tree(s.blk, own)
  BY StoreFields DEF Work
<1>2. Outside # 0 BY StoreAssumption DEF Outside
<1>3. chain \in Seq(N) /\ Len(chain) >= 1 /\ chain[1] = abs
  <2>1. N \in SUBSET Block /\ abs \in N OBVIOUS
  <2>2. ASSUME NEW b \in N, s.blk[b].kind = "abs", s.blk[b].next # 0 PROVE s.blk[b].next \in N
    <3>1. AbsOk(s.blk, own, b) BY <1>1, <1>2, <2>2 DEF Tree
    <3>2. s.blk[b] \in Sector BY <1>1 DEF Blocks
    <3>3. s.blk[b].next \in 0 .. NBLOCKS BY <3>2, <2>2, AbsFacts
    <3>4. s.blk[b].next \in Block BY <3>3, <2>2, StoreAssumption DEF Block
    <3> QED BY <3>1, <3>4, <2>2 DEF AbsOk
  <2> HIDE DEF N
  <2> QED BY <1>1, <2>1, <2>2, ChainIn
<1>4. t = IF stop # 0 THEN AppendEntry(s, chain[stop], e0) ELSE ExtendChain(s, Last(chain), e0)
  BY DEF add_entry, AddToChain, SelectInSeq
<1>5. e0 \in Entry /\ e0.obj = o /\ e0.name = name BY DEF Entry
<1>6. \A i \in 1 .. Len(chain) : chain[i] \in Block /\ own[chain[i]] = 0 BY <1>3
<1>7. Len(chain) \in Nat /\ Last(chain) = chain[Len(chain)] BY <1>3 DEF Last
<1>10. ASSUME s.blk[abs].next = 0 PROVE Len(chain) = 1
  <2>1. chain = <<abs>> BY <1>10, ChainOne
  <2> HIDE DEF chain
  <2> QED BY <2>1
<1> HIDE DEF chain, e0, t
<1>8. CASE I # {}
  <2> DEFINE b == chain[stop]
  <2>1. I \in SUBSET Nat BY <1>7
  <2>2. stop \in I /\ \A y \in I : stop <= y
    <3>1. stop = Min(I) BY <1>8
    <3> HIDE DEF I, stop
    <3> QED BY <1>8, <2>1, <3>1, MinOf
  <2>3. stop # 0 /\ stop \in 1 .. Len(chain) BY <2>2, <1>7
  <2> HIDE DEF stop
  <2>4. b \in Block /\ own[b] = 0 BY <2>3, <1>6
  <2>5. t = AppendEntry(s, b, e0) BY <1>4, <2>3
  <2> HIDE DEF b
  <2>6. /\ t \in Store /\ Work(t, g, own) /\ Touches(s, own, t, own, 0)
        /\ \A c \in Block : InTree(s.blk, own, c) => InTree(t.blk, own, c)
        /\ \A e : EntryOf(t.blk, own, e) => EntryOf(s.blk, own, e) \/ e = e0
        /\ t.full = s.full
        /\ ~Sound(s.blk, b) => t.refused
        /\ Sound(s.blk, b) =>
              /\ t.refused = s.refused /\ t.r = 1
              /\ t.blk[b] = WithEntry(s.blk[b], e0)
    <3>1. /\ Work(s, g, own) /\ own[e0.obj] = e0.obj /\ ~Entered(s.blk, own, e0.obj)
          /\ g.mode = "live" => e0.name \notin Names
          /\ e0 \in Entry
      BY <1>5
    <3>2. LET u == AppendEntry(s, b, e0) IN
        /\ u \in Store /\ Work(u, g, own) /\ Touches(s, own, u, own, 0)
        /\ \A c \in Block : InTree(s.blk, own, c) => InTree(u.blk, own, c)
        /\ \A e : EntryOf(u.blk, own, e) => EntryOf(s.blk, own, e) \/ e = e0
        /\ u.full = s.full
        /\ ~Sound(s.blk, b) => u.refused
        /\ Sound(s.blk, b) =>
              /\ u.refused = s.refused /\ u.r = 1
              /\ u.blk[b] = WithEntry(s.blk[b], e0)
      BY ONLY <3>1, <2>4, WorkAppendEntry, SMTT(30)
    <3> QED BY ONLY <3>2, <2>5
  <2>7. ASSUME Sound(s.blk, abs), Len(s.blk[abs].entries) < ABS_MAX_ENTRIES PROVE b = abs
    <3>1. 1 \in I BY <2>7, <1>3, <1>7
    <3>2. stop = 1 BY <2>2, <2>3, <3>1, <1>7
    <3> QED BY <3>2, <1>3 DEF b
  <2>8. ASSUME ~Sound(s.blk, abs) PROVE b = abs
    <3>1. 1 \in I BY <2>8, <1>3, <1>7
    <3>2. stop = 1 BY <2>2, <2>3, <3>1, <1>7
    <3> QED BY <3>2, <1>3 DEF b
  <2>9. ASSUME s.blk[abs].next = 0 PROVE b = abs
    <3>1. stop \in 1 .. 1 BY <2>3, <2>9, <1>10
    <3>2. stop = 1 BY <3>1
    <3> QED BY <3>2, <1>3 DEF b
  <2> HIDE DEF I
  <2>10. ~Sound(s.blk, abs) => t.refused BY <2>6, <2>8
  <2>11. ~t.refused /\ s.blk[abs].next = 0 => Enlarged(s.blk, t.blk, abs, e0)
    BY <2>6, <2>9 DEF Enlarged
  <2> QED BY <2>6, <2>7, <2>10, <2>11 DEF t, e0
<1>9. CASE I = {}
  <2> DEFINE b == Last(chain)
  <2>1. stop = 0 BY <1>9
  <2>2. Len(chain) \in 1 .. Len(chain) BY <1>3, <1>7
  <2>3. b \in Block /\ own[b] = 0 BY <2>2, <1>6, <1>7
  <2>4. Sound(s.blk, b) BY <1>9, <2>2, <1>7
  <2>5. s.blk[b].kind = "abs" BY <2>4 DEF Sound
  <2>6. t = ExtendChain(s, b, e0) BY <1>4, <2>1
  <2>7. ~(Sound(s.blk, abs) /\ Len(s.blk[abs].entries) < ABS_MAX_ENTRIES)
    <3>1. 1 \in 1 .. Len(chain) BY <1>3, <1>7
    <3> QED BY <3>1, <1>3, <1>9
  <2> HIDE DEF b, stop, I
  <2>8. \E more :
        /\ t \in Store /\ Work(t, g, more) /\ Touches(s, own, t, more, 0)
        /\ \A c \in Block : InTree(s.blk, own, c) => InTree(t.blk, more, c)
        /\ \A e : EntryOf(t.blk, more, e) => EntryOf(s.blk, own, e) \/ e = e0
        /\ t.r = 0 => t.full
        /\ t.r # 0 => Followed(s.blk, t.blk, b, e0)
    <3>1. /\ Work(s, g, own) /\ own[e0.obj] = e0.obj /\ ~Entered(s.blk, own, e0.obj)
          /\ g.mode = "live" => e0.name \notin Names
          /\ e0 \in Entry
      BY <1>5
    <3>2. LET u == ExtendChain(s, b, e0) IN \E more :
        /\ u \in Store /\ Work(u, g, more) /\ Touches(s, own, u, more, 0)
        /\ \A c \in Block : InTree(s.blk, own, c) => InTree(u.blk, more, c)
        /\ \A e : EntryOf(u.blk, more, e) => EntryOf(s.blk, own, e) \/ e = e0
        /\ u.r = 0 => u.full
        /\ u.r # 0 => Followed(s.blk, u.blk, b, e0)
      BY ONLY <3>1, <2>3, <2>5, WorkExtendChain
    <3> QED BY ONLY <3>2, <2>6
  <2>9. s.blk[abs].next = 0 => b = abs BY <1>3, <1>7, <1>10 DEF b
  <2>10. Sound(s.blk, abs)
    <3>1. 1 \in 1 .. Len(chain) BY <1>3, <1>7
    <3> QED BY <3>1, <1>3, <1>9 DEF I
  <2>11. ~t.full /\ s.blk[abs].next = 0 => Enlarged(s.blk, t.blk, abs, e0)
    BY <2>8, <2>9 DEF Enlarged
  <2> QED BY <2>7, <2>8, <2>10, <2>11 DEF t, e0
<1> QED BY <1>8, <1>9

-----------------------------------------------------------------------------
(***************************************************************************)
(* hexafs_save_all, up to the snapshot.                                    *)
(***************************************************************************)

\* An object of another owner is not touched, nor what it loads as.
LEMMA TouchesForm ==
  ASSUME NEW s, NEW g, NEW own, Work(s, g, own), NEW t, NEW more, NEW x,
         Touches(s, own, t, more, x), NEW o \in Block, own[o] = o, o # x
  PROVE  /\ t.blk[o] = s.blk[o] /\ AsForm(t.blk, o) = AsForm(s.blk, o) /\ more[o] = o
         /\ object_read_data(t.blk, o) = object_read_data(s.blk, o)
<1>1. s.blk \in Blocks /\ own \in Labels /\ Tree(s.blk, own) BY StoreFields DEF Work
<1>2. o # Outside BY StoreAssumption DEF Outside, Block
<1>3. t.blk[o] = s.blk[o] /\ more[o] = o BY <1>2 DEF Touches
<1>4. ASSUME s.blk[o].kind = "obj"
      PROVE  /\ s.blk[o].cb \in Seq(Block)
             /\ \A i \in DOMAIN s.blk[o].cb : t.blk[s.blk[o].cb[i]] = s.blk[s.blk[o].cb[i]]
  <2>1. s.blk[o] \in Sector BY <1>1 DEF Blocks
  <2>2. s.blk[o].cb \in Seq(Block) BY <2>1, <1>4, ObjFacts
  <2>3. ObjOk(s.blk, own, o) BY <1>1, <1>2, <1>4 DEF Tree
  <2>4. ASSUME NEW i \in DOMAIN s.blk[o].cb
        PROVE  t.blk[s.blk[o].cb[i]] = s.blk[s.blk[o].cb[i]]
    <3>1. s.blk[o].cb[i] \in Block BY <2>2
    <3>2. own[s.blk[o].cb[i]] = o BY <2>3 DEF ObjOk
    <3> QED BY <3>1, <3>2, <1>2 DEF Touches
  <2> QED BY <2>2, <2>4
<1>5. AsForm(t.blk, o) = AsForm(s.blk, o) BY <1>3, <1>4, AsFormSame
<1>6. object_read_data(t.blk, o) = object_read_data(s.blk, o) BY <1>3, <1>4, ReadSame
<1> QED BY <1>3, <1>5, <1>6

\* The object o of an entry stands for form f.
Carries(blk, e, f) ==
  /\ e.name = f.name /\ blk[e.obj].kind = "obj"
  /\ f.name \in Names => AsForm(blk, e.obj) = f.body

\* The first i forms have been saved under A, as far as the disk had room: what
\* is there is right, and unless something failed all of them are there.
Saved(s0, s, own, g, A, forms, i) ==
  /\ s \in Store /\ Work(s, g, own) /\ own[A] = 0 /\ InTree(s.blk, own, A) /\ Frame(s0, s)
  /\ \A e : EntryOf(s.blk, own, e) => \E j \in 1 .. i : Carries(s.blk, e, forms[j])
  /\ ~s.full /\ ~s.refused /\ i <= ABS_MAX_ENTRIES =>
       /\ Sound(s.blk, A) /\ s.blk[A].next = 0 /\ Len(s.blk[A].entries) = i
       /\ \A j \in 1 .. i : Carries(s.blk, s.blk[A].entries[j], forms[j])

\* What an entry stands for is kept by a step that touches other owners.
LEMMA CarriesKept ==
  ASSUME NEW s, NEW g, NEW own, Work(s, g, own), NEW t, NEW more, NEW x,
         Touches(s, own, t, more, x), NEW e, EntryOf(s.blk, own, e), NEW f, Carries(s.blk, e, f),
         x \notin Block \/ own[x] = Outside
  PROVE  Carries(t.blk, e, f)
<1>1. s.blk \in Blocks /\ own \in Labels /\ Tree(s.blk, own) BY StoreFields DEF Work
<1>2. Entered(s.blk, own, e.obj) BY EnteredEntry
<1>3. e.obj \in Block /\ own[e.obj] = e.obj /\ own[e.obj] # Outside BY <1>1, <1>2, FormsEntered
<1>4. e.obj # x BY <1>3
<1>5. t.blk[e.obj] = s.blk[e.obj] /\ AsForm(t.blk, e.obj) = AsForm(s.blk, e.obj)
  BY <1>3, <1>4, TouchesForm
<1> QED BY <1>5 DEF Carries

\* The entries of an abstraction block of the tree are entries of the tree.
LEMMA EntriesOf ==
  ASSUME NEW s, NEW g, NEW own, Work(s, g, own), NEW A \in Block, InTree(s.blk, own, A)
  PROVE  /\ s.blk[A] \in AbsSector /\ s.blk[A].entries \in Seq(Entry)
         /\ \A j \in 1 .. Len(s.blk[A].entries) : EntryOf(s.blk, own, s.blk[A].entries[j])
<1>1. s.blk \in Blocks /\ s.blk[A].kind = "abs" BY StoreFields DEF Work, InTree
<1>2. s.blk[A] \in Sector BY <1>1 DEF Blocks
<1>3. s.blk[A] \in AbsSector /\ s.blk[A].entries \in Seq(Entry) BY <1>1, <1>2, SectorFacts, AbsFacts
<1>4. ASSUME NEW j \in 1 .. Len(s.blk[A].entries) PROVE EntryOf(s.blk, own, s.blk[A].entries[j])
  <2>1. j \in DOMAIN s.blk[A].entries BY <1>3
  <2> QED BY <2>1 DEF EntryOf
<1> QED BY <1>3, <1>4

\* Appending to the entries of an abstraction block.
LEMMA WithEntryFacts ==
  ASSUME NEW u \in AbsSector, NEW e \in Entry
  PROVE  LET v == WithEntry(u, e) IN
         /\ v.kind = "abs" /\ v.crc = u.crc /\ v.next = u.next /\ Len(v.entries) = Len(u.entries) + 1
         /\ \A j \in 1 .. Len(u.entries) : v.entries[j] = u.entries[j]
         /\ v.entries[Len(u.entries) + 1] = e
<1> DEFINE new == Append(u.entries, e)
           v == [u EXCEPT !.entries = new]
<1>1. u.entries \in Seq(Entry) BY DEF AbsSector
<1>2. /\ Len(new) = Len(u.entries) + 1 /\ new[Len(u.entries) + 1] = e
      /\ \A j \in 1 .. Len(u.entries) : new[j] = u.entries[j]
  BY <1>1
<1> HIDE DEF new
<1>3. v.kind = "abs" /\ v.crc = u.crc /\ v.next = u.next /\ v.entries = new BY DEF AbsSector
<1>4. WithEntry(u, e) = v BY DEF WithEntry, new
<1> QED BY <1>2, <1>3, <1>4

\* One form more.
LEMMA SavedStep ==
  ASSUME NEW s0, NEW s, NEW own, NEW g, g.mode # "live", NEW A \in Block,
         NEW forms \in Seq(FormRec), NEW i \in Nat, Saved(s0, s, own, g, A, forms, i),
         i + 1 \in 1 .. Len(forms)
  PROVE  LET t == SaveForm(s, A, forms[i + 1]) IN \E more :
         Saved(s0, t, more, g, A, forms, i + 1)
<1> DEFINE f == forms[i + 1]
           t == SaveForm(s, A, f)
           w == form_from_fentry(s, f.body)
           e0 == [name |-> f.name, obj |-> w.r]
           a == add_entry(w, A, f.name, w.r)
<1>1. f \in FormRec OBVIOUS
<1>2. f.name \in AnyName /\ f.body \in Payload /\ (f.name \in Names => f.body.k = "form")
  BY <1>1 DEF FormRec, RawForm
<1>3. /\ s \in Store /\ Work(s, g, own) /\ own[A] = 0 /\ InTree(s.blk, own, A) /\ Frame(s0, s)
      /\ \A e : EntryOf(s.blk, own, e) => \E j \in 1 .. i : Carries(s.blk, e, forms[j])
      /\ ~s.full /\ ~s.refused /\ i <= ABS_MAX_ENTRIES =>
           /\ Sound(s.blk, A) /\ s.blk[A].next = 0 /\ Len(s.blk[A].entries) = i
           /\ \A j \in 1 .. i : Carries(s.blk, s.blk[A].entries[j], forms[j])
  BY DEF Saved
<1>4. t = IF w.r = 0 THEN w ELSE a BY DEF SaveForm, OnSuccess
<1>5. \E more, x :
         /\ w \in Store /\ Work(w, g, more) /\ Touches(s, own, w, more, x)
         /\ x = Outside \/ (x \in Block /\ own[x] = Outside)
         /\ w.refused = s.refused
         /\ w.r = 0 => w.full
         /\ w.r # 0 => /\ w.r = x /\ x \in Block /\ more[x] = x /\ ~Entered(w.blk, more, x)
                       /\ w.full = s.full /\ w.blk[x].kind = "obj"
                       /\ f.body.k = "form" => AsForm(w.blk, x) = f.body
  <2>1. Work(s, g, own) /\ g.mode # "live" /\ f.body \in Payload BY <1>2, <1>3
  <2> HIDE DEF f
  <2> QED BY ONLY <2>1, WorkForm
<1> HIDE DEF f, w, t
<1>6. PICK m1, x :
         /\ w \in Store /\ Work(w, g, m1) /\ Touches(s, own, w, m1, x)
         /\ x = Outside \/ (x \in Block /\ own[x] = Outside)
         /\ w.refused = s.refused
         /\ w.r = 0 => w.full
         /\ w.r # 0 => /\ w.r = x /\ x \in Block /\ m1[x] = x /\ ~Entered(w.blk, m1, x)
                       /\ w.full = s.full /\ w.blk[x].kind = "obj"
                       /\ f.body.k = "form" => AsForm(w.blk, x) = f.body
  BY <1>5
<1>7. Outside # 0 /\ Outside \notin Block /\ 0 \notin Block BY StoreAssumption DEF Outside, Block
<1>8. x \in Block \cup {Outside} /\ x # 0 /\ (x \notin Block \/ own[x] = Outside) BY <1>6, <1>7
<1>9. /\ \A c \in Block : InTree(w.blk, m1, c) <=> InTree(s.blk, own, c)
      /\ \A c \in Block : InTree(s.blk, own, c) => w.blk[c] = s.blk[c]
  BY <1>6, <1>8, TouchesEntries
<1>10. ASSUME NEW e, EntryOf(w.blk, m1, e) PROVE EntryOf(s.blk, own, e) BY <1>9, <1>10 DEF EntryOf
<1>17. ASSUME NEW e, EntryOf(s.blk, own, e), NEW h, Carries(s.blk, e, h) PROVE Carries(w.blk, e, h)
  <2>1. /\ Work(s, g, own) /\ Touches(s, own, w, m1, x) /\ EntryOf(s.blk, own, e)
        /\ Carries(s.blk, e, h) /\ (x \notin Block \/ own[x] = Outside)
    BY <1>3, <1>6, <1>8, <1>17
  <2> QED BY ONLY <2>1, CarriesKept
<1>11. ASSUME NEW e, EntryOf(w.blk, m1, e) PROVE \E j \in 1 .. i : Carries(w.blk, e, forms[j])
  <2>1. PICK j \in 1 .. i : Carries(s.blk, e, forms[j]) BY <1>3, <1>10, <1>11
  <2>2. Carries(w.blk, e, forms[j]) BY <1>10, <1>11, <1>17, <2>1
  <2> QED BY <2>2
<1>12. m1[A] = 0 /\ InTree(w.blk, m1, A) /\ w.blk[A] = s.blk[A] BY <1>3, <1>9 DEF InTree
<1>13. \A j \in 1 .. i : j \in 1 .. i + 1 OBVIOUS
<1>14. Frame(s0, w) BY <1>3, <1>6 DEF Touches, Frame
<1>15. CASE w.r = 0
  <2>1. t = w /\ w.full BY <1>4, <1>6, <1>15
  <2>2. Saved(s0, w, m1, g, A, forms, i + 1) BY <1>6, <1>11, <1>12, <1>13, <1>14, <2>1 DEF Saved
  <2> QED BY <2>1, <2>2 DEF t, f
<1>16. CASE w.r # 0
  <2>1. t = a /\ w.r = x /\ x \in Block /\ e0 = [name |-> f.name, obj |-> x] BY <1>4, <1>6, <1>16
  <2>2. e0 \in Entry /\ e0.name = f.name /\ e0.obj = x BY <1>2, <2>1 DEF Entry
  <2>3. a = add_entry(w, A, f.name, x) BY <2>1
  <2> HIDE DEF e0, a
  <2>4. \E more :
         /\ a \in Store /\ Work(a, g, more) /\ Touches(w, m1, a, more, 0)
         /\ \A c \in Block : InTree(w.blk, m1, c) => InTree(a.blk, more, c)
         /\ \A e : EntryOf(a.blk, more, e) => EntryOf(w.blk, m1, e) \/ e = e0
         /\ Sound(w.blk, A) /\ Len(w.blk[A].entries) < ABS_MAX_ENTRIES =>
              /\ a.full = w.full /\ a.refused = w.refused /\ a.r = 1
              /\ a.blk[A] = WithEntry(w.blk[A], e0)
    <3>1. /\ Work(w, g, m1) /\ A \in Block /\ m1[A] = 0 /\ f.name \in AnyName /\ x \in Block
          /\ m1[x] = x /\ ~Entered(w.blk, m1, x) /\ (g.mode = "live" => f.name \notin Names)
      BY <1>2, <1>6, <1>12, <1>16
    <3>2. LET u == add_entry(w, A, f.name, x)
              e1 == [name |-> f.name, obj |-> x]
          IN \E more :
         /\ u \in Store /\ Work(u, g, more) /\ Touches(w, m1, u, more, 0)
         /\ \A c \in Block : InTree(w.blk, m1, c) => InTree(u.blk, more, c)
         /\ \A e : EntryOf(u.blk, more, e) => EntryOf(w.blk, m1, e) \/ e = e1
         /\ Sound(w.blk, A) /\ Len(w.blk[A].entries) < ABS_MAX_ENTRIES =>
              /\ u.full = w.full /\ u.refused = w.refused /\ u.r = 1
              /\ u.blk[A] = WithEntry(w.blk[A], e1)
      BY ONLY <3>1, WorkAddEntry, SMTT(30)
    <3> QED BY ONLY <3>2, <2>1, <2>3
  <2>5. PICK more :
         /\ a \in Store /\ Work(a, g, more) /\ Touches(w, m1, a, more, 0)
         /\ \A c \in Block : InTree(w.blk, m1, c) => InTree(a.blk, more, c)
         /\ \A e : EntryOf(a.blk, more, e) => EntryOf(w.blk, m1, e) \/ e = e0
         /\ Sound(w.blk, A) /\ Len(w.blk[A].entries) < ABS_MAX_ENTRIES =>
              /\ a.full = w.full /\ a.refused = w.refused /\ a.r = 1
              /\ a.blk[A] = WithEntry(w.blk[A], e0)
    BY <2>4
  <2>6. ASSUME NEW e, EntryOf(w.blk, m1, e), NEW h, Carries(w.blk, e, h) PROVE Carries(a.blk, e, h)
    BY <1>6, <1>7, <2>5, <2>6, CarriesKept
  <2>7. Carries(a.blk, e0, f)
    <3>1. m1[x] = x /\ x # 0 /\ x \in Block BY <1>6, <1>8, <1>16
    <3>2. a.blk[x] = w.blk[x] /\ AsForm(a.blk, x) = AsForm(w.blk, x)
      BY <1>6, <2>5, <3>1, TouchesForm
    <3>3. w.blk[x].kind = "obj" /\ (f.name \in Names => AsForm(w.blk, x) = f.body)
      BY <1>2, <1>6, <1>16
    <3> QED BY <2>2, <3>2, <3>3 DEF Carries
  <2>8. ASSUME NEW e, EntryOf(a.blk, more, e)
        PROVE  \E j \in 1 .. i + 1 : Carries(a.blk, e, forms[j])
    <3>1. CASE e = e0 BY <3>1, <2>7 DEF f
    <3>2. CASE EntryOf(w.blk, m1, e)
      <4>1. PICK j \in 1 .. i : Carries(w.blk, e, forms[j]) BY <1>11, <3>2
      <4>2. Carries(a.blk, e, forms[j]) BY <2>6, <3>2, <4>1
      <4> QED BY <1>13, <4>2
    <3> QED BY <3>1, <3>2, <2>5, <2>8
  <2>9. ASSUME ~a.full, ~a.refused, i + 1 <= ABS_MAX_ENTRIES
        PROVE  /\ Sound(a.blk, A) /\ a.blk[A].next = 0 /\ Len(a.blk[A].entries) = i + 1
               /\ \A j \in 1 .. i + 1 : Carries(a.blk, a.blk[A].entries[j], forms[j])
    <3>1. ~w.full /\ ~w.refused BY <2>5, <2>9 DEF Touches, Frame
    <3>2. ~s.full /\ ~s.refused BY <3>1, <1>6, <1>16
    <3>3. i <= ABS_MAX_ENTRIES /\ i < ABS_MAX_ENTRIES BY <2>9, StoreAssumption
    <3> DEFINE u == w.blk[A]
               v == a.blk[A]
    <3>4. /\ Sound(w.blk, A) /\ u.next = 0 /\ Len(u.entries) = i
          /\ \A j \in 1 .. i : Carries(s.blk, u.entries[j], forms[j])
      BY <1>3, <1>12, <3>2, <3>3 DEF Sound
    <3>5. v = WithEntry(u, e0) BY <2>5, <3>3, <3>4
    <3>6. u \in AbsSector /\ \A j \in 1 .. Len(u.entries) : EntryOf(w.blk, m1, u.entries[j])
      BY <1>6, <1>12, EntriesOf
    <3> HIDE DEF u, v
    <3>7. /\ v.kind = "abs" /\ v.crc = u.crc /\ v.next = 0 /\ Len(v.entries) = i + 1
          /\ \A j \in 1 .. i : v.entries[j] = u.entries[j]
          /\ v.entries[i + 1] = e0
      BY <2>2, <3>4, <3>5, <3>6, WithEntryFacts
    <3>8. Sound(a.blk, A) BY <3>4, <3>7 DEF Sound, u, v
    <3>9. ASSUME NEW j \in 1 .. i + 1 PROVE Carries(a.blk, v.entries[j], forms[j])
      <4>1. CASE j = i + 1 BY <4>1, <3>7, <2>7 DEF f
      <4>2. CASE j \in 1 .. i
        <5>1. EntryOf(w.blk, m1, u.entries[j]) /\ Carries(s.blk, u.entries[j], forms[j])
          BY <4>2, <3>4, <3>6
        <5>2. EntryOf(s.blk, own, u.entries[j]) BY <5>1, <1>10
        <5>3. Carries(w.blk, u.entries[j], forms[j])
          BY <1>17, <5>1, <5>2
        <5> QED BY <5>1, <5>3, <2>6, <3>7, <4>2
      <4> QED BY <4>1, <4>2
    <3> QED BY <3>7, <3>8, <3>9 DEF v
  <2>10. Frame(s0, a) BY <1>14, <2>5 DEF Touches, Frame
  <2>11. InTree(a.blk, more, A) /\ more[A] = 0 BY <1>12, <2>5 DEF InTree
  <2>12. Saved(s0, a, more, g, A, forms, i + 1) BY <2>5, <2>8, <2>9, <2>10, <2>11 DEF Saved
  <2> QED BY <2>1, <2>12 DEF t, f
<1> QED BY <1>15, <1>16

\* The stores of a command that builds a new tree under A.
Building(g, A) == {s \in Store : \E own : Work(s, g, own) /\ own[A] = 0}

\* Saving a form leads from one of them to another.
LEMMA SaveFormTyped ==
  ASSUME NEW g, g.mode # "live", NEW A \in Block, NEW s \in Building(g, A), NEW f \in FormRec
  PROVE  SaveForm(s, A, f) \in Building(g, A)
<1> DEFINE w == form_from_fentry(s, f.body)
           a == add_entry(w, A, f.name, w.r)
<1>1. PICK own : Work(s, g, own) /\ own[A] = 0 BY DEF Building
<1>2. f.name \in AnyName /\ f.body \in Payload BY DEF FormRec, RawForm
<1>3. SaveForm(s, A, f) = IF w.r = 0 THEN w ELSE a BY DEF SaveForm, OnSuccess
<1>4. Outside # 0 BY StoreAssumption DEF Outside
<1>5. \E more, x : /\ w \in Store /\ Work(w, g, more) /\ Touches(s, own, w, more, x)
                   /\ w.r # 0 => w.r = x /\ x \in Block /\ more[x] = x /\ ~Entered(w.blk, more, x)
  BY <1>1, <1>2, WorkForm
<1> HIDE DEF w
<1>6. PICK more, x : /\ w \in Store /\ Work(w, g, more) /\ Touches(s, own, w, more, x)
                     /\ w.r # 0 => w.r = x /\ x \in Block /\ more[x] = x /\ ~Entered(w.blk, more, x)
  BY <1>5
<1>7. more[A] = 0 BY <1>1, <1>4, <1>6 DEF Touches
<1>8. CASE w.r = 0 BY <1>3, <1>6, <1>7, <1>8 DEF Building
<1>9. CASE w.r # 0
  <2>1. /\ Work(w, g, more) /\ more[A] = 0 /\ f.name \in AnyName /\ w.r \in Block
        /\ more[w.r] = w.r /\ ~Entered(w.blk, more, w.r)
        /\ (g.mode = "live" => f.name \notin Names) /\ A \in Block
    BY <1>2, <1>6, <1>7, <1>9
  <2>2. \E most : a \in Store /\ Work(a, g, most) /\ Touches(w, more, a, most, 0)
    <3>1. LET u == add_entry(w, A, f.name, w.r)
          IN \E most : u \in Store /\ Work(u, g, most) /\ Touches(w, more, u, most, 0)
      BY ONLY <2>1, WorkAddEntry
    <3> QED BY <3>1
  <2> HIDE DEF a
  <2>3. a \in Building(g, A) BY <2>2, <1>4, <1>7 DEF Building, Touches
  <2> QED BY <1>3, <1>9, <2>3
<1> QED BY <1>8, <1>9

\* SaveForms saves one form after the other.
LEMMA SaveFormsUnfold ==
  ASSUME NEW g, g.mode # "live", NEW A \in Block, NEW s \in Building(g, A),
         NEW forms \in Seq(FormRec)
  PROVE  \E k : /\ k[0] = s /\ SaveForms(s, A, forms) = k[Len(forms)]
                /\ \A n \in 1 .. Len(forms) : k[n] = SaveForm(k[n - 1], A, forms[n])
<1> DEFINE S == Building(g, A)
           m == Len(forms)
           F == [x \in S \X (1 .. m) |-> SaveForm(x[1], A, forms[x[2]])]
           Rec(k) == [i \in 0 .. Len(forms) |-> IF i = 0 THEN s ELSE SaveForm(k[i - 1], A, forms[i])]
<1>1. m \in Nat /\ \A n \in 1 .. m : forms[n] \in FormRec OBVIOUS
<1> HIDE DEF m
<1>2. ASSUME NEW x \in S \X (1 .. m) PROVE F[x] \in S
  <2>1. x[1] \in Building(g, A) /\ forms[x[2]] \in FormRec BY <1>1
  <2>2. SaveForm(x[1], A, forms[x[2]]) \in Building(g, A) BY <2>1, SaveFormTyped
  <2> QED BY <2>2
<1>3. StepOn(F, S, m) BY <1>2 DEF StepOn
<1>4. ASSUME NEW y \in S, NEW n \in 1 .. m PROVE F[<<y, n>>] = SaveForm(y, A, forms[n])
  OBVIOUS
<1> HIDE DEF F
<1>5. PICK f : Iterates(f, S, s, F, m)
  <2>1. s \in S OBVIOUS
  <2> HIDE DEF S
  <2> QED BY <1>1, <1>3, <2>1, RecursionExists
<1>6. ASSUME NEW n \in 1 .. m PROVE f[n] = SaveForm(f[n - 1], A, forms[n])
  <2>1. f[n - 1] \in S /\ f[n] = F[<<f[n - 1], n>>] BY <1>1, <1>5 DEF Iterates
  <2> QED BY <1>4, <2>1
<1>7. f = Rec(f)
  <2>1. f \in [0 .. m -> S] /\ f[0] = s BY <1>5 DEF Iterates
  <2> HIDE DEF S
  <2> QED BY <1>1, <1>6, <2>1 DEF m
<1> DEFINE after == CHOOSE after : after = Rec(after)
<1>8. after = Rec(after)
  <2> HIDE DEF Rec
  <2> QED BY <1>7, Zenon
<1>9. SaveForms(s, A, forms) = after[Len(forms)] BY DEF SaveForms
<1> HIDE DEF after
<1>10. after[0] = s /\ \A n \in 1 .. m : after[n] = SaveForm(after[n - 1], A, forms[n])
  BY <1>1, <1>8 DEF m
<1> QED BY <1>9, <1>10 DEF m

\* All forms.
LEMMA WorkSaveForms ==
  ASSUME NEW s, NEW own, NEW g, g.mode # "live", NEW A \in Block,
         NEW forms \in Seq(FormRec), Saved(s, s, own, g, A, forms, 0)
  PROVE  \E more : Saved(s, SaveForms(s, A, forms), more, g, A, forms, Len(forms))
<1>1. s \in Building(g, A) BY DEF Saved, Building
<1>2. PICK k : /\ k[0] = s /\ SaveForms(s, A, forms) = k[Len(forms)]
               /\ \A n \in 1 .. Len(forms) : k[n] = SaveForm(k[n - 1], A, forms[n])
  BY <1>1, SaveFormsUnfold
<1> DEFINE T == {n \in Nat : n <= Len(forms) => \E more : Saved(s, k[n], more, g, A, forms, n)}
<1>3. Len(forms) \in Nat OBVIOUS
<1>4. 0 \in T BY <1>2
<1>5. ASSUME NEW n \in Nat, n \in T PROVE n + 1 \in T
  <2> SUFFICES ASSUME n + 1 <= Len(forms)
               PROVE  \E more : Saved(s, k[n + 1], more, g, A, forms, n + 1)
    OBVIOUS
  <2>1. PICK m1 : Saved(s, k[n], m1, g, A, forms, n) BY <1>3, <1>5
  <2>2. n + 1 \in 1 .. Len(forms) /\ (n + 1) - 1 = n BY <1>3
  <2>3. k[n + 1] = SaveForm(k[n], A, forms[n + 1]) BY <1>2, <2>2
  <2>4. \E more : Saved(s, SaveForm(k[n], A, forms[n + 1]), more, g, A, forms, n + 1)
    BY <2>1, <2>2, SavedStep
  <2> QED BY <2>3, <2>4
<1>6. \A n \in Nat : n \in T
  <2> HIDE DEF T
  <2> QED BY <1>4, <1>5, AllNumbers
<1> QED BY <1>2, <1>3, <1>6

-----------------------------------------------------------------------------
(***************************************************************************)
(* hexafs_snap_create and hexafs_tx_commit.                                *)
(***************************************************************************)

\* Between two commands: the disk d that the writes of s lead to is the one
\* the running store knows, h are its snapshots and own is the tree of its root.
Settled(s, d0, E, d, h, own) ==
  /\ s \in Store /\ s.tx.active = FALSE
  /\ Trail(d0, s.log, d, E) /\ Shape(d, h, own) /\ Shows(d) \in E
  /\ d.blk = s.blk /\ d.sb = s.root /\ d.bmp \subseteq s.bmp /\ (~s.bd => d.bmp = s.bmp)
  /\ \A b \in Block : own[b] # Outside => b \in s.bmp

\* hexafs_tx_begin starts a transaction with no root of its own.
BeginFields(s, t) ==
  /\ t \in Store /\ t.tx.active
  /\ t.blk = s.blk /\ t.bmp = s.bmp /\ t.bd = s.bd /\ t.root = s.root /\ t.log = s.log
  /\ t.r = s.r /\ t.full = s.full /\ t.refused = s.refused

\* The transaction flags.
LEMMA TxFlags ==
  \A x, y \in Flag, n \in 0 .. NBLOCKS : [active |-> x, dirty |-> y, newRoot |-> n] \in Tx
BY DEF Tx

\* hexafs_tx_begin.
LEMMA TxBegin ==
  ASSUME NEW s \in Store
  PROVE  BeginFields(s, tx_begin(s)) /\ (s.tx.active = FALSE => tx_begin(s).tx.newRoot = 0)
<1> DEFINE x == TRUE
           y == FALSE
           n == [active |-> x, dirty |-> y, newRoot |-> 0]
           t == [s EXCEPT !.tx = n]
<1>1. x \in Flag /\ y \in Flag BY Flags, Zenon
<1>2. x BY Zenon
<1>3. y = FALSE OBVIOUS
<1> HIDE DEF x, y
<1>4. 0 \in 0 .. NBLOCKS BY StoreAssumption
<1>5. n \in Tx /\ n.active = x /\ n.newRoot = 0 BY <1>1, <1>4, TxFlags
<1> HIDE DEF n
<1>6. /\ t \in Store /\ t.tx = n
      /\ t.blk = s.blk /\ t.bmp = s.bmp /\ t.bd = s.bd /\ t.root = s.root /\ t.log = s.log
      /\ t.r = s.r /\ t.full = s.full /\ t.refused = s.refused
  BY <1>5 DEF Store
<1>7. t.tx.active /\ t.tx.newRoot = 0 BY <1>2, <1>5, <1>6
<1>8. tx_begin(s) = IF s.tx.active THEN s ELSE t BY DEF tx_begin, t, n, x, y
<1> HIDE DEF t
<1>9. CASE s.tx.active BY <1>8, <1>9 DEF BeginFields
<1>10. CASE ~s.tx.active BY <1>6, <1>7, <1>8, <1>10 DEF BeginFields
<1> QED BY <1>9, <1>10

\* The end of a transaction, without a write.
LEMMA TxEnd ==
  ASSUME NEW s \in Store
  PROVE  LET t == [s EXCEPT !.tx.active = FALSE] IN
         /\ t \in Store /\ t.tx.active = FALSE
         /\ t.blk = s.blk /\ t.bmp = s.bmp /\ t.bd = s.bd /\ t.root = s.root /\ t.log = s.log
         /\ t.r = s.r /\ t.full = s.full /\ t.refused = s.refused
<1> DEFINE x == FALSE
           n == [s.tx EXCEPT !.active = x]
           t == [s EXCEPT !.tx = n]
<1>1. x \in Flag /\ s.tx \in Tx BY Flags, StoreFields, Zenon
<1>2. x = FALSE OBVIOUS
<1>3. [s EXCEPT !.tx.active = FALSE] = t OBVIOUS
<1> HIDE DEF x
<1>4. n \in Tx /\ n.active = x BY <1>1 DEF Tx
<1> HIDE DEF n
<1>5. /\ t \in Store /\ t.tx = n
      /\ t.blk = s.blk /\ t.bmp = s.bmp /\ t.bd = s.bd /\ t.root = s.root /\ t.log = s.log
      /\ t.r = s.r /\ t.full = s.full /\ t.refused = s.refused
  BY <1>4 DEF Store
<1> QED BY <1>2, <1>3, <1>4, <1>5

\* A transaction that has a new root.
LEMMA TxRoot ==
  ASSUME NEW s \in Store, s.tx.active, NEW A \in 0 .. NBLOCKS
  PROVE  LET t == [s EXCEPT !.tx.newRoot = A, !.tx.dirty = TRUE] IN
         /\ t \in Store /\ t.tx.active /\ t.tx.dirty /\ t.tx.newRoot = A
         /\ t.blk = s.blk /\ t.bmp = s.bmp /\ t.bd = s.bd /\ t.root = s.root /\ t.log = s.log
         /\ t.r = s.r /\ t.full = s.full /\ t.refused = s.refused
<1> DEFINE x == TRUE
           n == [s.tx EXCEPT !.newRoot = A, !.dirty = x]
           t == [s EXCEPT !.tx = n]
<1>1. x \in Flag /\ s.tx \in Tx BY Flags, StoreFields, Zenon
<1>2. x BY Zenon
<1>3. [s EXCEPT !.tx.newRoot = A, !.tx.dirty = TRUE] = t BY <1>1 DEF Store
<1> HIDE DEF x
<1>4. n \in Tx /\ n.active = s.tx.active /\ n.dirty = x /\ n.newRoot = A BY <1>1 DEF Tx
<1> HIDE DEF n
<1>5. /\ t \in Store /\ t.tx = n
      /\ t.blk = s.blk /\ t.bmp = s.bmp /\ t.bd = s.bd /\ t.root = s.root /\ t.log = s.log
      /\ t.r = s.r /\ t.full = s.full /\ t.refused = s.refused
  BY <1>4 DEF Store
<1>6. t.tx.active /\ t.tx.dirty /\ t.tx.newRoot = A BY <1>2, <1>4, <1>5
<1> QED BY <1>3, <1>5, <1>6

\* hexafs_tx_commit: the bitmap if it changed, then the superblock.
LEMMA CommitFields ==
  ASSUME NEW s \in Store, s.tx.active, s.tx.dirty
  PROVE  LET t == tx_commit(s)
             bits == [to |-> "bmp", v |-> s.bmp]
             super == [to |-> "sb", v |-> s.root]
         IN /\ t \in Store /\ t.tx.active = FALSE /\ ~t.bd
            /\ t.blk = s.blk /\ t.bmp = s.bmp /\ t.root = s.root
            /\ s.bd => t.log = Append(Append(s.log, bits), super)
            /\ ~s.bd => t.log = Append(s.log, super)
            /\ t.full = s.full /\ t.refused = s.refused
<1> DEFINE b == save_bitmap(s)
           w == write_superblock(b)
           t == [w EXCEPT !.tx.active = FALSE]
<1>1. tx_commit(s) = t BY DEF tx_commit
<1>2. /\ b \in Store /\ Frame(s, b) /\ ~b.bd /\ b.bmp = s.bmp /\ b.blk = s.blk
      /\ s.bd => b.log = Append(s.log, [to |-> "bmp", v |-> s.bmp])
      /\ ~s.bd => b.log = s.log
      /\ b.full = s.full /\ b.refused = s.refused
  BY SaveBitmapFields
<1> HIDE DEF b
<1>3. /\ w \in Store /\ Frame(b, w) /\ w.bd = b.bd /\ w.bmp = b.bmp /\ w.blk = b.blk
      /\ w.log = Append(b.log, [to |-> "sb", v |-> b.root])
      /\ w.full = b.full /\ w.refused = b.refused
  BY <1>2, WriteSuperFields
<1> HIDE DEF w
<1>4. /\ t \in Store /\ t.tx.active = FALSE
      /\ t.blk = w.blk /\ t.bmp = w.bmp /\ t.bd = w.bd /\ t.root = w.root /\ t.log = w.log
      /\ t.full = w.full /\ t.refused = w.refused
  BY <1>3, TxEnd
<1>5. b.root = s.root /\ w.root = s.root BY <1>2, <1>3 DEF Frame
<1> HIDE DEF t
<1> QED BY <1>1, <1>2, <1>3, <1>4, <1>5

\* A store about to commit, whose writes have led to disk d; own2 is to be the
\* tree of its root.
Ready(s, d0, E, d, h, own, own2) ==
  /\ s \in Store /\ s.tx.active /\ s.tx.dirty
  /\ Trail(d0, s.log, d, E) /\ Shape(d, h, own) /\ Shows(d) \in E
  /\ d.blk = s.blk /\ d.sb # NoSuper /\ d.bmp \subseteq s.bmp /\ (~s.bd => d.bmp = s.bmp)
  /\ \A b \in Block : own2[b] # Outside => b \in s.bmp

\* Once the bitmap of s is out, its superblock makes own2 the tree of the root,
\* h2 the snapshots and q what a boot finds.
Commits(s, sb, h, own, h2, own2, q) ==
  \A e : Shape(e, h, own) /\ e.bmp = s.bmp /\ e.blk = s.blk /\ e.sb = sb =>
    LET f == Written(e, [to |-> "sb", v |-> s.root]) IN Shape(f, h2, own2) /\ Shows(f) = q

\* It has been committed.
Committed(s, t, d0, E, h2, own2, q) ==
  /\ t.full = s.full /\ t.refused = s.refused
  /\ \E f : Settled(t, d0, E, f, h2, own2) /\ Shows(f) = q

\* The commit on disk: q is what a boot finds once the superblock is out.
LEMMA CommitSettles ==
  ASSUME NEW s, NEW d0, NEW E, NEW d, NEW h, NEW own, NEW h2, NEW own2, NEW q \in E,
         Ready(s, d0, E, d, h, own, own2), Commits(s, d.sb, h, own, h2, own2, q)
  PROVE  Committed(s, tx_commit(s), d0, E, h2, own2, q)
<1> DEFINE t == tx_commit(s)
           bits == [to |-> "bmp", v |-> s.bmp]
           super == [to |-> "sb", v |-> s.root]
           e == IF s.bd THEN Written(d, bits) ELSE d
           log1 == IF s.bd THEN Append(s.log, bits) ELSE s.log
           f == Written(e, super)
<1>0. /\ s \in Store /\ s.tx.active /\ s.tx.dirty
      /\ Trail(d0, s.log, d, E) /\ Shape(d, h, own) /\ Shows(d) \in E
      /\ d.blk = s.blk /\ d.sb # NoSuper /\ d.bmp \subseteq s.bmp /\ (~s.bd => d.bmp = s.bmp)
      /\ \A b \in Block : own2[b] # Outside => b \in s.bmp
  BY DEF Ready
<1>1. /\ t \in Store /\ t.tx.active = FALSE /\ ~t.bd
      /\ t.blk = s.blk /\ t.bmp = s.bmp /\ t.root = s.root
      /\ s.bd => t.log = Append(Append(s.log, bits), super)
      /\ ~s.bd => t.log = Append(s.log, super)
      /\ t.full = s.full /\ t.refused = s.refused
  BY <1>0, CommitFields
<1>2. s.bmp \subseteq Block /\ s.root \in 0 .. NBLOCKS /\ s.log \in Seq(Write) BY <1>0, StoreFields
<1>3. bits \in Write /\ super \in Write BY <1>2, Writes
<1>4. d \in Disk BY <1>0 DEF Shape
<1>5. /\ Shape(e, h, own) /\ Shows(e) = Shows(d) /\ e.bmp = s.bmp /\ e.blk = s.blk /\ e.sb = d.sb
      /\ log1 \in Seq(Write) /\ Trail(d0, log1, e, E)
  <2>1. CASE s.bd
    <3> DEFINE e1 == Written(d, bits)
    <3>1. Shape(e1, h, own) /\ Shows(e1) = Shows(d) BY <1>0, <1>2, ShapeBitmap
    <3>2. e1.sb = d.sb /\ e1.bmp = s.bmp /\ e1.blk = d.blk BY <1>0, <1>2, <1>4, DiskBitmap
    <3>3. Safe(e1, E) BY <1>0, <3>1 DEF Safe
    <3>4. Trail(d0, Append(s.log, bits), e1, E) BY <1>0, <1>2, <1>3, <3>3, TrailAppend
    <3>5. Append(s.log, bits) \in Seq(Write) BY <1>2, <1>3
    <3>6. e = e1 /\ log1 = Append(s.log, bits) BY <2>1
    <3> HIDE DEF e, e1, bits
    <3> QED BY <1>0, <3>1, <3>2, <3>4, <3>5, <3>6
  <2>2. CASE ~s.bd BY <2>2, <1>0, <1>2
  <2> QED BY <2>1, <2>2
<1>6. t.log = Append(log1, super) BY <1>1
<1> HIDE DEF e, log1, t
<1>7. Shape(f, h2, own2) /\ Shows(f) = q BY <1>5 DEF Commits
<1>8. f.sb = s.root /\ f.bmp = s.bmp /\ f.blk = s.blk
  <2>1. e \in Disk BY <1>5 DEF Shape
  <2> QED BY <2>1, <1>2, <1>5, DiskSuper
<1> HIDE DEF f
<1>9. Safe(f, E) BY <1>7 DEF Safe
<1>10. Trail(d0, t.log, f, E) BY <1>3, <1>5, <1>6, <1>9, TrailAppend DEF f
<1>11. Settled(t, d0, E, f, h2, own2) BY <1>0, <1>1, <1>7, <1>8, <1>10 DEF Settled
<1> QED BY <1>1, <1>7, <1>11 DEF t, Committed

\* What a boot would load from an abstraction of the tree is kept by a step
\* that touches other owners.
LEMMA LoadSame ==
  ASSUME NEW s, NEW g, NEW own, Work(s, g, own), NEW t, t.blk \in Blocks, NEW more, NEW x,
         Touches(s, own, t, more, x), x \notin Block \/ own[x] = Outside, x # 0,
         NEW A \in Block, InTree(s.blk, own, A)
  PROVE  load_all(t.blk, A) = load_all(s.blk, A)
<1>1. s.blk \in Blocks /\ own \in Labels /\ Tree(s.blk, own) BY StoreFields DEF Work
<1>2. Outside # 0 BY StoreAssumption DEF Outside
<1>3. t.blk[A] = s.blk[A] /\ s.blk[A].kind = "abs" /\ t.blk[A].kind = "abs"
  BY <1>2 DEF InTree, Touches
<1> DEFINE p == load_all(s.blk, A)
           q == load_all(t.blk, A)
           es == s.blk[A].entries
<1>4. /\ p \in Seq(RawForm) /\ Len(p) \in Nat /\ Len(es) \in Nat
      /\ Len(p) <= Len(es) /\ Len(p) <= MAX_FORMS /\ (Len(p) = Len(es) \/ Len(p) = MAX_FORMS)
      /\ \A i \in 1 .. Len(p) : p[i] = [name |-> es[i].name, body |-> AsForm(s.blk, es[i].obj)]
  BY <1>1, <1>3, LoadAllValue
<1>5. /\ q \in Seq(RawForm) /\ Len(q) \in Nat
      /\ Len(q) <= Len(es) /\ Len(q) <= MAX_FORMS /\ (Len(q) = Len(es) \/ Len(q) = MAX_FORMS)
      /\ \A i \in 1 .. Len(q) : q[i] = [name |-> es[i].name, body |-> AsForm(t.blk, es[i].obj)]
  BY <1>3, LoadAllValue
<1>6. es \in Seq(Entry) /\ \A j \in 1 .. Len(es) : EntryOf(s.blk, own, es[j]) BY EntriesOf
<1> HIDE DEF p, q, es
<1>7. Len(p) = Len(q) BY <1>4, <1>5, FSAssumption
<1>8. ASSUME NEW i \in 1 .. Len(p) PROVE p[i] = q[i]
  <2>1. i \in 1 .. Len(es) BY <1>4
  <2>2. Entered(s.blk, own, es[i].obj) BY <2>1, <1>6, EnteredEntry
  <2>3. es[i].obj \in Block /\ own[es[i].obj] = es[i].obj /\ own[es[i].obj] # Outside
    BY <1>1, <2>2, FormsEntered
  <2>4. es[i].obj # x BY <2>3
  <2>5. AsForm(t.blk, es[i].obj) = AsForm(s.blk, es[i].obj) BY <2>3, <2>4, TouchesForm
  <2> QED BY <1>4, <1>5, <1>7, <2>5
<1>9. p = q BY <1>4, <1>5, <1>7, <1>8
<1> QED BY <1>9 DEF p, q

\* A command publishes A as its new root: a boot then finds what A holds, or
\* what the old root holds if there was no room for the snapshot.
LEMMA WorkPublish ==
  ASSUME NEW s, NEW g, NEW own, Work(s, g, own), s.tx.active,
         NEW A \in 0 .. NBLOCKS, A # 0 => InTree(s.blk, own, A),
         \A o \in Block : IsForm(s.blk, own, o) =>
           s.blk[o].kind = "obj" /\ AsForm(s.blk, o).k = "form",
         Ordinary(load_all(s.blk, A)) \in g.E
  PROVE  LET t == publish(s, A) IN
         /\ t.refused = s.refused /\ (s.full => t.full)
         /\ \E f, h2, own2 : /\ Settled(t, g.d0, g.E, f, h2, own2)
                             /\ ~t.full => Shows(f) = Ordinary(load_all(s.blk, A))
<1> DEFINE s1 == [s EXCEPT !.tx.newRoot = A, !.tx.dirty = TRUE]
           a == alloc_block(s1)
           b == a.r
           v == Snap(a.root, A)
           w == block_write(a, b, v)
           c == [w EXCEPT !.root = b]
           t == publish(s, A)
           q == Ordinary(load_all(s.blk, A))
<1>1. s \in Store BY DEF Work
<1>2. /\ s1 \in Store /\ s1.tx.active /\ s1.tx.dirty /\ s1.tx.newRoot = A
      /\ s1.blk = s.blk /\ s1.bmp = s.bmp /\ s1.bd = s.bd /\ s1.root = s.root /\ s1.log = s.log
      /\ s1.r = s.r /\ s1.full = s.full /\ s1.refused = s.refused
  BY <1>1, TxRoot
<1> HIDE DEF s1
<1>3. Work(s1, g, own) BY <1>2, WorkFields
<1>4. /\ a \in Store /\ Frame(s1, a) /\ a.cb = s1.cb /\ a.refused = s1.refused
      /\ Work(a, g, own)
      /\ \A k \in Block : k \in s1.bmp => a.blk[k] = s1.blk[k]
      /\ b = 0 => a.full /\ a.blk = s1.blk
      /\ b # 0 => /\ b \in Block /\ b \notin s1.bmp /\ b \in a.bmp /\ b \notin g.bmp
                  /\ own[b] = Outside /\ Base(g, own)[b] = Outside
                  /\ a.blk[b] = Zero /\ a.full = s1.full /\ a.bmp = s1.bmp \cup {b} /\ a.bd
                  /\ \A k \in Block : k # b => a.blk[k] = s1.blk[k]
                  /\ \A x \in 0 .. NBLOCKS : Work(a, g, [own EXCEPT ![b] = x])
  BY ONLY <1>3, WorkAlloc
<1> HIDE DEF a
<1>5. a.root = s.root /\ a.tx.active /\ a.tx.dirty /\ a.root = g.sb /\ g.sb \in 0 .. NBLOCKS
  BY <1>2, <1>4, <1>1, StoreFields DEF Frame, Work
<1>6. t = tx_commit(IF b = 0 THEN a ELSE c)
  <2>1. a.root = s1.root BY <1>4 DEF Frame
  <2>2. t = tx_commit(snap_create(s1)) BY DEF publish, s1
  <2>3. snap_create(s1) = IF b = 0 THEN a ELSE [block_write(a, b, Snap(s1.root, A)) EXCEPT !.root = b]
    BY <1>2 DEF snap_create, OnSuccess, a
  <2> QED BY <2>1, <2>2, <2>3
<1>7. Outside # 0 /\ Outside \notin Block BY StoreAssumption DEF Outside, Block
<1> HIDE DEF t, b
<1>8. CASE b = 0
  <2> DEFINE d == DiskNow(a, g)
             old == Base(g, own)
             sup == [to |-> "sb", v |-> a.root]
             now == Shows(d)
  <2>1. /\ Trail(g.d0, a.log, d, g.E) /\ Shape(d, g.h, old) /\ Shows(d) \in g.E
        /\ d.blk = a.blk /\ d.sb = g.sb /\ d.bmp = g.bmp /\ g.sb # NoSuper
        /\ g.bmp \subseteq a.bmp /\ (~a.bd => g.bmp = a.bmp)
        /\ \A k \in Block : old[k] # Outside => k \in a.bmp
    BY <1>4 DEF Work, DiskNow
  <2>2. ASSUME NEW e, Shape(e, g.h, old), e.bmp = a.bmp, e.blk = a.blk, e.sb = d.sb
        PROVE  Shape(Written(e, sup), g.h, old) /\ Shows(Written(e, sup)) = now
    <3>1. e \in Disk /\ a.root = e.sb BY <2>1, <2>2, <1>5 DEF Shape
    <3>2. Written(e, sup) = e BY <3>1, SuperAgain
    <3>3. Shows(e) = now BY <2>1, <2>2 DEF Shows
    <3> QED BY <2>2, <3>2, <3>3
  <2> HIDE DEF d, old, now, sup
  <2>3. Commits(a, d.sb, g.h, old, g.h, old, now) BY <2>2 DEF sup, Commits
  <2>4. now \in g.E BY <2>1 DEF now
  <2>5. Committed(a, tx_commit(a), g.d0, g.E, g.h, old, now)
    <3>1. Ready(a, g.d0, g.E, d, g.h, old, old) BY <1>4, <1>5, <2>1 DEF Ready
    <3> QED BY ONLY <2>3, <2>4, <3>1, CommitSettles
  <2>6. t = tx_commit(a) BY <1>6, <1>8
  <2> QED BY <1>2, <1>4, <1>8, <2>5, <2>6 DEF t, Frame, Committed
<1>9. CASE b # 0
  <2>1. b \in Block /\ b \in 0 .. NBLOCKS BY <1>4, <1>9 DEF Block
  <2>2. /\ v \in Sector /\ v = Snap(g.sb, A) BY <1>5, SnapMade
  <2> HIDE DEF v
  <2>3. Work(w, g, own) BY <1>4, <1>9, <2>1, <2>2, WorkFree
  <2>4. /\ w \in Store /\ Frame(a, w) /\ w.blk = [a.blk EXCEPT ![b] = v]
        /\ w.log = Append(a.log, [to |-> "blk", b |-> b, v |-> v])
        /\ w.bmp = a.bmp /\ w.bd = a.bd /\ w.full = a.full /\ w.refused = a.refused
    BY <1>4, <2>1, <2>2, BlockWriteFields
  <2> HIDE DEF w
  <2>5. /\ c \in Store /\ c.root = b /\ c.tx = w.tx /\ c.blk = w.blk /\ c.log = w.log
        /\ c.bmp = w.bmp /\ c.bd = w.bd /\ c.full = w.full /\ c.refused = w.refused
    BY <2>1, <2>4 DEF Store
  <2> HIDE DEF c
  <2>6. w.blk[b] = v /\ \A k \in Block : k # b => w.blk[k] = s.blk[k]
    <3>1. a.blk \in Blocks BY <1>4, StoreFields
    <3> QED BY <1>2, <1>4, <1>9, <2>1, <2>4, <3>1 DEF Blocks
  <2>7. Touches(s1, own, w, own, Outside)
    <3>1. \A k \in Block : own[k] # Outside => k # b BY <1>4, <1>9
    <3>2. Frame(s1, w) BY <1>4, <2>4 DEF Frame
    <3> QED BY <1>2, <2>6, <3>1, <3>2 DEF Touches
  <2>8. w.blk \in Blocks /\ own \in Labels /\ Tree(w.blk, own) BY <2>3, StoreFields DEF Work
  <2>9. /\ \A k \in Block : InTree(w.blk, own, k) <=> InTree(s.blk, own, k)
        /\ \A o : IsForm(w.blk, own, o) <=> IsForm(s.blk, own, o)
    BY <1>2, <2>7, TouchesEntries
  <2>10. FormsOk(w.blk, own, w.bmp)
    <3> SUFFICES ASSUME NEW o \in Block, IsForm(w.blk, own, o) PROVE FormOk(w.blk, w.bmp, o)
      BY DEF FormsOk
    <3>1. own[o] = o /\ own[o] # Outside BY <2>8, FormsEntered
    <3>2. s.blk[o].kind = "obj" /\ AsForm(s.blk, o).k = "form" BY <2>9
    <3>3. w.blk[o] = s1.blk[o] /\ AsForm(w.blk, o) = AsForm(s1.blk, o)
      BY <1>3, <1>7, <2>7, <3>1, TouchesForm
    <3>4. w.blk[o].kind = "obj" /\ AsForm(w.blk, o).k = "form" BY <1>2, <3>2, <3>3
    <3>5. \A k \in Block : own[k] # Outside => k \in w.bmp BY <2>3 DEF Work
    <3>6. w.blk[o] \in Sector /\ ObjOk(w.blk, own, o) BY <2>8, <3>1, <3>4 DEF Tree, Blocks
    <3>7. w.blk[o].cb \in Seq(Block) BY <3>4, <3>6, ObjFacts
    <3>8. ASSUME NEW i \in DOMAIN w.blk[o].cb PROVE w.blk[o].cb[i] \in w.bmp
      <4>1. w.blk[o].cb[i] \in Block BY <3>7
      <4>2. own[w.blk[o].cb[i]] = o BY <3>6 DEF ObjOk
      <4> QED BY <3>1, <3>5, <4>1, <4>2
    <3> QED BY <3>1, <3>4, <3>5, <3>8 DEF FormOk
  <2>11. RootOk(w.blk, own, w.bmp, A)
    <3> SUFFICES ASSUME A # 0 PROVE A \in w.bmp /\ InTree(w.blk, own, A) BY DEF RootOk
    <3>1. A \in Block BY StoreAssumption DEF Block
    <3>2. InTree(w.blk, own, A) BY <2>9, <3>1
    <3> QED BY <1>7, <2>3, <3>1, <3>2 DEF InTree, Work
  <2>12. load_all(w.blk, A) = load_all(s.blk, A)
    <3>1. CASE A = 0 BY <3>1 DEF load_all
    <3>2. CASE A # 0
      <4>1. A \in Block BY <3>2, StoreAssumption DEF Block
      <4>2. Outside \notin Block /\ Outside # 0 /\ InTree(s1.blk, own, A) BY <1>2, <1>7, <3>2
      <4>3. load_all(w.blk, A) = load_all(s1.blk, A)
        BY ONLY <1>3, <2>7, <2>8, <4>1, <4>2, LoadSame
      <4> QED BY <1>2, <4>3
    <3> QED BY <3>1, <3>2
  <2> DEFINE d == DiskNow(w, g)
             old == Base(g, own)
             sup == [to |-> "sb", v |-> b]
             h2 == Append(g.h, b)
  <2>13. /\ Trail(g.d0, w.log, d, g.E) /\ Shape(d, g.h, old) /\ Shows(d) \in g.E
         /\ d.blk = w.blk /\ d.sb = g.sb /\ d.bmp = g.bmp /\ g.sb # NoSuper
         /\ g.bmp \subseteq w.bmp /\ (~w.bd => g.bmp = w.bmp)
         /\ \A k \in Block : own[k] # Outside => k \in w.bmp
         /\ \A i \in DOMAIN g.h : own[g.h[i]] = Outside
    BY <2>3 DEF Work, DiskNow
  <2>14. \A i \in DOMAIN g.h : g.h[i] # b BY <1>4, <1>9, <2>13 DEF Shape
  <2> HIDE DEF d, old
  <2>15. ASSUME NEW e, Shape(e, g.h, old), e.bmp = w.bmp, e.blk = w.blk, e.sb = d.sb
         PROVE  LET f == Written(e, sup)
                IN  Shape(f, h2, own) /\ Shows(f) = Ordinary(load_all(e.blk, A))
    <3>1. /\ e.sb # NoSuper /\ b \in Block /\ b \in e.bmp /\ (\A i \in DOMAIN g.h : g.h[i] # b)
          /\ e.blk[b] = Snap(e.sb, A)
      BY <1>4, <1>9, <2>1, <2>2, <2>4, <2>6, <2>13, <2>14, <2>15
    <3>2. /\ own \in Labels /\ Tree(e.blk, own) /\ FormsOk(e.blk, own, e.bmp)
          /\ RootOk(e.blk, own, e.bmp, A)
      BY <2>8, <2>10, <2>11, <2>15
    <3>3. own[b] = Outside /\ \A i \in DOMAIN g.h : own[g.h[i]] = Outside BY <1>4, <1>9, <2>13
    <3> QED BY ONLY <2>15, <3>1, <3>2, <3>3, A \in 0 .. NBLOCKS, ShapeNewRoot
  <2>16. Commits(c, d.sb, g.h, old, h2, own, q) BY <2>4, <2>5, <2>12, <2>15 DEF Commits
  <2> HIDE DEF sup, h2, q
  <2>17. Committed(c, tx_commit(c), g.d0, g.E, h2, own, q)
    <3>1. Ready(c, g.d0, g.E, d, g.h, old, own)
      BY <1>5, <2>4, <2>5, <2>13 DEF Frame, Ready
    <3>2. q \in g.E BY DEF q
    <3> QED BY ONLY <2>16, <3>1, <3>2, CommitSettles
  <2>18. t = tx_commit(c) BY <1>6, <1>9
  <2> QED BY <1>2, <1>4, <1>9, <2>4, <2>5, <2>17, <2>18 DEF t, q, Frame, Committed
<1> QED BY <1>8, <1>9

-----------------------------------------------------------------------------
(***************************************************************************)
(* Commands, from one settled store to the next.                           *)
(***************************************************************************)
Ghost(d0, E, d, h, mode, old) ==
  [d0 |-> d0, E |-> E, sb |-> d.sb, root |-> RootObject(d.blk, d.sb), bmp |-> d.bmp,
   h |-> h, mode |-> mode, old |-> old, shows |-> Shows(d)]

\* A command begins, on the live tree or with an empty new one.
LEMMA BeginWork ==
  ASSUME NEW s, NEW d0, NEW E, NEW d, NEW h, NEW own, Settled(s, d0, E, d, h, own),
         NEW t, BeginFields(s, t)
  PROVE  /\ Work(t, Ghost(d0, E, d, h, "live", own), own)
         /\ Work(t, Ghost(d0, E, d, h, "new", own), NoTree)
<1>1. /\ s \in Store /\ Trail(d0, s.log, d, E) /\ Shape(d, h, own) /\ Shows(d) \in E
      /\ d.blk = s.blk /\ d.sb = s.root /\ d.bmp \subseteq s.bmp /\ (~s.bd => d.bmp = s.bmp)
      /\ \A b \in Block : own[b] # Outside => b \in s.bmp
  BY DEF Settled
<1>2. /\ t \in Store /\ t.blk = s.blk /\ t.bmp = s.bmp /\ t.bd = s.bd /\ t.root = s.root
      /\ t.log = s.log
  BY DEF BeginFields
<1>3. d \in Disk /\ own \in Labels /\ Tree(d.blk, own) /\ h \in Seq(Block)
      /\ \A i \in DOMAIN h : own[h[i]] = Outside
  BY <1>1 DEF Shape
<1>4. d.sb # NoSuper
  <2>1. s.root \in 0 .. NBLOCKS BY <1>1, StoreFields
  <2> QED BY <1>1, <2>1, StoreAssumption DEF NoSuper
<1>5. d = [sb |-> d.sb, bmp |-> d.bmp, blk |-> d.blk] BY <1>3 DEF Disk
<1>6. Work(t, Ghost(d0, E, d, h, "live", own), own)
  <2> DEFINE g == Ghost(d0, E, d, h, "live", own)
  <2>1. /\ g.d0 = d0 /\ g.E = E /\ g.sb = d.sb /\ g.root = RootObject(d.blk, d.sb)
        /\ g.bmp = d.bmp /\ g.h = h /\ g.mode = "live" /\ g.shows = Shows(d)
    BY DEF Ghost
  <2> HIDE DEF g
  <2>2. DiskNow(t, g) = d BY <1>1, <1>2, <1>5, <2>1 DEF DiskNow
  <2>3. Base(g, own) = own BY <2>1 DEF Base
  <2>4. Work(t, g, own) BY <1>1, <1>2, <1>3, <1>4, <2>1, <2>2, <2>3 DEF Work
  <2> QED BY <2>4 DEF g
<1>7. Work(t, Ghost(d0, E, d, h, "new", own), NoTree)
  <2> DEFINE g == Ghost(d0, E, d, h, "new", own)
  <2>1. /\ g.d0 = d0 /\ g.E = E /\ g.sb = d.sb /\ g.root = RootObject(d.blk, d.sb)
        /\ g.bmp = d.bmp /\ g.h = h /\ g.mode # "live" /\ g.old = own
        /\ g.shows = Shows(d)
    BY DEF Ghost
  <2> HIDE DEF g
  <2>2. DiskNow(t, g) = d BY <1>1, <1>2, <1>5, <2>1 DEF DiskNow
  <2>3. Base(g, NoTree) = own BY <2>1 DEF Base
  <2>4. NoTree \in Labels /\ Tree(t.blk, NoTree) /\ \A b \in Block : NoTree[b] = Outside
    BY EmptyTree
  <2>5. \A i \in DOMAIN h : NoTree[h[i]] = Outside BY <1>3, <2>4
  <2> HIDE DEF NoTree
  <2>6. Work(t, g, NoTree) BY <1>1, <1>2, <1>4, <2>1, <2>2, <2>3, <2>4, <2>5 DEF Work
  <2> QED BY <2>6 DEF g
<1> QED BY <1>6, <1>7

\* A command gives up: hexafs_tx_abort leaves what is on disk as it is.
LEMMA AbortSettles ==
  ASSUME NEW s, NEW g, NEW own, Work(s, g, own)
  PROVE  LET t == tx_abort(s) IN
         /\ t.full = s.full /\ t.refused = s.refused
         /\ \E f, h2, own2 : Settled(t, g.d0, g.E, f, h2, own2)
<1> DEFINE t == tx_abort(s)
           d == DiskNow(s, g)
<1>1. s \in Store BY DEF Work
<1>2. /\ t \in Store /\ t.tx.active = FALSE
      /\ t.blk = s.blk /\ t.bmp = s.bmp /\ t.bd = s.bd /\ t.root = s.root /\ t.log = s.log
      /\ t.r = s.r /\ t.full = s.full /\ t.refused = s.refused
  BY <1>1, TxEnd DEF tx_abort
<1> HIDE DEF t
<1>3. d.blk = s.blk /\ d.sb = g.sb /\ d.bmp = g.bmp BY DEF DiskNow
<1>4. /\ Trail(g.d0, s.log, d, g.E) /\ Shape(d, g.h, Base(g, own)) /\ Shows(d) \in g.E
      /\ s.root = g.sb /\ g.bmp \subseteq s.bmp /\ (~s.bd => g.bmp = s.bmp)
      /\ \A b \in Block : Base(g, own)[b] # Outside => b \in s.bmp
  BY DEF Work
<1> HIDE DEF d
<1>5. Settled(t, g.d0, g.E, d, g.h, Base(g, own)) BY <1>2, <1>3, <1>4 DEF Settled
<1> QED BY <1>2, <1>5 DEF t

\* The named forms of q are forms of the sequence given.
Within(q, forms) ==
  \A i \in 1 .. Len(q) : q[i].name \in Names => \E j \in 1 .. Len(forms) : q[i] = forms[j]

\* What a boot would load from what has been saved under A.
LEMMA SavedLoads ==
  ASSUME NEW s0, NEW s, NEW own, NEW g, NEW A \in Block, NEW forms \in Seq(FormRec),
         Len(forms) <= MAX_FORMS, Saved(s0, s, own, g, A, forms, Len(forms))
  PROVE  LET q == load_all(s.blk, A) IN
         /\ q \in Seq(FormRec) /\ Within(q, forms)
         /\ ~s.full /\ ~s.refused /\ Len(forms) <= ABS_MAX_ENTRIES =>
              Ordinary(q) = Ordinary(forms)
         /\ \A o \in Block : IsForm(s.blk, own, o) =>
              s.blk[o].kind = "obj" /\ AsForm(s.blk, o).k = "form"
<1> DEFINE q == load_all(s.blk, A)
           es == s.blk[A].entries
           n == Len(forms)
<1>1. /\ s \in Store /\ Work(s, g, own) /\ InTree(s.blk, own, A)
      /\ \A e : EntryOf(s.blk, own, e) => \E j \in 1 .. n : Carries(s.blk, e, forms[j])
      /\ ~s.full /\ ~s.refused /\ n <= ABS_MAX_ENTRIES =>
           /\ Len(es) = n /\ \A j \in 1 .. n : Carries(s.blk, es[j], forms[j])
  BY DEF Saved
<1>2. s.blk \in Blocks /\ s.blk[A].kind = "abs" BY <1>1, StoreFields DEF InTree
<1>3. n \in Nat OBVIOUS
<1>4. ASSUME NEW j \in 1 .. n
      PROVE  /\ forms[j] \in FormRec /\ forms[j] = [name |-> forms[j].name, body |-> forms[j].body]
             /\ (forms[j].name \in Names => forms[j].body.k = "form")
  <2>1. forms[j] \in FormRec OBVIOUS
  <2>2. \A f \in FormRec : /\ f = [name |-> f.name, body |-> f.body]
                           /\ (f.name \in Names => f.body.k = "form")
    BY DEF FormRec, RawForm
  <2> QED BY <2>1, <2>2
<1>5. /\ q \in Seq(RawForm) /\ Len(q) \in Nat /\ Len(es) \in Nat
      /\ Len(q) <= Len(es) /\ (Len(q) = Len(es) \/ Len(q) = MAX_FORMS)
      /\ \A i \in 1 .. Len(q) : /\ q[i].name = es[i].name
                                /\ q[i].body = AsForm(s.blk, es[i].obj)
                                /\ q[i] = [name |-> es[i].name, body |-> AsForm(s.blk, es[i].obj)]
  BY <1>2, LoadAllValue
<1>6. es \in Seq(Entry) /\ \A i \in 1 .. Len(es) : EntryOf(s.blk, own, es[i])
  BY <1>1, EntriesOf
<1> HIDE DEF q, es, n
<1>7. ASSUME NEW i \in 1 .. Len(q), NEW f \in FormRec, f = [name |-> f.name, body |-> f.body],
             Carries(s.blk, es[i], f), f.name \in Names
      PROVE  q[i] = f
  <2>1. q[i] = [name |-> es[i].name, body |-> AsForm(s.blk, es[i].obj)] BY <1>5
  <2>2. es[i].name = f.name /\ AsForm(s.blk, es[i].obj) = f.body BY <1>7 DEF Carries
  <2> QED BY <1>7, <2>1, <2>2
<1>8. ASSUME NEW i \in 1 .. Len(q), q[i].name \in Names
      PROVE  \E j \in 1 .. n : q[i] = forms[j]
  <2>1. i \in 1 .. Len(es) BY <1>5
  <2>2. PICK j \in 1 .. n : Carries(s.blk, es[i], forms[j]) BY <1>1, <1>6, <2>1
  <2>3. forms[j].name = q[i].name BY <2>2, <1>5 DEF Carries
  <2>4. q[i] = forms[j] BY <1>4, <1>7, <1>8, <2>2, <2>3
  <2> QED BY <2>4
<1>9. Within(q, forms) BY <1>8 DEF Within, n
<1>10. q \in Seq(FormRec)
  <2>1. ASSUME NEW i \in 1 .. Len(q) PROVE q[i] \in FormRec
    <3>1. q[i] \in RawForm BY <1>5
    <3>2. q[i].name \in Names => q[i].body.k = "form" BY <1>4, <1>8
    <3> QED BY <3>1, <3>2 DEF FormRec
  <2> QED BY <1>5, <2>1
<1>11. ASSUME ~s.full, ~s.refused, n <= ABS_MAX_ENTRIES PROVE Ordinary(q) = Ordinary(forms)
  <2>1. Len(es) = n /\ \A j \in 1 .. n : Carries(s.blk, es[j], forms[j]) BY <1>1, <1>11
  <2>2. n <= MAX_FORMS /\ MAX_FORMS \in Nat BY FSAssumption DEF n
  <2>3. Len(q) = n BY <1>3, <1>5, <2>1, <2>2
  <2>4. ASSUME NEW i \in 1 .. Len(q)
        PROVE  q[i].name = forms[i].name /\ (forms[i].name \in Names => q[i] = forms[i])
    <3>1. Carries(s.blk, es[i], forms[i]) BY <2>1, <2>3
    <3>2. q[i].name = forms[i].name BY <3>1, <1>5 DEF Carries
    <3> QED BY <1>4, <1>7, <2>3, <3>1, <3>2
  <2>5. \A i \in 1 .. Len(forms) : i > Len(q) => forms[i].name \notin Names BY <2>3, <1>3 DEF n
  <2>6. Len(q) <= Len(forms) BY <2>3, <1>3 DEF n
  <2> QED BY <1>10, <2>4, <2>5, <2>6, OrdinaryAgree
<1>12. ASSUME NEW o \in Block, IsForm(s.blk, own, o)
       PROVE  s.blk[o].kind = "obj" /\ AsForm(s.blk, o).k = "form"
  <2>1. PICK e : EntryOf(s.blk, own, e) /\ e.obj = o /\ e.name \in Names BY <1>12, EnteredEntry
  <2>2. PICK j \in 1 .. n : Carries(s.blk, e, forms[j]) BY <1>1, <2>1
  <2> QED BY <2>1, <2>2, <1>4 DEF Carries
<1> QED BY <1>9, <1>10, <1>11, <1>12 DEF q, n

\* The ghost of a command that begins.
LEMMA GhostFields ==
  ASSUME NEW d0, NEW E, NEW d, NEW h, NEW mode, NEW old
  PROVE  LET g == Ghost(d0, E, d, h, mode, old) IN
         /\ g.d0 = d0 /\ g.E = E /\ g.sb = d.sb /\ g.root = RootObject(d.blk, d.sb)
         /\ g.bmp = d.bmp /\ g.h = h /\ g.mode = mode /\ g.old = old
         /\ g.shows = Shows(d)
BY DEF Ghost

\* A new abstraction, before any form is saved under it.
LEMMA NothingSaved ==
  ASSUME NEW s, NEW g, Work(s, g, NoTree), NEW forms
  PROVE  LET a == abstraction_create(s)
             A == a.r
         IN A # 0 => A \in Block /\ \E own : Saved(a, a, own, g, A, forms, 0)
<1> DEFINE a == abstraction_create(s)
           A == a.r
           own1 == [NoTree EXCEPT ![A] = 0]
<1>1. /\ a \in Store
      /\ A # 0 => /\ A \in Block /\ own1[A] = 0
                  /\ Work(a, g, own1)
                  /\ a.blk[A] = Abs(<<>>, 0, TRUE) /\ a.full = s.full
                  /\ \A e : EntryOf(a.blk, own1, e) => EntryOf(s.blk, NoTree, e)
  BY WorkAbstraction
<1>2. \A e : ~EntryOf(s.blk, NoTree, e)
  <2>1. \A c \in Block : ~InTree(s.blk, NoTree, c) BY EmptyTree
  <2> QED BY <2>1 DEF EntryOf
<1> HIDE DEF own1, a
<1>3. ASSUME A # 0 PROVE Saved(a, a, own1, g, A, forms, 0)
  <2> DEFINE c == <<>>
             x == TRUE
  <2>1. c \in Seq(Entry) /\ x \in Flag
    <3>1. c \in Seq(Entry) OBVIOUS
    <3> QED BY <3>1, Flags, Zenon
  <2>2. Len(c) = 0 OBVIOUS
  <2>3. a.blk[A] = Abs(c, 0, x) BY <1>1, <1>3
  <2>4. x BY Zenon
  <2> HIDE DEF c, x
  <2>5. 0 \in 0 .. NBLOCKS BY StoreAssumption
  <2>6. /\ a.blk[A].kind = "abs" /\ a.blk[A].crc = x /\ a.blk[A].entries = c
        /\ a.blk[A].next = 0
    BY <2>1, <2>3, <2>5, AbsMade
  <2>7. Sound(a.blk, A) /\ a.blk[A].next = 0 /\ Len(a.blk[A].entries) = 0 BY <2>2, <2>4, <2>6 DEF Sound
  <2>8. InTree(a.blk, own1, A) BY <1>1, <1>3, <2>6 DEF InTree
  <2>9. Frame(a, a) BY DEF Frame
  <2>10. \A e : ~EntryOf(a.blk, own1, e) BY <1>1, <1>2, <1>3
  <2>11. \A j \in 1 .. 0 : Carries(a.blk, a.blk[A].entries[j], forms[j]) OBVIOUS
  <2>12. a \in Store /\ Work(a, g, own1) /\ own1[A] = 0 BY <1>1, <1>3
  <2> QED BY ONLY <2>7, <2>8, <2>9, <2>10, <2>11, <2>12 DEF Saved
<1>4. A # 0 => A \in Block BY <1>1
<1> QED BY <1>3, <1>4 DEF a

\* Publishing forgets no failure; the snapshot takes a block that was free.
LEMMA PublishFlags ==
  ASSUME NEW s \in Store, s.tx.active, NEW A \in 0 .. NBLOCKS
  PROVE  LET t == publish(s, A) IN
         /\ t.refused = s.refused /\ (s.full => t.full)
         /\ ~t.full => /\ t.root \in Block /\ t.root \notin s.bmp /\ RootObject(t.blk, t.root) = A
                       /\ \A k \in Block : k \in s.bmp => t.blk[k] = s.blk[k]
<1> DEFINE s1 == [s EXCEPT !.tx.newRoot = A, !.tx.dirty = TRUE]
           a == alloc_block(s1)
           b == a.r
           v == Snap(a.root, A)
           w == block_write(a, b, v)
           c == [w EXCEPT !.root = b]
           u == IF b = 0 THEN a ELSE c
           t == publish(s, A)
<1>1. /\ s1 \in Store /\ s1.tx.active /\ s1.tx.dirty /\ s1.tx.newRoot = A
      /\ s1.full = s.full /\ s1.refused = s.refused /\ s1.blk = s.blk /\ s1.bmp = s.bmp
  BY TxRoot
<1>2. t = tx_commit(snap_create(s1)) BY DEF publish
<1> HIDE DEF s1
<1>3. /\ a \in Store /\ Frame(s1, a) /\ a.refused = s1.refused
      /\ b = 0 => a.full
      /\ b # 0 => b \in Block /\ b \notin s.bmp /\ a.blk = [s.blk EXCEPT ![b] = Zero]
  <2>1. CASE s1.bmp = Block BY <1>1, <2>1, AllocFails
  <2>2. CASE s1.bmp # Block
    <3>1. s1 \in Store /\ s1.bmp # Block BY <1>1, <2>2
    <3>2. /\ a \in Store /\ Frame(s1, a) /\ b \in Block \ s1.bmp
          /\ a.blk = [s1.blk EXCEPT ![b] = Zero] /\ a.refused = s1.refused
      BY ONLY <3>1, AllocSucceeds
    <3> HIDE DEF a
    <3>3. b \in Block /\ b \notin s.bmp /\ a.blk = [s.blk EXCEPT ![b] = Zero]
      BY ONLY <1>1, <3>2
    <3>4. b # 0 BY <3>3 DEF Block
    <3> QED BY <3>2, <3>3, <3>4
  <2> QED BY <2>1, <2>2
<1>4. a.root = s1.root /\ a.tx.active /\ a.tx.dirty /\ a.root \in 0 .. NBLOCKS
      /\ (s1.full => a.full)
  BY <1>1, <1>3, StoreFields DEF Frame
<1>5. snap_create(s1) = u BY <1>1, <1>4 DEF snap_create, OnSuccess
<1> HIDE DEF a, t
<1>6. /\ u \in Store /\ u.tx.active /\ u.tx.dirty
      /\ u.refused = a.refused /\ u.full = a.full
      /\ ~u.full => /\ u.root = b /\ b \in Block /\ b \notin s.bmp /\ u.blk[b] = v
                    /\ \A k \in Block : k # b => u.blk[k] = s.blk[k]
  <2>1. CASE b = 0 BY <2>1, <1>3, <1>4
  <2>2. CASE b # 0
    <3>1. b \in Block /\ b \in 0 .. NBLOCKS BY <1>3, <2>2 DEF Block
    <3>2. v \in Sector BY <1>4, SnapMade
    <3> HIDE DEF v
    <3>3. /\ w \in Store /\ Frame(a, w) /\ w.full = a.full /\ w.refused = a.refused
          /\ w.blk = [a.blk EXCEPT ![b] = v]
      <4>1. a \in Store /\ b \in Block /\ v \in Sector BY <1>3, <3>1, <3>2
      <4> HIDE DEF b
      <4> QED BY ONLY <4>1, BlockWriteFields, ZenonT(30)
    <3> HIDE DEF w
    <3>4. /\ c \in Store /\ c.tx = w.tx /\ c.full = w.full /\ c.refused = w.refused
          /\ c.root = b /\ c.blk = w.blk
      BY <3>1, <3>3 DEF Store
    <3> HIDE DEF c
    <3>5. u = c BY <2>2
    <3>6. a.blk = [s.blk EXCEPT ![b] = Zero] /\ b \notin s.bmp /\ s.blk \in Blocks
      BY <1>3, <2>2, StoreFields
    <3>7. c.blk[b] = v /\ \A k \in Block : k # b => c.blk[k] = s.blk[k]
      BY <3>1, <3>3, <3>4, <3>6 DEF Blocks
    <3> QED BY <1>4, <3>1, <3>3, <3>4, <3>5, <3>6, <3>7 DEF Frame
  <2> QED BY <2>1, <2>2
<1>7. t = tx_commit(u) BY <1>2, <1>5
<1> HIDE DEF u
<1>8. /\ tx_commit(u).full = u.full /\ tx_commit(u).refused = u.refused
      /\ tx_commit(u).blk = u.blk /\ tx_commit(u).root = u.root
  BY <1>6, CommitFields
<1>9. v.kind = "snap" /\ v.rootObj = A BY <1>4, SnapMade
<1> HIDE DEF v
<1>10. ASSUME ~t.full
       PROVE  /\ t.root \in Block /\ t.root \notin s.bmp /\ RootObject(t.blk, t.root) = A
              /\ \A k \in Block : k \in s.bmp => t.blk[k] = s.blk[k]
  <2>1. /\ u.root = b /\ b \in Block /\ b \notin s.bmp /\ u.blk[b] = v
        /\ \A k \in Block : k # b => u.blk[k] = s.blk[k]
    BY <1>6, <1>7, <1>8, <1>10
  <2>2. b # 0 BY <2>1 DEF Block
  <2>3. t.root = b /\ t.blk = u.blk BY <1>7, <1>8, <2>1
  <2>4. RootObject(t.blk, b) = A BY <1>9, <2>1, <2>2, <2>3 DEF RootObject
  <2> QED BY <2>1, <2>3, <2>4
<1> QED BY <1>1, <1>3, <1>4, <1>6, <1>7, <1>8, <1>10 DEF t

\* No two entries of the tree have the same object.
LEMMA EntryUnique ==
  ASSUME NEW blk \in Blocks, NEW own, Tree(blk, own), NEW e, NEW f, EntryOf(blk, own, e),
         EntryOf(blk, own, f), e.obj = f.obj
  PROVE  e = f
<1>1. PICK b \in Block : InTree(blk, own, b) /\ \E i \in DOMAIN blk[b].entries : blk[b].entries[i] = e
  BY DEF EntryOf
<1>2. PICK i \in DOMAIN blk[b].entries : blk[b].entries[i] = e BY <1>1
<1>3. PICK c \in Block : InTree(blk, own, c) /\ \E j \in DOMAIN blk[c].entries : blk[c].entries[j] = f
  BY DEF EntryOf
<1>4. PICK j \in DOMAIN blk[c].entries : blk[c].entries[j] = f BY <1>3
<1>5. b = c /\ i = j BY <1>1, <1>2, <1>3, <1>4 DEF Tree, NoSharing
<1> QED BY <1>2, <1>4, <1>5

\* hexafs_abstraction_find finds the object of an entry of that name.
LEMMA FindEntry ==
  ASSUME NEW blk \in Blocks, NEW own \in Labels, Tree(blk, own), NEW A \in Block, own[A] = 0,
         NEW name, abstraction_find(blk, A, name) # 0
  PROVE  \E e : /\ EntryOf(blk, own, e) /\ e.name = name
                /\ e.obj = abstraction_find(blk, A, name)
<1> DEFINE chain == Chain(blk, A)
           N == {b \in Block : own[b] = 0}
           I == {i \in 1 .. Len(chain) : FindIn(blk, chain[i], name) # 0}
           stop == IF I # {} THEN Min(I) ELSE 0
           b == chain[stop]
           J == {j \in 1 .. Len(blk[b].entries) : blk[b].entries[j].name = name}
           k == IF J # {} THEN Min(J) ELSE 0
           o == abstraction_find(blk, A, name)
<1>1. Outside # 0 BY StoreAssumption DEF Outside
<1>2. chain \in Seq(N) /\ Len(chain) >= 1
  <2>1. N \in SUBSET Block /\ A \in N OBVIOUS
  <2>2. ASSUME NEW c \in N, blk[c].kind = "abs", blk[c].next # 0 PROVE blk[c].next \in N
    <3>1. AbsOk(blk, own, c) BY <1>1, <2>2 DEF Tree
    <3>2. blk[c] \in Sector BY DEF Blocks
    <3>3. blk[c].next \in 0 .. NBLOCKS BY <3>2, <2>2, AbsFacts
    <3>4. blk[c].next \in Block BY <3>3, <2>2, StoreAssumption DEF Block
    <3> QED BY <3>1, <3>4, <2>2 DEF AbsOk
  <2> HIDE DEF N
  <2> QED BY <2>1, <2>2, ChainIn
<1>3. o = IF stop = 0 THEN 0 ELSE blk[b].entries[FindIn(blk, b, name)].obj
  BY DEF abstraction_find, FindAlong, SelectInSeq
<1>4. FindIn(blk, b, name) = IF blk[b].kind # "abs" THEN 0 ELSE k BY DEF FindIn, SelectInSeq
<1>5. \A i \in 1 .. Len(chain) : chain[i] \in Block /\ own[chain[i]] = 0 BY <1>2
<1>6. Len(chain) \in Nat BY <1>2
<1>7. o # 0 OBVIOUS
<1> HIDE DEF chain, o
<1>8. stop # 0 BY <1>3, <1>7
<1>9. I # {} BY <1>8
<1>10. stop \in I
  <2>1. I \in SUBSET Nat BY <1>6
  <2>2. stop = Min(I) BY <1>9
  <2> HIDE DEF I, stop
  <2> QED BY <1>9, <2>1, <2>2, MinOf
<1>11. b \in Block /\ own[b] = 0 /\ FindIn(blk, b, name) # 0 BY <1>5, <1>10
<1> HIDE DEF stop, b
<1>12. blk[b].kind = "abs" /\ FindIn(blk, b, name) = k /\ k # 0 BY <1>4, <1>11
<1>13. blk[b] \in Sector BY <1>11 DEF Blocks
<1>14. blk[b].entries \in Seq(Entry) BY <1>12, <1>13, AbsFacts
<1>15. J # {} BY <1>12
<1>16. k \in J
  <2>1. J \in SUBSET Nat BY <1>14
  <2>2. k = Min(J) BY <1>15
  <2> HIDE DEF J, k
  <2> QED BY <1>15, <2>1, <2>2, MinOf
<1>17. k \in DOMAIN blk[b].entries /\ blk[b].entries[k].name = name
  <2> DEFINE es == blk[b].entries
  <2>1. es \in Seq(Entry) BY <1>14
  <2>2. k \in 1 .. Len(es) /\ es[k].name = name BY <1>16
  <2> HIDE DEF es, k
  <2>3. k \in DOMAIN es BY <2>1, <2>2
  <2> QED BY <2>2, <2>3 DEF es
<1> HIDE DEF k
<1>18. o = blk[b].entries[k].obj BY <1>3, <1>8, <1>12
<1>19. EntryOf(blk, own, blk[b].entries[k]) BY <1>11, <1>12, <1>17 DEF EntryOf, InTree
<1> QED BY <1>17, <1>18, <1>19 DEF o

\* An entry that names no form has an object that is none.
LEMMA NotAForm ==
  ASSUME NEW blk \in Blocks, NEW own \in Labels, Tree(blk, own), NEW e, EntryOf(blk, own, e),
         e.name \notin Names
  PROVE  e.obj \in Block /\ own[e.obj] = e.obj /\ ~IsForm(blk, own, e.obj)
<1>1. Entered(blk, own, e.obj) BY EnteredEntry
<1>2. e.obj \in Block /\ own[e.obj] = e.obj BY <1>1, FormsEntered
<1>3. ASSUME IsForm(blk, own, e.obj) PROVE FALSE
  <2>1. PICK f : EntryOf(blk, own, f) /\ f.obj = e.obj /\ f.name \in Names BY <1>3, EnteredEntry
  <2>2. f = e BY <2>1, EntryUnique
  <2> QED BY <2>1, <2>2
<1> QED BY <1>2, <1>3

\* The blocks of such a table belong to the tree, and its entries with them.
Owned(blk, own, b) ==
  /\ blk[b].entries \in Seq(Entry)
  /\ \A i \in DOMAIN blk[b].entries : LET o == blk[b].entries[i].obj IN o \in Block /\ own[o] = o

LEMMA TableTree ==
  ASSUME NEW blk \in Blocks, NEW own \in Labels, Tree(blk, own), NEW A, InTree(blk, own, A),
         RootTable(blk, A)
  PROVE  LET B == blk[A].next IN
         Owned(blk, own, A) /\ (B # 0 => InTree(blk, own, B) /\ Owned(blk, own, B))
<1>1. Outside # 0 BY StoreAssumption DEF Outside
<1>2. ASSUME NEW b \in Block, InTree(blk, own, b) PROVE AbsOk(blk, own, b) /\ Owned(blk, own, b)
  <2>1. AbsOk(blk, own, b) BY <1>1, <1>2 DEF Tree, InTree
  <2>2. blk[b] \in Sector /\ blk[b].kind = "abs" BY <1>2 DEF Blocks, InTree
  <2>3. blk[b].entries \in Seq(Entry) BY <2>2, AbsFacts
  <2>4. \A i \in DOMAIN blk[b].entries : blk[b].entries[i].obj \in Block BY <2>2, EntryFacts
  <2> QED BY <2>1, <2>3, <2>4 DEF AbsOk, Owned
<1>3. A \in Block BY DEF RootTable, Short
<1>4. ASSUME blk[A].next # 0 PROVE blk[A].next \in Block /\ InTree(blk, own, blk[A].next)
  <2>1. own[blk[A].next] = 0 BY <1>2, <1>3, <1>4 DEF AbsOk
  <2> QED BY <1>4, <2>1 DEF InTree, RootTable, Short
<1> QED BY <1>2, <1>3, <1>4

\* A step on one object leaves the table alone, and all other objects.
LEMMA TouchesTable ==
  ASSUME NEW s, NEW g, NEW own, Work(s, g, own), NEW A, InTree(s.blk, own, A),
         RootTable(s.blk, A), NEW t, t.blk \in Blocks, NEW more, NEW x \in Block,
         Touches(s, own, t, more, x), own[x] = Outside \/ t.blk[x].kind = "obj"
  PROVE  /\ RootTable(t.blk, A)
         /\ \A n : /\ abstraction_find(t.blk, A, n) = abstraction_find(s.blk, A, n)
                   /\ abstraction_find(s.blk, A, n) # x =>
                        ReadNamed(t.blk, A, n) = ReadNamed(s.blk, A, n)
<1> DEFINE B == s.blk[A].next
<1>1. s.blk \in Blocks /\ own \in Labels /\ Tree(s.blk, own) BY StoreFields DEF Work
<1>2. x # 0 /\ Outside # 0 /\ \A o \in Block : o # Outside /\ o # 0
  BY StoreAssumption DEF Block, Outside
<1>3. A \in Block /\ own[A] = 0 BY DEF RootTable, Short, InTree
<1>4. \A b \in Block : own[b] = 0 => t.blk[b] = s.blk[b] BY <1>2 DEF Touches
<1>5. t.blk[A] = s.blk[A] BY <1>3, <1>4
<1>6. B # 0 => B \in Block /\ own[B] = 0 /\ t.blk[B] = s.blk[B]
  <2>1. B # 0 => B \in Block BY DEF RootTable, Short
  <2>2. B # 0 => InTree(s.blk, own, B) BY <1>1, TableTree
  <2> QED BY <1>4, <2>1, <2>2 DEF InTree
<1>7. ASSUME NEW o \in Block, own[o] = o, s.blk[o].kind = "obj" PROVE t.blk[o].kind = "obj"
  <2>1. CASE o = x BY <1>2, <1>7, <2>1
  <2>2. CASE o # x BY <1>2, <1>7, <2>2 DEF Touches
  <2> QED BY <2>1, <2>2
<1>8. Filed(t.blk, A)
  <2>1. Owned(s.blk, own, A) BY <1>1, TableTree
  <2>2. Filed(s.blk, A) BY DEF RootTable
  <2> QED BY <1>5, <1>7, <2>1, <2>2 DEF Filed, Owned
<1>9. B # 0 => Filed(t.blk, B)
  <2>1. B # 0 => Owned(s.blk, own, B) BY <1>1, TableTree
  <2>2. B # 0 => Filed(s.blk, B) BY DEF RootTable
  <2> HIDE DEF B
  <2> QED BY <1>6, <1>7, <2>1, <2>2 DEF Filed, Owned
<1>10. Short(s.blk, A) BY DEF RootTable
<1>11. Short(t.blk, A) BY <1>5, <1>6, <1>10 DEF Short
<1>12. RootTable(t.blk, A) BY <1>5, <1>8, <1>9, <1>11 DEF RootTable
<1>13. ASSUME NEW n PROVE abstraction_find(t.blk, A, n) = abstraction_find(s.blk, A, n)
  <2> DEFINE a == Held(s.blk[A].entries, n)
             b == Held(s.blk[B].entries, n)
             old == abstraction_find(s.blk, A, n)
             new == abstraction_find(t.blk, A, n)
  <2>1. (B = 0 => old = a) /\ (B # 0 => old = IF a # 0 THEN a ELSE b) BY <1>1, <1>10, FindShort
  <2>2. (B = 0 => new = a) /\ (B # 0 => new = IF a # 0 THEN a ELSE b)
    <3> DEFINE C == t.blk[A].next
    <3>1. /\ C = 0 => new = Held(t.blk[A].entries, n)
          /\ C # 0 => new = IF Held(t.blk[A].entries, n) # 0 THEN Held(t.blk[A].entries, n)
                            ELSE Held(t.blk[C].entries, n)
      BY <1>11, FindShort
    <3>2. C = B BY <1>5
    <3> HIDE DEF new
    <3> QED BY <1>5, <1>6, <3>1, <3>2
  <2> HIDE DEF a, b, old, new, B
  <2>3. new = old BY <2>1, <2>2
  <2> QED BY <2>3 DEF old, new
<1>14. ASSUME NEW n, abstraction_find(s.blk, A, n) # x
       PROVE  ReadNamed(t.blk, A, n) = ReadNamed(s.blk, A, n)
  <2> DEFINE o == abstraction_find(s.blk, A, n)
  <2>1. abstraction_find(t.blk, A, n) = o BY <1>13
  <2>2. A # 0 BY <1>2, <1>3
  <2>3. ASSUME o # 0 PROVE object_read_data(t.blk, o) = object_read_data(s.blk, o)
    <3>1. PICK e : EntryOf(s.blk, own, e) /\ e.obj = o BY <1>1, <1>3, <2>3, FindEntry
    <3>2. Entered(s.blk, own, o) BY <3>1, EnteredEntry
    <3>3. o \in Block /\ own[o] = o BY <1>1, <3>2, FormsEntered
    <3>4. o # x BY <1>14
    <3> HIDE DEF o
    <3> QED BY <3>3, <3>4, TouchesForm
  <2> HIDE DEF o
  <2>4. o = abstraction_find(s.blk, A, n) BY DEF o
  <2> QED BY <2>1, <2>2, <2>3, <2>4 DEF ReadNamed
<1> QED BY <1>12, <1>13, <1>14

\* A table with one more entry: its name is found, and all others as before.
LEMMA EnlargedTable ==
  ASSUME NEW s, NEW g, NEW own, Work(s, g, own), NEW A, InTree(s.blk, own, A),
         RootTable(s.blk, A), s.blk[A].next = 0, NEW x \in Block, own[x] = x,
         s.blk[x].kind = "obj", NEW name \in AnyName, NEW t, t.blk \in Blocks, NEW more,
         Touches(s, own, t, more, 0), NEW e0 \in Entry, e0.name = name, e0.obj = x,
         Enlarged(s.blk, t.blk, A, e0)
  PROVE  /\ RootTable(t.blk, A)
         /\ abstraction_find(s.blk, A, name) = 0 => abstraction_find(t.blk, A, name) = x
         /\ \A n : n # name => ReadNamed(t.blk, A, n) = ReadNamed(s.blk, A, n)
<1> DEFINE u == s.blk[A]
           es == u.entries
<1>1. s.blk \in Blocks /\ own \in Labels /\ Tree(s.blk, own) BY StoreFields DEF Work
<1>2. Outside # 0 /\ \A o \in Block : o # Outside /\ o # 0 BY StoreAssumption DEF Block, Outside
<1>3. A \in Block /\ own[A] = 0 /\ Short(s.blk, A) /\ Filed(s.blk, A)
  BY DEF RootTable, Short, InTree
<1>4. u \in AbsSector /\ es \in Seq(Entry) /\ u.next = 0 /\ u.kind = "abs"
  <2>1. u \in Sector BY <1>1, <1>3 DEF Blocks
  <2>2. u.kind = "abs" BY DEF InTree
  <2> QED BY <2>1, <2>2, SectorFacts, AbsFacts
<1>5. e0 \in Entry /\ e0.name = name /\ e0.obj = x OBVIOUS
<1>6. ASSUME NEW o \in Block, own[o] = o PROVE t.blk[o] = s.blk[o] BY <1>2, <1>6 DEF Touches
<1>7. \A i \in DOMAIN es : t.blk[es[i].obj].kind = "obj"
  <2>1. Owned(s.blk, own, A) BY <1>1, TableTree
  <2> QED BY <1>3, <1>6, <2>1 DEF Owned, Filed
<1>8. t.blk[x].kind = "obj" BY <1>6
<1>9. Enlarged(s.blk, t.blk, A, e0) OBVIOUS
<1>10. /\ RootTable(t.blk, A)
       /\ \A n : abstraction_find(t.blk, A, n)
                   = IF Held(es, n) # 0 THEN Held(es, n) ELSE IF e0.name = n THEN x ELSE 0
  <2>1. CASE t.blk[A] = WithEntry(u, e0)
    <3> DEFINE more1 == Append(es, e0)
    <3>1. more1 \in Seq(Entry) /\ Len(more1) = Len(es) + 1 /\ more1[Len(es) + 1] = e0
          /\ \A i \in 1 .. Len(es) : more1[i] = es[i]
      <4>1. es \in Seq(Entry) BY <1>4
      <4> HIDE DEF es
      <4> QED BY ONLY <1>5, <4>1, AppendProperties
    <3>2. t.blk[A] = [u EXCEPT !.entries = more1] BY <2>1 DEF WithEntry
    <3> HIDE DEF more1, u
    <3>3. t.blk[A].kind = "abs" /\ t.blk[A].next = 0 /\ t.blk[A].entries = more1
      BY <1>4, <3>2 DEF AbsSector
    <3>4. ASSUME NEW i \in DOMAIN more1 PROVE t.blk[more1[i].obj].kind = "obj"
      <4>1. i \in 1 .. Len(es) \/ i = Len(es) + 1 BY <1>4, <3>1
      <4>2. CASE i \in 1 .. Len(es)
        <5>1. i \in DOMAIN es /\ more1[i] = es[i] BY <1>4, <3>1, <4>2
        <5> QED BY <1>7, <5>1
      <4>3. CASE i = Len(es) + 1 BY <1>5, <1>8, <3>1, <4>3
      <4> QED BY <4>1, <4>2, <4>3
    <3>5. Filed(t.blk, A) BY <3>3, <3>4 DEF Filed
    <3>6. Short(t.blk, A) BY <1>3, <3>3 DEF Short
    <3>7. RootTable(t.blk, A) BY <3>3, <3>5, <3>6 DEF RootTable
    <3>8. ASSUME NEW n
          PROVE  abstraction_find(t.blk, A, n)
                   = IF Held(es, n) # 0 THEN Held(es, n) ELSE IF e0.name = n THEN x ELSE 0
      <4>1. abstraction_find(t.blk, A, n) = Held(more1, n) BY <3>3, <3>6, FindShort
      <4>2. Held(more1, n) = IF Held(es, n) # 0 THEN Held(es, n)
                             ELSE IF e0.name = n THEN e0.obj ELSE 0
        BY <1>4, <1>5, HeldAppend DEF more1
      <4> QED BY <1>5, <4>1, <4>2
    <3> QED BY <3>7, <3>8
  <2>2. CASE Followed(s.blk, t.blk, A, e0)
    <3>1. PICK B \in Block : B # A /\ t.blk[A] = Chained(u, B) /\ t.blk[B] = Abs(<<e0>>, 0, TRUE)
      BY <2>2 DEF Followed
    <3> DEFINE one == <<e0>>
               none == <<>>
               y == FALSE
    <3>2. /\ one \in Seq(Entry) /\ DOMAIN one = {1} /\ one[1] = e0 /\ one = Append(none, e0)
          /\ none \in Seq(Entry)
      BY <1>5
    <3>3. \A n : Held(none, n) = 0
      <4>1. Len(none) = 0 OBVIOUS
      <4> HIDE DEF none
      <4>2. ASSUME NEW n PROVE First(none, n) = 0
        <5>1. First(none, n) \in 0 .. Len(none) BY <3>2, FirstFacts
        <5>2. First(none, n) \in 0 .. 0 BY <4>1, <5>1
        <5> QED BY <5>2
      <4> QED BY <4>2 DEF Held
    <3>4. y \in Flag /\ ~y
      <4>1. y \in Flag BY Flags, Zenon
      <4> QED BY <4>1
    <3>5. t.blk[A] = [u EXCEPT !.next = B, !.crc = y] BY <3>1 DEF Chained
    <3> HIDE DEF u, y, one, none
    <3>6. /\ t.blk[A].kind = "abs" /\ t.blk[A].next = B /\ t.blk[A].entries = es
          /\ t.blk[A].crc = y
      BY <1>4, <3>5 DEF AbsSector
    <3>7. t.blk[B].kind = "abs" /\ t.blk[B].next = 0 /\ t.blk[B].entries = one
      <4>1. t.blk[B] = Abs(one, 0, TRUE) BY <3>1 DEF one
      <4>2. LET v == Abs(one, 0, TRUE) IN v.kind = "abs" /\ v.next = 0 /\ v.entries = one
        BY ONLY <3>2, AbsNew
      <4> QED BY <4>1, <4>2
    <3>8. B # 0 BY <1>2
    <3>9. Short(t.blk, A) BY <1>3, <3>1, <3>4, <3>6, <3>7 DEF Short
    <3>10. Filed(t.blk, A) BY <1>7, <3>6 DEF Filed
    <3>11. Filed(t.blk, B) BY <1>5, <1>8, <3>2, <3>7 DEF Filed
    <3>12. RootTable(t.blk, A) BY <3>6, <3>9, <3>10, <3>11 DEF RootTable
    <3>13. ASSUME NEW n
           PROVE  abstraction_find(t.blk, A, n)
                    = IF Held(es, n) # 0 THEN Held(es, n) ELSE IF e0.name = n THEN x ELSE 0
      <4>1. abstraction_find(t.blk, A, n)
              = IF Held(es, n) # 0 THEN Held(es, n) ELSE Held(one, n)
        BY <3>6, <3>7, <3>8, <3>9, FindShort
      <4>2. Held(one, n) = IF Held(none, n) # 0 THEN Held(none, n)
                           ELSE IF e0.name = n THEN e0.obj ELSE 0
        BY <1>5, <3>2, HeldAppend
      <4> QED BY <1>5, <3>3, <4>1, <4>2
    <3> QED BY <3>12, <3>13
  <2> QED BY <1>9, <2>1, <2>2 DEF Enlarged
<1>11. \A n : abstraction_find(s.blk, A, n) = Held(es, n) BY <1>1, <1>3, <1>4, FindShort
<1> HIDE DEF es, u
<1>12. abstraction_find(s.blk, A, name) = 0 => abstraction_find(t.blk, A, name) = x
  BY <1>5, <1>10, <1>11
<1>13. ASSUME NEW n, n # name PROVE ReadNamed(t.blk, A, n) = ReadNamed(s.blk, A, n)
  <2> DEFINE o == abstraction_find(s.blk, A, n)
  <2>1. abstraction_find(t.blk, A, n) = o BY <1>5, <1>10, <1>11, <1>13
  <2>2. A # 0 BY <1>2, <1>3
  <2>3. ASSUME o # 0 PROVE object_read_data(t.blk, o) = object_read_data(s.blk, o)
    <3>1. PICK e : EntryOf(s.blk, own, e) /\ e.obj = o BY <1>1, <1>3, <2>3, FindEntry
    <3>2. Entered(s.blk, own, o) BY <3>1, EnteredEntry
    <3>3. o \in Block /\ own[o] = o BY <1>1, <3>2, FormsEntered
    <3> HIDE DEF o
    <3> QED BY <2>3, <3>3, TouchesForm
  <2> HIDE DEF o
  <2>4. o = abstraction_find(s.blk, A, n) BY DEF o
  <2> QED BY <2>1, <2>2, <2>3, <2>4 DEF ReadNamed
<1> QED BY <1>10, <1>12, <1>13

\* What hexafs_abstraction_find finds is an object of the tree.
LEMMA FindInside ==
  ASSUME NEW blk \in Blocks, NEW own \in Labels, Tree(blk, own), NEW A \in Block, own[A] = 0,
         NEW name, abstraction_find(blk, A, name) # 0
  PROVE  LET o == abstraction_find(blk, A, name) IN o \in Block /\ own[o] = o
<1> DEFINE o == abstraction_find(blk, A, name)
<1>1. PICK e : EntryOf(blk, own, e) /\ e.obj = o BY FindEntry
<1>2. Entered(blk, own, o) BY <1>1, EnteredEntry
<1> HIDE DEF o
<1>3. o \in Block /\ own[o] = o BY <1>2, FormsEntered
<1> QED BY <1>3 DEF o

\* In the table of a session that has saved, it is an object block.
LEMMA FindFiled ==
  ASSUME NEW blk \in Blocks, NEW A, RootTable(blk, A), NEW name,
         abstraction_find(blk, A, name) # 0
  PROVE  blk[abstraction_find(blk, A, name)].kind = "obj"
<1> DEFINE B == blk[A].next
           o == abstraction_find(blk, A, name)
           ha == Held(blk[A].entries, name)
           hb == Held(blk[B].entries, name)
<1>1. Short(blk, A) BY DEF RootTable
<1>2. (B = 0 => o = ha) /\ (B # 0 => o = IF ha # 0 THEN ha ELSE hb) BY <1>1, FindShort
<1>3. ASSUME NEW b \in Block, blk[b].kind = "abs", Filed(blk, b), Held(blk[b].entries, name) # 0
      PROVE  blk[Held(blk[b].entries, name)].kind = "obj"
  <2> DEFINE es == blk[b].entries
             n == First(es, name)
  <2>1. blk[b] \in Sector BY DEF Blocks
  <2>2. es \in Seq(Entry) BY <1>3, <2>1, AbsFacts
  <2>3. n # 0 /\ Held(es, name) = es[n].obj BY <1>3 DEF Held
  <2>4. n \in 0 .. Len(es) BY <2>2, FirstFacts
  <2>5. n \in DOMAIN es
    <3> HIDE DEF n, es
    <3> QED BY <2>2, <2>3, <2>4
  <2> QED BY <1>3, <2>3, <2>5 DEF Filed
<1>4. A \in Block /\ blk[A].kind = "abs" /\ Filed(blk, A) BY DEF RootTable, Short
<1>5. B # 0 => B \in Block /\ blk[B].kind = "abs" /\ Filed(blk, B) BY DEF RootTable, Short
<1>6. ha # 0 => blk[ha].kind = "obj" BY <1>3, <1>4
<1>7. B # 0 /\ hb # 0 => blk[hb].kind = "obj" BY <1>3, <1>5
<1>8. o # 0 OBVIOUS
<1> HIDE DEF o, ha, hb, B
<1>9. blk[o].kind = "obj" BY <1>2, <1>6, <1>7, <1>8
<1> QED BY <1>9 DEF o

\* A block outside the tree is no business of the table.
LEMMA ApartTable ==
  ASSUME NEW s, NEW g, NEW own, Work(s, g, own), NEW A, InTree(s.blk, own, A),
         RootTable(s.blk, A), NEW t, t.blk \in Blocks, NEW more, NEW x \in Block,
         Touches(s, own, t, more, x), own[x] = Outside
  PROVE  /\ RootTable(t.blk, A)
         /\ \A n : /\ abstraction_find(t.blk, A, n) = abstraction_find(s.blk, A, n)
                   /\ ReadNamed(t.blk, A, n) = ReadNamed(s.blk, A, n)
<1>1. s.blk \in Blocks /\ own \in Labels /\ Tree(s.blk, own) BY StoreFields DEF Work
<1>2. A \in Block /\ own[A] = 0 BY DEF RootTable, Short, InTree
<1>3. x # 0 /\ x # Outside BY StoreAssumption DEF Block, Outside
<1>4. /\ RootTable(t.blk, A)
      /\ \A n : /\ abstraction_find(t.blk, A, n) = abstraction_find(s.blk, A, n)
                /\ abstraction_find(s.blk, A, n) # x =>
                     ReadNamed(t.blk, A, n) = ReadNamed(s.blk, A, n)
  BY TouchesTable
<1>5. ASSUME NEW n PROVE abstraction_find(s.blk, A, n) # x
  <2> DEFINE o == abstraction_find(s.blk, A, n)
  <2>1. o # 0 => own[o] = o BY <1>1, <1>2, FindInside
  <2> HIDE DEF o
  <2>2. o # x BY <1>3, <2>1
  <2> QED BY <2>2 DEF o
<1> QED BY <1>4, <1>5

\* The snapshot that publishes the table leaves it alone.
LEMMA PublishTable ==
  ASSUME NEW s, NEW g, NEW own, Work(s, g, own), s.tx.active, NEW A, InTree(s.blk, own, A),
         RootTable(s.blk, A), ~publish(s, A).full, publish(s, A) \in Store
  PROVE  LET t == publish(s, A) IN
         /\ RootObject(t.blk, t.root) = A /\ RootTable(t.blk, A)
         /\ \A n : ReadNamed(t.blk, A, n) = ReadNamed(s.blk, A, n)
<1> DEFINE t == publish(s, A)
           x == t.root
           y == [s EXCEPT !.blk = t.blk]
<1>1. s \in Store /\ \A b \in Block : own[b] # Outside => b \in s.bmp BY DEF Work
<1>2. A \in 0 .. NBLOCKS /\ s.tx.active BY DEF RootTable, Short, Block
<1>3. /\ x \in Block /\ x \notin s.bmp /\ RootObject(t.blk, x) = A
      /\ \A k \in Block : k \in s.bmp => t.blk[k] = s.blk[k]
  BY <1>1, <1>2, PublishFlags
<1>4. t.blk \in Blocks BY StoreFields
<1> HIDE DEF t, x
<1>5. y.blk = t.blk /\ Frame(s, y) BY <1>1 DEF Store, Frame
<1> HIDE DEF y
<1>6. own[x] = Outside BY <1>1, <1>3
<1>7. Touches(s, own, y, own, x) BY <1>1, <1>3, <1>5 DEF Touches
<1>8. /\ RootTable(y.blk, A)
      /\ \A n : ReadNamed(y.blk, A, n) = ReadNamed(s.blk, A, n)
  BY <1>3, <1>4, <1>5, <1>6, <1>7, ApartTable
<1> QED BY <1>3, <1>5, <1>8 DEF t, x

\* All the forms saved under A make such a table.
LEMMA SavedTable ==
  ASSUME NEW s0, NEW s, NEW own, NEW g, NEW A \in Block, NEW forms \in Seq(FormRec),
         Saved(s0, s, own, g, A, forms, Len(forms)),
         ~s.full, ~s.refused, Len(forms) <= ABS_MAX_ENTRIES
  PROVE  RootTable(s.blk, A)
<1> DEFINE es == s.blk[A].entries
           n == Len(forms)
<1>1. /\ Work(s, g, own) /\ InTree(s.blk, own, A) /\ s.blk[A].next = 0 /\ Len(es) = n
      /\ \A j \in 1 .. n : Carries(s.blk, es[j], forms[j])
  BY DEF Saved
<1>2. es \in Seq(Entry) BY <1>1, EntriesOf
<1>3. ASSUME NEW i \in DOMAIN es PROVE s.blk[es[i].obj].kind = "obj"
  <2>1. i \in 1 .. n BY <1>1, <1>2
  <2> QED BY <1>1, <2>1 DEF Carries
<1>4. Filed(s.blk, A) BY <1>3 DEF Filed
<1>5. Short(s.blk, A) BY <1>1 DEF Short, InTree
<1> QED BY <1>1, <1>4, <1>5 DEF RootTable

\* Every sequence of forms a save may end with when something fails.
Partial(E, forms) == \A q \in Seq(FormRec) : Within(q, forms) => Ordinary(q) \in E

\* hexafs_save_all: a boot finds what it found before or all the forms, or,
\* if something failed, some of them.
LEMMA SettledSaveAll ==
  ASSUME NEW s, NEW d0, NEW E, NEW d, NEW h, NEW own, Settled(s, d0, E, d, h, own),
         NEW forms \in Seq(FormRec), Len(forms) <= MAX_FORMS, Ordinary(forms) \in E,
         LET t == save_all(s, forms)
         IN  t.full \/ t.refused \/ ~(Len(forms) <= ABS_MAX_ENTRIES) => Partial(E, forms)
  PROVE  LET t == save_all(s, forms) IN
         /\ s.full => t.full
         /\ s.refused => t.refused
         /\ ~t.full /\ ~t.refused /\ Len(forms) <= ABS_MAX_ENTRIES =>
              RootTable(t.blk, RootObject(t.blk, t.root))
         /\ \E f, h2, own2 :
              /\ Settled(t, d0, E, f, h2, own2)
              /\ ~t.full /\ ~t.refused /\ Len(forms) <= ABS_MAX_ENTRIES =>
                   Shows(f) = Ordinary(forms)
<1> DEFINE b == tx_begin(s)
           g == Ghost(d0, E, d, h, "new", own)
           a == abstraction_create(b)
           A == a.r
           w == SaveForms(a, A, forms)
           q == load_all(w.blk, A)
           t == save_all(s, forms)
<1>1. s \in Store BY DEF Settled
<1>2. BeginFields(s, b) BY <1>1, TxBegin
<1>3. t = IF A = 0 THEN tx_abort(a) ELSE publish(w, A) BY DEF save_all, SaveInto
<1> HIDE DEF b
<1>4. Work(b, g, NoTree) BY <1>2, BeginWork
<1>5. g.d0 = d0 /\ g.E = E /\ g.mode = "new" BY GhostFields
<1> HIDE DEF g
<1>6. /\ a \in Store /\ Frame(b, a)
      /\ A = 0 => a.full /\ Work(a, g, NoTree)
  BY <1>4, WorkAbstraction
<1>7. A # 0 => A \in Block /\ \E own1 : Saved(a, a, own1, g, A, forms, 0) BY <1>4, NothingSaved
<1>8. (s.full => a.full) /\ (s.refused => a.refused) /\ a.tx.active
  BY <1>2, <1>6 DEF BeginFields, Frame
<1> HIDE DEF a, t
<1>9. CASE A = 0
  <2>1. /\ tx_abort(a).full = a.full /\ tx_abort(a).refused = a.refused
        /\ \E f, h2, own2 : Settled(tx_abort(a), g.d0, g.E, f, h2, own2)
    BY <1>6, <1>9, AbortSettles
  <2>2. t = tx_abort(a) BY <1>3, <1>9
  <2>3. \E f, h2, own2 : Settled(t, d0, E, f, h2, own2) BY <1>5, <2>1, <2>2
  <2>4. t.full /\ (s.refused => t.refused) BY <1>6, <1>8, <1>9, <2>1, <2>2
  <2> QED BY <2>3, <2>4 DEF t
<1>10. CASE A # 0
  <2>1. PICK own1 : Saved(a, a, own1, g, A, forms, 0) BY <1>7, <1>10
  <2>2. A \in Block /\ g.mode # "live" BY <1>5, <1>7, <1>10
  <2>3. PICK own2 : Saved(a, w, own2, g, A, forms, Len(forms)) BY <2>1, <2>2, WorkSaveForms
  <2> HIDE DEF w
  <2>4. /\ q \in Seq(FormRec) /\ Within(q, forms)
        /\ ~w.full /\ ~w.refused /\ Len(forms) <= ABS_MAX_ENTRIES => Ordinary(q) = Ordinary(forms)
        /\ \A o \in Block : IsForm(w.blk, own2, o) =>
             w.blk[o].kind = "obj" /\ AsForm(w.blk, o).k = "form"
    BY <2>2, <2>3, SavedLoads
  <2>5. Work(w, g, own2) /\ Frame(a, w) /\ InTree(w.blk, own2, A) BY <2>3 DEF Saved
  <2>6. w.tx.active /\ (s.full => w.full) /\ (s.refused => w.refused) BY <1>8, <2>5 DEF Frame
  <2>7. t = publish(w, A) BY <1>3, <1>10
  <2>8. A \in 0 .. NBLOCKS BY <2>2, StoreAssumption DEF Block
  <2> HIDE DEF q, A
  <2>9. t.refused = w.refused /\ (w.full => t.full)
    <3>1. w \in Store BY <2>5 DEF Work
    <3> QED BY <3>1, <2>6, <2>7, <2>8, PublishFlags
  <2>10. Ordinary(q) \in E
    <3>1. CASE ~w.full /\ ~w.refused /\ Len(forms) <= ABS_MAX_ENTRIES BY <3>1, <2>4
    <3>2. CASE w.full \/ w.refused \/ ~(Len(forms) <= ABS_MAX_ENTRIES)
      <4>1. Partial(E, forms) BY <2>9, <3>2 DEF t
      <4> QED BY <2>4, <4>1 DEF Partial
    <3> QED BY <3>1, <3>2
  <2>11. \E f, h2, own3 : /\ Settled(t, g.d0, g.E, f, h2, own3)
                          /\ ~t.full => Shows(f) = Ordinary(q)
    <3>1. Ordinary(load_all(w.blk, A)) \in g.E BY <1>5, <2>10 DEF q
    <3>2. A # 0 => InTree(w.blk, own2, A) BY <2>5
    <3>3. \A o \in Block : IsForm(w.blk, own2, o) =>
             w.blk[o].kind = "obj" /\ AsForm(w.blk, o).k = "form"
      BY <2>4
    <3>4. LET u == publish(w, A) IN
            \E f, h2, own3 : /\ Settled(u, g.d0, g.E, f, h2, own3)
                             /\ ~u.full => Shows(f) = Ordinary(load_all(w.blk, A))
      BY ONLY <2>5, <2>6, <2>8, <3>1, <3>2, <3>3, WorkPublish
    <3> QED BY <2>7, <3>4 DEF q
  <2>12. ~t.full => ~w.full BY <2>9
  <2>13. ~t.full /\ ~t.refused /\ Len(forms) <= ABS_MAX_ENTRIES => Ordinary(q) = Ordinary(forms)
    BY <2>4, <2>9
  <2>14. \E f, h2, own3 :
              /\ Settled(t, d0, E, f, h2, own3)
              /\ ~t.full /\ ~t.refused /\ Len(forms) <= ABS_MAX_ENTRIES =>
                   Shows(f) = Ordinary(forms)
    BY <1>5, <2>11, <2>13
  <2>15. ASSUME ~t.full, ~t.refused, Len(forms) <= ABS_MAX_ENTRIES
         PROVE  RootTable(t.blk, RootObject(t.blk, t.root))
    <3>1. RootTable(w.blk, A) BY <2>2, <2>3, <2>9, <2>15, SavedTable
    <3>2. t \in Store BY <2>14 DEF Settled
    <3>3. /\ Work(w, g, own2) /\ w.tx.active /\ InTree(w.blk, own2, A)
          /\ ~publish(w, A).full /\ publish(w, A) \in Store
      BY <2>5, <2>6, <2>7, <2>15, <3>2
    <3>4. LET u == publish(w, A) IN RootObject(u.blk, u.root) = A /\ RootTable(u.blk, A)
      BY ONLY <3>1, <3>3, PublishTable
    <3> QED BY <2>7, <3>4
  <2> QED BY <2>6, <2>9, <2>14, <2>15 DEF t
<1> QED BY <1>9, <1>10

\* Unless something fails, the table then has an object of that name, the one
\* returned, and all other names lead to what they led to.
Listed(s, t, A, name) ==
  RootTable(s.blk, A) /\ ~t.full /\ ~t.refused =>
    /\ t.r # 0 /\ RootTable(t.blk, A) /\ abstraction_find(t.blk, A, name) = t.r
    /\ \A n : n # name => ReadNamed(t.blk, A, n) = ReadNamed(s.blk, A, n)

\* The object .users or .pimp of the live abstraction is found or added.
LEMMA WorkConfigObject ==
  ASSUME NEW s, NEW g, NEW own, Work(s, g, own), g.mode = "live",
         NEW A \in Block, InTree(s.blk, own, A), NEW name \in {DotUsers, DotPimp}
  PROVE  LET t == ConfigObject(s, A, name) IN \E more :
         /\ t \in Store /\ Work(t, g, more) /\ Frame(s, t) /\ InTree(t.blk, more, A)
         /\ t.r # 0 => t.r \in Block /\ more[t.r] = t.r /\ ~IsForm(t.blk, more, t.r)
         /\ Listed(s, t, A, name)
<1> DEFINE t == ConfigObject(s, A, name)
           o == abstraction_find(s.blk, A, name)
           u == [s EXCEPT !.r = o]
           a == object_alloc(s, "CONFIG")
           x == a.r
           own1 == [own EXCEPT ![x] = x]
           w == add_entry(a, A, name, x)
           v == [w EXCEPT !.r = x]
           e0 == [name |-> name, obj |-> x]
<1>1. s \in Store /\ s.blk \in Blocks /\ own \in Labels /\ Tree(s.blk, own) /\ own[A] = 0
  BY StoreFields DEF Work, InTree
<1>2. name \notin Names /\ name \in AnyName
  BY NamesAssumption DEF AnyName, DotUsers, DotPimp
<1>3. t = IF o # 0 THEN u ELSE IF x = 0 THEN a ELSE v BY DEF ConfigObject, OnSuccess
<1>4. /\ a \in Store /\ Frame(s, a)
      /\ x = 0 => a.full /\ Work(a, g, own) /\ a.blk = s.blk
      /\ x # 0 => /\ x \in Block /\ own[x] = Outside /\ own1[x] = x
                  /\ Work(a, g, own1) /\ Touches(s, own, a, own1, x)
                  /\ ~Entered(a.blk, own1, x) /\ a.blk[x].kind = "obj"
  <2> DEFINE type == "CONFIG"
  <2>1. type \in {"FORM", "CONFIG"} OBVIOUS
  <2>2. a = object_alloc(s, type) OBVIOUS
  <2> HIDE DEF type, a
  <2>3. Work(s, g, own) OBVIOUS
  <2>4. LET t1 == object_alloc(s, type)
            o1 == t1.r
            more == [own EXCEPT ![o1] = o1]
        IN /\ t1 \in Store /\ Frame(s, t1) /\ t1.refused = s.refused
           /\ o1 = 0 => t1.full /\ Work(t1, g, own) /\ t1.blk = s.blk
           /\ o1 # 0 => /\ o1 \in Block /\ own[o1] = Outside /\ o1 \notin g.bmp /\ more[o1] = o1
                        /\ Work(t1, g, more) /\ Touches(s, own, t1, more, o1)
                        /\ t1.blk[o1] = Obj(type, <<>>, 0) /\ ~Entered(t1.blk, more, o1)
                        /\ t1.full = s.full
    BY ONLY <2>1, <2>3, WorkObject
  <2>5. /\ a \in Store /\ Frame(s, a)
        /\ x = 0 => a.full /\ Work(a, g, own) /\ a.blk = s.blk
        /\ x # 0 => /\ x \in Block /\ own[x] = Outside /\ own1[x] = x
                    /\ Work(a, g, own1) /\ Touches(s, own, a, own1, x)
                    /\ ~Entered(a.blk, own1, x) /\ a.blk[x] = Obj(type, <<>>, 0)
    BY <2>2, <2>4
  <2>6. Obj(type, <<>>, 0).kind = "obj" BY DEF Obj
  <2> HIDE DEF x, own1
  <2> QED BY <2>5, <2>6
<1> HIDE DEF t, a, own1
<1>5. CASE o # 0
  <2>1. PICK e : EntryOf(s.blk, own, e) /\ e.name = name /\ e.obj = o BY <1>1, <1>5, FindEntry
  <2>2. o \in Block /\ own[o] = o /\ ~IsForm(s.blk, own, o) BY <1>1, <1>2, <2>1, NotAForm
  <2> HIDE DEF o
  <2>3. o \in 0 .. NBLOCKS BY <2>2 DEF Block
  <2>4. /\ u \in Store /\ Frame(s, u) /\ u.r = o
        /\ u.blk = s.blk /\ u.log = s.log /\ u.bmp = s.bmp /\ u.bd = s.bd
    BY <1>1, <2>3, ReturnFields
  <2> HIDE DEF u
  <2>5. u.root = s.root BY <2>4 DEF Frame
  <2>6. Work(u, g, own) BY <2>4, <2>5, WorkFields
  <2>7. t = u BY <1>3, <1>5
  <2>8. u.r # 0 => u.r \in Block /\ own[u.r] = u.r /\ ~IsForm(u.blk, own, u.r) BY <2>2, <2>4
  <2>9. InTree(u.blk, own, A) BY <2>4
  <2>10. Listed(s, u, A, name) BY <1>5, <2>4 DEF Listed, o
  <2> QED BY <2>4, <2>6, <2>7, <2>8, <2>9, <2>10 DEF t
<1>6. CASE o = 0 /\ x = 0
  <2>1. t = a /\ a.r = 0 BY <1>3, <1>6
  <2>2. InTree(a.blk, own, A) /\ Work(a, g, own) BY <1>4, <1>6
  <2>3. Listed(s, a, A, name) BY <1>4, <1>6 DEF Listed
  <2> QED BY <1>4, <2>1, <2>2, <2>3 DEF t
<1>7. CASE o = 0 /\ x # 0
  <2>1. x \in Block /\ x \in 0 .. NBLOCKS BY <1>4, <1>7 DEF Block
  <2>2. t = v BY <1>3, <1>7
  <2>3. Work(a, g, own1) /\ Touches(s, own, a, own1, x) /\ own1[x] = x /\ ~Entered(a.blk, own1, x)
    BY <1>4, <1>7
  <2>4. InTree(a.blk, own1, A)
    <3>1. x \in Block \cup {Outside} BY <2>1
    <3>2. InTree(a.blk, own1, A) <=> InTree(s.blk, own, A) BY <2>3, <3>1, TouchesEntries
    <3> QED BY <3>2
  <2>5. own1[A] = 0 BY <2>4 DEF InTree
  <2> HIDE DEF x, e0
  <2>6. \E more : /\ w \in Store /\ Work(w, g, more) /\ Touches(a, own1, w, more, 0)
                  /\ \A c \in Block : InTree(a.blk, own1, c) => InTree(w.blk, more, c)
                  /\ \A e : EntryOf(w.blk, more, e) => EntryOf(a.blk, own1, e) \/ e = e0
                  /\ ~Sound(a.blk, A) => w.refused
                  /\ ~w.full /\ ~w.refused /\ a.blk[A].next = 0 => Enlarged(a.blk, w.blk, A, e0)
    <3>1. g.mode = "live" => name \notin Names BY <1>2
    <3>2. name \in AnyName BY <1>2
    <3>3. LET y == add_entry(a, A, name, x)
              e1 == [name |-> name, obj |-> x]
          IN \E more :
         /\ y \in Store /\ Work(y, g, more) /\ Touches(a, own1, y, more, 0)
         /\ \A c \in Block : InTree(a.blk, own1, c) => InTree(y.blk, more, c)
         /\ \A e : EntryOf(y.blk, more, e) => EntryOf(a.blk, own1, e) \/ e = e1
         /\ ~Sound(a.blk, A) => y.refused
         /\ ~y.full /\ ~y.refused /\ a.blk[A].next = 0 => Enlarged(a.blk, y.blk, A, e1)
      <4>1. /\ Work(a, g, own1) /\ A \in Block /\ own1[A] = 0 /\ name \in AnyName /\ x \in Block
            /\ own1[x] = x /\ ~Entered(a.blk, own1, x) /\ (g.mode = "live" => name \notin Names)
        BY <2>1, <2>3, <2>5, <3>1, <3>2
      <4> HIDE DEF w
      <4> QED BY ONLY <4>1, WorkAddEntry
    <3> QED BY <3>3 DEF e0
  <2> HIDE DEF w
  <2>7. PICK more : /\ w \in Store /\ Work(w, g, more) /\ Touches(a, own1, w, more, 0)
                    /\ \A c \in Block : InTree(a.blk, own1, c) => InTree(w.blk, more, c)
                    /\ \A e : EntryOf(w.blk, more, e) => EntryOf(a.blk, own1, e) \/ e = e0
                    /\ ~Sound(a.blk, A) => w.refused
                    /\ ~w.full /\ ~w.refused /\ a.blk[A].next = 0 => Enlarged(a.blk, w.blk, A, e0)
    BY <2>6
  <2>8. /\ v \in Store /\ Frame(w, v) /\ v.r = x
        /\ v.blk = w.blk /\ v.log = w.log /\ v.bmp = w.bmp /\ v.bd = w.bd
        /\ v.full = w.full /\ v.refused = w.refused
    BY <2>1, <2>7, ReturnFields
  <2> HIDE DEF v
  <2>9. v.root = w.root BY <2>8 DEF Frame
  <2>10. Work(v, g, more) BY <2>7, <2>8, <2>9, WorkFields
  <2>11. more[x] = x
    <3>1. x # Outside BY <2>1, StoreAssumption DEF Block, Outside
    <3> QED BY <2>1, <2>3, <2>7, <3>1 DEF Touches
  <2>12. ~IsForm(w.blk, more, x)
    <3> SUFFICES ASSUME IsForm(w.blk, more, x) PROVE FALSE OBVIOUS
    <3>1. PICK e : EntryOf(w.blk, more, e) /\ e.obj = x /\ e.name \in Names BY EnteredEntry
    <3>2. e # e0 BY <1>2, <3>1 DEF e0
    <3>3. EntryOf(a.blk, own1, e) BY <2>7, <3>1, <3>2
    <3>4. Entered(a.blk, own1, x) BY <3>1, <3>3, EnteredEntry
    <3> QED BY <2>3, <3>4
  <2>13. Frame(s, v) BY <1>4, <2>7, <2>8 DEF Frame, Touches
  <2>14. InTree(v.blk, more, A) BY <2>4, <2>7, <2>8
  <2>15. ~IsForm(v.blk, more, v.r) /\ v.r \in Block /\ more[v.r] = v.r
    BY <2>1, <2>8, <2>11, <2>12
  <2>16. ASSUME RootTable(s.blk, A), ~v.full, ~v.refused
         PROVE  /\ RootTable(v.blk, A) /\ abstraction_find(v.blk, A, name) = x
                /\ \A n : n # name => ReadNamed(v.blk, A, n) = ReadNamed(s.blk, A, n)
    <3>1. a.blk \in Blocks /\ w.blk \in Blocks BY <1>4, <2>7, StoreFields
    <3>2. /\ RootTable(a.blk, A)
          /\ \A n : /\ abstraction_find(a.blk, A, n) = abstraction_find(s.blk, A, n)
                    /\ ReadNamed(a.blk, A, n) = ReadNamed(s.blk, A, n)
      <4>1. /\ Work(s, g, own) /\ InTree(s.blk, own, A) /\ RootTable(s.blk, A)
            /\ a.blk \in Blocks /\ x \in Block /\ Touches(s, own, a, own1, x) /\ own[x] = Outside
        BY <1>4, <1>7, <2>1, <2>3, <2>16, <3>1
      <4> QED BY ONLY <4>1, ApartTable
    <3>3. ~w.full /\ ~w.refused BY <2>8, <2>16
    <3>4. a.blk[A].next = 0
      <4>1. Sound(a.blk, A) BY <2>7, <3>3
      <4> QED BY <3>2, <4>1 DEF Sound, RootTable, Short
    <3>5. /\ RootTable(w.blk, A)
          /\ abstraction_find(a.blk, A, name) = 0 => abstraction_find(w.blk, A, name) = x
          /\ \A n : n # name => ReadNamed(w.blk, A, n) = ReadNamed(a.blk, A, n)
      <4>1. /\ Work(a, g, own1) /\ InTree(a.blk, own1, A) /\ RootTable(a.blk, A)
            /\ a.blk[A].next = 0 /\ x \in Block /\ own1[x] = x /\ a.blk[x].kind = "obj"
            /\ name \in AnyName /\ w.blk \in Blocks /\ Touches(a, own1, w, more, 0)
            /\ e0 \in Entry /\ e0.name = name /\ e0.obj = x /\ Enlarged(a.blk, w.blk, A, e0)
        BY <1>2, <1>4, <1>7, <2>1, <2>3, <2>4, <2>7, <3>1, <3>2, <3>3, <3>4 DEF e0, Entry
      <4> QED BY ONLY <4>1, EnlargedTable
    <3>6. abstraction_find(a.blk, A, name) = 0 BY <1>7, <3>2 DEF o
    <3> QED BY <2>8, <3>2, <3>5, <3>6
  <2>17. Listed(s, v, A, name) BY <1>7, <2>8, <2>16 DEF Listed
  <2> QED BY <2>2, <2>8, <2>10, <2>13, <2>14, <2>15, <2>17 DEF t
<1> QED BY <1>5, <1>6, <1>7

\* The table has p under that name, and under all others what it had; a table
\* without records takes no block and reads as no data.
AsRead(p) == IF BlocksOf(p) = 0 THEN NoData ELSE p
Rewritten(blk, new, A, name, p) ==
  /\ RootTable(new, A) /\ ReadNamed(new, A, name) = AsRead(p)
  /\ \A n : n # name => ReadNamed(new, A, n) = ReadNamed(blk, A, n)

\* Different names lead to different objects.
LEMMA FindDistinct ==
  ASSUME NEW blk \in Blocks, NEW own \in Labels, Tree(blk, own), NEW A \in Block, own[A] = 0,
         NEW name, NEW n, n # name, abstraction_find(blk, A, name) # 0
  PROVE  abstraction_find(blk, A, n) # abstraction_find(blk, A, name)
<1> SUFFICES ASSUME abstraction_find(blk, A, n) = abstraction_find(blk, A, name) PROVE FALSE
  OBVIOUS
<1>1. PICK e : EntryOf(blk, own, e) /\ e.name = name /\ e.obj = abstraction_find(blk, A, name)
  BY FindEntry
<1>2. PICK f : EntryOf(blk, own, f) /\ f.name = n /\ f.obj = abstraction_find(blk, A, n)
  BY FindEntry
<1>3. e = f BY <1>1, <1>2, EntryUnique
<1> QED BY <1>1, <1>2, <1>3

\* Once the object of that name has been written to its end.
LEMMA ConfigWritten ==
  ASSUME NEW s, NEW g, NEW own, Work(s, g, own), NEW A, InTree(s.blk, own, A),
         RootTable(s.blk, A), NEW name, NEW o \in Block, abstraction_find(s.blk, A, name) = o,
         NEW t, t.blk \in Blocks, NEW more, Touches(s, own, t, more, o),
         NEW p \in Payload, Stored(t.blk, o, p)
  PROVE  Rewritten(s.blk, t.blk, A, name, p)
<1>1. s.blk \in Blocks /\ own \in Labels /\ Tree(s.blk, own) BY StoreFields DEF Work
<1>2. A \in Block /\ own[A] = 0 /\ A # 0 /\ o # 0 BY DEF RootTable, Short, InTree, Block
<1>3. t.blk[o].kind = "obj" BY DEF Stored
<1>4. /\ RootTable(t.blk, A)
      /\ \A n : /\ abstraction_find(t.blk, A, n) = abstraction_find(s.blk, A, n)
                /\ abstraction_find(s.blk, A, n) # o =>
                     ReadNamed(t.blk, A, n) = ReadNamed(s.blk, A, n)
  BY <1>3, TouchesTable
<1>5. ASSUME NEW n, n # name PROVE ReadNamed(t.blk, A, n) = ReadNamed(s.blk, A, n)
  <2>1. abstraction_find(s.blk, A, n) # o BY <1>1, <1>2, <1>5, FindDistinct
  <2> QED BY <1>4, <2>1
<1>6. ReadNamed(t.blk, A, name) = object_read_data(t.blk, o) BY <1>2, <1>4 DEF ReadNamed
<1>7. object_read_data(t.blk, o) = AsRead(p)
  <2>1. BlocksOf(p) \in Nat BY BlocksOfTyped
  <2>2. /\ BlocksOf(p) >= 1 => object_read_data(t.blk, o) = p
        /\ BlocksOf(p) = 0 => object_read_data(t.blk, o) = NoData
    BY StoredReads
  <2> QED BY <2>1, <2>2 DEF AsRead
<1> QED BY <1>4, <1>5, <1>6, <1>7 DEF Rewritten

\* Unless something fails, the root abstraction stays, with p under that name,
\* the forms it had and all other names as they were.
Refiled(s, t, name, p) ==
  LET A == RootObject(s.blk, s.root)
  IN RootTable(s.blk, A) /\ ~t.full /\ ~t.refused =>
       /\ RootObject(t.blk, t.root) = A /\ Rewritten(s.blk, t.blk, A, name, p)
       /\ Ordinary(Loaded(t.blk, t.root)) = Ordinary(Loaded(s.blk, s.root))

\* hexafs_users_save and pimp_save_rules: whatever fails, a boot finds forms
\* it could have found before.
LEMMA SettledConfigSave ==
  ASSUME NEW s, NEW d0, NEW E, NEW d, NEW h, NEW own, Settled(s, d0, E, d, h, own),
         NEW name \in {DotUsers, DotPimp}, NEW p \in Payload
  PROVE  LET t == config_save(s, name, p) IN
         /\ s.full => t.full
         /\ s.refused => t.refused
         /\ Refiled(s, t, name, p)
         /\ \E f, h2, own2 : Settled(t, d0, E, f, h2, own2)
<1> DEFINE b == tx_begin(s)
           g == Ghost(d0, E, d, h, "live", own)
           A == RootObject(s.blk, s.root)
           c == ConfigObject(b, A, name)
           w == IF c.r = 0 THEN c ELSE object_write_data(c, c.r, p)
           t == config_save(s, name, p)
<1>1. s \in Store /\ d.blk = s.blk /\ d.sb = s.root BY DEF Settled
<1>2. BeginFields(s, b) BY <1>1, TxBegin
<1>3. t = IF A = 0 THEN tx_abort(b) ELSE IF w.r = 0 THEN tx_abort(w) ELSE publish(w, A)
  BY DEF config_save, SaveConfigIn, CommitOrAbort, OnSuccess
<1> HIDE DEF b
<1>4. Work(b, g, own) BY <1>2, BeginWork
<1>5. g.d0 = d0 /\ g.E = E /\ g.mode = "live" /\ g.root = A /\ g.sb = s.root /\ g.shows = Shows(d)
  BY <1>1, GhostFields
<1> HIDE DEF g
<1>6. b.tx.active /\ (s.full => b.full) /\ (s.refused => b.refused) BY <1>2 DEF BeginFields
<1>7. A \in 0 .. NBLOCKS /\ s.root \in 0 .. NBLOCKS BY <1>1, StoreFields, RootObjectTyped
<1>8. CASE A = 0
  <2>1. /\ tx_abort(b).full = b.full /\ tx_abort(b).refused = b.refused
        /\ \E f, h2, own2 : Settled(tx_abort(b), g.d0, g.E, f, h2, own2)
    BY <1>4, AbortSettles
  <2>2. t = tx_abort(b) BY <1>3, <1>8
  <2>3. ~RootTable(s.blk, A) BY <1>8 DEF RootTable, Short, Block
  <2> HIDE DEF t
  <2>4. Refiled(s, t, name, p) BY <2>3 DEF Refiled
  <2> QED BY <1>5, <1>6, <2>1, <2>2, <2>4 DEF t
<1>9. CASE A # 0
  <2>1. A \in Block /\ s.root \in Block
    <3>1. s.root # 0 BY <1>9 DEF RootObject
    <3> QED BY <1>7, <1>9, <3>1, StoreAssumption DEF Block
  <2>2. InTree(b.blk, own, A)
    <3>1. Shape(d, h, own) /\ d.sb \in Block BY <1>1, <2>1 DEF Settled
    <3>2. RootObject(d.blk, d.sb) = A BY <1>1
    <3>3. InTree(d.blk, own, A) BY <1>9, <3>1, <3>2, ShapeRoot
    <3> QED BY <1>1, <1>2, <3>3 DEF BeginFields
  <2> HIDE DEF A
  <2>3. PICK own1 :
         /\ c \in Store /\ Work(c, g, own1) /\ Frame(b, c) /\ InTree(c.blk, own1, A)
         /\ c.r # 0 => c.r \in Block /\ own1[c.r] = c.r /\ ~IsForm(c.blk, own1, c.r)
         /\ Listed(b, c, A, name)
    BY <1>4, <1>5, <2>1, <2>2, WorkConfigObject
  <2> HIDE DEF c
  <2>4. \E own2 : /\ w \in Store /\ Work(w, g, own2) /\ Frame(c, w) /\ InTree(w.blk, own2, A)
                  /\ RootTable(s.blk, A) /\ ~w.full /\ ~w.refused =>
                       w.r # 0 /\ Rewritten(s.blk, w.blk, A, name, p)
    <3> DEFINE good == RootTable(s.blk, A) /\ ~w.full /\ ~w.refused
    <3>3. b.blk = s.blk BY <1>2 DEF BeginFields
    <3>1. CASE c.r = 0
      <4>1. w = c BY <3>1
      <4>2. Frame(c, c) BY DEF Frame
      <4>3. ~good BY <2>3, <3>1, <3>3, <4>1 DEF Listed
      <4> QED BY <2>3, <4>1, <4>2, <4>3
    <3>2. CASE c.r # 0
      <4> DEFINE o == c.r
                 x == object_write_data(c, o, p)
      <4>1. o \in Block /\ own1[o] = o /\ ~IsForm(c.blk, own1, o) BY <2>3, <3>2
      <4>2. PICK own2 : /\ x \in Store /\ Work(x, g, own2) /\ Touches(c, own1, x, own2, o)
                        /\ x.r = 0 /\ c.blk[o].kind = "obj" => x.full
                        /\ x.r # 0 => Stored(x.blk, o, p)
        <5>1. Work(c, g, own1) /\ o \in Block /\ own1[o] = o /\ ~IsForm(c.blk, own1, o) /\ p \in Payload
          BY <2>3, <4>1
        <5> HIDE DEF o
        <5>2. \E own2 : /\ x \in Store /\ Work(x, g, own2) /\ Touches(c, own1, x, own2, o)
                        /\ x.refused = c.refused /\ c.bmp \subseteq x.bmp
                        /\ x.r = 0 \/ x.r = o
                        /\ x.r = 0 /\ c.blk[o].kind = "obj" => x.full
                        /\ x.r # 0 => /\ x.full = c.full /\ x.blk[o].kind = "obj"
                                      /\ x.blk[o].type = c.blk[o].type /\ Stored(x.blk, o, p)
          BY ONLY <5>1, WorkWriteData
        <5> QED BY <5>2
      <4>3. w = x BY <3>2
      <4>5. o # 0 /\ o = c.r BY <3>2
      <4> HIDE DEF x, o, w
      <4>4. InTree(x.blk, own2, A)
        <5>1. o \in Block \cup {Outside} BY <4>1
        <5>2. InTree(x.blk, own2, A) <=> InTree(c.blk, own1, A) BY <2>1, <4>2, <5>1, TouchesEntries
        <5> QED BY <2>3, <5>2
      <4>6. ASSUME good PROVE x.r # 0 /\ Rewritten(s.blk, x.blk, A, name, p)
        <5>1. ~c.full /\ ~c.refused BY <4>2, <4>3, <4>6 DEF Touches, Frame
        <5>2. /\ RootTable(c.blk, A) /\ abstraction_find(c.blk, A, name) = o
              /\ \A n : n # name => ReadNamed(c.blk, A, n) = ReadNamed(s.blk, A, n)
          BY <2>3, <3>3, <4>5, <4>6, <5>1 DEF Listed
        <5>3. c.blk \in Blocks /\ x.blk \in Blocks BY <2>3, <4>2, StoreFields
        <5>4. c.blk[o].kind = "obj" BY <4>5, <5>2, <5>3, FindFiled
        <5>5. x.r # 0 BY <4>2, <4>3, <4>6, <5>4
        <5>6. Rewritten(c.blk, x.blk, A, name, p)
          <6>1. /\ Work(c, g, own1) /\ InTree(c.blk, own1, A) /\ RootTable(c.blk, A) /\ o \in Block
                /\ abstraction_find(c.blk, A, name) = o /\ x.blk \in Blocks
                /\ Touches(c, own1, x, own2, o) /\ p \in Payload /\ Stored(x.blk, o, p)
            BY <2>3, <4>1, <4>2, <5>2, <5>3, <5>5
          <6> QED BY ONLY <6>1, ConfigWritten
        <5> QED BY <5>2, <5>5, <5>6 DEF Rewritten
      <4> QED BY <4>2, <4>3, <4>4, <4>6 DEF Touches
    <3> QED BY <3>1, <3>2
  <2> HIDE DEF w
  <2>5. PICK own2 : /\ w \in Store /\ Work(w, g, own2) /\ Frame(c, w) /\ InTree(w.blk, own2, A)
                    /\ RootTable(s.blk, A) /\ ~w.full /\ ~w.refused =>
                         w.r # 0 /\ Rewritten(s.blk, w.blk, A, name, p)
    BY <2>4
  <2>6. w.tx.active /\ (s.full => w.full) /\ (s.refused => w.refused)
    BY <1>6, <2>3, <2>5 DEF Frame
  <2>7. CASE w.r = 0
    <3>1. /\ tx_abort(w).full = w.full /\ tx_abort(w).refused = w.refused
          /\ \E f, h2, own3 : Settled(tx_abort(w), g.d0, g.E, f, h2, own3)
      BY <2>5, AbortSettles
    <3>2. t = tx_abort(w) BY <1>3, <1>9, <2>7
    <3> HIDE DEF t
    <3>3. Refiled(s, t, name, p) BY <2>5, <2>7, <3>1, <3>2 DEF Refiled, A
    <3> QED BY <1>5, <2>6, <3>1, <3>2, <3>3 DEF t
  <2>8. CASE w.r # 0
    <3>1. t = publish(w, A) BY <1>3, <1>9, <2>8
    <3>2. /\ Shape(DiskNow(w, g), g.h, own2) /\ Shows(DiskNow(w, g)) \in g.E
          /\ RootObject(w.blk, g.sb) = g.root /\ Shows(DiskNow(w, g)) = g.shows
      BY <1>5, <2>5 DEF Work, Base
    <3>3. FormsOk(w.blk, own2, g.bmp) BY <3>2 DEF Shape, DiskNow
    <3>4. \A o \in Block : IsForm(w.blk, own2, o) =>
             w.blk[o].kind = "obj" /\ AsForm(w.blk, o).k = "form"
      BY <3>3 DEF FormsOk, FormOk
    <3>5. Ordinary(load_all(w.blk, A)) \in g.E /\ Ordinary(load_all(w.blk, A)) = g.shows
      <4>1. Shows(DiskNow(w, g)) = Ordinary(Loaded(w.blk, g.sb)) BY DEF Shows, DiskNow
      <4>2. Loaded(w.blk, g.sb) = load_all(w.blk, A) BY <1>5, <2>1, <3>2 DEF Loaded
      <4> QED BY <3>2, <4>1, <4>2
    <3>6. A # 0 => InTree(w.blk, own2, A) BY <2>5
    <3>7. A \in 0 .. NBLOCKS BY <1>7 DEF A
    <3>8. LET u == publish(w, A) IN
            /\ u.refused = w.refused /\ (w.full => u.full)
            /\ \E f, h2, own3 : /\ Settled(u, g.d0, g.E, f, h2, own3)
                                /\ ~u.full => Shows(f) = Ordinary(load_all(w.blk, A))
      BY ONLY <2>5, <2>6, <3>4, <3>5, <3>6, <3>7, WorkPublish
    <3>9. /\ t.refused = w.refused /\ (w.full => t.full)
          /\ \E f, h2, own3 : /\ Settled(t, g.d0, g.E, f, h2, own3)
                              /\ ~t.full => Shows(f) = Ordinary(load_all(w.blk, A))
      BY <3>1, <3>8
    <3> HIDE DEF t
    <3>10. ASSUME RootTable(s.blk, A), ~t.full, ~t.refused
           PROVE  /\ RootObject(t.blk, t.root) = A /\ Rewritten(s.blk, t.blk, A, name, p)
                  /\ Ordinary(Loaded(t.blk, t.root)) = Ordinary(Loaded(s.blk, s.root))
      <4>1. PICK f, h2, own3 : /\ Settled(t, g.d0, g.E, f, h2, own3)
                               /\ Shows(f) = Ordinary(load_all(w.blk, A))
        BY <3>9, <3>10
      <4>2. Rewritten(s.blk, w.blk, A, name, p) BY <2>5, <3>9, <3>10
      <4>3. t \in Store /\ f.blk = t.blk /\ f.sb = t.root BY <4>1 DEF Settled
      <4>4. /\ Work(w, g, own2) /\ w.tx.active /\ InTree(w.blk, own2, A) /\ RootTable(w.blk, A)
            /\ ~publish(w, A).full /\ publish(w, A) \in Store
        BY <2>5, <2>6, <3>1, <3>10, <4>2, <4>3 DEF Rewritten
      <4>5. LET u == publish(w, A) IN
            /\ RootObject(u.blk, u.root) = A /\ RootTable(u.blk, A)
            /\ \A n : ReadNamed(u.blk, A, n) = ReadNamed(w.blk, A, n)
        BY ONLY <4>4, PublishTable
      <4>6. Shows(f) = Shows(d) BY <1>5, <3>5, <4>1
      <4>7. Shows(f) = Ordinary(Loaded(t.blk, t.root)) /\ Shows(d) = Ordinary(Loaded(s.blk, s.root))
        BY <1>1, <4>3 DEF Shows
      <4> QED BY <3>1, <4>2, <4>5, <4>6, <4>7 DEF Rewritten
    <3>11. Refiled(s, t, name, p) BY <3>10 DEF Refiled, A
    <3> QED BY <1>5, <2>6, <3>9, <3>11 DEF t
  <2> QED BY <2>7, <2>8
<1> QED BY <1>8, <1>9

-----------------------------------------------------------------------------
(***************************************************************************)
(* Booting.                                                                *)
(***************************************************************************)

\* A block that the bitmap on disk does not mark may be overwritten, even one
\* of .users or .pimp, whose blocks may be lost by a crash.
LEMMA ShapeClear ==
  ASSUME NEW d, NEW h, NEW own, Shape(d, h, own), NEW b \in Block, b \notin d.bmp,
         NEW v \in Sector, v.kind # "abs", v.kind # "obj"
  PROVE  LET e == Written(d, [to |-> "blk", b |-> b, v |-> v]) IN
         Shape(e, h, own) /\ Shows(e) = Shows(d)
<1> DEFINE e == Written(d, [to |-> "blk", b |-> b, v |-> v])
           A == RootObject(d.blk, d.sb)
<1>1. /\ d \in Disk /\ d.blk \in Blocks /\ own \in Labels /\ h \in Seq(Block) /\ Tree(d.blk, own)
      /\ History(d.blk, d.sb, h) /\ FormsOk(d.blk, own, d.bmp)
      /\ \A i \in DOMAIN h : h[i] \in d.bmp /\ own[h[i]] = Outside
  BY DiskFields DEF Shape
<1>2. /\ e \in Disk /\ e.sb = d.sb /\ e.bmp = d.bmp
      /\ e.blk = [d.blk EXCEPT ![b] = v] /\ e.blk[b] = v
      /\ \A c \in Block : c # b => e.blk[c] = d.blk[c]
  <2>1. d \in Disk /\ b \in Block /\ v \in Sector BY <1>1
  <2> QED BY ONLY <2>1, DiskBlock
<1>3. d.bmp \subseteq Block /\ e.blk \in Blocks BY <1>1, <1>2, DiskFields
<1> HIDE DEF e
<1>4. ASSUME NEW c \in Block, InTree(e.blk, own, c) PROVE c # b /\ InTree(d.blk, own, c)
  BY <1>2, <1>4 DEF InTree
<1>5. Tree(e.blk, own)
  <2>1. ASSUME NEW c \in Block, own[c] # Outside, e.blk[c].kind = "abs" PROVE AbsOk(e.blk, own, c)
    <3>1. e.blk[c] = d.blk[c] BY <1>2, <2>1
    <3> QED BY <1>1, <2>1, <3>1 DEF Tree, AbsOk
  <2>2. ASSUME NEW c \in Block, own[c] # Outside, e.blk[c].kind = "obj" PROVE ObjOk(e.blk, own, c)
    <3>1. e.blk[c] = d.blk[c] BY <1>2, <2>2
    <3> QED BY <1>1, <2>2, <3>1 DEF Tree, ObjOk
  <2>3. NoSharing(e.blk, own)
    <3> SUFFICES ASSUME NEW c \in Block, NEW f \in Block, InTree(e.blk, own, c), InTree(e.blk, own, f),
                        NEW i \in DOMAIN e.blk[c].entries, NEW j \in DOMAIN e.blk[f].entries,
                        e.blk[c].entries[i].obj = e.blk[f].entries[j].obj
                 PROVE  c = f /\ i = j
      BY DEF NoSharing
    <3>1. /\ InTree(d.blk, own, c) /\ InTree(d.blk, own, f)
          /\ e.blk[c] = d.blk[c] /\ e.blk[f] = d.blk[f]
      BY <1>2, <1>4
    <3> QED BY <1>1, <3>1 DEF Tree, NoSharing
  <2> QED BY <2>1, <2>2, <2>3 DEF Tree
<1>6. ASSUME NEW o \in Block, IsForm(d.blk, own, o)
      PROVE  AsForm(e.blk, o) = AsForm(d.blk, o) /\ FormOk(e.blk, d.bmp, o)
  <2>1. FormOk(d.blk, d.bmp, o) BY <1>1, <1>6 DEF FormsOk
  <2>2. o # b /\ e.blk[o] = d.blk[o] BY <1>2, <2>1 DEF FormOk
  <2>3. d.blk[o] \in Sector /\ d.blk[o].kind = "obj" BY <1>1, <2>1 DEF Blocks, FormOk
  <2>4. d.blk[o].cb \in Seq(Block) BY <2>3, ObjFacts
  <2>5. \A i \in DOMAIN d.blk[o].cb : e.blk[d.blk[o].cb[i]] = d.blk[d.blk[o].cb[i]]
    BY <1>2, <1>3, <2>1 DEF FormOk
  <2>6. AsForm(e.blk, o) = AsForm(d.blk, o) BY <2>2, <2>4, <2>5, AsFormSame
  <2> QED BY <2>1, <2>2, <2>6 DEF FormOk
<1>7. ASSUME NEW o, IsForm(e.blk, own, o) PROVE IsForm(d.blk, own, o)
  <2>1. PICK c \in Block : /\ InTree(e.blk, own, c)
                           /\ \E i \in DOMAIN e.blk[c].entries :
                                e.blk[c].entries[i].obj = o /\ e.blk[c].entries[i].name \in Names
    BY <1>7 DEF IsForm
  <2>2. InTree(d.blk, own, c) /\ e.blk[c] = d.blk[c] BY <1>2, <1>4, <2>1
  <2> QED BY <2>1, <2>2 DEF IsForm
<1>8. FormsOk(e.blk, own, e.bmp) BY <1>2, <1>6, <1>7 DEF FormsOk
<1>9. History(e.blk, e.sb, h)
  <2>1. ASSUME NEW i \in DOMAIN h PROVE e.blk[h[i]] = d.blk[h[i]]
    <3>1. h[i] \in d.bmp BY <1>1
    <3> QED BY <1>2, <1>3, <3>1
  <2> QED BY <1>1, <1>2, <2>1 DEF History
<1>10. ASSUME d.sb \in Block
       PROVE  /\ RootObject(e.blk, d.sb) = A
              /\ A # 0 => /\ A \in Block /\ A \in d.bmp /\ e.blk[A] = d.blk[A]
                          /\ InTree(d.blk, own, A) /\ InTree(e.blk, own, A)
  <2>1. /\ d.sb \in d.bmp
        /\ A # 0 => A \in Block /\ A \in d.bmp /\ InTree(d.blk, own, A)
    BY <1>10, ShapeRoot
  <2>2. e.blk[d.sb] = d.blk[d.sb] BY <1>2, <1>10, <2>1
  <2>3. RootObject(e.blk, d.sb) = A BY <2>2 DEF RootObject
  <2> HIDE DEF A
  <2>4. A # 0 => e.blk[A] = d.blk[A] BY <1>2, <2>1
  <2> QED BY <2>1, <2>3, <2>4 DEF InTree
<1>11. e.sb \in Block => RootOk(e.blk, own, e.bmp, RootObject(e.blk, e.sb))
  BY <1>2, <1>10 DEF RootOk
<1>12. e.sb = NoSuper => e.bmp = {} BY <1>2 DEF Shape
<1>13. Shape(e, h, own) BY <1>1, <1>2, <1>5, <1>8, <1>9, <1>11, <1>12 DEF Shape
<1>14. Shows(e) = Shows(d)
  <2>1. CASE d.sb \notin Block BY <1>2, <2>1 DEF Shows, Loaded
  <2>2. CASE d.sb \in Block /\ A = 0
    BY <1>2, <1>10, <2>2 DEF Shows, Loaded, load_all
  <2>3. CASE d.sb \in Block /\ A # 0
    <3> DEFINE p == load_all(d.blk, A)
               q == load_all(e.blk, A)
               es == d.blk[A].entries
    <3>1. /\ A \in Block /\ e.blk[A] = d.blk[A] /\ InTree(d.blk, own, A)
          /\ RootObject(e.blk, d.sb) = A
      BY <1>10, <2>3
    <3>2. Shows(e) = Ordinary(q) /\ Shows(d) = Ordinary(p) BY <1>2, <2>3, <3>1 DEF Shows, Loaded
    <3> HIDE DEF A
    <3>3. d.blk[A].kind = "abs" /\ e.blk[A].kind = "abs" /\ d.blk[A] \in Sector
      BY <1>1, <3>1 DEF InTree, Blocks
    <3>4. es \in Seq(Entry) BY <3>3, AbsFacts
    <3>5. /\ p \in Seq(RawForm) /\ Len(p) \in Nat /\ Len(es) \in Nat
          /\ Len(p) <= Len(es) /\ Len(p) <= MAX_FORMS /\ (Len(p) = Len(es) \/ Len(p) = MAX_FORMS)
          /\ \A i \in 1 .. Len(p) : /\ p[i].name = es[i].name
                                    /\ p[i] = [name |-> es[i].name, body |-> AsForm(d.blk, es[i].obj)]
      BY <1>1, <3>1, <3>3, LoadAllValue
    <3>6. /\ q \in Seq(RawForm) /\ Len(q) \in Nat
          /\ Len(q) <= Len(es) /\ Len(q) <= MAX_FORMS /\ (Len(q) = Len(es) \/ Len(q) = MAX_FORMS)
          /\ \A i \in 1 .. Len(q) : /\ q[i].name = es[i].name
                                    /\ q[i] = [name |-> es[i].name, body |-> AsForm(e.blk, es[i].obj)]
      <4> DEFINE fs == e.blk[A].entries
      <4>1. /\ q \in Seq(RawForm) /\ Len(q) \in Nat
            /\ Len(q) <= Len(fs) /\ Len(q) <= MAX_FORMS /\ (Len(q) = Len(fs) \/ Len(q) = MAX_FORMS)
            /\ \A i \in 1 .. Len(q) : /\ q[i].name = fs[i].name
                                      /\ q[i] = [name |-> fs[i].name, body |-> AsForm(e.blk, fs[i].obj)]
        BY <1>3, <3>1, <3>3, LoadAllValue
      <4>2. fs = es BY <3>1
      <4> HIDE DEF fs, es, q
      <4> QED BY <4>1, <4>2
    <3> HIDE DEF p, q
    <3>7. MAX_FORMS \in Nat BY FSAssumption
    <3>8. Len(p) = Len(q) BY <3>5, <3>6, <3>7
    <3>9. ASSUME NEW i \in 1 .. Len(p)
          PROVE  p[i].name = q[i].name /\ (q[i].name \in Names => p[i] = q[i])
      <4>1. i \in 1 .. Len(q) /\ i \in 1 .. Len(es) BY <3>5, <3>8
      <4>2. p[i].name = q[i].name BY <3>5, <3>6, <4>1
      <4>3. ASSUME es[i].name \in Names PROVE AsForm(e.blk, es[i].obj) = AsForm(d.blk, es[i].obj)
        <5>1. i \in DOMAIN es BY <3>4, <4>1
        <5>2. IsForm(d.blk, own, es[i].obj) BY <3>1, <4>3, <5>1 DEF IsForm
        <5>3. es[i] \in Entry BY <3>4, <4>1
        <5>4. es[i].obj \in Block BY <5>3 DEF Entry
        <5> QED BY <1>6, <5>2, <5>4
      <4> QED BY <3>5, <3>6, <4>1, <4>2, <4>3
    <3>10. Len(p) <= Len(q) /\ \A i \in 1 .. Len(q) : i > Len(p) => q[i].name \notin Names
      BY <3>5, <3>6, <3>8
    <3>11. Ordinary(p) = Ordinary(q) BY <3>5, <3>6, <3>9, <3>10, OrdinaryAgree
    <3> QED BY <3>2, <3>11
  <2> QED BY <2>1, <2>2, <2>3
<1> QED BY <1>13, <1>14 DEF e

\* No forms at all.
LEMMA OrdinaryNothing == Ordinary(<<>>) = <<>>
<1>1. <<>> \in Seq(FormRec) /\ Len(<<>>) = 0 OBVIOUS
<1>2. PICK k \in [0 .. Len(<<>>) -> Seq(FormRec)] : k[0] = <<>> /\ Ordinary(<<>>) = k[Len(<<>>)]
  BY <1>1, OrdinaryUnfold
<1> QED BY <1>1, <1>2

\* What may be found may be more.
LEMMA SettledWider ==
  ASSUME NEW s, NEW d0, NEW E, NEW d, NEW h, NEW own, Settled(s, d0, E, d, h, own),
         NEW W, E \subseteq W
  PROVE  Settled(s, d0, W, d, h, own)
<1>1. PICK D : /\ D[0] = d0 /\ D[Len(s.log)] = d
               /\ \A i \in 1 .. Len(s.log) : D[i] = Written(D[i - 1], s.log[i])
               /\ \A i \in 0 .. Len(s.log) : Safe(D[i], E)
  BY DEF Settled, Trail
<1>2. \A i \in 0 .. Len(s.log) : Safe(D[i], W) BY <1>1 DEF Safe
<1>3. Trail(d0, s.log, d, W) BY <1>1, <1>2 DEF Trail
<1> QED BY <1>3 DEF Settled

\* A table with a record takes a block.
LEMMA BlocksOfTable ==
  ASSUME NEW p \in Payload, p.k \in {"users", "pimp"}, p.list # <<>>
  PROVE  BlocksOf(p) # 0
<1> DEFINE n == Len(p.list)
           x == n + RECORDS_PER_BLOCK - 1
           q == x \div RECORDS_PER_BLOCK
<1>1. p.list \in Seq(Item) /\ n \in Nat BY PayloadFacts
<1>2. n >= 1
  <2>1. n # 0 BY <1>1
  <2> HIDE DEF n
  <2> QED BY <1>1, <2>1
<1>3. BlocksOf(p) = q BY DEF BlocksOf
<1> HIDE DEF n
<1>4. RECORDS_PER_BLOCK \in Nat \ {0} BY StoreAssumption
<1>5. x \in Nat /\ x >= RECORDS_PER_BLOCK BY <1>1, <1>2, <1>4
<1> HIDE DEF x
<1>6. q # 0
  <2>1. x = RECORDS_PER_BLOCK * q + (x % RECORDS_PER_BLOCK) /\ q \in Nat
        /\ x % RECORDS_PER_BLOCK \in 0 .. RECORDS_PER_BLOCK - 1
    BY <1>4, <1>5
  <2> HIDE DEF q
  <2>2. ASSUME q = 0 PROVE FALSE
    <3>1. RECORDS_PER_BLOCK * q = 0 BY <1>4, <2>2
    <3> DEFINE z == x % RECORDS_PER_BLOCK
    <3>2. x = RECORDS_PER_BLOCK * q + z /\ z \in 0 .. RECORDS_PER_BLOCK - 1 BY <2>1
    <3> HIDE DEF z
    <3>3. x = z BY <3>1, <3>2
    <3> QED BY <1>4, <1>5, <3>2, <3>3
  <2> QED BY <2>2
<1> QED BY <1>3, <1>6

\* The tables read back as they were written, with and without records.
LEMMA TablesReadBack ==
  /\ \A u \in Seq(Item) : Len(u) \in 1 .. MAX_USERS => UsersIn(AsRead(Users(u))) = u
  /\ \A l \in Seq(Item) : PimpIn(AsRead(Pimp(l))) = l
<1>1. ASSUME NEW u \in Seq(Item), Len(u) \in 1 .. MAX_USERS PROVE UsersIn(AsRead(Users(u))) = u
  <2> DEFINE p == Users(u)
  <2>1. p \in Payload BY <1>1, PayloadMade
  <2>2. p.k = "users" /\ p.list = u BY DEF Users
  <2>3. u # <<>> BY <1>1
  <2> HIDE DEF p
  <2>4. AsRead(p) = p BY <2>1, <2>2, <2>3, BlocksOfTable DEF AsRead
  <2>5. UsersIn(p) = u BY <2>2 DEF UsersIn
  <2> QED BY <2>4, <2>5 DEF p
<1>2. ASSUME NEW l \in Seq(Item) PROVE PimpIn(AsRead(Pimp(l))) = l
  <2> DEFINE p == Pimp(l)
  <2>1. p \in Payload BY PayloadMade
  <2>2. p.k = "pimp" /\ p.list = l BY DEF Pimp
  <2> HIDE DEF p
  <2>3. PimpIn(p) = l BY <2>2 DEF PimpIn
  <2>4. CASE BlocksOf(p) # 0 BY <2>3, <2>4 DEF AsRead, p
  <2>5. CASE BlocksOf(p) = 0
    <3>1. l = <<>> BY <2>1, <2>2, <2>5, BlocksOfTable
    <3>2. AsRead(p) = NoData BY <2>5 DEF AsRead
    <3>3. PimpIn(NoData) = <<>> BY DEF PimpIn, NoData
    <3> QED BY <3>1, <3>2, <3>3 DEF p
  <2> QED BY <2>4, <2>5
<1> QED BY <1>1, <1>2

\* A boot that finds these blocks and this root loads the forms and the users of
\* m, and after a command of that kind its rules.
Kept(blk, root, m, kind) ==
  LET A == RootObject(blk, root)
  IN /\ RootTable(blk, A) /\ Ordinary(Loaded(blk, root)) = Ordinary(m.forms)
     /\ UsersIn(ReadNamed(blk, A, DotUsers)) = m.users
     /\ kind = "pimp" => PimpIn(ReadNamed(blk, A, DotPimp)) = m.pimp

\* The commands that save the forms and the users.
LEMMA SettledSave ==
  ASSUME NEW s, NEW d0, NEW E, NEW d, NEW h, NEW own, Settled(s, d0, E, d, h, own),
         NEW m, m.forms \in Seq(FormRec), Len(m.forms) <= MAX_FORMS, Ordinary(m.forms) \in E,
         m.users \in Seq(Item), Len(m.users) \in 1 .. MAX_USERS,
         LET t == save_data(s, m)
         IN  t.full \/ t.refused \/ ~(Len(m.forms) <= ABS_MAX_ENTRIES) => Partial(E, m.forms)
  PROVE  LET t == save_data(s, m) IN
         /\ s.full => t.full
         /\ s.refused => t.refused
         /\ ~t.full /\ ~t.refused /\ Len(m.forms) <= ABS_MAX_ENTRIES => Kept(t.blk, t.root, m, "data")
         /\ \E f, h2, own2 : Settled(t, d0, E, f, h2, own2)
<1> DEFINE forms == m.forms
           a == save_all(s, forms)
           p == Users(m.users)
           t == save_data(s, m)
           W == E \cup {Ordinary(q) : q \in Seq(FormRec)}
<1>1. t = config_save(a, DotUsers, p) BY DEF save_data
<1>2. p \in Payload BY PayloadMade
<1>3. DotUsers \in {DotUsers, DotPimp} OBVIOUS
<1>4. forms \in Seq(FormRec) /\ Len(forms) <= MAX_FORMS /\ Ordinary(forms) \in E OBVIOUS
<1>5. t.full \/ t.refused \/ ~(Len(forms) <= ABS_MAX_ENTRIES) => Partial(E, forms) OBVIOUS
<1> HIDE DEF t, forms, p
<1>6. ASSUME NEW F, E \subseteq F,
             a.full \/ a.refused \/ ~(Len(forms) <= ABS_MAX_ENTRIES) => Partial(F, forms)
      PROVE  /\ s.full => a.full
             /\ s.refused => a.refused
             /\ a.full => t.full
             /\ a.refused => t.refused
             /\ ~t.full /\ ~t.refused /\ Len(forms) <= ABS_MAX_ENTRIES =>
                  Kept(t.blk, t.root, m, "data")
             /\ \E f, h2, own2 : Settled(t, d0, F, f, h2, own2)
  <2>1. Settled(s, d0, F, d, h, own) BY <1>6, SettledWider
  <2>2. Ordinary(forms) \in F BY <1>4, <1>6
  <2>3. LET u == save_all(s, forms) IN
         /\ s.full => u.full
         /\ s.refused => u.refused
         /\ ~u.full /\ ~u.refused /\ Len(forms) <= ABS_MAX_ENTRIES =>
              RootTable(u.blk, RootObject(u.blk, u.root))
         /\ \E f, h2, own2 :
              /\ Settled(u, d0, F, f, h2, own2)
              /\ ~u.full /\ ~u.refused /\ Len(forms) <= ABS_MAX_ENTRIES =>
                   Shows(f) = Ordinary(forms)
    BY ONLY <1>4, <1>6, <2>1, <2>2, SettledSaveAll
  <2> HIDE DEF a
  <2>4. /\ s.full => a.full
        /\ s.refused => a.refused
        /\ ~a.full /\ ~a.refused /\ Len(forms) <= ABS_MAX_ENTRIES =>
              RootTable(a.blk, RootObject(a.blk, a.root))
        /\ \E f, h2, own2 :
              /\ Settled(a, d0, F, f, h2, own2)
              /\ ~a.full /\ ~a.refused /\ Len(forms) <= ABS_MAX_ENTRIES =>
                   Shows(f) = Ordinary(forms)
    BY <2>3 DEF a
  <2>5. PICK d1, h1, own1 :
              /\ Settled(a, d0, F, d1, h1, own1)
              /\ ~a.full /\ ~a.refused /\ Len(forms) <= ABS_MAX_ENTRIES =>
                   Shows(d1) = Ordinary(forms)
    BY <2>4
  <2>6. LET u == config_save(a, DotUsers, p) IN
         /\ a.full => u.full
         /\ a.refused => u.refused
         /\ Refiled(a, u, DotUsers, p)
         /\ \E f, h2, own2 : Settled(u, d0, F, f, h2, own2)
    BY ONLY <1>2, <1>3, <2>5, SettledConfigSave
  <2>7. (a.full => t.full) /\ (a.refused => t.refused) /\ Refiled(a, t, DotUsers, p) BY <1>1, <2>6
  <2>8. ASSUME ~t.full, ~t.refused, Len(forms) <= ABS_MAX_ENTRIES
        PROVE  Kept(t.blk, t.root, m, "data")
    <3> DEFINE A == RootObject(a.blk, a.root)
    <3>1. ~a.full /\ ~a.refused BY <2>7, <2>8
    <3>2. RootTable(a.blk, A) /\ Shows(d1) = Ordinary(forms) BY <2>4, <2>5, <2>8, <3>1
    <3>3. Shows(d1) = Ordinary(Loaded(a.blk, a.root)) BY <2>5 DEF Settled, Shows
    <3>4. /\ RootObject(t.blk, t.root) = A /\ Rewritten(a.blk, t.blk, A, DotUsers, p)
          /\ Ordinary(Loaded(t.blk, t.root)) = Ordinary(Loaded(a.blk, a.root))
      BY <2>7, <2>8, <3>2 DEF Refiled
    <3> HIDE DEF A
    <3>5. RootTable(t.blk, A) /\ ReadNamed(t.blk, A, DotUsers) = AsRead(p) BY <3>4 DEF Rewritten
    <3>6. UsersIn(AsRead(p)) = m.users BY TablesReadBack DEF p
    <3>7. Ordinary(Loaded(t.blk, t.root)) = Ordinary(m.forms) BY <3>2, <3>3, <3>4 DEF forms
    <3> QED BY <3>4, <3>5, <3>6, <3>7 DEF Kept
  <2> QED BY <1>1, <2>4, <2>6, <2>8
<1> HIDE DEF a
<1>7. /\ (s.full => a.full) /\ (s.refused => a.refused) /\ (a.full => t.full) /\ (a.refused => t.refused)
      /\ ~t.full /\ ~t.refused /\ Len(forms) <= ABS_MAX_ENTRIES => Kept(t.blk, t.root, m, "data")
  <2>1. E \subseteq W OBVIOUS
  <2>2. Partial(W, forms) BY DEF Partial
  <2> HIDE DEF W
  <2> QED BY <1>6, <2>1, <2>2
<1>8. \E f, h2, own2 : Settled(t, d0, E, f, h2, own2)
  <2>1. a.full \/ a.refused \/ ~(Len(forms) <= ABS_MAX_ENTRIES) => Partial(E, forms)
    BY <1>5, <1>7
  <2> QED BY <1>6, <2>1
<1> QED BY <1>7, <1>8 DEF t, forms

\* A store that has been mounted; unlike a settled one, the bitmap need not
\* mark all blocks of the tree.
Mounted(s, d0, E, d, h, own) ==
  /\ s \in Store /\ s.tx.active = FALSE
  /\ Trail(d0, s.log, d, E) /\ Shape(d, h, own) /\ Shows(d) \in E
  /\ d.blk = s.blk /\ d.sb = s.root /\ d.bmp \subseteq s.bmp /\ (~s.bd => d.bmp = s.bmp)

\* The snapshot of the boot policy, when there is room for it: a boot finds
\* what it found before, or nothing.
LEMMA BootSnapshot ==
  ASSUME NEW s \in Store, s.tx.active, s.tx.dirty, s.bmp # Block,
         NEW d0, NEW E, NEW d, NEW h, NEW own, <<>> \in E,
         Trail(d0, s.log, d, E), Shape(d, h, own), Shows(d) \in E,
         d.blk = s.blk, d.sb = s.root, d.bmp \subseteq s.bmp
  PROVE  LET a == alloc_block(s)
             c == [block_write(a, a.r, Snap(s.root, 0)) EXCEPT !.root = a.r]
         IN \E f, h2, own2 : Settled(tx_commit(c), d0, E, f, h2, own2)
<1> DEFINE a == alloc_block(s)
           b == a.r
           v == Snap(s.root, 0)
           w == block_write(a, b, v)
           c == [w EXCEPT !.root = b]
           z == [to |-> "blk", b |-> b, v |-> Zero]
           y == [to |-> "blk", b |-> b, v |-> v]
           d1 == Written(d, z)
           d2 == Written(d1, y)
           h2 == Append(h, b)
<1>1. /\ a \in Store /\ Frame(s, a) /\ b \in Block \ s.bmp
      /\ a.blk = [s.blk EXCEPT ![b] = Zero]
      /\ a.log = Append(s.log, z)
      /\ a.bmp = s.bmp \cup {b} /\ a.bd
  BY AllocSucceeds
<1> HIDE DEF a
<1>2. s.root \in 0 .. NBLOCKS /\ 0 \in 0 .. NBLOCKS /\ b \in Block /\ b \in 0 .. NBLOCKS
      /\ s.log \in Seq(Write)
  BY <1>1, StoreFields, StoreAssumption DEF Block
<1>3. v \in Sector /\ v.kind = "snap" BY <1>2, SnapMade
<1>4. Zero \in Sector /\ Zero.kind = "zero" BY ZeroMade
<1>5. d \in Disk /\ b \notin d.bmp /\ h \in Seq(Block) BY <1>1 DEF Shape
<1>6. /\ d1 \in Disk /\ d1.sb = d.sb /\ d1.bmp = d.bmp
      /\ d1.blk = [d.blk EXCEPT ![b] = Zero] /\ d1.blk[b] = Zero
      /\ \A k \in Block : k # b => d1.blk[k] = d.blk[k]
  BY ONLY <1>2, <1>4, <1>5, DiskBlock
<1>7. Shape(d1, h, own) /\ Shows(d1) = Shows(d)
  <2>1. Zero.kind # "abs" /\ Zero.kind # "obj" BY <1>4
  <2>2. Shape(d, h, own) OBVIOUS
  <2> QED BY ONLY <1>2, <1>4, <1>5, <2>1, <2>2, ShapeClear
<1>8. z \in Write /\ y \in Write BY <1>2, <1>3, <1>4, Writes
<1> HIDE DEF v, z
<1>9. Trail(d0, a.log, d1, E)
  <2>1. Safe(d1, E) BY <1>7 DEF Safe
  <2> QED BY <1>1, <1>2, <1>8, <2>1, TrailAppend
<1> HIDE DEF d1
<1>10. /\ d2 \in Disk /\ d2.sb = d1.sb /\ d2.bmp = d1.bmp
       /\ d2.blk = [d1.blk EXCEPT ![b] = v] /\ d2.blk[b] = v
       /\ \A k \in Block : k # b => d2.blk[k] = d1.blk[k]
  <2>1. d1 \in Disk /\ b \in Block /\ v \in Sector BY <1>2, <1>3, <1>6
  <2> HIDE DEF b, w, c
  <2> QED BY ONLY <2>1, DiskBlock
<1>11. Shape(d2, h, own) /\ Shows(d2) = Shows(d1)
  <2>1. v.kind # "abs" /\ v.kind # "obj" BY <1>3
  <2>2. b \notin d1.bmp BY <1>5, <1>6
  <2> QED BY ONLY <1>2, <1>3, <1>7, <2>1, <2>2, ShapeClear
<1>12. a.log \in Seq(Write) BY <1>1, StoreFields
<1>13. /\ w \in Store /\ Frame(a, w) /\ w.blk = [a.blk EXCEPT ![b] = v]
       /\ w.log = Append(a.log, y)
       /\ w.bmp = a.bmp /\ w.bd = a.bd
  <2>1. a \in Store /\ b \in Block /\ v \in Sector BY <1>1, <1>2, <1>3
  <2> HIDE DEF b, c, d2
  <2> QED BY ONLY <2>1, BlockWriteFields
<1> HIDE DEF y, w
<1>14. Trail(d0, w.log, d2, E)
  <2>1. Safe(d2, E) BY <1>7, <1>11 DEF Safe
  <2> QED BY <1>8, <1>9, <1>12, <1>13, <2>1, TrailAppend
<1> HIDE DEF d2
<1>15. /\ c \in Store /\ c.root = b /\ c.tx = w.tx /\ c.blk = w.blk /\ c.log = w.log
       /\ c.bmp = w.bmp /\ c.bd = w.bd
  BY <1>2, <1>13 DEF Store
<1>16. tx_commit([block_write(a, a.r, Snap(s.root, 0)) EXCEPT !.root = a.r]) = tx_commit(c)
  BY DEF w, v
<1> HIDE DEF c
<1>17. c.tx.active /\ c.tx.dirty /\ c.bd BY <1>1, <1>13, <1>15 DEF Frame
<1>18. c.blk = d2.blk /\ d2.sb = d.sb /\ d2.bmp = d.bmp /\ d.bmp \subseteq c.bmp /\ b \in c.bmp
  BY <1>1, <1>6, <1>10, <1>13, <1>15
<1>19. d2.sb # NoSuper BY <1>2, <1>18, StoreAssumption DEF NoSuper
<1>20. \A k \in Block : NoTree[k] = Outside BY EmptyTree
<1>21. Shows(d2) \in E BY <1>7, <1>11
<1>22. Ready(c, d0, E, d2, h, own, NoTree)
  BY <1>11, <1>14, <1>15, <1>17, <1>18, <1>19, <1>20, <1>21 DEF Ready
<1>23. \A i \in DOMAIN h : h[i] # b BY <1>5 DEF Shape
<1>24. \A i \in DOMAIN h : h[i] \in Block BY <1>5
<1>25. load_all(d2.blk, 0) = <<>> BY DEF load_all
<1>26. ASSUME NEW e, Shape(e, h, own), e.bmp = c.bmp, e.blk = c.blk, e.sb = d2.sb
       PROVE  LET f == Written(e, [to |-> "sb", v |-> b])
              IN  Shape(f, h2, NoTree) /\ Shows(f) = <<>>
  <2>1. e.sb # NoSuper /\ b \in Block /\ b \in e.bmp BY <1>2, <1>18, <1>19, <1>26
  <2>2. e.blk[b] = Snap(e.sb, 0) BY <1>10, <1>18, <1>26 DEF v
  <2>3. NoTree \in Labels /\ Tree(e.blk, NoTree) /\ FormsOk(e.blk, NoTree, e.bmp) BY EmptyTree
  <2>4. NoTree[b] = Outside /\ \A i \in DOMAIN h : NoTree[h[i]] = Outside BY <1>2, <1>20, <1>24
  <2>5. RootOk(e.blk, NoTree, e.bmp, 0) BY DEF RootOk
  <2>6. Shape(e, h, own) BY <1>26
  <2> HIDE DEF NoTree
  <2>7. LET f == Written(e, [to |-> "sb", v |-> b])
        IN  Shape(f, Append(h, b), NoTree) /\ Shows(f) = Ordinary(load_all(e.blk, 0))
    BY ONLY <1>2, <1>23, <2>1, <2>2, <2>3, <2>4, <2>5, <2>6, ShapeNewRoot
  <2>8. Ordinary(load_all(e.blk, 0)) = <<>> BY <1>18, <1>25, <1>26, OrdinaryNothing
  <2> QED BY <2>7, <2>8
<1> DEFINE q == <<>>
<1>27. q \in E OBVIOUS
<1>28. Commits(c, d2.sb, h, own, h2, NoTree, q) BY <1>15, <1>26 DEF Commits
<1> HIDE DEF q, h2, NoTree
<1>29. Committed(c, tx_commit(c), d0, E, h2, NoTree, q)
  BY ONLY <1>22, <1>27, <1>28, CommitSettles
<1>30. \E f : Settled(tx_commit(c), d0, E, f, h2, NoTree) BY <1>29 DEF Committed
<1> QED BY <1>16, <1>30 DEF a

\* boot_policy_execute.
LEMMA BootSettles ==
  ASSUME NEW s, NEW d0, NEW E, NEW d, NEW h, NEW own, Mounted(s, d0, E, d, h, own), <<>> \in E
  PROVE  \E f, h2, own2 : Settled(boot_policy(s), d0, E, f, h2, own2)
<1> DEFINE b0 == tx_begin(s)
           s1 == [b0 EXCEPT !.tx.newRoot = 0, !.tx.dirty = TRUE]
           a == alloc_block(s1)
           c == [block_write(a, a.r, Snap(s1.root, 0)) EXCEPT !.root = a.r]
           t == boot_policy(s)
<1>1. /\ s \in Store
      /\ Trail(d0, s.log, d, E) /\ Shape(d, h, own) /\ Shows(d) \in E
      /\ d.blk = s.blk /\ d.sb = s.root /\ d.bmp \subseteq s.bmp /\ (~s.bd => d.bmp = s.bmp)
  BY DEF Mounted
<1>2. BeginFields(s, b0) BY <1>1, TxBegin
<1>3. t = tx_commit(snap_create(s1)) BY DEF boot_policy, publish
<1> HIDE DEF b0
<1>4. 0 \in 0 .. NBLOCKS BY StoreAssumption
<1>5. /\ b0 \in Store /\ b0.tx.active
      /\ b0.blk = s.blk /\ b0.bmp = s.bmp /\ b0.bd = s.bd /\ b0.root = s.root /\ b0.log = s.log
  BY <1>2 DEF BeginFields
<1>6. /\ s1 \in Store /\ s1.tx.active /\ s1.tx.dirty /\ s1.tx.newRoot = 0
      /\ s1.blk = b0.blk /\ s1.bmp = b0.bmp /\ s1.bd = b0.bd /\ s1.root = b0.root /\ s1.log = b0.log
  BY <1>4, <1>5, TxRoot
<1>7. snap_create(s1) = IF a.r = 0 THEN a ELSE c BY <1>6 DEF snap_create, OnSuccess
<1> HIDE DEF s1, t
<1>8. CASE s1.bmp = Block
  <2>1. /\ a \in Store /\ Frame(s1, a) /\ a.r = 0
        /\ a.blk = s1.blk /\ a.log = s1.log /\ a.bmp = s1.bmp /\ a.bd = s1.bd
    BY <1>6, <1>8, AllocFails
  <2> HIDE DEF a
  <2> DEFINE sup == [to |-> "sb", v |-> a.root]
             now == Shows(d)
  <2>2. t = tx_commit(a) BY <1>3, <1>7, <2>1
  <2>3. a.root = d.sb /\ a.tx.active /\ a.tx.dirty BY <1>1, <1>5, <1>6, <2>1 DEF Frame
  <2>4. d.sb # NoSuper
    <3>1. s.root \in 0 .. NBLOCKS BY <1>1, StoreFields
    <3> QED BY <1>1, <3>1, StoreAssumption DEF NoSuper
  <2>5. ASSUME NEW e, Shape(e, h, own), e.bmp = a.bmp, e.blk = a.blk, e.sb = d.sb
        PROVE  Shape(Written(e, sup), h, own) /\ Shows(Written(e, sup)) = now
    <3>1. e \in Disk /\ a.root = e.sb BY <2>3, <2>5 DEF Shape
    <3>2. Written(e, sup) = e BY <3>1, SuperAgain
    <3>3. Shows(e) = now BY <1>1, <1>5, <1>6, <2>1, <2>5 DEF Shows
    <3> QED BY <2>5, <3>2, <3>3
  <2> HIDE DEF now, sup
  <2>6. Commits(a, d.sb, h, own, h, own, now) BY <2>5 DEF sup, Commits
  <2>7. now \in E BY <1>1 DEF now
  <2>8. Ready(a, d0, E, d, h, own, own) BY <1>1, <1>5, <1>6, <1>8, <2>1, <2>3, <2>4 DEF Ready
  <2>9. Committed(a, tx_commit(a), d0, E, h, own, now) BY ONLY <2>6, <2>7, <2>8, CommitSettles
  <2> QED BY <2>2, <2>9 DEF t, Committed
<1>9. CASE s1.bmp # Block
  <2>1. a.r # 0
    <3>1. a.r \in Block BY <1>6, <1>9, AllocSucceeds
    <3> QED BY <3>1 DEF Block
  <2>2. t = tx_commit(c) BY <1>3, <1>7, <2>1
  <2>3. /\ s1 \in Store /\ s1.tx.active /\ s1.tx.dirty /\ s1.bmp # Block /\ <<>> \in E
        /\ Trail(d0, s1.log, d, E) /\ Shape(d, h, own) /\ Shows(d) \in E
        /\ d.blk = s1.blk /\ d.sb = s1.root /\ d.bmp \subseteq s1.bmp
    BY <1>1, <1>5, <1>6, <1>9
  <2>4. \E f, h2, own2 : Settled(tx_commit(c), d0, E, f, h2, own2)
    BY ONLY <2>3, BootSnapshot
  <2> QED BY <2>2, <2>4 DEF t
<1> QED BY <1>8, <1>9

\* A command at work outside a transaction leaves a settled store.
LEMMA WorkSettles ==
  ASSUME NEW s, NEW g, NEW own, Work(s, g, own), s.tx.active = FALSE
  PROVE  \E f, h2, own2 : Settled(s, g.d0, g.E, f, h2, own2)
<1> DEFINE d == DiskNow(s, g)
<1>1. s \in Store BY DEF Work
<1>2. d.blk = s.blk /\ d.sb = g.sb /\ d.bmp = g.bmp BY DEF DiskNow
<1>3. /\ Trail(g.d0, s.log, d, g.E) /\ Shape(d, g.h, Base(g, own)) /\ Shows(d) \in g.E
      /\ s.root = g.sb /\ g.bmp \subseteq s.bmp /\ (~s.bd => g.bmp = s.bmp)
      /\ \A b \in Block : Base(g, own)[b] # Outside => b \in s.bmp
  BY DEF Work
<1> HIDE DEF d
<1>4. Settled(s, g.d0, g.E, d, g.h, Base(g, own)) BY <1>1, <1>2, <1>3 DEF Settled
<1> QED BY <1>4

\* The store that hexafs_format starts with.
LEMMA FormattedFields ==
  ASSUME NEW blk \in Blocks
  PROVE  LET s == Formatted(blk) IN
         /\ s \in Store /\ s.tx.active = FALSE /\ s.blk = blk /\ s.bmp = {} /\ s.bd
         /\ s.root = 0 /\ s.log = <<>> /\ ~s.full /\ ~s.refused
<1> DEFINE x == TRUE
           y == FALSE
           n == [active |-> y, dirty |-> y, newRoot |-> 0]
           l == <<>>
           s == [blk |-> blk, bmp |-> {}, bd |-> x, hint |-> 1, root |-> 0, tx |-> n, log |-> l,
                 r |-> 0, cb |-> l, full |-> y, refused |-> y]
<1>1. x \in Flag /\ y \in Flag BY Flags, Zenon
<1>2. x BY Zenon
<1>3. y = FALSE OBVIOUS
<1>4. 0 \in 0 .. NBLOCKS /\ 1 \in 1 .. NBLOCKS + 1 BY StoreAssumption
<1>5. l \in Seq(Write) /\ l \in Seq(Block) OBVIOUS
<1>6. Formatted(blk) = s BY DEF Formatted, NoTx
<1>7. l = <<>> OBVIOUS
<1> HIDE DEF x, y, l
<1>8. n \in Tx /\ n.active = y BY <1>1, <1>4, TxFlags
<1> HIDE DEF n
<1>9. s \in Store BY <1>1, <1>4, <1>5, <1>8 DEF Store
<1>10. /\ s.tx = n /\ s.blk = blk /\ s.bmp = {} /\ s.bd = x /\ s.root = 0 /\ s.log = l
       /\ s.full = y /\ s.refused = y
  OBVIOUS
<1> HIDE DEF s
<1>11. s.tx.active = FALSE /\ s.bd /\ ~s.full /\ ~s.refused BY <1>2, <1>3, <1>8, <1>10
<1> QED BY <1>6, <1>7, <1>9, <1>10, <1>11

\* Its first two writes: an empty superblock and an empty bitmap.
LEMMA FormatBegins ==
  ASSUME NEW d, NEW h, NEW own, Shape(d, h, own), d.sb = NoSuper, NEW E, Shows(d) \in E
  PROVE  LET s == save_bitmap(write_superblock(Formatted(d.blk))) IN
         /\ ~s.full /\ ~s.refused
         /\ \E f : Settled(s, d, E, f, <<>>, NoTree)
<1> DEFINE s0 == Formatted(d.blk)
           s1 == write_superblock(s0)
           s2 == save_bitmap(s1)
           u == [to |-> "sb", v |-> 0]
           B == {}
           v == [to |-> "bmp", v |-> B]
           d1 == Written(d, u)
           d2 == Written(d1, v)
           l == <<>>
<1>1. d \in Disk /\ d.blk \in Blocks BY DiskFields DEF Shape
<1>2. /\ s0 \in Store /\ s0.tx.active = FALSE /\ s0.blk = d.blk /\ s0.bmp = B /\ s0.bd
      /\ s0.root = 0 /\ s0.log = l /\ ~s0.full /\ ~s0.refused
  BY <1>1, FormattedFields
<1> HIDE DEF s0
<1>3. /\ s1 \in Store /\ Frame(s0, s1) /\ s1.bd = s0.bd /\ s1.bmp = s0.bmp /\ s1.blk = s0.blk
      /\ s1.log = Append(s0.log, [to |-> "sb", v |-> s0.root])
      /\ s1.full = s0.full /\ s1.refused = s0.refused
  BY <1>2, WriteSuperFields
<1>4. s1.log = Append(l, u) BY <1>2, <1>3
<1> HIDE DEF s1
<1>5. /\ s2 \in Store /\ Frame(s1, s2) /\ ~s2.bd /\ s2.bmp = s1.bmp /\ s2.blk = s1.blk
      /\ s1.bd => s2.log = Append(s1.log, [to |-> "bmp", v |-> s1.bmp])
      /\ s2.full = s1.full /\ s2.refused = s1.refused
  BY <1>3, SaveBitmapFields
<1>6. s2.log = Append(Append(l, u), v) BY <1>2, <1>3, <1>4, <1>5
<1> HIDE DEF s2
<1>7. B \in SUBSET Block /\ 0 \in 0 .. NBLOCKS BY StoreAssumption
<1>8. u \in Write /\ v \in Write BY <1>7, Writes
<1>9. /\ Shape(d1, l, NoTree) /\ d1.bmp = B /\ d1.blk = d.blk /\ d1.sb = 0
      /\ Shows(d1) = Shows(d)
  BY ShapeFormat
<1>10. l \in Seq(Write) /\ Append(l, u) \in Seq(Write) BY <1>8
<1> HIDE DEF u, l
<1>11. Trail(d, l, d, E)
  <2>1. Safe(d, E) BY DEF Safe
  <2> QED BY <2>1, TrailEmpty DEF l
<1>12. Trail(d, Append(l, u), d1, E)
  <2>1. Safe(d1, E) BY <1>9 DEF Safe
  <2> QED BY <1>8, <1>10, <1>11, <2>1, TrailAppend
<1> HIDE DEF d1, NoTree
<1>13. d1.sb # NoSuper BY <1>9, StoreAssumption DEF NoSuper
<1>14. Shape(d2, l, NoTree) /\ Shows(d2) = Shows(d1)
  <2>1. d1.bmp \subseteq B BY <1>9
  <2> HIDE DEF B
  <2> QED BY <1>7, <1>9, <1>13, <2>1, ShapeBitmap
<1>15. d2.sb = d1.sb /\ d2.bmp = B /\ d2.blk = d1.blk
  <2>1. d1 \in Disk BY <1>9 DEF Shape
  <2> HIDE DEF B
  <2> QED BY <1>7, <2>1, DiskBitmap
<1> HIDE DEF v
<1>16. Trail(d, s2.log, d2, E)
  <2>1. Safe(d2, E) BY <1>9, <1>14 DEF Safe
  <2> QED BY <1>6, <1>8, <1>10, <1>12, <2>1, TrailAppend
<1> HIDE DEF d2, B
<1>17. s2.root = 0 /\ s2.tx.active = FALSE BY <1>2, <1>3, <1>5 DEF Frame
<1>18. \A b \in Block : NoTree[b] = Outside BY EmptyTree
<1>19. s2.bmp = B /\ s2.blk = d.blk BY <1>2, <1>3, <1>5
<1>20. Shows(d2) \in E BY <1>9, <1>14
<1>21. Settled(s2, d, E, d2, l, NoTree)
  BY <1>5, <1>9, <1>14, <1>15, <1>16, <1>17, <1>18, <1>19, <1>20 DEF Settled
<1>22. ~s2.full /\ ~s2.refused BY <1>2, <1>3, <1>5
<1> QED BY <1>21, <1>22 DEF s2, s1, s0, l

\* hexafs_format: the disk ends with an empty root, wherever it stops.
LEMMA FormatSettles ==
  ASSUME NEW d, NEW h, NEW own, Shape(d, h, own), d.sb = NoSuper, NEW E, <<>> \in E
  PROVE  \E f, h2, own2 : Settled(format(d.blk), d, E, f, h2, own2)
<1> DEFINE s == save_bitmap(write_superblock(Formatted(d.blk)))
           l == <<>>
           a == abstraction_create(s)
           A == a.r
           b == tx_begin(a)
           t == format(d.blk)
<1>1. Shows(d) = l
  <2>1. d.sb \notin Block BY StoreAssumption DEF NoSuper, Block
  <2> QED BY <2>1, OrdinaryNothing DEF Shows, Loaded
<1>2. t = IF A = 0 THEN a ELSE publish(b, A) BY DEF format, OnSuccess
<1>3. l \in E OBVIOUS
<1>4. ~s.full /\ ~s.refused /\ \E f : Settled(s, d, E, f, l, NoTree)
  BY <1>1, <1>3, FormatBegins
<1> HIDE DEF s
<1>5. PICK f : Settled(s, d, E, f, l, NoTree) BY <1>4
<1> DEFINE g == Ghost(d, E, f, l, "new", NoTree)
<1>6. s \in Store /\ s.tx.active = FALSE BY <1>5 DEF Settled
<1>7. g.d0 = d /\ g.E = E /\ g.mode = "new" BY GhostFields
<1>8. BeginFields(s, tx_begin(s)) BY <1>6, TxBegin
<1>9. Work(tx_begin(s), g, NoTree) BY <1>5, <1>8, BeginWork
<1> HIDE DEF g
<1>10. Work(s, g, NoTree)
  <2> DEFINE z == tx_begin(s)
  <2>1. /\ s.blk = z.blk /\ s.log = z.log /\ s.root = z.root /\ z.bmp \subseteq s.bmp
        /\ s.bmp = z.bmp /\ s.bd = z.bd
    BY <1>8 DEF BeginFields
  <2> HIDE DEF z
  <2>2. Work(z, g, NoTree) BY <1>9 DEF z
  <2> QED BY <1>6, <2>1, <2>2, WorkFields
<1>11. /\ a \in Store /\ Frame(s, a) /\ a.refused = s.refused
       /\ A = 0 => Work(a, g, NoTree)
       /\ A # 0 => a.full = s.full
  BY <1>10, WorkAbstraction
<1>12. A # 0 => A \in Block /\ \E own1 : Saved(a, a, own1, g, A, l, 0) BY <1>10, NothingSaved
<1>13. a.tx.active = FALSE BY <1>6, <1>11 DEF Frame
<1> HIDE DEF a, t, NoTree
<1>14. CASE A = 0
  <2>1. \E e, h2, own2 : Settled(a, g.d0, g.E, e, h2, own2) BY <1>11, <1>13, <1>14, WorkSettles
  <2> QED BY <1>2, <1>7, <1>14, <2>1 DEF t
<1>15. CASE A # 0
  <2>1. PICK own1 : Saved(a, a, own1, g, A, l, 0) BY <1>12, <1>15
  <2>2. A \in Block /\ A \in 0 .. NBLOCKS BY <1>12, <1>15 DEF Block
  <2>3. l \in Seq(FormRec) /\ Len(l) = 0 OBVIOUS
  <2>4. Len(l) <= MAX_FORMS /\ Len(l) <= ABS_MAX_ENTRIES
    BY <2>3, FSAssumption, StoreAssumption
  <2>5. Saved(a, a, own1, g, A, l, Len(l)) BY <2>1, <2>3
  <2>6. Work(a, g, own1) /\ InTree(a.blk, own1, A) BY <2>1 DEF Saved
  <2>7. Ordinary(l) = l BY OrdinaryNothing
  <2> HIDE DEF l, A
  <2>8. LET q == load_all(a.blk, A) IN
        /\ q \in Seq(FormRec) /\ Within(q, l)
        /\ ~a.full /\ ~a.refused /\ Len(l) <= ABS_MAX_ENTRIES => Ordinary(q) = Ordinary(l)
        /\ \A o \in Block : IsForm(a.blk, own1, o) =>
              a.blk[o].kind = "obj" /\ AsForm(a.blk, o).k = "form"
    BY ONLY <2>2, <2>3, <2>4, <2>5, SavedLoads
  <2>9. ~a.full /\ ~a.refused BY <1>4, <1>11, <1>15
  <2>10. Ordinary(load_all(a.blk, A)) = l BY <2>4, <2>7, <2>8, <2>9
  <2>11. BeginFields(a, b) BY <1>11, TxBegin
  <2>12. /\ b \in Store /\ b.tx.active /\ b.blk = a.blk /\ b.bmp = a.bmp /\ b.bd = a.bd
         /\ b.root = a.root /\ b.log = a.log
    BY <2>11 DEF BeginFields
  <2> HIDE DEF b
  <2>13. Work(b, g, own1)
    <3>1. b \in Store /\ b.blk = a.blk /\ b.log = a.log /\ b.root = a.root /\ a.bmp \subseteq b.bmp
          /\ b.bmp = a.bmp /\ b.bd = a.bd
      BY <2>12
    <3> QED BY <2>6, <3>1, WorkFields
  <2>14. A # 0 => InTree(b.blk, own1, A) BY <2>6, <2>12
  <2>15. \A o \in Block : IsForm(b.blk, own1, o) =>
              b.blk[o].kind = "obj" /\ AsForm(b.blk, o).k = "form"
    BY <2>8, <2>12
  <2>16. Ordinary(load_all(b.blk, A)) \in g.E BY <1>3, <1>7, <2>10, <2>12
  <2>17. b.tx.active BY <2>12
  <2>18. LET z == publish(b, A) IN
         /\ z.refused = b.refused /\ (b.full => z.full)
         /\ \E e, h2, own2 : /\ Settled(z, g.d0, g.E, e, h2, own2)
                             /\ ~z.full => Shows(e) = Ordinary(load_all(b.blk, A))
    BY ONLY <2>2, <2>13, <2>14, <2>15, <2>16, <2>17, WorkPublish
  <2>19. t = publish(b, A) BY <1>2, <1>15
  <2> QED BY <1>7, <2>18, <2>19 DEF t
<1> QED BY <1>14, <1>15

-----------------------------------------------------------------------------
(***************************************************************************)
(* Starting from the disk: the store of a command and of a boot.           *)
(***************************************************************************)

\* The store a command starts with.
LEMMA RunningFields ==
  ASSUME disk \in Disk, NEW m, m.bmp \in SUBSET Block, m.bd \in Flag,
         m.hint \in 1 .. NBLOCKS + 1, m.root \in 0 .. NBLOCKS
  PROVE  LET s == Running(m) IN
         /\ s \in Store /\ s.tx.active = FALSE /\ s.blk = disk.blk /\ s.bmp = m.bmp /\ s.bd = m.bd
         /\ s.root = m.root /\ s.log = <<>> /\ ~s.full /\ ~s.refused
<1> DEFINE y == FALSE
           n == [active |-> y, dirty |-> y, newRoot |-> 0]
           l == <<>>
           s == [blk |-> disk.blk, bmp |-> m.bmp, bd |-> m.bd, hint |-> m.hint, root |-> m.root,
                 tx |-> n, log |-> l, r |-> 0, cb |-> l, full |-> y, refused |-> y]
<1>1. y \in Flag BY Flags, Zenon
<1>2. y = FALSE OBVIOUS
<1>3. 0 \in 0 .. NBLOCKS BY StoreAssumption
<1>4. l \in Seq(Write) /\ l \in Seq(Block) OBVIOUS
<1>5. Running(m) = s BY DEF Running, NoTx
<1>6. l = <<>> OBVIOUS
<1>7. disk.blk \in Blocks BY DiskFields
<1> HIDE DEF y, l
<1>8. n \in Tx /\ n.active = y BY <1>1, <1>3, TxFlags
<1> HIDE DEF n
<1>9. s \in Store BY <1>1, <1>3, <1>4, <1>7, <1>8 DEF Store
<1>10. /\ s.tx = n /\ s.blk = disk.blk /\ s.bmp = m.bmp /\ s.bd = m.bd /\ s.root = m.root
       /\ s.log = l /\ s.full = y /\ s.refused = y
  OBVIOUS
<1> HIDE DEF s
<1>11. s.tx.active = FALSE /\ ~s.full /\ ~s.refused BY <1>2, <1>8, <1>10
<1> QED BY <1>5, <1>6, <1>9, <1>10, <1>11

\* It is mounted on the disk as it is.
LEMMA RunningMounted ==
  ASSUME NEW h, NEW own, Shape(disk, h, own), NEW E, Shows(disk) \in E,
         NEW m, m.bmp \in SUBSET Block, m.bd \in Flag,
         m.hint \in 1 .. NBLOCKS + 1, m.root \in 0 .. NBLOCKS,
         disk.sb = m.root, disk.bmp \subseteq m.bmp, ~m.bd => disk.bmp = m.bmp
  PROVE  Mounted(Running(m), disk, E, disk, h, own)
<1> DEFINE s == Running(m)
           l == <<>>
<1>1. disk \in Disk BY DEF Shape
<1>2. /\ s \in Store /\ s.tx.active = FALSE /\ s.blk = disk.blk /\ s.bmp = m.bmp /\ s.bd = m.bd
      /\ s.root = m.root /\ s.log = l
  BY <1>1, RunningFields
<1>3. Trail(disk, l, disk, E)
  <2>1. Safe(disk, E) BY DEF Safe
  <2> QED BY <2>1, TrailEmpty
<1> HIDE DEF s, l
<1>4. Mounted(s, disk, E, disk, h, own) BY <1>2, <1>3 DEF Mounted
<1> QED BY <1>4 DEF s

\* useradd and passwd save twice: what holds of one save holds of two.
LEMMA SettledSaveTwice ==
  ASSUME NEW s, NEW d0, NEW E, NEW d, NEW h, NEW own, Settled(s, d0, E, d, h, own),
         NEW m, m.forms \in Seq(FormRec), Len(m.forms) <= MAX_FORMS, Ordinary(m.forms) \in E,
         m.users \in Seq(Item), Len(m.users) \in 1 .. MAX_USERS,
         LET t == save_data(save_data(s, m), m)
         IN  t.full \/ t.refused \/ ~(Len(m.forms) <= ABS_MAX_ENTRIES) => Partial(E, m.forms)
  PROVE  LET t == save_data(save_data(s, m), m) IN
         /\ ~t.full /\ ~t.refused /\ Len(m.forms) <= ABS_MAX_ENTRIES => Kept(t.blk, t.root, m, "data")
         /\ \E f, h2, own2 : Settled(t, d0, E, f, h2, own2)
<1> DEFINE a == save_data(s, m)
           t == save_data(a, m)
           W == E \cup {Ordinary(q) : q \in Seq(FormRec)}
<1>1. /\ m.forms \in Seq(FormRec) /\ Len(m.forms) <= MAX_FORMS /\ Ordinary(m.forms) \in E
      /\ m.users \in Seq(Item) /\ Len(m.users) \in 1 .. MAX_USERS
  OBVIOUS
<1>2. t.full \/ t.refused \/ ~(Len(m.forms) <= ABS_MAX_ENTRIES) => Partial(E, m.forms) OBVIOUS
<1> HIDE DEF t
<1>3. ASSUME NEW F, E \subseteq F,
             a.full \/ a.refused \/ ~(Len(m.forms) <= ABS_MAX_ENTRIES) => Partial(F, m.forms)
      PROVE  \E f, h2, own2 : Settled(a, d0, F, f, h2, own2)
  <2>1. Settled(s, d0, F, d, h, own) BY <1>3, SettledWider
  <2>2. Ordinary(m.forms) \in F BY <1>1, <1>3
  <2>3. LET u == save_data(s, m) IN
        u.full \/ u.refused \/ ~(Len(m.forms) <= ABS_MAX_ENTRIES) => Partial(F, m.forms)
    BY <1>3
  <2>4. LET u == save_data(s, m) IN
         /\ s.full => u.full
         /\ s.refused => u.refused
         /\ ~u.full /\ ~u.refused /\ Len(m.forms) <= ABS_MAX_ENTRIES => Kept(u.blk, u.root, m, "data")
         /\ \E f, h2, own2 : Settled(u, d0, F, f, h2, own2)
    BY ONLY <1>1, <2>1, <2>2, <2>3, SettledSave
  <2> QED BY <2>4
<1> HIDE DEF a
<1>4. ASSUME NEW F, E \subseteq F,
             a.full \/ a.refused \/ ~(Len(m.forms) <= ABS_MAX_ENTRIES) => Partial(F, m.forms),
             t.full \/ t.refused \/ ~(Len(m.forms) <= ABS_MAX_ENTRIES) => Partial(F, m.forms)
      PROVE  /\ a.full => t.full
             /\ a.refused => t.refused
             /\ ~t.full /\ ~t.refused /\ Len(m.forms) <= ABS_MAX_ENTRIES => Kept(t.blk, t.root, m, "data")
             /\ \E f, h2, own2 : Settled(t, d0, F, f, h2, own2)
  <2>1. PICK d1, h1, own1 : Settled(a, d0, F, d1, h1, own1) BY <1>3, <1>4
  <2>2. Ordinary(m.forms) \in F BY <1>1, <1>4
  <2>3. LET u == save_data(a, m) IN
        u.full \/ u.refused \/ ~(Len(m.forms) <= ABS_MAX_ENTRIES) => Partial(F, m.forms)
    BY <1>4 DEF t
  <2>4. LET u == save_data(a, m) IN
         /\ a.full => u.full
         /\ a.refused => u.refused
         /\ ~u.full /\ ~u.refused /\ Len(m.forms) <= ABS_MAX_ENTRIES => Kept(u.blk, u.root, m, "data")
         /\ \E f, h2, own2 : Settled(u, d0, F, f, h2, own2)
    BY ONLY <1>1, <2>1, <2>2, <2>3, SettledSave
  <2> QED BY <2>4 DEF t
<1>5. /\ (a.full => t.full) /\ (a.refused => t.refused)
      /\ ~t.full /\ ~t.refused /\ Len(m.forms) <= ABS_MAX_ENTRIES => Kept(t.blk, t.root, m, "data")
  <2>1. E \subseteq W OBVIOUS
  <2>2. Partial(W, m.forms) BY DEF Partial
  <2> HIDE DEF W
  <2> QED BY <1>4, <2>1, <2>2
<1>6. \E f, h2, own2 : Settled(t, d0, E, f, h2, own2) BY <1>2, <1>4, <1>5
<1> QED BY <1>5, <1>6 DEF t, a

\* What load_users and pimp_load_rules make of the object they read.
LEMMA TablesTyped ==
  ASSUME NEW p \in Payload
  PROVE  /\ UsersIn(p) \in Seq(Item) /\ Len(UsersIn(p)) \in 1 .. MAX_USERS
         /\ PimpIn(p) \in Seq(Item)
<1>1. /\ p.list \in Seq(Item) /\ Len(p.list) \in Nat
      /\ p.k \in {"users", "cutusers"} => Len(p.list) \in 1 .. MAX_USERS
  BY PayloadFacts
<1>2. MAX_USERS \in Nat \ {0} BY FSAssumption
<1>3. {"cut", "torn", "root"} \subseteq Item BY DEF Item
<1> DEFINE c == <<"cut">> \o Tail(p.list)
<1>4. p.list # <<>> => c \in Seq(Item) /\ Len(c) = Len(p.list) BY <1>1, <1>3
<1>5. p.k \in {"users", "cutusers"} => p.list # <<>> BY <1>1
<1>6. <<"torn">> \in Seq(Item) /\ Len(<<"torn">>) = 1 BY <1>3
<1>7. InitUsers \in Seq(Item) /\ Len(InitUsers) = 1 BY <1>3 DEF InitUsers
<1>8. <<>> \in Seq(Item) OBVIOUS
<1>9. \/ UsersIn(p) = p.list /\ p.k = "users"
      \/ UsersIn(p) = c /\ p.k = "cutusers"
      \/ UsersIn(p) = <<"torn">>
      \/ UsersIn(p) = InitUsers
  BY DEF UsersIn
<1>10. \/ PimpIn(p) = p.list
       \/ PimpIn(p) = c /\ p.list # <<>>
       \/ PimpIn(p) = <<"torn">>
       \/ PimpIn(p) = <<>>
  BY DEF PimpIn
<1> HIDE DEF c
<1>11. UsersIn(p) \in Seq(Item) /\ Len(UsersIn(p)) \in 1 .. MAX_USERS
  <2>1. 1 \in 1 .. MAX_USERS BY <1>2
  <2> QED BY <1>1, <1>4, <1>5, <1>6, <1>7, <1>9, <2>1
<1>12. PimpIn(p) \in Seq(Item) BY <1>1, <1>4, <1>6, <1>8, <1>10
<1> QED BY <1>11, <1>12

\* What a session holds in memory, or a boot would load.
Session == [forms : Seq(FormRec), users : Seq(Item), pimp : Seq(Item)]
Holds(l) == /\ l.forms \in Seq(FormRec) /\ Len(l.forms) <= MAX_FORMS
            /\ l.users \in Seq(Item) /\ Len(l.users) \in 1 .. MAX_USERS
            /\ l.pimp \in Seq(Item)

\* Everything load_data finds on a sound disk is well formed.
LEMMA LoadTyped ==
  ASSUME NEW d, NEW h, NEW own, Shape(d, h, own), d.sb \in 0 .. NBLOCKS
  PROVE  LET l == load_data(d.blk, d.sb) IN Holds(l) /\ l.forms = Loaded(d.blk, d.sb)
<1> DEFINE A == RootObject(d.blk, d.sb)
           l == load_data(d.blk, d.sb)
<1>1. d \in Disk /\ d.blk \in Blocks /\ own \in Labels /\ Tree(d.blk, own) BY DiskFields DEF Shape
<1>2. A # 0 => A \in Block /\ own[A] = 0
  <2>1. CASE d.sb \in Block BY <2>1, ShapeRoot DEF InTree
  <2>2. CASE d.sb \notin Block
    <3>1. d.sb = 0 BY <2>2 DEF Block
    <3> QED BY <3>1 DEF RootObject
  <2> QED BY <2>1, <2>2
<1>3. l.forms = Loaded(d.blk, d.sb)
  <2>1. l.forms = load_all(d.blk, A) BY DEF load_data
  <2>2. CASE d.sb \in Block BY <2>1, <2>2 DEF Loaded
  <2>3. CASE d.sb \notin Block
    <3>1. d.sb = 0 BY <2>3 DEF Block
    <3>2. A = 0 BY <3>1 DEF RootObject
    <3> HIDE DEF A
    <3>3. load_all(d.blk, A) = <<>> BY <3>2 DEF load_all
    <3> QED BY <2>1, <2>3, <3>3 DEF Loaded
  <2> QED BY <2>2, <2>3
<1>4. /\ l.users = UsersIn(ReadNamed(d.blk, A, DotUsers))
      /\ l.pimp = PimpIn(ReadNamed(d.blk, A, DotPimp))
  BY DEF load_data, load_users, pimp_load_rules
<1> HIDE DEF A, l
<1>5. ASSUME NEW name PROVE ReadNamed(d.blk, A, name) \in Payload
  <2> DEFINE o == IF A = 0 THEN 0 ELSE abstraction_find(d.blk, A, name)
  <2>1. ReadNamed(d.blk, A, name) = IF o = 0 THEN NoData ELSE object_read_data(d.blk, o)
    BY DEF ReadNamed
  <2>2. CASE o = 0 BY <2>1, <2>2, PayloadMade
  <2>3. CASE o # 0
    <3>1. A # 0 /\ o = abstraction_find(d.blk, A, name) BY <2>3
    <3> HIDE DEF o
    <3>2. PICK e : EntryOf(d.blk, own, e) /\ e.obj = o BY <1>1, <1>2, <2>3, <3>1, FindEntry
    <3>3. Entered(d.blk, own, o) BY <3>2, Zenon DEF EntryOf, Entered
    <3>4. o \in Block BY <1>1, <3>3, FormsEntered
    <3> QED BY <1>1, <2>1, <2>3, <3>4, ReadTyped
  <2> QED BY <2>2, <2>3
<1>6. Loaded(d.blk, d.sb) \in Seq(FormRec) /\ Len(Loaded(d.blk, d.sb)) <= MAX_FORMS BY LoadedTyped
<1>7. Holds(l) BY <1>3, <1>4, <1>5, <1>6, TablesTyped DEF Holds
<1> QED BY <1>3, <1>7 DEF l

\* hexafs_mount, on a disk with a superblock and on one without.
LEMMA MountMounts ==
  ASSUME NEW h, NEW own, Shape(disk, h, own), NEW E, Shows(disk) \in E, <<>> \in E
  PROVE  \E f, h2, own2 : Mounted(mount, disk, E, f, h2, own2)
<1>1. CASE disk.sb = NoSuper
  <2>1. mount = format(disk.blk) BY <1>1 DEF mount
  <2>2. PICK f, h2, own2 : Settled(format(disk.blk), disk, E, f, h2, own2) BY <1>1, FormatSettles
  <2>3. Mounted(mount, disk, E, f, h2, own2) BY <2>1, <2>2 DEF Settled, Mounted
  <2> QED BY <2>3
<1>2. CASE disk.sb # NoSuper
  <2> DEFINE x == FALSE
             m == [bmp |-> disk.bmp, bd |-> x, hint |-> 1, root |-> disk.sb]
  <2>1. x \in Flag BY Flags, Zenon
  <2>2. mount = Running(m) BY <1>2 DEF mount, bitmap_load
  <2>3. disk.bmp \in SUBSET Block /\ disk.sb \in 0 .. NBLOCKS /\ 1 \in 1 .. NBLOCKS + 1
    BY <1>2, DiskFields, StoreAssumption DEF Shape, NoSuper
  <2> HIDE DEF x
  <2>4. m.bmp = disk.bmp /\ m.bd = x /\ m.hint = 1 /\ m.root = disk.sb OBVIOUS
  <2> HIDE DEF m
  <2>5. /\ m.bmp \in SUBSET Block /\ m.bd \in Flag
        /\ m.hint \in 1 .. NBLOCKS + 1 /\ m.root \in 0 .. NBLOCKS
        /\ disk.sb = m.root /\ disk.bmp \subseteq m.bmp /\ (~m.bd => disk.bmp = m.bmp)
    BY <2>1, <2>3, <2>4
  <2>6. Mounted(Running(m), disk, E, disk, h, own) BY <2>5, RunningMounted
  <2> QED BY <2>2, <2>6
<1> QED BY <1>1, <1>2

-----------------------------------------------------------------------------
(***************************************************************************)
(* The inductive invariant.                                                *)
(***************************************************************************)
Memory == [bmp : SUBSET Block, bd : Flag, hint : 1 .. NBLOCKS + 1, root : 0 .. NBLOCKS,
           forms : Seq(FormRec), users : Seq(Item), pimp : Seq(Item)]
Kinds == {"none", "data", "pimp", "mem", "boot"}
Record == [commands : Nat, boots : Nat, crashes : Nat, saved : Flag, last : Kinds,
           base : Session, shut : Session, shutSaved : Flag, clean : Flag,
           full : Flag, refused : Flag]

\* The contents a boot may find until the writes of the last command are out:
\* those from before it; those it saves, or some of them if they do not fit;
\* none, after the snapshot of the boot policy.
Some(forms) == {Ordinary(q) : q \in {x \in Seq(FormRec) : Within(x, forms)}}
May(last, base, forms, fits) ==
  {Ordinary(base)} \cup
    (CASE last = "data" -> {Ordinary(forms)} \cup (IF fits THEN {} ELSE Some(forms))
       [] last = "boot" -> {<<>>}
       [] OTHER -> {})
Expected == May(hist.last, hist.base.forms, mem.forms, Fits)

\* The session has saved, and everything has fitted.
Sure == hist.saved /\ Fits

\* The writes p lead from disk dk to one that the memory m agrees with, and from
\* which, when sure, a boot would load what m holds.
Live(dk, p, m, E, sure, kind) ==
  \E d, h, own :
    /\ Trail(dk, p, d, E) /\ Shape(d, h, own) /\ Shows(d) \in E
    /\ d.sb = m.root /\ d.bmp \subseteq m.bmp /\ (~m.bd => d.bmp = m.bmp)
    /\ \A b \in Block : own[b] # Outside => b \in m.bmp
    /\ sure => Kept(d.blk, d.sb, m, kind)

Typed == mem \in Memory /\ Holds(mem) /\ hist \in Record /\ pend \in Seq(Write)

Inv == /\ Typed
       /\ on => Live(disk, pend, mem, Expected, Sure, hist.last)
       /\ ~on => pend = <<>> /\ \E h, own : Shape(disk, h, own)

\* A boot may find what it found before, and what is saved.
LEMMA MayFind ==
  ASSUME NEW last, NEW base, NEW forms, NEW fits
  PROVE  LET E == May(last, base, forms, fits) IN
         /\ Ordinary(base) \in E
         /\ last = "data" => Ordinary(forms) \in E /\ (~fits => Partial(E, forms))
         /\ last = "boot" => <<>> \in E
<1> DEFINE E == May(last, base, forms, fits)
<1>1. Ordinary(base) \in E BY DEF May
<1>2. last = "data" => Ordinary(forms) \in E BY DEF May
<1>3. last = "boot" => <<>> \in E BY DEF May
<1>4. last = "data" /\ ~fits => Some(forms) \subseteq E BY DEF May
<1>5. ASSUME Some(forms) \subseteq E PROVE Partial(E, forms)
  <2> HIDE DEF E
  <2> QED BY <1>5 DEF Some, Partial
<1> QED BY <1>1, <1>2, <1>3, <1>4, <1>5

\* The disk is sound at every moment.
LEMMA InvShape ==
  ASSUME Inv
  PROVE  \E h, own : Shape(disk, h, own)
<1>1. CASE ~on BY <1>1 DEF Inv
<1>2. CASE on
  <2>1. PICK d, h, own : Trail(disk, pend, d, Expected) BY <1>2 DEF Inv, Live
  <2>2. pend \in Seq(Write) BY DEF Inv, Typed
  <2>3. Safe(disk, Expected) BY <2>1, <2>2, TrailEnds
  <2> QED BY <2>3 DEF Safe
<1> QED BY <1>1, <1>2

\* What a boot would load now.
LEMMA RecoveredTyped ==
  ASSUME NEW h, NEW own, Shape(disk, h, own)
  PROVE  /\ Recovered \in Session /\ Holds(Recovered)
         /\ Recovered.forms = Loaded(disk.blk, disk.sb)
<1>1. disk.sb \in 0 .. NBLOCKS + 1 BY DiskFields DEF Shape
<1>2. CASE disk.sb = NoSuper
  <2>1. Recovered = Nothing BY <1>2 DEF Recovered
  <2>2. <<>> \in Seq(FormRec) /\ <<>> \in Seq(Item) OBVIOUS
  <2>3. InitUsers \in Seq(Item) /\ Len(InitUsers) = 1 BY DEF InitUsers, Item
  <2>4. Nothing.forms = <<>> /\ Nothing.users = InitUsers /\ Nothing.pimp = <<>> BY DEF Nothing
  <2>5. Nothing \in Session BY <2>2, <2>3 DEF Nothing, Session
  <2>6. Len(<<>>) <= MAX_FORMS /\ 1 \in 1 .. MAX_USERS BY FSAssumption
  <2>7. Holds(Nothing) BY <2>2, <2>3, <2>4, <2>6 DEF Holds
  <2>8. Loaded(disk.blk, disk.sb) = <<>> BY <1>2, StoreAssumption DEF Loaded, NoSuper, Block
  <2> QED BY <2>1, <2>4, <2>5, <2>7, <2>8
<1>3. CASE disk.sb # NoSuper
  <2>1. Recovered = load_data(disk.blk, disk.sb) BY <1>3 DEF Recovered
  <2>2. disk.sb \in 0 .. NBLOCKS BY <1>1, <1>3, StoreAssumption DEF NoSuper
  <2>3. LET l == load_data(disk.blk, disk.sb) IN Holds(l) /\ l.forms = Loaded(disk.blk, disk.sb)
    BY <2>2, LoadTyped
  <2>4. Recovered = [forms |-> Recovered.forms, users |-> Recovered.users, pimp |-> Recovered.pimp]
    BY <2>1 DEF load_data
  <2>5. Holds(Recovered) BY <2>1, <2>3
  <2>6. Recovered \in Session
    <3>1. /\ Recovered.forms \in Seq(FormRec) /\ Recovered.users \in Seq(Item)
          /\ Recovered.pimp \in Seq(Item)
      BY <2>5 DEF Holds
    <3> QED BY <2>4, <3>1 DEF Session
  <2> QED BY <2>1, <2>3, <2>6
<1> QED BY <1>2, <1>3

\* A settled store and a memory that agrees with it.
LEMMA SettledLive ==
  ASSUME NEW s, NEW dk, NEW E, NEW f, NEW h, NEW own, Settled(s, dk, E, f, h, own),
         NEW m, m.root = s.root, m.bmp = s.bmp, m.bd = s.bd,
         NEW sure, NEW kind, sure => Kept(s.blk, s.root, m, kind)
  PROVE  Live(dk, s.log, m, E, sure, kind)
<1>1. f.blk = s.blk /\ f.sb = s.root BY DEF Settled
<1>2. sure => Kept(f.blk, f.sb, m, kind) BY <1>1
<1> QED BY <1>2 DEF Settled, Live

\* The fields of the memory that belong to the store.
SameStore(m) == m.bmp = mem.bmp /\ m.bd = mem.bd /\ m.hint = mem.hint /\ m.root = mem.root

\* A command starts from a settled store.
LEMMA CommandStarts ==
  ASSUME Inv, on, pend = <<>>, NEW m, SameStore(m)
  PROVE  \E h, own : /\ Shape(disk, h, own)
                     /\ \A E : Shows(disk) \in E => Settled(Running(m), disk, E, disk, h, own)
                     /\ Sure => Kept(Running(m).blk, Running(m).root, mem, hist.last)
<1>1. PICK d, h, own :
         /\ Trail(disk, pend, d, Expected) /\ Shape(d, h, own)
         /\ d.sb = mem.root /\ d.bmp \subseteq mem.bmp /\ (~mem.bd => d.bmp = mem.bmp)
         /\ \A b \in Block : own[b] # Outside => b \in mem.bmp
         /\ Sure => Kept(d.blk, d.sb, mem, hist.last)
  BY DEF Inv, Live
<1>2. pend \in Seq(Write) /\ mem \in Memory BY DEF Inv, Typed
<1>3. d = disk BY <1>1, <1>2, TrailEnds
<1>4. /\ mem.bmp \in SUBSET Block /\ mem.bd \in Flag
      /\ mem.hint \in 1 .. NBLOCKS + 1 /\ mem.root \in 0 .. NBLOCKS
  BY <1>2 DEF Memory
<1>5. ASSUME NEW E, Shows(disk) \in E PROVE Settled(Running(m), disk, E, disk, h, own)
  <2>1. /\ Shape(disk, h, own) /\ m.bmp \in SUBSET Block /\ m.bd \in Flag
        /\ m.hint \in 1 .. NBLOCKS + 1 /\ m.root \in 0 .. NBLOCKS
        /\ disk.sb = m.root /\ disk.bmp \subseteq m.bmp /\ (~m.bd => disk.bmp = m.bmp)
    BY <1>1, <1>3, <1>4 DEF SameStore
  <2>2. Mounted(Running(m), disk, E, disk, h, own) BY <1>5, <2>1, RunningMounted
  <2>3. Running(m).bmp = m.bmp
    <3>1. disk \in Disk BY <2>1 DEF Shape
    <3> QED BY <2>1, <3>1, RunningFields
  <2>4. \A b \in Block : own[b] # Outside => b \in Running(m).bmp BY <1>1, <2>3 DEF SameStore
  <2> QED BY <2>2, <2>4 DEF Mounted, Settled
<1>6. Running(m).blk = disk.blk /\ Running(m).root = disk.sb
  <2>1. disk \in Disk BY <1>1, <1>3 DEF Shape
  <2>2. /\ m.bmp \in SUBSET Block /\ m.bd \in Flag
        /\ m.hint \in 1 .. NBLOCKS + 1 /\ m.root \in 0 .. NBLOCKS /\ disk.sb = m.root
    BY <1>1, <1>3, <1>4 DEF SameStore
  <2> QED BY <2>1, <2>2, RunningFields
<1>7. Sure => Kept(Running(m).blk, Running(m).root, mem, hist.last) BY <1>1, <1>3, <1>6
<1> QED BY <1>1, <1>3, <1>5, <1>7

\* The memory with the store fields of another store.
LEMMA MemoryFields ==
  ASSUME NEW m \in Memory, NEW s \in Store
  PROVE  LET n == [m EXCEPT !.bmp = s.bmp, !.bd = s.bd, !.hint = s.hint, !.root = s.root]
         IN /\ n \in Memory /\ n.bmp = s.bmp /\ n.bd = s.bd /\ n.root = s.root
            /\ n.forms = m.forms /\ n.users = m.users /\ n.pimp = m.pimp
BY DEF Memory, Store

\* What the command fits into, before it is recorded.
FitsAfter(m, s) == /\ ~(hist.full \/ s.full) /\ ~(hist.refused \/ s.refused)
                   /\ Len(m.forms) <= ABS_MAX_ENTRIES
ExpectedAfter(m, s, kind) == May(kind, Recovered.forms, m.forms, FitsAfter(m, s))
SureAfter(m, s, kind) ==
  (kind = "data" \/ (hist.saved /\ kind = "pimp")) /\ FitsAfter(m, s)

\* The step of a command whose store ends settled.
LEMMA IssueStep ==
  ASSUME Inv, NEW m \in Memory, Holds(m), NEW s, NEW kind \in Kinds, Issue(m, s, kind),
         NEW f, NEW h, NEW own, Settled(s, disk, ExpectedAfter(m, s, kind), f, h, own),
         SureAfter(m, s, kind) => Kept(s.blk, s.root, m, kind)
  PROVE  Inv'
<1> DEFINE a == kind = "data" \/ (hist.saved /\ kind = "pimp")
           ff == hist.full \/ s.full
           rr == hist.refused \/ s.refused
           b == Recovered
           c == hist.commands + 1
<1>1. on /\ UNCHANGED <<disk, on>> /\ pend' = s.log BY DEF Issue
<1>2. mem' = [m EXCEPT !.bmp = s.bmp, !.bd = s.bd, !.hint = s.hint, !.root = s.root] BY DEF Issue
<1>3. hist' = [hist EXCEPT !.commands = c, !.saved = a, !.last = kind, !.base = b,
                           !.full = ff, !.refused = rr]
  BY DEF Issue
<1>4. a \in Flag /\ ff \in Flag /\ rr \in Flag BY Zenon DEF Flag
<1>5. hist \in Record BY DEF Inv, Typed
<1>6. c \in Nat BY <1>5 DEF Record
<1>7. b \in Session
  <2>1. PICK h0, own0 : Shape(disk, h0, own0) BY InvShape
  <2> QED BY <2>1, RecoveredTyped
<1>8. s \in Store /\ s.log \in Seq(Write) BY StoreFields DEF Settled
<1>9. /\ mem' \in Memory /\ mem'.bmp = s.bmp /\ mem'.bd = s.bd /\ mem'.root = s.root
      /\ mem'.forms = m.forms /\ mem'.users = m.users /\ mem'.pimp = m.pimp
  BY <1>2, <1>8, MemoryFields
<1>17. SureAfter(m, s, kind) <=> a /\ FitsAfter(m, s) BY DEF SureAfter
<1>10. FitsAfter(m, s) = (~ff /\ ~rr /\ Len(m.forms) <= ABS_MAX_ENTRIES) BY DEF FitsAfter
<1> HIDE DEF a, ff, rr, b, c
<1>11. /\ hist' \in Record /\ hist'.saved = a /\ hist'.last = kind /\ hist'.base = b /\ hist'.full = ff
       /\ hist'.refused = rr
  <2> DEFINE x == hist
  <2>1. /\ x \in Record /\ c \in Nat /\ a \in Flag /\ kind \in Kinds /\ b \in Session
        /\ ff \in Flag /\ rr \in Flag
    BY <1>4, <1>5, <1>6, <1>7
  <2> HIDE DEF x
  <2>2. LET y == [x EXCEPT !.commands = c, !.saved = a, !.last = kind, !.base = b,
                           !.full = ff, !.refused = rr]
        IN y \in Record /\ y.saved = a /\ y.last = kind /\ y.base = b /\ y.full = ff /\ y.refused = rr
    BY ONLY <2>1 DEF Record
  <2> QED BY <1>3, <2>2 DEF x
<1>12. Typed'
  <2>1. Holds(mem') BY <1>9 DEF Holds
  <2> QED BY <1>1, <1>8, <1>9, <1>11, <2>1 DEF Typed, Holds
<1>13. Expected' = ExpectedAfter(m, s, kind)
  <2>1. Fits' = FitsAfter(m, s) BY <1>9, <1>10, <1>11 DEF Fits
  <2> QED BY <1>9, <1>11, <2>1 DEF Expected, ExpectedAfter, b
<1>18. Sure' => SureAfter(m, s, kind)
  <2>1. Fits' = FitsAfter(m, s) BY <1>9, <1>10, <1>11 DEF Fits
  <2> QED BY <1>11, <1>17, <2>1 DEF Sure
<1>14. Live(disk, s.log, mem', ExpectedAfter(m, s, kind), SureAfter(m, s, kind), kind)
  <2> DEFINE E == ExpectedAfter(m, s, kind)
             n == mem'
             sure == SureAfter(m, s, kind)
  <2>1. Settled(s, disk, E, f, h, own) /\ n.root = s.root /\ n.bmp = s.bmp /\ n.bd = s.bd
    BY <1>9
  <2>3. sure => Kept(s.blk, s.root, n, kind) BY <1>9 DEF Kept
  <2> HIDE DEF E, n, sure
  <2>2. Live(disk, s.log, n, E, sure, kind) BY <2>1, <2>3, SettledLive
  <2> QED BY <2>2 DEF E, n, sure
<1>15. Live(disk, pend, mem, Expected, Sure, hist.last)' BY <1>1, <1>11, <1>13, <1>14, <1>18 DEF Live
<1>16. on' BY <1>1
<1> QED BY <1>12, <1>15, <1>16 DEF Inv

\* A boot finds what is in the base, so the store of a command is settled.
LEMMA BaseShows ==
  ASSUME NEW h, NEW own, Shape(disk, h, own), NEW kind, NEW m, NEW s
  PROVE  Shows(disk) \in ExpectedAfter(m, s, kind)
<1>1. Shows(disk) = Ordinary(Recovered.forms) BY RecoveredTyped DEF Shows
<1> QED BY <1>1, MayFind DEF ExpectedAfter

\* What a save may leave behind.
LEMMA SaveMay ==
  ASSUME NEW m, NEW t
  PROVE  LET E == ExpectedAfter(m, t, "data") IN
         /\ Ordinary(m.forms) \in E
         /\ t.full \/ t.refused \/ ~(Len(m.forms) <= ABS_MAX_ENTRIES) => Partial(E, m.forms)
<1> DEFINE k == "data"
           E == ExpectedAfter(m, t, k)
           fits == FitsAfter(m, t)
<1>1. E = May(k, Recovered.forms, m.forms, fits) BY DEF ExpectedAfter
<1>2. t.full \/ t.refused \/ ~(Len(m.forms) <= ABS_MAX_ENTRIES) => ~fits BY DEF FitsAfter
<1> HIDE DEF fits, E
<1>3. Ordinary(m.forms) \in E /\ (~fits => Partial(E, m.forms)) BY <1>1, MayFind
<1> QED BY <1>2, <1>3 DEF E

\* The commands that save once.
LEMMA SaveCommandStep ==
  ASSUME Inv, NEW m \in Memory, Holds(m), SameStore(m), SaveCommand(m)
  PROVE  Inv'
<1> DEFINE s == Running(m)
           t == save_data(s, m)
           k == "data"
           E == ExpectedAfter(m, t, k)
<1>1. on /\ pend = <<>> /\ Issue(m, t, k) BY DEF SaveCommand, Issue
<1>2. PICK h, own : /\ Shape(disk, h, own)
                    /\ \A F : Shows(disk) \in F => Settled(s, disk, F, disk, h, own)
  BY <1>1, CommandStarts
<1>3. Ordinary(m.forms) \in E BY SaveMay
<1>4. t.full \/ t.refused \/ ~(Len(m.forms) <= ABS_MAX_ENTRIES) => Partial(E, m.forms) BY SaveMay
<1>5. Shows(disk) \in E BY <1>2, BaseShows
<1> HIDE DEF s, E
<1>6. Settled(s, disk, E, disk, h, own) BY <1>2, <1>5
<1>7. /\ m.forms \in Seq(FormRec) /\ Len(m.forms) <= MAX_FORMS
      /\ m.users \in Seq(Item) /\ Len(m.users) \in 1 .. MAX_USERS
  BY DEF Holds
<1>8. LET u == save_data(s, m) IN
      u.full \/ u.refused \/ ~(Len(m.forms) <= ABS_MAX_ENTRIES) => Partial(E, m.forms)
  BY <1>4
<1>9. LET u == save_data(s, m) IN
         /\ s.full => u.full
         /\ s.refused => u.refused
         /\ ~u.full /\ ~u.refused /\ Len(m.forms) <= ABS_MAX_ENTRIES => Kept(u.blk, u.root, m, "data")
         /\ \E f, h2, own2 : Settled(u, disk, E, f, h2, own2)
  BY <1>3, <1>6, <1>7, <1>8, SettledSave
<1>10. PICK f, h2, own2 : Settled(t, disk, E, f, h2, own2) BY <1>9
<1>12. SureAfter(m, t, k) => Kept(t.blk, t.root, m, k) BY <1>9 DEF SureAfter, FitsAfter
<1> HIDE DEF t
<1>11. k \in Kinds BY DEF Kinds
<1> HIDE DEF k
<1> QED BY <1>1, <1>10, <1>11, <1>12, IssueStep DEF E

\* useradd and passwd.
LEMMA SaveTwiceStep ==
  ASSUME Inv, NEW m \in Memory, Holds(m), SameStore(m), SaveTwice(m)
  PROVE  Inv'
<1> DEFINE s == Running(m)
           t == save_data(save_data(s, m), m)
           k == "data"
           E == ExpectedAfter(m, t, k)
<1>1. on /\ pend = <<>> /\ Issue(m, t, k) BY DEF SaveTwice, Issue
<1>2. PICK h, own : /\ Shape(disk, h, own)
                    /\ \A F : Shows(disk) \in F => Settled(s, disk, F, disk, h, own)
  BY <1>1, CommandStarts
<1>3. Ordinary(m.forms) \in E BY SaveMay
<1>4. t.full \/ t.refused \/ ~(Len(m.forms) <= ABS_MAX_ENTRIES) => Partial(E, m.forms) BY SaveMay
<1>5. Shows(disk) \in E BY <1>2, BaseShows
<1> HIDE DEF s, E
<1>6. Settled(s, disk, E, disk, h, own) BY <1>2, <1>5
<1>7. /\ m.forms \in Seq(FormRec) /\ Len(m.forms) <= MAX_FORMS
      /\ m.users \in Seq(Item) /\ Len(m.users) \in 1 .. MAX_USERS
  BY DEF Holds
<1>8. LET u == save_data(save_data(s, m), m) IN
      u.full \/ u.refused \/ ~(Len(m.forms) <= ABS_MAX_ENTRIES) => Partial(E, m.forms)
  BY <1>4
<1>9. LET u == save_data(save_data(s, m), m) IN
         /\ ~u.full /\ ~u.refused /\ Len(m.forms) <= ABS_MAX_ENTRIES => Kept(u.blk, u.root, m, "data")
         /\ \E f, h2, own2 : Settled(u, disk, E, f, h2, own2)
  BY <1>3, <1>6, <1>7, <1>8, SettledSaveTwice
<1>10. PICK f, h2, own2 : Settled(t, disk, E, f, h2, own2) BY <1>9
<1>12. SureAfter(m, t, k) => Kept(t.blk, t.root, m, k) BY <1>9 DEF SureAfter, FitsAfter
<1> HIDE DEF t
<1>11. k \in Kinds BY DEF Kinds
<1> HIDE DEF k
<1> QED BY <1>1, <1>10, <1>11, <1>12, IssueStep DEF E

\* pimp_add_rule and pimp_remove_rule.
LEMMA PimpCommandStep ==
  ASSUME Inv, NEW m \in Memory, Holds(m), SameStore(m), PimpCommand(m),
         m.forms = mem.forms, m.users = mem.users
  PROVE  Inv'
<1> DEFINE s == Running(m)
           p == Pimp(m.pimp)
           t == config_save(s, DotPimp, p)
           k == "pimp"
           E == ExpectedAfter(m, t, k)
<1>1. on /\ pend = <<>> /\ Issue(m, t, k) BY DEF PimpCommand, Issue
<1>2. PICK h, own : /\ Shape(disk, h, own)
                    /\ \A F : Shows(disk) \in F => Settled(s, disk, F, disk, h, own)
                    /\ Sure => Kept(s.blk, s.root, mem, hist.last)
  BY <1>1, CommandStarts
<1>3. Shows(disk) \in E BY <1>2, BaseShows
<1>4. p \in Payload BY PayloadMade DEF Holds
<1>5. DotPimp \in {DotUsers, DotPimp} OBVIOUS
<1>10. PimpIn(AsRead(p)) = m.pimp BY TablesReadBack DEF Holds
<1> HIDE DEF s, E, p
<1>6. Settled(s, disk, E, disk, h, own) BY <1>2, <1>3
<1>7. LET u == config_save(s, DotPimp, p) IN
         /\ s.full => u.full
         /\ s.refused => u.refused
         /\ Refiled(s, u, DotPimp, p)
         /\ \E f, h2, own2 : Settled(u, disk, E, f, h2, own2)
  BY <1>4, <1>5, <1>6, SettledConfigSave
<1>8. PICK f, h2, own2 : Settled(t, disk, E, f, h2, own2) BY <1>7
<1>11. Refiled(s, t, DotPimp, p) BY <1>7
<1> HIDE DEF t
<1>12. ASSUME SureAfter(m, t, k) PROVE Kept(t.blk, t.root, m, k)
  <2> DEFINE A == RootObject(s.blk, s.root)
  <2>1. Sure /\ ~t.full /\ ~t.refused BY <1>12 DEF SureAfter, FitsAfter, Sure, Fits
  <2>2. Kept(s.blk, s.root, mem, hist.last) BY <1>2, <2>1
  <2>3. /\ RootTable(s.blk, A) /\ Ordinary(Loaded(s.blk, s.root)) = Ordinary(mem.forms)
        /\ UsersIn(ReadNamed(s.blk, A, DotUsers)) = mem.users
    BY <2>2 DEF Kept
  <2>4. /\ RootObject(t.blk, t.root) = A /\ Rewritten(s.blk, t.blk, A, DotPimp, p)
        /\ Ordinary(Loaded(t.blk, t.root)) = Ordinary(Loaded(s.blk, s.root))
    BY <1>11, <2>1, <2>3 DEF Refiled
  <2> HIDE DEF A
  <2>5. DotUsers # DotPimp BY DEF DotUsers, DotPimp
  <2>6. /\ RootTable(t.blk, A) /\ ReadNamed(t.blk, A, DotPimp) = AsRead(p)
        /\ ReadNamed(t.blk, A, DotUsers) = ReadNamed(s.blk, A, DotUsers)
    BY <2>4, <2>5 DEF Rewritten
  <2> QED BY <1>10, <2>3, <2>4, <2>6 DEF Kept
<1>9. k \in Kinds BY DEF Kinds
<1> HIDE DEF k
<1> QED BY <1>1, <1>8, <1>9, <1>12, IssueStep DEF E

\* makedim, which writes nothing.
LEMMA MemoryStep ==
  ASSUME Inv, NEW m \in Memory, Holds(m), SameStore(m), Issue(m, Running(m), "mem")
  PROVE  Inv'
<1> DEFINE s == Running(m)
           k == "mem"
           E == ExpectedAfter(m, s, k)
<1>1. on /\ pend = <<>> /\ Issue(m, s, k) BY DEF Issue
<1>2. PICK h, own : /\ Shape(disk, h, own)
                    /\ \A F : Shows(disk) \in F => Settled(s, disk, F, disk, h, own)
  BY <1>1, CommandStarts
<1>3. Shows(disk) \in E BY <1>2, BaseShows
<1>4. k \in Kinds BY DEF Kinds
<1>6. ~SureAfter(m, s, k) BY DEF SureAfter
<1> HIDE DEF s, k, E
<1>5. Settled(s, disk, E, disk, h, own) BY <1>2, <1>3
<1> QED BY <1>1, <1>4, <1>5, <1>6, IssueStep DEF E

-----------------------------------------------------------------------------
(***************************************************************************)
(* Every command keeps the invariant.                                      *)
(***************************************************************************)

\* Memory with other forms, users or rules.
LEMMA MemoryWith ==
  ASSUME Typed
  PROVE  /\ \A q \in Seq(FormRec) : Len(q) <= MAX_FORMS =>
              LET m == [mem EXCEPT !.forms = q] IN m \in Memory /\ Holds(m) /\ SameStore(m)
         /\ \A u \in Seq(Item) : Len(u) \in 1 .. MAX_USERS =>
              LET m == [mem EXCEPT !.users = u] IN m \in Memory /\ Holds(m) /\ SameStore(m)
         /\ \A p \in Seq(Item) :
              LET m == [mem EXCEPT !.pimp = p]
              IN /\ m \in Memory /\ Holds(m) /\ SameStore(m)
                 /\ m.forms = mem.forms /\ m.users = mem.users
         /\ mem \in Memory /\ Holds(mem) /\ SameStore(mem)
<1>1. mem \in Memory /\ Holds(mem) BY DEF Typed
<1>2. ASSUME NEW q \in Seq(FormRec), Len(q) <= MAX_FORMS
      PROVE  LET m == [mem EXCEPT !.forms = q] IN m \in Memory /\ Holds(m) /\ SameStore(m)
  BY <1>1, <1>2 DEF Memory, Holds, SameStore
<1>3. ASSUME NEW u \in Seq(Item), Len(u) \in 1 .. MAX_USERS
      PROVE  LET m == [mem EXCEPT !.users = u] IN m \in Memory /\ Holds(m) /\ SameStore(m)
  BY <1>1, <1>3 DEF Memory, Holds, SameStore
<1>4. ASSUME NEW p \in Seq(Item)
      PROVE  LET m == [mem EXCEPT !.pimp = p]
             IN /\ m \in Memory /\ Holds(m) /\ SameStore(m)
                /\ m.forms = mem.forms /\ m.users = mem.users
  BY <1>1 DEF Memory, Holds, SameStore
<1> QED BY <1>1, <1>2, <1>3, <1>4 DEF SameStore

\* find_form finds a form of that name.
LEMMA FindForm ==
  ASSUME Typed, NEW n \in Names, find_form(n) # 0
  PROVE  LET i == find_form(n) IN
         /\ i \in 1 .. Len(mem.forms) /\ mem.forms[i] \in FormRec /\ mem.forms[i].name = n
         /\ mem.forms[i].body \in Payload /\ mem.forms[i].body.k = "form"
<1> DEFINE I == {i \in 1 .. Len(mem.forms) : mem.forms[i].name = n}
           i == find_form(n)
<1>1. mem.forms \in Seq(FormRec) BY DEF Typed, Holds
<1>2. i = IF I # {} THEN Min(I) ELSE 0 BY DEF find_form, SelectInSeq
<1>3. I # {} /\ i = Min(I) BY <1>2
<1>4. I \in SUBSET Nat BY <1>1
<1>5. i \in I
  <2> HIDE DEF I, i
  <2> QED BY <1>3, <1>4, MinOf
<1> HIDE DEF i
<1>6. i \in 1 .. Len(mem.forms) /\ mem.forms[i].name = n BY <1>5
<1>7. mem.forms[i] \in FormRec BY <1>1, <1>6
<1>8. mem.forms[i].body \in Payload /\ mem.forms[i].body.k = "form"
  BY <1>6, <1>7 DEF FormRec, RawForm
<1> QED BY <1>6, <1>7, <1>8 DEF i

\* A form the user named.
LEMMA NewForm ==
  ASSUME NEW n \in Names, NEW p \in Payload, p.k = "form"
  PROVE  [name |-> n, body |-> p] \in FormRec
<1>1. n \in AnyName BY DEF AnyName
<1> QED BY <1>1 DEF FormRec, RawForm

\* A sequence without one of its elements.
LEMMA RemovedAt ==
  ASSUME NEW X, NEW q \in Seq(X), NEW i \in 1 .. Len(q)
  PROVE  RemoveAt(q, i) \in Seq(X) /\ Len(RemoveAt(q, i)) = Len(q) - 1
<1> DEFINE a == SubSeq(q, 1, i - 1)
           b == SubSeq(q, i + 1, Len(q))
<1>1. Len(q) \in Nat OBVIOUS
<1>2. a \in Seq(X) /\ Len(a) = i - 1
  <2>1. \A j \in 1 .. i - 1 : q[j] \in X BY <1>1
  <2> QED BY <1>1, <2>1, SubSeqProperties
<1>3. b \in Seq(X) /\ Len(b) = Len(q) - i
  <2>1. \A j \in i + 1 .. Len(q) : q[j] \in X BY <1>1
  <2> QED BY <1>1, <2>1, SubSeqProperties
<1>4. RemoveAt(q, i) = a \o b BY DEF RemoveAt
<1> HIDE DEF a, b
<1>5. a \o b \in Seq(X) /\ Len(a \o b) = Len(a) + Len(b) BY <1>2, <1>3
<1>6. Len(a) + Len(b) = Len(q) - 1 BY <1>1, <1>2, <1>3
<1> QED BY <1>4, <1>5, <1>6

\* mkform, makedim and copy put a form at the end.
LEMMA Appended ==
  ASSUME Typed, NEW n \in Names, NEW p \in Payload, p.k = "form", Len(mem.forms) < MAX_FORMS
  PROVE  LET m == AppendForm(n, p) IN m \in Memory /\ Holds(m) /\ SameStore(m)
<1> DEFINE f == [name |-> n, body |-> p]
           q == Append(mem.forms, f)
<1>1. f \in FormRec BY NewForm
<1>2. mem.forms \in Seq(FormRec) /\ MAX_FORMS \in Nat BY FSAssumption DEF Typed, Holds
<1> HIDE DEF f
<1>3. q \in Seq(FormRec) /\ Len(q) <= MAX_FORMS BY <1>1, <1>2
<1>4. AppendForm(n, p) = [mem EXCEPT !.forms = q] BY DEF AppendForm, f
<1> HIDE DEF q
<1> QED BY <1>3, <1>4, MemoryWith

\* write, append, edit and move replace a form where it is.
LEMMA Replaced ==
  ASSUME Typed, NEW i \in 1 .. Len(mem.forms), NEW f \in FormRec
  PROVE  LET m == [mem EXCEPT !.forms = [mem.forms EXCEPT ![i] = f]]
         IN m \in Memory /\ Holds(m) /\ SameStore(m)
<1> DEFINE q == [mem.forms EXCEPT ![i] = f]
<1>1. mem.forms \in Seq(FormRec) /\ Len(mem.forms) <= MAX_FORMS BY DEF Typed, Holds
<1>2. q \in Seq(FormRec) /\ Len(q) = Len(mem.forms) BY <1>1
<1> HIDE DEF q
<1>3. Len(q) <= MAX_FORMS BY <1>1, <1>2
<1>4. LET m == [mem EXCEPT !.forms = q] IN m \in Memory /\ Holds(m) /\ SameStore(m)
  BY <1>2, <1>3, MemoryWith
<1> QED BY <1>4 DEF q

\* mkform, makedim and delete.
LEMMA FormStep ==
  ASSUME Inv, NEW n \in Names, MkForm(n) \/ MakeDim(n) \/ Delete(n)
  PROVE  Inv'
<1>1. Typed BY DEF Inv
<1> DEFINE p == Form("empty")
<1>2. p \in Payload /\ p.k = "form" BY FSAssumption, PayloadMade
<1> HIDE DEF p
<1>3. CASE MkForm(n)
  <2>1. Len(mem.forms) < MAX_FORMS /\ SaveCommand(AppendForm(n, p)) BY <1>3 DEF MkForm, p
  <2>2. LET m == AppendForm(n, p) IN m \in Memory /\ Holds(m) /\ SameStore(m)
    BY <1>1, <1>2, <2>1, Appended
  <2> QED BY <2>1, <2>2, SaveCommandStep
<1>4. CASE MakeDim(n)
  <2> DEFINE m == AppendForm(n, p)
  <2>1. Len(mem.forms) < MAX_FORMS /\ Issue(m, Running(m), "mem") BY <1>4 DEF MakeDim, p
  <2>2. m \in Memory /\ Holds(m) /\ SameStore(m) BY <1>1, <1>2, <2>1, Appended
  <2> HIDE DEF m
  <2> QED BY <2>1, <2>2, MemoryStep
<1>5. CASE Delete(n)
  <2> DEFINE i == find_form(n)
             q == RemoveAt(mem.forms, i)
             m == [mem EXCEPT !.forms = q]
  <2>1. i # 0 /\ SaveCommand(m) BY <1>5 DEF Delete
  <2>2. i \in 1 .. Len(mem.forms) BY <1>1, <2>1, FindForm
  <2>3. mem.forms \in Seq(FormRec) /\ Len(mem.forms) <= MAX_FORMS BY <1>1 DEF Typed, Holds
  <2> HIDE DEF i
  <2>4. q \in Seq(FormRec) /\ Len(q) = Len(mem.forms) - 1 BY <2>2, <2>3, RemovedAt
  <2> HIDE DEF q
  <2>5. Len(q) <= MAX_FORMS BY <2>3, <2>4, FSAssumption
  <2>6. m \in Memory /\ Holds(m) /\ SameStore(m) BY <1>1, <2>4, <2>5, MemoryWith
  <2> HIDE DEF m
  <2> QED BY <2>1, <2>6, SaveCommandStep
<1> QED BY <1>3, <1>4, <1>5

\* copy and move.
LEMMA CopyMoveStep ==
  ASSUME Inv, NEW n \in Names, NEW to \in Names, Copy(n, to) \/ Move(n, to)
  PROVE  Inv'
<1> DEFINE i == find_form(n)
           g == mem.forms[i]
<1>1. Typed BY DEF Inv
<1>2. i # 0 BY DEF Copy, Move
<1>3. /\ i \in 1 .. Len(mem.forms) /\ g \in FormRec /\ g.name = n
      /\ g.body \in Payload /\ g.body.k = "form"
  BY <1>1, <1>2, FindForm
<1>4. CASE Copy(n, to)
  <2>1. Len(mem.forms) < MAX_FORMS /\ SaveCommand(AppendForm(to, g.body)) BY <1>4 DEF Copy
  <2> HIDE DEF g
  <2>2. LET m == AppendForm(to, g.body) IN m \in Memory /\ Holds(m) /\ SameStore(m)
    BY <1>1, <1>3, <2>1, Appended
  <2> QED BY <2>1, <2>2, SaveCommandStep
<1>5. CASE Move(n, to)
  <2> DEFINE f == [g EXCEPT !.name = to]
             m == [mem EXCEPT !.forms = [mem.forms EXCEPT ![i] = f]]
  <2>1. SaveCommand([mem EXCEPT !.forms[i].name = to]) BY <1>5 DEF Move
  <2>2. [mem EXCEPT !.forms[i].name = to] = m OBVIOUS
  <2> HIDE DEF g
  <2>3. f \in FormRec
    <3>1. g \in RawForm /\ to \in AnyName BY <1>3 DEF FormRec, AnyName
    <3>2. f \in RawForm /\ f.body = g.body BY <3>1 DEF RawForm
    <3> QED BY <1>3, <3>2 DEF FormRec
  <2> HIDE DEF f, i
  <2>4. m \in Memory /\ Holds(m) /\ SameStore(m) BY <1>1, <1>3, <2>3, Replaced
  <2>5. SaveCommand(m) BY <2>1, <2>2
  <2> HIDE DEF m
  <2> QED BY <2>4, <2>5, SaveCommandStep
<1> QED BY <1>4, <1>5

\* write, append and edit.
LEMMA WriteFormStep ==
  ASSUME Inv, NEW n \in Names, NEW t \in Texts, WriteForm(n, t)
  PROVE  Inv'
<1> DEFINE i == find_form(n)
           g == mem.forms[i]
           p == Form(t)
           f == [g EXCEPT !.body = p]
           m == [mem EXCEPT !.forms = [mem.forms EXCEPT ![i] = f]]
<1>1. Typed BY DEF Inv
<1>2. i # 0 /\ SaveCommand([mem EXCEPT !.forms[i].body = p]) BY DEF WriteForm
<1>3. i \in 1 .. Len(mem.forms) /\ g \in FormRec BY <1>1, <1>2, FindForm
<1>4. [mem EXCEPT !.forms[i].body = p] = m OBVIOUS
<1>5. p \in Payload /\ p.k = "form" BY FSAssumption, PayloadMade
<1> HIDE DEF g, p, i
<1>6. f \in FormRec
  <2>1. g \in RawForm BY <1>3 DEF FormRec
  <2>2. f \in RawForm /\ f.body = p BY <1>5, <2>1 DEF RawForm
  <2> QED BY <1>5, <2>2 DEF FormRec
<1> HIDE DEF f
<1>7. m \in Memory /\ Holds(m) /\ SameStore(m) BY <1>1, <1>3, <1>6, Replaced
<1>8. SaveCommand(m) BY <1>2, <1>4
<1> HIDE DEF m
<1> QED BY <1>7, <1>8, SaveCommandStep

\* The forms without the first one of a name.
LEMMA WithoutTyped ==
  ASSUME NEW q \in Seq(FormRec), NEW n
  PROVE  Without(q, n) \in Seq(FormRec) /\ Len(Without(q, n)) <= Len(q)
<1> DEFINE I == {i \in 1 .. Len(q) : q[i].name = n}
           k == SelectInSeq(q, LAMBDA f : f.name = n)
<1>1. k = IF I # {} THEN Min(I) ELSE 0 BY DEF SelectInSeq
<1>2. Without(q, n) = IF k = 0 THEN q ELSE RemoveAt(q, k) BY DEF Without
<1>3. Len(q) \in Nat OBVIOUS
<1>4. CASE k = 0 BY <1>2, <1>3, <1>4
<1>5. CASE k # 0
  <2>1. I # {} /\ k = Min(I) BY <1>1, <1>5
  <2>2. I \in SUBSET Nat BY <1>3
  <2>3. k \in I
    <3> HIDE DEF I, k
    <3> QED BY <2>1, <2>2, MinOf
  <2> HIDE DEF k
  <2>4. k \in 1 .. Len(q) BY <2>3
  <2>5. RemoveAt(q, k) \in Seq(FormRec) /\ Len(RemoveAt(q, k)) = Len(q) - 1 BY <2>4, RemovedAt
  <2> QED BY <1>2, <1>3, <1>5, <2>5
<1> QED BY <1>4, <1>5

\* The table ayo makes is one of forms and not too long.
LEMMA AyoForms ==
  ASSUME Inv, NEW q \in Seq(FormRec), Len(q) <= MAX_FORMS, SaveCommand([mem EXCEPT !.forms = q])
  PROVE  Inv'
<1> DEFINE m == [mem EXCEPT !.forms = q]
<1>1. Typed BY DEF Inv
<1>2. m \in Memory /\ Holds(m) /\ SameStore(m) BY <1>1, MemoryWith
<1> HIDE DEF m
<1> QED BY <1>2, SaveCommandStep DEF m

\* ayo remove.
LEMMA RemoveStep ==
  ASSUME Inv, NEW mkr \in Names, NEW n \in Names, AyoRemove(mkr, n)
  PROVE  Inv'
<1> DEFINE q == mem.forms
           u == Without(q, n)
           r == Without(u, mkr)
<1>1. q \in Seq(FormRec) /\ Len(q) <= MAX_FORMS /\ MAX_FORMS \in Nat
  BY FSAssumption DEF Inv, Typed, Holds
<1>2. SaveCommand([mem EXCEPT !.forms = r]) BY DEF AyoRemove
<1> HIDE DEF q
<1>3. u \in Seq(FormRec) /\ Len(u) <= Len(q) BY <1>1, WithoutTyped
<1> HIDE DEF u
<1>4. r \in Seq(FormRec) /\ Len(r) <= Len(u) BY <1>3, WithoutTyped
<1> HIDE DEF r
<1>5. Len(r) <= MAX_FORMS BY <1>1, <1>3, <1>4
<1> QED BY <1>2, <1>4, <1>5, AyoForms

\* ayo add and update.
LEMMA AyoStep ==
  ASSUME Inv, NEW mkr \in Names, NEW n \in Names, NEW t \in Texts,
         AyoAdd(mkr, n, t) \/ AyoUpdate(mkr, n, t)
  PROVE  Inv'
<1> DEFINE f == [name |-> mkr, body |-> Form("empty")]
           g == [name |-> n, body |-> Form(t)]
           q == mem.forms
<1>1. Typed BY DEF Inv
<1>2. q \in Seq(FormRec) /\ Len(q) <= MAX_FORMS /\ MAX_FORMS \in Nat
  BY <1>1, FSAssumption DEF Typed, Holds
<1>3. /\ Form("empty") \in Payload /\ Form("empty").k = "form"
      /\ Form(t) \in Payload /\ Form(t).k = "form"
  BY FSAssumption, PayloadMade
<1>4. f \in FormRec /\ g \in FormRec BY <1>3, NewForm
<1>5. CASE AyoAdd(mkr, n, t)
  <2> DEFINE r == WithForm(Append(q, f), n, t)
  <2>1. Len(q) + 2 < MAX_FORMS /\ SaveCommand([mem EXCEPT !.forms = r]) BY <1>5 DEF AyoAdd
  <2>2. r = Append(Append(q, f), g) \/ r = Append(q, f) BY DEF WithForm
  <2> HIDE DEF f, g, q, r
  <2>3. Append(q, f) \in Seq(FormRec) /\ Len(Append(q, f)) = Len(q) + 1 BY <1>2, <1>4
  <2>4. /\ Append(Append(q, f), g) \in Seq(FormRec)
        /\ Len(Append(Append(q, f), g)) = Len(Append(q, f)) + 1
    BY <1>4, <2>3
  <2>5. r \in Seq(FormRec) /\ Len(r) <= Len(q) + 2 BY <1>2, <2>2, <2>3, <2>4
  <2>6. Len(r) <= MAX_FORMS BY <1>2, <2>1, <2>5
  <2> QED BY <2>1, <2>5, <2>6, AyoForms
<1>6. CASE AyoUpdate(mkr, n, t)
  <2>1. CASE find_form(n) # 0
    <3>1. WriteForm(n, t) BY <1>6, <2>1 DEF AyoUpdate
    <3> QED BY <3>1, WriteFormStep
  <2>2. CASE find_form(n) = 0
    <3>1. Len(mem.forms) < MAX_FORMS /\ SaveCommand(AppendForm(n, Form(t)))
      BY <1>6, <2>2 DEF AyoUpdate
    <3>2. LET m == AppendForm(n, Form(t)) IN m \in Memory /\ Holds(m) /\ SameStore(m)
      BY <1>1, <1>3, <3>1, Appended
    <3> QED BY <3>1, <3>2, SaveCommandStep
  <2> QED BY <2>1, <2>2
<1> QED BY <1>5, <1>6

\* useradd, the login prompt, passwd, and the commands that only save again.
LEMMA UserStep ==
  ASSUME Inv, Resave \/ UserAdd \/ LoginNew \/ \E i \in DOMAIN mem.users : Passwd(i)
  PROVE  Inv'
<1>1. Typed BY DEF Inv
<1>2. mem.users \in Seq(Item) /\ Len(mem.users) \in 1 .. MAX_USERS BY <1>1 DEF Typed, Holds
<1>3. {"user", "changed"} \subseteq Item /\ MAX_USERS \in Nat BY FSAssumption DEF Item
<1> DEFINE u == Append(mem.users, "user")
           m == [mem EXCEPT !.users = u]
<1>4. Len(mem.users) < MAX_USERS => m \in Memory /\ Holds(m) /\ SameStore(m)
  <2>1. u \in Seq(Item) /\ Len(u) = Len(mem.users) + 1 BY <1>2, <1>3
  <2>2. Len(mem.users) < MAX_USERS => Len(u) \in 1 .. MAX_USERS BY <1>2, <1>3, <2>1
  <2> HIDE DEF u
  <2> QED BY <1>1, <2>1, <2>2, MemoryWith
<1>5. CASE Resave
  <2>1. mem \in Memory /\ Holds(mem) /\ SameStore(mem) BY <1>1, MemoryWith
  <2> QED BY <1>5, <2>1, SaveCommandStep DEF Resave
<1>6. CASE UserAdd
  <2>1. Len(mem.users) < MAX_USERS /\ SaveTwice(m) BY <1>6 DEF UserAdd
  <2> HIDE DEF m
  <2> QED BY <1>4, <2>1, SaveTwiceStep
<1>7. CASE LoginNew
  <2>1. Len(mem.users) < MAX_USERS /\ SaveCommand(m) BY <1>7 DEF LoginNew
  <2> HIDE DEF m
  <2> QED BY <1>4, <2>1, SaveCommandStep
<1>8. ASSUME NEW i \in DOMAIN mem.users, Passwd(i) PROVE Inv'
  <2> DEFINE v == [mem.users EXCEPT ![i] = "changed"]
             w == [mem EXCEPT !.users = v]
  <2>1. SaveTwice([mem EXCEPT !.users[i] = "changed"]) BY <1>8 DEF Passwd
  <2>2. [mem EXCEPT !.users[i] = "changed"] = w OBVIOUS
  <2>3. v \in Seq(Item) /\ Len(v) = Len(mem.users) BY <1>2, <1>3
  <2> HIDE DEF v
  <2>4. w \in Memory /\ Holds(w) /\ SameStore(w) BY <1>1, <1>2, <2>3, MemoryWith
  <2>5. SaveTwice(w) BY <2>1, <2>2
  <2> HIDE DEF w
  <2> QED BY <2>4, <2>5, SaveTwiceStep
<1> QED BY <1>5, <1>6, <1>7, <1>8

\* pimp add and pimp remove.
LEMMA PimpStep ==
  ASSUME Inv, NEW u \in PimpUsers, PimpAdd(u) \/ PimpRemove(u)
  PROVE  Inv'
<1>1. Typed BY DEF Inv
<1>2. mem.pimp \in Seq(Item) /\ u \in Item BY <1>1 DEF Typed, Holds, Item
<1>3. CASE PimpAdd(u)
  <2> DEFINE p == IF Contains(mem.pimp, u) THEN mem.pimp ELSE Append(mem.pimp, u)
             m == [mem EXCEPT !.pimp = p]
  <2>1. PimpCommand(m) BY <1>3 DEF PimpAdd
  <2>2. p \in Seq(Item) BY <1>2
  <2> HIDE DEF p
  <2>3. m \in Memory /\ Holds(m) /\ SameStore(m) /\ m.forms = mem.forms /\ m.users = mem.users
    BY <1>1, <2>2, MemoryWith
  <2> HIDE DEF m
  <2> QED BY <2>1, <2>3, PimpCommandStep
<1>4. CASE PimpRemove(u)
  <2> DEFINE I == {j \in 1 .. Len(mem.pimp) : mem.pimp[j] = u}
             i == SelectInSeq(mem.pimp, LAMBDA x : x = u)
             p == RemoveAt(mem.pimp, i)
             m == [mem EXCEPT !.pimp = p]
  <2>1. Contains(mem.pimp, u) /\ PimpCommand(m) BY <1>4 DEF PimpRemove
  <2>2. i = IF I # {} THEN Min(I) ELSE 0 BY DEF SelectInSeq
  <2>3. I # {} BY <2>1 DEF Contains
  <2>4. I \in SUBSET Nat BY <1>2
  <2>5. i \in I
    <3> HIDE DEF I, i
    <3> QED BY <2>2, <2>3, <2>4, MinOf
  <2> HIDE DEF i
  <2>6. p \in Seq(Item) BY <1>2, <2>5, RemovedAt
  <2> HIDE DEF p
  <2>7. m \in Memory /\ Holds(m) /\ SameStore(m) /\ m.forms = mem.forms /\ m.users = mem.users
    BY <1>1, <2>6, MemoryWith
  <2> HIDE DEF m
  <2> QED BY <2>1, <2>7, PimpCommandStep
<1> QED BY <1>3, <1>4

-----------------------------------------------------------------------------
(***************************************************************************)
(* Boots, sector writes and power loss keep the invariant.                 *)
(***************************************************************************)

\* A boot: mount, load, and the snapshot of the boot policy.
LEMMA BootStep ==
  ASSUME Inv, Boot
  PROVE  Inv'
<1> DEFINE m == mount
           s == boot_policy(m)
           l == load_data(m.blk, m.root)
           base == Recovered.forms
           k == "boot"
           E == May(k, base, l.forms, Fits')
           x == FALSE
           c == hist.boots + 1
           n == [bmp |-> s.bmp, bd |-> s.bd, hint |-> s.hint, root |-> s.root,
                 forms |-> l.forms, users |-> l.users, pimp |-> l.pimp]
<1>1. on' /\ UNCHANGED disk /\ StartWith(s, l) BY DEF Boot, BootFrom
<1>2. mem' = n /\ pend' = s.log BY <1>1 DEF StartWith
<1>3. hist' = [hist EXCEPT !.boots = c, !.saved = x, !.last = k, !.base = Recovered,
                           !.full = s.full, !.refused = s.refused]
  BY <1>1 DEF StartWith
<1>4. PICK h, own : Shape(disk, h, own) BY InvShape
<1>5. Recovered \in Session /\ base = Loaded(disk.blk, disk.sb) BY <1>4, RecoveredTyped
<1>6. Shows(disk) \in E /\ <<>> \in E
  <2>1. Shows(disk) = Ordinary(base) BY <1>5 DEF Shows
  <2> HIDE DEF base, l
  <2> QED BY <2>1, MayFind
<1> HIDE DEF E, m
<1>7. PICK d1, h1, own1 : Mounted(m, disk, E, d1, h1, own1)
  BY <1>4, <1>6, MountMounts DEF m
<1>8. PICK f, h2, own2 : Settled(s, disk, E, f, h2, own2) BY <1>6, <1>7, BootSettles
<1>9. Holds(l)
  <2>1. Shape(d1, h1, own1) /\ d1.blk = m.blk /\ d1.sb = m.root /\ m \in Store BY <1>7 DEF Mounted
  <2>2. d1.sb \in 0 .. NBLOCKS BY <2>1, StoreFields
  <2> QED BY <2>1, <2>2, LoadTyped
<1> HIDE DEF s, l
<1>10. s \in Store /\ s.log \in Seq(Write) BY <1>8, StoreFields DEF Settled
<1>11. /\ s.bmp \in SUBSET Block /\ s.bd \in Flag /\ s.hint \in 1 .. NBLOCKS + 1
       /\ s.root \in 0 .. NBLOCKS /\ s.full \in Flag /\ s.refused \in Flag
  BY <1>10 DEF Store
<1>12. /\ n \in Memory /\ n.bmp = s.bmp /\ n.bd = s.bd /\ n.root = s.root
       /\ n.forms = l.forms /\ n.users = l.users /\ n.pimp = l.pimp
  BY <1>9, <1>11 DEF Memory, Holds
<1> HIDE DEF n
<1>13. hist' \in Record /\ hist'.saved = x /\ hist'.last = k /\ hist'.base = Recovered
  <2> DEFINE y == hist
             b == Recovered
             ff == s.full
             rr == s.refused
  <2>1. x \in Flag BY Flags, Zenon
  <2>2. y \in Record BY DEF Inv, Typed
  <2>3. c \in Nat BY <2>2 DEF Record
  <2>4. k \in Kinds BY DEF Kinds
  <2> HIDE DEF x, c, k
  <2>5. /\ y \in Record /\ c \in Nat /\ x \in Flag /\ k \in Kinds /\ b \in Session
        /\ ff \in Flag /\ rr \in Flag
    BY <1>5, <1>11, <2>1, <2>2, <2>3, <2>4
  <2> HIDE DEF y, b, ff, rr
  <2>6. LET z == [y EXCEPT !.boots = c, !.saved = x, !.last = k, !.base = b,
                           !.full = ff, !.refused = rr]
        IN z \in Record /\ z.saved = x /\ z.last = k /\ z.base = b
    BY ONLY <2>5 DEF Record
  <2> QED BY <1>3, <2>6 DEF y, b, ff, rr
<1>14. Typed'
  <2>1. Holds(n) BY <1>9, <1>12 DEF Holds
  <2> QED BY <1>2, <1>10, <1>12, <1>13, <2>1 DEF Typed, Holds
<1>15. Expected' = E BY <1>2, <1>12, <1>13 DEF Expected, E
<1>16. Live(disk, s.log, n, E, x, k)
  <2>1. ~x OBVIOUS
  <2> HIDE DEF x, k
  <2> QED BY <1>8, <1>12, <2>1, SettledLive
<1>18. ~Sure' BY <1>13 DEF Sure
<1>17. Live(disk, pend, mem, Expected, Sure, hist.last)' BY <1>1, <1>2, <1>15, <1>16, <1>18 DEF Live
<1> QED BY <1>1, <1>14, <1>17 DEF Inv

\* A sector write carries out the first write of the trail.
LEMMA DiskWriteStep ==
  ASSUME Inv, DiskWrite
  PROVE  Inv'
<1> DEFINE E == Expected
<1>1. /\ pend # <<>> /\ disk' = Written(disk, Head(pend)) /\ pend' = Tail(pend)
      /\ UNCHANGED <<on, mem, hist>>
  BY DEF DiskWrite
<1>2. on /\ Typed BY <1>1 DEF Inv
<1>3. pend \in Seq(Write) BY <1>2 DEF Typed
<1>4. PICK d, h, own :
         /\ Trail(disk, pend, d, E) /\ Shape(d, h, own) /\ Shows(d) \in E
         /\ d.sb = mem.root /\ d.bmp \subseteq mem.bmp /\ (~mem.bd => d.bmp = mem.bmp)
         /\ \A b \in Block : own[b] # Outside => b \in mem.bmp
         /\ Sure => Kept(d.blk, d.sb, mem, hist.last)
  BY <1>2 DEF Inv, Live
<1>5. Expected' = E /\ (Sure' <=> Sure) /\ hist'.last = hist.last BY <1>1 DEF Expected, Fits, Sure
<1> HIDE DEF E
<1>6. Trail(Written(disk, Head(pend)), Tail(pend), d, E) BY <1>1, <1>3, <1>4, TrailHead
<1>7. Live(Written(disk, Head(pend)), Tail(pend), mem, E, Sure, hist.last) BY <1>4, <1>6 DEF Live
<1>8. Live(disk, pend, mem, Expected, Sure, hist.last)'
  <2> DEFINE dk == Written(disk, Head(pend))
             p == Tail(pend)
  <2>1. disk' = dk /\ pend' = p /\ mem' = mem /\ Expected' = E BY <1>1, <1>5
  <2>2. Live(dk, p, mem, E, Sure, hist.last) BY <1>7
  <2> HIDE DEF dk, p
  <2> QED BY <1>5, <2>1, <2>2 DEF Live
<1>9. Tail(pend) \in Seq(Write) BY <1>1, <1>3
<1>10. Typed' BY <1>1, <1>2, <1>9 DEF Typed, Holds
<1>11. on' BY <1>1, <1>2
<1> QED BY <1>8, <1>10, <1>11 DEF Inv

\* The memory of a system that is not running.
LEMMA NoMemTyped ==
  NoMem \in Memory /\ Holds(NoMem)
<1> DEFINE x == FALSE
           l == <<>>
           B == {}
           n == [bmp |-> B, bd |-> x, hint |-> 1, root |-> 0,
                 forms |-> l, users |-> InitUsers, pimp |-> l]
<1>1. x \in Flag BY Flags, Zenon
<1>2. l \in Seq(FormRec) /\ l \in Seq(Item) /\ Len(l) = 0 OBVIOUS
<1>3. InitUsers \in Seq(Item) /\ Len(InitUsers) = 1 BY DEF InitUsers, Item
<1>4. B \in SUBSET Block /\ 1 \in 1 .. NBLOCKS + 1 /\ 0 \in 0 .. NBLOCKS BY StoreAssumption
<1>5. NoMem = n BY DEF NoMem
<1> HIDE DEF x, l, B
<1>6. n \in Memory BY <1>1, <1>2, <1>3, <1>4 DEF Memory
<1>7. n.forms = l /\ n.users = InitUsers /\ n.pimp = l OBVIOUS
<1> HIDE DEF n
<1>8. Len(l) <= MAX_FORMS /\ 1 \in 1 .. MAX_USERS BY <1>2, FSAssumption
<1>9. Holds(n) BY <1>2, <1>3, <1>7, <1>8 DEF Holds
<1> QED BY <1>5, <1>6, <1>9

\* Power loss: what is on the disk is sound.
LEMMA PowerOffStep ==
  ASSUME Inv, PowerOff
  PROVE  Inv'
<1> DEFINE b == Contents(mem)
           a == hist.saved
           e == pend = <<>>
           c == IF pend = <<>> THEN hist.crashes ELSE hist.crashes + 1
<1>1. on' = FALSE /\ UNCHANGED disk /\ mem' = NoMem /\ pend' = <<>> BY DEF PowerOff
<1>2. hist' = [hist EXCEPT !.shut = b, !.shutSaved = a, !.clean = e, !.crashes = c]
  BY DEF PowerOff
<1>3. e \in Flag BY Zenon DEF Flag
<1>4. hist \in Record /\ mem \in Memory BY DEF Inv, Typed
<1>5. a \in Flag /\ c \in Nat BY <1>4 DEF Record
<1>6. b \in Session BY <1>4 DEF Contents, Memory, Session
<1>7. hist' \in Record
  <2> DEFINE y == hist
  <2>1. /\ y \in Record /\ b \in Session /\ a \in Flag /\ e \in Flag /\ c \in Nat
    BY <1>3, <1>4, <1>5, <1>6
  <2> HIDE DEF y, a, b, e, c
  <2>2. [y EXCEPT !.shut = b, !.shutSaved = a, !.clean = e, !.crashes = c] \in Record
    BY ONLY <2>1 DEF Record
  <2> QED BY <1>2, <2>2 DEF y
<1>8. Typed'
  <2>1. <<>> \in Seq(Write) OBVIOUS
  <2> QED BY <1>1, <1>7, <2>1, NoMemTyped DEF Typed, Holds
<1>9. PICK h, own : Shape(disk, h, own) BY InvShape
<1>10. Shape(disk', h, own) BY <1>1, <1>9
<1>11. (\E x, y : Shape(disk, x, y))' BY <1>10 DEF Shape
<1> QED BY <1>1, <1>8, <1>11 DEF Inv

\* A disk nobody has formatted.
LEMMA InitInv ==
  ASSUME Init
  PROVE  Inv
<1>1. /\ disk = [sb |-> NoSuper, bmp |-> {}, blk |-> [b \in Block |-> Zero]]
      /\ on = FALSE /\ mem = NoMem /\ pend = <<>>
  BY DEF Init
<1>2. Shape(disk, <<>>, NoTree)
  <2> DEFINE B == [b \in Block |-> Zero]
             l == <<>>
  <2>1. B \in Blocks BY ZeroMade DEF Blocks
  <2> HIDE DEF B
  <2>2. NoSuper \in 0 .. NBLOCKS + 1 /\ NoSuper \notin Block BY StoreAssumption DEF NoSuper, Block
  <2>3. disk.sb = NoSuper /\ disk.bmp = {} /\ disk.blk = B BY <1>1 DEF B
  <2>4. disk \in Disk BY <1>1, <2>1, <2>2 DEF Disk, B
  <2>5. NoTree \in Labels /\ Tree(B, NoTree) /\ FormsOk(B, NoTree, {}) BY EmptyTree
  <2>6. l \in Seq(Block) /\ DOMAIN l = {} OBVIOUS
  <2> HIDE DEF l, NoTree
  <2>7. History(B, NoSuper, l) BY <2>2, <2>6 DEF History, l
  <2>8. Shape(disk, l, NoTree) BY <2>2, <2>3, <2>4, <2>5, <2>6, <2>7 DEF Shape
  <2> QED BY <2>8 DEF l
<1>3. hist \in Record
  <2> DEFINE x == FALSE
             y == TRUE
             b == Nothing
  <2>1. x \in Flag /\ y \in Flag BY Flags, Zenon
  <2>2. b \in Session BY DEF Session, Nothing, InitUsers, Item
  <2>3. hist = [commands |-> 0, boots |-> 0, crashes |-> 0, saved |-> x, last |-> "none",
                base |-> b, shut |-> b, shutSaved |-> x, clean |-> y, full |-> x, refused |-> x]
    BY DEF Init
  <2> HIDE DEF x, y, b
  <2>4. "none" \in Kinds BY DEF Kinds
  <2> QED BY <2>1, <2>2, <2>3, <2>4 DEF Record
<1>4. <<>> \in Seq(Write) OBVIOUS
<1> QED BY <1>1, <1>2, <1>3, <1>4, NoMemTyped DEF Inv, Typed

\* Nothing happens.
LEMMA StutterStep ==
  ASSUME Inv, UNCHANGED vars
  PROVE  Inv'
<1>1. disk' = disk /\ on' = on /\ mem' = mem /\ pend' = pend /\ hist' = hist BY DEF vars
<1>2. Expected' = Expected /\ (Sure' <=> Sure) BY <1>1 DEF Expected, Fits, Sure
<1>3. Live(disk, pend, mem, Expected, Sure, hist.last)'
        <=> Live(disk, pend, mem, Expected, Sure, hist.last)
  BY <1>1, <1>2 DEF Live
<1>4. Typed' BY <1>1 DEF Inv, Typed, Holds
<1>5. (\E h, own : Shape(disk, h, own)) => (\E h, own : Shape(disk, h, own))' BY <1>1 DEF Shape
<1> QED BY <1>1, <1>3, <1>4, <1>5 DEF Inv

\* The inductive invariant holds in every reachable state: whenever the power
\* fails, the disk is sound and a boot finds what it is expected to find.
THEOREM InvHolds == Spec => []Inv
<1>1. Init => Inv BY InitInv
<1>2. Inv /\ [Next]_vars => Inv'
  <2> SUFFICES ASSUME Inv, [Next]_vars PROVE Inv' OBVIOUS
  <2>1. CASE UNCHANGED vars BY <2>1, StutterStep
  <2>2. CASE Command
    <3>1. ASSUME NEW mkr \in Names, NEW n \in Names, AyoRemove(mkr, n) PROVE Inv'
      BY <3>1, RemoveStep
    <3>2. ASSUME NEW mkr \in Names, NEW n \in Names, NEW t \in Texts,
                 AyoAdd(mkr, n, t) \/ AyoUpdate(mkr, n, t)
          PROVE  Inv'
      BY <3>2, AyoStep
    <3> QED BY <2>2, <3>1, <3>2, FormStep, CopyMoveStep, WriteFormStep, UserStep, PimpStep
            DEF Command
  <2>3. CASE Boot BY <2>3, BootStep
  <2>4. CASE DiskWrite BY <2>4, DiskWriteStep
  <2>5. CASE PowerOff BY <2>5, PowerOffStep
  <2> QED BY <2>1, <2>2, <2>3, <2>4, <2>5 DEF Next
<1> QED BY <1>1, <1>2, PTL DEF Spec

-----------------------------------------------------------------------------
(***************************************************************************)
(* What the invariant says of the disk.                                    *)
(***************************************************************************)

\* The snapshots along the parent pointers are the last ones of the history,
\* newest first.
LEMMA AncestryIn ==
  ASSUME NEW blk \in Blocks, NEW sb \in Block, NEW h \in Seq(Block), History(blk, sb, h)
  PROVE  LET c == Ancestry(blk, sb) IN
         /\ c \in Seq(Block) /\ Len(c) <= Len(h)
         /\ \A i \in 1 .. Len(c) : c[i] = h[Len(h) + 1 - i]
<1> DEFINE S == {c \in Seq(Block) : /\ Len(c) \in 1 .. Len(h)
                                    /\ \A i \in 1 .. Len(c) : c[i] = h[Len(h) + 1 - i]}
           F == [x \in S \X (1 .. NBLOCKS) |-> FollowParent(blk, x[1])]
           Rec(k) == [n \in 0 .. NBLOCKS |-> IF n = 0 THEN <<sb>> ELSE FollowParent(blk, k[n - 1])]
<1>1. /\ h # <<>> /\ h[Len(h)] = sb /\ Len(h) \in Nat
      /\ \A i \in 1 .. Len(h) : /\ blk[h[i]].kind = "snap"
                                /\ i = 1 => blk[h[i]].parent = 0
                                /\ i # 1 => blk[h[i]].parent = h[i - 1]
  BY DEF History
<1>2. NBLOCKS \in Nat BY StoreAssumption
<1>3. <<sb>> \in S
  <2> DEFINE c == <<sb>>
  <2>1. c \in Seq(Block) /\ Len(c) = 1 /\ c[1] = sb OBVIOUS
  <2>2. Len(h) >= 1 /\ Len(h) + 1 - 1 = Len(h) BY <1>1
  <2>3. Len(c) \in 1 .. Len(h) BY <1>1, <2>1, <2>2
  <2>4. \A i \in 1 .. Len(c) : c[i] = h[Len(h) + 1 - i] BY <1>1, <2>1, <2>2
  <2> HIDE DEF c
  <2>5. c \in S BY <2>1, <2>3, <2>4
  <2> QED BY <2>5 DEF c
<1>4. ASSUME NEW c \in S PROVE FollowParent(blk, c) \in S
  <2> DEFINE k == Len(h) + 1 - Len(c)
             y == h[k - 1]
  <2>1. /\ c \in Seq(Block) /\ Len(c) \in 1 .. Len(h) /\ Len(c) \in Nat
        /\ \A i \in 1 .. Len(c) : c[i] = h[Len(h) + 1 - i]
    OBVIOUS
  <2>2. k \in 1 .. Len(h) /\ Last(c) = h[k] BY <1>1, <2>1 DEF Last
  <2>3. blk[Last(c)].kind = "snap" BY <1>1, <2>2
  <2>4. CASE k = 1
    <3>1. FollowParent(blk, c) = c BY <1>1, <2>2, <2>3, <2>4 DEF FollowParent
    <3> QED BY <3>1
  <2>5. CASE k # 1
    <3>1. k - 1 \in 1 .. Len(h) BY <1>1, <2>2, <2>5
    <3>2. y \in Block /\ y # 0
      <4> DEFINE j == k - 1
      <4>1. j \in 1 .. Len(h) BY <3>1
      <4> HIDE DEF j
      <4>2. h[j] \in Block BY <4>1
      <4>3. \A b \in Block : b # 0 BY DEF Block
      <4> QED BY <4>2, <4>3 DEF j
    <3>3. blk[Last(c)].parent = y BY <1>1, <2>2, <2>5
    <3>4. FollowParent(blk, c) = Append(c, y) BY <2>3, <3>2, <3>3 DEF FollowParent
    <3>5. Len(c) + 1 \in 1 .. Len(h) /\ k - 1 = Len(h) + 1 - (Len(c) + 1) BY <1>1, <2>1, <2>5
    <3> DEFINE e == Append(c, y)
    <3>6. y = h[Len(h) + 1 - (Len(c) + 1)] BY <3>5
    <3> HIDE DEF y, k
    <3>7. /\ e \in Seq(Block) /\ Len(e) = Len(c) + 1 /\ e[Len(c) + 1] = y
          /\ \A i \in 1 .. Len(c) : e[i] = c[i]
      BY <2>1, <3>2
    <3> HIDE DEF e
    <3>8. ASSUME NEW i \in 1 .. Len(e) PROVE e[i] = h[Len(h) + 1 - i]
      <4>1. CASE i \in 1 .. Len(c) BY <2>1, <3>7, <4>1
      <4>2. CASE i = Len(c) + 1 BY <3>6, <3>7, <4>2
      <4> QED BY <2>1, <3>7, <4>1, <4>2
    <3>9. e \in S BY <3>5, <3>7, <3>8
    <3> QED BY <3>4, <3>9 DEF e
  <2> QED BY <2>4, <2>5
<1>5. StepOn(F, S, NBLOCKS) BY <1>4 DEF StepOn
<1>6. ASSUME NEW y \in S, NEW n \in 1 .. NBLOCKS PROVE F[<<y, n>>] = FollowParent(blk, y) OBVIOUS
<1> HIDE DEF F, S
<1>7. PICK f : Iterates(f, S, <<sb>>, F, NBLOCKS) BY <1>2, <1>3, <1>5, RecursionExists
<1>8. ASSUME NEW n \in 1 .. NBLOCKS PROVE f[n] = FollowParent(blk, f[n - 1])
  <2>1. f[n - 1] \in S /\ f[n] = F[<<f[n - 1], n>>] BY <1>2, <1>7 DEF Iterates
  <2> QED BY <1>6, <2>1
<1>9. f = Rec(f)
  <2> DEFINE one == <<sb>>
  <2>1. /\ f \in [0 .. NBLOCKS -> S] /\ f[0] = one /\ NBLOCKS \in Nat
        /\ \A n \in 1 .. NBLOCKS : f[n] = FollowParent(blk, f[n - 1])
    BY <1>2, <1>7, <1>8 DEF Iterates
  <2> HIDE DEF one
  <2>2. f = [n \in 0 .. NBLOCKS |-> IF n = 0 THEN one ELSE FollowParent(blk, f[n - 1])]
    BY ONLY <2>1
  <2> QED BY <2>2 DEF one
<1> DEFINE parents == CHOOSE parents : parents = Rec(parents)
<1>10. parents = Rec(parents)
  <2> HIDE DEF Rec
  <2> QED BY <1>9, Zenon
<1>11. Ancestry(blk, sb) = parents[NBLOCKS] BY DEF Ancestry
<1> HIDE DEF parents
<1>12. parents[0] = <<sb>> /\ \A n \in 1 .. NBLOCKS : parents[n] = FollowParent(blk, parents[n - 1])
  BY <1>2, <1>10
<1>13. Obeys(parents, S, <<sb>>, F, NBLOCKS) BY <1>6, <1>12 DEF Obeys
<1>14. \A n \in 0 .. NBLOCKS : parents[n] = f[n] BY <1>2, <1>3, <1>5, <1>7, <1>13, RecursionUnique
<1>15. Ancestry(blk, sb) \in S BY <1>2, <1>7, <1>11, <1>14 DEF Iterates
<1>16. ASSUME NEW c \in S
       PROVE  /\ c \in Seq(Block) /\ Len(c) \in 1 .. Len(h)
              /\ \A i \in 1 .. Len(c) : c[i] = h[Len(h) + 1 - i]
  BY ONLY <1>16 DEF S
<1>17. ASSUME NEW n \in 1 .. Len(h) PROVE n <= Len(h) BY ONLY <1>1, <1>17
<1> HIDE DEF Rec
<1> QED BY ONLY <1>15, <1>16, <1>17

\* A sound disk has an intact chain of snapshots.
LEMMA ShapeChain ==
  ASSUME NEW h, NEW own, Shape(disk, h, own)
  PROVE  SnapshotChainIntact
<1> DEFINE c == Ancestry(disk.blk, disk.sb)
<1> SUFFICES ASSUME disk.sb \in Block
             PROVE  /\ IsInjective(c)
                    /\ \A i \in DOMAIN c : c[i] \in disk.bmp /\ disk.blk[c[i]].kind = "snap"
  BY DEF SnapshotChainIntact
<1>1. /\ disk.blk \in Blocks /\ h \in Seq(Block) /\ History(disk.blk, disk.sb, h)
      /\ \A i \in DOMAIN h : h[i] \in disk.bmp
  BY DiskFields DEF Shape
<1>2. /\ c \in Seq(Block) /\ Len(c) <= Len(h)
      /\ \A i \in 1 .. Len(c) : c[i] = h[Len(h) + 1 - i]
  BY <1>1, AncestryIn
<1> HIDE DEF c
<1>3. Len(c) \in Nat /\ Len(h) \in Nat /\ DOMAIN c = 1 .. Len(c) /\ DOMAIN h = 1 .. Len(h)
  BY <1>1, <1>2
<1>4. \A i \in 1 .. Len(c) : Len(h) + 1 - i \in DOMAIN h BY <1>2, <1>3
<1>5. IsInjective(c)
  <2> SUFFICES ASSUME NEW i \in 1 .. Len(c), NEW j \in 1 .. Len(c), c[i] = c[j] PROVE i = j
    BY <1>3 DEF IsInjective
  <2>1. h[Len(h) + 1 - i] = h[Len(h) + 1 - j] BY <1>2
  <2>2. Len(h) + 1 - i = Len(h) + 1 - j BY <1>1, <1>4, <2>1 DEF History
  <2> QED BY <1>3, <2>2
<1>6. \A i \in DOMAIN c : c[i] \in disk.bmp /\ disk.blk[c[i]].kind = "snap"
  BY <1>1, <1>2, <1>3, <1>4 DEF History
<1> QED BY <1>5, <1>6

\* The bitmap of a sound disk covers its root, whose forms share no block.
LEMMA ShapeAllocated ==
  ASSUME NEW h, NEW own, Shape(disk, h, own)
  PROVE  RootAllocated
<1> DEFINE A == RootObject(disk.blk, disk.sb)
           es == disk.blk[A].entries
<1>1. CASE disk.sb \notin Block BY <1>1 DEF RootAllocated
<1>2. CASE disk.sb \in Block
  <2>1. /\ disk.sb \in disk.bmp
        /\ A # 0 => A \in Block /\ A \in disk.bmp /\ InTree(disk.blk, own, A)
    BY <1>2, ShapeRoot
  <2>2. disk.blk \in Blocks /\ own \in Labels /\ Tree(disk.blk, own)
        /\ FormsOk(disk.blk, own, disk.bmp)
    BY DiskFields DEF Shape
  <2> HIDE DEF A
  <2>3. ASSUME A # 0, NEW i \in FormEntries(disk.blk, A)
        PROVE  /\ i \in DOMAIN es /\ es[i].obj \in Block
               /\ FormBlocksOf(disk.blk, A, i) \subseteq disk.bmp
               /\ \A x \in FormBlocksOf(disk.blk, A, i) : own[x] = es[i].obj
    <3> DEFINE o == es[i].obj
    <3>1. i \in DOMAIN es /\ es[i].name \in Names BY DEF FormEntries
    <3>2. IsForm(disk.blk, own, o) BY <2>1, <2>3, <3>1 DEF IsForm
    <3>3. o \in Block /\ own[o] = o /\ own[o] # Outside BY <2>2, <3>2, FormsEntered
    <3>4. FormBlocksOf(disk.blk, A, i) = {o} \cup ToSet(disk.blk[o].cb) BY DEF FormBlocksOf
    <3> HIDE DEF o
    <3>5. FormOk(disk.blk, disk.bmp, o) BY <2>2, <3>2, <3>3 DEF FormsOk
    <3>6. ObjOk(disk.blk, own, o) BY <2>2, <3>3, <3>5 DEF Tree, FormOk
    <3>7. \A x \in {o} \cup ToSet(disk.blk[o].cb) : x \in disk.bmp /\ own[x] = o
      BY <3>3, <3>5, <3>6 DEF FormOk, ObjOk, ToSet
    <3> QED BY <3>1, <3>3, <3>4, <3>7 DEF o
  <2>4. ASSUME A # 0, NEW i \in FormEntries(disk.blk, A), NEW j \in FormEntries(disk.blk, A), i # j
        PROVE  FormBlocksOf(disk.blk, A, i) \cap FormBlocksOf(disk.blk, A, j) = {}
    <3>1. es[i].obj # es[j].obj BY <2>1, <2>2, <2>3, <2>4 DEF Tree, NoSharing
    <3> QED BY <2>3, <2>4, <3>1
  <2>5. disk.sb \in disk.bmp /\ (A # 0 =>
            /\ A \in disk.bmp
            /\ \A i \in FormEntries(disk.blk, A) :
                 /\ FormBlocksOf(disk.blk, A, i) \subseteq disk.bmp
                 /\ \A j \in FormEntries(disk.blk, A) : i # j =>
                      FormBlocksOf(disk.blk, A, i) \cap FormBlocksOf(disk.blk, A, j) = {})
    BY <2>1, <2>3, <2>4
  <2> QED BY <2>5 DEF RootAllocated, A
<1> QED BY <1>1, <1>2

\* What a boot would find now is among what the invariant allows.
LEMMA FoundNow ==
  ASSUME Inv, on
  PROVE  /\ Ordinary(Recovered.forms) \in Expected
         /\ Recovered.forms \in Seq(FormRec) /\ mem.forms \in Seq(FormRec)
         /\ hist.base.forms \in Seq(FormRec) /\ hist.last \in Kinds
<1>1. PICK d, h, own : Trail(disk, pend, d, Expected) BY DEF Inv, Live
<1>2. Typed BY DEF Inv
<1>3. pend \in Seq(Write) /\ mem.forms \in Seq(FormRec) /\ hist \in Record
  BY <1>2 DEF Typed, Holds
<1>4. hist.base \in Session /\ hist.last \in Kinds BY <1>3 DEF Record
<1>5. hist.base.forms \in Seq(FormRec) BY <1>4 DEF Session
<1>6. Safe(disk, Expected) BY <1>1, <1>3, TrailEnds
<1>7. PICK h1, own1 : Shape(disk, h1, own1) BY <1>6 DEF Safe
<1>8. Recovered.forms \in Seq(FormRec) /\ Recovered.forms = Loaded(disk.blk, disk.sb)
  BY <1>7, RecoveredTyped DEF Holds
<1>9. Ordinary(Recovered.forms) \in Expected BY <1>6, <1>8 DEF Safe, Shows
<1> QED BY <1>3, <1>4, <1>5, <1>8, <1>9

\* A form a boot would find was in the sequence whose ordinary forms it shows.
LEMMA SameForms ==
  ASSUME NEW p \in Seq(FormRec), NEW q \in Seq(FormRec), Ordinary(p) = Ordinary(q),
         NEW f \in ToSet(p), f.name \in Names
  PROVE  f \in ToSet(q)
<1>1. PICK j \in 1 .. Len(p) : f = p[j] BY DEF ToSet
<1>2. PICK i \in 1 .. Len(Ordinary(p)) : Ordinary(p)[i] = f BY <1>1, OrdinaryElements
<1>3. PICK k \in 1 .. Len(q) : Ordinary(q)[i] = q[k] BY <1>2, OrdinaryElements
<1> QED BY <1>2, <1>3 DEF ToSet

-----------------------------------------------------------------------------
(***************************************************************************)
(* The theorems.                                                           *)
(***************************************************************************)

\* The disk, the memory and the writes on their way are well formed in every
\* reachable state.
THEOREM TypesHold == Spec => []TypeOK
<1>1. Inv => TypeOK
  <2> SUFFICES ASSUME Inv PROVE TypeOK OBVIOUS
  <2>1. PICK h, own : Shape(disk, h, own) BY InvShape
  <2>2. disk.sb \in 0 .. NBLOCKS + 1 /\ disk.bmp \subseteq Block BY <2>1, DiskFields DEF Shape
  <2>3. mem \in Memory /\ Holds(mem) /\ pend \in Seq(Write) BY DEF Inv, Typed
  <2>4. mem.bmp \subseteq Block /\ mem.hint \in 1 .. NBLOCKS + 1 /\ mem.root \in 0 .. NBLOCKS
    BY <2>3 DEF Memory
  <2>5. ASSUME NEW i \in DOMAIN pend, pend[i].to = "blk" PROVE pend[i].b \in Block
    <3>1. pend[i] \in Write BY <2>3
    <3> QED BY <2>5, <3>1 DEF Write, BlkWrite, BmpWrite, SbWrite
  <2> QED BY <2>2, <2>3, <2>4, <2>5 DEF TypeOK, Holds
<1> QED BY <1>1, InvHolds, PTL

\* After every single sector write of hexafs_save_all, the parent pointers lead
\* from the root on disk over allocated snapshots, without a cycle.
THEOREM SnapshotChainStaysIntact == Spec => []SnapshotChainIntact
<1>1. Inv => SnapshotChainIntact BY InvShape, ShapeChain
<1> QED BY <1>1, InvHolds, PTL

\* After every single sector write, the bitmap on disk covers the root on disk
\* and all its forms, and no block belongs to two of them.
THEOREM RootStaysAllocated == Spec => []RootAllocated
<1>1. Inv => RootAllocated BY InvShape, ShapeAllocated
<1> QED BY <1>1, InvHolds, PTL

\* hexafs_save_all is atomic towards power loss, on a disk of any size and for
\* any number of forms that fits.
THEOREM SaveIsAtomic == Spec => []SaveAtomic
<1>1. Inv => SaveAtomic
  <2> SUFFICES ASSUME Inv, on, Fits PROVE SaveAtomic BY DEF SaveAtomic
  <2> DEFINE x == Ordinary(Recovered.forms)
             base == Ordinary(hist.base.forms)
             new == Ordinary(mem.forms)
  <2>1. x \in Expected BY FoundNow
  <2>2. \/ x = base
        \/ hist.last = "data" /\ x = new
        \/ hist.last = "boot" /\ x = <<>>
    BY <2>1 DEF Expected, May
  <2>3. SaveAtomic <=>
          x \in {base, CASE hist.last = "data" -> new
                         [] hist.last \in {"pimp", "mem"} -> base
                         [] OTHER -> <<>>}
    BY DEF SaveAtomic
  <2> HIDE DEF x, base, new
  <2> QED BY <2>2, <2>3
<1> QED BY <1>1, InvHolds, PTL

\* Whether or not a save fits, a form that a boot would find is, name and text,
\* one that was on disk before the command or one in memory.
THEOREM FormsStayGenuine == Spec => []FormsGenuine
<1>1. Inv => FormsGenuine
  <2> SUFFICES ASSUME Inv, on, NEW f \in ToSet(Recovered.forms), f.name \in Names
               PROVE  f \in ToSet(hist.base.forms) \cup ToSet(mem.forms)
    BY DEF FormsGenuine
  <2> DEFINE p == Recovered.forms
             base == hist.base.forms
             new == mem.forms
  <2>1. /\ Ordinary(p) \in Expected /\ p \in Seq(FormRec) /\ new \in Seq(FormRec)
        /\ base \in Seq(FormRec)
    BY FoundNow
  <2>2. \/ Ordinary(p) = Ordinary(base)
        \/ Ordinary(p) = Ordinary(new)
        \/ Ordinary(p) \in Some(new)
        \/ Ordinary(p) = <<>>
    BY <2>1 DEF Expected, May
  <2>3. f \in ToSet(p) OBVIOUS
  <2> HIDE DEF p, base, new
  <2>4. CASE Ordinary(p) = Ordinary(base)
    <3>1. f \in ToSet(base) BY <2>1, <2>3, <2>4, SameForms
    <3> QED BY <3>1 DEF base
  <2>5. CASE Ordinary(p) = Ordinary(new)
    <3>1. f \in ToSet(new) BY <2>1, <2>3, <2>5, SameForms
    <3> QED BY <3>1 DEF new
  <2>6. CASE Ordinary(p) \in Some(new)
    <3>1. PICK q \in Seq(FormRec) : Within(q, new) /\ Ordinary(p) = Ordinary(q) BY <2>6 DEF Some
    <3>2. f \in ToSet(q) BY <2>1, <2>3, <3>1, SameForms
    <3>3. f \in ToSet(new) BY <2>1, <3>1, <3>2 DEF Within, ToSet
    <3> QED BY <3>3 DEF new
  <2>7. CASE Ordinary(p) = <<>>
    <3>1. <<>> \in Seq(FormRec) /\ ToSet(<<>>) = {} BY DEF ToSet
    <3>2. Ordinary(p) = Ordinary(<<>>) BY <2>7, OrdinaryNothing
    <3>3. f \in ToSet(<<>>) BY <2>1, <2>3, <3>1, <3>2, SameForms
    <3> QED BY <3>1, <3>3
  <2> QED BY <2>2, <2>4, <2>5, <2>6, <2>7
<1> QED BY <1>1, InvHolds, PTL

\* Once a session has saved, nothing has failed and the writes are out, a boot
\* would load the forms and the accounts in memory, and after a pimp command the
\* rules: config_save rewrites no object but its own, in the abstraction that
\* hexafs_save_all left.
THEOREM SavedStaysDurable == Spec => []SavedDurable
<1>1. Inv => SavedDurable
  <2> SUFFICES ASSUME Inv, on, pend = <<>>, hist.saved, Fits
               PROVE  /\ Ordinary(Recovered.forms) = Ordinary(mem.forms)
                      /\ Recovered.users = mem.users
                      /\ hist.last = "pimp" => Recovered.pimp = mem.pimp
    BY DEF SavedDurable
  <2>1. PICK d, h, own :
         /\ Trail(disk, pend, d, Expected) /\ Shape(d, h, own) /\ d.sb = mem.root
         /\ Sure => Kept(d.blk, d.sb, mem, hist.last)
    BY DEF Inv, Live
  <2>2. pend \in Seq(Write) /\ mem \in Memory BY DEF Inv, Typed
  <2>3. d = disk BY <2>1, <2>2, TrailEnds
  <2>4. Kept(disk.blk, disk.sb, mem, hist.last) BY <2>1, <2>3 DEF Sure
  <2>5. disk.sb # NoSuper
    <3>1. disk.sb \in 0 .. NBLOCKS BY <2>1, <2>2, <2>3 DEF Memory
    <3> QED BY <3>1, StoreAssumption DEF NoSuper
  <2>6. Recovered = load_data(disk.blk, disk.sb) BY <2>5 DEF Recovered
  <2>7. Recovered.forms = Loaded(disk.blk, disk.sb) BY <2>1, <2>3, RecoveredTyped
  <2> DEFINE A == RootObject(disk.blk, disk.sb)
  <2>8. /\ Recovered.users = UsersIn(ReadNamed(disk.blk, A, DotUsers))
        /\ Recovered.pimp = PimpIn(ReadNamed(disk.blk, A, DotPimp))
    BY <2>6 DEF load_data, load_users, pimp_load_rules
  <2> QED BY <2>4, <2>7, <2>8 DEF Kept
<1> QED BY <1>1, InvHolds, PTL
=============================================================================
