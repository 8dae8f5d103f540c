----------------------------- MODULE BlockCache -----------------------------
(***************************************************************************)
(* The 16-slot block cache of hexafs_disk.c over the ATA disk.  Every      *)
(* write goes to the cache and through to the disk; eviction overwrites    *)
(* slot 0 once every slot is taken and never writes the victim back, even  *)
(* if its dirty flag is set.  The ATA driver may fail a request: a read    *)
(* then changes nothing; a write is reported as failed although the sector *)
(* may have been written (the last status poll of ata_write_sector).       *)
(***************************************************************************)
EXTENDS Naturals

CONSTANTS CACHE_SLOTS,   \* HEXAFS_CACHE_SLOTS
          Lba,           \* sectors HEXAFS addresses (it never asks for 0)
          Value          \* contents of a sector

ASSUME CacheAssumption == /\ CACHE_SLOTS \in Nat \ {0}
                          /\ Lba \subseteq Nat \ {0}
                          /\ Value # {}

VARIABLES cache,   \* block_cache: slot -> [lba, dirty, data]
          disk,    \* the sectors on the ATA disk
          doubt,   \* history: sectors whose last write reported failure
          ret      \* the answer to the last request

vars == <<cache, disk, doubt, ret>>

Slots == 0 .. CACHE_SLOTS - 1

\* memset(block_cache, 0, ...): a slot with lba 0 is empty.
EmptySlot == [lba |-> 0, dirty |-> FALSE, data |-> CHOOSE v \in Value : TRUE]

(***************************************************************************)
(* cache_find and cache_evict: the first slot that matches.                *)
(***************************************************************************)
FirstSlot(i, l) == /\ cache[i].lba = l
                   /\ \A j \in Slots : cache[j].lba = l => i <= j

Cached(l) == \E i \in Slots : cache[i].lba = l

\* cache_evict: the first empty slot, else always slot 0, dirty or not.
EvictSlot(i) == IF Cached(0) THEN FirstSlot(i, 0) ELSE i = 0

\* Mutant: a slot taken over without writing its dirty flag.
Fill_NoDirty(i, l, dirty, v) == cache' = [cache EXCEPT ![i] = [lba |-> l, data |-> v]]

Fill(i, l, dirty, v) ==
  cache' = [cache EXCEPT ![i] = [lba |-> l, dirty |-> dirty, data |-> v]]

(***************************************************************************)
(* cache_read, with and without a hit.                                     *)
(***************************************************************************)
Answer(op, l, ok, v) == [op |-> op, lba |-> l, ok |-> ok, val |-> v]

ReadHit(l) == \E i \in Slots :
  /\ FirstSlot(i, l)
  /\ ret' = Answer("read", l, TRUE, cache[i].data)
  /\ UNCHANGED <<cache, disk, doubt>>

ReadMiss(l) == /\ ~Cached(l)
               /\ \E i \in Slots : EvictSlot(i) /\ Fill(i, l, FALSE, disk[l])
               /\ ret' = Answer("read", l, TRUE, disk[l])
               /\ UNCHANGED <<disk, doubt>>

ReadError(l) == /\ ~Cached(l)
                /\ ret' = [op |-> "read", lba |-> l, ok |-> FALSE]
                /\ UNCHANGED <<cache, disk, doubt>>

(***************************************************************************)
(* ata_write_sector: success stores the sector; a failure is reported      *)
(* before the data phase (old contents) or by the final poll (new ones).   *)
(***************************************************************************)
AtaWrite(l, v) == /\ disk' = [disk EXCEPT ![l] = v]
                  /\ doubt' = doubt \ {l}

AtaWriteError(l, v) == /\ disk' \in {disk, [disk EXCEPT ![l] = v]}
                       /\ doubt' = doubt \cup {l}

\* Mutant: cache_write without cache_find, which always evicts.
WriteSlot_NoFind(i, l) == EvictSlot(i)

\* The slot a write uses: the one that holds l, else an evicted one.
WriteSlot(i, l) == IF Cached(l) THEN FirstSlot(i, l) ELSE EvictSlot(i)

\* Mutant: a write-back cache_write that leaves the disk to a later flush.
CacheWrite_NoWriteThrough(l, v) ==
  /\ \E i \in Slots : WriteSlot(i, l) /\ Fill(i, l, TRUE, v)
  /\ ret' = Answer("write", l, TRUE, v)
  /\ UNCHANGED <<disk, doubt>>

\* cache_write: the slot is marked dirty and stays so, whatever ATA answers.
CacheWrite(l, v) ==
  /\ \E i \in Slots : WriteSlot(i, l) /\ Fill(i, l, TRUE, v)
  /\ \/ AtaWrite(l, v)      /\ ret' = Answer("write", l, TRUE, v)
     \/ AtaWriteError(l, v) /\ ret' = Answer("write", l, FALSE, v)

(***************************************************************************)
(* cache_flush_dirty: rewrites every dirty slot, ignores what ATA answers  *)
(* and clears the flags.  done is the set of slots whose write succeeded,  *)
(* landed that of slots whose data reached the disk.  If two slots held    *)
(* one sector the last slot would win.                                     *)
(***************************************************************************)
DirtySlots == {i \in Slots : cache[i].lba # 0 /\ cache[i].dirty}

LandedFor(l, S) == {i \in S : cache[i].lba = l}

FlushedDisk(landed) ==
  [l \in Lba |-> IF LandedFor(l, landed) = {} THEN disk[l]
                 ELSE cache[CHOOSE i \in LandedFor(l, landed) :
                              \A j \in LandedFor(l, landed) : j <= i].data]

FlushDirty == \E landed, done \in SUBSET DirtySlots :
  /\ done \subseteq landed
  /\ disk' = FlushedDisk(landed)
  /\ cache' = [i \in Slots |-> [cache[i] EXCEPT !.dirty = FALSE]]
  /\ doubt' = doubt \ {cache[i].lba : i \in done}
  /\ ret' = [op |-> "none"]

\* hexafs_mount_disk and hexafs_format clear the cache, after a restart too.
Mount == /\ cache' = [i \in Slots |-> EmptySlot]
         /\ ret' = [op |-> "none"]
         /\ UNCHANGED <<disk, doubt>>

Init == /\ cache = [i \in Slots |-> EmptySlot]
        /\ disk \in [Lba -> Value]
        /\ doubt = {}
        /\ ret = [op |-> "none"]

Next == \/ \E l \in Lba : ReadHit(l) \/ ReadMiss(l) \/ ReadError(l)
        \/ \E l \in Lba, v \in Value : CacheWrite(l, v)
        \/ FlushDirty
        \/ Mount

Spec == Init /\ [][Next]_vars

-----------------------------------------------------------------------------
SlotType == [lba : Lba \cup {0}, dirty : BOOLEAN, data : Value]

\* The types of block_cache and of the disk.
TypeOK == /\ cache \in [Slots -> SlotType]
          /\ disk \in [Lba -> Value]
          /\ doubt \subseteq Lba

(***************************************************************************)
(* Eviction drops dirty slots unwritten, so everything rests on this: a    *)
(* slot never differs from its sector unless the last write to that sector *)
(* reported failure, and no sector is in two slots (cache_find would see   *)
(* only the first, and a flush would write both).                          *)
(***************************************************************************)
Coherent ==
  \A i \in Slots : cache[i].lba # 0 =>
    /\ cache[i].lba \notin doubt => cache[i].data = disk[cache[i].lba]
    /\ \A j \in Slots : cache[j].lba = cache[i].lba => j = i

(***************************************************************************)
(* The cache implements a plain disk: a sector reads as its slot if it has *)
(* one and as the disk otherwise.                                          *)
(***************************************************************************)
SlotOf(l) == CHOOSE i \in Slots : FirstSlot(i, l)

ViewOf(l) == IF Cached(l) THEN cache[SlotOf(l)].data ELSE disk[l]

Dev == INSTANCE BlockDevice WITH view <- [l \in Lba |-> ViewOf(l)]

\* Every behaviour of the cache is one of the plain disk of BlockDevice:
\* reads through hexafs_block_read never return a value that was overwritten
\* by a write that succeeded, across evictions, flushes and restarts.
ImplementsDevice == Dev!Spec
=============================================================================
