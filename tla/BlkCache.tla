------------------------------- MODULE BlkCache -------------------------------
(***************************************************************************)
(* kernel/fs/blk_cache.c: the write-back cache of disk sectors, above a    *)
(* block device that may fail at any command.  Every call holds            *)
(* cache_lock from its first to its last access, so a call is one step;    *)
(* only the flush, which writes many sectors, is a step per slot, because  *)
(* the machine can go down between two of them.                            *)
(***************************************************************************)
EXTENDS Naturals

CONSTANTS Dev,      \* block devices
          Lba,      \* sector numbers of a device
          Data,     \* contents of a sector
          Zero,     \* the contents of a cleared buffer
          NoDev,    \* the NULL device pointer
          NSlots,   \* CACHE_ENTRIES
          Dma       \* TRUE: an AHCI disk, which transfers by DMA; FALSE: IDE

Sector == Dev \X Lba
NoSector == <<NoDev, 0>>
Slot == 1 .. NSlots

ASSUME CacheAssumption == /\ NSlots \in Nat \ {0}
                          /\ Zero \in Data
                          /\ NoDev \notin Dev
                          /\ Dma \in BOOLEAN

VARIABLES disk,                          \* the medium
          sec, data, valid, dirty, used, \* struct cache_entry; sec is (dev, lba)
          fdev, fpos, fok,               \* a flush under way: device, next slot, no error yet
          dma,                           \* the reads the driver gave up on
          out                            \* the answer to the last call

entries == <<sec, data, valid, dirty, used>>
flush == <<fdev, fpos, fok>>
vars == <<disk, sec, data, valid, dirty, used, fdev, fpos, fok, dma, out>>

-----------------------------------------------------------------------------
(* The answers of the three calls. *)
None == [op |-> "none", ok |-> TRUE, val |-> Zero]

Failed(op) == [op |-> op, ok |-> FALSE, val |-> Zero]

Done(op) == [op |-> op, ok |-> TRUE, val |-> Zero]

Got(v) == [op |-> "read", ok |-> TRUE, val |-> v]

(* vfs_init() -> blk_cache_init(), on memory that the loader cleared. *)
Init == /\ disk \in [Sector -> Data]
        /\ sec = [i \in Slot |-> NoSector]
        /\ data = [i \in Slot |-> Zero]
        /\ valid = [i \in Slot |-> FALSE]
        /\ dirty = [i \in Slot |-> FALSE]
        /\ used = [i \in Slot |-> FALSE]
        /\ fdev = NoDev /\ fpos = 1 /\ fok = TRUE
        /\ dma = {}
        /\ out = None

-----------------------------------------------------------------------------
(* Helpers of blk_cache.c; all of them run under cache_lock. *)

Unlocked == fdev = NoDev

Holds(i, s) == valid[i] /\ sec[i] = s

Cached(s) == \E i \in Slot : Holds(i, s)

First(S) == CHOOSE i \in S : \A j \in S : i <= j

(* cache_find() *)
CacheFind(s) == First({i \in Slot : Holds(i, s)})

(* cache_find_victim(): an invalid slot, else one not used recently, else  *)
(* the first one, after all used flags have been cleared.                  *)
AllUsed == \A i \in Slot : valid[i] /\ used[i]

CacheFindVictim ==
    LET invalid == {i \in Slot : ~valid[i]}
        unused == {i \in Slot : ~used[i]}
    IN  First(IF invalid # {} THEN invalid ELSE IF unused # {} THEN unused ELSE Slot)

UsedAfterScan == IF AllUsed THEN [i \in Slot |-> FALSE] ELSE used

(* A device takes a command only when no earlier one is outstanding on its *)
(* port (waitTfd() in ahci.cpp).  A failed write may have reached the      *)
(* medium on an AHCI disk; ide_write_sector() fails before the data phase. *)
Ready(s) == \A x \in dma : x[2][1] # s[1]

Dirty(i) == valid[i] /\ dirty[i]

Written(i) == [disk EXCEPT ![sec[i]] = data[i]]

(* Mutant of CacheWriteback: the victim is dropped without being written. *)
CacheWritebackSkip(i) == UNCHANGED disk

(* cache_writeback() *)
CacheWriteback(i) == IF Dirty(i) THEN Ready(sec[i]) /\ disk' = Written(i) ELSE UNCHANGED disk

CacheWritebackFails(i) == /\ Dirty(i)
                          /\ \/ UNCHANGED disk
                             \/ Dma /\ Ready(sec[i]) /\ disk' = Written(i)

-----------------------------------------------------------------------------
(* blk_cache_read() *)

ReadHit(s) == /\ Unlocked /\ Cached(s)
              /\ used' = [used EXCEPT ![CacheFind(s)] = TRUE]
              /\ out' = Got(data[CacheFind(s)])
              /\ UNCHANGED <<disk, sec, data, valid, dirty, flush, dma>>

ReadMiss(s) ==
    LET i == CacheFindVictim
    IN  /\ Unlocked /\ ~Cached(s) /\ Ready(s)
        /\ CacheWriteback(i)
        /\ sec' = [sec EXCEPT ![i] = s]
        /\ data' = [data EXCEPT ![i] = disk'[s]]
        /\ valid' = [valid EXCEPT ![i] = TRUE]
        /\ dirty' = [dirty EXCEPT ![i] = FALSE]
        /\ used' = [UsedAfterScan EXCEPT ![i] = TRUE]
        /\ out' = Got(disk'[s])
        /\ UNCHANGED <<flush, dma>>

(* dev->read() fails: the slot keeps its sector number and stays valid.  An *)
(* AHCI disk may have transferred the sector before the error, or, after a  *)
(* timeout, may still do so.                                                *)
ReadFails(s) ==
    LET i == CacheFindVictim
    IN  /\ Unlocked /\ ~Cached(s)
        /\ CacheWriteback(i)
        /\ dirty' = [dirty EXCEPT ![i] = FALSE]
        /\ used' = UsedAfterScan
        /\ \/ UNCHANGED <<data, dma>>
           \/ /\ Dma /\ Ready(s)
              /\ data' = [data EXCEPT ![i] = disk'[s]]
              /\ UNCHANGED dma
           \/ /\ Dma /\ Ready(s)
              /\ dma' = dma \union {<<i, s>>}
              /\ UNCHANGED data
        /\ out' = Failed("read")
        /\ UNCHANGED <<sec, valid, flush>>

(* The victim cannot be written back: the call returns the error. *)
EvictFails(s, op) == /\ Unlocked /\ ~Cached(s)
                     /\ CacheWritebackFails(CacheFindVictim)
                     /\ used' = UsedAfterScan
                     /\ out' = Failed(op)
                     /\ UNCHANGED <<sec, data, valid, dirty, flush, dma>>

-----------------------------------------------------------------------------
(* blk_cache_write() *)

WriteHit(s, v) == /\ Unlocked /\ Cached(s)
                  /\ used' = [used EXCEPT ![CacheFind(s)] = TRUE]
                  /\ data' = [data EXCEPT ![CacheFind(s)] = v]
                  /\ dirty' = [dirty EXCEPT ![CacheFind(s)] = TRUE]
                  /\ out' = Done("write")
                  /\ UNCHANGED <<disk, sec, valid, flush, dma>>

(* Mutant of WriteMiss: a slot is taken without looking for the sector. *)
WriteMissBlind(s, v) ==
    LET i == CacheFindVictim
    IN  /\ Unlocked
        /\ CacheWriteback(i)
        /\ sec' = [sec EXCEPT ![i] = s]
        /\ data' = [data EXCEPT ![i] = v]
        /\ valid' = [valid EXCEPT ![i] = TRUE]
        /\ dirty' = [dirty EXCEPT ![i] = TRUE]
        /\ used' = [UsedAfterScan EXCEPT ![i] = TRUE]
        /\ out' = Done("write")
        /\ UNCHANGED <<flush, dma>>

WriteMiss(s, v) ==
    LET i == CacheFindVictim
    IN  /\ Unlocked /\ ~Cached(s)
        /\ CacheWriteback(i)
        /\ sec' = [sec EXCEPT ![i] = s]
        /\ data' = [data EXCEPT ![i] = v]
        /\ valid' = [valid EXCEPT ![i] = TRUE]
        /\ dirty' = [dirty EXCEPT ![i] = TRUE]
        /\ used' = [UsedAfterScan EXCEPT ![i] = TRUE]
        /\ out' = Done("write")
        /\ UNCHANGED <<flush, dma>>

-----------------------------------------------------------------------------
(* blk_cache_flush(): cache_flush_locked() writes the dirty slots of the   *)
(* device back one by one, goes on after an error and returns it.          *)

FlushStart(d) == /\ Unlocked
                 /\ fdev' = d /\ fpos' = 1 /\ fok' = TRUE
                 /\ UNCHANGED <<disk, entries, dma, out>>

Flushable(i) == Dirty(i) /\ sec[i][1] = fdev

FlushSkip == /\ ~Unlocked /\ fpos \in Slot /\ ~Flushable(fpos)
             /\ fpos' = fpos + 1
             /\ UNCHANGED <<disk, entries, fdev, fok, dma, out>>

FlushSlot == /\ ~Unlocked /\ fpos \in Slot /\ Flushable(fpos)
             /\ CacheWriteback(fpos)
             /\ dirty' = [dirty EXCEPT ![fpos] = FALSE]
             /\ fpos' = fpos + 1
             /\ UNCHANGED <<sec, data, valid, used, fdev, fok, dma, out>>

FlushSlotFails == /\ ~Unlocked /\ fpos \in Slot /\ Flushable(fpos)
                  /\ CacheWritebackFails(fpos)
                  /\ fpos' = fpos + 1 /\ fok' = FALSE
                  /\ UNCHANGED <<entries, fdev, dma, out>>

FlushEnd == /\ ~Unlocked /\ fpos = NSlots + 1
            /\ out' = IF fok THEN Done("flush") ELSE Failed("flush")
            /\ fdev' = NoDev
            /\ UNCHANGED <<disk, entries, fpos, fok, dma>>

-----------------------------------------------------------------------------
(* The transfer of a read that timed out in issueCmd() arrives late, in the *)
(* buffer the driver gave the controller, whatever the slot is used for now *)
LateDma == \E x \in dma :
              /\ data' = [data EXCEPT ![x[1]] = disk[x[2]]]
              /\ dma' = dma \ {x}
              /\ UNCHANGED <<disk, sec, valid, dirty, used, flush, out>>

(* Power is lost and the kernel boots again: the medium is all that is left *)
Reboot == /\ sec' = [i \in Slot |-> NoSector]
          /\ data' = [i \in Slot |-> Zero]
          /\ valid' = [i \in Slot |-> FALSE]
          /\ dirty' = [i \in Slot |-> FALSE]
          /\ used' = [i \in Slot |-> FALSE]
          /\ fdev' = NoDev /\ fpos' = 1 /\ fok' = TRUE
          /\ dma' = {}
          /\ out' = None
          /\ UNCHANGED disk

Read(s) == ReadHit(s) \/ ReadMiss(s) \/ ReadFails(s) \/ EvictFails(s, "read")

Write(s, v) == WriteHit(s, v) \/ WriteMiss(s, v) \/ EvictFails(s, "write")

Flush == FlushSkip \/ FlushSlot \/ FlushSlotFails \/ FlushEnd

Next == \/ \E s \in Sector : Read(s)
        \/ \E s \in Sector, v \in Data : Write(s, v)
        \/ \E d \in Dev : FlushStart(d)
        \/ Flush
        \/ LateDma
        \/ Reboot

Spec == Init /\ [][Next]_vars

-----------------------------------------------------------------------------
(* Every variable has its type. *)
TypeOK == /\ disk \in [Sector -> Data]
          /\ sec \in [Slot -> Sector \union {NoSector}]
          /\ data \in [Slot -> Data]
          /\ valid \in [Slot -> BOOLEAN]
          /\ dirty \in [Slot -> BOOLEAN]
          /\ used \in [Slot -> BOOLEAN]
          /\ fdev \in Dev \union {NoDev}
          /\ fpos \in 1 .. NSlots + 1
          /\ fok \in BOOLEAN
          /\ dma \subseteq Slot \X Sector
          /\ out \in [op : {"none", "read", "write", "flush"}, ok : BOOLEAN, val : Data]
          /\ \A i \in Slot : valid[i] => sec[i] \in Sector

(* No sector is cached twice: cache_find() and eviction never leave two     *)
(* slots with different ideas of one sector, not even after failed calls.   *)
NoAlias == \A i, j \in Slot : valid[i] /\ valid[j] /\ sec[i] = sec[j] => i = j

(* A slot that is valid and not dirty is a copy of its sector: evicting it  *)
(* without a write loses nothing, and a hit on it reads the sector          *)
(* (include/disk.h:84, "Read a sector through the cache").                  *)
CleanIsTrue == \A i \in Slot : valid[i] /\ ~dirty[i] => data[i] = disk[sec[i]]

(* While a flush has met no error, the slots it has passed are clean. *)
FlushedSoFar == fdev # NoDev /\ fok =>
                   \A i \in Slot : i < fpos /\ valid[i] /\ sec[i][1] = fdev => ~dirty[i]

(* The invariant behind the refinement, for disks that do not use DMA. *)
CacheInv == TypeOK /\ NoAlias /\ CleanIsTrue /\ FlushedSoFar /\ dma = {}

(* What a read of each sector returns. *)
View == [s \in Sector |-> IF Cached(s) THEN data[CacheFind(s)] ELSE disk[s]]

Store == INSTANCE SectorStore WITH contents <- View, stable <- disk

(* The cache is a sector store: reads return the last accepted write, an    *)
(* eviction or a failed call changes nothing a reader can see, and a flush  *)
(* that returns 0 has put every sector of the device on the medium          *)
(* (blk_cache_read(), blk_cache_write(), blk_cache_flush()).                *)
StoreSpec == Store!Spec
=============================================================================
