-------------------------------- MODULE Mount --------------------------------
(***************************************************************************)
(* Mounting the disk at boot: vfs_try_mount_disk() of kernel/fs/vfs.c      *)
(* tries the whole disk and then the partitions of kernel/fs/mbr.c, each   *)
(* with fat_mount() of kernel/fs/fat32/fat32.c, which takes the geometry   *)
(* of the file system from its first sector.                               *)
(*                                                                         *)
(* The integers of the code have 32 bits; here they have Width, and the    *)
(* disks are small in proportion.                                          *)
(***************************************************************************)
EXTENDS Integers, Sequences

CONSTANTS Disks,       \* sectors, first sector as a boot sector and as a partition table
          SectorSize,  \* bytes
          EntrySize,   \* bytes of an entry of the table (4)
          DirentSize,  \* bytes of a record (32)
          Width,       \* of u32
          MaxAlloc     \* the largest block kmalloc() gives

ASSUME MountAssumption == /\ {SectorSize, EntrySize, DirentSize, Width} \subseteq Nat \ {0}
                          /\ MaxAlloc \in Nat /\ SectorSize % EntrySize = 0 /\ MaxAlloc < 2 ^ Width

VARIABLES disk,
          parts,  \* struct mbr_info: the partitions found
          at,     \* the partition that is tried: 0 the whole disk, Len + 1 none left
          mnt     \* the geometry of the mounted file system, with the device it is on

mountVars == <<disk, parts, at, mnt>>

NotMounted == [ok |-> FALSE]
U32(n) == n % 2 ^ Width
Up(a, b) == (a + b - 1) \div b

MountInit == disk \in Disks /\ parts = <<>> /\ at = 0 /\ mnt = NotMounted

(* The checks of fat_mount() on the first sector. *)
Valid(b) == /\ b.bps = SectorSize /\ b.spc # 0 /\ b.fatsz # 0 /\ b.reserved # 0
            /\ b.fats \in {1, 2} /\ b.root >= 2 /\ b.fatsz16 = 0

TotSec(b, sectors) == IF sectors # 0 /\ b.totsec > sectors THEN U32(sectors) ELSE b.totsec
DataStart(b) == b.reserved + b.fats * b.fatsz + Up(b.rootents * DirentSize, b.bps)

(* Mutant of MaxCluster: no clamp to the size of the table. *)
MaxClusterRaw(b, sectors) == U32((TotSec(b, sectors) - DataStart(b)) \div b.spc + 2)

(* The end of the clusters, clamped to what the table can hold. *)
MaxCluster(b, sectors) ==
    LET n == U32((TotSec(b, sectors) - DataStart(b)) \div b.spc + 2)
        entries == U32(b.fatsz * b.bps) \div EntrySize
    IN  IF n < entries THEN n ELSE IF entries = 0 THEN 2 ELSE entries - 1

(* fat_mount() on a device of so many sectors: reading the table may fail. *)
FatMount(b, sectors, dev) ==
    IF Valid(b) /\ DataStart(b) < TotSec(b, sectors) /\ b.fatsz * b.bps <= MaxAlloc
    THEN {[ok |-> TRUE, dev |-> dev, sectors |-> sectors, data |-> DataStart(b), spc |-> b.spc,
           max |-> MaxCluster(b, sectors), fatBytes |-> b.fatsz * b.bps], NotMounted}
    ELSE {NotMounted}

IsFat32(p) == p.type \in {"fat32", "fat32_lba"}

(* mbr_parse(): the entries in use, if the sector can be read and has the  *)
(* signature.                                                              *)
MbrParse == {IF disk.signature THEN SelectSeq(disk.table, LAMBDA e : e.type # "none") ELSE <<>>, <<>>}

(* mbr_get_partition(): a device that keeps to the sectors of the entry. *)
MbrGetPartition(p) == [start |-> p.start, size |-> p.size]

TryWhole == /\ at = 0
            /\ mnt' \in FatMount(disk.first, disk.sectors, [start |-> 0, size |-> disk.sectors])
            /\ parts' \in IF mnt'.ok THEN {<<>>} ELSE MbrParse
            /\ at' = 1
            /\ UNCHANGED disk

TryPartition == /\ at \in 1 .. Len(parts) /\ ~mnt.ok
                /\ LET p == parts[at]
                   IN  mnt' \in IF IsFat32(p) THEN FatMount(p.first, p.size, MbrGetPartition(p)) ELSE {NotMounted}
                /\ at' = at + 1
                /\ UNCHANGED <<disk, parts>>

MountNext == TryWhole \/ TryPartition
MountSpec == MountInit /\ [][MountNext]_mountVars

-----------------------------------------------------------------------------
(* Every cluster the driver may allocate or follow has an entry inside the *)
(* table in memory, at an offset that does not wrap around, and sectors    *)
(* inside the device.                                                      *)
GeometrySound == mnt.ok => \A c \in 2 .. mnt.max - 1 :
    /\ (c + 1) * EntrySize <= mnt.fatBytes
    /\ U32(c * EntrySize) = c * EntrySize
    /\ mnt.data + (c - 1) * mnt.spc <= mnt.dev.size
=============================================================================
