----------------------------- MODULE KernelMap ------------------------------
(***************************************************************************)
(* The high half of the kernel's address space: the page directory PD_HI   *)
(* of arch/entry64.S as vmm_init() completes it (kernel/mm/vmm.c), over    *)
(* the window of frames that pmm_init() chose (kernel/mm/pmm.c), and       *)
(* vmm_map_kernel_page() with its callers.                                 *)
(*                                                                         *)
(* The unit is the 2 MiB slot: slot i of the directory is the virtual      *)
(* window at PHYS_TO_VIRT(2 MiB * i), slot i of memory the frames there.   *)
(* The linear framebuffer lies above the usable memory, so that the loop   *)
(* of vmm_init() never meets it.                                           *)
(***************************************************************************)
EXTENDS Integers, FiniteSets

CONSTANTS RamSizes,   \* ends of the usable memory, in slots
          FbSizes,    \* slots that the linear framebuffer needs, 0 for none
          KernelEnd   \* slots taken by the kernel image

ASSUME KernelMapAssumption == /\ RamSizes \subseteq Nat /\ FbSizes \subseteq Nat /\ KernelEnd \in Nat
                              /\ \A r \in RamSizes : r > KernelEnd + 9

VARIABLES ram, fb,     \* the machine
          pdhi,        \* entries written since arch/entry64.S: page tables and 2 MiB pages
          overwritten, \* slots of memory used as if they were page tables
          phase

kmapVars == <<ram, fb, pdhi, overwritten, phase>>

Index   == 0 .. 511
Absent  == [kind |-> "absent", slot |-> 0]
Table   == [kind |-> "table", slot |-> 0]
Big(s)  == [kind |-> "page", slot |-> s]

VgaSlot == 96
FbSlot  == 104
FixSlot == 112
DevSlot == 128
HeapWin == 256
HeapSlots == 8    \* 16 MiB

KmapInit == /\ ram \in RamSizes /\ fb \in FbSizes
            /\ pdhi = <<>> /\ overwritten = {} /\ phase = "boot"

(* entry64.S: the image and the windows of VGA memory and devices. *)
BootEntry(i) == IF i < 32 THEN Big(i) ELSE IF i \in {VgaSlot, DevSlot} THEN Table ELSE Absent
Entry(i) == IF i \in DOMAIN pdhi THEN pdhi[i] ELSE BootEntry(i)

(* kheap_place() takes the last 16 MiB; the buddy has what is between a    *)
(* margin above the kernel and that.                                       *)
HeapAt  == ram - HeapSlots
Managed == KernelEnd + 1 .. HeapAt - 1

(* Mutant of Skipped: the window of VGA memory is not left out. *)
SkippedLess == {97, FbSlot, FixSlot, DevSlot}

(* Slots that the loop of vmm_init() leaves alone. *)
Skipped == {VgaSlot, 97, FbSlot, FixSlot, DevSlot}

(* The slots of memory it maps at index i, the last one stays. *)
MappedAt(i) == {s \in KernelEnd .. ram - 1 : s % 512 = i /\ s < 1536 /\ i \notin Skipped}

VmmInit == /\ phase = "boot"
           /\ phase' = "run"
           /\ pdhi' = [i \in Index |->
                 IF i \in HeapWin .. HeapWin + 15 THEN Big(HeapAt + i - HeapWin)
                 ELSE IF MappedAt(i) # {} THEN Big(CHOOSE s \in MappedAt(i) : \A t \in MappedAt(i) : t <= s)
                 ELSE Entry(i)]
           /\ UNCHANGED <<ram, fb, overwritten>>

(* vmm_map_kernel_page() for pages of the slots I: a missing page table is *)
(* made; what is in the entry is taken for one otherwise.                  *)
MapKernelPages(I) ==
    /\ phase = "run"
    /\ pdhi' = [i \in Index |-> IF i \in I /\ Entry(i) = Absent THEN Table ELSE Entry(i)]
    /\ overwritten' = overwritten \union {Entry(i).slot : i \in {j \in I : Entry(j).kind = "page"}}
    /\ UNCHANGED <<ram, fb, phase>>

(* fb_init(), signal_init_trampoline(), and the APIC and AHCI drivers *)
FbInit == fb > 0 /\ MapKernelPages(FbSlot .. FbSlot + fb - 1)
Fixmap == MapKernelPages({FixSlot})
Devices == MapKernelPages({DevSlot})

KmapNext == VmmInit \/ FbInit \/ Fixmap \/ Devices
KmapSpec == KmapInit /\ [][KmapNext]_kmapVars

-----------------------------------------------------------------------------
(* "so PHYS_TO_VIRT() is valid for all of RAM": the alias of every frame   *)
(* that the buddy hands out is that frame.                                 *)
AliasTrue == phase = "run" => \A s \in Managed : s < 512 /\ Entry(s) = Big(s)

(* Up to 208 MiB the map is sound: the alias of every managed frame is     *)
(* that frame, the windows of VGA memory and of devices stay theirs, and   *)
(* no caller of vmm_map_kernel_page() writes its entries into memory that  *)
(* is not a page table ("callers only target fresh slots").                *)
SmallRamSound == ram <= FbSlot => /\ AliasTrue
                                  /\ Entry(VgaSlot) = Table /\ Entry(DevSlot) = Table
                                  /\ overwritten = {}
=============================================================================
