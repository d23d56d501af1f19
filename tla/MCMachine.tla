----------------------------- MODULE MCMachine ------------------------------
(* Instances of memory management and processor bring-up.  The modules     *)
(* share no variable; "part" says which one a behaviour is about, and the  *)
(* others stay in one initial state.                                       *)
EXTENDS Pmm, Vmm, KernelMap, SmpBoot

VARIABLE part

mcVars == <<part, pmmVars, heapVars, vmmVars, kmapVars, smpVars>>

(* Pages 3 .. 9, and 5 .. 12 with one that is reserved. *)
Pages(b, t, r) == [base |-> b, top |-> t, resv |-> r]
MCWindows == {Pages(3, 10, {}), Pages(5, 13, {11})}

(* A program of one page, the trampoline in a page table of its own, a     *)
(* heap of two pages.  A frame is named by the space and path it could     *)
(* serve; two of the second space are missing.                             *)
MCImage == {<<1, 1, 1>>}
MCTramp == <<1, 2, 1>>
MCHeap == <<<<1, 1, 2>>, <<1, 1, 3>>>>
MCFrame == ({1, 2} \X (Path \union {Root})) \ ({2} \X {MCHeap[2], MCTramp})

(* No AP, all of them, and gaps of one and of two APIC ids. *)
MCPopulations == {{}, {1, 2, 3}, {2, 4}, {1, 4}}

MCInit == /\ part \in {"pmm", "vmm", "kmap", "smp"}
          /\ win \in IF part = "pmm" THEN Windows ELSE {Pages(3, 10, {})}
          /\ ram \in IF part = "kmap" THEN RamSizes ELSE {16}
          /\ fb \in IF part = "kmap" THEN FbSizes ELSE {0}
          /\ present \in IF part = "smp" THEN Populations ELSE {{}}
          /\ PmmInit /\ SpaceInit /\ KmapInit /\ SmpInit

MCNext == \/ part = "pmm" /\ PmmNext /\ UNCHANGED <<part, vmmVars, kmapVars, smpVars>>
          \/ part = "vmm" /\ SpaceNext /\ UNCHANGED <<part, pmmVars, heapVars, kmapVars, smpVars>>
          \/ part = "kmap" /\ KmapNext /\ UNCHANGED <<part, pmmVars, heapVars, vmmVars, smpVars>>
          \/ part = "smp" /\ SmpNext /\ UNCHANGED <<part, pmmVars, heapVars, vmmVars, kmapVars>>

MCSpec == MCInit /\ [][MCNext]_mcVars
=============================================================================
