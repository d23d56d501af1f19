--------------------------- MODULE SmpBootProofs ----------------------------
(***************************************************************************)
(* Proofs about SmpBoot for every MAX_CPUS and every population of APIC    *)
(* ids: a started cpu has its idle task; and as long as no processor is    *)
(* late, each has a cpu id and a stack of its own.                         *)
(***************************************************************************)
EXTENDS SmpBoot, TLAPS

ApState == {"off", "wait", "tramp", "stack", "main", "setup", "idle", "started", "running"}

(* The BSP's counters, with the bounds that keep cpu_table[s_next_cpu_id]  *)
(* inside the table.                                                       *)
Counters ==
    /\ bsp \in {"prepare", "sipi", "poll", "booted"}
    /\ try \in Nat /\ next_cpu_id \in Nat
    /\ 1 <= next_cpu_id /\ next_cpu_id <= try /\ try <= MaxCpus
    /\ bsp \in {"sipi", "poll"} => try < MaxCpus

(* The types of what BSP and APs share. *)
Tables ==
    /\ DOMAIN page = {"stack", "id", "ready"} /\ page.stack \in Slot /\ page.id \in Slot
    /\ ap \in [Apic -> ApState] /\ stack \in [Apic -> Slot] /\ id \in [Apic -> Slot]
    /\ apic \in [Slot -> Nat] /\ DOMAIN started = Slot /\ idle \in [Slot -> Nat]

BootType == Counters /\ Tables

(* An AP about to be started has built the idle task of its cpu. *)
IdleBuilt == \A a \in Apic : ap[a] = "idle" => idle[id[a]] # 0

IdleInv == BootType /\ IdleBuilt /\ StartedHasIdle

LEMMA BootTypeInit == SmpInit => BootType
<1> SUFFICES ASSUME SmpInit PROVE BootType
  OBVIOUS
<1>1. Counters
  BY SmpAssumption DEF SmpInit, Counters
<1>2. 0 \in Slot /\ "off" \in ApState
  BY SmpAssumption DEF Slot, ApState
<1>3. Tables
  BY <1>2 DEF SmpInit, Tables
<1> QED
  BY <1>1, <1>3 DEF BootType

LEMMA CountersStep == Counters /\ [SmpNext]_smpVars => Counters'
<1> SUFFICES ASSUME Counters, [SmpNext]_smpVars PROVE Counters'
  OBVIOUS
<1> USE SmpAssumption DEF Counters
<1>1. CASE Prepare
  BY <1>1 DEF Prepare
<1>2. CASE Sipi
  BY <1>2 DEF Sipi
<1>3. CASE Online
  BY <1>3 DEF Online
<1>4. CASE TimedOut
  BY <1>4 DEF TimedOut
<1>5. CASE Booted
  BY <1>5 DEF Booted
<1>6. ASSUME NEW a \in Apic, \/ ApStack(a) \/ ApId(a) \/ ApMain(a) \/ ApIdle(a) \/ ApStarted(a)
                             \/ ApReady(a)
      PROVE  Counters'
  BY <1>6 DEF ApStack, ApId, ApMain, ApIdle, ApStarted, ApReady
<1>7. CASE UNCHANGED smpVars
  BY <1>7 DEF smpVars
<1> QED
  BY <1>1, <1>2, <1>3, <1>4, <1>5, <1>6, <1>7 DEF SmpNext

LEMMA TablesStep == BootType /\ [SmpNext]_smpVars => Tables'
<1> SUFFICES ASSUME Counters, Tables, [SmpNext]_smpVars PROVE Tables'
  BY DEF BootType
<1>a. {"wait", "tramp", "stack", "main", "setup", "idle", "started", "running"} \subseteq ApState
  BY DEF ApState
<1>b. next_cpu_id \in Slot /\ Apic \subseteq Nat
  BY SmpAssumption DEF Counters, Slot, Apic
<1> USE <1>a, <1>b DEF Tables
<1>1. CASE Prepare
  BY <1>1 DEF Prepare, Counters
<1>2. CASE Sipi
  <2>1. ap' \in [Apic -> ApState]
    BY <1>2 DEF Sipi
  <2> QED
    BY <1>2, <2>1 DEF Sipi
<1>3. CASE Online
  BY <1>3 DEF Online
<1>4. CASE TimedOut
  BY <1>4 DEF TimedOut
<1>5. CASE Booted
  BY <1>5 DEF Booted
<1>6. ASSUME NEW a \in Apic, ApStack(a) PROVE Tables'
  BY <1>6 DEF ApStack, ApStep
<1>7. ASSUME NEW a \in Apic, ApId(a) PROVE Tables'
  BY <1>7 DEF ApId, ApStep
<1>8. ASSUME NEW a \in Apic, ApMain(a) PROVE Tables'
  BY <1>8 DEF ApMain, ApStep
<1>9. ASSUME NEW a \in Apic, ApIdle(a) PROVE Tables'
  BY <1>9 DEF ApIdle, ApStep
<1>10. ASSUME NEW a \in Apic, ApStarted(a) PROVE Tables'
  BY <1>10 DEF ApStarted, ApStep
<1>11. ASSUME NEW a \in Apic, ApReady(a) PROVE Tables'
  BY <1>11 DEF ApReady, ApStep
<1>12. CASE UNCHANGED smpVars
  BY <1>12 DEF smpVars
<1> QED
  BY <1>1, <1>2, <1>3, <1>4, <1>5, <1>6, <1>7, <1>8, <1>9, <1>10, <1>11, <1>12 DEF SmpNext

LEMMA BootTypeStep == BootType /\ [SmpNext]_smpVars => BootType'
  BY CountersStep, TablesStep DEF BootType

-----------------------------------------------------------------------------
LEMMA IdleStep == IdleInv /\ [SmpNext]_smpVars => IdleInv'
<1> SUFFICES ASSUME IdleInv, [SmpNext]_smpVars PROVE IdleInv'
  OBVIOUS
<1>0. BootType'
  BY BootTypeStep DEF IdleInv
<1>00. BootType /\ IdleBuilt /\ StartedHasIdle
  BY DEF IdleInv
<1> SUFFICES IdleBuilt' /\ StartedHasIdle'
  BY <1>0 DEF IdleInv
<1> USE <1>0, <1>00 DEF IdleBuilt, StartedHasIdle, BootType, Tables
<1>1. CASE Prepare
  BY <1>1 DEF Prepare
<1>2. CASE Sipi
  BY <1>2 DEF Sipi
<1>3. CASE Online \/ TimedOut \/ Booted \/ UNCHANGED smpVars
  BY <1>3 DEF Online, TimedOut, Booted, smpVars
<1>4. ASSUME NEW a \in Apic, ApStack(a) \/ ApId(a) \/ ApReady(a) PROVE IdleBuilt' /\ StartedHasIdle'
  BY <1>4 DEF ApStack, ApId, ApReady, ApStep
<1>5. ASSUME NEW a \in Apic, ApMain(a) PROVE IdleBuilt' /\ StartedHasIdle'
  BY <1>5 DEF ApMain, ApStep
<1>6. ASSUME NEW a \in Apic, ApIdle(a) PROVE IdleBuilt' /\ StartedHasIdle'
  <2>1. a # 0
    BY <1>6 DEF Apic
  <2> QED
    BY <1>6, <2>1 DEF ApIdle, ApStep
<1>7. ASSUME NEW a \in Apic, ApStarted(a) PROVE IdleBuilt' /\ StartedHasIdle'
  BY <1>7 DEF ApStarted, ApStep
<1> QED
  BY <1>1, <1>2, <1>3, <1>4, <1>5, <1>6, <1>7 DEF SmpNext

(* preferred_cpu() chooses among cpus that are started: whatever the       *)
(* delays, and even if two processors take one cpu id, a started cpu has   *)
(* an idle task.                                                           *)
THEOREM StartedCpuHasIdle == SmpSpec => []StartedHasIdle
<1>1. SmpInit => IdleInv
  BY BootTypeInit DEF SmpInit, IdleInv, IdleBuilt, StartedHasIdle
<1>2. IdleInv /\ [SmpNext]_smpVars => IdleInv'
  BY IdleStep
<1>3. IdleInv => StartedHasIdle
  BY DEF IdleInv
<1> QED
  BY <1>1, <1>2, <1>3, PTL DEF SmpSpec

-----------------------------------------------------------------------------
Trying == bsp \in {"sipi", "poll"}

(* As long as nobody is late: a processor that has left "off" is there,    *)
(* and it is the one being tried, or it was tried before and runs with a   *)
(* cpu id below the next one.                                              *)
InTurn == \A a \in Apic : ap[a] # "off" =>
             /\ a \in present
             /\ \/ a < try /\ ap[a] = "running" /\ id[a] < next_cpu_id
                \/ a = try /\ Trying

(* The table and the stacks follow the ids. *)
Entered == \A a \in Apic : Inside(a) => stack[a] = id[a] /\ apic[id[a]] = a

(* The processor being tried finds the page prepared for it; that it is    *)
(* ready is its own word.                                                  *)
Prepared == Trying =>
    /\ page.stack = next_cpu_id /\ page.id = next_cpu_id /\ apic[next_cpu_id] = try
    /\ page.ready => ap[try] = "running"
    /\ ap[try] = "stack" \/ Inside(try) => stack[try] = next_cpu_id
    /\ Inside(try) => id[try] = next_cpu_id
    /\ try \in present => ap[try] # "off"

SlotInv == BootType /\ (~late => InTurn /\ Entered /\ Prepared)

LEMMA SlotStep == SlotInv /\ [SmpNext]_smpVars => SlotInv'
<1> SUFFICES ASSUME SlotInv, [SmpNext]_smpVars, ~late' PROVE InTurn' /\ Entered' /\ Prepared'
  BY BootTypeStep DEF SlotInv
<1>0. BootType'
  BY BootTypeStep DEF SlotInv
<1>00. ~late
  BY DEF SmpNext, smpVars, Prepare, Sipi, Online, TimedOut, Booted, ApStack, ApId, ApMain, ApIdle,
         ApStarted, ApReady
<1>000. BootType /\ InTurn /\ Entered /\ Prepared
  BY <1>00 DEF SlotInv
<1> USE SmpAssumption, <1>0, <1>000 DEF InTurn, Entered, Prepared, BootType, Counters, Tables, Trying, Inside
<1>1. CASE Prepare
  <2>0. try \in Apic
    BY <1>1 DEF Prepare, Apic
  <2>1. InTurn'
    BY <1>1, <2>0 DEF Prepare
  <2>2. Entered'
    <3> SUFFICES ASSUME NEW a \in Apic, Inside(a)' PROVE (stack[a] = id[a] /\ apic[id[a]] = a)'
      OBVIOUS
    <3>1. ap[a] # "off" /\ Inside(a) /\ a # try
      BY <1>1 DEF Prepare
    <3>2. id[a] # next_cpu_id /\ id[a] \in Slot
      BY <1>1, <3>1 DEF Prepare
    <3> QED
      BY <1>1, <3>1, <3>2 DEF Prepare
  <2>3. Prepared'
    BY <1>1, <2>0 DEF Prepare, Slot
  <2> QED
    BY <2>1, <2>2, <2>3
<1>2. CASE Sipi
  <2>0. try \in Apic
    BY <1>2 DEF Sipi, Apic
  <2> QED
    BY <1>2, <2>0 DEF Sipi
<1>3. CASE Online
  <2>0. try \in Apic
    BY <1>3 DEF Online, Apic
  <2>1. InTurn'
    <3> SUFFICES ASSUME NEW a \in Apic, ap[a] # "off"
                 PROVE  a \in present /\ a < try + 1 /\ ap[a] = "running" /\ id[a] < next_cpu_id + 1
      BY <1>3 DEF Online
    <3>1. CASE a = try
      BY <1>3, <2>0, <3>1 DEF Online
    <3>2. CASE a # try
      <4>1. a \in present /\ a < try /\ ap[a] = "running" /\ id[a] < next_cpu_id
        BY <3>2
      <4>2. a \in Int /\ id[a] \in Int
        BY <1>3 DEF Apic, Slot
      <4> QED
        BY <4>1, <4>2
    <3> QED
      BY <3>1, <3>2
  <2> QED
    BY <1>3, <2>1 DEF Online
<1>4. CASE TimedOut
  <2>0. try \notin present
    BY <1>4, Zenon DEF TimedOut
  <2>1. InTurn'
    <3> SUFFICES ASSUME NEW a \in Apic, ap[a] # "off"
                 PROVE  a \in present /\ a < try + 1 /\ ap[a] = "running" /\ id[a] < next_cpu_id
      BY <1>4 DEF TimedOut
    <3>1. a \in present /\ a < try /\ ap[a] = "running" /\ id[a] < next_cpu_id
      BY <2>0
    <3>2. a \in Int
      BY DEF Apic
    <3> QED
      BY <3>1, <3>2
  <2> QED
    BY <1>4, <2>1 DEF TimedOut
<1>5. CASE Booted \/ UNCHANGED smpVars
  BY <1>5 DEF Booted, smpVars
<1>6. ASSUME NEW a \in Apic, ApStack(a) PROVE InTurn' /\ Entered' /\ Prepared'
  BY <1>6 DEF ApStack, ApStep
<1>7. ASSUME NEW a \in Apic, ApId(a) PROVE InTurn' /\ Entered' /\ Prepared'
  BY <1>7 DEF ApId, ApStep
<1>8. ASSUME NEW a \in Apic, ApMain(a) PROVE InTurn' /\ Entered' /\ Prepared'
  BY <1>8 DEF ApMain, ApStep
<1>9. ASSUME NEW a \in Apic, ApIdle(a) \/ ApStarted(a) PROVE InTurn' /\ Entered' /\ Prepared'
  BY <1>9 DEF ApIdle, ApStarted, ApStep
<1>10. ASSUME NEW a \in Apic, ApReady(a) PROVE InTurn' /\ Entered' /\ Prepared'
  BY <1>10 DEF ApReady, ApStep
<1> QED
  BY <1>1, <1>2, <1>3, <1>4, <1>5, <1>6, <1>7, <1>8, <1>9, <1>10 DEF SmpNext

(* While no processor answers after its timeout, each one that has entered *)
(* the kernel has a cpu id, a stack and an entry of cpu_table[] of its own. *)
THEOREM EachCpuOwnsItsSlot == SmpSpec => []OwnSlot
<1>1. SmpInit => SlotInv
  <2> SUFFICES ASSUME SmpInit PROVE SlotInv
    OBVIOUS
  <2>1. \A a \in Apic : ap[a] = "off"
    BY DEF SmpInit
  <2> QED
    BY <2>1, BootTypeInit DEF SmpInit, SlotInv, InTurn, Entered, Prepared, Trying, Inside
<1>2. SlotInv /\ [SmpNext]_smpVars => SlotInv'
  BY SlotStep
<1>3. SlotInv => OwnSlot
  BY DEF SlotInv, Entered, OwnSlot
<1> QED
  BY <1>1, <1>2, <1>3, PTL DEF SmpSpec
=============================================================================
