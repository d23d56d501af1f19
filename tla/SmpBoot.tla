------------------------------ MODULE SmpBoot -------------------------------
(***************************************************************************)
(* Bring-up of the application processors (APs): the boot processor (BSP)  *)
(* tries one APIC id after the other, with smp::Manager::init() and        *)
(* ap_startup() of kernel/smp.cpp; each processor that starts runs         *)
(* arch/trampoline.S and ap_main().  They share the data page of           *)
(* kernel/rust/smp.rs: stack, cpu id, ready.                               *)
(***************************************************************************)
EXTENDS Integers, FiniteSets

CONSTANTS MaxCpus,     \* MAX_CPUS
          Populations  \* sets of the APIC ids that may be present besides the BSP's 0

ASSUME SmpAssumption == MaxCpus \in Nat \ {0} /\ \A p \in Populations : p \subseteq Nat \ {0}

VARIABLES present,
          bsp, try, sipis, fails,   \* where the BSP is; try_id, SIPIs sent, consecutive_fails
          next_cpu_id, online,
          page,                     \* the data page: stack (by the cpu id it is for), id, ready
          ap, stack, id,            \* each AP: where it is, its stack and cpu id
          apic, started, idle,      \* cpu_table[]: apic id, started, the AP whose idle task it has
          late                      \* history: the BSP gave up on a processor that is there

smpVars == <<present, bsp, try, sipis, fails, next_cpu_id, online, page, ap, stack, id,
             apic, started, idle, late>>

Apic == 1 .. MaxCpus - 1
Slot == 0 .. MaxCpus

SmpInit == /\ present \in Populations
           /\ bsp = "prepare" /\ try = 1 /\ sipis = 0 /\ fails = 0
           /\ next_cpu_id = 1 /\ online = 1
           /\ page = [stack |-> 0, id |-> 0, ready |-> FALSE]
           /\ ap = [a \in Apic |-> "off"] /\ stack = [a \in Apic |-> 0] /\ id = [a \in Apic |-> 0]
           /\ apic = [c \in Slot |-> 0] /\ started = [c \in Slot |-> c = 0]
           /\ idle = [c \in Slot |-> 0]
           /\ late = FALSE

-----------------------------------------------------------------------------
(* The BSP *)

(* Mutant of Prepare: ready keeps its value of the round before. *)
PrepareStale == /\ bsp = "prepare" /\ try < MaxCpus /\ fails < 2
                /\ apic' = [apic EXCEPT ![next_cpu_id] = try]
                /\ page' = [page EXCEPT !.stack = next_cpu_id, !.id = next_cpu_id]
                /\ ap' = [a \in Apic |-> IF a = try /\ a \in present THEN "wait" ELSE ap[a]]
                /\ sipis' = 0
                /\ bsp' = "sipi"
                /\ UNCHANGED <<present, try, fails, next_cpu_id, online, stack, id, started, idle, late>>

(* One round of the loop of init(), to the INIT interrupt, which makes a   *)
(* processor wait for a SIPI, from wherever it is.                         *)
Prepare == /\ bsp = "prepare" /\ try < MaxCpus /\ fails < 2
           /\ apic' = [apic EXCEPT ![next_cpu_id] = try]
           /\ page' = [stack |-> next_cpu_id, id |-> next_cpu_id, ready |-> FALSE]
           /\ ap' = [a \in Apic |-> IF a = try /\ a \in present THEN "wait" ELSE ap[a]]
           /\ sipis' = 0
           /\ bsp' = "sipi"
           /\ UNCHANGED <<present, try, fails, next_cpu_id, online, stack, id, started, idle, late>>

(* The first SIPI is sent in any case, the second and third if the AP is   *)
(* not ready; a processor that runs ignores it.                            *)
Sipi == /\ bsp = "sipi" /\ sipis < 3
        /\ sipis' = sipis + 1
        /\ IF sipis = 0 \/ ~page.ready
           THEN ap' = [a \in Apic |-> IF a = try /\ ap[a] = "wait" THEN "tramp" ELSE ap[a]]
           ELSE UNCHANGED ap
        /\ bsp' = IF sipis = 2 THEN "poll" ELSE "sipi"
        /\ UNCHANGED <<present, try, fails, next_cpu_id, online, page, stack, id, apic, started, idle, late>>

(* Mutant of Online: the failures need not be consecutive. *)
OnlineFails == /\ bsp = "poll" /\ page.ready
               /\ next_cpu_id' = next_cpu_id + 1 /\ online' = online + 1
               /\ try' = try + 1
               /\ bsp' = "prepare"
               /\ UNCHANGED <<present, sipis, fails, page, ap, stack, id, apic, started, idle, late>>

Online == /\ bsp = "poll" /\ page.ready
          /\ next_cpu_id' = next_cpu_id + 1 /\ online' = online + 1
          /\ fails' = 0 /\ try' = try + 1
          /\ bsp' = "prepare"
          /\ UNCHANGED <<present, sipis, page, ap, stack, id, apic, started, idle, late>>

(* AP_STARTUP_TIMEOUT_MS is over. *)
TimedOut == /\ bsp = "poll" /\ ~page.ready
            /\ fails' = fails + 1 /\ try' = try + 1
            /\ bsp' = "prepare"
            /\ late' = (late \/ try \in present)
            /\ UNCHANGED <<present, sipis, next_cpu_id, online, page, ap, stack, id, apic, started, idle>>

Booted == /\ bsp = "prepare" /\ ~(try < MaxCpus /\ fails < 2)
          /\ bsp' = "booted"
          /\ UNCHANGED <<present, try, sipis, fails, next_cpu_id, online, page, ap, stack, id,
                         apic, started, idle, late>>

-----------------------------------------------------------------------------
(* An AP *)

ApStep(a, from, to) == ap[a] = from /\ ap' = [ap EXCEPT ![a] = to]

(* trampoline.S takes the stack and then the cpu id from the page. *)
ApStack(a) == /\ ApStep(a, "tramp", "stack")
              /\ stack' = [stack EXCEPT ![a] = page.stack]
              /\ UNCHANGED <<present, bsp, try, sipis, fails, next_cpu_id, online, page, id,
                             apic, started, idle, late>>

ApId(a) == /\ ApStep(a, "stack", "main")
           /\ id' = [id EXCEPT ![a] = page.id]
           /\ UNCHANGED <<present, bsp, try, sipis, fails, next_cpu_id, online, page, stack,
                          apic, started, idle, late>>

ApMain(a) == /\ ApStep(a, "main", "setup")
             /\ apic' = [apic EXCEPT ![id[a]] = a]
             /\ started' = [started EXCEPT ![id[a]] = FALSE]
             /\ UNCHANGED <<present, bsp, try, sipis, fails, next_cpu_id, online, page, stack, id, idle, late>>

(* Mutant of ApIdle: the processor is open for work before its idle task   *)
(* is there.                                                               *)
ApIdleEarly(a) == /\ ApStep(a, "setup", "idle")
                  /\ started' = [started EXCEPT ![id[a]] = TRUE]
                  /\ UNCHANGED <<present, bsp, try, sipis, fails, next_cpu_id, online, page, stack, id,
                                 apic, idle, late>>

ApIdle(a) == /\ ApStep(a, "setup", "idle")
             /\ idle' = [idle EXCEPT ![id[a]] = a]
             /\ UNCHANGED <<present, bsp, try, sipis, fails, next_cpu_id, online, page, stack, id,
                            apic, started, late>>

ApStarted(a) == /\ ApStep(a, "idle", "started")
                /\ started' = [started EXCEPT ![id[a]] = TRUE]
                /\ UNCHANGED <<present, bsp, try, sipis, fails, next_cpu_id, online, page, stack, id,
                               apic, idle, late>>

ApReady(a) == /\ ApStep(a, "started", "running")
              /\ page' = [page EXCEPT !.ready = TRUE]
              /\ UNCHANGED <<present, bsp, try, sipis, fails, next_cpu_id, online, stack, id,
                             apic, started, idle, late>>

SmpNext == \/ Prepare \/ Sipi \/ Online \/ TimedOut \/ Booted
           \/ \E a \in Apic : \/ ApStack(a) \/ ApId(a) \/ ApMain(a) \/ ApIdle(a) \/ ApStarted(a)
                              \/ ApReady(a)

SmpSpec == SmpInit /\ [][SmpNext]_smpVars

-----------------------------------------------------------------------------
Inside(a) == ap[a] \in {"main", "setup", "idle", "started", "running"}

(* A cpu that preferred_cpu() may choose has an idle task, at every moment *)
(* of the bring-up, also when a processor is late and another one takes    *)
(* its place.                                                              *)
StartedHasIdle == \A c \in Slot \ {0} : started[c] => idle[c] # 0

(* As long as no processor answers after its timeout, no two of them run   *)
(* with the same cpu id, or on the same stack, and each is entered in the  *)
(* table under its own APIC id.  (A late one finds the page prepared for   *)
(* the next one: both then use one id and one stack.)                      *)
OwnSlot == ~late => /\ \A a, b \in Apic : Inside(a) /\ Inside(b) /\ a # b => id[a] # id[b] /\ stack[a] # stack[b]
                    /\ \A a \in Apic : Inside(a) => stack[a] = id[a] /\ apic[id[a]] = a

(* At the end of init() the cpus 0 .. online - 1 are those that run.  All  *)
(* present processors do, up to the first gap of two APIC ids.             *)
OnlineExact == bsp = "booted" /\ ~late =>
    /\ online = next_cpu_id
    /\ \A c \in Slot : started[c] <=> c < online
    /\ \A a \in present \cap Apic : ap[a] = "running" \/ \E g \in Apic : g < a /\ {g, g + 1} \cap present = {}
=============================================================================
