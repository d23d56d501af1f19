------------------------------- MODULE Sched -------------------------------
(***************************************************************************)
(* The preemptive scheduler of the kernel: kernel/sched.c, with the parts  *)
(* of arch/cpu.c (timer), kernel/isr.c (interrupt return), kernel/smp.cpp  *)
(* (reschedule IPI, idle loop of an AP) and kernel/task.c (fork) that      *)
(* drive it.                                                               *)
(*                                                                         *)
(* Kernel code runs with interrupts off (every IDT gate is an interrupt    *)
(* gate, schedule() does cli), so on one CPU it is never interleaved with  *)
(* itself; CPUs interleave with one another at every access to shared      *)
(* state.  A critical section under runq_lock is one step.  The program    *)
(* counter pc[c] says which statement CPU c is about to execute.           *)
(***************************************************************************)
EXTENDS Integers, Sequences

CONSTANTS
    NCpu,     \* number of started CPUs; CPU 0 is the BSP
    NUser,    \* task slots available to user tasks
    Quantum,  \* ticks a task may run (6 in the code)
    MaxSleep  \* longest nanosleep, in ticks (bound of the model)

ASSUME SchedAssumption ==
    /\ NCpu \in Nat \ {0}
    /\ NUser \in Nat \ {0}
    /\ Quantum \in Nat \ {0}
    /\ MaxSleep \in Nat \ {0}

CPU     == 0 .. NCpu - 1
BSP     == 0
NoCpu   == -1
User    == 1 .. NUser
Idle(c) == NUser + 1 + c
Task    == 1 .. NUser + NCpu
NoTask  == 0

VARIABLES
    \* struct task
    state,    \* task -> T_xxx
    rq_cpu,   \* task -> CPU whose queue holds it, or NoCpu
    cpu_id,   \* task -> CPU running it, or NoCpu
    quantum,  \* user task -> ticks left of its time slice
    left,     \* user task -> max(0, sleep_until - jiffies)
    ret,      \* task -> pc at which its call of schedule(), or the interrupt
              \* that stopped it, resumes
    \* struct cpu_info
    rq,       \* CPU -> run queue, from runq_head.rq_next on
    cur,      \* CPU -> _current
    need,     \* CPU -> need_resched
    \* the machine
    ipi,      \* CPU -> reschedule IPI latched in its LAPIC
    pc,       \* CPU -> control point
    reg,      \* CPU -> the task the running code has in hand
    stk       \* CPU -> task whose kernel stack the CPU is on

taskVars == <<state, rq_cpu, cpu_id, quantum, left, ret>>
cpuVars  == <<rq, cur, need, ipi, pc, reg, stk>>
vars     == <<taskVars, cpuVars>>

States == {"UNUSED", "RUNNABLE", "RUNNING", "SLEEPING"}

(* Control points at which the CPU accepts interrupts: ring 3, and the     *)
(* idle loop outside schedule().                                           *)
Interruptible == {"user", "loop", "idle", "hlt"}

InSchedule == {"pick", "decide", "requeue", "switch", "swtch"}
InTick     == {"tk_check", "tk_store", "tk_add", "tk_end"}
InSleep    == {"ns_test", "ns_sleep", "ns_deq"}
Pcs        == Interruptible \cup InSchedule \cup InTick \cup InSleep \cup {"ub"}

-----------------------------------------------------------------------------
(* Run queues.                                                             *)

PickNext(c) == IF rq[c] = << >> THEN NoTask ELSE Head(rq[c])

(* The first CPU whose current task is its idle task, else the caller's.   *)
PreferredCpu(c) ==
    LET idling == {d \in CPU : cur[d] = Idle(d)}
    IN  IF idling = {} THEN c
        ELSE CHOOSE d \in idling : \A e \in idling : d <= e

(* Mutant: enqueue without looking at rq_cpu.                              *)
RunqueueAddTwice(c, t) ==
    LET d == PreferredCpu(c)
    IN  /\ rq_cpu' = [rq_cpu EXCEPT ![t] = d]
        /\ rq' = [rq EXCEPT ![d] = <<t>> \o @]
        /\ ipi' = [ipi EXCEPT ![d] = @ \/ d # c]

(* runqueue_add(t) called on CPU c: push at the head of the preferred      *)
(* CPU's queue and send it an IPI when it is another CPU.                  *)
RunqueueAdd(c, t) ==
    IF rq_cpu[t] # NoCpu
    THEN UNCHANGED <<rq, rq_cpu, ipi>>
    ELSE LET d == PreferredCpu(c)
         IN  /\ rq_cpu' = [rq_cpu EXCEPT ![t] = d]
             /\ rq' = [rq EXCEPT ![d] = <<t>> \o @]
             /\ ipi' = [ipi EXCEPT ![d] = @ \/ d # c]

(* Unlink the first entry equal to t, if there is one.                     *)
Unlink(q, t) ==
    IF \A i \in 1 .. Len(q) : q[i] # t
    THEN q
    ELSE LET k == CHOOSE i \in 1 .. Len(q) :
                    q[i] = t /\ \A j \in 1 .. i - 1 : q[j] # t
         IN  [i \in 1 .. Len(q) - 1 |-> IF i < k THEN q[i] ELSE q[i + 1]]

RunqueueRemove(t) ==
    /\ rq' = [c \in CPU |-> IF c = rq_cpu[t] THEN Unlink(rq[c], t) ELSE rq[c]]
    /\ rq_cpu' = [rq_cpu EXCEPT ![t] = NoCpu]

-----------------------------------------------------------------------------
(* schedule()                                                              *)

(* The idle loop calls schedule().                                         *)
IdleLoop(c) ==
    /\ pc[c] = "loop"
    /\ pc' = [pc EXCEPT ![c] = "pick"]
    /\ ret' = [ret EXCEPT ![cur[c]] = "idle"]
    /\ UNCHANGED <<state, rq_cpu, cpu_id, quantum, left,
                   rq, cur, need, ipi, reg, stk>>

(* cli; next = pick_next()  -- no lock is taken.                           *)
SchedPick(c) ==
    /\ pc[c] = "pick"
    /\ reg' = [reg EXCEPT ![c] = PickNext(c)]
    /\ pc' = [pc EXCEPT ![c] = "decide"]
    /\ UNCHANGED <<taskVars, rq, cur, need, ipi, stk>>

RefreshQuantum(t) ==
    quantum' = IF t \in User THEN [quantum EXCEPT ![t] = Quantum] ELSE quantum

(* Nothing queued and current can go on: return to the caller.             *)
SchedStay(c) ==
    LET t == cur[c]
    IN  /\ pc[c] = "decide"
        /\ reg[c] = NoTask
        /\ state[t] \in {"RUNNING", "RUNNABLE"}
        /\ RefreshQuantum(t)
        /\ pc' = [pc EXCEPT ![c] = ret[t]]
        /\ UNCHANGED <<state, rq_cpu, cpu_id, left, ret,
                       rq, cur, need, ipi, reg, stk>>

(* Nothing queued and current blocked: fall back to this CPU's idle task.  *)
(* The branch for current = idle is dead code: idle is always RUNNING.     *)
SchedToIdle(c) ==
    /\ pc[c] = "decide"
    /\ reg[c] = NoTask
    /\ state[cur[c]] \notin {"RUNNING", "RUNNABLE"}
    /\ reg' = [reg EXCEPT ![c] = Idle(c)]
    /\ pc' = [pc EXCEPT ![c] = "requeue"]
    /\ UNCHANGED <<taskVars, rq, cur, need, ipi, stk>>

(* current itself heads the queue: drop the stale entry and return.        *)
SchedSelf(c) ==
    LET t == cur[c]
    IN  /\ pc[c] = "decide"
        /\ reg[c] = t
        /\ IF state[t] = "RUNNING" THEN RefreshQuantum(t) ELSE UNCHANGED quantum
        /\ RunqueueRemove(t)
        /\ pc' = [pc EXCEPT ![c] = ret[t]]
        /\ UNCHANGED <<state, cpu_id, left, ret, cur, need, ipi, reg, stk>>

SchedOther(c) ==
    /\ pc[c] = "decide"
    /\ reg[c] \notin {NoTask, cur[c]}
    /\ pc' = [pc EXCEPT ![c] = "requeue"]
    /\ UNCHANGED <<taskVars, rq, cur, need, ipi, reg, stk>>

(* Mutants: current is marked RUNNABLE but not queued; idle is queued too. *)
SchedRequeueNoAdd(c) ==
    LET t == cur[c]
    IN  /\ pc[c] = "requeue"
        /\ IF state[t] = "RUNNING" /\ t \in User
           THEN state' = [state EXCEPT ![t] = "RUNNABLE"]
           ELSE UNCHANGED state
        /\ pc' = [pc EXCEPT ![c] = "switch"]
        /\ UNCHANGED <<rq_cpu, cpu_id, quantum, left, ret,
                       rq, cur, need, ipi, reg, stk>>

SchedRequeueIdle(c) ==
    LET t == cur[c]
    IN  /\ pc[c] = "requeue"
        /\ IF state[t] = "RUNNING"
           THEN /\ state' = [state EXCEPT ![t] = "RUNNABLE"]
                /\ RunqueueAdd(c, t)
           ELSE UNCHANGED <<state, rq, rq_cpu, ipi>>
        /\ pc' = [pc EXCEPT ![c] = "switch"]
        /\ UNCHANGED <<cpu_id, quantum, left, ret, cur, need, reg, stk>>

(* A current task that can still run goes back to a queue; idle never.     *)
SchedRequeue(c) ==
    LET t == cur[c]
    IN  /\ pc[c] = "requeue"
        /\ IF state[t] = "RUNNING" /\ t \in User
           THEN /\ state' = [state EXCEPT ![t] = "RUNNABLE"]
                /\ RunqueueAdd(c, t)
           ELSE UNCHANGED <<state, rq, rq_cpu, ipi>>
        /\ pc' = [pc EXCEPT ![c] = "switch"]
        /\ UNCHANGED <<cpu_id, quantum, left, ret, cur, need, reg, stk>>

(* Mutant: next stays queued.                                              *)
SwitchToQueued(c) ==
    LET t == cur[c]
        n == reg[c]
    IN  /\ pc[c] = "switch"
        /\ state' = [state EXCEPT ![n] = "RUNNING"]
        /\ RefreshQuantum(n)
        /\ cpu_id' = [cpu_id EXCEPT ![n] = c, ![t] = NoCpu]
        /\ cur' = [cur EXCEPT ![c] = n]
        /\ pc' = [pc EXCEPT ![c] = "swtch"]
        /\ UNCHANGED <<rq, rq_cpu, left, ret, need, ipi, reg, stk>>

(* runqueue_remove(next), then the stores of switch_to(next).              *)
SwitchTo(c) ==
    LET t == cur[c]
        n == reg[c]
    IN  /\ pc[c] = "switch"
        /\ RunqueueRemove(n)
        /\ state' = [state EXCEPT ![n] = "RUNNING"]
        /\ RefreshQuantum(n)
        /\ cpu_id' = [cpu_id EXCEPT ![n] = c, ![t] = NoCpu]
        /\ cur' = [cur EXCEPT ![c] = n]
        /\ pc' = [pc EXCEPT ![c] = "swtch"]
        /\ UNCHANGED <<left, ret, need, ipi, reg, stk>>

(* swtch(): save the old stack pointer, load the new one.  Loading the     *)
(* context of a task whose stack another CPU is still on is undefined      *)
(* behaviour: the model stops there.                                       *)
Swtch(c) ==
    LET n == cur[c]
    IN  /\ pc[c] = "swtch"
        /\ IF \E d \in CPU \ {c} : stk[d] = n
           THEN /\ pc' = [pc EXCEPT ![c] = "ub"]
                /\ UNCHANGED stk
           ELSE /\ pc' = [pc EXCEPT ![c] = ret[n]]
                /\ stk' = [stk EXCEPT ![c] = n]
        /\ UNCHANGED <<taskVars, rq, cur, need, ipi, reg>>

(* sti; hlt at the bottom of the idle loop.                                *)
Halt(c) ==
    /\ pc[c] = "idle"
    /\ pc' = [pc EXCEPT ![c] = "hlt"]
    /\ UNCHANGED <<taskVars, rq, cur, need, ipi, reg, stk>>

Schedule(c) ==
    \/ SchedPick(c)
    \/ SchedStay(c)
    \/ SchedToIdle(c)
    \/ SchedSelf(c)
    \/ SchedOther(c)
    \/ SchedRequeue(c)
    \/ SwitchTo(c)
    \/ Swtch(c)

-----------------------------------------------------------------------------
(* Interrupts                                                              *)

(* Where the interrupted code goes on: an interrupt ends a hlt.            *)
Interrupted(c) == IF pc[c] = "hlt" THEN "loop" ELSE pc[c]

(* The LAPIC timer of the BSP (no other CPU has one): jiffies++ and the    *)
(* start of sched_tick()'s loop over the task table.                       *)
Tick(c) ==
    /\ c = BSP
    /\ pc[c] \in Interruptible
    /\ ret' = [ret EXCEPT ![cur[c]] = Interrupted(c)]
    /\ left' = [u \in User |-> IF left[u] = 0 THEN 0 ELSE left[u] - 1]
    /\ reg' = [reg EXCEPT ![c] = 1]
    /\ pc' = [pc EXCEPT ![c] = "tk_check"]
    /\ UNCHANGED <<state, rq_cpu, cpu_id, quantum, rq, cur, need, ipi, stk>>

(* Mutants: wake without testing for T_SLEEPING; no scan while idle runs.  *)
TickCheckAny(c) ==
    LET u == reg[c]
    IN  /\ pc[c] = "tk_check"
        /\ IF u \notin User
           THEN pc' = [pc EXCEPT ![c] = "tk_end"] /\ UNCHANGED reg
           ELSE IF state[u] # "UNUSED" /\ left[u] = 0
                THEN pc' = [pc EXCEPT ![c] = "tk_store"] /\ UNCHANGED reg
                ELSE reg' = [reg EXCEPT ![c] = u + 1] /\ UNCHANGED pc
        /\ UNCHANGED <<taskVars, rq, cur, need, ipi, stk>>

TickCheckBusy(c) ==
    LET u == reg[c]
    IN  /\ pc[c] = "tk_check"
        /\ IF u \notin User \/ cur[c] = Idle(c)
           THEN pc' = [pc EXCEPT ![c] = "tk_end"] /\ UNCHANGED reg
           ELSE IF state[u] = "SLEEPING" /\ left[u] = 0
                THEN pc' = [pc EXCEPT ![c] = "tk_store"] /\ UNCHANGED reg
                ELSE reg' = [reg EXCEPT ![c] = u + 1] /\ UNCHANGED pc
        /\ UNCHANGED <<taskVars, rq, cur, need, ipi, stk>>

TickCheck(c) ==
    LET u == reg[c]
    IN  /\ pc[c] = "tk_check"
        /\ IF u \notin User
           THEN /\ pc' = [pc EXCEPT ![c] = "tk_end"]
                /\ UNCHANGED reg
           ELSE IF state[u] = "SLEEPING" /\ left[u] = 0
                THEN /\ pc' = [pc EXCEPT ![c] = "tk_store"]
                     /\ UNCHANGED reg
                ELSE /\ reg' = [reg EXCEPT ![c] = u + 1]
                     /\ UNCHANGED pc
        /\ UNCHANGED <<taskVars, rq, cur, need, ipi, stk>>

TickStore(c) ==
    /\ pc[c] = "tk_store"
    /\ state' = [state EXCEPT ![reg[c]] = "RUNNABLE"]
    /\ pc' = [pc EXCEPT ![c] = "tk_add"]
    /\ UNCHANGED <<rq_cpu, cpu_id, quantum, left, ret,
                   rq, cur, need, ipi, reg, stk>>

TickAdd(c) ==
    /\ pc[c] = "tk_add"
    /\ RunqueueAdd(c, reg[c])
    /\ need' = [need EXCEPT ![c] = TRUE]
    /\ reg' = [reg EXCEPT ![c] = @ + 1]
    /\ pc' = [pc EXCEPT ![c] = "tk_check"]
    /\ UNCHANGED <<state, cpu_id, quantum, left, ret, cur, stk>>

(* sched_maybe_preempt(): reschedule, or return from the interrupt.        *)
MaybePreempt(c, flag) ==
    IF flag /\ state[cur[c]] = "RUNNING"
    THEN /\ need' = [need EXCEPT ![c] = FALSE]
         /\ pc' = [pc EXCEPT ![c] = "pick"]
    ELSE /\ need' = [need EXCEPT ![c] = flag]
         /\ pc' = [pc EXCEPT ![c] = ret[cur[c]]]

(* Mutants: the quantum is burnt below zero; an expired quantum does not   *)
(* ask for a reschedule.                                                   *)
TickEndUnderflow(c) ==
    LET t     == cur[c]
        spent == t \in User /\ quantum[t] = 1 /\ state[t] = "RUNNING"
    IN  /\ pc[c] = "tk_end"
        /\ quantum' = IF t \in User THEN [quantum EXCEPT ![t] = @ - 1] ELSE quantum
        /\ MaybePreempt(c, need[c] \/ spent)
        /\ UNCHANGED <<state, rq_cpu, cpu_id, left, ret, rq, cur, ipi, reg, stk>>

TickEndNoResched(c) ==
    LET t     == cur[c]
        burns == t \in User /\ quantum[t] > 0
    IN  /\ pc[c] = "tk_end"
        /\ quantum' = IF burns THEN [quantum EXCEPT ![t] = @ - 1] ELSE quantum
        /\ MaybePreempt(c, need[c])
        /\ UNCHANGED <<state, rq_cpu, cpu_id, left, ret, rq, cur, ipi, reg, stk>>

(* The end of sched_tick(): burn a tick of current's quantum, unless       *)
(* current is idle, then sched_maybe_preempt().                            *)
TickEnd(c) ==
    LET t     == cur[c]
        burns == t \in User /\ quantum[t] > 0
        spent == burns /\ quantum[t] = 1 /\ state[t] = "RUNNING"
    IN  /\ pc[c] = "tk_end"
        /\ quantum' = IF burns THEN [quantum EXCEPT ![t] = @ - 1] ELSE quantum
        /\ MaybePreempt(c, need[c] \/ spent)
        /\ UNCHANGED <<state, rq_cpu, cpu_id, left, ret, rq, cur, ipi, reg, stk>>

(* The reschedule IPI.  isr_common() preempts ring 3 only.                 *)
RescheduleIpi(c) ==
    /\ ipi[c]
    /\ pc[c] \in Interruptible
    /\ ipi' = [ipi EXCEPT ![c] = FALSE]
    /\ IF pc[c] = "user" /\ state[cur[c]] = "RUNNING"
       THEN /\ need' = [need EXCEPT ![c] = FALSE]
            /\ ret' = [ret EXCEPT ![cur[c]] = "user"]
            /\ pc' = [pc EXCEPT ![c] = "pick"]
       ELSE /\ need' = [need EXCEPT ![c] = TRUE]
            /\ pc' = [pc EXCEPT ![c] = Interrupted(c)]
            /\ UNCHANGED ret
    /\ UNCHANGED <<state, rq_cpu, cpu_id, quantum, left, rq, cur, reg, stk>>

-----------------------------------------------------------------------------
(* System calls of the running task                                        *)

(* fork: claim the first UNUSED slot, make it RUNNABLE and queue it.       *)
Fork(c) ==
    LET free == {u \in User : state[u] = "UNUSED"}
        u    == CHOOSE v \in free : \A w \in free : v <= w
    IN  /\ pc[c] = "user"
        /\ free # {}
        /\ state' = [state EXCEPT ![u] = "RUNNABLE"]
        /\ cpu_id' = [cpu_id EXCEPT ![u] = NoCpu]
        /\ ret' = [ret EXCEPT ![u] = "user"]
        /\ RunqueueAdd(c, u)
        /\ UNCHANGED <<quantum, left, cur, need, pc, reg, stk>>

(* nanosleep: until = jiffies + k.                                         *)
Nanosleep(c, k) ==
    /\ pc[c] = "user"
    /\ left' = [left EXCEPT ![cur[c]] = k]
    /\ pc' = [pc EXCEPT ![c] = "ns_test"]
    /\ UNCHANGED <<state, rq_cpu, cpu_id, quantum, ret,
                   rq, cur, need, ipi, reg, stk>>

(* while ((i64)(jiffies - until) < 0)                                      *)
NanosleepTest(c) ==
    /\ pc[c] = "ns_test"
    /\ pc' = [pc EXCEPT ![c] = IF left[cur[c]] = 0 THEN "user" ELSE "ns_sleep"]
    /\ UNCHANGED <<taskVars, rq, cur, need, ipi, reg, stk>>

NanosleepStore(c) ==
    /\ pc[c] = "ns_sleep"
    /\ state' = [state EXCEPT ![cur[c]] = "SLEEPING"]
    /\ pc' = [pc EXCEPT ![c] = "ns_deq"]
    /\ UNCHANGED <<rq_cpu, cpu_id, quantum, left, ret,
                   rq, cur, need, ipi, reg, stk>>

NanosleepDequeue(c) ==
    /\ pc[c] = "ns_deq"
    /\ RunqueueRemove(cur[c])
    /\ ret' = [ret EXCEPT ![cur[c]] = "ns_test"]
    /\ pc' = [pc EXCEPT ![c] = "pick"]
    /\ UNCHANGED <<state, cpu_id, quantum, left, cur, need, ipi, reg, stk>>

-----------------------------------------------------------------------------
(* After kernel_spawn("/bin/init") and smp_init(): init is queued on the   *)
(* BSP, which enters idle_loop(); the APs are halted in their idle loops.  *)
Init ==
    /\ state = [t \in Task |->
                  CASE t = 1                 -> "RUNNABLE"
                    [] t \in User /\ t # 1   -> "UNUSED"
                    [] t \notin User         -> "RUNNING"]
    /\ rq_cpu = [t \in Task |-> IF t = 1 THEN BSP ELSE NoCpu]
    /\ cpu_id = [t \in Task |-> IF t \in User THEN NoCpu ELSE t - NUser - 1]
    /\ quantum = [u \in User |-> 0]
    /\ left = [u \in User |-> 0]
    /\ ret = [t \in Task |-> IF t \in User THEN "user" ELSE "loop"]
    /\ rq = [c \in CPU |-> IF c = BSP THEN <<1>> ELSE << >>]
    /\ cur = [c \in CPU |-> Idle(c)]
    /\ need = [c \in CPU |-> FALSE]
    /\ ipi = [c \in CPU |-> FALSE]
    /\ pc = [c \in CPU |-> IF c = BSP THEN "loop" ELSE "hlt"]
    /\ reg = [c \in CPU |-> NoTask]
    /\ stk = [c \in CPU |-> Idle(c)]

(* A step of the kernel code running on c.                                 *)
Kernel(c) ==
    \/ Schedule(c)
    \/ IdleLoop(c)
    \/ Halt(c)
    \/ TickCheck(c)
    \/ TickStore(c)
    \/ TickAdd(c)
    \/ TickEnd(c)
    \/ NanosleepTest(c)
    \/ NanosleepStore(c)
    \/ NanosleepDequeue(c)

Syscall(c) ==
    \/ Fork(c)
    \/ \E k \in 1 .. MaxSleep : Nanosleep(c, k)

Undefined == \E c \in CPU : pc[c] = "ub"

Next ==
    /\ ~Undefined
    /\ \E c \in CPU :
         \/ Kernel(c)
         \/ Tick(c)
         \/ RescheduleIpi(c)
         \/ Syscall(c)

Spec == Init /\ [][Next]_vars

(* A CPU keeps executing kernel code, and the idle loop advances between   *)
(* two interrupts; a latched interrupt is taken once the CPU accepts       *)
(* interrupts; the BSP's timer fires again and again.  User programs owe   *)
(* nothing: they may compute for ever.                                     *)
Fairness ==
    /\ \A c \in CPU : WF_vars(~Undefined /\ Kernel(c))
    /\ \A c \in CPU : SF_vars(~Undefined /\ (IdleLoop(c) \/ Halt(c)))
    /\ \A c \in CPU : SF_vars(~Undefined /\ RescheduleIpi(c))
    /\ SF_vars(~Undefined /\ Tick(BSP))

FairSpec == Spec /\ Fairness

-----------------------------------------------------------------------------
(* Every variable has its type; the quantum and the sleep never leave      *)
(* their ranges, and only user tasks are ever put in a queue.              *)
TypeOK ==
    /\ state \in [Task -> States]
    /\ rq_cpu \in [Task -> CPU \cup {NoCpu}]
    /\ cpu_id \in [Task -> CPU \cup {NoCpu}]
    /\ quantum \in [User -> 0 .. Quantum]
    /\ left \in [User -> 0 .. MaxSleep]
    /\ ret \in [Task -> {"user", "loop", "idle", "ns_test"}]
    /\ rq \in [CPU -> Seq(User)]
    /\ cur \in [CPU -> Task]
    /\ need \in [CPU -> BOOLEAN]
    /\ ipi \in [CPU -> BOOLEAN]
    /\ pc \in [CPU -> Pcs]
    /\ reg \in [CPU -> 0 .. NUser + NCpu]
    /\ stk \in [CPU -> Task]

(* runqueue_add() and runqueue_remove() keep the queues and rq_cpu in      *)
(* step on any number of CPUs: a task is in the queue rq_cpu names, once,  *)
(* and in no other (sched.c: "sits on exactly one queue").                 *)
QueueIntegrity ==
    /\ \A c \in CPU : \A i \in 1 .. Len(rq[c]) : rq_cpu[rq[c][i]] = c
    /\ \A c \in CPU : \A i, j \in 1 .. Len(rq[c]) : rq[c][i] = rq[c][j] => i = j
    /\ \A t \in Task : rq_cpu[t] # NoCpu =>
         \E i \in 1 .. Len(rq[rq_cpu[t]]) : rq[rq_cpu[t]][i] = t

(* An idle task is never queued, though schedule() treats it as any other  *)
(* current task, and so no CPU ever runs another's idle task (sched.c:     *)
(* "The BSP's idle task and each AP's idle task are NEVER on any           *)
(* runqueue").                                                             *)
IdleStaysHome ==
    \A d \in CPU :
        /\ rq_cpu[Idle(d)] = NoCpu
        /\ \A c \in CPU : cur[c] = Idle(d) => c = d

(* Being made RUNNABLE and being queued are two steps of sched_tick().     *)
BeingAdded(u) == \E c \in CPU : pc[c] = "tk_add" /\ reg[c] = u

(* A task that may run and that no CPU has as current is on a queue or     *)
(* about to be put on one: no interleaving of sleep, wake and preemption   *)
(* forgets it.  (sched.c: "A RUNNABLE task sits on exactly one queue".)    *)
NoTaskLost ==
    \A u \in User :
        state[u] \in {"RUNNABLE", "RUNNING"} =>
            \/ rq_cpu[u] # NoCpu
            \/ BeingAdded(u)
            \/ \E c \in CPU : cur[c] = u

(* Outside the hand-over in schedule() the current task of a CPU is on no  *)
(* queue, where another CPU could pick it too.  (sched.c: "A task that is  *)
(* current should never sit on a runqueue".)                               *)
CurrentOffQueue ==
    \A c \in CPU : pc[c] # "switch" => rq_cpu[cur[c]] = NoCpu

(* cpu_id is the CPU running the task (sched.h: "CPU running this task (-1 *)
(* if none)"); in particular no two CPUs run the same task, which would    *)
(* put them on the same kernel stack.                                      *)
CpuIdTruth ==
    \A c \in CPU : pc[c] \notin InSchedule => cpu_id[cur[c]] = c

(* Whoever executes user code is RUNNING: sched_maybe_preempt() refuses to *)
(* preempt, and schedule() to requeue, a current task in any other state.  *)
UserIsRunning ==
    \A c \in CPU : pc[c] = "user" => state[cur[c]] = "RUNNING"

(* A sleeper whose time comes is woken, whatever runs meanwhile: the loop  *)
(* of sched_tick() reaches it even when the BSP is idle.                   *)
SleepersWake ==
    \A u \in User : state[u] = "SLEEPING" ~> state[u] # "SLEEPING" \/ Undefined

(* A task that waits for the CPU gets it (sched.c: "Round-robin").         *)
RunnableRuns ==
    \A u \in User : state[u] = "RUNNABLE" ~> state[u] # "RUNNABLE" \/ Undefined

(* A halted CPU with a task in its queue that no CPU runs picks it up      *)
(* (smp.cpp: "so the idle CPU actually picks up whatever runqueue_add()    *)
(* just put on its queue").                                                *)
HasWork(c) ==
    \E i \in 1 .. Len(rq[c]) : \A d \in CPU : cur[d] # rq[c][i]

IdlePicksUp ==
    \A c \in CPU : pc[c] = "hlt" /\ HasWork(c) ~> pc[c] # "hlt" \/ Undefined

-----------------------------------------------------------------------------
(* The inductive invariants behind the theorems.                           *)

(* Any number of CPUs: what the running code has in hand is a task it may  *)
(* queue or switch to.                                                     *)
RegOK ==
    \A c \in CPU :
        /\ cur[c] \in User \cup {Idle(c)}
        /\ pc[c] = "decide" => reg[c] \in User \cup {NoTask}
        /\ pc[c] \in {"requeue", "switch"} => reg[c] \in User \cup {Idle(c)}
        /\ pc[c] \in {"tk_store", "tk_add"} => reg[c] \in User
        /\ pc[c] = "tk_check" => reg[c] <= NUser + 1
        /\ \A d \in CPU : rq_cpu[Idle(d)] = NoCpu

SafeInv == TypeOK /\ QueueIntegrity /\ RegOK

(* One CPU: in which state current is at each control point, and where     *)
(* every other task is.                                                    *)
CurrentAt ==
    LET t == cur[BSP]
    IN  /\ pc[BSP] \in InSleep \cup {"user"} => t \in User
        /\ pc[BSP] \in {"loop", "idle", "hlt"} => t = Idle(BSP)
        /\ pc[BSP] \in {"user", "ns_test", "ns_sleep", "swtch"} \cup InTick
             => state[t] = "RUNNING"
        /\ pc[BSP] = "ns_deq" => state[t] = "SLEEPING"
        /\ pc[BSP] \in {"pick", "decide", "requeue"}
             => state[t] \in {"RUNNING", "SLEEPING"}
        /\ pc[BSP] = "switch" =>
             state[t] \in {"SLEEPING", "RUNNABLE"} \/ t = Idle(BSP)
        /\ pc[BSP] = "ub" => FALSE

HandAt ==
    /\ pc[BSP] = "decide" => reg[BSP] = PickNext(BSP)
    /\ pc[BSP] = "requeue" =>
         \/ reg[BSP] = Idle(BSP) /\ state[cur[BSP]] = "SLEEPING"
         \/ reg[BSP] \in User /\ rq_cpu[reg[BSP]] = BSP
    /\ pc[BSP] = "switch" =>
         /\ reg[BSP] # cur[BSP]
         /\ \/ reg[BSP] = Idle(BSP)
            \/ reg[BSP] \in User /\ rq_cpu[reg[BSP]] = BSP
    /\ pc[BSP] = "tk_store" => state[reg[BSP]] = "SLEEPING"
    /\ pc[BSP] = "tk_add" => state[reg[BSP]] = "RUNNABLE"

ReturnAt ==
    /\ state[Idle(BSP)] = "RUNNING"
    /\ ret[Idle(BSP)] \in {"loop", "idle"}
    /\ \A u \in User : ret[u] \in {"user", "ns_test"}

Placed ==
    \A u \in User :
        /\ rq_cpu[u] # NoCpu => state[u] = "RUNNABLE"
        /\ state[u] = "RUNNABLE" => rq_cpu[u] # NoCpu \/ BeingAdded(u)
        /\ state[u] = "RUNNING" => u = cur[BSP]

UpInv == SafeInv /\ CurrentAt /\ HandAt /\ ReturnAt /\ Placed
=============================================================================
