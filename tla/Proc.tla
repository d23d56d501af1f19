-------------------------------- MODULE Proc --------------------------------
(***************************************************************************)
(* The life of a process: kernel/task.c (fork, execve, exit, wait4),       *)
(* kernel/signal.c, the signal calls of kernel/syscall.c and the task      *)
(* table of kernel/sched.c.                                                *)
(*                                                                         *)
(* Processes are slots of task_table[], and pointers to processes are      *)
(* slots, so that a pointer may outlive its process.  Kernel code runs     *)
(* with interrupts off: with one CPU a system call is interleaved with     *)
(* nothing until it calls schedule(), with more it is interleaved with the *)
(* others at each access to a shared field.  The queues of the scheduler   *)
(* are module Sched's: here a CPU that is free takes any queued process.   *)
(***************************************************************************)
EXTENDS Integers, Sequences, FiniteSets

CONSTANTS NTask,      \* slots for user processes
          Machines,   \* the instances: how many cpus, and the bounds pids (processes
                      \* created) and calls (of kill(), sigaction() and sigprocmask())
          MaxFrames,  \* signal frames that fit on a user stack
          Settable    \* signals that programs pass to sigaction() and sigprocmask()

SIGKILL == 9
SIGTERM == 15
SIGCHLD == 17
SIGCONT == 18
SIGSTOP == 19
Sig == {SIGKILL, SIGTERM, SIGCHLD, SIGCONT, SIGSTOP}

ASSUME ProcAssumption == /\ NTask \in Nat \ {0} /\ MaxFrames \in Nat
                         /\ Settable \subseteq Sig
                         /\ Machines \subseteq [cpus : Nat \ {0}, pids : Nat \ {0}, calls : Nat]

Slot == 1 .. NTask
NoTask == 0
InitPid == 1

VARIABLES
    \* struct task
    state, pid, parent,
    queued,              \* rq_cpu # -1
    pending, mask, sa,   \* signal_pending, signal_mask, sa[].sa_handler
    rax,                 \* tf->rax while in the kernel, as zero or not
    frames,              \* the signal frames on the user stack: the rax each saved
    \* the machine and the locals of running code
    machine, on,         \* the instance; slots that are current on a CPU
    pc, arg,             \* control point; the child of fork(), the pid of wait4()
    pid_counter,
    \* history
    born,                \* pid of the process that forked this one
    calls                \* calls about signals so far

online == machine.cpus
MaxPid == machine.pids

table   == <<state, pid, parent, queued>>
signals == <<pending, mask, sa, rax, frames>>
vars    == <<table, signals, machine, on, pc, arg, pid_counter, born, calls>>

States   == {"UNUSED", "EMBRYO", "RUNNABLE", "RUNNING", "SLEEPING", "ZOMBIE", "STOPPED"}
InExit   == {"exit1", "exit2", "exit3", "exit4", "gone"}
Pcs      == {"new", "user", "check", "fork2", "fork3", "scan", "doze", "dequeue",
             "sleep", "stop", "sigret"} \union InExit
Handlers == {"DFL", "IGN", "user"}

(* What wait4() is asked for: a pid, any child, or any child and WNOHANG.  *)
AnyChild == 0
NoHang   == -1

Least(S) == CHOOSE x \in S : \A y \in S : x <= y

Init == /\ state = [s \in Slot |-> "UNUSED"]
        /\ pid = [s \in Slot |-> 0] /\ parent = [s \in Slot |-> NoTask]
        /\ queued = [s \in Slot |-> FALSE]
        /\ pending = [s \in Slot |-> {}] /\ mask = [s \in Slot |-> {}]
        /\ sa = [s \in Slot |-> [g \in Sig |-> "DFL"]]
        /\ rax = [s \in Slot |-> 0] /\ frames = [s \in Slot |-> <<>>]
        /\ machine \in Machines /\ on = {}
        /\ pc = [s \in Slot |-> "new"] /\ arg = [s \in Slot |-> 0]
        /\ pid_counter = 0 /\ born = [s \in Slot |-> 0] /\ calls = 0

Goto(s, l) == pc' = [pc EXCEPT ![s] = l]

(* A system call returns r: syscall_entry() stores it and checks signals.  *)
Return(s, r) == /\ Goto(s, "check")
                /\ rax' = [rax EXCEPT ![s] = r]

In(s, l) == s \in on /\ pc[s] = l

-----------------------------------------------------------------------------
(* The scheduler, as far as a process sees it.                             *)

(* A free CPU switches to a queued process.  A new one starts in user mode *)
(* through glue_first, which checks no signals.                            *)
Dispatch(s) == /\ queued[s] /\ s \notin on /\ Cardinality(on) < online
               /\ on' = on \union {s}
               /\ queued' = [queued EXCEPT ![s] = FALSE]
               /\ state' = [state EXCEPT ![s] = "RUNNING"]
               /\ Goto(s, IF pc[s] = "new" THEN "user" ELSE pc[s])
               /\ UNCHANGED <<pid, parent, signals, machine, arg, pid_counter, born, calls>>

(* schedule() by a process that set its state to something else: it leaves *)
(* the CPU and resumes at l; woken in the meantime, it may stay.           *)
Leave(s, from, l) ==
    /\ In(s, from)
    /\ \/ on' = on \ {s} /\ UNCHANGED queued
       \/ state[s] = "RUNNABLE" /\ queued' = [queued EXCEPT ![s] = FALSE] /\ UNCHANGED on
    /\ Goto(s, l)
    /\ UNCHANGED <<state, pid, parent, signals, machine, arg, pid_counter, born, calls>>

(* An interrupt of a device in user mode, with a value of the program in   *)
(* rax; signals are checked on the way back.                               *)
Interrupt(s) ==
    /\ In(s, "user")
    /\ Return(s, 1)
    /\ UNCHANGED <<table, pending, mask, sa, frames, machine, on, arg, pid_counter, born, calls>>

(* A process in user mode loses its CPU: to the timer, and signals are     *)
(* checked when it is back, or to the interrupt by which another CPU asks  *)
(* for a reschedule, and they are not.                                     *)
Preempt(s) ==
    /\ In(s, "user") /\ state[s] = "RUNNING"
    /\ \/ Return(s, 1)
       \/ online > 1 /\ UNCHANGED <<pc, rax>>
    /\ on' = on \ {s}
    /\ state' = [state EXCEPT ![s] = "RUNNABLE"]
    /\ queued' = [queued EXCEPT ![s] = TRUE]
    /\ UNCHANGED <<pid, parent, pending, mask, sa, frames, machine, arg, pid_counter, born, calls>>

-----------------------------------------------------------------------------
(* kernel_spawn() and fork().                                              *)

Unused == {s \in Slot : state[s] = "UNUSED"}

(* kernel_spawn("/init"), from the idle task of the boot processor. *)
Spawn == LET c == Least(Unused)
         IN  /\ pid_counter = 0
             /\ pid_counter' = 1
             /\ pid' = [pid EXCEPT ![c] = 1]
             /\ state' = [state EXCEPT ![c] = "RUNNABLE"]
             /\ queued' = [queued EXCEPT ![c] = TRUE]
             /\ UNCHANGED <<parent, signals, machine, on, pc, arg, born, calls>>

(* sys_fork(), task_alloc_slot(): the slot is claimed, its other fields    *)
(* are those of its last owner.                                            *)
Fork1(s) ==
    /\ In(s, "user") /\ pid_counter < MaxPid
    /\ IF Unused = {}
       THEN Return(s, 1) /\ UNCHANGED <<state, queued, arg>>
       ELSE LET c == Least(Unused)
            IN  /\ state' = [state EXCEPT ![c] = "EMBRYO"]
                /\ queued' = [queued EXCEPT ![c] = FALSE]
                /\ arg' = [arg EXCEPT ![s] = c]
                /\ Goto(s, "fork2")
                /\ UNCHANGED rax
    /\ UNCHANGED <<pid, parent, pending, mask, sa, frames, machine, on, pid_counter, born, calls>>

Fork2(s) ==
    /\ In(s, "fork2")
    /\ pid_counter' = pid_counter + 1
    /\ pid' = [pid EXCEPT ![arg[s]] = pid_counter + 1]
    /\ parent' = [parent EXCEPT ![arg[s]] = s]
    /\ born' = [born EXCEPT ![arg[s]] = pid[s]]
    /\ Goto(s, "fork3")
    /\ UNCHANGED <<state, queued, signals, machine, on, arg, calls>>

(* The child becomes a copy and is queued, unless duplicating the address  *)
(* space runs out of memory: then the slot is given back.                  *)
Fork3(s) ==
    LET c == arg[s]
    IN  /\ In(s, "fork3")
        /\ \/ /\ pending' = [pending EXCEPT ![c] = {}]
              /\ mask' = [mask EXCEPT ![c] = mask[s]]
              /\ sa' = [sa EXCEPT ![c] = sa[s]]
              /\ rax' = [rax EXCEPT ![c] = 0, ![s] = 1]
              /\ frames' = [frames EXCEPT ![c] = frames[s]]
              /\ pc' = [pc EXCEPT ![c] = "new", ![s] = "check"]
              /\ state' = [state EXCEPT ![c] = "RUNNABLE"]
              /\ queued' = [queued EXCEPT ![c] = TRUE]
           \/ /\ state' = [state EXCEPT ![c] = "UNUSED"]
              /\ queued' = [queued EXCEPT ![c] = FALSE]
              /\ Return(s, 1)
              /\ UNCHANGED <<pending, mask, sa, frames>>
        /\ arg' = [arg EXCEPT ![s] = 0]
        /\ UNCHANGED <<pid, parent, machine, on, pid_counter, born, calls>>

(* sys_execve(): an error leaves all as it was (the address space is       *)
(* module Vmm's); success resets the handlers and forgets pending signals. *)
Execve(s) ==
    /\ In(s, "user")
    /\ \/ Return(s, 1) /\ UNCHANGED <<pending, sa, frames>>
       \/ /\ Return(s, 0)
          /\ sa' = [sa EXCEPT ![s] = [g \in Sig |-> "DFL"]]
          /\ pending' = [pending EXCEPT ![s] = {}]
          /\ frames' = [frames EXCEPT ![s] = <<>>]
    /\ UNCHANGED <<table, mask, machine, on, arg, pid_counter, born, calls>>

-----------------------------------------------------------------------------
(* send_signal(t, g) for every t in T.                                     *)

Unignorable == {SIGKILL, SIGSTOP, SIGCONT}

SendSignal(T, g) ==
    LET hit  == {t \in T : g \in Unignorable \/ sa[t][g] # "IGN"}
        wake == {t \in hit : \/ state[t] = "SLEEPING"
                             \/ state[t] = "STOPPED" /\ g = SIGCONT}
    IN  /\ pending' = [t \in Slot |-> IF t \in hit THEN pending[t] \union {g} ELSE pending[t]]
        /\ state' = [t \in Slot |-> IF t \in wake THEN "RUNNABLE" ELSE state[t]]
        /\ queued' = [t \in Slot |-> queued[t] \/ t \in wake]

(* sys_kill(): find_task() of a pid, or everyone for pid -1. *)
Kill(s, p, g) ==
    LET found == {t \in Slot : state[t] # "UNUSED" /\ pid[t] = p}
        all   == {t \in Slot : state[t] # "UNUSED" /\ pid[t] > 0}
    IN  /\ In(s, "user") /\ calls < machine.calls
        /\ calls' = calls + 1
        /\ IF p = -1 THEN SendSignal(all, g) /\ Return(s, 0)
           ELSE IF found = {} THEN UNCHANGED <<pending, state, queued>> /\ Return(s, 1)
           ELSE SendSignal({Least(found)}, g) /\ Return(s, 0)
        /\ UNCHANGED <<pid, parent, mask, sa, frames, machine, on, arg, pid_counter, born>>

Sigaction(s, g, h) ==
    /\ In(s, "user") /\ calls < machine.calls
    /\ calls' = calls + 1
    /\ sa' = [sa EXCEPT ![s][g] = h]
    /\ Return(s, 0)
    /\ UNCHANGED <<table, pending, mask, frames, machine, on, arg, pid_counter, born>>

(* sys_sigprocmask(): SIG_BLOCK, SIG_UNBLOCK and SIG_SETMASK. *)
Sigprocmask(s, set) ==
    /\ In(s, "user") /\ calls < machine.calls
    /\ calls' = calls + 1
    /\ \E new \in {mask[s] \union set, mask[s] \ set, set} :
          mask' = [mask EXCEPT ![s] = new \ {SIGKILL, SIGSTOP}]
    /\ Return(s, 0)
    /\ UNCHANGED <<table, pending, sa, frames, machine, on, arg, pid_counter, born>>

(* sys_sigreturn(): the registers come back from the frame; a stack that   *)
(* holds no frame ends the process.                                        *)
Sigreturn(s) ==
    /\ In(s, "user")
    /\ IF frames[s] = <<>>
       THEN Goto(s, "exit1") /\ UNCHANGED <<rax, frames>>
       ELSE /\ rax' = [rax EXCEPT ![s] = Head(frames[s])]
            /\ frames' = [frames EXCEPT ![s] = Tail(@)]
            /\ Goto(s, "sigret")
    /\ UNCHANGED <<table, pending, mask, sa, machine, on, arg, pid_counter, born, calls>>

(* Its caller syscall_entry() then stores the result of the call, 0. *)
SigreturnEnd(s) ==
    /\ In(s, "sigret")
    /\ Return(s, 0)
    /\ UNCHANGED <<table, pending, mask, sa, frames, machine, on, arg, pid_counter, born, calls>>

(* do_signal_check(), on the way back to user mode. *)
Deliverable(s) == (pending[s] \ mask[s]) \union (pending[s] \cap {SIGKILL, SIGSTOP})

(* Signals whose delivery does something: the others are just cleared. *)
Acting(s) == {g \in Deliverable(s) : sa[s][g] # "DFL" \/ g \in {SIGKILL, SIGTERM}}

Check(s) ==
    LET D == Deliverable(s)
        A == Acting(s)
        g == Least(A)
    IN  /\ In(s, "check")
        /\ IF SIGSTOP \in D
           THEN /\ pending' = [pending EXCEPT ![s] = @ \ {SIGSTOP}]
                /\ state' = [state EXCEPT ![s] = "STOPPED"]
                /\ Goto(s, "stop")
                /\ UNCHANGED frames
           ELSE IF SIGCONT \in D
           THEN /\ pending' = [pending EXCEPT ![s] = @ \ {SIGCONT}]
                /\ Goto(s, "user")
                /\ UNCHANGED <<state, frames>>
           ELSE IF A = {}
           THEN /\ pending' = [pending EXCEPT ![s] = @ \ D]
                /\ Goto(s, "user")
                /\ UNCHANGED <<state, frames>>
           ELSE /\ pending' = [pending EXCEPT ![s] = @ \ {h \in D : h <= g}]
                /\ IF g # SIGKILL /\ sa[s][g] = "user" /\ Len(frames[s]) < MaxFrames
                   THEN Goto(s, "user") /\ frames' = [frames EXCEPT ![s] = <<rax[s]>> \o @]
                   ELSE Goto(s, "exit1") /\ UNCHANGED frames
                /\ UNCHANGED state
        /\ rax' = [rax EXCEPT ![s] = 0]
        /\ UNCHANGED <<pid, parent, queued, mask, sa, machine, on, arg, pid_counter, born, calls>>

-----------------------------------------------------------------------------
(* exit() and wait4().                                                     *)

(* exit(), or an exception in user mode. *)
Exit(s) == /\ In(s, "user")
           /\ Goto(s, "exit1")
           /\ UNCHANGED <<table, signals, machine, on, arg, pid_counter, born, calls>>

InitTask == Least({t \in Slot : state[t] # "UNUSED" /\ pid[t] = InitPid})

(* Mutant of Reparented: processes that are already dead keep their parent. *)
ReparentedLive(s) ==
    [t \in Slot |-> IF t # s /\ state[t] \notin {"UNUSED", "ZOMBIE"} /\ parent[t] = s
                    THEN InitTask ELSE parent[t]]

(* sys_exit() gives the children of s to init. *)
Reparented(s) ==
    [t \in Slot |-> IF t # s /\ state[t] # "UNUSED" /\ parent[t] = s
                    THEN InitTask ELSE parent[t]]

Exit1(s) == /\ In(s, "exit1")
            /\ parent' = Reparented(s)
            /\ Goto(s, "exit2")
            /\ UNCHANGED <<state, pid, queued, signals, machine, on, arg, pid_counter, born, calls>>

Exit2(s) == /\ In(s, "exit2")
            /\ SendSignal({parent[s]} \ {NoTask}, SIGCHLD)
            /\ Goto(s, "exit3")
            /\ UNCHANGED <<pid, parent, mask, sa, rax, frames, machine, on, arg, pid_counter, born, calls>>

Exit3(s) == /\ In(s, "exit3")
            /\ state' = [state EXCEPT ![s] = "ZOMBIE"]
            /\ queued' = [queued EXCEPT ![s] = FALSE]
            /\ Goto(s, "exit4")
            /\ UNCHANGED <<pid, parent, signals, machine, on, arg, pid_counter, born, calls>>

(* Mutant of Exit4: the parent is left to SIGCHLD to wake. *)
Exit4Silent(s) == /\ In(s, "exit4")
                  /\ Goto(s, "gone")
                  /\ UNCHANGED <<table, signals, machine, on, arg, pid_counter, born, calls>>

(* Mutant of Exit4: the slot is freed at once if the parent ignores SIGCHLD. *)
Exit4Free(s) == LET p == parent[s]
                IN  /\ In(s, "exit4")
                    /\ IF p # NoTask /\ sa[p][SIGCHLD] = "IGN"
                       THEN state' = [state EXCEPT ![s] = "UNUSED"]
                       ELSE UNCHANGED state
                    /\ Goto(s, "gone")
                    /\ UNCHANGED <<pid, parent, queued, signals, machine, on, arg, pid_counter, born, calls>>

(* Mutant of Exit4: the parent is made runnable, but not queued. *)
Exit4Unqueued(s) == LET p == parent[s]
                    IN  /\ In(s, "exit4")
                        /\ state' = IF p # NoTask /\ state[p] = "SLEEPING" THEN [state EXCEPT ![p] = "RUNNABLE"]
                                    ELSE state
                        /\ Goto(s, "gone")
                        /\ UNCHANGED <<pid, parent, queued, signals, machine, on, arg, pid_counter, born, calls>>

Exit4(s) == LET p == parent[s]
            IN  /\ In(s, "exit4")
                /\ IF p # NoTask /\ state[p] = "SLEEPING"
                   THEN /\ state' = [state EXCEPT ![p] = "RUNNABLE"]
                        /\ queued' = [queued EXCEPT ![p] = TRUE]
                   ELSE UNCHANGED <<state, queued>>
                /\ Goto(s, "gone")
                /\ UNCHANGED <<pid, parent, signals, machine, on, arg, pid_counter, born, calls>>

Wait4(s, w) == /\ In(s, "user")
               /\ arg' = [arg EXCEPT ![s] = w]
               /\ Goto(s, "scan")
               /\ UNCHANGED <<table, signals, machine, on, pid_counter, born, calls>>

Kids(s) == {t \in Slot \ {s} : state[t] # "UNUSED" /\ parent[t] = s}
Dead(s) == {t \in Kids(s) : state[t] = "ZOMBIE" /\ (arg[s] \in {AnyChild, NoHang} \/ pid[t] = arg[s])}

(* The fields of a free slot that fork() sets before anything reads them.  *)
Forget(t) == /\ pending' = [pending EXCEPT ![t] = {}]
             /\ mask' = [mask EXCEPT ![t] = {}]
             /\ sa' = [sa EXCEPT ![t] = [g \in Sig |-> "DFL"]]
             /\ frames' = [frames EXCEPT ![t] = <<>>]

(* One pass of sys_waitpid()'s loop: reap the first zombie, return, or     *)
(* decide to sleep.                                                        *)
Scan(s) ==
    /\ In(s, "scan")
    /\ IF Dead(s) # {}
       THEN LET t == Least(Dead(s))
            IN  /\ state' = [state EXCEPT ![t] = "UNUSED"]
                /\ queued' = [queued EXCEPT ![t] = FALSE]
                /\ Forget(t)
                /\ Return(s, 1)
                /\ arg' = [arg EXCEPT ![s] = 0]
       ELSE /\ UNCHANGED <<state, queued, pending, mask, sa, frames>>
            /\ IF Kids(s) = {} \/ arg[s] = NoHang
               THEN Return(s, IF Kids(s) = {} THEN 1 ELSE 0) /\ arg' = [arg EXCEPT ![s] = 0]
               ELSE Goto(s, "doze") /\ UNCHANGED <<rax, arg>>
    /\ UNCHANGED <<pid, parent, machine, on, pid_counter, born, calls>>

Doze(s) == /\ In(s, "doze")
           /\ state' = [state EXCEPT ![s] = "SLEEPING"]
           /\ Goto(s, "dequeue")
           /\ UNCHANGED <<pid, parent, queued, signals, machine, on, arg, pid_counter, born, calls>>

Dequeue(s) == /\ In(s, "dequeue")
              /\ queued' = [queued EXCEPT ![s] = FALSE]
              /\ Goto(s, "sleep")
              /\ UNCHANGED <<state, pid, parent, signals, machine, on, arg, pid_counter, born, calls>>

-----------------------------------------------------------------------------
Kernel(s) == \/ Fork2(s) \/ Fork3(s) \/ SigreturnEnd(s) \/ Check(s)
             \/ Exit1(s) \/ Exit2(s) \/ Exit3(s) \/ Exit4(s)
             \/ Scan(s) \/ Doze(s) \/ Dequeue(s)
             \/ Leave(s, "sleep", "scan")
             \/ Leave(s, "stop", "user")
             \/ Leave(s, "gone", "gone")

Program(s) == \/ Interrupt(s) \/ Preempt(s) \/ Fork1(s) \/ Execve(s) \/ Exit(s) \/ Sigreturn(s)
              \/ \E w \in NoHang .. MaxPid : Wait4(s, w)
              \/ \E p \in {-1} \union 1 .. MaxPid, g \in Sig : Kill(s, p, g)
              \/ \E g \in Settable, h \in Handlers : Sigaction(s, g, h)
              \/ \E set \in SUBSET Settable : Sigprocmask(s, set)

Next == Spawn \/ \E s \in Slot : Dispatch(s) \/ Kernel(s) \/ Program(s)

(* Kernel code runs to its end; the timer stops a process that stays in    *)
(* user mode; a queued process gets the CPU in the end.  The last is what  *)
(* the scheduler gives to two runnable processes (RunnableRuns of Sched),  *)
(* and with NTask = 3 there are no more while one is a zombie.             *)
Fairness == \A s \in Slot : /\ WF_vars(Kernel(s))
                            /\ SF_vars(Preempt(s))
                            /\ SF_vars(Dispatch(s))

Spec == Init /\ [][Next]_vars
FairSpec == Spec /\ Fairness

-----------------------------------------------------------------------------
(* The type of the state. *)
TypeOK == /\ state \in [Slot -> States] /\ pid \in [Slot -> 0 .. MaxPid]
          /\ parent \in [Slot -> Slot \union {NoTask}] /\ queued \in [Slot -> BOOLEAN]
          /\ pending \in [Slot -> SUBSET Sig] /\ mask \in [Slot -> SUBSET (Sig \ {SIGKILL, SIGSTOP})]
          /\ sa \in [Slot -> [Sig -> Handlers]] /\ rax \in [Slot -> {0, 1}]
          /\ \A s \in Slot : frames[s] \in Seq({0, 1}) /\ Len(frames[s]) <= MaxFrames
          /\ machine \in Machines /\ on \in SUBSET Slot /\ Cardinality(on) <= online
          /\ pc \in [Slot -> Pcs] /\ arg \in [Slot -> Int]
          /\ pid_counter \in 0 .. MaxPid /\ born \in [Slot -> 0 .. MaxPid] /\ calls \in 0 .. machine.calls

Live == {s \in Slot : state[s] \notin {"UNUSED", "EMBRYO"}}

(* The parent pointer of a process never dangles: it holds the process     *)
(* that forked it or, once that one began to exit, init; never a process   *)
(* that came to live in the slot of a parent that was reaped.  On any      *)
(* number of CPUs.                                                         *)
ParentTruth == \A s \in Live : pid[s] # InitPid =>
                  /\ parent[s] # NoTask
                  /\ state[parent[s]] # "UNUSED"
                  /\ pid[parent[s]] \in {born[s], InitPid}

Waiting(s) == pc[s] \in {"scan", "doze", "dequeue", "sleep"}

(* A process that sleeps in wait4() misses no child: while it is off the   *)
(* CPU and asleep, none of the children it forked and waits for is a       *)
(* zombie.  With one CPU only, since sys_waitpid() looks for zombies and   *)
(* goes to sleep without a lock; and not for the zombies that sys_exit()   *)
(* hands to init.                                                          *)
WaitSound == online = 1 =>
    \A s \in Slot : pc[s] = "scan" /\ state[s] = "SLEEPING" =>
       \A t \in Dead(s) : born[t] # pid[s] \/ pc[t] = "exit4"

(* A process is not reaped while a CPU runs on its kernel stack.  With one *)
(* CPU only: sys_exit() makes a process a zombie before schedule() has     *)
(* left the stack that wait4() frees.                                      *)
StackLive == online = 1 => \A s \in on : state[s] # "UNUSED"

(* A process waiting for a child that it forked returns from wait4() once  *)
(* that child is a zombie.                                                 *)
WaitReturns == \A s \in Slot :
    (online = 1 /\ Waiting(s) /\ \E t \in Dead(s) : born[t] = pid[s]) ~> ~Waiting(s)

(* "sigreturn restores it for the interrupted syscall": the rax that       *)
(* sys_sigreturn() took from the frame is the one the program gets.        *)
SigreturnRestores == [][\A s \in Slot : pc[s] = "sigret" => rax'[s] = rax[s]]_vars

(* "wake if sleeping so it can be killed": a process that is sent SIGKILL  *)
(* while it sleeps in wait4() terminates.                                  *)
KillTerminates == \A s \in Slot :
    (SIGKILL \in pending[s] /\ Waiting(s)) ~> pc[s] \in InExit
=============================================================================
