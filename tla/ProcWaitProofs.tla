--------------------------- MODULE ProcWaitProofs ---------------------------
(***************************************************************************)
(* Proofs that on one CPU wait4() misses no child (WaitSound) and reaps no *)
(* process whose stack is in use (StackLive), for any number of task       *)
(* slots, processes and signals.                                           *)
(***************************************************************************)
EXTENDS ProcProofs, FiniteSetTheorems

(* Where wait4() has found no zombie and has not left the CPU yet. *)
Dozing == {"doze", "dequeue", "sleep"}

DozersRun == \A s \in Slot : pc[s] \in Dozing => s \in on

(* Who runs is not asleep, but for the last steps before schedule(). *)
Awake == \A s \in on : pc[s] \notin {"dequeue", "sleep"} => state[s] # "SLEEPING"

Alone == online = 1 => \A s, t \in on : s = t

(* Nobody dies between the look for zombies and schedule(). *)
Looked == online = 1 => \A s \in Slot : pc[s] \in Dozing => Dead(s) = {}

CpuInv == /\ on \subseteq Slot /\ DozersRun /\ Awake /\ Alone
          /\ Looked /\ StackLive /\ WaitSound

-----------------------------------------------------------------------------
(* What a step of s may do to the others: wake them, or start a new one.   *)
Bystanders(s) ==
    \A w \in Slot : w # s =>
       /\ pc'[w] = pc[w] \/ pc'[w] = "new"
       /\ state'[w] = "SLEEPING" =>
             state[w] = "SLEEPING" /\ pc'[w] = pc[w] /\ arg'[w] = arg[w] /\ pid'[w] = pid[w]

(* t is a zombie that has done its exit4, and a child that w forked. *)
Late(t, w) == state[t] = "ZOMBIE" /\ pc[t] # "exit4" /\ parent[t] = w /\ born[t] = pid[w]

(* A step of s gives no such child to a process that sleeps through it. *)
NoneLate(s) ==
    \A w, t \in Slot : w # s /\ state[w] = "SLEEPING" /\ state'[w] = "SLEEPING" /\ Late(t, w)' =>
        Late(t, w) /\ pid'[t] = pid[t]

(* A step of s by which it neither looks for zombies nor goes to sleep. *)
Ordinary(s) ==
    /\ s \in on /\ on' \in {on, on \ {s}} /\ machine' = machine
    /\ pc[s] \notin {"dequeue", "sleep"} /\ pc'[s] \notin Dozing \union {"scan"}
    /\ state'[s] = "SLEEPING" => state[s] = "SLEEPING"
    /\ state'[s] # "UNUSED" \/ state[s] = "UNUSED"

(* Two processes are not both on the only CPU. *)
LEMMA NobodyOn ==
    ASSUME on \subseteq Slot, online = 1, Cardinality(on) < online
    PROVE  on = {}
<1>1. IsFiniteSet(Slot)
  BY ProcAssumption, FS_Interval DEF Slot
<1>2. IsFiniteSet(on)
  BY <1>1, FS_Subset
<1>3. Cardinality(on) \in Nat
  BY <1>2, FS_CardinalityType
<1>4. Cardinality(on) = 0
  BY <1>3
<1> QED
  BY <1>2, <1>4, FS_EmptySet

(* A sleeper that missed no child misses none after a step that gives it   *)
(* none.                                                                   *)
LEMMA SleepersKept ==
    ASSUME WaitSound, online = 1, NEW s \in Slot, Bystanders(s), NoneLate(s),
           NEW w \in Slot, w # s, pc'[w] = "scan", state'[w] = "SLEEPING",
           NEW t \in Dead(w)', born'[t] = pid'[w], pc'[t] # "exit4"
    PROVE  FALSE
<1>1. pc[w] = "scan" /\ state[w] = "SLEEPING" /\ arg'[w] = arg[w] /\ pid'[w] = pid[w]
  BY DEF Bystanders
<1>2. /\ t \in Slot /\ t # w /\ state'[t] = "ZOMBIE" /\ parent'[t] = w
      /\ arg'[w] \in {AnyChild, NoHang} \/ pid'[t] = arg'[w]
  BY DEF Dead, Kids
<1>3. Late(t, w)'
  BY <1>2 DEF Late
<1>4. Late(t, w) /\ pid'[t] = pid[t]
  BY <1>1, <1>2, <1>3 DEF NoneLate
<1>5. t \in Dead(w)
  BY <1>1, <1>2, <1>4 DEF Late, Dead, Kids
<1> QED
  BY <1>1, <1>4, <1>5 DEF WaitSound, Late

LEMMA OrdinaryKeeps ==
    ASSUME CpuInv, NEW s \in Slot, Ordinary(s), Bystanders(s), NoneLate(s)
    PROVE  CpuInv'
<1> USE DEF CpuInv
<1>1. s \in on /\ on' \subseteq on /\ on' \subseteq Slot /\ online' = online
  BY DEF Ordinary, online
<1>2. DozersRun'
  <2> SUFFICES ASSUME NEW w \in Slot, pc'[w] \in Dozing PROVE w \in on'
    BY DEF DozersRun
  <2>1. w # s
    BY DEF Ordinary
  <2>2. pc[w] \in Dozing
    BY <2>1 DEF Bystanders, Dozing
  <2> QED
    BY <2>1, <2>2 DEF DozersRun, Ordinary
<1>3. Awake'
  <2> SUFFICES ASSUME NEW w \in on', pc'[w] \notin {"dequeue", "sleep"}, state'[w] = "SLEEPING" PROVE FALSE
    BY DEF Awake
  <2>1. CASE w = s
    BY <1>1, <2>1 DEF Ordinary, Awake
  <2>2. CASE w # s
    BY <1>1, <2>2 DEF Bystanders, Awake
  <2> QED
    BY <2>1, <2>2
<1>4. Alone'
  BY <1>1 DEF Alone
<1>5. Looked'
  <2> SUFFICES ASSUME online = 1, NEW w \in Slot, pc'[w] \in Dozing PROVE FALSE
    BY <1>1 DEF Looked
  <2>1. w # s /\ w \in on
    BY <1>1, <1>2 DEF Ordinary, DozersRun
  <2> QED
    BY <1>1, <2>1 DEF Alone
<1>6. StackLive'
  BY <1>1 DEF StackLive, Alone, Ordinary
<1>7. WaitSound'
  <2> SUFFICES ASSUME online = 1, NEW w \in Slot, pc'[w] = "scan", state'[w] = "SLEEPING",
                      NEW t \in Dead(w)', born'[t] = pid'[w], pc'[t] # "exit4"
               PROVE  FALSE
    BY <1>1 DEF WaitSound
  <2>1. w # s
    BY DEF Ordinary
  <2> QED
    BY <2>1, SleepersKept
<1> QED
  BY <1>1, <1>2, <1>3, <1>4, <1>5, <1>6, <1>7

(* The steps of a process that change its own state only.                  *)
OwnMove(s, l) ==
    /\ s \in on /\ on' \in {on, on \ {s}} /\ machine' = machine
    /\ pc[s] \notin {"dequeue", "sleep"} /\ Goto(s, l)
    /\ UNCHANGED state \/ \E x \in {"RUNNABLE", "STOPPED", "ZOMBIE"} : state' = [state EXCEPT ![s] = x]

LEMMA OwnMoveFacts ==
    ASSUME TableType, NEW s \in Slot, NEW l \in Pcs \ (Dozing \union {"scan"}), OwnMove(s, l)
    PROVE  /\ Ordinary(s) /\ pc'[s] = l
           /\ \A t \in Slot : t # s => state'[t] = state[t] /\ pc'[t] = pc[t]
<1>1. state \in [Slot -> States] /\ pc \in [Slot -> Pcs]
  BY DEF TableType
<1>2. pc'[s] = l /\ \A t \in Slot : t # s => pc'[t] = pc[t]
  BY <1>1 DEF OwnMove, Goto
<1>3. /\ state'[s] = "SLEEPING" => state[s] = "SLEEPING"
      /\ state'[s] # "UNUSED" \/ state[s] = "UNUSED"
      /\ \A t \in Slot : t # s => state'[t] = state[t]
  BY <1>1 DEF OwnMove
<1> QED
  BY <1>2, <1>3 DEF OwnMove, Ordinary

(* A small step kills nobody; it can only be the last step of an exit.     *)
LEMMA SmallNoneLate ==
    ASSUME NEW s \in Slot, SmallStep(s), pc[s] # "exit4"
    PROVE  NoneLate(s)
<1> SUFFICES ASSUME NEW w \in Slot, NEW t \in Slot, Late(t, w)' PROVE Late(t, w) /\ pid'[t] = pid[t]
  BY DEF NoneLate
<1>1. state[t] = "ZOMBIE" /\ UNCHANGED <<pid, parent, born>>
  BY DEF SmallStep, Late, Inert
<1>2. pc[t] # "exit4"
  BY DEF SmallStep, Late
<1> QED
  BY <1>1, <1>2 DEF Late

(* Those of them that leave the family alone. *)
Mild(s) ==
    \/ Leave(s, "stop", "user") \/ Leave(s, "gone", "gone")
    \/ Interrupt(s) \/ Preempt(s) \/ Execve(s) \/ SigreturnEnd(s) \/ Sigreturn(s) \/ Check(s) \/ Exit(s)
    \/ \E g \in Settable, h \in Handlers : Sigaction(s, g, h)
    \/ \E set \in SUBSET Settable : Sigprocmask(s, set)

LEMMA MildKeeps ==
    ASSUME FamilyInv, CpuInv, NEW s \in Slot, Mild(s)
    PROVE  CpuInv'
<1> DEFINE L == {"user", "check", "stop", "sigret", "exit1", "gone"}
<1>t. TableType /\ state \in [Slot -> States] /\ pc \in [Slot -> Pcs]
  BY DEF FamilyInv, TableType
<1>q. SmallStep(s)
  <2>1. Quiet(s)
    BY Zenon DEF Mild, Quiet
  <2> QED
    BY <2>1, QuietIsSmall
<1>o. ASSUME NEW l \in L, OwnMove(s, l), pc[s] # "exit4" PROVE CpuInv'
  <2>1. l \in Pcs \ (Dozing \union {"scan"})
    BY <1>o DEF Pcs, InExit, Dozing
  <2>2. Ordinary(s) /\ \A t \in Slot : t # s => state'[t] = state[t] /\ pc'[t] = pc[t]
    BY <1>t, <1>o, <2>1, OwnMoveFacts
  <2>3. Bystanders(s)
    BY <1>q, <2>2 DEF Bystanders, SmallStep
  <2>4. NoneLate(s)
    BY <1>q, <1>o, SmallNoneLate
  <2> QED
    BY <2>2, <2>3, <2>4, OrdinaryKeeps
<1> SUFFICES pc[s] # "exit4" /\ \E l \in L : OwnMove(s, l)
  BY <1>o
<1> USE DEF In, OwnMove
<1>1. CASE Leave(s, "stop", "user")
  BY <1>1 DEF Leave
<1>2. CASE Leave(s, "gone", "gone")
  BY <1>2 DEF Leave
<1>3. CASE Interrupt(s)
  BY <1>3 DEF Interrupt, Return, table
<1>4. CASE Preempt(s)
  <2>1. pc[s] = "user" /\ s \in on /\ on' = on \ {s} /\ machine' = machine
    BY <1>4 DEF Preempt
  <2>2. state' = [state EXCEPT ![s] = "RUNNABLE"]
    BY <1>4 DEF Preempt
  <2>3. Goto(s, "check") \/ Goto(s, "user")
    BY <1>4, <1>t, <2>1 DEF Preempt, Return, Goto
  <2> QED
    BY <2>1, <2>2, <2>3
<1>5. CASE Execve(s)
  BY <1>5 DEF Execve, Return, table
<1>6. CASE SigreturnEnd(s)
  BY <1>6 DEF SigreturnEnd, Return, table
<1>7. CASE Sigreturn(s)
  <2>1. Goto(s, "exit1") \/ Goto(s, "sigret")
    BY <1>7 DEF Sigreturn
  <2> QED
    BY <1>7, <2>1 DEF Sigreturn, table
<1>8. CASE Check(s)
  <2>1. PICK l \in {"stop", "user", "exit1"} : Goto(s, l)
    BY <1>8, Zenon DEF Check
  <2>2. UNCHANGED state \/ state' = [state EXCEPT ![s] = "STOPPED"]
    BY <1>8, Zenon DEF Check
  <2>3. UNCHANGED <<machine, on>> /\ s \in on /\ pc[s] = "check"
    BY <1>8 DEF Check
  <2> QED
    BY <2>1, <2>2, <2>3
<1>9. CASE Exit(s)
  BY <1>9 DEF Exit, table
<1>10. ASSUME NEW g, NEW h, Sigaction(s, g, h) PROVE pc[s] # "exit4" /\ \E l \in L : OwnMove(s, l)
  BY <1>10 DEF Sigaction, Return, table
<1>11. ASSUME NEW set, Sigprocmask(s, set) PROVE pc[s] # "exit4" /\ \E l \in L : OwnMove(s, l)
  BY <1>11 DEF Sigprocmask, Return, table
<1> QED
  BY <1>1, <1>2, <1>3, <1>4, <1>5, <1>6, <1>7, <1>8, <1>9, <1>10, <1>11 DEF Mild

(* send_signal() wakes, and puts nobody to sleep. *)
LEMMA SignalsWake ==
    ASSUME NEW T, NEW g, SendSignal(T, g)
    PROVE  \A t \in Slot : state'[t] = state[t] \/ state'[t] = "RUNNABLE"
<1> DEFINE wake == {t \in {u \in T : g \in Unignorable \/ sa[u][g] # "IGN"} :
                        state[t] = "SLEEPING" \/ (state[t] = "STOPPED" /\ g = SIGCONT)}
<1>1. state' = [t \in Slot |-> IF t \in wake THEN "RUNNABLE" ELSE state[t]]
  BY Zenon DEF SendSignal
<1> HIDE DEF wake
<1> QED
  BY <1>1

(* kill() and exit()'s SIGCHLD. *)
LEMMA SignalKeeps ==
    ASSUME FamilyInv, CpuInv, NEW s \in Slot,
           Exit2(s) \/ \E p \in {-1} \union 1 .. MaxPid, g \in Sig : Kill(s, p, g)
    PROVE  CpuInv'
<1>1. SmallStep(s)
  <2>1. Quiet(s)
    BY Zenon DEF Quiet
  <2> QED
    BY <2>1, QuietIsSmall
<1>2. (\E T, g : SendSignal(T, g)) \/ UNCHANGED state
  BY Zenon DEF Exit2, Kill
<1>3. \A t \in Slot : state'[t] = state[t] \/ state'[t] = "RUNNABLE"
  BY <1>2, SignalsWake
<1>4. s \in on /\ UNCHANGED <<on, machine>> /\ pc[s] \in {"user", "exit2"} /\ (Goto(s, "check") \/ Goto(s, "exit3"))
  BY Zenon DEF Exit2, Kill, In, Return
<1>5. pc'[s] \in {"check", "exit3"}
  BY <1>4 DEF Goto, FamilyInv, TableType
<1>6. Ordinary(s)
  BY <1>3, <1>4, <1>5 DEF Ordinary, Dozing
<1>7. Bystanders(s)
  BY <1>1, <1>3 DEF Bystanders, SmallStep
<1>8. NoneLate(s)
  BY <1>1, <1>4, SmallNoneLate
<1> QED
  BY <1>6, <1>7, <1>8, OrdinaryKeeps

(* exit()'s last step: the parent that forked s does not sleep through it. *)
LEMMA Exit4Keeps ==
    ASSUME FamilyInv, CpuInv, NEW s \in Slot, Exit4(s)
    PROVE  CpuInv'
<1>1. SmallStep(s)
  <2>1. Quiet(s)
    BY Zenon DEF Quiet
  <2> QED
    BY <2>1, QuietIsSmall
<1>t. state \in [Slot -> States] /\ pc \in [Slot -> Pcs]
  BY DEF FamilyInv, TableType
<1>2. s \in on /\ UNCHANGED <<on, machine>> /\ pc[s] = "exit4" /\ pc'[s] = "gone"
  BY <1>t DEF Exit4, In, Goto
<1>3. \A t \in Slot : state'[t] = state[t] \/ state'[t] = "RUNNABLE"
  BY <1>t DEF Exit4
<1>4. \A w \in Slot : parent[s] = w /\ state[w] = "SLEEPING" => state'[w] # "SLEEPING"
  <2>1. \A w \in Slot : w # NoTask
    BY ProcAssumption DEF Slot, NoTask
  <2> QED
    BY <1>t, <2>1 DEF Exit4
<1>5. Ordinary(s)
  BY <1>2, <1>3 DEF Ordinary, Dozing
<1>6. Bystanders(s)
  BY <1>1, <1>3 DEF Bystanders, SmallStep
<1>7. NoneLate(s)
  <2> SUFFICES ASSUME NEW w \in Slot, NEW t \in Slot, state[w] = "SLEEPING", state'[w] = "SLEEPING", Late(t, w)'
               PROVE  Late(t, w) /\ pid'[t] = pid[t]
    BY DEF NoneLate
  <2>1. state[t] = "ZOMBIE" /\ UNCHANGED <<pid, parent, born>>
    BY <1>1 DEF SmallStep, Late, Inert
  <2>2. t # s
    BY <1>4, <2>1 DEF Late
  <2>3. pc[t] # "exit4"
    BY <1>1, <2>2 DEF SmallStep, Late
  <2> QED
    BY <2>1, <2>3 DEF Late
<1> QED
  BY <1>5, <1>6, <1>7, OrdinaryKeeps

(* Zombies stay who they were. *)
LEMMA NoneLateIf ==
    ASSUME NEW s \in Slot, Bystanders(s),
           \A t \in Slot : state'[t] = "ZOMBIE" /\ pc'[t] # "exit4" =>
              /\ state[t] = "ZOMBIE" /\ pc[t] # "exit4"
              /\ parent'[t] = parent[t] /\ born'[t] = born[t] /\ pid'[t] = pid[t]
    PROVE  NoneLate(s)
BY DEF NoneLate, Late, Bystanders

LEMMA Fork1Ordinary ==
    ASSUME FamilyInv, CpuInv, NEW s \in Slot, Fork1(s)
    PROVE  CpuInv'
<1>t. TableType /\ state \in [Slot -> States] /\ pc \in [Slot -> Pcs] /\ DOMAIN arg = Slot
  BY DEF FamilyInv, TableType
<1>1. s \in on /\ UNCHANGED <<on, machine, pid, parent, born>> /\ pc[s] = "user" /\ state[s] \notin Inert
  BY DEF Fork1, In, FamilyInv, InertStays
<1>2. PICK l \in {"check", "fork2"} : pc' = [pc EXCEPT ![s] = l]
  BY Zenon DEF Fork1, Return, Goto
<1>3. pc'[s] = l /\ \A t \in Slot : t # s => pc'[t] = pc[t]
  BY <1>2, <1>t
<1>4. \A t \in Slot : t # s => arg'[t] = arg[t]
  BY <1>t DEF Fork1
<1>5. \A t \in Slot : state'[t] = state[t] \/ (state[t] = "UNUSED" /\ state'[t] = "EMBRYO")
  <2>1. CASE Unused = {}
    BY <2>1 DEF Fork1
  <2>2. CASE Unused # {}
    <3>1. Least(Unused) \in Unused
      BY <2>2, LeastFacts DEF Unused
    <3>2. state' = [state EXCEPT ![Least(Unused)] = "EMBRYO"]
      BY <2>2 DEF Fork1
    <3> QED
      BY <1>t, <3>1, <3>2 DEF Unused
  <2> QED
    BY <2>1, <2>2
<1>6. Ordinary(s)
  BY <1>1, <1>3, <1>5 DEF Ordinary, Dozing, Inert
<1>7. Bystanders(s)
  BY <1>1, <1>3, <1>4, <1>5 DEF Bystanders
<1>8. NoneLate(s)
  BY <1>1, <1>3, <1>5, <1>7, NoneLateIf
<1> QED
  BY <1>6, <1>7, <1>8, OrdinaryKeeps

LEMMA Fork2Ordinary ==
    ASSUME FamilyInv, CpuInv, NEW s \in Slot, Fork2(s)
    PROVE  CpuInv'
<1>t. TableType /\ pid \in [Slot -> Nat] /\ parent \in [Slot -> Slot \union {NoTask}] /\ pc \in [Slot -> Pcs] /\ DOMAIN born = Slot
  BY DEF FamilyInv, TableType
<1>1. s \in on /\ UNCHANGED <<on, machine, state, arg>> /\ pc[s] = "fork2" /\ pc' = [pc EXCEPT ![s] = "fork3"]
  BY DEF Fork2, In, Goto
<1>2. arg[s] \in Slot /\ state[arg[s]] = "EMBRYO"
  BY <1>1 DEF FamilyInv, ForkOwns, Forking
<1>3. pc'[s] = "fork3" /\ \A t \in Slot : t # s => pc'[t] = pc[t]
  BY <1>1, <1>t
<1>4. \A t \in Slot : state[t] # "EMBRYO" => pid'[t] = pid[t] /\ parent'[t] = parent[t] /\ born'[t] = born[t]
  BY <1>t, <1>2 DEF Fork2
<1>5. Ordinary(s)
  BY <1>1, <1>3 DEF Ordinary, Dozing
<1>6. Bystanders(s)
  BY <1>1, <1>3, <1>4 DEF Bystanders
<1>7. NoneLate(s)
  BY <1>1, <1>3, <1>4, <1>6, NoneLateIf
<1> QED
  BY <1>5, <1>6, <1>7, OrdinaryKeeps

LEMMA Fork3Ordinary ==
    ASSUME FamilyInv, CpuInv, NEW s \in Slot, Fork3(s)
    PROVE  CpuInv'
<1> DEFINE c == arg[s]
<1>t. TableType /\ state \in [Slot -> States] /\ pc \in [Slot -> Pcs] /\ DOMAIN arg = Slot
  BY DEF FamilyInv, TableType
<1>1. s \in on /\ UNCHANGED <<on, machine, pid, parent, born>> /\ pc[s] = "fork3" /\ arg' = [arg EXCEPT ![s] = 0]
  BY DEF Fork3, In
<1>2. c \in Slot /\ state[c] = "EMBRYO" /\ state[s] \notin Inert
  BY <1>1 DEF FamilyInv, ForkOwns, Forking, InertStays
<1>3. PICK x \in {"RUNNABLE", "UNUSED"} :
         /\ state' = [state EXCEPT ![c] = x]
         /\ pc' = [pc EXCEPT ![c] = "new", ![s] = "check"] \/ pc' = [pc EXCEPT ![s] = "check"]
  BY Zenon DEF Fork3, Return, Goto
<1> HIDE DEF c
<1>4. c # s
  BY <1>2 DEF Inert
<1>5. pc'[s] = "check" /\ \A t \in Slot : t # s => pc'[t] = pc[t] \/ (t = c /\ pc'[t] = "new")
  BY <1>t, <1>2, <1>3, <1>4
<1>6. state'[c] = x /\ \A t \in Slot : t # c => state'[t] = state[t]
  BY <1>t, <1>2, <1>3
<1>7. \A t \in Slot : t # s => arg'[t] = arg[t]
  BY <1>t, <1>1
<1>8. Ordinary(s)
  BY <1>1, <1>2, <1>4, <1>5, <1>6 DEF Ordinary, Dozing, Inert
<1>9. Bystanders(s)
  BY <1>1, <1>5, <1>6, <1>7 DEF Bystanders
<1>10. NoneLate(s)
  BY <1>1, <1>5, <1>6, <1>9, NoneLateIf
<1> QED
  BY <1>8, <1>9, <1>10, OrdinaryKeeps

(* exit() gives its children to init; a zombie among them was forked by s, *)
(* not by init.                                                            *)
LEMMA Exit1Ordinary ==
    ASSUME FamilyInv, CpuInv, NEW s \in Slot, Exit1(s)
    PROVE  CpuInv'
<1>t. TableType /\ parent \in [Slot -> Slot \union {NoTask}] /\ pc \in [Slot -> Pcs]
  BY DEF FamilyInv, TableType
<1>1. s \in on /\ UNCHANGED <<on, machine, state, pid, arg, born>> /\ pc[s] = "exit1" /\ pc' = [pc EXCEPT ![s] = "exit2"]
  BY DEF Exit1, In, Goto
<1>2. pc'[s] = "exit2" /\ \A t \in Slot : t # s => pc'[t] = pc[t]
  BY <1>1, <1>t
<1>3. \A t \in Slot : parent'[t] = parent[t] \/ (parent[t] = s /\ parent'[t] = InitTask)
  BY DEF Exit1, Reparented
<1>4. InitTask \in Slot /\ pid[InitTask] = InitPid
  <2> DEFINE I == {t \in Slot : state[t] # "UNUSED" /\ pid[t] = InitPid}
  <2>1. state[s] \notin Inert
    BY <1>1 DEF FamilyInv, InertStays
  <2>2. I # {}
    BY <2>1 DEF FamilyInv, OneInit, Inert
  <2>3. Least(I) \in I
    BY <2>2, LeastFacts
  <2> QED
    BY <2>3 DEF InitTask
<1>5. Ordinary(s)
  BY <1>1, <1>2 DEF Ordinary, Dozing
<1>6. Bystanders(s)
  BY <1>1, <1>2 DEF Bystanders
<1>7. NoneLate(s)
  <2> SUFFICES ASSUME NEW w \in Slot, NEW t \in Slot, w # s, Late(t, w)' PROVE Late(t, w) /\ pid'[t] = pid[t]
    BY DEF NoneLate
  <2>1. state[t] = "ZOMBIE" /\ pc[t] # "exit4" /\ born[t] = pid[w] /\ parent'[t] = w
    BY <1>1, <1>2 DEF Late
  <2>2. ASSUME parent[t] = s, w = InitTask PROVE FALSE
    <3>1. s # NoTask
      BY ProcAssumption DEF Slot, NoTask
    <3>2. t \in Live /\ pid[t] # InitPid
      BY <2>1, <2>2, <3>1 DEF FamilyInv, OneInit, Live
    <3>3. GoodParent(t)
      BY <3>2 DEF FamilyInv, Parents
    <3>4. pid[s] = InitPid
      BY <1>4, <2>1, <2>2, <3>3 DEF GoodParent
    <3> QED
      BY <1>4, <2>2, <3>4 DEF FamilyInv, OneInit
  <2>3. parent[t] = w
    BY <1>3, <2>1, <2>2
  <2> QED
    BY <1>1, <2>1, <2>3 DEF Late
<1> QED
  BY <1>5, <1>6, <1>7, OrdinaryKeeps

(* exit() makes s a zombie, with exit4 still to come. *)
LEMMA Exit3Ordinary ==
    ASSUME FamilyInv, CpuInv, NEW s \in Slot, Exit3(s)
    PROVE  CpuInv'
<1>t. TableType /\ state \in [Slot -> States] /\ pc \in [Slot -> Pcs]
  BY DEF FamilyInv, TableType
<1>1. s \in on /\ UNCHANGED <<on, machine, pid, parent, arg, born>> /\ pc[s] = "exit3"
  BY DEF Exit3, In
<1>2. pc'[s] = "exit4" /\ \A t \in Slot : t # s => pc'[t] = pc[t]
  BY <1>t DEF Exit3, Goto
<1>3. state'[s] = "ZOMBIE" /\ \A t \in Slot : t # s => state'[t] = state[t]
  BY <1>t DEF Exit3
<1>4. Ordinary(s)
  BY <1>1, <1>2, <1>3 DEF Ordinary, Dozing
<1>5. Bystanders(s)
  BY <1>1, <1>2, <1>3 DEF Bystanders
<1>6. NoneLate(s)
  BY <1>1, <1>2, <1>3, <1>5, NoneLateIf
<1> QED
  BY <1>4, <1>5, <1>6, OrdinaryKeeps

(* wait4() reaps a zombie or returns at once. *)
LEMMA ScanOrdinary ==
    ASSUME FamilyInv, CpuInv, NEW s \in Slot, Scan(s), pc'[s] # "doze"
    PROVE  CpuInv'
<1>t. TableType /\ state \in [Slot -> States] /\ pc \in [Slot -> Pcs] /\ DOMAIN arg = Slot
  BY DEF FamilyInv, TableType
<1>1. s \in on /\ UNCHANGED <<on, machine, pid, parent, born>> /\ pc[s] = "scan"
  BY DEF Scan, In
<1>2. pc'[s] = "check" /\ \A t \in Slot : t # s => pc'[t] = pc[t]
  <2>1. PICK l \in {"check", "doze"} : pc' = [pc EXCEPT ![s] = l]
    BY Zenon DEF Scan, Return, Goto
  <2> QED
    BY <1>t, <2>1
<1>3. \A t \in Slot : t # s => arg'[t] = arg[t]
  BY <1>t DEF Scan
<1>4. state'[s] = state[s] /\ \A t \in Slot : state'[t] = state[t] \/ state'[t] = "UNUSED"
  <2>1. CASE Dead(s) = {}
    BY <2>1 DEF Scan
  <2>2. CASE Dead(s) # {}
    <3>1. Dead(s) \subseteq Slot \ {s}
      BY DEF Dead, Kids
    <3>2. Least(Dead(s)) \in Slot \ {s}
      BY <2>2, <3>1, LeastFacts
    <3>3. state' = [state EXCEPT ![Least(Dead(s))] = "UNUSED"]
      BY <2>2 DEF Scan
    <3> QED
      BY <1>t, <3>2, <3>3
  <2> QED
    BY <2>1, <2>2
<1>5. Ordinary(s)
  BY <1>1, <1>2, <1>4 DEF Ordinary, Dozing
<1>6. Bystanders(s)
  BY <1>1, <1>2, <1>3, <1>4 DEF Bystanders
<1>7. NoneLate(s)
  BY <1>1, <1>2, <1>4, <1>6, NoneLateIf
<1> QED
  BY <1>5, <1>6, <1>7, OrdinaryKeeps

-----------------------------------------------------------------------------
(* The steps of wait4() from the look for zombies to schedule(), and back. *)
Resting(s) ==
    /\ s \in on /\ on' \in {on, on \ {s}} /\ UNCHANGED <<machine, pid, parent, born>>
    /\ \A t \in Slot : t # s => state'[t] = state[t] /\ pc'[t] = pc[t] /\ arg'[t] = arg[t]
    /\ pc[s] # "exit4" /\ pc'[s] \in Dozing \union {"scan"}
    /\ state'[s] \in {state[s], "SLEEPING"}
    /\ pc'[s] \in Dozing => on' = on
    /\ s \in on' /\ pc'[s] \notin {"dequeue", "sleep"} => state'[s] # "SLEEPING"
    /\ online = 1 /\ (pc'[s] \in Dozing \/ state'[s] = "SLEEPING") => Dead(s) = {} /\ arg'[s] = arg[s]

LEMMA RestingKeeps ==
    ASSUME CpuInv, NEW s \in Slot, Resting(s)
    PROVE  CpuInv'
<1> USE DEF CpuInv
<1>1. s \in on /\ on' \subseteq on /\ on' \subseteq Slot /\ online' = online
  BY DEF Resting, online
<1>2. Bystanders(s)
  BY DEF Bystanders, Resting
<1>3. NoneLate(s)
  BY <1>2, NoneLateIf DEF Resting
<1>4. online = 1 /\ (pc'[s] \in Dozing \/ state'[s] = "SLEEPING") => Dead(s)' = {}
  <2> SUFFICES ASSUME online = 1, pc'[s] \in Dozing \/ state'[s] = "SLEEPING", NEW t \in Dead(s)' PROVE FALSE
    OBVIOUS
  <2>1. Dead(s) = {} /\ arg'[s] = arg[s]
    BY DEF Resting
  <2>2. t \in Slot /\ t # s /\ state'[t] = "ZOMBIE" /\ parent'[t] = s /\ (arg'[s] \in {AnyChild, NoHang} \/ pid'[t] = arg'[s])
    BY DEF Dead, Kids
  <2>3. state[t] = "ZOMBIE" /\ parent[t] = s /\ (arg[s] \in {AnyChild, NoHang} \/ pid[t] = arg[s])
    BY <2>1, <2>2 DEF Resting
  <2>4. t \in Dead(s)
    BY <2>2, <2>3 DEF Dead, Kids
  <2> QED
    BY <2>1, <2>4
<1>5. DozersRun'
  BY DEF DozersRun, Resting
<1>6. Awake'
  BY <1>1 DEF Awake, Resting
<1>7. Alone'
  BY <1>1 DEF Alone
<1>8. Looked'
  <2> SUFFICES ASSUME online = 1, NEW w \in Slot, pc'[w] \in Dozing PROVE Dead(w)' = {}
    BY <1>1 DEF Looked
  <2>1. w = s
    BY <1>1, <1>5 DEF Alone, DozersRun
  <2> QED
    BY <1>4, <2>1
<1>9. StackLive'
  BY <1>1 DEF StackLive, Alone, Resting
<1>10. WaitSound'
  <2> SUFFICES ASSUME online = 1, NEW w \in Slot, pc'[w] = "scan", state'[w] = "SLEEPING",
                      NEW t \in Dead(w)', born'[t] = pid'[w], pc'[t] # "exit4"
               PROVE  FALSE
    BY <1>1 DEF WaitSound
  <2>1. w # s
    BY <1>4
  <2> QED
    BY <1>2, <1>3, <2>1, SleepersKept
<1> QED
  BY <1>1, <1>5, <1>6, <1>7, <1>8, <1>9, <1>10

LEMMA WaitStepsRest ==
    ASSUME FamilyInv, CpuInv, NEW s \in Slot,
           \/ \E w \in NoHang .. MaxPid : Wait4(s, w)
           \/ Scan(s) /\ pc'[s] = "doze"
           \/ Doze(s) \/ Dequeue(s) \/ Leave(s, "sleep", "scan")
    PROVE  CpuInv'
<1> SUFFICES Resting(s)
  BY RestingKeeps
<1>t. state \in [Slot -> States] /\ pc \in [Slot -> Pcs] /\ DOMAIN arg = Slot
  BY DEF FamilyInv, TableType
<1>a. s \in on /\ pc[s] \notin {"dequeue", "sleep"} => state[s] # "SLEEPING"
  BY DEF CpuInv, Awake
<1>l. online = 1 /\ pc[s] \in Dozing => Dead(s) = {}
  BY DEF CpuInv, Looked
<1> USE DEF In, Goto, Dozing
<1>1. ASSUME NEW w, Wait4(s, w) PROVE Resting(s)
  <2>1. s \in on /\ pc[s] = "user" /\ UNCHANGED <<on, machine, state, pid, parent, born>>
    BY <1>1 DEF Wait4, table
  <2>2. arg' = [arg EXCEPT ![s] = w] /\ pc' = [pc EXCEPT ![s] = "scan"]
    BY <1>1 DEF Wait4
  <2>3. pc'[s] = "scan" /\ \A t \in Slot : t # s => pc'[t] = pc[t] /\ arg'[t] = arg[t]
    BY <1>t, <2>2
  <2> QED
    BY <1>a, <2>1, <2>3 DEF Resting
<1>2. CASE Scan(s) /\ pc'[s] = "doze"
  <2>1. s \in on /\ pc[s] = "scan" /\ UNCHANGED <<on, machine, pid, parent, born>>
    BY <1>2 DEF Scan
  <2>2. Dead(s) = {}
    <3>1. Dead(s) # {} => pc'[s] = "check"
      BY <1>2, <1>t DEF Scan, Return
    <3> QED
      BY <1>2, <3>1
  <2>3. UNCHANGED state /\ (pc' = [pc EXCEPT ![s] = "check"] \/ (pc' = [pc EXCEPT ![s] = "doze"] /\ UNCHANGED arg))
    BY <1>2, <2>2 DEF Scan, Return
  <2>4. UNCHANGED arg /\ \A t \in Slot : t # s => pc'[t] = pc[t]
    BY <1>2, <1>t, <2>3
  <2> QED
    BY <1>2, <1>a, <2>1, <2>2, <2>3, <2>4 DEF Resting
<1>3. CASE Doze(s)
  <2>1. s \in on /\ pc[s] = "doze" /\ UNCHANGED <<on, machine, arg, pid, parent, born>>
    BY <1>3 DEF Doze
  <2>2. pc'[s] = "dequeue" /\ \A t \in Slot : t # s => pc'[t] = pc[t]
    BY <1>3, <1>t DEF Doze
  <2>3. state'[s] = "SLEEPING" /\ \A t \in Slot : t # s => state'[t] = state[t]
    BY <1>3, <1>t DEF Doze
  <2> QED
    BY <1>l, <2>1, <2>2, <2>3 DEF Resting
<1>4. CASE Dequeue(s)
  <2>1. s \in on /\ pc[s] = "dequeue" /\ UNCHANGED <<on, machine, state, arg, pid, parent, born>>
    BY <1>4 DEF Dequeue
  <2>2. pc'[s] = "sleep" /\ \A t \in Slot : t # s => pc'[t] = pc[t]
    BY <1>4, <1>t DEF Dequeue
  <2> QED
    BY <1>l, <2>1, <2>2 DEF Resting
<1>5. CASE Leave(s, "sleep", "scan")
  <2>1. s \in on /\ pc[s] = "sleep" /\ UNCHANGED <<machine, state, arg, pid, parent, born>>
    BY <1>5 DEF Leave
  <2>2. pc'[s] = "scan" /\ \A t \in Slot : t # s => pc'[t] = pc[t]
    BY <1>5, <1>t DEF Leave
  <2>3. on' = on \ {s} \/ (on' = on /\ state[s] = "RUNNABLE")
    BY <1>5 DEF Leave
  <2> QED
    BY <1>l, <2>1, <2>2, <2>3 DEF Resting
<1> QED
  BY <1>1, <1>2, <1>3, <1>4, <1>5

(* A queued process comes to the CPU awake, and the CPU was free. *)
LEMMA DispatchKeeps ==
    ASSUME FamilyInv, CpuInv, NEW s \in Slot, Dispatch(s)
    PROVE  CpuInv'
<1> USE DEF CpuInv
<1>t. state \in [Slot -> States] /\ pc \in [Slot -> Pcs]
  BY DEF FamilyInv, TableType
<1>1. s \notin on /\ on' = on \union {s} /\ Cardinality(on) < online /\ UNCHANGED <<machine, pid, parent, arg, born>>
  BY DEF Dispatch
<1>2. online' = online /\ (online = 1 => on' = {s})
  BY <1>1, NobodyOn DEF online
<1>3. state'[s] = "RUNNING" /\ \A t \in Slot : t # s => state'[t] = state[t]
  BY <1>t DEF Dispatch
<1>4. pc'[s] \in {pc[s], "user"} /\ \A t \in Slot : t # s => pc'[t] = pc[t]
  BY <1>t DEF Dispatch, Goto
<1>q. state[s] \notin Inert
  <2>1. queued[s]
    BY DEF Dispatch
  <2> QED
    BY <2>1 DEF FamilyInv, InertStays
<1>5. DozersRun'
  BY <1>1, <1>4 DEF DozersRun, Dozing
<1>6. Awake'
  BY <1>1, <1>3, <1>4 DEF Awake
<1>7. Alone'
  BY <1>2 DEF Alone
<1>8. Looked'
  <2> SUFFICES ASSUME online = 1, NEW w \in Slot, pc'[w] \in Dozing PROVE FALSE
    BY <1>2 DEF Looked
  <2>1. pc[w] \in Dozing /\ w = s
    BY <1>2, <1>4, <1>5 DEF DozersRun, Dozing
  <2> QED
    BY <1>1, <2>1 DEF DozersRun
<1>9. StackLive'
  BY <1>2, <1>3 DEF StackLive
<1>10. Bystanders(s)
  BY <1>1, <1>3, <1>4 DEF Bystanders
<1>11. NoneLate(s)
  BY <1>1, <1>3, <1>4, <1>10, NoneLateIf
<1>12. WaitSound'
  <2> SUFFICES ASSUME online = 1, NEW w \in Slot, pc'[w] = "scan", state'[w] = "SLEEPING",
                      NEW t \in Dead(w)', born'[t] = pid'[w], pc'[t] # "exit4"
               PROVE  FALSE
    BY <1>2 DEF WaitSound
  <2>1. w # s
    BY <1>3
  <2> QED
    BY <1>10, <1>11, <2>1, SleepersKept
<1>13. on' \subseteq Slot
  BY <1>1
<1> QED
  BY <1>5, <1>6, <1>7, <1>8, <1>9, <1>12, <1>13

(* Before kernel_spawn() there is nobody to wait. *)
LEMMA SpawnIdle ==
    ASSUME FamilyInv, CpuInv, Spawn
    PROVE  CpuInv'
<1> USE DEF CpuInv
<1>t. state \in [Slot -> States]
  BY DEF FamilyInv, TableType
<1>1. UNCHANGED <<on, machine, pc, parent, arg, born>> /\ online' = online
  BY DEF Spawn, online
<1>2. \A t \in Slot : state[t] = "UNUSED" /\ state'[t] \in {"UNUSED", "RUNNABLE"}
  <2>1. \A t \in Slot : state[t] = "UNUSED"
    BY DEF Spawn, FamilyInv, OneInit
  <2>2. state' = [state EXCEPT ![Least(Unused)] = "RUNNABLE"]
    BY DEF Spawn
  <2> QED
    BY <1>t, <2>1, <2>2
<1>3. \A t \in Slot : pc[t] \in {"new", "exit4", "gone"}
  BY <1>2 DEF FamilyInv, InertStays, Inert
<1>4. online = 1 => on = {}
  BY <1>2 DEF StackLive
<1>5. DozersRun' /\ Alone' /\ Looked'
  BY <1>1, <1>3 DEF DozersRun, Alone, Looked, Dozing
<1>6. Awake'
  BY <1>1, <1>2 DEF Awake
<1>7. StackLive'
  BY <1>1, <1>4 DEF StackLive
<1>8. WaitSound'
  BY <1>1, <1>3 DEF WaitSound
<1> QED
  BY <1>1, <1>5, <1>6, <1>7, <1>8

-----------------------------------------------------------------------------
LEMMA CpuInit == Init => CpuInv
<1> SUFFICES ASSUME Init PROVE CpuInv
  OBVIOUS
<1>1. on = {} /\ \A s \in Slot : pc[s] = "new"
  BY DEF Init
<1> QED
  BY <1>1 DEF CpuInv, DozersRun, Awake, Alone, Looked, StackLive, WaitSound, Dozing

LEMMA CpuNext == FamilyInv /\ CpuInv /\ [Next]_vars => CpuInv'
<1> SUFFICES ASSUME FamilyInv, CpuInv, [Next]_vars PROVE CpuInv'
  OBVIOUS
<1>1. CASE Spawn
  BY <1>1, SpawnIdle
<1>2. ASSUME NEW s \in Slot, Dispatch(s) PROVE CpuInv'
  BY <1>2, DispatchKeeps
<1>3. ASSUME NEW s \in Slot, Kernel(s) PROVE CpuInv'
  <2>1. \/ Fork2(s) \/ Fork3(s) \/ Exit1(s) \/ Exit2(s) \/ Exit3(s) \/ Exit4(s) \/ Mild(s)
        \/ Scan(s) \/ Doze(s) \/ Dequeue(s) \/ Leave(s, "sleep", "scan")
    BY <1>3, Zenon DEF Kernel, Mild
  <2>2. Scan(s) => CpuInv'
    BY ScanOrdinary, WaitStepsRest
  <2>3. Exit2(s) => CpuInv'
    BY SignalKeeps
  <2>4. Doze(s) \/ Dequeue(s) \/ Leave(s, "sleep", "scan") => CpuInv'
    BY WaitStepsRest
  <2> QED
    BY <2>1, <2>2, <2>3, <2>4, Fork2Ordinary, Fork3Ordinary, Exit1Ordinary, Exit3Ordinary, Exit4Keeps, MildKeeps
<1>4. ASSUME NEW s \in Slot, Program(s) PROVE CpuInv'
  <2>1. \/ Fork1(s) \/ Mild(s) \/ \E w \in NoHang .. MaxPid : Wait4(s, w)
        \/ \E p \in {-1} \union 1 .. MaxPid, g \in Sig : Kill(s, p, g)
    BY <1>4, Zenon DEF Program, Mild
  <2>2. (\E p \in {-1} \union 1 .. MaxPid, g \in Sig : Kill(s, p, g)) => CpuInv'
    BY SignalKeeps, Zenon
  <2>3. (\E w \in NoHang .. MaxPid : Wait4(s, w)) => CpuInv'
    BY WaitStepsRest, Zenon
  <2> QED
    BY <2>1, <2>2, <2>3, Fork1Ordinary, MildKeeps, Zenon
<1>5. CASE UNCHANGED vars
  <2>1. UNCHANGED <<state, pid, parent, machine, on, pc, arg, born>>
    BY <1>5 DEF vars, table
  <2> QED
    BY <2>1 DEF CpuInv, DozersRun, Awake, Alone, Looked, StackLive, WaitSound, Dead, Kids, online
<1> QED
  BY <1>1, <1>2, <1>3, <1>4, <1>5 DEF Next

(* On one CPU, a process that sleeps in sys_waitpid() misses no child that *)
(* it forked: the look for zombies and the sleep are as one step, and a    *)
(* child that becomes a zombie later wakes its parent in sys_exit().       *)
THEOREM WaitMissesNoChild == Spec => []WaitSound
<1>1. CpuInv => WaitSound
  BY DEF CpuInv
<1> QED
  BY <1>1, FamilyInit, FamilyNext, CpuInit, CpuNext, PTL DEF Spec

(* On one CPU, sys_waitpid() never frees the stack a CPU is on: a zombie   *)
(* has left the CPU before its parent can run and reap it.                 *)
THEOREM ReapedAfterLeaving == Spec => []StackLive
<1>1. CpuInv => StackLive
  BY DEF CpuInv
<1> QED
  BY <1>1, FamilyInit, FamilyNext, CpuInit, CpuNext, PTL DEF Spec

=============================================================================
