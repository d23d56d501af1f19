----------------------------- MODULE ProcProofs -----------------------------
(***************************************************************************)
(* Proof that parent pointers never dangle (ParentTruth), for any number   *)
(* of task slots, CPUs, processes and signals.                             *)
(***************************************************************************)
EXTENDS Proc, WellFoundedInduction, NaturalsInduction, TLAPS

(* A slot that holds no process that could take a step: free, claimed by a *)
(* fork under way, or dead.                                                *)
Inert == {"UNUSED", "EMBRYO", "ZOMBIE"}

TableType ==
    /\ state \in [Slot -> States] /\ pid \in [Slot -> Nat]
    /\ parent \in [Slot -> Slot \union {NoTask}] /\ pc \in [Slot -> Pcs]
    /\ DOMAIN queued = Slot /\ DOMAIN born = Slot /\ DOMAIN arg = Slot
    /\ pid_counter \in Nat

(* An inert slot is on no queue, and at most the last steps of an exit are *)
(* still to be taken on its stack.                                         *)
InertStays == \A s \in Slot : state[s] \in Inert => ~queued[s] /\ pc[s] \in {"new", "exit4", "gone"}

(* A fork under way owns the slot it has claimed. *)
Forking(s) == pc[s] \in {"fork2", "fork3"}
ForkOwns ==
    /\ \A s \in Slot : Forking(s) => arg[s] \in Slot /\ state[arg[s]] = "EMBRYO"
    /\ \A s, t \in Slot : Forking(s) /\ Forking(t) /\ arg[s] = arg[t] => s = t
    /\ \A s \in Slot : pc[s] = "fork3" => parent[arg[s]] = s /\ born[arg[s]] = pid[s]

(* Before kernel_spawn() there is no process; afterwards there is one      *)
(* init, which has no parent and is never reaped.                          *)
OneInit ==
    /\ pid_counter = 0 => \A s \in Slot : state[s] = "UNUSED" /\ pid[s] = 0 /\ parent[s] = NoTask
    /\ pid_counter # 0 => \E i \in Slot : pid[i] = InitPid
    /\ \A i \in Slot : pid[i] = InitPid => state[i] \notin {"UNUSED", "EMBRYO"} /\ parent[i] = NoTask
    /\ \A i, k \in Slot : pid[i] = InitPid /\ pid[k] = InitPid => i = k

(* A parent that has not yet given its children away. *)
Keeps(p) == state[p] \notin Inert /\ pc[p] \notin {"exit2", "exit3"}

(* The parent of a process is init, or the one that forked it and has its  *)
(* exit1 still before it.                                                  *)
GoodParent(t) == /\ parent[t] \in Slot /\ parent[t] # t
                 /\ \/ pid[parent[t]] = InitPid
                    \/ pid[parent[t]] = born[t] /\ Keeps(parent[t])
Parents == \A t \in Live : pid[t] # InitPid => GoodParent(t)

FamilyInv == TableType /\ InertStays /\ ForkOwns /\ OneInit /\ Parents

-----------------------------------------------------------------------------
(* A set of slots that is not empty has a least element. *)
LEMMA LeastFacts ==
    ASSUME NEW S, S \subseteq Slot, S # {}
    PROVE  Least(S) \in S
<1>1. S \in SUBSET Nat
  BY ProcAssumption DEF Slot
<1>2. PICK d \in S : \A e \in S : ~ (<<e, d>> \in OpToRel(<, Nat))
  BY <1>1, NatLessThanWellFounded, WFMin
<1>3. \A e \in S : ~ (e < d)
  BY <1>1, <1>2, Zenon DEF OpToRel
<1>4. \A e \in S : d <= e
  BY <1>1, <1>3
<1> QED
  BY <1>4 DEF Least

(* Forks go on owning their slots as long as these and the names of the    *)
(* two processes stay as they are.                                         *)
LEMMA ForkOwnsKept ==
    ASSUME ForkOwns,
           \A t \in Slot : Forking(t)' => /\ pc'[t] = pc[t] /\ arg'[t] = arg[t]
                                         /\ state'[arg[t]] = "EMBRYO"
                                         /\ parent'[arg[t]] = parent[arg[t]]
                                         /\ born'[arg[t]] = born[arg[t]] /\ pid'[t] = pid[t]
    PROVE  ForkOwns'
<1>1. \A t \in Slot : Forking(t)' => Forking(t)
  BY DEF Forking
<1>2. ASSUME NEW t \in Slot, Forking(t)' PROVE arg'[t] \in Slot /\ state'[arg'[t]] = "EMBRYO"
  BY <1>1, <1>2 DEF ForkOwns
<1>3. ASSUME NEW t \in Slot, NEW u \in Slot, Forking(t)', Forking(u)', arg'[t] = arg'[u] PROVE t = u
  <2>1. Forking(t) /\ Forking(u) /\ arg[t] = arg[u]
    BY <1>1, <1>3
  <2> QED
    BY <2>1 DEF ForkOwns
<1>4. ASSUME NEW t \in Slot, pc'[t] = "fork3" PROVE parent'[arg'[t]] = t /\ born'[arg'[t]] = pid'[t]
  <2>1. Forking(t)'
    BY <1>4 DEF Forking
  <2>2. pc[t] = "fork3"
    BY <1>4, <2>1
  <2>3. parent[arg[t]] = t /\ born[arg[t]] = pid[t]
    BY <2>2 DEF ForkOwns
  <2> QED
    BY <2>1, <2>3
<1> QED
  BY <1>2, <1>3, <1>4 DEF ForkOwns

(* Most steps of a process s neither touch the family nor make a slot      *)
(* inert or leave that state; others change at most from asleep to awake.  *)
SmallStep(s) ==
    /\ UNCHANGED <<pid, parent, born, pid_counter>>
    /\ state' \in [Slot -> States] /\ DOMAIN queued' = Slot /\ DOMAIN arg' = Slot
    /\ pc' \in [Slot -> Pcs]
    /\ \A t \in Slot : state'[t] = state[t] \/ (state[t] \notin Inert /\ state'[t] \notin Inert)
    /\ \A t \in Slot : queued'[t] => queued[t] \/ state'[t] \notin Inert
    /\ \A t \in Slot : t # s => pc'[t] = pc[t] /\ arg'[t] = arg[t]
    /\ pc'[s] \in {"fork2", "fork3"} => pc'[s] = pc[s] /\ arg'[s] = arg[s]
    /\ pc'[s] \in {"exit2", "exit3"} => pc[s] \in {"exit2", "exit3"}
    /\ state[s] \in Inert => pc'[s] \in {"new", "exit4", "gone"}

LEMMA SmallStepKeeps ==
    ASSUME FamilyInv, NEW s \in Slot, SmallStep(s)
    PROVE  FamilyInv'
<1> USE DEF FamilyInv, SmallStep
<1>1. TableType'
  BY DEF TableType
<1>2. InertStays'
  <2> SUFFICES ASSUME NEW t \in Slot, state'[t] \in Inert
               PROVE  ~queued'[t] /\ pc'[t] \in {"new", "exit4", "gone"}
    BY DEF InertStays
  <2>1. state[t] \in Inert
    OBVIOUS
  <2>2. ~queued[t] /\ pc[t] \in {"new", "exit4", "gone"}
    BY <2>1 DEF InertStays
  <2> QED
    BY <2>1, <2>2
<1>3. ForkOwns'
  <2>1. \A t \in Slot : pc'[t] \in {"fork2", "fork3"} => pc[t] = pc'[t] /\ arg[t] = arg'[t]
    OBVIOUS
  <2>2. \A t \in Slot : state[t] = "EMBRYO" => state'[t] = "EMBRYO"
    BY DEF Inert
  <2>3. \A t \in Slot : Forking(t)' => pc[t] = pc'[t] /\ arg[t] = arg'[t] /\ state[arg[t]] = "EMBRYO" /\ arg[t] \in Slot
    BY <2>1 DEF ForkOwns, Forking
  <2> QED
    BY <2>2, <2>3, ForkOwnsKept
<1>4. OneInit'
  <2>1. \A t \in Slot : state[t] = "UNUSED" => state'[t] = "UNUSED"
    BY DEF Inert
  <2>2. \A t \in Slot : state[t] \notin {"UNUSED", "EMBRYO"} => state'[t] \notin {"UNUSED", "EMBRYO"}
    BY DEF Inert
  <2> QED
    BY <2>1, <2>2 DEF OneInit
<1>5. Parents'
  <2> SUFFICES ASSUME NEW t \in Live', pid[t] # InitPid PROVE GoodParent(t)'
    BY DEF Parents
  <2>1. t \in Live
    BY DEF Live, Inert
  <2>2. GoodParent(t)
    BY <2>1 DEF Parents
  <2>3. ASSUME NEW q \in Slot, Keeps(q) PROVE Keeps(q)'
    BY <2>3 DEF Keeps
  <2> QED
    BY <2>2, <2>3 DEF GoodParent
<1> QED
  BY <1>1, <1>2, <1>3, <1>4, <1>5

(* send_signal() only makes sleeping and stopped processes runnable. *)
LEMMA SendSignalFacts ==
    ASSUME TableType, NEW T, NEW g, SendSignal(T, g)
    PROVE  /\ state' \in [Slot -> States] /\ DOMAIN queued' = Slot
           /\ \A t \in Slot : state'[t] = state[t] \/ (state[t] \notin Inert /\ state'[t] \notin Inert)
           /\ \A t \in Slot : queued'[t] => queued[t] \/ state'[t] \notin Inert
<1> DEFINE hit  == {t \in T : g \in Unignorable \/ sa[t][g] # "IGN"}
           wake == {t \in hit : \/ state[t] = "SLEEPING"
                                \/ state[t] = "STOPPED" /\ g = SIGCONT}
<1>1. state' = [t \in Slot |-> IF t \in wake THEN "RUNNABLE" ELSE state[t]]
  BY Zenon DEF SendSignal
<1>2. queued' = [t \in Slot |-> queued[t] \/ t \in wake]
  BY Zenon DEF SendSignal
<1>3. \A t \in wake : state[t] = "SLEEPING" \/ state[t] = "STOPPED"
  BY Zenon
<1> HIDE DEF hit, wake
<1>4. state \in [Slot -> States] /\ "RUNNABLE" \in States
  BY DEF TableType, States
<1>5. state' \in [Slot -> States]
  BY <1>1, <1>4
<1>6. \A t \in Slot : IF t \in wake THEN state'[t] = "RUNNABLE" ELSE state'[t] = state[t]
  BY <1>1
<1>7. \A t \in Slot : state'[t] = state[t] \/ (state[t] \notin Inert /\ state'[t] \notin Inert)
  BY <1>3, <1>6 DEF Inert
<1>8. DOMAIN queued' = Slot
  BY <1>2, Zenon
<1>9. \A t \in Slot : queued'[t] = (queued[t] \/ t \in wake)
  BY <1>2
<1>10. \A t \in Slot : t \in wake => state'[t] \notin Inert
  BY <1>6 DEF Inert
<1> QED
  BY <1>5, <1>7, <1>8, <1>9, <1>10, Zenon

(* A step of s that goes to l and changes nothing but the fields of u. *)
OwnStep(s, u, l) ==
    /\ UNCHANGED <<pid, parent, born, pid_counter>>
    /\ Goto(s, l)
    /\ UNCHANGED state \/ \E x \in States \ Inert : state' = [state EXCEPT ![u] = x]
    /\ UNCHANGED queued \/ \E b : queued' = [queued EXCEPT ![u] = b]
    /\ UNCHANGED arg \/ (l \notin {"fork2", "fork3"} /\ \E w : arg' = [arg EXCEPT ![s] = w])

LEMMA OwnStepSmall ==
    ASSUME TableType, NEW s \in Slot, NEW u \in Slot, NEW l \in Pcs, OwnStep(s, u, l), state[u] \notin Inert,
           l \in {"fork2", "fork3", "exit2", "exit3"} => l = pc[s],
           state[s] \in Inert => l \in {"new", "exit4", "gone"}
    PROVE  SmallStep(s)
<1>1. state \in [Slot -> States] /\ pc \in [Slot -> Pcs] /\ DOMAIN queued = Slot /\ DOMAIN arg = Slot
  BY DEF TableType
<1>2. pc' \in [Slot -> Pcs] /\ pc'[s] = l /\ \A t \in Slot : t # s => pc'[t] = pc[t]
  BY <1>1 DEF OwnStep, Goto
<1>3. DOMAIN arg' = Slot /\ \A t \in Slot : t # s => arg'[t] = arg[t]
  BY <1>1 DEF OwnStep
<1>4. state' \in [Slot -> States] /\ state'[u] \notin Inert /\ \A t \in Slot : t # u => state'[t] = state[t]
  BY <1>1 DEF OwnStep
<1>5. DOMAIN queued' = Slot
  BY <1>1, Zenon DEF OwnStep
<1>6. \A t \in Slot : t # u => queued'[t] = queued[t]
  BY <1>1, Zenon DEF OwnStep
<1>7. \A t \in Slot : queued'[t] => queued[t] \/ state'[t] \notin Inert
  BY <1>4, <1>6
<1>8. \A t \in Slot : state'[t] = state[t] \/ (state[t] \notin Inert /\ state'[t] \notin Inert)
  BY <1>4, Zenon
<1>9. l \in {"fork2", "fork3"} => l = pc[s] /\ arg' = arg
  BY DEF OwnStep
<1>10. UNCHANGED <<pid, parent, born, pid_counter>>
  BY DEF OwnStep
<1> QED
  BY <1>2, <1>3, <1>4, <1>5, <1>7, <1>8, <1>9, <1>10 DEF SmallStep

(* The steps of s that leave the family alone. *)
Quiet(s) ==
    \/ Dispatch(s) \/ Leave(s, "sleep", "scan") \/ Leave(s, "stop", "user") \/ Leave(s, "gone", "gone")
    \/ Interrupt(s) \/ Preempt(s) \/ Execve(s) \/ SigreturnEnd(s) \/ Sigreturn(s) \/ Check(s)
    \/ Exit(s) \/ Exit2(s) \/ Exit4(s) \/ Doze(s) \/ Dequeue(s)
    \/ \E w \in NoHang .. MaxPid : Wait4(s, w)
    \/ \E p \in {-1} \union 1 .. MaxPid, g \in Sig : Kill(s, p, g)
    \/ \E g \in Settable, h \in Handlers : Sigaction(s, g, h)
    \/ \E set \in SUBSET Settable : Sigprocmask(s, set)

LEMMA QuietIsSmall ==
    ASSUME FamilyInv, NEW s \in Slot, Quiet(s)
    PROVE  SmallStep(s)
<1>t. TableType
  BY DEF FamilyInv
<1>i. pc[s] \notin {"new", "exit4", "gone"} => state[s] \notin Inert
  BY DEF FamilyInv, InertStays
<1>q. queued[s] => state[s] \notin Inert
  BY DEF FamilyInv, InertStays
<1>r. {"RUNNING", "RUNNABLE", "SLEEPING", "STOPPED"} \subseteq States \ Inert
  BY DEF States, Inert
<1>p. {"user", "check", "scan", "dequeue", "sleep", "stop", "sigret", "exit1"} \subseteq Pcs \ {"fork2", "fork3", "exit2", "exit3"}
  BY DEF Pcs, InExit
<1>o. ASSUME NEW l \in {"user", "check", "scan", "dequeue", "sleep", "stop", "sigret", "exit1"},
             OwnStep(s, s, l), state[s] \notin Inert
      PROVE  SmallStep(s)
  BY <1>t, <1>p, <1>o, OwnStepSmall
<1> USE DEF In, OwnStep
<1>1. CASE Leave(s, "sleep", "scan")
  <2>1. state[s] \notin Inert
    BY <1>1, <1>i DEF Leave
  <2>2. OwnStep(s, s, "scan")
    BY <1>1, <1>r DEF Leave
  <2> QED
    BY <2>1, <2>2, <1>o
<1>2. CASE Leave(s, "stop", "user")
  <2>1. state[s] \notin Inert
    BY <1>2, <1>i DEF Leave
  <2>2. OwnStep(s, s, "user")
    BY <1>2, <1>r DEF Leave
  <2> QED
    BY <2>1, <2>2, <1>o
<1>3. CASE Interrupt(s)
  <2>1. state[s] \notin Inert
    BY <1>3, <1>i DEF Interrupt
  <2>2. OwnStep(s, s, "check")
    BY <1>3, <1>r DEF Interrupt, Return, table
  <2> QED
    BY <2>1, <2>2, <1>o
<1>4. CASE Execve(s)
  <2>1. state[s] \notin Inert
    BY <1>4, <1>i DEF Execve
  <2>2. OwnStep(s, s, "check")
    BY <1>4, <1>r DEF Execve, Return, table
  <2> QED
    BY <2>1, <2>2, <1>o
<1>5. CASE SigreturnEnd(s)
  <2>1. state[s] \notin Inert
    BY <1>5, <1>i DEF SigreturnEnd
  <2>2. OwnStep(s, s, "check")
    BY <1>5, <1>r DEF SigreturnEnd, Return, table
  <2> QED
    BY <2>1, <2>2, <1>o
<1>6. CASE Exit(s)
  <2>1. state[s] \notin Inert
    BY <1>6, <1>i DEF Exit
  <2>2. OwnStep(s, s, "exit1")
    BY <1>6, <1>r DEF Exit, table
  <2> QED
    BY <2>1, <2>2, <1>o
<1>7. CASE Doze(s)
  <2>1. state[s] \notin Inert
    BY <1>7, <1>i DEF Doze
  <2>2. OwnStep(s, s, "dequeue")
    BY <1>7, <1>r, Zenon DEF Doze
  <2> QED
    BY <2>1, <2>2, <1>o
<1>8. CASE Dequeue(s)
  <2>1. state[s] \notin Inert
    BY <1>8, <1>i DEF Dequeue
  <2>2. OwnStep(s, s, "sleep")
    BY <1>8, <1>r, Zenon DEF Dequeue
  <2> QED
    BY <2>1, <2>2, <1>o
<1>9. ASSUME NEW w, Wait4(s, w) PROVE SmallStep(s)
  <2>1. state[s] \notin Inert
    BY <1>9, <1>i DEF Wait4
  <2>2. OwnStep(s, s, "scan")
    BY <1>9, Zenon DEF Wait4, table
  <2> QED
    BY <2>1, <2>2, <1>o
<1>10. ASSUME NEW g, NEW h, Sigaction(s, g, h) PROVE SmallStep(s)
  <2>1. state[s] \notin Inert
    BY <1>10, <1>i DEF Sigaction
  <2>2. OwnStep(s, s, "check")
    BY <1>10 DEF Sigaction, Return, table
  <2> QED
    BY <2>1, <2>2, <1>o
<1>11. ASSUME NEW set, Sigprocmask(s, set) PROVE SmallStep(s)
  <2>1. state[s] \notin Inert
    BY <1>11, <1>i DEF Sigprocmask
  <2>2. OwnStep(s, s, "check")
    BY <1>11 DEF Sigprocmask, Return, table
  <2> QED
    BY <2>1, <2>2, <1>o
<1>12. CASE Preempt(s)
  <2>1. state[s] \notin Inert /\ pc[s] = "user" /\ pc \in [Slot -> Pcs]
    BY <1>12, <1>i, <1>t DEF Preempt, TableType
  <2>2. Goto(s, "check") \/ Goto(s, "user")
    BY <1>12, <2>1 DEF Preempt, Return, Goto
  <2>3. OwnStep(s, s, "check") \/ OwnStep(s, s, "user")
    BY <1>12, <1>r, <2>2, Zenon DEF Preempt
  <2> QED
    BY <2>1, <2>3, <1>o
<1>13. CASE Sigreturn(s)
  <2>1. state[s] \notin Inert
    BY <1>13, <1>i DEF Sigreturn
  <2>2. Goto(s, "exit1") \/ Goto(s, "sigret")
    BY <1>13 DEF Sigreturn
  <2>3. OwnStep(s, s, "exit1") \/ OwnStep(s, s, "sigret")
    BY <1>13, <2>2 DEF Sigreturn, table
  <2> QED
    BY <2>1, <2>3, <1>o
<1>14. CASE Check(s)
  <2>1. state[s] \notin Inert
    BY <1>14, <1>i DEF Check
  <2>2. PICK l \in {"stop", "user", "exit1"} : Goto(s, l)
    BY <1>14, Zenon DEF Check
  <2>3. UNCHANGED state \/ state' = [state EXCEPT ![s] = "STOPPED"]
    BY <1>14, Zenon DEF Check
  <2>4. UNCHANGED <<pid, parent, queued, arg, pid_counter, born>>
    BY <1>14 DEF Check
  <2>5. OwnStep(s, s, l)
    BY <1>r, <2>2, <2>3, <2>4
  <2> QED
    BY <2>1, <2>5, <1>o
<1>15. CASE Leave(s, "gone", "gone")
  <2>1. pc[s] = "gone" /\ pc \in [Slot -> Pcs] /\ state \in [Slot -> States]
    BY <1>15, <1>t DEF Leave, TableType
  <2>2. CASE UNCHANGED queued
    <3>1. pc' = pc
      BY <1>15, <2>1 DEF Leave, Goto
    <3>2. UNCHANGED <<state, pid, parent, arg, pid_counter, born>>
      BY <1>15 DEF Leave
    <3> QED
      BY <1>t, <2>1, <2>2, <3>1, <3>2 DEF SmallStep, TableType
  <2>3. CASE ~UNCHANGED queued
    <3>1. state[s] \notin Inert
      BY <1>15, <2>3 DEF Leave, Inert
    <3>2. OwnStep(s, s, "gone")
      BY <1>15 DEF Leave
    <3> QED
      BY <1>t, <3>1, <3>2, OwnStepSmall DEF Pcs, InExit
  <2> QED
    BY <2>2, <2>3
<1>16. CASE Dispatch(s)
  <2> DEFINE l == IF pc[s] = "new" THEN "user" ELSE pc[s]
  <2>1. state[s] \notin Inert /\ pc[s] \in Pcs
    BY <1>16, <1>q, <1>t DEF Dispatch, TableType
  <2>2. OwnStep(s, s, l)
    BY <1>16, <1>r, Zenon DEF Dispatch
  <2>3. l \in Pcs /\ (l \in {"fork2", "fork3", "exit2", "exit3"} => l = pc[s])
    BY <1>p, <2>1
  <2> HIDE DEF l
  <2> QED
    BY <1>t, <2>1, <2>2, <2>3, OwnStepSmall
<1>17. CASE Exit2(s)
  <2>1. PICK T : SendSignal(T, SIGCHLD)
    BY <1>17, Zenon DEF Exit2
  <2>2. state[s] \notin Inert /\ pc[s] = "exit2" /\ pc \in [Slot -> Pcs]
    BY <1>17, <1>i, <1>t DEF Exit2, TableType
  <2>3. pc' \in [Slot -> Pcs] /\ pc'[s] = "exit3" /\ \A t \in Slot : t # s => pc'[t] = pc[t]
    BY <1>17, <2>2 DEF Exit2, Goto, Pcs, InExit
  <2>4. UNCHANGED <<pid, parent, born, pid_counter, arg>> /\ DOMAIN arg = Slot
    BY <1>17, <1>t DEF Exit2, TableType
  <2> QED
    BY <1>t, <2>1, <2>2, <2>3, <2>4, SendSignalFacts DEF SmallStep
<1>18. CASE Exit4(s)
  <2>1. "gone" \in Pcs /\ "gone" \notin {"fork2", "fork3", "exit2", "exit3"}
    BY DEF Pcs, InExit
  <2>2. CASE parent[s] # NoTask /\ state[parent[s]] = "SLEEPING"
    <3>1. parent[s] \in Slot /\ state[parent[s]] \notin Inert
      BY <1>t, <2>2 DEF Inert, TableType
    <3>2. OwnStep(s, parent[s], "gone")
      BY <1>18, <1>r, <2>2 DEF Exit4
    <3> QED
      BY <1>t, <2>1, <3>1, <3>2, OwnStepSmall
  <2>3. CASE ~(parent[s] # NoTask /\ state[parent[s]] = "SLEEPING")
    <3>1. UNCHANGED <<state, queued, pid, parent, arg, pid_counter, born>>
      BY <1>18, <2>3 DEF Exit4
    <3>2. pc \in [Slot -> Pcs]
      BY <1>t DEF TableType
    <3>3. pc' \in [Slot -> Pcs] /\ pc'[s] = "gone" /\ \A t \in Slot : t # s => pc'[t] = pc[t]
      BY <1>18, <2>1, <3>2 DEF Exit4, Goto
    <3> QED
      BY <1>t, <3>1, <3>3 DEF SmallStep, TableType
  <2> QED
    BY <2>2, <2>3
<1>19. ASSUME NEW p, NEW g, Kill(s, p, g) PROVE SmallStep(s)
  <2>1. (\E T : SendSignal(T, g)) \/ UNCHANGED <<state, queued>>
    BY <1>19, Zenon DEF Kill
  <2>2. state[s] \notin Inert /\ pc \in [Slot -> Pcs] /\ state \in [Slot -> States] /\ DOMAIN queued = Slot
    BY <1>19, <1>i, <1>t DEF Kill, TableType
  <2>3. pc' = [pc EXCEPT ![s] = "check"]
    BY <1>19, Zenon DEF Kill, Return, Goto
  <2>4. pc' \in [Slot -> Pcs] /\ pc'[s] = "check" /\ \A t \in Slot : t # s => pc'[t] = pc[t]
    BY <1>p, <2>2, <2>3
  <2>5. UNCHANGED <<pid, parent, born, pid_counter, arg>> /\ DOMAIN arg = Slot
    BY <1>19, <1>t DEF Kill, TableType
  <2>6. CASE UNCHANGED <<state, queued>>
    BY <2>2, <2>4, <2>5, <2>6 DEF SmallStep
  <2>7. ASSUME NEW T, SendSignal(T, g) PROVE SmallStep(s)
    BY <1>t, <2>2, <2>4, <2>5, <2>7, SendSignalFacts DEF SmallStep
  <2> QED
    BY <2>1, <2>6, <2>7
<1> QED
  BY <1>1, <1>2, <1>3, <1>4, <1>5, <1>6, <1>7, <1>8, <1>9, <1>10,
     <1>11, <1>12, <1>13, <1>14, <1>15, <1>16, <1>17, <1>18, <1>19 DEF Quiet

-----------------------------------------------------------------------------
(* kernel_spawn() makes the first process, which is init. *)
LEMMA SpawnKeeps ==
    ASSUME FamilyInv, Spawn
    PROVE  FamilyInv'
<1> USE DEF FamilyInv
<1> DEFINE c == Least(Unused)
<1>1. pid_counter = 0 /\ \A t \in Slot : state[t] = "UNUSED" /\ pid[t] = 0 /\ parent[t] = NoTask
  BY DEF Spawn, OneInit
<1>2. Unused = Slot /\ Slot # {}
  BY <1>1, ProcAssumption DEF Unused, Slot
<1>3. c \in Slot
  BY <1>2, LeastFacts
<1>4. /\ pid_counter' = 1 /\ pid' = [pid EXCEPT ![c] = 1] /\ state' = [state EXCEPT ![c] = "RUNNABLE"]
      /\ UNCHANGED <<parent, pc, arg, born>>
  BY DEF Spawn
<1>5. queued' = [queued EXCEPT ![c] = TRUE]
  BY DEF Spawn
<1> HIDE DEF c
<1>6. \A t \in Slot : ~queued[t] /\ pc[t] \in {"new", "exit4", "gone"}
  BY <1>1 DEF InertStays, Inert
<1>7. DOMAIN queued' = Slot /\ \A t \in Slot : t # c => queued'[t] = queued[t]
  BY <1>3, <1>5, Zenon DEF TableType
<1>8. state'[c] = "RUNNABLE" /\ \A t \in Slot : t # c => state'[t] = "UNUSED"
  BY <1>1, <1>3, <1>4 DEF TableType
<1>9. pid'[c] = 1 /\ \A t \in Slot : t # c => pid'[t] = 0
  BY <1>1, <1>3, <1>4 DEF TableType
<1>10. TableType'
  <2>1. state' \in [Slot -> States]
    BY <1>4, <1>3 DEF TableType, States
  <2>2. pid' \in [Slot -> Nat]
    BY <1>4, <1>3 DEF TableType
  <2> QED
    BY <1>4, <1>7, <2>1, <2>2 DEF TableType
<1>11. InertStays'
  BY <1>4, <1>6, <1>7, <1>8 DEF InertStays, Inert
<1>12. ForkOwns'
  BY <1>4, <1>6 DEF ForkOwns, Forking
<1>13. OneInit'
  BY <1>1, <1>3, <1>4, <1>8, <1>9 DEF OneInit, InitPid
<1>14. Parents'
  BY <1>8, <1>9 DEF Parents, Live, InitPid
<1> QED
  BY <1>10, <1>11, <1>12, <1>13, <1>14

(* fork() claims a free slot, or fails. *)
LEMMA Fork1Keeps ==
    ASSUME FamilyInv, NEW s \in Slot, Fork1(s)
    PROVE  FamilyInv'
<1>1. TableType /\ pc[s] = "user" /\ state[s] \notin Inert
  BY DEF FamilyInv, InertStays, Fork1, In
<1>2. CASE Unused = {}
  <2>1. OwnStep(s, s, "check")
    BY <1>2 DEF Fork1, Return, OwnStep
  <2> QED
    BY <1>1, <2>1, OwnStepSmall, SmallStepKeeps DEF Pcs
<1>3. CASE Unused # {}
  <2> USE DEF FamilyInv
  <2> DEFINE c == Least(Unused)
  <2>1. c \in Slot /\ state[c] = "UNUSED"
    BY <1>3, LeastFacts DEF Unused
  <2>2. /\ state' = [state EXCEPT ![c] = "EMBRYO"] /\ pc' = [pc EXCEPT ![s] = "fork2"]
        /\ arg' = [arg EXCEPT ![s] = c] /\ UNCHANGED <<pid, parent, pid_counter, born>>
    BY <1>3 DEF Fork1, Goto
  <2>3. queued' = [queued EXCEPT ![c] = FALSE]
    BY <1>3 DEF Fork1
  <2> HIDE DEF c
  <2>4. c # s
    BY <1>1, <2>1 DEF Inert
  <2>5. DOMAIN queued' = Slot /\ ~queued'[c] /\ \A t \in Slot : t # c => queued'[t] = queued[t]
    BY <2>1, <2>3, Zenon DEF TableType
  <2>6. state' \in [Slot -> States] /\ state'[c] = "EMBRYO" /\ \A t \in Slot : t # c => state'[t] = state[t]
    BY <1>1, <2>1, <2>2 DEF TableType, States
  <2>7. pc' \in [Slot -> Pcs] /\ pc'[s] = "fork2" /\ \A t \in Slot : t # s => pc'[t] = pc[t]
    BY <1>1, <2>2 DEF TableType, Pcs
  <2>8. DOMAIN arg' = Slot /\ arg'[s] = c /\ \A t \in Slot : t # s => arg'[t] = arg[t]
    BY <1>1, <2>2 DEF TableType
  <2>9. TableType'
    BY <2>2, <2>5, <2>6, <2>7, <2>8 DEF TableType
  <2>10. InertStays'
    BY <1>1, <2>1, <2>5, <2>6, <2>7 DEF InertStays, Inert
  <2>11. ForkOwns'
    <3>1. \A t \in Slot : t # s /\ Forking(t) => arg[t] \in Slot /\ arg[t] # c
      BY <2>1 DEF ForkOwns
    <3> QED
      BY <2>1, <2>2, <2>6, <2>7, <2>8, <3>1 DEF ForkOwns, Forking
  <2>12. OneInit'
    BY <1>1, <2>1, <2>2, <2>6 DEF OneInit, Inert
  <2>13. Parents'
    <3>1. Live' = Live
      BY <2>1, <2>6 DEF Live
    <3>2. ASSUME NEW q \in Slot, Keeps(q) PROVE Keeps(q)'
      BY <2>1, <2>6, <2>7, <3>2 DEF Keeps, Inert
    <3> QED
      BY <2>2, <3>1, <3>2 DEF Parents, GoodParent
  <2> QED
    BY <2>9, <2>10, <2>11, <2>12, <2>13
<1> QED
  BY <1>2, <1>3

(* fork() names the child and its parent while the slot is an embryo. *)
LEMMA Fork2Keeps ==
    ASSUME FamilyInv, NEW s \in Slot, Fork2(s)
    PROVE  FamilyInv'
<1> USE DEF FamilyInv
<1> DEFINE c == arg[s]
<1>1. TableType /\ pc[s] = "fork2" /\ state[s] \notin Inert
  BY DEF InertStays, Fork2, In
<1>2. c \in Slot /\ state[c] = "EMBRYO"
  BY <1>1 DEF ForkOwns, Forking
<1>3. /\ pid_counter' = pid_counter + 1 /\ pid' = [pid EXCEPT ![c] = pid_counter + 1]
      /\ parent' = [parent EXCEPT ![c] = s] /\ born' = [born EXCEPT ![c] = pid[s]]
      /\ pc' = [pc EXCEPT ![s] = "fork3"] /\ UNCHANGED <<state, queued, arg>>
  BY DEF Fork2, Goto
<1> HIDE DEF c
<1>4. c # s /\ pid[c] # InitPid /\ ~Forking(c)
  BY <1>1, <1>2 DEF Inert, OneInit, InertStays, Forking
<1>5. pid_counter \in Nat /\ pid_counter # 0
  BY <1>1 DEF OneInit, Inert, TableType
<1>6. pid' \in [Slot -> Nat] /\ pid'[c] # InitPid /\ \A t \in Slot : t # c => pid'[t] = pid[t]
  BY <1>1, <1>2, <1>3, <1>5 DEF TableType, InitPid
<1>7. parent' \in [Slot -> Slot \union {NoTask}] /\ parent'[c] = s /\ \A t \in Slot : t # c => parent'[t] = parent[t]
  BY <1>1, <1>2, <1>3 DEF TableType
<1>8. DOMAIN born' = Slot /\ born'[c] = pid[s] /\ \A t \in Slot : t # c => born'[t] = born[t]
  BY <1>1, <1>2, <1>3 DEF TableType
<1>9. pc' \in [Slot -> Pcs] /\ pc'[s] = "fork3" /\ \A t \in Slot : t # s => pc'[t] = pc[t]
  BY <1>1, <1>3 DEF TableType, Pcs
<1>10. TableType'
  BY <1>1, <1>3, <1>5, <1>6, <1>7, <1>8, <1>9 DEF TableType
<1>11. InertStays'
  BY <1>1, <1>3, <1>9 DEF InertStays
<1>12. ForkOwns'
  <2>1. \A t \in Slot : Forking(t)' => Forking(t)
    BY <1>1, <1>9 DEF Forking
  <2>2. \A t \in Slot : t # s /\ Forking(t) => arg[t] # c
    BY <1>1 DEF ForkOwns, Forking, c
  <2>3. \A t \in Slot : pc'[t] = "fork3" => parent'[arg[t]] = t /\ born'[arg[t]] = pid'[t]
    <3> SUFFICES ASSUME NEW t \in Slot, pc'[t] = "fork3" PROVE parent'[arg[t]] = t /\ born'[arg[t]] = pid'[t]
      OBVIOUS
    <3>1. CASE t = s
      BY <1>4, <1>6, <1>7, <1>8, <3>1 DEF c
    <3>2. CASE t # s
      <4>1. Forking(t) /\ pc[t] = "fork3" /\ t # c
        BY <1>4, <1>9, <3>2 DEF Forking
      <4>2. arg[t] \in Slot /\ arg[t] # c /\ parent[arg[t]] = t /\ born[arg[t]] = pid[t]
        BY <2>2, <3>2, <4>1 DEF ForkOwns
      <4> QED
        BY <1>6, <1>7, <1>8, <4>1, <4>2
    <3> QED
      BY <3>1, <3>2
  <2> QED
    BY <1>3, <2>1, <2>3 DEF ForkOwns
<1>13. OneInit'
  <2>1. pid_counter' # 0
    BY <1>3, <1>5
  <2>2. \A t \in Slot : pid'[t] = InitPid <=> pid[t] = InitPid
    BY <1>2, <1>4, <1>6
  <2>3. \A t \in Slot : pid[t] = InitPid => parent'[t] = parent[t]
    BY <1>4, <1>7
  <2> QED
    BY <1>3, <1>5, <2>1, <2>2, <2>3 DEF OneInit
<1>14. Parents'
  <2> SUFFICES ASSUME NEW t \in Live, pid'[t] # InitPid PROVE GoodParent(t)'
    BY <1>3 DEF Parents, Live
  <2>1. t \in Slot /\ t # c
    BY <1>2 DEF Live
  <2>2. GoodParent(t)
    BY <1>6, <2>1 DEF Parents
  <2>3. parent[t] # c
    BY <1>2, <1>4, <2>2 DEF GoodParent, Keeps, Inert
  <2>4. ASSUME NEW q \in Slot, Keeps(q) PROVE Keeps(q)'
    BY <1>3, <1>9, <2>4 DEF Keeps
  <2> QED
    BY <1>6, <1>7, <1>8, <2>1, <2>2, <2>3, <2>4 DEF GoodParent
<1> QED
  BY <1>10, <1>11, <1>12, <1>13, <1>14

(* fork() ends: the child runs, or its slot is given back. *)
LEMMA Fork3Keeps ==
    ASSUME FamilyInv, NEW s \in Slot, Fork3(s)
    PROVE  FamilyInv'
<1> USE DEF FamilyInv
<1> DEFINE c == arg[s]
<1>1. TableType /\ pc[s] = "fork3" /\ state[s] \notin Inert
  BY DEF InertStays, Fork3, In
<1>2. c \in Slot /\ state[c] = "EMBRYO" /\ parent[c] = s /\ born[c] = pid[s]
  BY <1>1 DEF ForkOwns, Forking
<1>3. arg' = [arg EXCEPT ![s] = 0] /\ UNCHANGED <<pid, parent, pid_counter, born>>
  BY DEF Fork3
<1>4. PICK x \in {"RUNNABLE", "UNUSED"} :
         /\ state' = [state EXCEPT ![c] = x]
         /\ \/ x = "RUNNABLE" /\ pc' = [pc EXCEPT ![c] = "new", ![s] = "check"]
            \/ x = "UNUSED" /\ pc' = [pc EXCEPT ![s] = "check"]
         /\ \/ x = "RUNNABLE" /\ queued' = [queued EXCEPT ![c] = TRUE]
            \/ x = "UNUSED" /\ queued' = [queued EXCEPT ![c] = FALSE]
  BY Zenon DEF Fork3, Return, Goto
<1>u. \A t \in Slot : t # s /\ Forking(t) => arg[t] # c
  BY <1>1 DEF ForkOwns, Forking
<1> HIDE DEF c
<1>5. c # s /\ pid[c] # InitPid /\ pc[c] \in {"new", "exit4", "gone"}
  BY <1>1, <1>2 DEF Inert, OneInit, InertStays
<1>6. DOMAIN queued' = Slot /\ (x = "UNUSED" => ~queued'[c]) /\ \A t \in Slot : t # c => queued'[t] = queued[t]
  BY <1>1, <1>2, <1>4, Zenon DEF TableType
<1>7. state' \in [Slot -> States] /\ state'[c] = x /\ \A t \in Slot : t # c => state'[t] = state[t]
  BY <1>1, <1>2, <1>4 DEF TableType, States
<1>8. /\ pc' \in [Slot -> Pcs] /\ pc'[s] = "check" /\ pc'[c] \in {"new", "exit4", "gone"}
      /\ \A t \in Slot : t # s /\ t # c => pc'[t] = pc[t]
  BY <1>1, <1>2, <1>4, <1>5 DEF TableType, Pcs
<1>9. DOMAIN arg' = Slot /\ \A t \in Slot : t # s => arg'[t] = arg[t]
  BY <1>1, <1>3 DEF TableType
<1>10. TableType'
  BY <1>1, <1>3, <1>6, <1>7, <1>8, <1>9 DEF TableType
<1>11. InertStays'
  BY <1>1, <1>4, <1>6, <1>7, <1>8 DEF InertStays, Inert
<1>12. ForkOwns'
  <2>1. \A t \in Slot : Forking(t)' => Forking(t) /\ t # s /\ t # c /\ pc'[t] = pc[t]
    BY <1>5, <1>8 DEF Forking
  <2>2. \A t \in Slot : Forking(t)' => arg'[t] = arg[t] /\ arg[t] \in Slot /\ state'[arg[t]] = "EMBRYO"
    BY <1>7, <1>9, <1>u, <2>1 DEF ForkOwns
  <2> QED
    BY <1>3, <2>1, <2>2, ForkOwnsKept
<1>13. OneInit'
  <2>1. pid_counter # 0
    BY <1>1 DEF OneInit, Inert
  <2>2. \A t \in Slot : pid[t] = InitPid => state'[t] = state[t]
    BY <1>5, <1>7
  <2> QED
    BY <1>3, <2>1, <2>2 DEF OneInit
<1>14. Parents'
  <2> SUFFICES ASSUME NEW t \in Live', pid[t] # InitPid PROVE GoodParent(t)'
    BY <1>3 DEF Parents
  <2>1. ASSUME NEW q \in Slot, Keeps(q) PROVE Keeps(q)'
    BY <1>2, <1>7, <1>8, <2>1 DEF Keeps, Inert
  <2>2. CASE t = c
    BY <1>1, <1>2, <1>3, <1>5, <1>7, <1>8, <2>2 DEF GoodParent, Keeps
  <2>3. CASE t # c
    <3>1. t \in Live
      BY <1>7, <2>3 DEF Live
    <3>2. GoodParent(t)
      BY <3>1 DEF Parents
    <3> QED
      BY <1>3, <2>1, <3>2 DEF GoodParent
  <2> QED
    BY <2>2, <2>3
<1> QED
  BY <1>10, <1>11, <1>12, <1>13, <1>14

(* exit() gives the children to init, which is there and is never reaped. *)
LEMMA Exit1Keeps ==
    ASSUME FamilyInv, NEW s \in Slot, Exit1(s)
    PROVE  FamilyInv'
<1> USE DEF FamilyInv
<1>1. TableType /\ pc[s] = "exit1" /\ state[s] \notin Inert
  BY DEF InertStays, Exit1, In
<1>2. InitTask \in Slot /\ pid[InitTask] = InitPid
  <2> DEFINE I == {t \in Slot : state[t] # "UNUSED" /\ pid[t] = InitPid}
  <2>1. pid_counter # 0
    BY <1>1 DEF OneInit, Inert
  <2>2. I # {}
    BY <2>1 DEF OneInit
  <2>3. Least(I) \in I
    BY <2>2, LeastFacts
  <2> QED
    BY <2>3 DEF InitTask
<1>3. parent' = Reparented(s) /\ pc' = [pc EXCEPT ![s] = "exit2"] /\ UNCHANGED <<state, pid, queued, arg, pid_counter, born>>
  BY DEF Exit1, Goto
<1>4. /\ parent' \in [Slot -> Slot \union {NoTask}]
      /\ \A t \in Slot : parent'[t] = IF t # s /\ state[t] # "UNUSED" /\ parent[t] = s THEN InitTask ELSE parent[t]
  BY <1>1, <1>2, <1>3 DEF Reparented, TableType
<1>5. pc' \in [Slot -> Pcs] /\ pc'[s] = "exit2" /\ \A t \in Slot : t # s => pc'[t] = pc[t]
  BY <1>1, <1>3 DEF TableType, Pcs, InExit
<1>6. TableType'
  BY <1>1, <1>3, <1>4, <1>5 DEF TableType
<1>7. InertStays'
  BY <1>1, <1>3, <1>5 DEF InertStays
<1>8. ForkOwns'
  <2>1. \A t \in Slot : Forking(t)' => Forking(t) /\ t # s /\ pc'[t] = pc[t]
    BY <1>5 DEF Forking
  <2>2. \A t \in Slot : Forking(t) => arg[t] \in Slot /\ state[arg[t]] = "EMBRYO"
    BY DEF ForkOwns
  <2>3. \A t \in Slot : pc'[t] = "fork3" => parent'[arg[t]] = t
    <3> SUFFICES ASSUME NEW t \in Slot, pc'[t] = "fork3" PROVE parent'[arg[t]] = t
      OBVIOUS
    <3>1. Forking(t) /\ pc[t] = "fork3" /\ t # s
      BY <2>1 DEF Forking
    <3>2. arg[t] \in Slot /\ parent[arg[t]] = t
      BY <2>2, <3>1 DEF ForkOwns
    <3> QED
      BY <1>4, <3>1, <3>2
  <2>4. \A t \in Slot : pc'[t] = "fork3" => born[arg[t]] = pid[t]
    BY <1>1, <1>5 DEF ForkOwns
  <2>5. \A t, u \in Slot : Forking(t)' /\ Forking(u)' /\ arg[t] = arg[u] => t = u
    BY <2>1 DEF ForkOwns
  <2> QED
    BY <1>3, <2>1, <2>2, <2>3, <2>4, <2>5 DEF ForkOwns
<1>9. OneInit'
  <2>1. pid_counter # 0
    BY <1>1 DEF OneInit, Inert
  <2>2. s # NoTask
    BY ProcAssumption DEF Slot, NoTask
  <2>3. \A t \in Slot : pid[t] = InitPid => parent'[t] = NoTask
    BY <1>4, <2>2 DEF OneInit
  <2> QED
    BY <1>3, <2>1, <2>3 DEF OneInit
<1>10. Parents'
  <2> SUFFICES ASSUME NEW t \in Live, pid[t] # InitPid PROVE GoodParent(t)'
    BY <1>3 DEF Parents, Live
  <2>1. GoodParent(t) /\ t \in Slot /\ state[t] # "UNUSED"
    BY DEF Parents, Live
  <2>2. CASE parent[t] = s
    <3>1. parent'[t] = InitTask
      BY <1>4, <2>1, <2>2 DEF GoodParent
    <3> QED
      BY <1>2, <1>3, <3>1 DEF GoodParent
  <2>3. CASE parent[t] # s
    <3>1. parent'[t] = parent[t]
      BY <1>4, <2>1, <2>3
    <3>2. Keeps(parent[t]) => Keeps(parent[t])'
      BY <1>3, <1>5, <2>1, <2>3, <3>1 DEF Keeps, GoodParent
    <3> QED
      BY <1>3, <2>1, <3>1, <3>2 DEF GoodParent, Keeps
  <2> QED
    BY <2>2, <2>3
<1> QED
  BY <1>6, <1>7, <1>8, <1>9, <1>10

(* exit() makes s a zombie once it has no children left that keep it. *)
LEMMA Exit3Keeps ==
    ASSUME FamilyInv, NEW s \in Slot, Exit3(s)
    PROVE  FamilyInv'
<1> USE DEF FamilyInv
<1>1. TableType /\ pc[s] = "exit3" /\ state[s] \notin Inert
  BY DEF InertStays, Exit3, In
<1>2. /\ state' = [state EXCEPT ![s] = "ZOMBIE"] /\ pc' = [pc EXCEPT ![s] = "exit4"]
      /\ UNCHANGED <<pid, parent, arg, pid_counter, born>>
  BY DEF Exit3, Goto
<1>3. queued' = [queued EXCEPT ![s] = FALSE]
  BY DEF Exit3
<1>4. DOMAIN queued' = Slot /\ ~queued'[s] /\ \A t \in Slot : t # s => queued'[t] = queued[t]
  BY <1>1, <1>3, Zenon DEF TableType
<1>5. state' \in [Slot -> States] /\ state'[s] = "ZOMBIE" /\ \A t \in Slot : t # s => state'[t] = state[t]
  BY <1>1, <1>2 DEF TableType, States
<1>6. pc' \in [Slot -> Pcs] /\ pc'[s] = "exit4" /\ \A t \in Slot : t # s => pc'[t] = pc[t]
  BY <1>1, <1>2 DEF TableType, Pcs, InExit
<1>7. TableType'
  BY <1>1, <1>2, <1>4, <1>5, <1>6 DEF TableType
<1>8. InertStays'
  BY <1>4, <1>5, <1>6 DEF InertStays
<1>9. ForkOwns'
  <2>1. \A t \in Slot : Forking(t)' => Forking(t) /\ pc'[t] = pc[t]
    BY <1>6 DEF Forking
  <2>2. \A t \in Slot : Forking(t) => arg[t] \in Slot /\ arg[t] # s /\ state'[arg[t]] = "EMBRYO"
    <3> SUFFICES ASSUME NEW t \in Slot, Forking(t)
                 PROVE  arg[t] \in Slot /\ arg[t] # s /\ state'[arg[t]] = "EMBRYO"
      OBVIOUS
    <3>1. arg[t] \in Slot /\ state[arg[t]] = "EMBRYO"
      BY DEF ForkOwns
    <3>2. arg[t] # s
      BY <1>1, <3>1 DEF Inert
    <3> QED
      BY <1>5, <3>1, <3>2
  <2> QED
    BY <1>2, <2>1, <2>2, ForkOwnsKept
<1>10. OneInit'
  <2>1. pid_counter # 0
    BY <1>1 DEF OneInit, Inert
  <2> QED
    BY <1>2, <1>5, <2>1 DEF OneInit
<1>11. Parents'
  <2>1. Live' = Live
    BY <1>1, <1>5 DEF Live, Inert
  <2>2. ASSUME NEW q \in Slot, Keeps(q) PROVE Keeps(q)'
    BY <1>1, <1>5, <1>6, <2>2 DEF Keeps
  <2> QED
    BY <1>2, <2>1, <2>2 DEF Parents, GoodParent
<1> QED
  BY <1>7, <1>8, <1>9, <1>10, <1>11

(* wait4() frees the slot of a zombie, which is nobody's parent but init's *)
(* and never init itself.                                                  *)
LEMMA ScanKeeps ==
    ASSUME FamilyInv, NEW s \in Slot, Scan(s)
    PROVE  FamilyInv'
<1>1. TableType /\ pc[s] = "scan" /\ state[s] \notin Inert
  BY DEF FamilyInv, InertStays, Scan, In
<1>2. CASE Dead(s) = {}
  <2>1. Goto(s, "check") \/ Goto(s, "doze")
    BY <1>2 DEF Scan, Return
  <2>2. OwnStep(s, s, "check") \/ OwnStep(s, s, "doze")
    BY <1>2, <2>1 DEF Scan, OwnStep
  <2>3. {"check", "doze"} \subseteq Pcs \ {"fork2", "fork3", "exit2", "exit3"}
    BY DEF Pcs
  <2>4. SmallStep(s)
    BY <1>1, <2>2, <2>3, OwnStepSmall
  <2> QED
    BY <2>4, SmallStepKeeps
<1>3. CASE Dead(s) # {}
  <2> USE DEF FamilyInv
  <2> DEFINE c == Least(Dead(s))
  <2>1. c \in Slot /\ c # s /\ state[c] = "ZOMBIE" /\ parent[c] = s
    <3>1. Dead(s) \subseteq Slot
      BY DEF Dead, Kids
    <3>2. c \in Dead(s)
      BY <1>3, <3>1, LeastFacts
    <3> QED
      BY <3>2 DEF Dead, Kids
  <2>2. /\ state' = [state EXCEPT ![c] = "UNUSED"] /\ pc' = [pc EXCEPT ![s] = "check"]
        /\ arg' = [arg EXCEPT ![s] = 0] /\ UNCHANGED <<pid, parent, pid_counter, born>>
    BY <1>3 DEF Scan, Return, Goto
  <2>3. queued' = [queued EXCEPT ![c] = FALSE]
    BY <1>3 DEF Scan
  <2> HIDE DEF c
  <2>4. pid[c] # InitPid
    <3>1. s # NoTask
      BY ProcAssumption DEF Slot, NoTask
    <3> QED
      BY <2>1, <3>1 DEF OneInit
  <2>5. DOMAIN queued' = Slot /\ ~queued'[c] /\ \A t \in Slot : t # c => queued'[t] = queued[t]
    BY <1>1, <2>1, <2>3, Zenon DEF TableType
  <2>6. state' \in [Slot -> States] /\ state'[c] = "UNUSED" /\ \A t \in Slot : t # c => state'[t] = state[t]
    BY <1>1, <2>1, <2>2 DEF TableType, States
  <2>7. pc' \in [Slot -> Pcs] /\ pc'[s] = "check" /\ \A t \in Slot : t # s => pc'[t] = pc[t]
    BY <1>1, <2>2 DEF TableType, Pcs
  <2>8. DOMAIN arg' = Slot /\ \A t \in Slot : t # s => arg'[t] = arg[t]
    BY <1>1, <2>2 DEF TableType
  <2>9. TableType'
    BY <1>1, <2>2, <2>5, <2>6, <2>7, <2>8 DEF TableType
  <2>10. InertStays'
    BY <1>1, <2>1, <2>5, <2>6, <2>7 DEF InertStays, Inert
  <2>11. ForkOwns'
    <3>1. \A t \in Slot : Forking(t)' => Forking(t) /\ t # s /\ pc'[t] = pc[t]
      BY <2>7 DEF Forking
    <3>2. \A t \in Slot : Forking(t)' => arg'[t] = arg[t] /\ arg[t] \in Slot /\ state'[arg[t]] = "EMBRYO"
      BY <2>1, <2>6, <2>8, <3>1 DEF ForkOwns
    <3> QED
      BY <2>2, <3>1, <3>2, ForkOwnsKept
  <2>12. OneInit'
    <3>1. pid_counter # 0
      BY <1>1 DEF OneInit, Inert
    <3>2. \A t \in Slot : pid[t] = InitPid => state'[t] = state[t]
      BY <2>4, <2>6
    <3> QED
      BY <2>2, <3>1, <3>2 DEF OneInit
  <2>13. Parents'
    <3>1. Live' \subseteq Live
      BY <2>6 DEF Live
    <3>2. ASSUME NEW q \in Slot, Keeps(q) PROVE Keeps(q)'
      BY <2>1, <2>6, <2>7, <3>2 DEF Keeps, Inert
    <3> QED
      BY <2>2, <3>1, <3>2 DEF Parents, GoodParent
  <2> QED
    BY <2>9, <2>10, <2>11, <2>12, <2>13
<1> QED
  BY <1>2, <1>3

-----------------------------------------------------------------------------
LEMMA FamilyInit == Init => FamilyInv
<1> SUFFICES ASSUME Init PROVE FamilyInv
  OBVIOUS
<1>1. TableType
  <2>1. DOMAIN queued = Slot
    BY Zenon DEF Init
  <2> QED
    BY <2>1 DEF Init, TableType, States, Pcs
<1>2. InertStays
  <2>1. \A s \in Slot : ~queued[s]
    BY Zenon DEF Init
  <2> QED
    BY <2>1 DEF Init, InertStays
<1>3. ForkOwns /\ OneInit /\ Parents
  BY DEF Init, ForkOwns, Forking, OneInit, Parents, Live, InitPid
<1> QED
  BY <1>1, <1>2, <1>3 DEF FamilyInv

LEMMA FamilyNext == FamilyInv /\ [Next]_vars => FamilyInv'
<1> SUFFICES ASSUME FamilyInv, [Next]_vars PROVE FamilyInv'
  OBVIOUS
<1>1. CASE Spawn
  BY <1>1, SpawnKeeps
<1>2. ASSUME NEW s \in Slot, Dispatch(s) \/ Kernel(s) \/ Program(s) PROVE FamilyInv'
  <2>1. \/ Quiet(s) \/ Fork1(s) \/ Fork2(s) \/ Fork3(s) \/ Exit1(s) \/ Exit3(s) \/ Scan(s)
    BY <1>2, Zenon DEF Kernel, Program, Quiet
  <2>2. Quiet(s) => FamilyInv'
    BY QuietIsSmall, SmallStepKeeps
  <2> QED
    BY <2>1, <2>2, Fork1Keeps, Fork2Keeps, Fork3Keeps, Exit1Keeps, Exit3Keeps, ScanKeeps
<1>3. CASE UNCHANGED vars
  <2>1. UNCHANGED <<state, pid, parent, queued, pc, arg, pid_counter, born>>
    BY <1>3 DEF vars, table
  <2>2. TableType' /\ InertStays'
    BY <2>1 DEF FamilyInv, TableType, InertStays
  <2>3. ForkOwns'
    BY <2>1 DEF FamilyInv, ForkOwns, Forking
  <2>4. OneInit'
    BY <2>1 DEF FamilyInv, OneInit
  <2>5. Parents'
    BY <2>1 DEF FamilyInv, Parents, GoodParent, Keeps, Live
  <2> QED
    BY <2>2, <2>3, <2>4, <2>5 DEF FamilyInv
<1> QED
  BY <1>1, <1>2, <1>3 DEF Next

(* The parent pointer that sys_fork() sets and sys_exit() changes never    *)
(* dangles: no slot that is some process's parent is reaped by             *)
(* sys_waitpid() and used again, however many processes and CPUs there     *)
(* are and wherever the steps of fork, exit and wait4 interleave.          *)
THEOREM ParentsNeverDangle == Spec => []ParentTruth
<1>1. FamilyInv => ParentTruth
  <2> SUFFICES ASSUME FamilyInv, NEW s \in Live, pid[s] # InitPid
               PROVE  parent[s] # NoTask /\ state[parent[s]] # "UNUSED" /\ pid[parent[s]] \in {born[s], InitPid}
    BY DEF ParentTruth
  <2>1. GoodParent(s)
    BY DEF FamilyInv, Parents
  <2>2. parent[s] # NoTask
    BY <2>1, ProcAssumption DEF GoodParent, Slot, NoTask
  <2>3. state[parent[s]] # "UNUSED"
    BY <2>1 DEF GoodParent, FamilyInv, OneInit, Keeps, Inert
  <2> QED
    BY <2>1, <2>2, <2>3 DEF GoodParent
<1> QED
  BY <1>1, FamilyInit, FamilyNext, PTL DEF Spec

=============================================================================
