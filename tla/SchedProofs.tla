---------------------------- MODULE SchedProofs ----------------------------
(***************************************************************************)
(* Proofs about Sched that hold for every number of CPUs, of tasks, every  *)
(* quantum and every longest sleep.                                        *)
(***************************************************************************)
EXTENDS SchedQueueProofs

-----------------------------------------------------------------------------
(* Any number of CPUs                                                      *)

LEMMA QueuesUntouched ==
    ASSUME QueueIntegrity, UNCHANGED <<rq, rq_cpu>>
    PROVE  QueueIntegrity'
BY DEF QueueIntegrity

LEMMA SafeInit == Init => SafeInv
<1> SUFFICES ASSUME Init PROVE SafeInv
  OBVIOUS
<1> USE SchedAssumption
<1>1. TypeOK
  <2>1. rq \in [CPU -> Seq(User)]
    <3>1. <<1>> \in Seq(User) /\ << >> \in Seq(User)
      BY DEF User
    <3> QED BY <3>1 DEF Init
  <2>2. state \in [Task -> States]
    BY DEF Init, States
  <2>3. pc \in [CPU -> Pcs] /\ ret \in [Task -> {"user", "loop", "idle", "ns_test"}]
    BY DEF Init, Pcs, Interruptible
  <2>4. cpu_id \in [Task -> CPU \cup {NoCpu}]
    BY DEF Init, Task, User, CPU
  <2>5. cur \in [CPU -> Task] /\ stk \in [CPU -> Task]
    BY Ids DEF Init
  <2>6. rq_cpu \in [Task -> CPU \cup {NoCpu}]
    BY Ids DEF Init
  <2>7. /\ quantum \in [User -> 0 .. Quantum] /\ left \in [User -> 0 .. MaxSleep]
        /\ need \in [CPU -> BOOLEAN] /\ ipi \in [CPU -> BOOLEAN]
        /\ reg \in [CPU -> 0 .. NUser + NCpu]
    BY DEF Init, NoTask
  <2> QED BY <2>1, <2>2, <2>3, <2>4, <2>5, <2>6, <2>7 DEF TypeOK
<1>2. QueueIntegrity
  <2>1. \A c \in CPU : rq[c] = IF c = BSP THEN <<1>> ELSE << >>
    BY DEF Init
  <2>2. \A t \in Task : rq_cpu[t] = IF t = 1 THEN BSP ELSE NoCpu
    BY DEF Init
  <2>3. 1 \in Task
    BY DEF Task
  <2> QED BY <2>1, <2>2, <2>3, Ids DEF QueueIntegrity
<1>3. RegOK
  BY Ids DEF Init, RegOK, User, Idle
<1> QED BY <1>1, <1>2, <1>3 DEF SafeInv

(* Every step of every CPU preserves the invariant.                        *)
LEMMA SafeStep ==
    ASSUME SafeInv, [Next]_vars
    PROVE  SafeInv'
<1> TypeOK /\ QueueIntegrity /\ RegOK
  BY DEF SafeInv
<1>t. /\ pc \in [CPU -> Pcs] /\ stk \in [CPU -> Task]
      /\ need \in [CPU -> BOOLEAN] /\ ipi \in [CPU -> BOOLEAN]
      /\ reg \in [CPU -> 0 .. NUser + NCpu] /\ cur \in [CPU -> Task]
      /\ \A t \in Task : ret[t] \in Pcs
  BY DEF TypeOK, Pcs, Interruptible, InSleep
<1> QueueTypes
  BY DEF QueueTypes, TypeOK
<1>0. CASE UNCHANGED vars
  BY <1>0 DEF vars, taskVars, cpuVars, SafeInv, TypeOK, QueueIntegrity, RegOK
<1> SUFFICES ASSUME Next PROVE SafeInv'
  BY <1>0
<1>a. /\ \A t \in Task \cup {NoTask} : t \in 0 .. NUser + NCpu
      /\ NUser + 1 \in 0 .. NUser + NCpu
      /\ \A u \in User : u + 1 \in 0 .. NUser + NCpu /\ u + 1 <= NUser + 1
  BY SchedAssumption DEF Task, User, NoTask
<1> PICK c \in CPU : Kernel(c) \/ Tick(c) \/ RescheduleIpi(c) \/ Syscall(c)
  BY DEF Next
<1>1. CASE IdleLoop(c)
  <2>1. TypeOK'
    BY <1>1 DEF TypeOK, IdleLoop, taskVars, States, Pcs, Interruptible, InSchedule, InTick, InSleep
  <2>2. QueueIntegrity'
    BY <1>1, QueuesUntouched DEF IdleLoop, taskVars
  <2>3. RegOK'
    BY <1>1 DEF RegOK, TypeOK, IdleLoop, taskVars, Interruptible
  <2> QED BY <2>1, <2>2, <2>3 DEF SafeInv
<1>2. CASE SchedPick(c)
  <2>1. TypeOK'
    <3>1. PickNext(c) \in User \cup {NoTask}
      BY DEF TypeOK, PickNext
    <3> QED BY <1>2, <1>a, <3>1, Ids, Zenon DEF TypeOK, SchedPick, taskVars, Pcs, InSchedule
  <2>2. QueueIntegrity'
    BY <1>2, QueuesUntouched DEF SchedPick, PickNext, NoTask, taskVars
  <2>3. RegOK'
    BY <1>2 DEF RegOK, TypeOK, SchedPick, PickNext, NoTask, taskVars, Interruptible
  <2> QED BY <2>1, <2>2, <2>3 DEF SafeInv
<1>3. CASE SchedStay(c)
  <2>1. TypeOK'
    BY <1>3, <1>t, SchedAssumption DEF TypeOK, SchedStay, RefreshQuantum
  <2>2. QueueIntegrity'
    BY <1>3, QueuesUntouched DEF SchedStay, RefreshQuantum, taskVars
  <2>3. RegOK'
    BY <1>3, ZenonT(30) DEF RegOK, TypeOK, SchedStay, RefreshQuantum, taskVars, Interruptible
  <2> QED BY <2>1, <2>2, <2>3 DEF SafeInv
<1>4. CASE SchedToIdle(c)
  <2>1. TypeOK'
    <3>1. pc' \in [CPU -> Pcs]
      BY <1>4, <1>t DEF SchedToIdle, Pcs, InSchedule
    <3>2. Idle(c) \in 0 .. NUser + NCpu
      BY <1>a, Ids
    <3>3. reg' \in [CPU -> 0 .. NUser + NCpu]
      BY <1>4, <1>t, <3>2 DEF SchedToIdle
    <3> QED BY <1>4, <3>1, <3>3, Zenon DEF TypeOK, SchedToIdle, taskVars
  <2>2. QueueIntegrity'
    BY <1>4, QueuesUntouched DEF SchedToIdle, taskVars
  <2>3. RegOK'
    BY <1>4 DEF RegOK, TypeOK, SchedToIdle, taskVars, Interruptible
  <2> QED BY <2>1, <2>2, <2>3 DEF SafeInv
<1>5. CASE SchedOther(c)
  <2>1. TypeOK'
    BY <1>5 DEF TypeOK, SchedOther, taskVars, States, Pcs, Interruptible, InSchedule, InTick, InSleep
  <2>2. QueueIntegrity'
    BY <1>5, QueuesUntouched DEF SchedOther, taskVars
  <2>3. RegOK'
    BY <1>5 DEF RegOK, TypeOK, SchedOther, taskVars, Interruptible
  <2> QED BY <2>1, <2>2, <2>3 DEF SafeInv
<1>6. CASE Swtch(c)
  <2>1. TypeOK'
    <3>1. /\ pc' \in [CPU -> Pcs]
          /\ stk' \in [CPU -> Task]
      <4>1. ret[cur[c]] \in Pcs /\ "ub" \in Pcs
        BY <1>t DEF Pcs
      <4>2. \/ pc' = [pc EXCEPT ![c] = "ub"] /\ stk' = stk
            \/ pc' = [pc EXCEPT ![c] = ret[cur[c]]] /\ stk' = [stk EXCEPT ![c] = cur[c]]
        BY <1>6, Zenon DEF Swtch
      <4> QED BY <1>t, <4>1, <4>2
    <3> QED BY <1>6, <3>1 DEF TypeOK, Swtch, taskVars
  <2>2. QueueIntegrity'
    BY <1>6, QueuesUntouched DEF Swtch, taskVars
  <2>3. RegOK'
    <3>1. /\ UNCHANGED <<cur, reg, rq_cpu>>
          /\ \A d \in CPU \ {c} : pc'[d] = pc[d]
          /\ pc'[c] \in {"user", "loop", "idle", "ns_test", "ub"}
      BY <1>6 DEF Swtch, TypeOK, taskVars
    <3> QED BY <3>1 DEF RegOK
  <2> QED BY <2>1, <2>2, <2>3 DEF SafeInv
<1>7. CASE Halt(c)
  <2>1. TypeOK'
    BY <1>7 DEF TypeOK, Halt, taskVars, States, Pcs, Interruptible, InSchedule, InTick, InSleep
  <2>2. QueueIntegrity'
    BY <1>7, QueuesUntouched DEF Halt, taskVars
  <2>3. RegOK'
    BY <1>7 DEF RegOK, TypeOK, Halt, taskVars, Interruptible
  <2> QED BY <2>1, <2>2, <2>3 DEF SafeInv
<1>8. CASE Tick(c)
  <2>1. TypeOK'
    <3>1. 1 \in 0 .. NUser + NCpu /\ Interrupted(c) \in {"user", "loop", "idle", "ns_test"}
      BY <1>8, SchedAssumption DEF Tick, Interrupted, Interruptible
    <3>2. left' \in [User -> 0 .. MaxSleep]
      BY <1>8, SchedAssumption DEF TypeOK, Tick
    <3> QED BY <1>8, <3>1, <3>2 DEF TypeOK, Tick, Pcs, InTick
  <2>2. QueueIntegrity'
    BY <1>8, QueuesUntouched DEF Tick, Interrupted, taskVars
  <2>3. RegOK'
    BY <1>8, SchedAssumption DEF RegOK, TypeOK, Tick
  <2> QED BY <2>1, <2>2, <2>3 DEF SafeInv
<1>9. CASE TickCheck(c)
  <2>0. \/ /\ pc' = [pc EXCEPT ![c] = "tk_end"]
           /\ reg' = reg
        \/ /\ pc' = [pc EXCEPT ![c] = "tk_store"]
           /\ reg' = reg
           /\ reg[c] \in User
        \/ /\ reg' = [reg EXCEPT ![c] = reg[c] + 1]
           /\ pc' = pc
           /\ reg[c] \in User
    <3>1. CASE reg[c] \notin User
      BY <3>1, <1>9 DEF TickCheck
    <3>2. CASE reg[c] \in User /\ state[reg[c]] = "SLEEPING" /\ left[reg[c]] = 0
      BY <3>2, <1>9 DEF TickCheck
    <3>3. CASE reg[c] \in User /\ ~(state[reg[c]] = "SLEEPING" /\ left[reg[c]] = 0)
      BY <3>3, <1>9 DEF TickCheck
    <3> QED BY <3>1, <3>2, <3>3
  <2>1. TypeOK'
    <3>1. /\ pc' \in [CPU -> Pcs]
          /\ reg' \in [CPU -> 0 .. NUser + NCpu]
      <4>1. "tk_end" \in Pcs /\ "tk_store" \in Pcs
        BY DEF Pcs, InTick
      <4> QED BY <2>0, <1>a, <1>t, <4>1
    <3> QED BY <1>9, <3>1 DEF TypeOK, TickCheck, taskVars
  <2>2. QueueIntegrity'
    BY <1>9, QueuesUntouched DEF TickCheck, taskVars
  <2>3. RegOK'
    <3>1. /\ UNCHANGED <<cur, rq_cpu>>
          /\ \A d \in CPU \ {c} : pc'[d] = pc[d] /\ reg'[d] = reg[d]
          /\ \/ pc'[c] = "tk_end"
             \/ pc'[c] = "tk_store" /\ reg'[c] \in User
             \/ pc'[c] = "tk_check" /\ reg'[c] <= NUser + 1
      <4>1. UNCHANGED <<cur, rq_cpu>> /\ pc[c] = "tk_check"
        BY <1>9 DEF TickCheck, taskVars
      <4> QED BY <2>0, <1>a, <1>t, <4>1
    <3> QED BY <3>1 DEF RegOK
  <2> QED BY <2>1, <2>2, <2>3 DEF SafeInv
<1>10. CASE TickStore(c)
  <2>1. TypeOK'
    BY <1>10, Zenon DEF TypeOK, TickStore, taskVars, States, Pcs, Interruptible, InSchedule, InTick, InSleep
  <2>2. QueueIntegrity'
    BY <1>10, QueuesUntouched DEF TickStore, taskVars
  <2>3. RegOK'
    BY <1>10 DEF RegOK, TypeOK, TickStore, taskVars, Interruptible
  <2> QED BY <2>1, <2>2, <2>3 DEF SafeInv
<1>11. CASE TickEnd(c)
  <2>1. TypeOK'
    <3>1. /\ pc' \in [CPU -> Pcs]
          /\ need' \in [CPU -> BOOLEAN]
      <4>1. PICK flag \in BOOLEAN : MaybePreempt(c, flag)
        BY <1>11, Zenon DEF TickEnd
      <4>2. ret[cur[c]] \in Pcs /\ "pick" \in Pcs
        BY DEF TypeOK, Pcs, Interruptible, InSleep, InSchedule
      <4>3. \/ /\ need' = [need EXCEPT ![c] = FALSE]
               /\ pc' = [pc EXCEPT ![c] = "pick"]
            \/ /\ need' = [need EXCEPT ![c] = flag]
               /\ pc' = [pc EXCEPT ![c] = ret[cur[c]]]
        BY <4>1, Zenon DEF MaybePreempt
      <4> QED BY <4>2, <4>3, <1>t, ZenonT(30)
    <3>2. quantum' \in [User -> 0 .. Quantum]
      BY <1>11, SchedAssumption DEF TypeOK, TickEnd
    <3> QED BY <1>11, <3>1, <3>2 DEF TypeOK, TickEnd
  <2>2. QueueIntegrity'
    BY <1>11, QueuesUntouched DEF TickEnd, MaybePreempt, taskVars
  <2>3. RegOK'
    <3>1. /\ UNCHANGED <<cur, reg, rq_cpu>>
          /\ \A d \in CPU \ {c} : pc'[d] = pc[d]
          /\ pc'[c] \in {"user", "loop", "idle", "ns_test", "pick"}
      BY <1>11 DEF TickEnd, MaybePreempt, TypeOK
    <3> QED BY <3>1 DEF RegOK
  <2> QED BY <2>1, <2>2, <2>3 DEF SafeInv
<1>12. CASE RescheduleIpi(c)
  <2>1. TypeOK'
    <3>1. /\ pc' \in [CPU -> Pcs]
          /\ need' \in [CPU -> BOOLEAN]
          /\ ipi' \in [CPU -> BOOLEAN]
          /\ ret' \in [Task -> {"user", "loop", "idle", "ns_test"}]
      <4>1. /\ Interrupted(c) \in Pcs
            /\ "pick" \in Pcs
        BY DEF TypeOK, Interrupted, Pcs, Interruptible, InSchedule
      <4>2. /\ ipi' = [ipi EXCEPT ![c] = FALSE]
            /\ \/ /\ need' = [need EXCEPT ![c] = FALSE]
                  /\ ret' = [ret EXCEPT ![cur[c]] = "user"]
                  /\ pc' = [pc EXCEPT ![c] = "pick"]
               \/ /\ need' = [need EXCEPT ![c] = TRUE]
                  /\ pc' = [pc EXCEPT ![c] = Interrupted(c)]
                  /\ ret' = ret
        BY <1>12, Zenon DEF RescheduleIpi
      <4>3. ret \in [Task -> {"user", "loop", "idle", "ns_test"}]
        BY DEF TypeOK
      <4>4. ret' \in [Task -> {"user", "loop", "idle", "ns_test"}]
        BY <4>2, <4>3
      <4>5. pc' \in [CPU -> Pcs]
        BY <1>t, <4>1, <4>2
      <4>6. need' \in [CPU -> BOOLEAN] /\ ipi' \in [CPU -> BOOLEAN]
        BY <1>t, <4>2, Zenon
      <4> QED BY <4>4, <4>5, <4>6
    <3> QED BY <1>12, <3>1 DEF TypeOK, RescheduleIpi
  <2>2. QueueIntegrity'
    BY <1>12, QueuesUntouched DEF RescheduleIpi, Interrupted, taskVars
  <2>3. RegOK'
    BY <1>12 DEF RegOK, TypeOK, RescheduleIpi, Interrupted, taskVars, Interruptible
  <2> QED BY <2>1, <2>2, <2>3 DEF SafeInv
<1>13. CASE \E k \in 1 .. MaxSleep : Nanosleep(c, k)
  <2>1. TypeOK'
    <3>1. left' \in [User -> 0 .. MaxSleep]
      <4>1. PICK k \in 1 .. MaxSleep : left' = [left EXCEPT ![cur[c]] = k]
        BY <1>13, Zenon DEF Nanosleep
      <4>2. k \in 0 .. MaxSleep
        OBVIOUS
      <4> QED BY <4>1, <4>2, Zenon DEF TypeOK
    <3> QED BY <1>13, <3>1 DEF TypeOK, Nanosleep, Pcs, InSleep
  <2>2. QueueIntegrity'
    BY <1>13, QueuesUntouched DEF Nanosleep, taskVars
  <2>3. RegOK'
    BY <1>13 DEF RegOK, TypeOK, Nanosleep, taskVars, Interruptible
  <2> QED BY <2>1, <2>2, <2>3 DEF SafeInv
<1>14. CASE NanosleepTest(c)
  <2>1. TypeOK'
    BY <1>14 DEF TypeOK, NanosleepTest, taskVars, States, Pcs, Interruptible, InSchedule, InTick, InSleep
  <2>2. QueueIntegrity'
    BY <1>14, QueuesUntouched DEF NanosleepTest, taskVars
  <2>3. RegOK'
    BY <1>14 DEF RegOK, TypeOK, NanosleepTest, taskVars, Interruptible
  <2> QED BY <2>1, <2>2, <2>3 DEF SafeInv
<1>15. CASE NanosleepStore(c)
  <2>1. TypeOK'
    BY <1>15 DEF TypeOK, NanosleepStore, taskVars, States, Pcs, Interruptible, InSchedule, InTick, InSleep
  <2>2. QueueIntegrity'
    BY <1>15, QueuesUntouched DEF NanosleepStore, taskVars
  <2>3. RegOK'
    BY <1>15 DEF RegOK, TypeOK, NanosleepStore, taskVars, Interruptible
  <2> QED BY <2>1, <2>2, <2>3 DEF SafeInv
<1>16. CASE SchedRequeue(c)
  <2> DEFINE t == cur[c]
  <2>0. /\ QueueTypes'
        /\ QueueIntegrity'
        /\ state' \in [Task -> States]
        /\ \A d \in CPU : rq_cpu'[Idle(d)] = NoCpu
    <3>1. CASE state[t] = "RUNNING" /\ t \in User
      <4>1. RunqueueAdd(c, t) /\ state' = [state EXCEPT ![t] = "RUNNABLE"]
        BY <3>1, <1>16 DEF SchedRequeue
      <4>2. state' \in [Task -> States]
        BY <4>1 DEF TypeOK, States
      <4>3. /\ QueueTypes'
            /\ QueueIntegrity'
            /\ \A u \in Task : u # t => rq_cpu'[u] = rq_cpu[u]
        BY <4>1, <3>1, AddFacts
      <4> QED BY <4>2, <4>3, <3>1, Ids DEF RegOK
    <3>2. CASE ~(state[t] = "RUNNING" /\ t \in User)
      <4>1. UNCHANGED <<state, rq, rq_cpu, ipi>>
        BY <3>2, <1>16 DEF SchedRequeue
      <4> QED BY <4>1, QueuesUntouched DEF QueueTypes, TypeOK, RegOK
    <3> QED BY <3>1, <3>2
  <2>1. TypeOK'
    BY <1>16, <2>0, ZenonT(30) DEF TypeOK, QueueTypes, SchedRequeue, Pcs, InSchedule
  <2>3. RegOK'
    BY <1>16, <2>0 DEF RegOK, TypeOK, SchedRequeue
  <2> QED BY <2>0, <2>1, <2>3 DEF SafeInv
<1>17. CASE TickAdd(c)
  <2> DEFINE t == reg[c]
  <2>0. t \in User /\ RunqueueAdd(c, t)
    BY <1>17 DEF TickAdd, RegOK
  <2>1. /\ QueueTypes'
        /\ QueueIntegrity'
        /\ \A u \in Task : u # t => rq_cpu'[u] = rq_cpu[u]
    BY <2>0, AddFacts
  <2>2. TypeOK'
    BY <1>17, <1>a, <2>0, <2>1, Zenon DEF TypeOK, QueueTypes, TickAdd, Pcs, InTick
  <2>3. RegOK'
    <3>1. /\ UNCHANGED cur
          /\ \A d \in CPU \ {c} : pc'[d] = pc[d] /\ reg'[d] = reg[d]
          /\ pc'[c] = "tk_check"
          /\ reg'[c] = t + 1
      BY <1>17, <1>t DEF TickAdd
    <3>2. \A d \in CPU : rq_cpu'[Idle(d)] = NoCpu
      BY <2>0, <2>1, Ids DEF RegOK
    <3> QED BY <1>a, <2>0, <3>1, <3>2 DEF RegOK
  <2> QED BY <2>1, <2>2, <2>3 DEF SafeInv
<1>18. CASE Fork(c)
  <2>0. PICK u \in User : /\ RunqueueAdd(c, u)
                          /\ state' = [state EXCEPT ![u] = "RUNNABLE"]
                          /\ cpu_id' = [cpu_id EXCEPT ![u] = NoCpu]
                          /\ ret' = [ret EXCEPT ![u] = "user"]
                          /\ UNCHANGED <<quantum, left, cur, need, pc, reg, stk>>
    <3> DEFINE free == {u \in User : state[u] = "UNUSED"}
               first == CHOOSE v \in free : \A w \in free : v <= w
    <3>1. free # {} /\ free \in SUBSET Nat
      BY <1>18 DEF Fork, User
    <3>2. first \in free
      BY <3>1, LeastElement, Zenon
    <3> HIDE DEF first
    <3>3. first \in User
      BY <3>2
    <3> QED BY <3>3, <1>18, Zenon DEF Fork, first
  <2>1. /\ QueueTypes'
        /\ QueueIntegrity'
        /\ \A v \in Task : v # u => rq_cpu'[v] = rq_cpu[v]
    BY <2>0, AddFacts
  <2>2. TypeOK'
    BY <2>0, <2>1, Zenon DEF TypeOK, QueueTypes, States
  <2>3. RegOK'
    BY <2>0, <2>1, Ids DEF RegOK, TypeOK
  <2> QED BY <2>1, <2>2, <2>3 DEF SafeInv
<1>19. CASE SchedSelf(c)
  <2> DEFINE t == cur[c]
  <2>0. t \in Task /\ RunqueueRemove(t)
    BY <1>19, <1>t DEF SchedSelf
  <2>1. /\ rq' \in [CPU -> Seq(User)]
        /\ rq_cpu' \in [Task -> CPU \cup {NoCpu}]
        /\ QueueIntegrity'
        /\ rq_cpu' = [rq_cpu EXCEPT ![t] = NoCpu]
    BY <2>0, RemoveFacts
  <2>2. TypeOK'
    <3>1. quantum' \in [User -> 0 .. Quantum]
      <4>1. \/ quantum' = quantum
            \/ t \in User /\ quantum' = [quantum EXCEPT ![t] = Quantum]
        BY <1>19, Zenon DEF SchedSelf, RefreshQuantum
      <4>2. Quantum \in 0 .. Quantum /\ quantum \in [User -> 0 .. Quantum]
        BY SchedAssumption DEF TypeOK
      <4> HIDE DEF t
      <4> QED BY <4>1, <4>2
    <3>2. pc' \in [CPU -> Pcs]
      BY <1>19, <1>t, <2>0 DEF SchedSelf
    <3>3. UNCHANGED <<state, cpu_id, left, ret, cur, need, ipi, reg, stk>>
      BY <1>19 DEF SchedSelf
    <3> QED BY <2>1, <3>1, <3>2, <3>3, Zenon DEF TypeOK
  <2>3. RegOK'
    <3>1. /\ UNCHANGED <<cur, reg>>
          /\ \A d \in CPU \ {c} : pc'[d] = pc[d]
          /\ pc'[c] = ret[t]
      BY <1>19, <1>t DEF SchedSelf
    <3>2. \A d \in CPU : rq_cpu'[Idle(d)] = NoCpu
      <4>1. \A d \in CPU : Idle(d) \in Task /\ rq_cpu[Idle(d)] = NoCpu
        BY Ids DEF RegOK
      <4>2. rq_cpu \in [Task -> CPU \cup {NoCpu}]
        BY DEF TypeOK
      <4> QED BY <2>1, <4>1, <4>2
    <3>3. ret[t] \in {"user", "loop", "idle", "ns_test"}
      BY <2>0 DEF TypeOK
    <3> HIDE DEF t
    <3> QED BY <3>1, <3>2, <3>3 DEF RegOK
  <2> QED BY <2>1, <2>2, <2>3 DEF SafeInv
<1>20. CASE SwitchTo(c)
  <2> DEFINE t == reg[c]
  <2>0. t \in Task /\ RunqueueRemove(t)
    BY <1>20, Ids DEF SwitchTo, RegOK, TypeOK
  <2>1. /\ rq' \in [CPU -> Seq(User)]
        /\ rq_cpu' \in [Task -> CPU \cup {NoCpu}]
        /\ QueueIntegrity'
        /\ rq_cpu' = [rq_cpu EXCEPT ![t] = NoCpu]
    BY <2>0, RemoveFacts
  <2>2. TypeOK'
    <3>1. cpu_id' \in [Task -> CPU \cup {NoCpu}]
      BY <1>20, ZenonT(30) DEF SwitchTo, TypeOK
    <3>2. quantum' \in [User -> 0 .. Quantum]
      BY <1>20, SchedAssumption DEF SwitchTo, TypeOK, RefreshQuantum
    <3>3. state' \in [Task -> States] /\ pc' \in [CPU -> Pcs] /\ cur' \in [CPU -> Task]
      <4>1. state' = [state EXCEPT ![t] = "RUNNING"] /\ pc' = [pc EXCEPT ![c] = "swtch"] /\ cur' = [cur EXCEPT ![c] = t]
        BY <1>20 DEF SwitchTo
      <4>2. "RUNNING" \in States /\ "swtch" \in Pcs /\ state \in [Task -> States]
        BY DEF TypeOK, States, Pcs, InSchedule
      <4> HIDE DEF t
      <4> QED BY <1>t, <2>0, <4>1, <4>2
    <3> QED BY <1>20, <2>1, <3>1, <3>2, <3>3, Zenon DEF TypeOK, SwitchTo
  <2>3. RegOK'
    <3>1. /\ UNCHANGED reg
          /\ \A d \in CPU \ {c} : pc'[d] = pc[d] /\ cur'[d] = cur[d]
          /\ pc'[c] = "swtch" /\ cur'[c] = t
      BY <1>20, <1>t DEF SwitchTo
    <3>2. \A d \in CPU : rq_cpu'[Idle(d)] = NoCpu
      <4>1. \A d \in CPU : Idle(d) \in Task /\ rq_cpu[Idle(d)] = NoCpu
        BY Ids DEF RegOK
      <4>2. rq_cpu \in [Task -> CPU \cup {NoCpu}]
        BY DEF TypeOK
      <4> QED BY <2>1, <4>1, <4>2
    <3>3. t \in User \cup {Idle(c)}
      BY <1>20 DEF SwitchTo, RegOK
    <3> HIDE DEF t
    <3> QED BY <3>1, <3>2, <3>3 DEF RegOK
  <2> QED BY <2>1, <2>2, <2>3 DEF SafeInv
<1>21. CASE NanosleepDequeue(c)
  <2> DEFINE t == cur[c]
  <2>0. t \in Task /\ RunqueueRemove(t)
    BY <1>21, <1>t DEF NanosleepDequeue
  <2>1. /\ rq' \in [CPU -> Seq(User)]
        /\ rq_cpu' \in [Task -> CPU \cup {NoCpu}]
        /\ QueueIntegrity'
        /\ rq_cpu' = [rq_cpu EXCEPT ![t] = NoCpu]
    BY <2>0, RemoveFacts
  <2>2. TypeOK'
    <3>1. ret' \in [Task -> {"user", "loop", "idle", "ns_test"}]
      BY <1>21, <2>0 DEF TypeOK, NanosleepDequeue
    <3>2. pc' \in [CPU -> Pcs]
      BY <1>21, <1>t DEF NanosleepDequeue, Pcs, InSchedule
    <3>3. UNCHANGED <<state, cpu_id, quantum, left, cur, need, ipi, reg, stk>>
      BY <1>21 DEF NanosleepDequeue
    <3> QED BY <2>1, <3>1, <3>2, <3>3, Zenon DEF TypeOK
  <2>3. RegOK'
    <3>1. /\ UNCHANGED <<cur, reg>>
          /\ \A d \in CPU \ {c} : pc'[d] = pc[d]
          /\ pc'[c] = "pick"
      BY <1>21, <1>t DEF NanosleepDequeue
    <3>2. \A d \in CPU : rq_cpu'[Idle(d)] = NoCpu
      <4>1. \A d \in CPU : Idle(d) \in Task /\ rq_cpu[Idle(d)] = NoCpu
        BY Ids DEF RegOK
      <4>2. rq_cpu \in [Task -> CPU \cup {NoCpu}]
        BY DEF TypeOK
      <4> QED BY <2>1, <4>1, <4>2
    <3> QED BY <3>1, <3>2 DEF RegOK
  <2> QED BY <2>1, <2>2, <2>3 DEF SafeInv
<1> QED
  BY <1>1, <1>2, <1>3, <1>4, <1>5, <1>6, <1>7, <1>8, <1>9, <1>10, <1>11, <1>12, <1>13, <1>14, <1>15, <1>16, <1>17, <1>18, <1>19, <1>20, <1>21
  DEF Kernel, Schedule, Syscall

(* sched.c's run queues are sound on any number of CPUs: whatever the      *)
(* interleaving of schedule(), sched_tick(), fork and nanosleep on all of  *)
(* them, a task is in the queue its rq_cpu names, once, and in no other.   *)
THEOREM QueuesSound == Spec => []QueueIntegrity
<1>1. Init => SafeInv
  BY SafeInit
<1>2. SafeInv /\ [Next]_vars => SafeInv'
  BY SafeStep
<1>3. SafeInv => QueueIntegrity
  BY DEF SafeInv
<1> QED BY <1>1, <1>2, <1>3, PTL DEF Spec

(* The variables of the scheduler keep their types on any number of CPUs.  *)
THEOREM TypeCorrect == Spec => []TypeOK
<1>1. Init => SafeInv
  BY SafeInit
<1>2. SafeInv /\ [Next]_vars => SafeInv'
  BY SafeStep
<1>3. SafeInv => TypeOK
  BY DEF SafeInv
<1> QED BY <1>1, <1>2, <1>3, PTL DEF Spec

(* No idle task is ever queued and no CPU runs another CPU's idle task.    *)
THEOREM IdleHome == Spec => []IdleStaysHome
<1>1. Init => SafeInv
  BY SafeInit
<1>2. SafeInv /\ [Next]_vars => SafeInv'
  BY SafeStep
<1>3. SafeInv => IdleStaysHome
  BY Ids DEF SafeInv, RegOK, IdleStaysHome
<1> QED BY <1>1, <1>2, <1>3, PTL DEF Spec
=============================================================================
