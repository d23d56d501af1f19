--------------------------- MODULE SchedUpProofs ---------------------------
(***************************************************************************)
(* Proofs about Sched on one CPU: what the comments of sched.c promise     *)
(* holds there, for any number of tasks, any quantum and any sleep.        *)
(***************************************************************************)
EXTENDS SchedProofs

-----------------------------------------------------------------------------
(* One CPU                                                                 *)

LEMMA OneCpu ==
    ASSUME NCpu = 1
    PROVE  CPU = {BSP}
BY DEF CPU, BSP

LEMMA UpInit ==
    ASSUME NCpu = 1, Init
    PROVE  UpInv
<1>1. SafeInv
  BY SafeInit
<1>2. CurrentAt
  BY Ids DEF Init, CurrentAt, InSleep, InTick
<1>3. HandAt
  BY Ids DEF Init, HandAt
<1>4. ReturnAt
  BY Ids DEF Init, ReturnAt
<1>5. Placed
  BY Ids DEF Init, Placed, BSP
<1> QED BY <1>1, <1>2, <1>3, <1>4, <1>5 DEF UpInv

(* On one CPU every step preserves the stronger invariant.  Each case      *)
(* first says what the action does to the variables the invariant reads.   *)
LEMMA UpStep ==
    ASSUME NCpu = 1, UpInv, [Next]_vars
    PROVE  UpInv'
<1>s. SafeInv /\ SafeInv'
  BY SafeStep DEF UpInv
<1> TypeOK /\ QueueIntegrity /\ RegOK
  BY <1>s DEF SafeInv
<1> CurrentAt /\ HandAt /\ ReturnAt /\ Placed
  BY DEF UpInv
<1> QueueTypes
  BY DEF QueueTypes, TypeOK
<1>b. CPU = {BSP} /\ BSP \in CPU
  BY OneCpu
<1>i. /\ User \subseteq Task
      /\ Idle(BSP) \in Task
      /\ Idle(BSP) \notin User
      /\ NoTask \notin Task
      /\ NoCpu # BSP
      /\ cur[BSP] \in User \/ cur[BSP] = Idle(BSP)
      /\ cur[BSP] \in Task
  BY Ids, <1>b DEF RegOK
<1>t. /\ pc \in [CPU -> Pcs]
      /\ cur \in [CPU -> Task]
      /\ reg \in [CPU -> 0 .. NUser + NCpu]
      /\ state \in [Task -> States]
      /\ rq_cpu \in [Task -> CPU \cup {NoCpu}]
      /\ ret \in [Task -> {"user", "loop", "idle", "ns_test"}]
  BY DEF TypeOK
(* BeingAdded on one CPU.                                                  *)
<1>g. /\ \A u \in User : BeingAdded(u) <=> pc[BSP] = "tk_add" /\ reg[BSP] = u
      /\ \A u \in User : BeingAdded(u)' <=> pc'[BSP] = "tk_add" /\ reg'[BSP] = u
  BY <1>b DEF BeingAdded
(* What pick_next() returns is queued here, so it waits for the CPU.       *)
<1>h. ASSUME PickNext(BSP) # NoTask
      PROVE  /\ PickNext(BSP) \in User
             /\ rq_cpu[PickNext(BSP)] = BSP
             /\ state[PickNext(BSP)] = "RUNNABLE"
  <2>1. rq[BSP] \in Seq(User) /\ rq[BSP] # << >> /\ PickNext(BSP) = Head(rq[BSP])
    BY <1>h, <1>b DEF PickNext, TypeOK
  <2>2. 1 \in 1 .. Len(rq[BSP]) /\ PickNext(BSP) = rq[BSP][1] /\ rq[BSP][1] \in User
    BY <2>1
  <2>3. rq_cpu[PickNext(BSP)] = BSP
    BY <2>2, <1>b DEF QueueIntegrity
  <2> QED BY <2>2, <2>3, <1>i DEF Placed
<1> SUFFICES CurrentAt' /\ HandAt' /\ ReturnAt' /\ Placed'
  BY <1>s DEF UpInv
<1>0. CASE UNCHANGED vars
  <2>0. UNCHANGED <<state, rq_cpu, ret, rq, cur, pc, reg>>
    BY <1>0 DEF vars, taskVars, cpuVars
  <2>1. CurrentAt' /\ ReturnAt'
    BY <2>0 DEF CurrentAt, ReturnAt
  <2>2. HandAt'
    BY <2>0 DEF HandAt, PickNext
  <2>3. Placed'
    BY <2>0, <1>g DEF Placed
  <2> QED BY <2>1, <2>2, <2>3
<1> SUFFICES ASSUME Next PROVE CurrentAt' /\ HandAt' /\ ReturnAt' /\ Placed'
  BY <1>0
<1>k. Kernel(BSP) \/ Tick(BSP) \/ RescheduleIpi(BSP) \/ Syscall(BSP)
  BY <1>b DEF Next
<1>1. CASE IdleLoop(BSP)
  <2>0. /\ pc[BSP] = "loop" /\ pc'[BSP] = "pick"
        /\ ret' = [ret EXCEPT ![cur[BSP]] = "idle"]
        /\ UNCHANGED <<state, rq_cpu, cur>>
    BY <1>1, <1>b, <1>t DEF IdleLoop
  <2>1. CurrentAt'
    BY <2>0, <1>i, <1>t DEF CurrentAt, HandAt, ReturnAt, InSleep, InTick
  <2>2. HandAt'
    BY <2>0 DEF HandAt
  <2>3. ReturnAt'
    BY <2>0, <1>i, <1>t DEF ReturnAt, CurrentAt
  <2>4. Placed'
    BY <2>0, <1>g DEF Placed
  <2> QED BY <2>1, <2>2, <2>3, <2>4
<1>2. CASE SchedPick(BSP)
  <2>0. /\ pc[BSP] = "pick" /\ pc'[BSP] = "decide"
        /\ reg'[BSP] = PickNext(BSP)
        /\ PickNext(BSP)' = PickNext(BSP)
        /\ UNCHANGED <<state, rq_cpu, ret, cur>>
    BY <1>2, <1>b, <1>t DEF SchedPick, PickNext, taskVars
  <2>1. CurrentAt'
    BY <2>0, <1>i, <1>t DEF CurrentAt, HandAt, ReturnAt, InSleep, InTick
  <2>2. HandAt'
    BY <2>0 DEF HandAt
  <2>3. ReturnAt'
    BY <2>0, <1>i, <1>t DEF ReturnAt, CurrentAt
  <2>4. Placed'
    BY <2>0, <1>g DEF Placed
  <2> QED BY <2>1, <2>2, <2>3, <2>4
<1>3. CASE SchedStay(BSP)
  <2>0. /\ pc[BSP] = "decide" /\ pc'[BSP] = ret[cur[BSP]]
        /\ state[cur[BSP]] \in {"RUNNING", "RUNNABLE"}
        /\ UNCHANGED <<state, rq_cpu, ret, cur>>
    BY <1>3, <1>b, <1>t DEF SchedStay
  <2>5. pc'[BSP] \in {"user", "loop", "idle", "ns_test"}
    BY <2>0, <1>i, <1>t
  <2>1. CurrentAt'
    BY <2>0, <1>i, <1>t DEF CurrentAt, HandAt, ReturnAt, InSleep, InTick
  <2>2. HandAt'
    BY <2>0, <2>5 DEF HandAt
  <2>3. ReturnAt'
    BY <2>0, <1>i, <1>t DEF ReturnAt, CurrentAt
  <2>4. Placed'
    BY <2>0, <2>5, <1>g DEF Placed
  <2> QED BY <2>1, <2>2, <2>3, <2>4
<1>4. CASE SchedToIdle(BSP)
  <2>0. /\ pc[BSP] = "decide" /\ pc'[BSP] = "requeue"
        /\ reg'[BSP] = Idle(BSP)
        /\ state[cur[BSP]] \notin {"RUNNING", "RUNNABLE"}
        /\ UNCHANGED <<state, rq_cpu, ret, cur>>
    BY <1>4, <1>b, <1>t DEF SchedToIdle, taskVars
  <2>1. CurrentAt'
    BY <2>0, <1>i, <1>t DEF CurrentAt, HandAt, ReturnAt, InSleep, InTick
  <2>2. HandAt'
    BY <2>0 DEF HandAt, CurrentAt
  <2>3. ReturnAt'
    BY <2>0, <1>i, <1>t DEF ReturnAt, CurrentAt
  <2>4. Placed'
    BY <2>0, <1>g DEF Placed
  <2> QED BY <2>1, <2>2, <2>3, <2>4
<1>5. CASE SchedOther(BSP)
  <2>0. /\ pc[BSP] = "decide" /\ pc'[BSP] = "requeue"
        /\ reg[BSP] # NoTask
        /\ UNCHANGED reg
        /\ UNCHANGED <<state, rq_cpu, ret, cur>>
    BY <1>5, <1>b, <1>t DEF SchedOther, taskVars
  <2>5. reg[BSP] \in User /\ rq_cpu[reg[BSP]] = BSP
    BY <2>0, <1>h DEF HandAt
  <2>1. CurrentAt'
    BY <2>0, <1>i, <1>t DEF CurrentAt, HandAt, ReturnAt, InSleep, InTick
  <2>2. HandAt'
    BY <2>0, <2>5 DEF HandAt
  <2>3. ReturnAt'
    BY <2>0, <1>i, <1>t DEF ReturnAt, CurrentAt
  <2>4. Placed'
    BY <2>0, <1>g DEF Placed
  <2> QED BY <2>1, <2>2, <2>3, <2>4
<1>6. CASE Swtch(BSP)
  <2>0. /\ pc[BSP] = "swtch" /\ pc'[BSP] = ret[cur[BSP]]
        /\ UNCHANGED <<state, rq_cpu, ret, cur>>
    <3>1. ~ \E d \in CPU \ {BSP} : stk[d] = cur[BSP]
      BY <1>b
    <3>2. pc' = [pc EXCEPT ![BSP] = ret[cur[BSP]]]
      BY <3>1, <1>6 DEF Swtch
    <3> QED BY <3>2, <1>6, <1>b, <1>t DEF Swtch, taskVars
  <2>5. pc'[BSP] \in {"user", "loop", "idle", "ns_test"}
    BY <2>0, <1>i, <1>t
  <2>1. CurrentAt'
    BY <2>0, <1>i, <1>t DEF CurrentAt, HandAt, ReturnAt, InSleep, InTick
  <2>2. HandAt'
    BY <2>0, <2>5 DEF HandAt
  <2>3. ReturnAt'
    BY <2>0, <1>i, <1>t DEF ReturnAt, CurrentAt
  <2>4. Placed'
    BY <2>0, <2>5, <1>g DEF Placed
  <2> QED BY <2>1, <2>2, <2>3, <2>4
<1>7. CASE Halt(BSP)
  <2>0. /\ pc[BSP] = "idle" /\ pc'[BSP] = "hlt"
        /\ UNCHANGED <<state, rq_cpu, ret, cur>>
    BY <1>7, <1>b, <1>t DEF Halt, taskVars
  <2>1. CurrentAt'
    BY <2>0, <1>i, <1>t DEF CurrentAt, HandAt, ReturnAt, InSleep, InTick
  <2>2. HandAt'
    BY <2>0 DEF HandAt
  <2>3. ReturnAt'
    BY <2>0, <1>i, <1>t DEF ReturnAt, CurrentAt
  <2>4. Placed'
    BY <2>0, <1>g DEF Placed
  <2> QED BY <2>1, <2>2, <2>3, <2>4
<1>8. CASE Tick(BSP)
  <2>0. /\ pc[BSP] \in {"user", "loop", "idle", "hlt"} /\ pc'[BSP] = "tk_check"
        /\ ret' = [ret EXCEPT ![cur[BSP]] = IF pc[BSP] = "hlt" THEN "loop" ELSE pc[BSP]]
        /\ UNCHANGED <<state, rq_cpu, cur>>
    BY <1>8, <1>b, <1>t DEF Tick, Interrupted, Interruptible
  <2>1. CurrentAt'
    BY <2>0, <1>i, <1>t DEF CurrentAt, HandAt, ReturnAt, InSleep, InTick
  <2>2. HandAt'
    BY <2>0 DEF HandAt
  <2>3. ReturnAt'
    BY <2>0, <1>i, <1>t DEF ReturnAt, CurrentAt
  <2>4. Placed'
    BY <2>0, <1>g DEF Placed
  <2> QED BY <2>1, <2>2, <2>3, <2>4
<1>9. CASE TickCheck(BSP)
  <2>0. /\ pc[BSP] = "tk_check"
        /\ \/ pc'[BSP] = "tk_end"
           \/ pc'[BSP] = "tk_store" /\ reg'[BSP] = reg[BSP] /\ state[reg[BSP]] = "SLEEPING"
           \/ pc'[BSP] = "tk_check"
        /\ UNCHANGED <<state, rq_cpu, ret, cur>>
    <3>1. UNCHANGED <<state, rq_cpu, ret, cur>> /\ pc[BSP] = "tk_check"
      BY <1>9 DEF TickCheck, taskVars
    <3>2. \/ pc' = [pc EXCEPT ![BSP] = "tk_end"]
          \/ /\ pc' = [pc EXCEPT ![BSP] = "tk_store"]
             /\ reg' = reg
             /\ state[reg[BSP]] = "SLEEPING"
          \/ pc' = pc
      BY <1>9, Zenon DEF TickCheck
    <3> QED BY <3>1, <3>2, <1>b, <1>t
  <2>1. CurrentAt'
    BY <2>0, <1>i, <1>t DEF CurrentAt, HandAt, ReturnAt, InSleep, InTick
  <2>2. HandAt'
    BY <2>0 DEF HandAt
  <2>3. ReturnAt'
    BY <2>0, <1>i, <1>t DEF ReturnAt, CurrentAt
  <2>4. Placed'
    BY <2>0, <1>g DEF Placed
  <2> QED BY <2>1, <2>2, <2>3, <2>4
<1>10. CASE TickStore(BSP)
  <2>0. /\ pc[BSP] = "tk_store" /\ pc'[BSP] = "tk_add"
        /\ reg[BSP] \in User /\ reg'[BSP] = reg[BSP]
        /\ state' = [state EXCEPT ![reg[BSP]] = "RUNNABLE"]
        /\ UNCHANGED <<rq_cpu, ret, cur>>
    BY <1>10, <1>b, <1>t DEF TickStore, RegOK
  <2>5. cur[BSP] # reg[BSP]
    BY <2>0 DEF CurrentAt, HandAt, InTick
  <2>1. CurrentAt'
    BY <2>0, <2>5, <1>i, <1>t DEF CurrentAt, InSleep, InTick
  <2>2. HandAt'
    BY <2>0, <1>i, <1>t DEF HandAt
  <2>3. ReturnAt'
    BY <2>0, <1>i, <1>t DEF ReturnAt, CurrentAt
  <2>4. Placed'
    BY <2>0, <1>g, <1>i, <1>t DEF Placed
  <2> QED BY <2>1, <2>2, <2>3, <2>4
<1>11. CASE TickEnd(BSP)
  <2>0. /\ pc[BSP] = "tk_end"
        /\ \/ pc'[BSP] = "pick"
           \/ pc'[BSP] = ret[cur[BSP]]
        /\ UNCHANGED <<state, rq_cpu, ret, cur>>
    <3>1. PICK flag \in BOOLEAN : MaybePreempt(BSP, flag)
      BY <1>11, Zenon DEF TickEnd
    <3>2. \/ pc' = [pc EXCEPT ![BSP] = "pick"]
          \/ pc' = [pc EXCEPT ![BSP] = ret[cur[BSP]]]
      BY <3>1, Zenon DEF MaybePreempt
    <3> QED BY <3>2, <1>11, <1>b, <1>t DEF TickEnd
  <2>5. pc'[BSP] \in {"pick", "user", "loop", "idle", "ns_test"}
    BY <2>0, <1>i, <1>t
  <2>1. CurrentAt'
    BY <2>0, <1>i, <1>t DEF CurrentAt, HandAt, ReturnAt, InSleep, InTick
  <2>2. HandAt'
    BY <2>0, <2>5 DEF HandAt
  <2>3. ReturnAt'
    BY <2>0, <1>i, <1>t DEF ReturnAt, CurrentAt
  <2>4. Placed'
    BY <2>0, <2>5, <1>g DEF Placed
  <2> QED BY <2>1, <2>2, <2>3, <2>4
<1>12. CASE RescheduleIpi(BSP)
  <2>0. /\ \/ /\ pc[BSP] = "user" /\ pc'[BSP] = "pick"
              /\ ret' = [ret EXCEPT ![cur[BSP]] = "user"]
           \/ /\ pc[BSP] \in {"user", "loop", "idle", "hlt"}
              /\ pc'[BSP] = IF pc[BSP] = "hlt" THEN "loop" ELSE pc[BSP]
              /\ ret' = ret
        /\ UNCHANGED <<state, rq_cpu, cur>>
    <3>1. \/ /\ pc[BSP] = "user"
             /\ ret' = [ret EXCEPT ![cur[BSP]] = "user"]
             /\ pc' = [pc EXCEPT ![BSP] = "pick"]
          \/ /\ pc' = [pc EXCEPT ![BSP] = Interrupted(BSP)]
             /\ ret' = ret
      BY <1>12, Zenon DEF RescheduleIpi
    <3>2. pc[BSP] \in {"user", "loop", "idle", "hlt"} /\ UNCHANGED <<state, rq_cpu, cur>>
      BY <1>12 DEF RescheduleIpi, Interruptible
    <3> QED BY <3>1, <3>2, <1>b, <1>t DEF Interrupted
  <2>1. CurrentAt'
    BY <2>0, <1>i, <1>t DEF CurrentAt, HandAt, ReturnAt, InSleep, InTick
  <2>2. HandAt'
    BY <2>0 DEF HandAt
  <2>3. ReturnAt'
    BY <2>0, <1>i, <1>t DEF ReturnAt, CurrentAt
  <2>4. Placed'
    BY <2>0, <1>g DEF Placed
  <2> QED BY <2>1, <2>2, <2>3, <2>4
<1>13. CASE \E k \in 1 .. MaxSleep : Nanosleep(BSP, k)
  <2>0. /\ pc[BSP] = "user" /\ pc'[BSP] = "ns_test"
        /\ UNCHANGED <<state, rq_cpu, ret, cur>>
    BY <1>13, <1>b, <1>t DEF Nanosleep
  <2>1. CurrentAt'
    BY <2>0, <1>i, <1>t DEF CurrentAt, HandAt, ReturnAt, InSleep, InTick
  <2>2. HandAt'
    BY <2>0 DEF HandAt
  <2>3. ReturnAt'
    BY <2>0, <1>i, <1>t DEF ReturnAt, CurrentAt
  <2>4. Placed'
    BY <2>0, <1>g DEF Placed
  <2> QED BY <2>1, <2>2, <2>3, <2>4
<1>14. CASE NanosleepTest(BSP)
  <2>0. /\ pc[BSP] = "ns_test" /\ pc'[BSP] \in {"user", "ns_sleep"}
        /\ UNCHANGED <<state, rq_cpu, ret, cur>>
    BY <1>14, <1>b, <1>t DEF NanosleepTest, taskVars
  <2>1. CurrentAt'
    BY <2>0, <1>i, <1>t DEF CurrentAt, HandAt, ReturnAt, InSleep, InTick
  <2>2. HandAt'
    BY <2>0 DEF HandAt
  <2>3. ReturnAt'
    BY <2>0, <1>i, <1>t DEF ReturnAt, CurrentAt
  <2>4. Placed'
    BY <2>0, <1>g DEF Placed
  <2> QED BY <2>1, <2>2, <2>3, <2>4
<1>15. CASE NanosleepStore(BSP)
  <2>0. /\ pc[BSP] = "ns_sleep" /\ pc'[BSP] = "ns_deq"
        /\ state' = [state EXCEPT ![cur[BSP]] = "SLEEPING"]
        /\ cur[BSP] \in User
        /\ UNCHANGED <<rq_cpu, ret, cur>>
    BY <1>15, <1>b, <1>t DEF NanosleepStore, CurrentAt, InSleep
  <2>1. CurrentAt'
    BY <2>0, <1>i, <1>t DEF CurrentAt, HandAt, ReturnAt, InSleep, InTick
  <2>2. HandAt'
    BY <2>0 DEF HandAt
  <2>3. ReturnAt'
    BY <2>0, <1>i, <1>t DEF ReturnAt, CurrentAt
  <2>4. Placed'
    BY <2>0, <1>g, <1>i, <1>t DEF Placed, CurrentAt
  <2> QED BY <2>1, <2>2, <2>3, <2>4
<1>16. CASE SchedRequeue(BSP)
  <2> DEFINE t == cur[BSP]
  <2>0. /\ pc[BSP] = "requeue"
        /\ pc' = [pc EXCEPT ![BSP] = "switch"]
        /\ UNCHANGED <<ret, cur, reg>>
        /\ reg[BSP] # t
    <3>1. reg[BSP] # t
      BY <1>16, Ids DEF SchedRequeue, HandAt, CurrentAt, ReturnAt, Placed
    <3> QED BY <3>1, <1>16 DEF SchedRequeue
  <2>a. CASE state[t] = "RUNNING" /\ t \in User
    <3>1. RunqueueAdd(BSP, t) /\ state' = [state EXCEPT ![t] = "RUNNABLE"]
      BY <2>a, <1>16 DEF SchedRequeue
    <3>2. rq_cpu'[t] # NoCpu /\ \A u \in Task : u # t => rq_cpu'[u] = rq_cpu[u]
      BY <3>1, <2>a, AddFacts, Ids
    <3>3. CurrentAt'
      BY <2>0, <2>a, <3>1, Ids DEF CurrentAt, TypeOK, InSleep, InTick
    <3>4. HandAt'
      BY <2>0, <2>a, <3>1, <3>2, Ids DEF HandAt, TypeOK
    <3>5. ReturnAt'
      BY <2>0, <2>a, <3>1, Ids DEF ReturnAt, TypeOK
    <3>6. Placed'
      BY <2>0, <2>a, <3>1, <3>2, Ids DEF Placed, BeingAdded, TypeOK
    <3> QED BY <3>3, <3>4, <3>5, <3>6
  <2>b. CASE ~(state[t] = "RUNNING" /\ t \in User)
    <3>1. UNCHANGED <<state, rq, rq_cpu, ipi>>
      BY <2>b, <1>16 DEF SchedRequeue
    <3>3. CurrentAt'
      BY <2>0, <2>b, <3>1, Ids DEF CurrentAt, TypeOK, RegOK, InSleep, InTick
    <3>4. HandAt'
      BY <2>0, <3>1, Ids DEF HandAt, TypeOK
    <3>5. ReturnAt'
      BY <2>0, <3>1 DEF ReturnAt
    <3>6. Placed'
      BY <2>0, <3>1, Ids DEF Placed, BeingAdded, TypeOK
    <3> QED BY <3>3, <3>4, <3>5, <3>6
  <2> QED BY <2>a, <2>b
<1>17. CASE TickAdd(BSP)
  <2> DEFINE u == reg[BSP]
  <2>0. /\ pc[BSP] = "tk_add" /\ pc'[BSP] = "tk_check"
        /\ RunqueueAdd(BSP, u)
        /\ UNCHANGED <<state, ret, cur>>
    BY <1>17, <1>b, <1>t DEF TickAdd
  <2>5. u \in User /\ state[u] = "RUNNABLE"
    BY <2>0, <1>b DEF RegOK, HandAt
  <2>6. rq_cpu'[u] # NoCpu /\ \A v \in Task : v # u => rq_cpu'[v] = rq_cpu[v]
    BY <2>0, <2>5, <1>b, <1>i, AddFacts
  <2>1. CurrentAt'
    BY <2>0, <1>i, <1>t, SMTT(30) DEF CurrentAt, InSleep, InTick
  <2>2. HandAt'
    BY <2>0 DEF HandAt
  <2>3. ReturnAt'
    BY <2>0 DEF ReturnAt
  <2>4. Placed'
    BY <2>0, <2>5, <2>6, <1>g, <1>i DEF Placed
  <2> QED BY <2>1, <2>2, <2>3, <2>4
<1>18. CASE Fork(BSP)
  <2>0. PICK u \in User : /\ state[u] = "UNUSED"
                          /\ RunqueueAdd(BSP, u)
                          /\ state' = [state EXCEPT ![u] = "RUNNABLE"]
                          /\ ret' = [ret EXCEPT ![u] = "user"]
                          /\ pc[BSP] = "user"
                          /\ UNCHANGED <<cur, pc, reg>>
    <3> DEFINE free == {u \in User : state[u] = "UNUSED"}
               first == CHOOSE v \in free : \A w \in free : v <= w
    <3>1. free # {} /\ free \in SUBSET Nat
      BY <1>18 DEF Fork, User
    <3>2. first \in free
      BY <3>1, LeastElement, ZenonT(30)
    <3> HIDE DEF first
    <3>3. first \in User /\ state[first] = "UNUSED"
      BY <3>2
    <3> QED BY <3>3, <1>18, Zenon DEF Fork, first
  <2>5. rq_cpu'[u] # NoCpu /\ \A v \in Task : v # u => rq_cpu'[v] = rq_cpu[v]
    BY <2>0, AddFacts, Ids
  <2>1. CurrentAt'
    BY <2>0, Ids, SMTT(30) DEF CurrentAt, TypeOK, InSleep, InTick
  <2>2. HandAt'
    BY <2>0 DEF HandAt
  <2>3. ReturnAt'
    BY <2>0, Ids DEF ReturnAt, TypeOK
  <2>4. Placed'
    BY <2>0, <2>5, Ids DEF Placed, BeingAdded, TypeOK, CurrentAt
  <2> QED BY <2>1, <2>2, <2>3, <2>4
<1>19. CASE SchedSelf(BSP)
  (* pick_next() cannot return current: what is queued is RUNNABLE.        *)
  <2>1. PickNext(BSP) = cur[BSP] /\ state[cur[BSP]] \in {"RUNNING", "SLEEPING"}
    BY <1>19, Ids DEF SchedSelf, HandAt, CurrentAt
  <2>2. cur[BSP] # NoTask
    BY Ids DEF TypeOK
  <2> QED BY <2>1, <2>2, <1>h, SMTT(30)
<1>20. CASE SwitchTo(BSP)
  <2> DEFINE n == reg[BSP]
  <2>0. /\ pc[BSP] = "switch" /\ pc'[BSP] = "swtch"
        /\ RunqueueRemove(n)
        /\ state' = [state EXCEPT ![n] = "RUNNING"]
        /\ cur'[BSP] = n
        /\ UNCHANGED ret
    BY <1>20, <1>b, <1>t DEF SwitchTo
  <2>5. n \in Task
    BY <2>0, <1>i DEF HandAt
  <2>6. rq_cpu' = [rq_cpu EXCEPT ![n] = NoCpu]
    BY <2>0 DEF RunqueueRemove
  <2>7. \A u \in User : state[u] # "RUNNING"
    BY <2>0, <1>i DEF CurrentAt, Placed
  <2>1. CurrentAt'
    BY <2>0, <2>5, <1>t, SMTT(30) DEF CurrentAt, InSleep, InTick
  <2>2. HandAt'
    BY <2>0 DEF HandAt
  <2>3. ReturnAt'
    BY <2>0, <2>5, <1>i, <1>t DEF ReturnAt
  <2>4. Placed'
    BY <2>0, <2>5, <2>6, <2>7, <1>g, <1>i, <1>t DEF Placed
  <2> QED BY <2>1, <2>2, <2>3, <2>4
<1>21. CASE NanosleepDequeue(BSP)
  <2> DEFINE t == cur[BSP]
  <2>0. /\ pc[BSP] = "ns_deq" /\ pc'[BSP] = "pick"
        /\ RunqueueRemove(t)
        /\ ret' = [ret EXCEPT ![t] = "ns_test"]
        /\ UNCHANGED <<state, cur>>
    BY <1>21, <1>b, <1>t DEF NanosleepDequeue
  <2>5. t \in User /\ state[t] = "SLEEPING"
    BY <2>0 DEF CurrentAt, InSleep
  <2>6. rq_cpu' = [rq_cpu EXCEPT ![t] = NoCpu]
    BY <2>0 DEF RunqueueRemove
  <2>1. CurrentAt'
    BY <2>0, <2>5, <1>i DEF CurrentAt, InSleep, InTick
  <2>2. HandAt'
    BY <2>0 DEF HandAt
  <2>3. ReturnAt'
    BY <2>0, <2>5, <1>i, <1>t DEF ReturnAt
  <2>4. Placed'
    BY <2>0, <2>5, <2>6, <1>g, <1>i, <1>t DEF Placed
  <2> QED BY <2>1, <2>2, <2>3, <2>4
<1> QED
  BY <1>k, <1>1, <1>2, <1>3, <1>4, <1>5, <1>6, <1>7, <1>8, <1>9, <1>10, <1>11, <1>12, <1>13, <1>14, <1>15, <1>16, <1>17, <1>18, <1>19, <1>20, <1>21
  DEF Kernel, Schedule, Syscall

(* On one CPU no interleaving of fork, sleep, wake-up and preemption loses *)
(* a task: one that may run is current, queued or being queued.            *)
THEOREM OneCpuLosesNoTask ==
    ASSUME NCpu = 1
    PROVE  Spec => []NoTaskLost
<1>1. Init => UpInv
  BY UpInit
<1>2. UpInv /\ [Next]_vars => UpInv'
  BY UpStep
<1>3. UpInv => NoTaskLost
  BY OneCpu, Ids DEF UpInv, Placed, NoTaskLost
<1> QED BY <1>1, <1>2, <1>3, PTL DEF Spec

(* On one CPU the current task is off the queues except while schedule()   *)
(* hands the CPU over.                                                     *)
THEOREM OneCpuCurrentOffQueue ==
    ASSUME NCpu = 1
    PROVE  Spec => []CurrentOffQueue
<1>1. Init => UpInv
  BY UpInit
<1>2. UpInv /\ [Next]_vars => UpInv'
  BY UpStep
<1>3. UpInv => CurrentOffQueue
  <2> SUFFICES ASSUME UpInv, pc[BSP] # "switch"
               PROVE  rq_cpu[cur[BSP]] = NoCpu
    BY OneCpu DEF CurrentOffQueue
  <2>1. cur[BSP] \in User \cup {Idle(BSP)} /\ rq_cpu[Idle(BSP)] = NoCpu /\ pc[BSP] \in Pcs
    BY Ids DEF UpInv, SafeInv, RegOK, TypeOK
  <2>2. CASE cur[BSP] \in User
    BY <2>1, <2>2, Ids DEF UpInv, Placed, CurrentAt, Pcs, Interruptible, InSchedule, InTick, InSleep
  <2> QED BY <2>1, <2>2
<1> QED BY <1>1, <1>2, <1>3, PTL DEF Spec

(* On one CPU the task that executes user code is in state RUNNING, so     *)
(* the timer can preempt it and schedule() puts it back on a queue.        *)
THEOREM OneCpuUserIsRunning ==
    ASSUME NCpu = 1
    PROVE  Spec => []UserIsRunning
<1>1. Init => UpInv
  BY UpInit
<1>2. UpInv /\ [Next]_vars => UpInv'
  BY UpStep
<1>3. UpInv => UserIsRunning
  BY OneCpu DEF UpInv, CurrentAt, UserIsRunning
<1> QED BY <1>1, <1>2, <1>3, PTL DEF Spec
=============================================================================
