-------------------------- MODULE SchedQueueProofs --------------------------
(***************************************************************************)
(* Lemmas about the run queues of Sched: what runqueue_add() and           *)
(* runqueue_remove() do to them, for any number of CPUs and tasks.         *)
(***************************************************************************)
EXTENDS Sched, TLAPS, WellFoundedInduction

-----------------------------------------------------------------------------
(* Run queues                                                              *)

(* What Unlink() does to a queue without duplicates: the result is a       *)
(* queue without t and without duplicates that keeps every other task.     *)
LEMMA UnlinkFacts ==
    ASSUME NEW q \in Seq(User), NEW t,
           \A i, j \in 1 .. Len(q) : q[i] = q[j] => i = j
    PROVE  /\ Unlink(q, t) \in Seq(User)
           /\ \A i \in 1 .. Len(Unlink(q, t)) :
                /\ Unlink(q, t)[i] # t
                /\ \E j \in 1 .. Len(q) : Unlink(q, t)[i] = q[j]
           /\ \A i, j \in 1 .. Len(Unlink(q, t)) :
                Unlink(q, t)[i] = Unlink(q, t)[j] => i = j
           /\ \A j \in 1 .. Len(q) : q[j] # t =>
                \E i \in 1 .. Len(Unlink(q, t)) : Unlink(q, t)[i] = q[j]
<1>1. CASE \A i \in 1 .. Len(q) : q[i] # t
  BY <1>1, Zenon DEF Unlink
<1>2. CASE ~ \A i \in 1 .. Len(q) : q[i] # t
  <2> DEFINE P(i) == q[i] = t /\ \A j \in 1 .. i - 1 : q[j] # t
             k == CHOOSE i \in 1 .. Len(q) : P(i)
             r == [i \in 1 .. Len(q) - 1 |-> IF i < k THEN q[i] ELSE q[i + 1]]
  <2>1. PICK m \in 1 .. Len(q) : q[m] = t
    BY <1>2
  <2>2. P(m)
    BY <2>1
  <2>3. k \in 1 .. Len(q) /\ q[k] = t
    BY <2>2
  <2>4. Unlink(q, t) = r
    BY <1>2 DEF Unlink
  <2> HIDE DEF k
  <2>5. Len(q) \in Nat /\ Len(q) - 1 \in Nat /\ k \in Nat
    BY <2>3
  <2>6. \A i \in 1 .. Len(q) : q[i] \in User
    OBVIOUS
  <2>7. \A i \in 1 .. Len(q) - 1 : r[i] = IF i < k THEN q[i] ELSE q[i + 1]
    OBVIOUS
  <2>8. r \in Seq(User) /\ Len(r) = Len(q) - 1
    <3>1. \A i \in 1 .. Len(q) - 1 : r[i] \in User
      BY <2>5, <2>6, <2>7
    <3>2. r \in [1 .. Len(q) - 1 -> User]
      BY <3>1
    <3> QED BY <3>2, <2>5
  <2> HIDE DEF r
  <2>9. \A i \in 1 .. Len(r) : r[i] # t /\ \E j \in 1 .. Len(q) : r[i] = q[j]
    <3> SUFFICES ASSUME NEW i \in 1 .. Len(r)
                 PROVE  r[i] # t /\ \E j \in 1 .. Len(q) : r[i] = q[j]
      OBVIOUS
    <3>1. CASE i < k
      BY <3>1, <2>3, <2>5, <2>7, <2>8
    <3>2. CASE i >= k
      <4>1. i + 1 \in 1 .. Len(q) /\ i + 1 # k /\ r[i] = q[i + 1]
        BY <3>2, <2>3, <2>5, <2>7, <2>8
      <4> QED BY <4>1, <2>3
    <3> QED BY <3>1, <3>2, <2>5, <2>8
  <2>10. \A i, j \in 1 .. Len(r) : r[i] = r[j] => i = j
    BY <2>3, <2>5, <2>7, <2>8, SMTT(30)
  <2>11. \A j \in 1 .. Len(q) : q[j] # t => \E i \in 1 .. Len(r) : r[i] = q[j]
    <3> SUFFICES ASSUME NEW j \in 1 .. Len(q), q[j] # t
                 PROVE  \E i \in 1 .. Len(r) : r[i] = q[j]
      OBVIOUS
    <3>1. CASE j < k
      BY <3>1, <2>3, <2>5, <2>7, <2>8
    <3>2. CASE j > k
      <4>1. j - 1 \in 1 .. Len(r) /\ r[j - 1] = q[j]
        BY <3>2, <2>3, <2>5, <2>7, <2>8
      <4> QED BY <4>1
    <3> QED BY <3>1, <3>2, <2>3, <2>5
  <2> QED BY <2>4, <2>8, <2>9, <2>10, <2>11
<1> QED BY <1>1, <1>2

(* A non-empty set of naturals has a least element.                        *)
LEMMA LeastElement ==
    ASSUME NEW S \in SUBSET Nat, S # {}
    PROVE  \E d \in S : \A e \in S : d <= e
<1>1. PICK d \in S : \A e \in S : ~ (<<e, d>> \in OpToRel(<, Nat))
  BY NatLessThanWellFounded, WFMin
<1>2. \A e \in S : ~ (e < d)
  BY <1>1, Zenon DEF OpToRel
<1> QED BY <1>2

(* preferred_cpu() always names a CPU.                                     *)
LEMMA PreferredCpuType ==
    ASSUME NEW c \in CPU
    PROVE  PreferredCpu(c) \in CPU
<1> DEFINE idling == {d \in CPU : cur[d] = Idle(d)}
<1>1. CASE idling = {}
  BY <1>1 DEF PreferredCpu
<1>2. CASE idling # {}
  <2>1. idling \in SUBSET Nat
    BY SchedAssumption DEF CPU
  <2>2. \E d \in idling : \A e \in idling : d <= e
    BY <2>1, <1>2, LeastElement, Zenon
  <2> QED BY <2>2, <1>2 DEF PreferredCpu
<1> QED BY <1>1, <1>2

(* The part of TypeOK the run queues need.                                 *)
QueueTypes ==
    /\ rq \in [CPU -> Seq(User)]
    /\ rq_cpu \in [Task -> CPU \cup {NoCpu}]
    /\ ipi \in [CPU -> BOOLEAN]

LEMMA Ids ==
    /\ User \subseteq Task
    /\ NoCpu \notin CPU
    /\ BSP \in CPU
    /\ NoTask \notin Task
    /\ \A c \in CPU : Idle(c) \in Task \ User
    /\ \A c, d \in CPU : Idle(c) = Idle(d) => c = d
BY SchedAssumption DEF User, Task, NoCpu, CPU, BSP, NoTask, Idle

(* runqueue_add() of a user task keeps the queues sound and changes the    *)
(* queue of no other task.                                                 *)
LEMMA AddFacts ==
    ASSUME QueueTypes, QueueIntegrity,
           NEW c \in CPU, NEW t \in User, RunqueueAdd(c, t)
    PROVE  /\ QueueTypes'
           /\ QueueIntegrity'
           /\ rq_cpu'[t] # NoCpu
           /\ \A u \in Task : u # t => rq_cpu'[u] = rq_cpu[u]
<1> t \in Task
  BY Ids
<1>1. CASE rq_cpu[t] # NoCpu
  BY <1>1 DEF RunqueueAdd, QueueTypes, QueueIntegrity
<1>2. CASE rq_cpu[t] = NoCpu
  <2> DEFINE d == PreferredCpu(c)
  <2>1. d \in CPU
    BY PreferredCpuType
  <2>2. /\ rq_cpu' = [rq_cpu EXCEPT ![t] = d]
        /\ rq' = [rq EXCEPT ![d] = <<t>> \o @]
        /\ ipi' = [ipi EXCEPT ![d] = @ \/ d # c]
    BY <1>2 DEF RunqueueAdd
  <2> HIDE DEF d
  <2> DEFINE q == rq[d]
             p == <<t>> \o q
  <2>3. q \in Seq(User)
    BY <2>1 DEF QueueTypes
  <2>4. /\ p \in Seq(User)
        /\ Len(p) = Len(q) + 1
        /\ Len(q) \in Nat
        /\ p[1] = t
        /\ \A i \in 2 .. Len(p) : p[i] = q[i - 1]
    BY <2>3
  <2>5. /\ rq'[d] = p
        /\ \A e \in CPU : e # d => rq'[e] = rq[e]
        /\ rq_cpu'[t] = d
        /\ \A u \in Task : u # t => rq_cpu'[u] = rq_cpu[u]
    BY <2>1, <2>2 DEF QueueTypes
  <2>6. QueueTypes'
    <3>1. rq' \in [CPU -> Seq(User)]
      BY <2>1, <2>2, <2>4 DEF QueueTypes
    <3>2. rq_cpu' \in [Task -> CPU \cup {NoCpu}]
      BY <2>1, <2>2 DEF QueueTypes
    <3>3. ipi' \in [CPU -> BOOLEAN]
      <4>1. (d # c) \in BOOLEAN /\ ipi[d] \in BOOLEAN
        BY <2>1 DEF QueueTypes
      <4> QED BY <4>1, <2>1, <2>2 DEF QueueTypes
    <3> QED BY <3>1, <3>2, <3>3 DEF QueueTypes
  <2> HIDE DEF p, q
  <2>7. \A e \in CPU : \A i \in 1 .. Len(rq[e]) : rq[e][i] # t /\ rq[e][i] \in Task
    BY <1>2, Ids DEF QueueIntegrity, QueueTypes
  <2>8. ASSUME NEW e \in CPU, NEW i \in 1 .. Len(rq'[e])
        PROVE  rq_cpu'[rq'[e][i]] = e
    <3>1. CASE e # d
      BY <3>1, <2>5, <2>7 DEF QueueIntegrity
    <3>2. CASE e = d /\ i = 1
      BY <3>2, <2>4, <2>5
    <3>3. CASE e = d /\ i # 1
      <4>1. i - 1 \in 1 .. Len(q) /\ rq'[e][i] = q[i - 1]
        BY <3>3, <2>4, <2>5
      <4> QED BY <4>1, <3>3, <2>1, <2>5, <2>7 DEF QueueIntegrity, q
    <3> QED BY <3>1, <3>2, <3>3
  <2>9. ASSUME NEW e \in CPU, NEW i \in 1 .. Len(rq'[e]), NEW j \in 1 .. Len(rq'[e]),
               rq'[e][i] = rq'[e][j]
        PROVE  i = j
    <3>1. CASE e # d
      BY <3>1, <2>5, <2>9 DEF QueueIntegrity
    <3>2. CASE e = d
      <4>1. \A m \in 1 .. Len(q) : q[m] # t
        BY <2>1, <2>7 DEF q
      <4>2. \A m, n \in 1 .. Len(q) : q[m] = q[n] => m = n
        BY <2>1 DEF QueueIntegrity, q
      <4>3. i \in 1 .. Len(p) /\ j \in 1 .. Len(p) /\ p[i] = p[j]
        BY <3>2, <2>5, <2>9
      <4> QED BY <4>1, <4>2, <4>3, <2>4
    <3> QED BY <3>1, <3>2
  <2>10. ASSUME NEW u \in Task, rq_cpu'[u] # NoCpu
         PROVE  \E i \in 1 .. Len(rq'[rq_cpu'[u]]) : rq'[rq_cpu'[u]][i] = u
    <3>1. CASE u = t
      BY <3>1, <2>4, <2>5
    <3>2. CASE u # t
      <4>1. rq_cpu'[u] = rq_cpu[u] /\ rq_cpu[u] # NoCpu /\ rq_cpu[u] \in CPU
        BY <3>2, <2>5, <2>10 DEF QueueTypes
      <4>2. PICK i \in 1 .. Len(rq[rq_cpu[u]]) : rq[rq_cpu[u]][i] = u
        BY <4>1 DEF QueueIntegrity
      <4>3. CASE rq_cpu[u] # d
        BY <4>1, <4>2, <4>3, <2>5
      <4>4. CASE rq_cpu[u] = d
        <5>1. i \in 1 .. Len(q) /\ q[i] = u
          BY <4>2, <4>4 DEF q
        <5>2. i + 1 \in 1 .. Len(p) /\ p[i + 1] = u
          BY <5>1, <2>4
        <5> QED BY <5>2, <4>1, <4>4, <2>5
      <4> QED BY <4>3, <4>4
    <3> QED BY <3>1, <3>2
  <2>11. QueueIntegrity'
    BY <2>8, <2>9, <2>10 DEF QueueIntegrity
  <2> QED BY <2>1, <2>5, <2>6, <2>11, Ids
<1> QED BY <1>1, <1>2

(* runqueue_remove() keeps the queues sound, takes its task off its queue  *)
(* and changes the queue of no other task.                                 *)
LEMMA RemoveFacts ==
    ASSUME QueueTypes, QueueIntegrity, NEW t \in Task, RunqueueRemove(t)
    PROVE  /\ rq' \in [CPU -> Seq(User)]
           /\ rq_cpu' \in [Task -> CPU \cup {NoCpu}]
           /\ QueueIntegrity'
           /\ rq_cpu' = [rq_cpu EXCEPT ![t] = NoCpu]
<1>1. /\ rq' = [c \in CPU |-> IF c = rq_cpu[t] THEN Unlink(rq[c], t) ELSE rq[c]]
      /\ rq_cpu' = [rq_cpu EXCEPT ![t] = NoCpu]
  BY DEF RunqueueRemove
<1>2. \A c \in CPU : rq'[c] = IF c = rq_cpu[t] THEN Unlink(rq[c], t) ELSE rq[c]
  BY <1>1
<1>3. /\ rq_cpu'[t] = NoCpu
      /\ \A u \in Task : u # t => rq_cpu'[u] = rq_cpu[u]
  BY <1>1 DEF QueueTypes
(* In each queue: t is gone, nothing else is, nothing is new or doubled.   *)
<1>4. ASSUME NEW c \in CPU
      PROVE  /\ rq'[c] \in Seq(User)
             /\ \A i \in 1 .. Len(rq'[c]) :
                  /\ rq'[c][i] # t
                  /\ \E j \in 1 .. Len(rq[c]) : rq'[c][i] = rq[c][j]
             /\ \A i, j \in 1 .. Len(rq'[c]) : rq'[c][i] = rq'[c][j] => i = j
             /\ \A j \in 1 .. Len(rq[c]) : rq[c][j] # t =>
                  \E i \in 1 .. Len(rq'[c]) : rq'[c][i] = rq[c][j]
  <2>1. rq[c] \in Seq(User)
    BY DEF QueueTypes
  <2>2. \A i, j \in 1 .. Len(rq[c]) : rq[c][i] = rq[c][j] => i = j
    BY DEF QueueIntegrity
  <2>3. CASE c = rq_cpu[t]
    <3>1. rq'[c] = Unlink(rq[c], t)
      BY <2>3, <1>2
    <3>2. /\ Unlink(rq[c], t) \in Seq(User)
          /\ \A i \in 1 .. Len(Unlink(rq[c], t)) :
               /\ Unlink(rq[c], t)[i] # t
               /\ \E j \in 1 .. Len(rq[c]) : Unlink(rq[c], t)[i] = rq[c][j]
          /\ \A i, j \in 1 .. Len(Unlink(rq[c], t)) :
               Unlink(rq[c], t)[i] = Unlink(rq[c], t)[j] => i = j
          /\ \A j \in 1 .. Len(rq[c]) : rq[c][j] # t =>
               \E i \in 1 .. Len(Unlink(rq[c], t)) : Unlink(rq[c], t)[i] = rq[c][j]
      BY <2>1, <2>2, UnlinkFacts, Zenon
    <3> QED BY <3>1, <3>2, SMTT(30)
  <2>4. CASE c # rq_cpu[t]
    <3>1. rq'[c] = rq[c]
      BY <2>4, <1>2
    <3>2. \A i \in 1 .. Len(rq[c]) : rq[c][i] # t
      BY <2>4 DEF QueueIntegrity
    <3> QED BY <3>1, <3>2, <2>1, <2>2
  <2> QED BY <2>3, <2>4, Zenon
<1>5. rq' \in [CPU -> Seq(User)]
  BY <1>1, <1>4
<1>6. rq_cpu' \in [Task -> CPU \cup {NoCpu}]
  BY <1>1 DEF QueueTypes
<1>7. \A c \in CPU : \A i \in 1 .. Len(rq[c]) : rq[c][i] \in Task
  BY Ids DEF QueueTypes
<1>8. ASSUME NEW c \in CPU, NEW i \in 1 .. Len(rq'[c])
      PROVE  rq_cpu'[rq'[c][i]] = c
  <2>1. PICK j \in 1 .. Len(rq[c]) : rq'[c][i] = rq[c][j] /\ rq[c][j] # t
    BY <1>4, SMTT(30)
  <2>2. rq_cpu'[rq[c][j]] = rq_cpu[rq[c][j]]
    BY <2>1, <1>3, <1>7
  <2> QED BY <2>1, <2>2 DEF QueueIntegrity
<1>9. ASSUME NEW u \in Task, rq_cpu'[u] # NoCpu
      PROVE  \E i \in 1 .. Len(rq'[rq_cpu'[u]]) : rq'[rq_cpu'[u]][i] = u
  <2>1. u # t /\ rq_cpu'[u] = rq_cpu[u] /\ rq_cpu[u] \in CPU
    BY <1>9, <1>3 DEF QueueTypes
  <2>2. PICK j \in 1 .. Len(rq[rq_cpu[u]]) : rq[rq_cpu[u]][j] = u
    BY <2>1, <1>9 DEF QueueIntegrity
  <2> QED BY <2>1, <2>2, <1>4
<1>10. QueueIntegrity'
  BY <1>4, <1>8, <1>9 DEF QueueIntegrity
<1> QED BY <1>1, <1>5, <1>6, <1>10
=============================================================================
