--------------------------- MODULE BlkCacheProofs ---------------------------
(***************************************************************************)
(* Proofs about BlkCache, for any devices, sectors, contents and number of *)
(* slots: no sector is cached twice on any disk, and above a disk that     *)
(* does not use DMA the cache implements SectorStore.                      *)
(***************************************************************************)
EXTENDS BlkCache, TLAPS, WellFoundedInduction

-----------------------------------------------------------------------------
(* Slots                                                                   *)

(* A set of slots that is not empty has a first element. *)
LEMMA FirstFacts ==
    ASSUME NEW S, S \subseteq Slot, S # {}
    PROVE  First(S) \in S
<1>1. S \in SUBSET Nat
  BY CacheAssumption DEF Slot
<1>2. PICK d \in S : \A e \in S : ~ (<<e, d>> \in OpToRel(<, Nat))
  BY <1>1, NatLessThanWellFounded, WFMin
<1>3. \A e \in S : ~ (e < d)
  BY <1>1, <1>2, Zenon DEF OpToRel
<1>4. \A e \in S : d <= e
  BY <1>1, <1>3
<1> QED BY <1>4 DEF First

(* cache_find_victim() returns a slot. *)
LEMMA VictimFacts == CacheFindVictim \in Slot
<1> DEFINE invalid == {i \in Slot : ~valid[i]}
           unused == {i \in Slot : ~used[i]}
           S == IF invalid # {} THEN invalid ELSE IF unused # {} THEN unused ELSE Slot
<1>1. 1 \in Slot
  BY CacheAssumption DEF Slot
<1>2. S \subseteq Slot /\ S # {}
  BY <1>1
<1>3. First(S) \in S
  BY <1>2, FirstFacts
<1> QED BY <1>2, <1>3 DEF CacheFindVictim

(* cache_find() returns a slot that holds the sector, if there is one. *)
LEMMA FindFacts ==
    ASSUME NEW s, Cached(s)
    PROVE  CacheFind(s) \in Slot /\ Holds(CacheFind(s), s)
<1> DEFINE S == {i \in Slot : Holds(i, s)}
<1>1. S \subseteq Slot /\ S # {}
  BY DEF Cached
<1>2. First(S) \in S
  BY <1>1, FirstFacts
<1> QED BY <1>2 DEF CacheFind

-----------------------------------------------------------------------------
(* Any disk: types, and no sector cached twice                             *)

CacheSafe == TypeOK /\ NoAlias

LEMMA SectorFacts == /\ \A s \in Sector : s[1] \in Dev /\ s[2] \in Lba /\ s = <<s[1], s[2]>>
                     /\ NoSector \notin Sector
BY CacheAssumption DEF Sector, NoSector

LEMMA SafeInit == Init => CacheSafe
BY CacheAssumption DEF Init, CacheSafe, TypeOK, NoAlias, None, Slot

LEMMA OutFacts ==
    /\ None \in [op : {"none", "read", "write", "flush"}, ok : BOOLEAN, val : Data]
    /\ \A op \in {"read", "write", "flush"} :
          /\ Done(op) \in [op : {"none", "read", "write", "flush"}, ok : BOOLEAN, val : Data]
          /\ Failed(op) \in [op : {"none", "read", "write", "flush"}, ok : BOOLEAN, val : Data]
    /\ \A v \in Data : Got(v) \in [op : {"none", "read", "write", "flush"}, ok : BOOLEAN, val : Data]
BY CacheAssumption DEF None, Done, Failed, Got

(* Writing a slot back leaves the medium well typed. *)
LEMMA WritebackType ==
    ASSUME TypeOK, NEW i \in Slot, CacheWriteback(i) \/ CacheWritebackFails(i)
    PROVE  disk' \in [Sector -> Data]
BY DEF TypeOK, CacheWriteback, CacheWritebackFails, Written, Dirty

LEMMA ScanType ==
    ASSUME TypeOK
    PROVE  UsedAfterScan \in [Slot -> BOOLEAN]
BY DEF TypeOK, UsedAfterScan

(* Every step of the cache preserves types and the absence of aliases. *)
LEMMA SafeStep == CacheSafe /\ [Next]_vars => CacheSafe'
<1> SUFFICES ASSUME CacheSafe, [Next]_vars
             PROVE  CacheSafe'
  OBVIOUS
<1> USE DEF CacheSafe
<1> DEFINE v == CacheFindVictim
<1>v. v \in Slot
  BY VictimFacts
<1> HIDE DEF v
<1>1. ASSUME NEW s \in Sector, ReadHit(s)
      PROVE  CacheSafe'
  <2>1. CacheFind(s) \in Slot /\ data[CacheFind(s)] \in Data
    BY <1>1, FindFacts DEF ReadHit, TypeOK
  <2> QED BY <1>1, <2>1, OutFacts DEF ReadHit, TypeOK, NoAlias, flush
<1>2. ASSUME NEW s \in Sector, ReadMiss(s)
      PROVE  CacheSafe'
  <2>1. disk' \in [Sector -> Data] /\ UsedAfterScan \in [Slot -> BOOLEAN]
    BY <1>2, <1>v, WritebackType, ScanType DEF ReadMiss, v
  <2>2. TypeOK'
    BY <1>2, <1>v, <2>1, OutFacts DEF ReadMiss, v, TypeOK, flush
  <2>3. NoAlias'
    BY <1>2, <1>v DEF ReadMiss, v, TypeOK, NoAlias, Cached, Holds
  <2> QED BY <2>2, <2>3
<1>3. ASSUME NEW s \in Sector, ReadFails(s)
      PROVE  CacheSafe'
  <2>1. disk' \in [Sector -> Data] /\ UsedAfterScan \in [Slot -> BOOLEAN]
    BY <1>3, <1>v, WritebackType, ScanType DEF ReadFails, v
  <2>2. data' \in [Slot -> Data] /\ dma' \subseteq Slot \X Sector
    BY <1>3, <1>v, <2>1 DEF ReadFails, v, TypeOK
  <2> QED BY <1>3, <1>v, <2>1, <2>2, OutFacts DEF ReadFails, v, TypeOK, NoAlias, flush
<1>4. ASSUME NEW s \in Sector, NEW op \in {"read", "write"}, EvictFails(s, op)
      PROVE  CacheSafe'
  <2>1. disk' \in [Sector -> Data] /\ UsedAfterScan \in [Slot -> BOOLEAN]
    BY <1>4, <1>v, WritebackType, ScanType DEF EvictFails, v
  <2> QED BY <1>4, <2>1, OutFacts DEF EvictFails, TypeOK, NoAlias, flush
<1>5. ASSUME NEW s \in Sector, NEW x \in Data, WriteHit(s, x)
      PROVE  CacheSafe'
  <2>1. CacheFind(s) \in Slot
    BY <1>5, FindFacts DEF WriteHit
  <2> QED BY <1>5, <2>1, OutFacts DEF WriteHit, TypeOK, NoAlias, flush
<1>6. ASSUME NEW s \in Sector, NEW x \in Data, WriteMiss(s, x)
      PROVE  CacheSafe'
  <2>1. disk' \in [Sector -> Data] /\ UsedAfterScan \in [Slot -> BOOLEAN]
    BY <1>6, <1>v, WritebackType, ScanType DEF WriteMiss, v
  <2>2. TypeOK'
    BY <1>6, <1>v, <2>1, OutFacts DEF WriteMiss, v, TypeOK, flush
  <2>3. NoAlias'
    BY <1>6, <1>v DEF WriteMiss, v, TypeOK, NoAlias, Cached, Holds
  <2> QED BY <2>2, <2>3
<1>7. ASSUME NEW d \in Dev, FlushStart(d)
      PROVE  CacheSafe'
  BY <1>7, CacheAssumption DEF FlushStart, TypeOK, NoAlias, entries
<1>8. CASE FlushSkip
  BY <1>8, CacheAssumption DEF FlushSkip, TypeOK, NoAlias, entries, Slot
<1>9. CASE FlushSlot
  <2>1. disk' \in [Sector -> Data]
    BY <1>9, WritebackType DEF FlushSlot
  <2>2. fpos' \in 1 .. NSlots + 1
    BY <1>9, CacheAssumption DEF FlushSlot, Slot
  <2> QED BY <1>9, <2>1, <2>2 DEF FlushSlot, TypeOK, NoAlias
<1>10. CASE FlushSlotFails
  <2>1. disk' \in [Sector -> Data]
    BY <1>10, WritebackType DEF FlushSlotFails
  <2>2. fpos' \in 1 .. NSlots + 1
    BY <1>10, CacheAssumption DEF FlushSlotFails, Slot
  <2> QED BY <1>10, <2>1, <2>2 DEF FlushSlotFails, TypeOK, NoAlias, entries
<1>11. CASE FlushEnd
  BY <1>11, OutFacts DEF FlushEnd, TypeOK, NoAlias, entries
<1>12. CASE LateDma
  BY <1>12 DEF LateDma, TypeOK, NoAlias, flush
<1>13. CASE Reboot
  BY <1>13, CacheAssumption, OutFacts DEF Reboot, TypeOK, NoAlias
<1>14. CASE UNCHANGED vars
  BY <1>14 DEF vars, TypeOK, NoAlias
<1> QED BY <1>1, <1>2, <1>3, <1>4, <1>5, <1>6, <1>7, <1>8, <1>9, <1>10, <1>11, <1>12, <1>13, <1>14
        DEF Next, Read, Write, Flush

(* No sector is cached twice, on any disk and after any failure.           *)
THEOREM CacheHasNoAlias == Spec => []NoAlias
<1>1. CacheSafe => NoAlias
  BY DEF CacheSafe
<1> QED BY SafeInit, SafeStep, <1>1, PTL DEF Spec

-----------------------------------------------------------------------------
(* Disks without DMA: clean slots are true copies                          *)

(* What writing slot i back does to the medium, to the slots that are      *)
(* clean, and to slot i itself.                                            *)
LEMMA WritebackFacts ==
    ASSUME CacheInv, NEW i \in Slot, CacheWriteback(i)
    PROVE  /\ \A j \in Slot : valid[j] /\ ~dirty[j] => data[j] = disk'[sec[j]]
           /\ valid[i] => data[i] = disk'[sec[i]]
           /\ \A t \in Sector : (~valid[i] \/ t # sec[i]) => disk'[t] = disk[t]
BY DEF CacheInv, TypeOK, NoAlias, CleanIsTrue, CacheWriteback, Written, Dirty

LEMMA InvInit == Init => CacheInv
<1>1. Init => TypeOK /\ NoAlias
  BY SafeInit DEF CacheSafe
<1> QED BY <1>1 DEF Init, CacheInv, CleanIsTrue, FlushedSoFar

(* Every step preserves the invariant of the refinement.                   *)
LEMMA InvStep ==
    ASSUME Dma = FALSE
    PROVE  CacheInv /\ [Next]_vars => CacheInv'
<1> SUFFICES ASSUME CacheInv, [Next]_vars
             PROVE  CleanIsTrue' /\ FlushedSoFar' /\ dma' = {}
  BY SafeStep DEF CacheInv, CacheSafe
<1> DEFINE v == CacheFindVictim
<1>v. v \in Slot
  BY VictimFacts
<1> HIDE DEF v
<1>1. ASSUME NEW s \in Sector, ReadHit(s)
      PROVE  CleanIsTrue' /\ FlushedSoFar' /\ dma' = {}
  BY <1>1 DEF ReadHit, CacheInv, CleanIsTrue, FlushedSoFar, flush
<1>2. ASSUME NEW s \in Sector, ReadMiss(s)
      PROVE  CleanIsTrue' /\ FlushedSoFar' /\ dma' = {}
  <2>1. CacheWriteback(v)
    BY <1>2 DEF ReadMiss, v
  <2>2. CleanIsTrue'
    BY <1>2, <1>v, <2>1, WritebackFacts DEF ReadMiss, v, CleanIsTrue, CacheInv, TypeOK
  <2> QED BY <1>2, <2>2 DEF ReadMiss, CacheInv, FlushedSoFar, flush, Unlocked
<1>3. ASSUME NEW s \in Sector, ReadFails(s)
      PROVE  CleanIsTrue' /\ FlushedSoFar' /\ dma' = {}
  <2>1. CacheWriteback(v)
    BY <1>3 DEF ReadFails, v
  <2>2. UNCHANGED <<data, dma>> /\ UNCHANGED <<sec, valid, flush>>
    BY <1>3 DEF ReadFails
  <2>3. CleanIsTrue'
    BY <1>3, <1>v, <2>1, <2>2, WritebackFacts DEF ReadFails, v, CleanIsTrue, CacheInv, TypeOK
  <2> QED BY <1>3, <2>2, <2>3 DEF ReadFails, CacheInv, FlushedSoFar, flush, Unlocked
<1>4. ASSUME NEW s \in Sector, NEW op \in {"read", "write"}, EvictFails(s, op)
      PROVE  CleanIsTrue' /\ FlushedSoFar' /\ dma' = {}
  BY <1>4 DEF EvictFails, CacheWritebackFails, CacheInv, CleanIsTrue, FlushedSoFar, flush
<1>5. ASSUME NEW s \in Sector, NEW x \in Data, WriteHit(s, x)
      PROVE  CleanIsTrue' /\ FlushedSoFar' /\ dma' = {}
  BY <1>5 DEF WriteHit, CacheInv, TypeOK, CleanIsTrue, FlushedSoFar, flush, Unlocked
<1>6. ASSUME NEW s \in Sector, NEW x \in Data, WriteMiss(s, x)
      PROVE  CleanIsTrue' /\ FlushedSoFar' /\ dma' = {}
  <2>1. CacheWriteback(v)
    BY <1>6 DEF WriteMiss, v
  <2>2. CleanIsTrue'
    BY <1>6, <1>v, <2>1, WritebackFacts DEF WriteMiss, v, CleanIsTrue, CacheInv, TypeOK
  <2> QED BY <1>6, <2>2 DEF WriteMiss, CacheInv, FlushedSoFar, flush, Unlocked
<1>7. ASSUME NEW d \in Dev, FlushStart(d)
      PROVE  CleanIsTrue' /\ FlushedSoFar' /\ dma' = {}
  BY <1>7, CacheAssumption DEF FlushStart, CacheInv, CleanIsTrue, FlushedSoFar, entries, Slot
<1>8. CASE FlushSkip
  <2>1. CleanIsTrue' /\ dma' = {}
    BY <1>8 DEF FlushSkip, CacheInv, CleanIsTrue, entries
  <2>2. FlushedSoFar'
    BY <1>8 DEF FlushSkip, CacheInv, TypeOK, FlushedSoFar, entries, Flushable, Dirty, Slot
  <2> QED BY <2>1, <2>2
<1>9. CASE FlushSlot
  <2>1. CleanIsTrue'
    BY <1>9, WritebackFacts DEF FlushSlot, CleanIsTrue, CacheInv, TypeOK
  <2>2. FlushedSoFar'
    BY <1>9 DEF FlushSlot, CacheInv, TypeOK, FlushedSoFar, Slot
  <2> QED BY <1>9, <2>1, <2>2 DEF FlushSlot, CacheInv
<1>10. CASE FlushSlotFails
  BY <1>10 DEF FlushSlotFails, CacheWritebackFails, CacheInv, CleanIsTrue, FlushedSoFar, entries
<1>11. CASE FlushEnd
  BY <1>11 DEF FlushEnd, CacheInv, CleanIsTrue, FlushedSoFar, entries
<1>12. CASE LateDma
  BY <1>12 DEF LateDma, CacheInv
<1>13. CASE Reboot
  BY <1>13 DEF Reboot, CleanIsTrue, FlushedSoFar
<1>14. CASE UNCHANGED vars
  BY <1>14 DEF vars, CacheInv, CleanIsTrue, FlushedSoFar
<1> QED BY <1>1, <1>2, <1>3, <1>4, <1>5, <1>6, <1>7, <1>8, <1>9, <1>10, <1>11, <1>12, <1>13, <1>14
        DEF Next, Read, Write, Flush

-----------------------------------------------------------------------------
(* The refinement                                                          *)

(* A cached sector reads as its slot, any other as the medium.             *)
ViewSound == /\ View = [s \in Sector |-> View[s]]
             /\ \A i \in Slot, s \in Sector : Holds(i, s) => View[s] = data[i]
             /\ \A s \in Sector : ~Cached(s) => View[s] = disk[s]

LEMMA ViewFacts == NoAlias => ViewSound
<1> SUFFICES ASSUME NoAlias
             PROVE  ViewSound
  OBVIOUS
<1>1. ASSUME NEW i \in Slot, NEW s \in Sector, Holds(i, s)
      PROVE  View[s] = data[i]
  <2>1. Cached(s)
    BY <1>1 DEF Cached
  <2>2. CacheFind(s) = i
    BY <1>1, <2>1, FindFacts DEF NoAlias, Holds
  <2> QED BY <2>1, <2>2 DEF View
<1> QED BY <1>1 DEF View, ViewSound

LEMMA ViewFactsNext == NoAlias' => ViewSound'
BY ViewFacts, PTL

(* Writing a slot back puts what readers see on the medium.                *)
LEMMA WritebackDestages ==
    ASSUME CacheInv, NEW i \in Slot, CacheWriteback(i) \/ UNCHANGED disk
    PROVE  Store!Destage
<1>1. CASE UNCHANGED disk
  <2>1. disk' = [s \in Sector |-> disk[s]]
    BY <1>1 DEF CacheInv, TypeOK
  <2>2. \E S \in SUBSET Sector :
           disk' = [s \in Sector |-> IF s \in S THEN View[s] ELSE disk[s]]
    <3> WITNESS {} \in SUBSET Sector
    <3> QED BY <2>1
  <2> QED BY <2>2 DEF Store!Destage, Store!Sector, Sector
<1>2. CASE Dirty(i) /\ disk' = Written(i)
  <2>1. sec[i] \in Sector /\ View[sec[i]] = data[i]
    BY <1>2, ViewFacts DEF ViewSound, Dirty, CacheInv, TypeOK, Holds
  <2>2. disk' = [s \in Sector |-> IF s \in {sec[i]} THEN View[s] ELSE disk[s]]
    BY <1>2, <2>1 DEF Written, CacheInv, TypeOK
  <2>3. \E S \in SUBSET Sector :
           disk' = [s \in Sector |-> IF s \in S THEN View[s] ELSE disk[s]]
    BY <2>1, <2>2, Zenon
  <2> QED BY <2>3 DEF Store!Destage, Store!Sector, Sector
<1> QED BY <1>1, <1>2 DEF CacheWriteback

(* Taking over slot i for sector s changes nothing a reader sees but s.    *)
LEMMA TakeOver ==
    ASSUME CacheInv, CacheInv', NEW i \in Slot, NEW s \in Sector, ~Cached(s),
           CacheWriteback(i),
           sec' = [sec EXCEPT ![i] = s],
           valid' = [valid EXCEPT ![i] = TRUE],
           \A j \in Slot \ {i} : data'[j] = data[j]
    PROVE  View' = [View EXCEPT ![s] = data'[i]]
<1> USE DEF Holds
<1>0. NoAlias /\ NoAlias' /\ TypeOK
  BY DEF CacheInv
<1>1. View'[s] = data'[i]
  BY <1>0, ViewFactsNext DEF ViewSound, TypeOK
<1>2. ASSUME NEW t \in Sector, t # s
      PROVE  View'[t] = View[t]
  <2>1. CASE \E j \in Slot \ {i} : Holds(j, t)
    <3>1. PICK j \in Slot \ {i} : Holds(j, t)
      BY <2>1
    <3>2. Holds(j, t)'
      BY <3>1, <1>0 DEF TypeOK
    <3> QED BY <3>1, <3>2, <1>0, ViewFacts, ViewFactsNext DEF ViewSound
  <2>2. CASE ~\E j \in Slot \ {i} : Holds(j, t)
    <3>1. ~Cached(t)'
      BY <2>2, <1>2, <1>0 DEF Cached, TypeOK
    <3>2. View'[t] = disk'[t]
      BY <3>1, <1>0, ViewFactsNext DEF ViewSound
    <3>3. CASE Holds(i, t)
      BY <3>2, <3>3, <1>0, ViewFacts, WritebackFacts DEF ViewSound
    <3>4. CASE ~Holds(i, t)
      <4>1. ~Cached(t)
        BY <2>2, <3>4 DEF Cached
      <4> QED BY <3>2, <3>4, <4>1, <1>0, ViewFacts, WritebackFacts DEF ViewSound
    <3> QED BY <3>3, <3>4
  <2> QED BY <2>1, <2>2
<1>3. View \in [Sector -> {View[t] : t \in Sector}] /\ View' = [t \in Sector |-> View'[t]]
  BY <1>0, ViewFacts, ViewFactsNext DEF ViewSound
<1> QED BY <1>1, <1>2, <1>3

(* If slots and medium change in no cached data, a reader sees no change.  *)
LEMMA SameView ==
    ASSUME CacheInv, CacheInv', sec' = sec, valid' = valid, data' = data,
           \A t \in Sector : ~Cached(t) => disk'[t] = disk[t]
    PROVE  View' = View
<1>0. NoAlias /\ NoAlias'
  BY DEF CacheInv
<1>1. ASSUME NEW t \in Sector
      PROVE  View'[t] = View[t]
  <2>1. CASE Cached(t)
    <3>1. PICK j \in Slot : Holds(j, t)
      BY <2>1 DEF Cached
    <3>2. Holds(j, t)'
      BY <3>1 DEF Holds
    <3> QED BY <3>1, <3>2, <1>0, ViewFacts, ViewFactsNext DEF ViewSound
  <2>2. CASE ~Cached(t)
    <3>1. ~Cached(t)'
      BY <2>2 DEF Cached, Holds
    <3> QED BY <2>2, <3>1, <1>0, ViewFacts, ViewFactsNext DEF ViewSound
  <2> QED BY <2>1, <2>2
<1> QED BY <1>0, <1>1, ViewFacts, ViewFactsNext DEF ViewSound

(* A read shows what readers see, and changes nothing of it. *)
LEMMA ReadShows ==
    ASSUME CacheInv, CacheInv', NEW s \in Sector, ReadHit(s) \/ ReadMiss(s)
    PROVE  View' = View /\ out' = Got(View[s]) /\ Store!Destage
<1> DEFINE v == CacheFindVictim
<1>v. v \in Slot
  BY VictimFacts
<1> HIDE DEF v
<1>t. TypeOK /\ NoAlias
  BY DEF CacheInv
<1>1. CASE ReadHit(s)
  <2>1. View' = View
    BY <1>1, SameView DEF ReadHit
  <2>2. Store!Destage
    BY <1>1, <1>v, WritebackDestages DEF ReadHit
  <2>3. out' = Got(View[s])
    BY <1>1, <1>t, FindFacts, ViewFacts DEF ReadHit, ViewSound
  <2> QED BY <2>1, <2>2, <2>3
<1>2. CASE ReadMiss(s)
  <2>1. CacheWriteback(v) /\ ~Cached(s)
    BY <1>2 DEF ReadMiss, v
  <2>2. Store!Destage
    BY <2>1, <1>v, WritebackDestages
  <2>3. disk'[s] = View[s]
    BY <2>1, <1>v, <1>t, WritebackFacts, ViewFacts DEF ViewSound, Cached, Holds
  <2>4. View' = [View EXCEPT ![s] = data'[v]]
    BY <1>2, <2>1, <1>v, <1>t, TakeOver DEF ReadMiss, v, TypeOK
  <2>5. data'[v] = View[s]
    BY <1>2, <2>3, <1>v, <1>t DEF ReadMiss, v, TypeOK
  <2>6. View' = View
    BY <2>4, <2>5, <1>t, ViewFacts DEF ViewSound
  <2>7. out' = Got(View[s])
    BY <1>2, <2>3 DEF ReadMiss
  <2> QED BY <2>2, <2>6, <2>7
<1> QED BY <1>1, <1>2

(* A write changes what readers see of its sector. *)
LEMMA WriteShows ==
    ASSUME CacheInv, CacheInv', NEW s \in Sector, NEW x \in Data, WriteHit(s, x) \/ WriteMiss(s, x)
    PROVE  View' = [View EXCEPT ![s] = x] /\ out' = Done("write") /\ Store!Destage
<1> DEFINE v == CacheFindVictim
<1>v. v \in Slot
  BY VictimFacts
<1> HIDE DEF v
<1>t. TypeOK /\ NoAlias
  BY DEF CacheInv
<1>1. CASE WriteHit(s, x)
  <2> DEFINE i == CacheFind(s)
  <2>1. i \in Slot /\ Holds(i, s)
    BY <1>1, FindFacts DEF WriteHit
  <2> HIDE DEF i
  <2>2. /\ UNCHANGED <<disk, sec, valid>>
        /\ data' = [data EXCEPT ![i] = x]
        /\ out' = Done("write")
    BY <1>1 DEF WriteHit, i
  <2>3. View' = [View EXCEPT ![s] = x]
    <3>1. View'[s] = x
      BY <2>1, <2>2, <1>t, ViewFactsNext DEF ViewSound, CacheInv, TypeOK, Holds
    <3>2. ASSUME NEW t \in Sector, t # s
          PROVE  View'[t] = View[t]
      <4>1. CASE Cached(t)
        <5>1. PICK k \in Slot : Holds(k, t)
          BY <4>1 DEF Cached
        <5>2. k # i /\ Holds(k, t)' /\ data'[k] = data[k]
          BY <2>1, <2>2, <3>2, <5>1, <1>t DEF Holds, TypeOK
        <5> QED BY <5>1, <5>2, <1>t, ViewFacts, ViewFactsNext DEF ViewSound, CacheInv
      <4>2. CASE ~Cached(t)
        <5>1. ~Cached(t)' /\ disk'[t] = disk[t]
          BY <4>2, <2>2 DEF Cached, Holds
        <5> QED BY <4>2, <5>1, <1>t, ViewFacts, ViewFactsNext DEF ViewSound, CacheInv
      <4> QED BY <4>1, <4>2
    <3>3. View = [t \in Sector |-> View[t]] /\ View' = [t \in Sector |-> View'[t]]
      BY <1>t, ViewFacts, ViewFactsNext DEF ViewSound, CacheInv
    <3> QED BY <3>1, <3>2, <3>3
  <2>4. Store!Destage
    BY <2>2, <1>v, WritebackDestages
  <2> QED BY <2>2, <2>3, <2>4
<1>2. CASE WriteMiss(s, x)
  <2>1. CacheWriteback(v) /\ ~Cached(s) /\ data'[v] = x /\ out' = Done("write")
    BY <1>2, <1>v, <1>t DEF WriteMiss, v, TypeOK
  <2>2. View' = [View EXCEPT ![s] = data'[v]]
    BY <1>2, <2>1, <1>v, <1>t, TakeOver DEF WriteMiss, v, TypeOK
  <2>3. Store!Destage
    BY <2>1, <1>v, WritebackDestages
  <2> QED BY <2>1, <2>2, <2>3
<1> QED BY <1>1, <1>2

(* A flush changes nothing a reader sees, and has the sectors of its       *)
(* device on the medium when it ends without an error.                     *)
LEMMA FlushSlotShows ==
    ASSUME CacheInv, CacheInv', FlushSlot
    PROVE  View' = View /\ Store!Destage
<1>1. fpos \in Slot /\ CacheWriteback(fpos) /\ UNCHANGED <<sec, data, valid>> /\ TypeOK
  BY DEF FlushSlot, CacheInv
<1>2. View' = View
  BY <1>1, WritebackFacts, SameView DEF Cached, Holds
<1>3. Store!Destage
  BY <1>1, WritebackDestages
<1> QED BY <1>2, <1>3

LEMMA FlushEndShows ==
    ASSUME CacheInv, FlushEnd, fok
    PROVE  \A l \in Lba : disk[<<fdev, l>>] = View[<<fdev, l>>]
<1> SUFFICES ASSUME NEW l \in Lba
             PROVE  disk[<<fdev, l>>] = View[<<fdev, l>>]
  OBVIOUS
<1>t. TypeOK /\ NoAlias /\ fdev \in Dev
  BY DEF CacheInv, FlushEnd, Unlocked, TypeOK
<1> DEFINE s == <<fdev, l>>
<1>1. s \in Sector /\ s[1] = fdev
  BY <1>t DEF Sector
<1> HIDE DEF s
<1>2. CASE Cached(s)
  <2>1. PICK i \in Slot : Holds(i, s)
    BY <1>2 DEF Cached
  <2>2. i < fpos
    BY <2>1, CacheAssumption DEF FlushEnd, Slot
  <2>3. ~dirty[i]
    BY <1>1, <2>1, <2>2 DEF FlushEnd, Unlocked, CacheInv, FlushedSoFar, Holds
  <2>4. data[i] = disk[s]
    BY <2>1, <2>3 DEF CacheInv, CleanIsTrue, Holds
  <2> QED BY <1>1, <2>1, <2>4, <1>t, ViewFacts DEF ViewSound, s
<1>3. CASE ~Cached(s)
  BY <1>1, <1>3, <1>t, ViewFacts DEF ViewSound, s
<1> QED BY <1>2, <1>3

(* The initial cache is empty, so readers see the medium.                  *)
LEMMA RefineInit == Init => Store!Init
<1> SUFFICES ASSUME Init
             PROVE  Store!Init
  OBVIOUS
<1>1. CacheInv
  BY InvInit
<1>2. \A t \in Sector : ~Cached(t)
  BY DEF Init, Cached, Holds
<1>3. View = disk
  BY <1>1, <1>2, ViewFacts DEF ViewSound, CacheInv, TypeOK
<1> QED BY <1>3 DEF Init, Store!Init, None, Store!None, Sector, Store!Sector

(* Every step of the cache is a step of the store, or changes nothing the  *)
(* store has.                                                              *)
LEMMA RefineStep ==
    ASSUME Dma = FALSE
    PROVE  CacheInv /\ CacheInv' /\ [Next]_vars => [Store!Next]_(Store!vars)
<1> SUFFICES ASSUME CacheInv, CacheInv', [Next]_vars
             PROVE  Store!Next \/ UNCHANGED Store!vars
  OBVIOUS
<1> DEFINE v == CacheFindVictim
<1>v. v \in Slot
  BY VictimFacts
<1> HIDE DEF v
<1>t. TypeOK /\ NoAlias /\ Store!Sector = Sector
  BY DEF CacheInv, Sector, Store!Sector
<1>f. ASSUME NEW op \in {"read", "write", "flush"}, Store!Destage, View' = View, out' = Failed(op)
      PROVE  Store!Next
  <2>1. Store!Fail(op)
    BY <1>f DEF Store!Fail, Store!Failed, Failed
  <2> QED BY <2>1 DEF Store!Next
<1>1. ASSUME NEW s \in Sector, ReadHit(s) \/ ReadMiss(s)
      PROVE  Store!Next
  <2>1. View' = View /\ out' = Got(View[s]) /\ Store!Destage
    BY <1>1, ReadShows
  <2>2. Store!Read(s)
    BY <2>1 DEF Store!Read, Store!Got, Got
  <2> QED BY <2>2, <1>t DEF Store!Next
<1>3. ASSUME NEW s \in Sector, ReadFails(s)
      PROVE  Store!Next
  <2>1. CacheWriteback(v)
    BY <1>3 DEF ReadFails, v
  <2>2. UNCHANGED <<data, sec, valid>> /\ out' = Failed("read")
    BY <1>3 DEF ReadFails
  <2>3. View' = View
    BY <2>1, <2>2, <1>v, <1>t, WritebackFacts, SameView DEF Cached, Holds
  <2>4. Store!Destage
    BY <2>1, <1>v, WritebackDestages
  <2> QED BY <1>f, <2>2, <2>3, <2>4
<1>4. ASSUME NEW s \in Sector, NEW op \in {"read", "write"}, EvictFails(s, op)
      PROVE  Store!Next
  <2>1. UNCHANGED <<disk, data, sec, valid>> /\ out' = Failed(op)
    BY <1>4 DEF EvictFails, CacheWritebackFails
  <2>2. View' = View
    BY <2>1, SameView
  <2>3. Store!Destage
    BY <2>1, <1>v, WritebackDestages
  <2> QED BY <1>f, <2>1, <2>2, <2>3
<1>5. ASSUME NEW s \in Sector, NEW x \in Data, WriteHit(s, x) \/ WriteMiss(s, x)
      PROVE  Store!Next
  <2>1. View' = [View EXCEPT ![s] = x] /\ out' = Done("write") /\ Store!Destage
    BY <1>5, WriteShows
  <2>2. Store!Write(s, x)
    BY <2>1 DEF Store!Write, Store!Done, Done
  <2> QED BY <2>2, <1>t DEF Store!Next
<1>7. ASSUME NEW d \in Dev, FlushStart(d)
      PROVE  UNCHANGED Store!vars
  <2>1. View' = View
    BY <1>7, SameView DEF FlushStart, entries
  <2> QED BY <1>7, <2>1 DEF FlushStart, Store!vars
<1>8. CASE FlushSkip
  <2>1. View' = View
    BY <1>8, SameView DEF FlushSkip, entries
  <2> QED BY <1>8, <2>1 DEF FlushSkip, Store!vars
<1>9. CASE FlushSlot
  <2>1. View' = View /\ Store!Destage /\ UNCHANGED out
    BY <1>9, FlushSlotShows DEF FlushSlot
  <2>2. Store!Background
    BY <2>1 DEF Store!Background
  <2> QED BY <2>2 DEF Store!Next
<1>10. CASE FlushSlotFails
  <2>1. UNCHANGED <<disk, sec, data, valid, out>>
    BY <1>10 DEF FlushSlotFails, CacheWritebackFails, entries
  <2>2. View' = View
    BY <2>1, SameView
  <2> QED BY <2>1, <2>2 DEF Store!vars
<1>11. CASE FlushEnd
  <2>1. UNCHANGED <<disk, sec, data, valid>> /\ fdev \in Dev
    BY <1>11, <1>t DEF FlushEnd, entries, Unlocked, TypeOK
  <2>2. View' = View
    BY <2>1, SameView
  <2>3. Store!Destage
    BY <2>1, <1>v, WritebackDestages
  <2>4. CASE fok
    <3>1. \A l \in Lba : disk[<<fdev, l>>] = View[<<fdev, l>>]
      BY <1>11, <2>4, FlushEndShows
    <3>2. Store!Flush(fdev)
      BY <1>11, <2>1, <2>2, <2>3, <2>4, <3>1 DEF FlushEnd, Store!Flush, Store!Done, Done
    <3> QED BY <2>1, <3>2 DEF Store!Next
  <2>5. CASE ~fok
    BY <1>11, <1>f, <2>2, <2>3, <2>5 DEF FlushEnd
  <2> QED BY <2>4, <2>5
<1>12. CASE LateDma
  BY <1>12 DEF LateDma, CacheInv
<1>13. CASE Reboot
  <2>1. \A s \in Sector : ~Cached(s)'
    BY <1>13 DEF Reboot, Cached, Holds
  <2>2. View' = disk
    BY <1>13, <2>1, <1>t, ViewFactsNext DEF Reboot, ViewSound, CacheInv, TypeOK
  <2>3. Store!Reboot
    BY <1>13, <2>2 DEF Reboot, Store!Reboot, Store!None, None
  <2> QED BY <2>3 DEF Store!Next
<1>14. CASE UNCHANGED vars
  <2>1. View' = View
    BY <1>14, SameView DEF vars
  <2> QED BY <1>14, <2>1 DEF vars, Store!vars
<1> QED BY <1>1, <1>3, <1>4, <1>5, <1>7, <1>8, <1>9, <1>10, <1>11, <1>12, <1>13, <1>14
        DEF Next, Read, Write, Flush

(* Above a disk that does not use DMA the cache implements the sector      *)
(* store, for any number of slots and whatever commands fail.              *)
THEOREM CacheImplementsStore ==
    ASSUME Dma = FALSE
    PROVE  Spec => StoreSpec
<1>1. Init => CacheInv
  BY InvInit
<1>2. CacheInv /\ [Next]_vars => CacheInv'
  BY InvStep
<1>3. Init => Store!Init
  BY RefineInit
<1>4. CacheInv /\ CacheInv' /\ [Next]_vars => [Store!Next]_(Store!vars)
  BY RefineStep
<1> QED BY <1>1, <1>2, <1>3, <1>4, PTL DEF Spec, StoreSpec, Store!Spec
=============================================================================
