---------------------------- MODULE FatTxnProofs ----------------------------
(***************************************************************************)
(* Proofs about FatTxn, for any volume, cache and journal size: however an *)
(* operation ends the journal is closed, and above a disk whose commands   *)
(* succeed a transaction that was committed has happened, for readers and  *)
(* on the medium.                                                          *)
(***************************************************************************)
EXTENDS FatTxn, BlkCacheProofs

(* No entry of the journal from the k-th on is about sector s. *)
NonePending(s, k) == \A m \in DOMAIN j : m >= k => j[m][1] # s

Open == pc \in {"txn", "modify", "commit"}

(* The journal has room for every record of an operation. *)
JournalType ==
    /\ j \in Seq(Sector \X Data) /\ n \in Nat /\ ci \in Nat \ {0} /\ goal \in [Sector -> Data]
    /\ Open => active /\ Len(j) = n /\ n <= MaxRmw
    /\ pc = "modify" => n < MaxRmw /\ tgt \in Sector \X Rec

(* The cache is locked by the flush of a commit only, which succeeds. *)
LockHeld == /\ fok /\ rc
            /\ IF pc = "flush" THEN fdev = TheDev ELSE fdev = NoDev

(* Of the entries about a sector the last has what was asked for. *)
LastIsGoal == Open => \A k \in DOMAIN j : NonePending(j[k][1], k + 1) => j[k][2] = goal[j[k][1]]

(* While the commit writes the journal past the cache, older entries go to *)
(* the medium first: what is seen is right where no entry is to come, and  *)
(* in the cache.                                                           *)
Committing ==
    /\ CacheSafe /\ dma = {}
    /\ \A s \in Sector : Cached(s) => View[s] = goal[s]
    /\ \A s \in Sector : NonePending(s, ci) =>
          /\ View[s] = goal[s]
          /\ \A i \in Slot : Holds(i, s) /\ ~dirty[i] => data[i] = disk[s]

Coherent == IF pc = "commit" THEN Committing ELSE CacheInv /\ (pc # "mkdir" => View = goal)

(* The buffer has the sector as readers see it. *)
BufferTrue == pc = "modify" => buf = goal[tgt[1]]

(* Until an operation changes its first record, the medium has all that    *)
(* readers see but the new cluster of this mkdir and of those that gave up. *)
Settled == /\ pc = "idle" => fresh = {}
           /\ pc \in {"idle", "mkdir"} \/ (pc \in {"txn", "modify"} /\ n = 0) =>
                 \A s \in Sector \ (fresh \union loose) : disk[s] = View[s]

TxnInv == JournalType /\ JournalClosed /\ LockHeld /\ LastIsGoal /\ Coherent /\ BufferTrue /\ Settled
-----------------------------------------------------------------------------
(* The journal                                                             *)

(* No operation leaves the journal open, whatever fails: a transaction     *)
(* ends in fat32_journal_commit() or in fat32_journal_abort(), and both    *)
(* empty it.                                                               *)
THEOREM JournalNeverLeftOpen == TxnSpec => []JournalClosed
<1>1. TxnInit => JournalClosed
  BY DEF TxnInit, JournalClosed
<1>2. JournalClosed /\ [TxnNext]_txnvars => JournalClosed'
  <2> SUFFICES ASSUME JournalClosed, [TxnNext]_txnvars PROVE JournalClosed'
    OBVIOUS
  <2> USE DEF JournalClosed, journal, program
  <2>1. ASSUME NEW s, NEW v, MkdirFill(s, v) PROVE JournalClosed'
    BY <2>1 DEF MkdirFill
  <2>2. CASE JournalBegin
    BY <2>2 DEF JournalBegin
  <2>3. ASSUME NEW s, ScanRead(s) PROVE JournalClosed'
    BY <2>3 DEF ScanRead
  <2>4. ASSUME NEW s, NEW r, RmwRead(s, r) PROVE JournalClosed'
    BY <2>4 DEF RmwRead
  <2>5. ASSUME NEW b, RmwWrite(b) PROVE JournalClosed'
    BY <2>5 DEF RmwWrite
  <2>6. CASE Commit \/ CommitWrite
    BY <2>6 DEF Commit, CommitWrite
  <2>7. CASE CommitDone
    BY <2>7 DEF CommitDone
  <2>8. CASE CommitFlush \/ CommitEnd
    BY <2>8 DEF CommitFlush, CommitEnd
  <2>9. CASE CommitFails \/ GiveUp \/ PowerCycle
    BY <2>9 DEF CommitFails, GiveUp, PowerCycle, JournalAbort
  <2>10. CASE UNCHANGED txnvars
    BY <2>10 DEF txnvars
  <2> QED
    BY <2>1, <2>2, <2>3, <2>4, <2>5, <2>6, <2>7, <2>8, <2>9, <2>10 DEF TxnNext
<1> QED
  BY <1>1, <1>2, PTL DEF TxnSpec

-----------------------------------------------------------------------------
(* The cache below the transactions                                        *)

LEMMA OneDev == TheDev \in Dev /\ \A d \in Dev : d = TheDev
BY TxnAssumption DEF TheDev

LEMMA ViewType == CacheSafe => View \in [Sector -> Data]
<1> SUFFICES ASSUME CacheSafe PROVE View \in [Sector -> Data]
  OBVIOUS
<1>1. TypeOK /\ ViewSound
  BY ViewFacts DEF CacheSafe
<1>2. ASSUME NEW s \in Sector PROVE View[s] \in Data
  <2>1. CASE Cached(s)
    <3>1. PICK i \in Slot : Holds(i, s)
      BY <2>1 DEF Cached
    <3> QED
      BY <1>1, <3>1 DEF ViewSound, TypeOK
  <2>2. CASE ~Cached(s)
    BY <1>1, <2>2 DEF ViewSound, TypeOK
  <2> QED
    BY <2>1, <2>2
<1>3. View = [s \in Sector |-> View[s]]
  BY <1>1 DEF ViewSound
<1> QED
  BY <1>2, <1>3

(* What reaches the medium is what readers see. *)
LEMMA DestageFacts ==
    ASSUME Store!Destage
    PROVE  \A s \in Sector : disk'[s] = View[s] \/ disk'[s] = disk[s]
BY DEF Store!Destage, Store!Sector, Sector

LEMMA ReadKeeps ==
    ASSUME CacheInv, NEW s \in Sector, SectorRead(s)
    PROVE  /\ CacheInv' /\ View' = View /\ out'.val = View[s] /\ UNCHANGED flush
           /\ \A t \in Sector : disk'[t] = View[t] \/ disk'[t] = disk[t]
<1>1. ReadHit(s) \/ ReadMiss(s)
  BY DEF SectorRead
<1>2. Next
  BY <1>1 DEF Next, Read
<1>3. CacheInv'
  BY <1>2, InvStep, TxnAssumption
<1>4. View' = View /\ out' = Got(View[s]) /\ Store!Destage
  BY <1>1, <1>3, ReadShows
<1>5. UNCHANGED flush
  BY <1>1 DEF ReadHit, ReadMiss, flush
<1> QED
  BY <1>3, <1>4, <1>5, DestageFacts DEF Got

LEMMA WriteKeeps ==
    ASSUME Faulty = FALSE, CacheInv, NEW s \in Sector, NEW v \in Data, SectorWrite(s, v)
    PROVE  /\ CacheInv' /\ View' = [View EXCEPT ![s] = v] /\ UNCHANGED flush
           /\ \A t \in Sector : disk'[t] = View[t] \/ disk'[t] = disk[t]
<1>1. WriteHit(s, v) \/ WriteMiss(s, v)
  BY DEF SectorWrite
<1>2. Next
  BY <1>1 DEF Next, Write
<1>3. CacheInv'
  BY <1>2, InvStep, TxnAssumption
<1>4. View' = [View EXCEPT ![s] = v] /\ Store!Destage
  BY <1>1, <1>3, WriteShows
<1>5. UNCHANGED flush
  BY <1>1 DEF WriteHit, WriteMiss, flush
<1> QED
  BY <1>3, <1>4, <1>5, DestageFacts

LEMMA StillKeeps ==
    ASSUME CacheInv, UNCHANGED vars
    PROVE  CacheInv' /\ View' = View
<1>1. CacheInv'
  BY InvStep, TxnAssumption
<1> QED
  BY <1>1, SameView DEF vars

-----------------------------------------------------------------------------
(* The steps of an operation                                               *)

LEMMA TxnInvInit == TxnInit => TxnInv
<1> SUFFICES ASSUME TxnInit PROVE TxnInv
  OBVIOUS
<1>1. Init /\ pc = "idle" /\ j = <<>> /\ n = 0 /\ ci = 1 /\ goal = disk /\ fresh = {}
  BY DEF TxnInit
<1>2. CacheInv /\ View = disk
  BY <1>1, InvInit, RefineInit DEF Store!Init
<1>3. JournalType
  BY <1>1, <1>2 DEF JournalType, Open, CacheInv, TypeOK
<1>4. JournalClosed /\ LockHeld
  BY <1>1 DEF TxnInit, JournalClosed, LockHeld, Init
<1>5. LastIsGoal /\ BufferTrue
  BY <1>1 DEF LastIsGoal, Open, BufferTrue
<1>6. Coherent /\ Settled
  BY <1>1, <1>2 DEF Coherent, Settled
<1> QED
  BY <1>3, <1>4, <1>5, <1>6 DEF TxnInv

(* mkdir fills a sector of the new cluster. *)
LEMMA MkdirKeeps ==
    ASSUME Faulty = FALSE, TxnInv, NEW s \in Sector, NEW v \in Data, MkdirFill(s, v)
    PROVE  TxnInv'
<1>1. /\ pc \in {"idle", "mkdir"} /\ pc' = "mkdir" /\ fresh' = fresh \union {s}
      /\ UNCHANGED <<active, j, ci, n, buf, tgt, loose, goal, rc>> /\ SectorWrite(s, v)
  BY DEF MkdirFill, journal, history
<1>2. CacheInv
  BY <1>1 DEF TxnInv, Coherent
<1>3. /\ CacheInv' /\ View' = [View EXCEPT ![s] = v] /\ UNCHANGED flush
      /\ \A t \in Sector : disk'[t] = View[t] \/ disk'[t] = disk[t]
  BY <1>1, <1>2, WriteKeeps
<1>4. JournalType'
  BY <1>1 DEF TxnInv, JournalType, Open
<1>5. JournalClosed'
  BY <1>1 DEF TxnInv, JournalClosed
<1>6. LockHeld'
  BY <1>1, <1>3 DEF TxnInv, LockHeld, flush
<1>7. LastIsGoal' /\ BufferTrue'
  BY <1>1 DEF LastIsGoal, Open, BufferTrue
<1>8. Coherent'
  BY <1>1, <1>3 DEF Coherent
<1>9. Settled'
  <2>1. ASSUME NEW t \in Sector, t \notin fresh', t \notin loose' PROVE disk'[t] = View'[t]
    <3>1. t # s /\ disk[t] = View[t]
      BY <1>1, <2>1 DEF TxnInv, Settled
    <3>2. View'[t] = View[t]
      BY <1>2, <1>3, <3>1, ViewType DEF CacheInv, CacheSafe
    <3> QED
      BY <1>3, <3>1, <3>2
  <2> QED
    BY <1>1, <2>1 DEF Settled
<1> QED
  BY <1>4, <1>5, <1>6, <1>7, <1>8, <1>9 DEF TxnInv

(* fat32_journal_begin() opens an empty journal. *)
LEMMA BeginKeeps ==
    ASSUME TxnInv, JournalBegin
    PROVE  TxnInv'
<1>1. /\ pc \in {"idle", "mkdir"} /\ pc' = "txn" /\ n' = 0 /\ goal' = View
      /\ UNCHANGED <<ci, buf, tgt, fresh, loose, rc>> /\ UNCHANGED vars
  BY DEF JournalBegin
<1>2. ~active
  BY <1>1 DEF TxnInv, JournalClosed
<1>3. active' /\ j' = <<>>
  BY <1>2 DEF JournalBegin
<1>4. CacheInv /\ CacheInv' /\ View' = View
  BY <1>1, StillKeeps DEF TxnInv, Coherent
<1>5. View \in [Sector -> Data]
  BY <1>4, ViewType DEF CacheInv, CacheSafe
<1>6. JournalType'
  BY <1>1, <1>3, <1>5, TxnAssumption DEF TxnInv, JournalType, Open
<1>7. JournalClosed' /\ BufferTrue'
  BY <1>1 DEF JournalClosed, BufferTrue
<1>8. LockHeld'
  BY <1>1 DEF TxnInv, LockHeld, vars
<1>9. LastIsGoal'
  BY <1>3 DEF LastIsGoal
<1>10. Coherent'
  BY <1>1, <1>4 DEF Coherent
<1>11. Settled'
  BY <1>1, <1>4 DEF TxnInv, Settled, vars
<1> QED
  BY <1>6, <1>7, <1>8, <1>9, <1>10, <1>11 DEF TxnInv

(* A read that changes nothing. *)
LEMMA ScanKeeps ==
    ASSUME Faulty = FALSE, TxnInv, NEW s \in Sector, ScanRead(s)
    PROVE  TxnInv'
<1>1. /\ pc \in {"idle", "txn"} /\ SectorRead(s)
      /\ UNCHANGED <<active, j, pc, ci, n, buf, tgt, fresh, loose, goal, rc>>
  BY DEF ScanRead, SectorReadFails, journal, program, history
<1>2. CacheInv /\ View = goal
  BY <1>1 DEF TxnInv, Coherent
<1>3. /\ CacheInv' /\ View' = View /\ UNCHANGED flush
      /\ \A t \in Sector : disk'[t] = View[t] \/ disk'[t] = disk[t]
  BY <1>1, <1>2, ReadKeeps
<1>4. JournalType'
  BY <1>1 DEF TxnInv, JournalType, Open
<1>5. JournalClosed'
  BY <1>1 DEF TxnInv, JournalClosed
<1>6. LockHeld'
  BY <1>1, <1>3 DEF TxnInv, LockHeld, flush
<1>7. LastIsGoal' /\ BufferTrue'
  BY <1>1 DEF TxnInv, LastIsGoal, Open, BufferTrue, NonePending
<1>8. Coherent'
  BY <1>1, <1>2, <1>3 DEF Coherent
<1>9. Settled'
  BY <1>1, <1>3 DEF TxnInv, Settled
<1> QED
  BY <1>4, <1>5, <1>6, <1>7, <1>8, <1>9 DEF TxnInv

(* The read of a read-modify-write brings what readers see. *)
LEMMA RmwReadKeeps ==
    ASSUME Faulty = FALSE, TxnInv, NEW s \in Sector, NEW r \in Rec, RmwRead(s, r)
    PROVE  TxnInv'
<1>1. /\ pc = "txn" /\ SectorRead(s) /\ buf' = out'.val
      /\ pc' = "modify" /\ tgt' = <<s, r>>
      /\ UNCHANGED <<active, j, ci, n, fresh, loose, goal, rc>>
  BY DEF RmwRead, SectorReadFails, journal, history
<1>2. CacheInv /\ View = goal
  BY <1>1 DEF TxnInv, Coherent
<1>3. /\ CacheInv' /\ View' = View /\ UNCHANGED flush /\ out'.val = View[s]
      /\ \A t \in Sector : disk'[t] = View[t] \/ disk'[t] = disk[t]
  BY <1>1, <1>2, ReadKeeps
<1>4. n < MaxRmw
  BY TxnAssumption DEF RmwRead, TxnInv, JournalType
<1>5. JournalType'
  BY <1>1, <1>4 DEF TxnInv, JournalType, Open
<1>6. JournalClosed'
  BY <1>1 DEF JournalClosed
<1>7. LockHeld'
  BY <1>1, <1>3 DEF TxnInv, LockHeld, flush
<1>8. LastIsGoal'
  BY <1>1 DEF TxnInv, LastIsGoal, Open, NonePending
<1>9. BufferTrue'
  BY <1>1, <1>2, <1>3 DEF BufferTrue
<1>10. Coherent'
  BY <1>1, <1>2, <1>3 DEF Coherent
<1>11. Settled'
  BY <1>1, <1>3 DEF TxnInv, Settled
<1> QED
  BY <1>5, <1>6, <1>7, <1>8, <1>9, <1>10, <1>11 DEF TxnInv

(* Its write makes the journal's last entry about the sector, the cache    *)
(* and what was asked for the same.                                        *)
LEMMA RmwWriteKeeps ==
    ASSUME Faulty = FALSE, TxnInv, NEW b \in Val, RmwWrite(b)
    PROVE  TxnInv'
<1> DEFINE s == tgt[1]
           r == tgt[2]
           v == [buf EXCEPT ![r] = b]
<1>1. /\ pc = "modify" /\ pc' = "txn" /\ n' = n + 1
      /\ goal' = [goal EXCEPT ![s][r] = b]
      /\ JournalAdd(s, v) /\ SectorWrite(s, v)
      /\ UNCHANGED <<ci, fresh, loose, rc>>
  BY DEF RmwWrite
<1>2. s \in Sector /\ r \in Rec /\ n \in Nat /\ n < MaxRmw /\ active /\ Len(j) = n /\ goal \in [Sector -> Data]
      /\ j \in Seq(Sector \X Data)
  BY <1>1 DEF TxnInv, JournalType, Open
<1>3. buf = goal[s] /\ buf \in [Rec -> Val] /\ Data = [Rec -> Val]
  BY <1>1, <1>2, TxnAssumption DEF TxnInv, BufferTrue
<1>4. v \in Data
  BY <1>2, <1>3
<1>5. j' = Append(j, <<s, v>>) /\ UNCHANGED active
  <2>1. Len(j) < MaxEntries
    BY <1>2, TxnAssumption
  <2> QED
    BY <1>1, <1>2, <2>1, Zenon DEF JournalAdd
<1>6. goal' = [goal EXCEPT ![s] = v]
  BY <1>1, <1>2, <1>3
<1> HIDE DEF s, r, v
<1>7. CacheInv /\ View = goal
  BY <1>1 DEF TxnInv, Coherent
<1>8. CacheInv' /\ View' = [View EXCEPT ![s] = v] /\ UNCHANGED flush
  BY <1>1, <1>2, <1>4, <1>7, WriteKeeps
<1>9. /\ j' \in Seq(Sector \X Data) /\ Len(j') = n + 1 /\ j'[n + 1] = <<s, v>>
      /\ \A k \in 1 .. n : j'[k] = j[k]
  BY <1>2, <1>4, <1>5
<1>10. JournalType'
  BY <1>1, <1>2, <1>4, <1>5, <1>6, <1>9, TxnAssumption DEF TxnInv, JournalType, Open
<1>11. JournalClosed' /\ BufferTrue'
  BY <1>1 DEF JournalClosed, BufferTrue
<1>12. LockHeld'
  BY <1>1, <1>8 DEF TxnInv, LockHeld, flush
<1>13. LastIsGoal'
  <2> SUFFICES ASSUME NEW k \in DOMAIN j', \A m \in DOMAIN j' : m >= k + 1 => j'[m][1] # j'[k][1]
               PROVE  j'[k][2] = goal'[j'[k][1]]
    BY DEF LastIsGoal, NonePending
  <2>1. k \in 1 .. n + 1 /\ DOMAIN j' = 1 .. n + 1 /\ DOMAIN j = 1 .. n
    BY <1>2, <1>9
  <2>2. CASE k = n + 1
    BY <1>2, <1>6, <1>9, <2>2
  <2>3. CASE k \in 1 .. n
    <3>1. j'[k] = j[k] /\ j[k] \in Sector \X Data
      BY <1>2, <1>9, <2>3
    <3>2. j[k][1] # s
      <4>1. n + 1 \in DOMAIN j' /\ n + 1 >= k + 1
        BY <1>2, <2>1, <2>3
      <4>2. j'[n + 1][1] # j'[k][1] /\ j'[n + 1][1] = s
        BY <1>9, <4>1
      <4> QED
        BY <3>1, <4>2
    <3>3. NonePending(j[k][1], k + 1)
      BY <1>2, <1>9, <2>1, <2>3, <3>1 DEF NonePending
    <3>4. j[k][2] = goal[j[k][1]]
      BY <1>1, <2>1, <2>3, <3>3 DEF TxnInv, LastIsGoal, Open
    <3> QED
      BY <1>2, <1>6, <3>1, <3>2, <3>4
  <2> QED
    BY <1>2, <2>1, <2>2, <2>3
<1>14. Coherent'
  BY <1>1, <1>6, <1>7, <1>8 DEF Coherent
<1>15. Settled'
  BY <1>1, <1>2 DEF Settled
<1> QED
  BY <1>10, <1>11, <1>12, <1>13, <1>14, <1>15 DEF TxnInv

(* The commit begins. *)
LEMMA CommitKeeps ==
    ASSUME TxnInv, Commit
    PROVE  TxnInv'
<1>1. /\ pc = "txn" /\ pc' = "commit" /\ ci' = 1 /\ UNCHANGED vars
      /\ UNCHANGED <<active, j, n, buf, tgt, fresh, loose, goal, rc>>
  BY DEF Commit, journal, history
<1>2. CacheInv /\ View = goal /\ CacheInv' /\ View' = View
  BY <1>1, StillKeeps DEF TxnInv, Coherent
<1>3. JournalType'
  BY <1>1 DEF TxnInv, JournalType, Open
<1>4. JournalClosed' /\ BufferTrue' /\ Settled'
  BY <1>1 DEF JournalClosed, BufferTrue, Settled
<1>5. LockHeld'
  BY <1>1 DEF TxnInv, LockHeld, vars
<1>6. LastIsGoal'
  BY <1>1 DEF TxnInv, LastIsGoal, Open, NonePending
<1>7. Committing'
  <2>1. CacheSafe' /\ dma' = {}
    BY <1>2 DEF CacheInv, CacheSafe
  <2>2. \A t \in Sector : View'[t] = goal'[t]
    BY <1>1, <1>2
  <2>3. ASSUME NEW t \in Sector, NEW i \in Slot, Holds(i, t)', ~dirty'[i] PROVE data'[i] = disk'[t]
    BY <1>2, <2>3 DEF CacheInv, CleanIsTrue, Holds
  <2> QED
    BY <2>1, <2>2, <2>3 DEF Committing
<1> QED
  BY <1>1, <1>3, <1>4, <1>5, <1>6, <1>7 DEF TxnInv, Coherent

(* The commit writes an entry: what readers see of its sector is right     *)
(* again with the last one.                                                *)
LEMMA CommitWriteKeeps ==
    ASSUME TxnInv, CommitWrite
    PROVE  TxnInv'
<1> DEFINE s == j[ci][1]
           v == j[ci][2]
<1>1. /\ pc = "commit" /\ pc' = "commit" /\ ci' = ci + 1 /\ ci <= Len(j) /\ disk' = [disk EXCEPT ![s] = v]
      /\ UNCHANGED <<sec, data, valid, dirty, used, fdev, fpos, fok, dma, out, active, j, n, buf, tgt, fresh, loose, goal, rc>>
  BY DEF CommitWrite, entries, flush, journal, history
<1>2. j \in Seq(Sector \X Data) /\ ci \in Nat \ {0} /\ Committing
  BY <1>1 DEF TxnInv, JournalType, Coherent
<1>3. ci \in DOMAIN j
  BY <1>1, <1>2
<1>4. s \in Sector /\ v \in Data
  BY <1>2, <1>3
<1>5. NonePending(s, ci + 1) => v = goal[s]
  BY <1>1, <1>3 DEF TxnInv, LastIsGoal, Open
<1>6. \A t \in Sector : t # s /\ NonePending(t, ci + 1) => NonePending(t, ci)
  BY <1>2 DEF NonePending
<1> HIDE DEF s, v
<1>7. TypeOK /\ NoAlias /\ ViewSound
  BY <1>2, ViewFacts DEF Committing, CacheSafe
<1>8. CacheSafe'
  <2>1. disk' \in [Sector -> Data]
    BY <1>1, <1>4, <1>7 DEF TypeOK
  <2> QED
    BY <1>1, <1>7, <2>1 DEF CacheSafe, TypeOK, NoAlias
<1>9. ViewSound'
  BY <1>8, ViewFactsNext DEF CacheSafe
<1>10. \A t \in Sector : /\ Cached(t)' = Cached(t)
                         /\ \A i \in Slot : Holds(i, t)' = Holds(i, t)
  BY <1>1 DEF Cached, Holds
<1>11. \A t \in Sector : Cached(t) => View'[t] = View[t]
  BY <1>1, <1>7, <1>9, <1>10 DEF ViewSound, Cached
<1>12. \A t \in Sector : ~Cached(t) => View'[t] = disk'[t] /\ View[t] = disk[t]
  BY <1>7, <1>9, <1>10 DEF ViewSound
<1>13. JournalType'
  BY <1>1 DEF TxnInv, JournalType, Open
<1>14. JournalClosed' /\ BufferTrue' /\ Settled'
  BY <1>1 DEF JournalClosed, BufferTrue, Settled
<1>15. LockHeld'
  BY <1>1 DEF TxnInv, LockHeld
<1>16. LastIsGoal'
  BY <1>1 DEF TxnInv, LastIsGoal, Open, NonePending
<1>17. Committing'
  <2>1. \A t \in Sector : Cached(t)' => View'[t] = goal'[t]
    BY <1>1, <1>2, <1>10, <1>11 DEF Committing
  <2>2. ASSUME NEW t \in Sector, NonePending(t, ci + 1)
        PROVE  /\ View'[t] = goal[t]
               /\ \A i \in Slot : Holds(i, t) /\ ~dirty[i] => data[i] = disk'[t]
    <3>1. CASE t = s
      <4>1. disk'[t] = goal[t]
        BY <1>1, <1>4, <1>5, <1>7, <2>2, <3>1 DEF TypeOK
      <4>2. View'[t] = goal[t]
        BY <1>1, <1>12, <2>1, <1>10, <4>1
      <4>3. \A i \in Slot : Holds(i, t) => data[i] = goal[t]
        BY <1>2, <1>7 DEF Committing, ViewSound, Cached
      <4> QED
        BY <4>1, <4>2, <4>3
    <3>2. CASE t # s
      <4>1. NonePending(t, ci) /\ disk'[t] = disk[t]
        BY <1>1, <1>4, <1>6, <1>7, <2>2, <3>2 DEF TypeOK
      <4>2. View[t] = goal[t] /\ \A i \in Slot : Holds(i, t) /\ ~dirty[i] => data[i] = disk[t]
        BY <1>2, <4>1 DEF Committing
      <4> QED
        BY <1>11, <1>12, <4>1, <4>2
    <3> QED
      BY <3>1, <3>2
  <2>3. \A t \in Sector : NonePending(t, ci)' => NonePending(t, ci + 1)
    BY <1>1 DEF NonePending
  <2>4. dma' = {}
    BY <1>1, <1>2 DEF Committing
  <2> QED
    BY <1>1, <1>8, <1>10, <2>1, <2>2, <2>3, <2>4 DEF Committing
<1> QED
  BY <1>1, <1>13, <1>14, <1>15, <1>16, <1>17 DEF TxnInv, Coherent

(* All entries are written: clean slots are true again, and the flush      *)
(* begins.                                                                 *)
LEMMA CommitDoneKeeps ==
    ASSUME TxnInv, CommitDone
    PROVE  TxnInv'
<1>1. /\ pc = "commit" /\ pc' = "flush" /\ ci > Len(j) /\ j' = <<>> /\ ~active' /\ FlushStart(TheDev)
      /\ UNCHANGED <<ci, n, buf, tgt, fresh, loose, goal, rc>>
  BY DEF CommitDone, history
<1>2. j \in Seq(Sector \X Data) /\ ci \in Nat /\ goal \in [Sector -> Data] /\ Committing
  BY <1>1 DEF TxnInv, JournalType, Coherent
<1>3. \A t \in Sector : NonePending(t, ci)
  BY <1>1, <1>2 DEF NonePending
<1>4. \A t \in Sector : /\ View[t] = goal[t]
                        /\ \A i \in Slot : Holds(i, t) /\ ~dirty[i] => data[i] = disk[t]
  BY <1>2, <1>3 DEF Committing
<1>5. TypeOK /\ NoAlias /\ dma = {}
  BY <1>2 DEF Committing, CacheSafe
<1>6. CleanIsTrue
  BY <1>4, <1>5 DEF CleanIsTrue, Holds, TypeOK
<1>7. FlushedSoFar
  BY <1>1 DEF TxnInv, LockHeld, FlushedSoFar
<1>8. CacheInv
  BY <1>5, <1>6, <1>7 DEF CacheInv
<1>9. View = goal
  <2>1. View \in [Sector -> Data]
    BY <1>2, ViewType DEF Committing
  <2> QED
    BY <1>2, <1>4, <2>1
<1>10. CacheInv'
  <2>1. Next
    BY <1>1, OneDev DEF Next
  <2> QED
    BY <1>8, <2>1, InvStep, TxnAssumption
<1>11. View' = View
  BY <1>1, <1>8, <1>10, SameView DEF FlushStart, entries
<1>12. JournalType'
  BY <1>1, <1>2 DEF TxnInv, JournalType, Open
<1>13. JournalClosed' /\ BufferTrue' /\ Settled' /\ LastIsGoal'
  BY <1>1 DEF JournalClosed, BufferTrue, Settled, LastIsGoal, Open
<1>14. LockHeld'
  BY <1>1 DEF TxnInv, LockHeld, FlushStart
<1> QED
  BY <1>1, <1>9, <1>10, <1>11, <1>12, <1>13, <1>14 DEF TxnInv, Coherent

(* The flush of a commit goes on. *)
LEMMA CommitFlushKeeps ==
    ASSUME Faulty = FALSE, TxnInv, CommitFlush
    PROVE  TxnInv'
<1>1. /\ pc = "flush" /\ (FlushSkip \/ FlushSlot)
      /\ UNCHANGED <<active, j, pc, ci, n, buf, tgt, fresh, loose, goal, rc>>
  BY DEF CommitFlush, journal, program, history
<1>2. CacheInv /\ View = goal
  BY <1>1 DEF TxnInv, Coherent
<1>3. CacheInv'
  <2>1. Next
    BY <1>1 DEF Next, Flush
  <2> QED
    BY <1>2, <2>1, InvStep, TxnAssumption
<1>4. View' = View
  <2>1. CASE FlushSkip
    BY <1>2, <1>3, <2>1, SameView DEF FlushSkip, entries
  <2>2. CASE FlushSlot
    BY <1>2, <1>3, <2>2, FlushSlotShows
  <2> QED
    BY <1>1, <2>1, <2>2
<1>5. UNCHANGED <<fdev, fok>>
  BY <1>1 DEF FlushSkip, FlushSlot
<1>6. JournalType'
  BY <1>1 DEF TxnInv, JournalType, Open
<1>7. JournalClosed'
  BY <1>1 DEF TxnInv, JournalClosed
<1>8. BufferTrue' /\ Settled' /\ LastIsGoal'
  BY <1>1 DEF BufferTrue, Settled, LastIsGoal, Open
<1>9. LockHeld'
  BY <1>1, <1>5 DEF TxnInv, LockHeld
<1> QED
  BY <1>1, <1>2, <1>3, <1>4, <1>6, <1>7, <1>8, <1>9 DEF TxnInv, Coherent

(* The flush ends: all that readers see is on the medium. *)
LEMMA CommitEndKeeps ==
    ASSUME TxnInv, CommitEnd
    PROVE  TxnInv'
<1>1. /\ pc = "flush" /\ FlushEnd /\ pc' = "idle" /\ ci' = 1 /\ n' = 0 /\ fresh' = {} /\ rc'
      /\ UNCHANGED <<active, j, buf, tgt, goal>>
  BY DEF CommitEnd, journal
<1>2. CacheInv /\ View = goal /\ fok /\ fdev = TheDev
  BY <1>1 DEF TxnInv, Coherent, LockHeld
<1>3. CacheInv'
  <2>1. Next
    BY <1>1 DEF Next, Flush
  <2> QED
    BY <1>2, <2>1, InvStep, TxnAssumption
<1>4. View' = View /\ disk' = disk
  BY <1>1, <1>2, <1>3, SameView DEF FlushEnd, entries
<1>5. \A t \in Sector : disk[t] = View[t]
  <2>1. \A l \in Lba : disk[<<TheDev, l>>] = View[<<TheDev, l>>]
    BY <1>1, <1>2, FlushEndShows
  <2> QED
    BY <2>1, OneDev DEF Sector
<1>6. JournalType'
  BY <1>1 DEF TxnInv, JournalType, Open
<1>7. JournalClosed'
  BY <1>1 DEF TxnInv, JournalClosed
<1>8. BufferTrue' /\ LastIsGoal'
  BY <1>1 DEF BufferTrue, LastIsGoal, Open
<1>9. Settled'
  BY <1>1, <1>4, <1>5 DEF Settled
<1>10. LockHeld'
  BY <1>1, <1>2 DEF LockHeld, FlushEnd
<1> QED
  BY <1>1, <1>2, <1>3, <1>4, <1>6, <1>7, <1>8, <1>9, <1>10 DEF TxnInv, Coherent

(* The operation gives up before it changed anything. *)
LEMMA GiveUpKeeps ==
    ASSUME TxnInv, GiveUp
    PROVE  TxnInv'
<1>1. /\ pc = "txn" /\ n = 0 /\ ~active' /\ j' = <<>> /\ pc' = "idle" /\ ci' = 1 /\ n' = 0
      /\ fresh' = {} /\ loose' = loose \union fresh /\ UNCHANGED <<goal, rc>> /\ UNCHANGED vars
  BY DEF GiveUp, JournalAbort
<1>2. CacheInv /\ View = goal /\ CacheInv' /\ View' = View
  BY <1>1, StillKeeps DEF TxnInv, Coherent
<1>3. JournalType'
  BY <1>1 DEF TxnInv, JournalType, Open
<1>4. JournalClosed' /\ BufferTrue' /\ LastIsGoal'
  BY <1>1 DEF JournalClosed, BufferTrue, LastIsGoal, Open
<1>5. Settled'
  BY <1>1, <1>2 DEF TxnInv, Settled, vars
<1>6. LockHeld'
  BY <1>1 DEF TxnInv, LockHeld, vars
<1> QED
  BY <1>1, <1>2, <1>3, <1>4, <1>5, <1>6 DEF TxnInv, Coherent

(* Power fails and the volume is mounted again, at any moment. *)
LEMMA PowerCycleKeeps ==
    ASSUME TxnInv, PowerCycle
    PROVE  TxnInv'
<1>1. /\ Reboot /\ ~active' /\ j' = <<>> /\ pc' = "idle" /\ ci' = 1 /\ n' = 0
      /\ fresh' = {} /\ loose' = {} /\ goal' = disk /\ rc'
  BY DEF PowerCycle
<1>2. CacheSafe
  BY DEF TxnInv, Coherent, Committing, CacheInv, CacheSafe
<1>3. CacheSafe'
  BY <1>1, <1>2, SafeStep DEF Next
<1>4. disk' = disk /\ fdev' = NoDev /\ dma' = {} /\ fok' /\ \A i \in Slot : ~valid'[i]
  BY <1>1 DEF Reboot
<1>5. CacheInv'
  BY <1>3, <1>4 DEF CacheInv, CacheSafe, CleanIsTrue, FlushedSoFar
<1>6. View' = disk
  <2>1. \A t \in Sector : ~Cached(t)'
    BY <1>4 DEF Cached, Holds
  <2>2. ViewSound'
    BY <1>3, ViewFactsNext DEF CacheSafe
  <2>3. \A t \in Sector : View'[t] = disk[t]
    BY <1>4, <2>1, <2>2 DEF ViewSound
  <2>4. View' = [t \in Sector |-> View'[t]]
    BY <2>2 DEF ViewSound
  <2> QED
    BY <1>2, <2>3, <2>4 DEF CacheSafe, TypeOK
<1>7. JournalType'
  BY <1>1, <1>2 DEF JournalType, Open, CacheSafe, TypeOK
<1>8. JournalClosed' /\ BufferTrue' /\ LastIsGoal'
  BY <1>1 DEF JournalClosed, BufferTrue, LastIsGoal, Open
<1>9. Settled' /\ LockHeld'
  BY <1>1, <1>4, <1>6 DEF Settled, LockHeld
<1> QED
  BY <1>1, <1>5, <1>6, <1>7, <1>8, <1>9 DEF TxnInv, Coherent

LEMMA TxnIdle ==
    ASSUME TxnInv, UNCHANGED txnvars
    PROVE  TxnInv'
<1>1. UNCHANGED vars /\ UNCHANGED <<active, j, pc, ci, n, buf, tgt, fresh, loose, goal, rc>>
  BY DEF txnvars, journal, program, history
<1>2. JournalType' /\ JournalClosed'
  BY <1>1 DEF TxnInv, JournalType, JournalClosed, Open
<1>3. LockHeld'
  BY <1>1 DEF TxnInv, LockHeld, vars
<1>4. LastIsGoal' /\ BufferTrue'
  BY <1>1 DEF TxnInv, LastIsGoal, BufferTrue, Open, NonePending
<1>5. CASE pc = "commit"
  <2>1. Committing
    BY <1>5 DEF TxnInv, Coherent
  <2>2. Committing'
    <3>1. CacheSafe'
      BY <1>1, <2>1, SafeStep DEF Committing
    <3>2. ViewSound /\ ViewSound'
      BY <2>1, <3>1, ViewFacts, ViewFactsNext DEF Committing, CacheSafe
    <3>3. \A t \in Sector : /\ Cached(t)' = Cached(t) /\ NonePending(t, ci)' = NonePending(t, ci)
                            /\ \A i \in Slot : Holds(i, t)' = Holds(i, t)
      BY <1>1 DEF Cached, Holds, NonePending, vars
    <3>4. \A t \in Sector : View'[t] = View[t]
      BY <1>1, <3>2, <3>3 DEF ViewSound, Cached, vars
    <3> QED
      BY <1>1, <2>1, <3>1, <3>3, <3>4 DEF Committing, vars
  <2> QED
    BY <1>1, <1>2, <1>3, <1>4, <1>5, <2>2 DEF TxnInv, Coherent, Settled
<1>6. CASE pc # "commit"
  <2>1. CacheInv /\ CacheInv' /\ View' = View
    BY <1>1, <1>6, StillKeeps DEF TxnInv, Coherent
  <2>2. Coherent'
    BY <1>1, <1>6, <2>1 DEF TxnInv, Coherent
  <2>3. Settled'
    BY <1>1, <2>1 DEF TxnInv, Settled, vars
  <2> QED
    BY <1>2, <1>3, <1>4, <2>2, <2>3 DEF TxnInv
<1> QED
  BY <1>5, <1>6

-----------------------------------------------------------------------------
LEMMA TxnInvNext ==
    ASSUME Faulty = FALSE
    PROVE  TxnInv /\ [TxnNext]_txnvars => TxnInv'
<1> SUFFICES ASSUME TxnInv, [TxnNext]_txnvars PROVE TxnInv'
  OBVIOUS
<1>1. ~CommitFails
  BY DEF CommitFails
<1> QED
  BY <1>1, MkdirKeeps, BeginKeeps, ScanKeeps, RmwReadKeeps, RmwWriteKeeps, CommitKeeps, CommitWriteKeeps,
     CommitDoneKeeps, CommitFlushKeeps, CommitEndKeeps, GiveUpKeeps, PowerCycleKeeps, TxnIdle DEF TxnNext

(* On a disk whose commands succeed, when fat32_journal_commit() has       *)
(* returned 0 readers see every record that the operation changed and no   *)
(* other change, although older entries of the journal went to the medium  *)
(* behind the cache.                                                       *)
THEOREM CommittedIsSeen ==
    ASSUME Faulty = FALSE
    PROVE  TxnSpec => []CommitApplies
<1>1. TxnInv => CommitApplies
  BY DEF TxnInv, Coherent, CommitApplies
<1>2. TxnInv /\ [TxnNext]_txnvars => TxnInv'
  BY TxnInvNext
<1> QED
  BY <1>1, <1>2, TxnInvInit, PTL DEF TxnSpec

(* And it is on the medium, where the parts of the driver that read the    *)
(* device past the cache find it; only the clusters of directories whose   *)
(* creation was given up may be missing.                                   *)
THEOREM CommittedIsOnDisk ==
    ASSUME Faulty = FALSE
    PROVE  TxnSpec => []CommitReachesDisk
<1>1. TxnInv => CommitReachesDisk
  BY DEF TxnInv, Settled, CommitReachesDisk
<1>2. TxnInv /\ [TxnNext]_txnvars => TxnInv'
  BY TxnInvNext
<1> QED
  BY <1>1, <1>2, TxnInvInit, PTL DEF TxnSpec
=============================================================================
