------------------------------- MODULE FatTxn -------------------------------
(***************************************************************************)
(* The transactions of the FAT32 driver: kernel/fs/fat32/fat32_journal.c   *)
(* above the block cache, driven the way fat32_file.c and fat32_meta.c     *)
(* drive it.  Every operation that changes a directory or a file reads a   *)
(* sector through the cache, modifies records of it, adds it to the        *)
(* journal and writes it through the cache; a commit then writes the       *)
(* journal to the device, past the cache, and flushes the cache.           *)
(* fat_fs_lock makes operations sequential, so there is one control point. *)
(***************************************************************************)
EXTENDS BlkCache, Sequences

CONSTANTS MaxEntries,  \* MAX_JOURNAL_ENTRIES
          MaxRmw,      \* bound: records one operation changes
          Rec, Val,    \* the records of a sector and their values
          Faulty       \* TRUE: device commands may fail

(* The longest transactions are a move of a name with 20 long-name records *)
(* to one with 5 (28 sectors) and a sys_write() of 4096 bytes (10), so the *)
(* 32 entries are enough.                                                  *)
ASSUME TxnAssumption == /\ MaxEntries \in Nat /\ MaxRmw \in 1 .. MaxEntries
                        /\ Data = [Rec -> Val]
                        /\ Faulty \in BOOLEAN
                        /\ Dma = FALSE /\ \E d \in Dev : Dev = {d}

VARIABLES active, j,   \* global_journal: active, entries[0 .. count - 1]
          pc, ci,      \* the place in the operation, and in commit's loop
          n,           \* records changed so far
          buf, tgt,    \* the sector buffer on the stack and the record to change
          fresh,       \* sectors of a new directory cluster, not in the journal
          loose,       \* fresh sectors of an operation that gave up
          pre, goal,   \* history: contents before the operation; contents it asked for
          rc           \* history: what the last commit returned

journal == <<active, j>>
program == <<pc, ci, n, buf, tgt, fresh, loose>>
history == <<pre, goal, rc>>
txnvars == <<vars, journal, program, history>>

NoTarget == <<>>
TheDev == CHOOSE d \in Dev : TRUE

TxnInit == /\ Init
           /\ disk = [s \in Sector |-> Zero]
           /\ active = FALSE /\ j = <<>>
           /\ pc = "idle" /\ ci = 1 /\ n = 0
           /\ buf = Zero /\ tgt = NoTarget
           /\ fresh = {} /\ loose = {}
           /\ pre = disk /\ goal = disk /\ rc = TRUE

-----------------------------------------------------------------------------
(* The two calls of the cache, as the driver sees them.  Failures of the   *)
(* device are possible in the runs with Faulty only.                       *)

SectorRead(s) == ReadHit(s) \/ ReadMiss(s)

SectorReadFails(s) == Faulty /\ (ReadFails(s) \/ EvictFails(s, "read"))

SectorWrite(s, v) == \/ WriteHit(s, v)
                     \/ WriteMiss(s, v)
                     \/ Faulty /\ EvictFails(s, "write")

(* fat_mkdir_impl() fills the sectors of a new cluster before it begins a  *)
(* transaction, without the journal and without a look at the result.      *)
MkdirFill(s, v) == /\ pc \in {"idle", "mkdir"} /\ s \notin fresh
                   /\ SectorWrite(s, v)
                   /\ pc' = "mkdir"
                   /\ fresh' = fresh \union {s}
                   /\ UNCHANGED <<journal, ci, n, buf, tgt, loose, history>>

(* fat32_journal_begin() *)
JournalBegin == /\ pc \in {"idle", "mkdir"}
                /\ IF active THEN UNCHANGED journal ELSE active' = TRUE /\ j' = <<>>
                /\ pc' = "txn" /\ n' = 0
                /\ pre' = View /\ goal' = View
                /\ UNCHANGED <<vars, ci, buf, tgt, fresh, loose, rc>>

(* Directory scans of rmdir, parent_entry_add() and fat_write_impl(). *)
ScanRead(s) == /\ pc \in {"idle", "txn"}
               /\ SectorRead(s) \/ SectorReadFails(s)
               /\ UNCHANGED <<journal, program, history>>

(* The first half of a read-modify-write.  No caller looks at the result:  *)
(* after a failed read the buffer is whatever was on the stack.            *)
RmwRead(s, r) == /\ pc = "txn" /\ s \notin fresh
                 /\ n < IF fresh = {} THEN MaxRmw ELSE 1
                 /\ \/ SectorRead(s) /\ buf' = out'.val
                    \/ SectorReadFails(s) /\ buf' \in Data
                 /\ pc' = "modify" /\ tgt' = <<s, r>>
                 /\ UNCHANGED <<journal, ci, n, fresh, loose, history>>

(* fat32_journal_add(): without effect when the journal is full. *)
JournalAdd(s, v) == /\ j' = IF active /\ Len(j) < MaxEntries THEN Append(j, <<s, v>>) ELSE j
                    /\ UNCHANGED active

RmwWrite(b) == LET s == tgt[1]
                   v == [buf EXCEPT ![tgt[2]] = b]
               IN  /\ pc = "modify"
                   /\ JournalAdd(s, v)
                   /\ SectorWrite(s, v)
                   /\ pc' = "txn" /\ n' = n + 1
                   /\ buf' = Zero /\ tgt' = NoTarget
                   /\ goal' = [goal EXCEPT ![s][tgt[2]] = b]
                   /\ UNCHANGED <<ci, fresh, loose, pre, rc>>

-----------------------------------------------------------------------------
(* fat32_journal_commit(); mkdir commits after the record in its parent. *)

Commit == /\ pc = "txn" /\ active
          /\ fresh # {} => n = 1
          /\ pc' = "commit" /\ ci' = 1
          /\ UNCHANGED <<vars, journal, n, buf, tgt, fresh, loose, history>>

(* Mutant of CommitWrite: the entries are written last first. *)
CommitWriteReversed == /\ pc = "commit" /\ ci <= Len(j)
                       /\ disk' = [disk EXCEPT ![j[Len(j) + 1 - ci][1]] = j[Len(j) + 1 - ci][2]]
                       /\ ci' = ci + 1
                       /\ UNCHANGED <<entries, flush, dma, out, journal, pc, n, buf, tgt, fresh, loose, history>>

CommitWrite == /\ pc = "commit" /\ ci <= Len(j)
               /\ disk' = [disk EXCEPT ![j[ci][1]] = j[ci][2]]
               /\ ci' = ci + 1
               /\ UNCHANGED <<entries, flush, dma, out, journal, pc, n, buf, tgt, fresh, loose, history>>

(* Mutant of CommitDone: the cache is not flushed. *)
CommitDoneNoFlush == /\ pc = "commit" /\ ci > Len(j)
                     /\ active' = FALSE /\ j' = <<>>
                     /\ pc' = "idle" /\ n' = 0 /\ fresh' = {} /\ rc' = TRUE
                     /\ UNCHANGED <<vars, ci, buf, tgt, loose, pre, goal>>

(* The transaction is over; the cache is flushed, its result ignored. *)
CommitDone == /\ pc = "commit" /\ ci > Len(j)
              /\ active' = FALSE /\ j' = <<>>
              /\ FlushStart(TheDev)
              /\ pc' = "flush"
              /\ UNCHANGED <<ci, n, buf, tgt, fresh, loose, history>>

CommitFlush == /\ pc = "flush"
               /\ FlushSkip \/ FlushSlot \/ (Faulty /\ FlushSlotFails)
               /\ UNCHANGED <<journal, program, history>>

CommitEnd == /\ pc = "flush"
             /\ FlushEnd
             /\ pc' = "idle" /\ ci' = 1 /\ n' = 0
             /\ fresh' = {} /\ loose' = IF fok THEN {} ELSE loose
             /\ rc' = TRUE
             /\ UNCHANGED <<journal, buf, tgt, pre, goal>>

(* fat32_journal_abort() *)
JournalAbort == /\ active' = FALSE /\ j' = <<>>
                /\ pc' = "idle" /\ ci' = 1 /\ n' = 0
                /\ fresh' = {} /\ loose' = loose \union fresh
                /\ UNCHANGED <<buf, tgt, pre, goal>>

(* Mutant of CommitFails: the error is returned without an abort. *)
CommitFailsOpen == /\ Faulty
                   /\ pc = "commit" /\ ci <= Len(j)
                   /\ pc' = "idle" /\ ci' = 1 /\ n' = 0 /\ fresh' = {}
                   /\ rc' = FALSE
                   /\ UNCHANGED <<vars, journal, buf, tgt, loose, pre, goal>>

(* A write of the commit fails: abort and return the error. *)
CommitFails == /\ Faulty
               /\ pc = "commit" /\ ci <= Len(j)
               /\ JournalAbort
               /\ rc' = FALSE
               /\ UNCHANGED vars

(* The operation gives up before its first change: no free cluster in      *)
(* fat_write_impl(), no free record in parent_entry_add().                 *)
GiveUp == /\ pc = "txn" /\ n = 0
          /\ JournalAbort
          /\ UNCHANGED <<vars, rc>>

(* Power fails and the volume is mounted again. *)
PowerCycle == /\ Reboot
              /\ active' = FALSE /\ j' = <<>>
              /\ pc' = "idle" /\ ci' = 1 /\ n' = 0
              /\ buf' = Zero /\ tgt' = NoTarget
              /\ fresh' = {} /\ loose' = {}
              /\ pre' = disk /\ goal' = disk /\ rc' = TRUE

TxnNext == \/ \E s \in Sector, v \in Data : MkdirFill(s, v)
           \/ JournalBegin
           \/ \E s \in Sector : ScanRead(s)
           \/ \E s \in Sector, r \in Rec : RmwRead(s, r)
           \/ \E b \in Val : RmwWrite(b)
           \/ Commit \/ CommitWrite \/ CommitDone \/ CommitFlush \/ CommitEnd
           \/ CommitFails \/ GiveUp
           \/ PowerCycle

TxnSpec == TxnInit /\ [][TxnNext]_txnvars

-----------------------------------------------------------------------------
(* Every variable has its type. *)
TxnTypeOK == /\ TypeOK
             /\ active \in BOOLEAN /\ j \in Seq(Sector \X Data) /\ Len(j) <= MaxEntries
             /\ pc \in {"idle", "mkdir", "txn", "modify", "commit", "flush"}
             /\ ci \in 1 .. MaxEntries + 1 /\ n \in 0 .. MaxRmw
             /\ buf \in Data /\ tgt \in (Sector \X Rec) \union {NoTarget}
             /\ fresh \subseteq Sector /\ loose \subseteq Sector
             /\ pre \in [Sector -> Data] /\ goal \in [Sector -> Data] /\ rc \in BOOLEAN

(* No operation, however it ends, leaves the journal open: no caller looks  *)
(* at the result of fat32_journal_begin(), so the records of an operation   *)
(* that failed would be committed with those of the next one.               *)
JournalClosed == pc \in {"idle", "mkdir", "flush"} => ~active /\ j = <<>>

(* An operation whose commit returned 0 has done what it asked for: every   *)
(* record it changed has its new value and no other record has changed,     *)
(* whatever was evicted, re-read and written in between, and although the   *)
(* commit writes the journal behind the back of the cache                   *)
(* (fat32_journal_commit()).                                                *)
CommitApplies == pc = "idle" /\ rc => View = goal

(* fat32_journal.c:1-2: "provides atomic operations for FAT32 updates ...   *)
(* to ensure consistency": at every moment, the medium that a power failure *)
(* would leave is the one before the transaction or the one after it.       *)
CrashAtomic == pc \notin {"idle", "mkdir"} =>
                  \E X \in {pre, goal} : \A s \in Sector \ (fresh \union loose) : disk[s] = X[s]

(* fat32_journal.c:96, "Abort the transaction (discard changes)": after a   *)
(* commit that failed and aborted, readers see what was there before.       *)
AbortDiscards == pc = "idle" /\ ~rc => View = pre

(* fat32_journal.c:90, "Flush cache to ensure data reaches disk": when the  *)
(* commit has returned 0, all that the operation wrote is on the medium,    *)
(* where fat_read_impl(), fat_scan_dir() and dirent_locate(), which read    *)
(* the device directly, will find it.                                       *)
CommitReachesDisk == pc = "idle" /\ rc => \A s \in Sector \ loose : disk[s] = View[s]

(* fat32_meta.c:103, "Read-modify-write a single 32-byte directory record": *)
(* the write changes that record only.                                      *)
OneRecordOnly ==
    [][pc = "modify" /\ pc' = "txn" =>
         \A s \in Sector, r \in Rec : <<s, r>> # tgt => View'[s][r] = View[s][r]]_txnvars
=============================================================================
