-------------------------------- MODULE Fat32 --------------------------------
(***************************************************************************)
(* The FAT32 file system: the allocation table, directories with short and *)
(* long names, and the operations of kernel/fs/fat32.  Each runs under     *)
(* fat_fs_lock from end to end and is one action here; what happens to its *)
(* sectors on the way to the disk is in module FatTxn.                     *)
(*                                                                         *)
(* An open file works on a copy of its directory record (struct resolve),  *)
(* made when it was opened.  Directories have one cluster: the driver      *)
(* never extends one.                                                      *)
(***************************************************************************)
EXTENDS Integers, Sequences, FiniteSets

CONSTANTS Clusters,   \* data clusters besides the root directory's
          NSlots,     \* records in a directory
          Names,      \* names that are used
          Alias,      \* name_to_short(): the 8.3 name of each name
          LfnCount,   \* fat_lfn_count(): how many long-name records it needs
          Handles,    \* open files
          MaxSize,    \* bound: size of a file, in clusters
          Dots,       \* which of the names "." and ".." programs use as the last of a path
          MaxStale    \* bound: writes through a record that is no longer the file's

ASSUME FatAssumption == /\ Clusters \subseteq Nat \ 0 .. 2 /\ NSlots \in Nat \ {0, 1}
                        /\ Alias \in [Names -> STRING] /\ LfnCount \in [Names -> Nat]
                        /\ MaxSize \in Nat /\ MaxStale \in Nat /\ Dots \subseteq {".", ".."}

VARIABLES fat,      \* the table: 0 free, 1 end of chain, or the next cluster
          dirs,     \* the records of each cluster that holds a directory
          node,     \* struct resolve of each handle
          leaked,   \* history: clusters that an operation took and dropped
          stale     \* history: writes through stale records

fatVars == <<fat, dirs, node, leaked, stale>>

FatRoot == 2
Clus == Clusters \union {FatRoot}
Eoc == 1
Zero == [k |-> "zero"]
E5 == [k |-> "e5"]
Lfn(n, seq) == [k |-> "lfn", name |-> n, seq |-> seq]
Rec(a, dir, c, size) == [k |-> "rec", alias |-> a, dir |-> dir, clus |-> c, size |-> size]
Blank == [i \in 1 .. NSlots |-> Zero]
Closed == [dir |-> 0, alias |-> "", clus |-> 0, size |-> 0]

FatInit == /\ fat = [c \in Clus |-> IF c = FatRoot THEN Eoc ELSE 0]
           /\ dirs = [c \in Clus |-> Blank]
           /\ node = [h \in Handles |-> Closed]
           /\ leaked = {} /\ stale = 0

-----------------------------------------------------------------------------
(* The table *)

(* The clusters of the chain that starts at c. *)
Chain(c) == LET reach[n \in 0 .. Cardinality(Clus)] ==
                  IF n = 0 THEN {c} \cap Clus
                  ELSE LET r == reach[n - 1] IN r \union ({fat[x] : x \in r} \cap Clus)
            IN  reach[Cardinality(Clus)]

FirstOf(S) == CHOOSE i \in S : \A j \in S : i <= j
FreeClusters == {c \in Clus : fat[c] = 0}
FirstFree(n) == {c \in FreeClusters : Cardinality({x \in FreeClusters : x < c}) < n}

(* Mutant of Freed: only the first cluster is given back. *)
FreedHead(c) == [x \in Clus |-> IF x = c THEN 0 ELSE fat[x]]

(* fat_set_entry(c, 0) along a chain. *)
Freed(c) == LET gone == Chain(c) IN [x \in Clus |-> IF x \in gone THEN 0 ELSE fat[x]]

(* Mutant of Missing: a chain is begun, but never extended. *)
MissingOne(first, size) == IF Chain(first) = {} THEN 1 ELSE 0

(* Mutant of Grown: the end of the chain is not marked in the table. *)
GrownOpen(first, new) ==
    [x \in Clus |-> IF x \in Chain(first) /\ fat[x] = Eoc /\ new # {} THEN FirstOf(new) ELSE fat[x]]

(* alloc_chain(): the clusters that are missing are taken in order and     *)
(* linked behind the last one.                                             *)
Missing(first, size) == LET have == Cardinality(Chain(first)) IN IF have < size THEN size - have ELSE 0
Grown(first, new) ==
    LET old == Chain(first)
        last == CHOOSE x \in old : fat[x] \notin Clus
        after(c) == {x \in new : x > c}
    IN  [x \in Clus |-> IF x \in new
                        THEN IF after(x) = {} THEN Eoc ELSE FirstOf(after(x))
                        ELSE IF old # {} /\ new # {} /\ x = last
                        THEN FirstOf(new)
                        ELSE fat[x]]

-----------------------------------------------------------------------------
(* Directories *)

Slots == 1 .. NSlots
IsRec(d, i) == dirs[d][i].k = "rec"
Vacant(d, i) == dirs[d][i].k \in {"zero", "e5"}

(* The records in front of i that belong to a long name. *)
LfnRun(d, i) == {j \in 1 .. i - 1 : \A l \in j .. i - 1 : dirs[d][l].k = "lfn"}

(* fat_scan_dir(): the long name if there are records for one, otherwise   *)
(* the short one.                                                          *)
Display(d, i) == IF LfnRun(d, i) = {} THEN dirs[d][i].alias ELSE dirs[d][i - 1].name

Short(n) == IF n \in Dots THEN n ELSE Alias[n]
NameEqShort(n, r) == r.alias = Short(n)

(* Mutant of Found: only the name on display counts. *)
FoundDisplay(d, n) == {i \in Slots : IsRec(d, i) /\ Display(d, i) = n}

(* fat_scan_find_cb(): the slots that n names.  A name stands for its 8.3  *)
(* name too, so two long names with the same beginning are one.            *)
Found(d, n) == {i \in Slots : IsRec(d, i) /\ (Display(d, i) = n \/ NameEqShort(n, dirs[d][i]))}
Lookup(d, n) == FirstOf(Found(d, n))

(* dirent_locate() ends at a record 0x00, which fat_scan_dir() skips. *)
Located(d, a) == {i \in Slots : /\ IsRec(d, i) /\ dirs[d][i].alias = a
                                /\ \A j \in 1 .. i : dirs[d][j] # Zero}

(* Mutant of Removed: the long name stays. *)
RemovedShort(ds, d, i) == [ds EXCEPT ![d][i] = E5]

(* free_dirent_record() *)
Removed(ds, d, i) == LET gone == LfnRun(d, i) \union {i}
                     IN  [ds EXCEPT ![d] = [j \in Slots |-> IF j \in gone THEN E5 ELSE @[j]]]

(* dir_claim_run(): the first n consecutive free slots; after a record     *)
(* 0x00 all must be 0x00.                                                  *)
Runs(d, n) == {i \in 1 .. NSlots - n + 1 :
                 /\ \A j \in i .. i + n - 1 : Vacant(d, j)
                 /\ \A j, l \in 1 .. i + n - 1 : j < l /\ dirs[d][j] = Zero => dirs[d][l] = Zero}

(* The directories a path leads to. *)
Subdirs(d) == {dirs[d][i].clus : i \in {j \in Slots : IsRec(d, j) /\ dirs[d][j].dir}}
Reachable == LET reach[n \in 0 .. Cardinality(Clus)] ==
                   IF n = 0 THEN {FatRoot} ELSE LET r == reach[n - 1] IN r \union UNION {Subdirs(d) : d \in r}
             IN  reach[Cardinality(Clus)]

(* dir_dotdot(): 0 for the root, which has no such record. *)
DotDot(d) == IF IsRec(d, 2) /\ dirs[d][2].alias = ".." THEN dirs[d][2].clus ELSE 0

(* dir_contains() *)
Contains(d, c) == LET up[n \in 0 .. Cardinality(Clus)] ==
                        IF n = 0 THEN {c} ELSE LET u == up[n - 1] IN u \union ({DotDot(x) : x \in u} \cap Clus)
                  IN  d \in up[Cardinality(Clus)]

-----------------------------------------------------------------------------
(* Operations on names.  An action is a call that succeeds, or that fails  *)
(* and yet changes something.                                              *)

(* parent_dir_init() and parent_entry_add() *)
CanAdd(d, n) == Found(d, n) = {} /\ \E i \in Slots : Vacant(d, i)
Added(ds, d, r) == [ds EXCEPT ![d][FirstOf({i \in Slots : Vacant(d, i)})] = r]

Create(d, n) == /\ CanAdd(d, n)
                /\ dirs' = Added(dirs, d, Rec(Alias[n], FALSE, 0, 0))
                /\ UNCHANGED <<fat, node, leaked, stale>>

Mkdir(d, n) == /\ CanAdd(d, n) /\ FreeClusters # {}
               /\ LET c == FirstOf(FreeClusters)
                      fresh == [i \in Slots |-> CASE i = 1 -> Rec(".", TRUE, c, 0)
                                                  [] i = 2 -> Rec("..", TRUE, d, 0)
                                                  [] OTHER -> Zero]
                  IN  /\ fat' = [fat EXCEPT ![c] = Eoc]
                      /\ dirs' = Added([dirs EXCEPT ![c] = fresh], d, Rec(Alias[n], TRUE, c, 0))
               /\ UNCHANGED <<node, leaked, stale>>

Unlink(d, n) == /\ Found(d, n) # {}
                /\ LET r == dirs[d][Lookup(d, n)]
                   IN  /\ ~r.dir /\ Located(d, r.alias) # {}
                       /\ dirs' = Removed(dirs, d, FirstOf(Located(d, r.alias)))
                       /\ fat' = Freed(r.clus)
                /\ UNCHANGED <<node, leaked, stale>>

(* Nothing reads the records of a removed directory again before mkdir     *)
(* fills the cluster: they are forgotten here.                             *)
Rmdir(d, n) == /\ Found(d, n) # {}
               /\ LET r == dirs[d][Lookup(d, n)]
                  IN  /\ r.dir /\ r.clus \in Clus
                      /\ \A i \in Slots : Vacant(r.clus, i) \/ (IsRec(r.clus, i) /\ dirs[r.clus][i].alias \in {".", ".."})
                      /\ Cardinality({i \in Slots : ~Vacant(r.clus, i)}) >= 2
                      /\ Located(d, r.alias) # {}
                      /\ dirs' = [Removed(dirs, d, FirstOf(Located(d, r.alias))) EXCEPT ![r.clus] = Blank]
                      /\ fat' = Freed(r.clus)
               /\ UNCHANGED <<node, leaked, stale>>

(* A record with its long name, in the slots from i on. *)
Placed(ds, d, i, n, r) ==
    [ds EXCEPT ![d] = [j \in Slots |-> IF j \in i .. i + LfnCount[n] - 1 THEN Lfn(n, LfnCount[n] - (j - i))
                                       ELSE IF j = i + LfnCount[n] THEN [r EXCEPT !.alias = Alias[n]]
                                       ELSE @[j]]]

(* Mutant of Moved: ".." stays. *)
MovedDots(d, at, e, to, m) == Removed(Placed(dirs, e, to, m, dirs[d][at]), d, at)

(* The record at d, at goes to e, to; ".." of a directory follows.         *)
Moved(d, at, e, to, m) ==
    LET r == dirs[d][at]
        all == Removed(Placed(dirs, e, to, m, r), d, at)
    IN  IF r.dir /\ d # e THEN [all EXCEPT ![r.clus][2].clus = e] ELSE all

(* fat_rename_impl(): in place if the long name has room there. *)
Rename(d, n, e, m) ==
    /\ Found(d, n) # {} /\ <<d, n>> # <<e, m>>
    /\ LET r == dirs[d][Lookup(d, n)]
           at == FirstOf(Located(d, r.alias))
           run == Cardinality(LfnRun(d, at))
           inPlace == d = e /\ LfnCount[m] <= run
       IN  /\ \A i \in Found(e, m) : d = e /\ dirs[e][i].alias = r.alias
           /\ r.dir => ~Contains(r.clus, e)
           /\ Located(d, r.alias) # {}
           /\ inPlace \/ Runs(e, LfnCount[m] + 1) # {}
           /\ dirs' = IF inPlace THEN Placed(Removed(dirs, d, at), d, at - LfnCount[m], m, r)
                      ELSE Moved(d, at, e, FirstOf(Runs(e, LfnCount[m] + 1)), m)
    /\ UNCHANGED <<fat, node, leaked, stale>>

-----------------------------------------------------------------------------
(* Operations on open files *)

(* fat_lookup_impl(): the copy of the record at d, i. *)
Resolve(d, i) == LET r == dirs[d][i] IN [dir |-> d, alias |-> r.alias, clus |-> r.clus, size |-> r.size]

(* vfs_lookup() of a file that exists; O_CREAT comes after a Create.  With *)
(* O_TRUNC the size changes in the copy of the record only.                *)
Open(h, d, n, trunc) ==
    /\ node[h] = Closed /\ Found(d, n) # {}
    /\ LET i == Lookup(d, n)
       IN  /\ ~dirs[d][i].dir
           /\ node' = [node EXCEPT ![h] = [Resolve(d, i) EXCEPT !.size = IF trunc THEN 0 ELSE @]]
    /\ UNCHANGED <<fat, dirs, leaked, stale>>

Close(h) == /\ node[h] # Closed
            /\ node' = [node EXCEPT ![h] = Closed]
            /\ UNCHANGED <<fat, dirs, leaked, stale>>

Current(h) == \E i \in Slots : /\ IsRec(node[h].dir, i)
                               /\ LET r == dirs[node[h].dir][i]
                                  IN  ~r.dir /\ r.alias = node[h].alias /\ r.clus = node[h].clus

(* fat_write_impl() up to offset end: the chain grows, then the record     *)
(* with this 8.3 name in the directory of the file gets size and cluster.  *)
(* With a full disk the clusters of the chain so far stay allocated.       *)
Write(h, end) ==
    LET r == node[h]
        size == IF end > r.size THEN end ELSE r.size
        new == FirstFree(Missing(r.clus, size))
        done == [r EXCEPT !.size = size, !.clus = IF r.clus = 0 THEN FirstOf(new) ELSE @]
        hit == {i \in Slots : IsRec(r.dir, i) /\ dirs[r.dir][i].alias = r.alias}
    IN  /\ r # Closed
        /\ Current(h) \/ stale < MaxStale
        /\ stale' = IF Current(h) THEN stale ELSE stale + 1
        /\ fat' = Grown(r.clus, new)
        /\ IF Cardinality(new) < Missing(r.clus, size)
           THEN /\ leaked' = IF r.clus = 0 THEN leaked \union new ELSE leaked
                /\ UNCHANGED <<dirs, node>>
           ELSE /\ node' = [node EXCEPT ![h] = done]
                /\ dirs' = IF hit = {} THEN dirs
                           ELSE [dirs EXCEPT ![r.dir][FirstOf(hit)] = [@ EXCEPT !.size = size, !.clus = done.clus]]
                /\ UNCHANGED leaked

(* fat_resolve_path() has led to the directories d and e. *)
FatNext == \/ \E d \in Reachable, n \in Names :
                 \/ Create(d, n) \/ Mkdir(d, n) \/ Unlink(d, n)
                 \/ \E h \in Handles, trunc \in BOOLEAN : Open(h, d, n, trunc)
           \/ \E d \in Reachable, n \in Names \union Dots :
                 Rmdir(d, n) \/ \E e \in Reachable, m \in Names : Rename(d, n, e, m)
           \/ \E h \in Handles : Close(h) \/ \E end \in 1 .. MaxSize : Write(h, end)

FatSpec == FatInit /\ [][FatNext]_fatVars

-----------------------------------------------------------------------------
(* The records of all directories, apart from the dots. *)
Entries == {<<d, i>> \in Reachable \X Slots : IsRec(d, i) /\ dirs[d][i].alias \notin {".", ".."}}
EntryAt(x) == dirs[x[1]][x[2]]

(* No cluster belongs to two files or directories, or to one and to the    *)
(* free space.                                                             *)
NoCrossLink == LET all == Entries
                   chain == [x \in all |-> Chain(EntryAt(x).clus)]
               IN  /\ \A x, y \in all : x # y => chain[x] \cap chain[y] = {}
                   /\ \A x \in all : \A c \in chain[x] : fat[c] # 0

(* A cluster is lost only if a write found the disk full before the file   *)
(* had its first cluster: alloc_chain() does not give back what it took.   *)
LostExactly == {c \in Clus : fat[c] # 0} =
               {FatRoot} \union leaked \union UNION {Chain(EntryAt(x).clus) : x \in Entries}

(* A path leads to each directory in one way only, and ".." leads back: so *)
(* dir_contains() can rely on it.                                          *)
TreeTrue == \A d \in Reachable \ {FatRoot} :
               /\ \E p \in Reachable : DotDot(d) = p /\ d \in Subdirs(p)
               /\ Cardinality({x \in Entries : EntryAt(x).dir /\ EntryAt(x).clus = d}) = 1

(* In a directory no two records have the same 8.3 name: the operations    *)
(* find the record to change by it.                                        *)
AliasUnique == \A x, y \in Entries : x[1] = y[1] /\ EntryAt(x).alias = EntryAt(y).alias => x = y

TailClean == \A d \in Reachable : \A i, j \in Slots : i < j /\ dirs[d][i] = Zero => dirs[d][j] = Zero

(* Long-name records stand in front of the record they name, complete and  *)
(* in order: none is left for another record to inherit.  And what         *)
(* fat_scan_dir() finds dirent_locate() finds, so that every file that can *)
(* be opened can be removed: nothing comes after a record 0x00.            *)
RecordsIntact == TailClean /\ \A d \in Reachable : \A i \in Slots :
    dirs[d][i].k = "lfn" => /\ i < NSlots
                            /\ LET l == dirs[d][i] IN
                               IF l.seq = 1 THEN IsRec(d, i + 1) /\ dirs[d][i + 1].alias = Alias[l.name]
                               ELSE dirs[d][i + 1] = Lfn(l.name, l.seq - 1)

(* The chain of a file is as long as its size says. *)
SizeCovered == \A x \in Entries : ~EntryAt(x).dir => EntryAt(x).size <= Cardinality(Chain(EntryAt(x).clus))
=============================================================================
