--------------------------------- MODULE Vfs ---------------------------------
(***************************************************************************)
(* Open files and file descriptors (kernel/fs/vfs.c), with what fork,      *)
(* execve and exit do to them (kernel/task.c).  A struct file is shared by *)
(* descriptors of several processes and freed with the last reference.     *)
(*                                                                         *)
(* A system call is a sequence of steps on shared state; with one CPU they *)
(* follow one another undisturbed, with two those of two processes are     *)
(* interleaved.  Only the reference count is changed atomically.           *)
(***************************************************************************)
EXTENDS Integers, Sequences, FiniteSets

CONSTANTS NFile, NProc, NFds,
          Hosts   \* machines: CPUs, and bounds on files that are open and on the reads of one

ASSUME VfsAssumption == /\ {NFile, NProc, NFds} \subseteq Nat \ {0}
                        /\ \A h \in Hosts : h.cpus \in {1, 2} /\ {h.files, h.reads} \subseteq Nat

VARIABLES host,
          refcnt, live, pos, cloexec,  \* struct file: count, allocated, f->pos, O_CLOEXEC
          fds, proc,                   \* descriptors, 0 for NULL; "unused", "alive", "embryo", "gone"
          todo,                        \* what is left of the system call of a process
          blocks                       \* history: the offsets read through each file, in order

vfsVars == <<host, refcnt, live, pos, cloexec, fds, proc, todo, blocks>>

File == 1 .. NFile
Proc == 1 .. NProc
Fd == 0 .. NFds - 1

VfsInit == /\ host \in Hosts
           /\ refcnt = [f \in File |-> 0] /\ live = [f \in File |-> FALSE]
           /\ pos = [f \in File |-> 0] /\ cloexec = [f \in File |-> FALSE]
           /\ fds = [p \in Proc |-> [i \in Fd |-> 0]]
           /\ proc = [p \in Proc |-> IF p = 1 THEN "alive" ELSE "unused"]
           /\ todo = [p \in Proc |-> <<>>]
           /\ blocks = [f \in File |-> <<>>]

-----------------------------------------------------------------------------
(* Steps *)

Unset(i) == [op |-> "unset", fd |-> i, file |-> 0]
Put(f) == [op |-> "put", fd |-> 0, file |-> f]
Get(f) == [op |-> "get", fd |-> 0, file |-> f]
SetFd(i, f) == [op |-> "set", fd |-> i, file |-> f]
Load(f) == [op |-> "load", fd |-> 0, file |-> f]
Advance(f) == [op |-> "advance", fd |-> 0, file |-> f]
Destroy(f) == [op |-> "destroy", fd |-> 0, file |-> f]
Enter(q) == [op |-> "enter", fd |-> q, file |-> 0]
Die == [op |-> "die", fd |-> 0, file |-> 0]

(* sys_close() *)
CloseSteps(p, i) == IF fds[p][i] = 0 THEN <<>> ELSE <<Unset(i), Put(fds[p][i])>>

Concat(n, S(_)) == LET cat[i \in 0 .. n] == IF i = 0 THEN <<>> ELSE cat[i - 1] \o S(i - 1) IN cat[n]

(* Mutants: fork counts no reference; the last but one frees the file. *)
ForkStepsFree(p, q) == <<Enter(q)>>
LastEarly(f) == refcnt[f] <= 2

(* vfs_close_file(): it was the last reference. *)
Last(f) == refcnt[f] <= 1

(* reg_read() and reg_write() work at f->pos and move it afterwards. *)
ReadSteps(f) == <<Load(f), Advance(f)>>

(* sys_fork(): the table was copied; every descriptor counts. *)
ForkSteps(p, q) == Concat(NFds, LAMBDA i : IF fds[p][i] = 0 THEN <<>> ELSE <<Get(fds[p][i])>>) \o <<Enter(q)>>

(* sys_dup2(), with the sys_close() of the descriptor in the way. *)
Dup2Steps(p, i, j) == CloseSteps(p, j) \o <<SetFd(j, fds[p][i]), Get(fds[p][i])>>

AtRest(p) == proc[p] = "alive" /\ todo[p] = <<>>
MayRun(p) == host.cpus = 1 => \A q \in Proc \ {p} : todo[q] = <<>>
Call(p, steps) == AtRest(p) /\ MayRun(p) /\ steps # <<>> /\ todo' = [todo EXCEPT ![p] = steps]

(* sys_open(): the new file gets the first free descriptor, or is closed   *)
(* again (EMFILE).  Nobody else knows it yet.                              *)
SysOpen(p, cx) ==
    LET i == CHOOSE x \in Fd : fds[p][x] = 0 /\ \A y \in Fd : y < x => fds[p][y] # 0
    IN  /\ AtRest(p) /\ MayRun(p)
        /\ \E x \in Fd : fds[p][x] = 0
        /\ \E f \in File : /\ f <= host.files /\ ~live[f] /\ \A g \in File : g < f => live[g]
                           /\ refcnt' = [refcnt EXCEPT ![f] = 1] /\ live' = [live EXCEPT ![f] = TRUE]
                           /\ pos' = [pos EXCEPT ![f] = 0] /\ cloexec' = [cloexec EXCEPT ![f] = cx]
                           /\ blocks' = [blocks EXCEPT ![f] = <<>>]
                           /\ fds' = [fds EXCEPT ![p][i] = f]
        /\ UNCHANGED <<host, proc, todo>>

SysClose(p, i) == Call(p, CloseSteps(p, i)) /\ UNCHANGED <<host, refcnt, live, pos, cloexec, fds, proc, blocks>>

SysDup2(p, i, j) == /\ fds[p][i] # 0 /\ i # j
                 /\ Call(p, Dup2Steps(p, i, j))
                 /\ UNCHANGED <<host, refcnt, live, pos, cloexec, fds, proc, blocks>>

SysFork(p, q) == /\ proc[q] = "unused"
              /\ Call(p, ForkSteps(p, q))
              /\ proc' = [proc EXCEPT ![q] = "embryo"]
              /\ fds' = [fds EXCEPT ![q] = fds[p]]
              /\ UNCHANGED <<host, refcnt, live, pos, cloexec, blocks>>

SysExecve(p) == /\ Call(p, Concat(NFds, LAMBDA i : IF fds[p][i] # 0 /\ cloexec[fds[p][i]] THEN CloseSteps(p, i) ELSE <<>>))
             /\ UNCHANGED <<host, refcnt, live, pos, cloexec, fds, proc, blocks>>

SysExit(p) == /\ Call(p, Concat(NFds, LAMBDA i : CloseSteps(p, i)) \o <<Die>>)
           /\ UNCHANGED <<host, refcnt, live, pos, cloexec, fds, proc, blocks>>

(* sys_read() or sys_write() of one block. *)
SysRead(p, i) == /\ fds[p][i] # 0 /\ Len(blocks[fds[p][i]]) < host.reads
              /\ Call(p, ReadSteps(fds[p][i]))
              /\ UNCHANGED <<host, refcnt, live, pos, cloexec, fds, proc, blocks>>

(* sys_lseek(fd, 0, SEEK_SET) *)
SysLseek(p, i) == LET f == fds[p][i]
                IN  /\ AtRest(p) /\ MayRun(p) /\ f # 0 /\ blocks[f] # <<>>
                    /\ pos' = [pos EXCEPT ![f] = 0]
                    /\ blocks' = [blocks EXCEPT ![f] = <<>>]
                    /\ UNCHANGED <<host, refcnt, live, cloexec, fds, proc, todo>>

(* One step of the system call of p. *)
MicroStep(p) ==
    /\ todo[p] # <<>>
    /\ LET s == Head(todo[p])
           f == s.file
       IN  /\ todo' = [todo EXCEPT ![p] = IF s.op = "put" /\ Last(f) THEN <<Destroy(f)>> \o Tail(@)
                                          ELSE Tail(@)]
           /\ fds' = CASE s.op = "unset" -> [fds EXCEPT ![p][s.fd] = 0]
                       [] s.op = "set"   -> [fds EXCEPT ![p][s.fd] = f]
                       [] OTHER          -> fds
           /\ refcnt' = CASE s.op = "put" -> [refcnt EXCEPT ![f] = @ - 1]
                          [] s.op = "get" -> [refcnt EXCEPT ![f] = @ + 1]
                          [] OTHER        -> refcnt
           /\ live' = IF s.op = "destroy" THEN [live EXCEPT ![f] = FALSE] ELSE live
           /\ cloexec' = IF s.op = "destroy" THEN [cloexec EXCEPT ![f] = FALSE] ELSE cloexec
           /\ blocks' = CASE s.op = "load"    -> [blocks EXCEPT ![f] = Append(@, pos[f])]
                          [] s.op = "destroy" -> [blocks EXCEPT ![f] = <<>>]
                          [] OTHER            -> blocks
           /\ pos' = CASE s.op = "advance" -> [pos EXCEPT ![f] = @ + 1]
                       [] s.op = "destroy" -> [pos EXCEPT ![f] = 0]
                       [] OTHER            -> pos
           /\ proc' = CASE s.op = "enter" -> [proc EXCEPT ![s.fd] = "alive"]
                        [] s.op = "die"   -> [proc EXCEPT ![p] = "gone"]
                        [] OTHER          -> proc
    /\ UNCHANGED host

(* The parent reaps the child (module Proc); its slot can be used again. *)
Reaped(p) == /\ proc[p] = "gone" /\ p # 1
           /\ proc' = [proc EXCEPT ![p] = "unused"]
           /\ UNCHANGED <<host, refcnt, live, pos, cloexec, fds, todo, blocks>>

VfsNext == \E p \in Proc :
              \/ MicroStep(p) \/ SysExecve(p) \/ SysExit(p) \/ Reaped(p)
              \/ \E cx \in BOOLEAN : SysOpen(p, cx)
              \/ \E q \in Proc \ {p} : SysFork(p, q)
              \/ \E i \in Fd : SysClose(p, i) \/ SysRead(p, i) \/ SysLseek(p, i) \/ \E j \in Fd : SysDup2(p, i, j)

VfsSpec == VfsInit /\ [][VfsNext]_vfsVars

-----------------------------------------------------------------------------
(* What is still to be done to a file. *)
Pending(op, f) == {<<p, n>> \in Proc \X (1 .. 3 * NFds + 3) :
                     n \in DOMAIN todo[p] /\ todo[p][n].op = op /\ todo[p][n].file = f}
Holders(f) == {<<p, i>> \in Proc \X Fd : fds[p][i] = f}
Unsets(f) == {<<p, n>> \in Proc \X (1 .. 3 * NFds + 3) :
                n \in DOMAIN todo[p] /\ todo[p][n].op = "unset" /\ fds[p][todo[p][n].fd] = f}

(* The reference count of a file is the number of descriptors, apart from  *)
(* what system calls under way on any CPU have still to add or to drop.    *)
RefExact == \A f \in File : live[f] =>
    refcnt[f] + Cardinality(Pending("get", f)) + Cardinality(Unsets(f)) =
    Cardinality(Holders(f)) + Cardinality(Pending("put", f)) + Cardinality(Pending("set", f))

(* Descriptors, and calls under way, refer to files that are allocated,    *)
(* and a file without references is being freed, once.                     *)
NoDangling == \A f \in File :
    /\ Holders(f) # {} \/ Pending("load", f) # {} \/ Pending("advance", f) # {} => live[f]
    /\ live[f] => refcnt[f] > 0 \/ Cardinality(Pending("destroy", f)) = 1

(* With one CPU processes that share a file read each block once.  With    *)
(* two the position is read and moved without a lock: two readers can get  *)
(* the same block, and nobody the next.                                    *)
ReadOnce == host.cpus = 1 => \A f \in File : \A i \in DOMAIN blocks[f] : blocks[f][i] = i - 1
=============================================================================
