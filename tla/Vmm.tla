-------------------------------- MODULE Vmm ---------------------------------
(***************************************************************************)
(* User address spaces: the page tables of kernel/mm/vmm.c and the calls   *)
(* that build, grow, copy and destroy them (kernel_spawn(), execve() with  *)
(* the ELF loader, fork(), brk(), exit() and wait4()), with the frame      *)
(* allocator running dry at any point.                                     *)
(*                                                                         *)
(* A table or page is named by its path from the user slot of the PML4:    *)
(* <<>> is the PDPT, <<i3>> a page directory, <<i3, i2>> a page table and  *)
(* <<i3, i2, i1>> a page.  Calls of several CPUs meet in the allocator     *)
(* only, so every step here takes or gives back at most one frame, or      *)
(* destroys a space.                                                       *)
(***************************************************************************)
EXTENDS Integers, Sequences, FiniteSets

CONSTANTS Frame,   \* frames of the machine
          NSpace,  \* bound: address spaces at a time
          Image,   \* pages of a program: its segments and its stack
          Tramp,   \* SIG_TRAMPOLINE_VA
          Heap     \* the pages above brk_base, in order

Space == 1 .. NSpace
Va    == Image \union {Tramp} \union {Heap[i] : i \in DOMAIN Heap}
Path  == {SubSeq(v, 1, n) : v \in Va, n \in 0 .. 3}
Root  == <<0, 0, 0, 0>>  \* the PML4 itself
None  == <<>>

ASSUME VmmAssumption == /\ NSpace \in Nat /\ None \notin Frame
                        /\ \A v \in Va : v \in Seq(Nat) /\ Len(v) = 3

VARIABLES free,     \* frames the allocator has
          root,     \* root[s]: frame of the PML4, None if the space does not exist
          tree,     \* tree[s][p]: frame of a table or page, None if not present
          brk,      \* brk_cur, in pages above brk_base
          job,      \* the call at work on a space: its kind, the paths it has still to
                    \* map, the frame in its hands, the other space or value it is about
          panicked, \* ensure_table() or vmm_new_user_aspace() called panic()
          brkFailed \* history: some brk() ran out of frames

vmmVars == <<free, root, tree, brk, job, panicked, brkFailed>>

Empty == [p \in Path |-> None]
Idle(k) == [kind |-> k, todo |-> {}, page |-> None, other |-> 0]
Building == {"spawn", "exec", "fork"}

SpaceInit == /\ free = Frame /\ root = [s \in Space |-> None] /\ tree = [s \in Space |-> Empty]
           /\ brk = [s \in Space |-> 0] /\ job = [s \in Space |-> Idle("absent")]
           /\ panicked = FALSE /\ brkFailed = FALSE

(* Which frame the allocator returns matters to nothing here.  To keep the *)
(* states few, a frame with the name of the place is taken if it is free.  *)
Pick(s, p) == IF <<s, p>> \in free THEN <<s, p>> ELSE CHOOSE f \in free : TRUE

Used(s) == {f \in Frame : f \in {root[s], job[s].page} \/ \E p \in Path : tree[s][p] = f}

-----------------------------------------------------------------------------
(* vmm_translate_in() finds a page. *)
Mapped(s, v) == tree[s][v] # None

(* vmm_destroy_user_aspace() *)
Destroyed(s) == /\ root' = [root EXCEPT ![s] = None]
                /\ tree' = [tree EXCEPT ![s] = Empty]
                /\ free' = free \union Used(s)

(* vmm_new_user_aspace(), at the start of each call that builds a space. *)
Begin(s, kind, from, todo) ==
    /\ ~panicked /\ root[s] = None
    /\ IF free = {}
       THEN panicked' = TRUE /\ UNCHANGED <<free, root, job>>
       ELSE /\ root' = [root EXCEPT ![s] = Pick(s, Root)]
            /\ free' = free \ {Pick(s, Root)}
            /\ job' = [t \in Space |->
                         IF t = s THEN [kind |-> kind, todo |-> todo, page |-> None, other |-> from]
                         ELSE IF t = from THEN Idle("held") ELSE job[t]]
            /\ UNCHANGED panicked
    /\ UNCHANGED <<tree, brk, brkFailed>>

(* kernel_spawn(), execve() and fork() *)
Spawn(s) == root = [t \in Space |-> None] /\ Begin(s, "spawn", 0, Image \union {Tramp})
Exec(s, a) == job[a].kind = "user" /\ Begin(s, "exec", a, Image)
Fork(s, a) == job[a].kind = "user" /\ Begin(s, "fork", a, {p \in Path : Mapped(a, p)})

(* The next path of a loop: a table before what it holds. *)
Before(p, q) == \/ Len(p) < Len(q)
                \/ /\ Len(p) = Len(q)
                   /\ \E i \in DOMAIN p : p[i] < q[i] /\ \A j \in 1 .. i - 1 : p[j] = q[j]
NextPath(s) == CHOOSE p \in job[s].todo : \A q \in job[s].todo : p = q \/ Before(p, q)

(* The loops of execve(), elf_load(), kernel_spawn(), sys_brk() and        *)
(* signal_init_trampoline() take a frame for the next page.  All but       *)
(* sys_brk() skip a page that is mapped.                                   *)
TakePage(s) ==
    /\ ~panicked /\ job[s].kind \in {"spawn", "exec", "brk", "tramp"}
    /\ job[s].todo # {} /\ job[s].page = None
    /\ IF job[s].kind # "brk" /\ Mapped(s, NextPath(s))
       THEN job' = [job EXCEPT ![s].todo = @ \ {NextPath(s)}] /\ UNCHANGED free
       ELSE /\ free # {}
            /\ job' = [job EXCEPT ![s].page = Pick(s, NextPath(s))]
            /\ free' = free \ {Pick(s, NextPath(s))}
    /\ UNCHANGED <<root, tree, brk, panicked, brkFailed>>

(* vmm_map_user(): ensure_table() takes a frame for a missing table, or    *)
(* panics; with all tables there the entry is written.                     *)
MapUser(s) ==
    LET v == NextPath(s)
        missing == {d \in 0 .. 2 : ~Mapped(s, SubSeq(v, 1, d))}
        t == SubSeq(v, 1, CHOOSE d \in missing : \A e \in missing : d <= e)
    IN  /\ ~panicked /\ job[s].page # None
        /\ IF missing = {}
           THEN /\ tree' = [tree EXCEPT ![s][v] = job[s].page]
                /\ job' = [job EXCEPT ![s].page = None, ![s].todo = @ \ {v}]
                /\ UNCHANGED <<free, panicked>>
           ELSE IF free = {}
           THEN panicked' = TRUE /\ UNCHANGED <<tree, free, job>>
           ELSE /\ tree' = [tree EXCEPT ![s][t] = Pick(s, t)]
                /\ free' = free \ {Pick(s, t)}
                /\ UNCHANGED <<job, panicked>>
        /\ UNCHANGED <<root, brk, brkFailed>>

(* Mutant of DupPage: pages, unlike tables, are shared with the parent. *)
DupPageShared(s) ==
    LET p == NextPath(s)
    IN  /\ ~panicked /\ job[s].kind = "fork" /\ job[s].todo # {} /\ free # {}
        /\ IF Len(p) = 3 THEN tree' = [tree EXCEPT ![s][p] = tree[job[s].other][p]] /\ UNCHANGED free
           ELSE tree' = [tree EXCEPT ![s][p] = Pick(s, p)] /\ free' = free \ {Pick(s, p)}
        /\ job' = [job EXCEPT ![s].todo = @ \ {p}]
        /\ UNCHANGED <<root, brk, panicked, brkFailed>>

(* dup_user_aspace(): one table or page of the parent. *)
DupPage(s) == LET p == NextPath(s)
              IN  /\ ~panicked /\ job[s].kind = "fork" /\ job[s].todo # {} /\ free # {}
                  /\ tree' = [tree EXCEPT ![s][p] = Pick(s, p)]
                  /\ free' = free \ {Pick(s, p)}
                  /\ job' = [job EXCEPT ![s].todo = @ \ {p}]
                  /\ UNCHANGED <<root, brk, panicked, brkFailed>>

Released(s) == job' = [t \in Space |-> IF t = s THEN Idle("absent")
                                       ELSE IF t = job[s].other THEN Idle("user") ELSE job[t]]

CanFail(s) == /\ ~panicked /\ job[s].kind \in Building /\ job[s].todo # {} /\ job[s].page = None
              /\ free = {} \/ job[s].kind # "fork"

(* Mutant of BuildFails: the tables below the root are not walked. *)
BuildFailsRoot(s) == /\ CanFail(s)
                     /\ root' = [root EXCEPT ![s] = None]
                     /\ tree' = [tree EXCEPT ![s] = Empty]
                     /\ free' = free \union {root[s]}
                     /\ Released(s)
                     /\ UNCHANGED <<brk, panicked, brkFailed>>

(* No frame for a page, or a file that is not a program: all that was      *)
(* built is destroyed and the caller goes on with what it had.             *)
BuildFails(s) == /\ CanFail(s)
                 /\ Destroyed(s)
                 /\ Released(s)
                 /\ UNCHANGED <<brk, panicked, brkFailed>>

(* fork() is done, and so is kernel_spawn(). *)
ForkEnds(s) == /\ ~panicked /\ job[s].kind \in {"fork", "spawn"} /\ job[s].todo = {}
               /\ job' = [t \in Space |-> IF t \in {s, job[s].other} THEN Idle("user") ELSE job[t]]
               /\ brk' = [brk EXCEPT ![s] = IF job[s].kind = "fork" THEN brk[job[s].other] ELSE 0]
               /\ UNCHANGED <<free, root, tree, panicked, brkFailed>>

(* execve() changes over to the new space, destroys the old one, and has   *)
(* the trampoline mapped.                                                  *)
ExecEnds(s) == LET a == job[s].other
               IN  /\ ~panicked /\ job[s].kind = "exec" /\ job[s].todo = {}
                   /\ Destroyed(a)
                   /\ brk' = [brk EXCEPT ![s] = 0, ![a] = 0]
                   /\ job' = [job EXCEPT ![s] = [Idle("tramp") EXCEPT !.todo = {Tramp}],
                                         ![a] = Idle("absent")]
                   /\ UNCHANGED <<panicked, brkFailed>>

(* The trampoline is there, or there was no frame and it is left out. *)
TrampolineEnds(s) == /\ ~panicked /\ job[s].kind = "tramp" /\ job[s].page = None
                     /\ job[s].todo = {} \/ free = {}
                     /\ job' = [job EXCEPT ![s] = Idle("user")]
                     /\ UNCHANGED <<free, root, tree, brk, panicked, brkFailed>>

(* sys_brk() to n pages: it grows page by page, *)
BrkGrow(s, n) == /\ ~panicked /\ job[s].kind = "user" /\ n > brk[s]
                 /\ job' = [job EXCEPT ![s] = [kind |-> "brk", todo |-> {Heap[i] : i \in brk[s] + 1 .. n},
                                               page |-> None, other |-> n]]
                 /\ UNCHANGED <<free, root, tree, brk, panicked, brkFailed>>

(* and moves brk_cur at the end, or returns where no frame is left. *)
BrkEnds(s) == /\ ~panicked /\ job[s].kind = "brk" /\ job[s].page = None
              /\ \/ /\ job[s].todo = {}
                    /\ brk' = [brk EXCEPT ![s] = job[s].other]
                    /\ UNCHANGED brkFailed
                 \/ /\ job[s].todo # {} /\ free = {}
                    /\ brkFailed' = TRUE
                    /\ UNCHANGED brk
              /\ job' = [job EXCEPT ![s] = Idle("user")]
              /\ UNCHANGED <<free, root, tree, panicked>>

(* Mutant of Cut: one page too many. *)
CutMore(s, n) == {Heap[i] : i \in {j \in DOMAIN Heap : n <= j /\ j <= brk[s]}}

(* The pages that sys_brk() gives up to shrink to n. *)
Cut(s, n) == {Heap[i] : i \in n + 1 .. brk[s]}

BrkShrink(s, n) ==
    /\ ~panicked /\ job[s].kind = "user" /\ n < brk[s]
    /\ tree' = [tree EXCEPT ![s] = [p \in Path |-> IF p \in Cut(s, n) THEN None ELSE tree[s][p]]]
    /\ free' = free \union ({tree[s][p] : p \in Cut(s, n)} \ {None})
    /\ brk' = [brk EXCEPT ![s] = n]
    /\ UNCHANGED <<root, job, panicked, brkFailed>>

(* The space of a zombie is destroyed by the wait4() that reaps it. *)
Reap(s) == /\ ~panicked /\ job[s].kind = "user"
           /\ Destroyed(s)
           /\ brk' = [brk EXCEPT ![s] = 0]
           /\ job' = [job EXCEPT ![s] = Idle("absent")]
           /\ UNCHANGED <<panicked, brkFailed>>

SpaceNext == \E s \in Space :
              \/ Spawn(s) \/ TakePage(s) \/ MapUser(s) \/ DupPage(s)
              \/ BuildFails(s) \/ ForkEnds(s) \/ ExecEnds(s) \/ TrampolineEnds(s)
              \/ BrkEnds(s) \/ Reap(s)
              \/ \E a \in Space : Exec(s, a) \/ Fork(s, a)
              \/ \E n \in 0 .. Len(Heap) : BrkGrow(s, n) \/ BrkShrink(s, n)

SpaceSpec == SpaceInit /\ [][SpaceNext]_vmmVars

-----------------------------------------------------------------------------
(* In how many places a frame is. *)
Places(f) == Cardinality({<<s, p>> \in Space \X Path : tree[s][p] = f})
             + Cardinality({s \in Space : root[s] = f}) + Cardinality({s \in Space : job[s].page = f})
             + (IF f \in free THEN 1 ELSE 0)

(* No two address spaces share a frame, no frame serves twice in one, and  *)
(* none is free while it is in use: fork() copies every table and page,    *)
(* and no error path frees what is still linked.                           *)
Isolation == \A f \in Frame : Places(f) <= 1

(* No frame is lost, on the error paths of fork() and execve() included,   *)
(* unless a brk() ran out of frames: it leaves the pages it had mapped,    *)
(* and the next brk() maps others over them.                               *)
NoFrameLost == ~brkFailed => free \union UNION {Used(s) : s \in Space} = Frame

(* The heap of a program is backed: below brk_cur every page is mapped,    *)
(* and what is mapped hangs from tables that are present, so that          *)
(* vmm_destroy_user_aspace() finds it.                                     *)
HeapBacked == \A s \in Space :
    /\ job[s].kind = "user" => \A i \in 1 .. brk[s] : Mapped(s, Heap[i])
    /\ \A p \in Path : Mapped(s, p) => /\ root[s] # None
                                       /\ \A n \in 0 .. Len(p) : Mapped(s, SubSeq(p, 1, n))
=============================================================================
