-------------------------------- MODULE Pmm ---------------------------------
(***************************************************************************)
(* The buddy allocator of physical frames (kernel/mm/pmm.c) and the kernel *)
(* heap above it (kernel/mm/kheap.c).                                      *)
(*                                                                         *)
(* Frames are numbered.  A block of order o is 2^o frames and is named by  *)
(* its first one.  The free lists are sets: which of the free blocks of an *)
(* order is handed out depends on the history of the list, and here any    *)
(* may be.  Both allocators work under one spinlock each, so that a call   *)
(* is one action.                                                          *)
(***************************************************************************)
EXTENDS Integers, FiniteSets

CONSTANTS MaxOrder,   \* MAX_ORDER: orders are 0 .. MaxOrder - 1
          Windows,    \* managed windows [base, top) with the frames reserved in them
          NBins,      \* sizes of small heap blocks: 1, 2, .. 2^(NBins-1) units, a page
          MaxObjects  \* bound: live objects of the heap

ASSUME PmmAssumption == /\ MaxOrder \in Nat \ {0} /\ NBins \in Nat \ {0} /\ MaxObjects \in Nat
                        /\ Windows \subseteq [base : Nat \ {0}, top : Nat, resv : SUBSET Nat]

VARIABLES win,        \* the window: base_addr, top_addr, resv[]
          fl,         \* fl[o]: the free blocks of order o
          bits,       \* order_bits[o]: indices of the bits that are set
          free_pg,
          cur,        \* pmm_init()'s position in the window
          held,       \* blocks handed out to others than the heap
          bin,        \* freelist[b] of the heap: chunks <<frame, unit in the frame>>
          slab,       \* the bin a heap frame was carved for
          objects     \* live objects of the heap

pmmVars == <<win, fl, bits, free_pg, cur, held>>
heapVars == <<bin, slab, objects>>

Order == 0 .. MaxOrder - 1
Frames(p, o) == p .. p + 2^o - 1
Window == win.base .. win.top - 1

PmmInit == /\ win \in Windows
           /\ fl = [o \in Order |-> {}] /\ bits = [o \in Order |-> {}]
           /\ free_pg = 0 /\ cur = win.base /\ held = {}
           /\ bin = [b \in 0 .. NBins - 1 |-> {}] /\ slab = <<>> /\ objects = {}

-----------------------------------------------------------------------------
(* The bitmaps are indexed from base_addr, which is aligned to frames only. *)
BitIndex(o, p) == (p - win.base) \div 2^o

(* At order o, the block that p falls in, and its buddy. *)
Block(p, o) == p - (p % 2^o)
Buddy(p, o) == IF (p \div 2^o) % 2 = 0 THEN Block(p, o) + 2^o ELSE Block(p, o) - 2^o

(* The buddy lies in the window and its bit says that it is free. *)
Mergeable(p, o) == Buddy(p, o) \in Window /\ BitIndex(o, Buddy(p, o)) \in bits[o]

(* Mutant of MergedOrder: a block is merged once at most. *)
MergedOnce(p, o) == IF o + 1 < MaxOrder /\ Mergeable(p, o) THEN o + 1 ELSE o

(* The order that a freed block reaches by merging with its buddies. *)
MergedOrder(p, o) == CHOOSE k \in o .. MaxOrder - 1 :
                        /\ \A j \in o .. k - 1 : Mergeable(p, j)
                        /\ k + 1 < MaxOrder => ~Mergeable(p, k)

(* Mutant of FreeOrder: the bits of the buddies merged with stay set. *)
FreeOrderBits(p, o) ==
    LET k == MergedOrder(p, o)
    IN  /\ fl' = [j \in Order |-> IF j = k THEN fl[j] \union {Block(p, k)}
                                  ELSE IF j \in o .. k - 1 THEN fl[j] \ {Buddy(p, j)}
                                  ELSE fl[j]]
        /\ bits' = [bits EXCEPT ![k] = @ \union {BitIndex(k, Block(p, k))}]
        /\ free_pg' = free_pg + 2^o

(* pmm_free_order() *)
FreeOrder(p, o) ==
    LET k == MergedOrder(p, o)
    IN  /\ fl' = [j \in Order |-> IF j = k THEN fl[j] \union {Block(p, k)}
                                  ELSE IF j \in o .. k - 1 THEN fl[j] \ {Buddy(p, j)}
                                  ELSE fl[j]]
        /\ bits' = [j \in Order |-> IF j = k THEN bits[j] \union {BitIndex(k, Block(p, k))}
                                    ELSE IF j \in o .. k - 1 THEN bits[j] \ {BitIndex(j, Buddy(p, j))}
                                    ELSE bits[j]]
        /\ free_pg' = free_pg + 2^o

(* pmm_alloc_order() finds the first order that has a free block. *)
Source(o) == {k \in o .. MaxOrder - 1 : fl[k] # {} /\ \A j \in o .. k - 1 : fl[j] = {}}

(* It takes p out of list k and gives the upper halves back. *)
AllocOrder(p, k, o) ==
    /\ fl' = [j \in Order |-> IF j = k THEN fl[j] \ {p}
                              ELSE IF j \in o .. k - 1 THEN fl[j] \union {p + 2^j}
                              ELSE fl[j]]
    /\ bits' = [j \in Order |-> IF j = k THEN bits[j] \ {BitIndex(k, p)}
                                ELSE IF j \in o .. k - 1 THEN bits[j] \union {BitIndex(j, p + 2^j)}
                                ELSE bits[j]]
    /\ free_pg' = free_pg - 2^o

(* resv_hits() *)
ResvHits(p, o) == Frames(p, o) \cap win.resv # {}

(* pmm_init(): the largest aligned block at cur that fits below the top,   *)
(* shrunk until it is clear of the reserved ranges.                        *)
Fits(p, o) == p % 2^o = 0 /\ p + 2^o <= win.top

(* Mutant of SeedOrder: a reserved range is only seen at its first frame. *)
SeedOrderPlain(p) == CHOOSE o \in Order : Fits(p, o) /\ \A k \in o + 1 .. MaxOrder - 1 : ~Fits(p, k)

SeedOrder(p) == CHOOSE o \in Order : /\ Fits(p, o) /\ (o > 0 => ~ResvHits(p, o))
                                     /\ \A k \in o + 1 .. MaxOrder - 1 : ~Fits(p, k) \/ ResvHits(p, k)

Seed == /\ cur < win.top
        /\ IF ResvHits(cur, 0)
           THEN cur' = cur + 1 /\ UNCHANGED <<fl, bits, free_pg>>
           ELSE cur' = cur + 2^SeedOrder(cur) /\ FreeOrder(cur, SeedOrder(cur))
        /\ UNCHANGED <<win, held, heapVars>>

Ready == cur >= win.top

(* A caller of pmm_alloc_order(), and of pmm_free_order() later. *)
Alloc(o) == /\ Ready
            /\ \E k \in Source(o) : \E p \in fl[k] : AllocOrder(p, k, o) /\ held' = held \union {<<p, o>>}
            /\ UNCHANGED <<win, cur, heapVars>>

Free(b) == /\ held' = held \ {b}
           /\ FreeOrder(b[1], b[2])
           /\ UNCHANGED <<win, cur, heapVars>>

-----------------------------------------------------------------------------
(* The heap.  Sizes are in units, the smallest block, with the header      *)
(* included; a frame has Page of them.  An object is its frame, its place  *)
(* in the frame and its header: a bin, or an order for a large one.        *)
Page == 2^(NBins - 1)
Bin(b) == [large |-> FALSE, n |-> b]
Large(o) == [large |-> TRUE, n |-> o]

(* Mutant of BinOf: the header is not counted. *)
BinOfShort(n) == CHOOSE b \in 0 .. NBins - 1 : 2^b >= n - 1 /\ (b > 0 => 2^(b - 1) < n - 1)

(* bin_of(), and the order of a large request *)
BinOf(n) == CHOOSE b \in 0 .. NBins - 1 : 2^b >= n /\ (b > 0 => 2^(b - 1) < n)
OrderOf(n) == CHOOSE o \in Order : Page * 2^o >= n /\ (o > 0 => Page * 2^(o - 1) < n)

New(p, i, h, n) == objects' = objects \union {[frame |-> p, at |-> i, hdr |-> h, size |-> n]}

(* kmalloc(); without a block it calls panic(), and nothing more happens. *)
KmallocLarge(n) == /\ Ready /\ n > Page
                   /\ \E k \in Source(OrderOf(n)) : \E p \in fl[k] :
                         AllocOrder(p, k, OrderOf(n)) /\ New(p, 0, Large(OrderOf(n)), n)
                   /\ UNCHANGED <<win, cur, held, bin, slab>>

KmallocBin(n) == LET b == BinOf(n)
                 IN  /\ Ready /\ n <= Page /\ bin[b] # {}
                     /\ \E c \in bin[b] : /\ bin' = [bin EXCEPT ![b] = @ \ {c}]
                                          /\ New(c[1], c[2], Bin(b), n)
                     /\ UNCHANGED <<pmmVars, slab>>

(* The bin is empty: a frame is cut into chunks, and one is taken. *)
KmallocRefill(n) ==
    LET b == BinOf(n)
    IN  /\ Ready /\ n <= Page /\ bin[b] = {}
        /\ \E k \in Source(0) : \E p \in fl[k] : \E i \in {j \in 0 .. Page - 1 : j % 2^b = 0} :
              /\ AllocOrder(p, k, 0)
              /\ bin' = [bin EXCEPT ![b] = {<<p, j>> : j \in {j \in 0 .. Page - 1 : j % 2^b = 0}} \ {<<p, i>>}]
              /\ slab' = [q \in DOMAIN slab \union {p} |-> IF q = p THEN b ELSE slab[q]]
              /\ New(p, i, Bin(b), n)
        /\ UNCHANGED <<win, cur, held>>

(* kfree() trusts the header in front of the object. *)
Kfree(x) == /\ objects' = objects \ {x}
            /\ IF x.hdr.large
               THEN FreeOrder(x.frame, x.hdr.n) /\ UNCHANGED bin
               ELSE /\ bin' = [bin EXCEPT ![x.hdr.n] = @ \union {<<x.frame, x.at>>}]
                    /\ UNCHANGED <<fl, bits, free_pg>>
            /\ UNCHANGED <<win, cur, held, slab>>

PmmNext == \/ Seed
           \/ \E o \in Order : Alloc(o)
           \/ \E b \in held : Free(b)
           \/ /\ Cardinality(objects) < MaxObjects
              /\ \E n \in 1 .. 2 * Page : KmallocLarge(n) \/ KmallocBin(n) \/ KmallocRefill(n)
           \/ \E x \in objects : Kfree(x)

PmmSpec == PmmInit /\ [][PmmNext]_<<pmmVars, heapVars>>

-----------------------------------------------------------------------------
FreeBlocks == UNION {{<<p, o>> : p \in fl[o]} : o \in Order}
HeapBlocks == {<<p, 0>> : p \in DOMAIN slab} \union {<<x.frame, x.hdr.n>> : x \in {y \in objects : y.hdr.large}}
Blocks == FreeBlocks \union held \union HeapBlocks
Covered(S) == UNION {Frames(b[1], b[2]) : b \in S}

(* A frame is in one block: free, handed out or the heap's.  No block has  *)
(* a reserved frame, none leaves the window, and once pmm_init() is done   *)
(* no frame of the window is missing.  free_pg counts the free ones.       *)
Partition == /\ \A b, c \in Blocks : b # c => Frames(b[1], b[2]) \cap Frames(c[1], c[2]) = {}
             /\ Covered(Blocks) \subseteq Window \ win.resv
             /\ Ready => Covered(Blocks) = Window \ win.resv
             /\ free_pg = Cardinality(Covered(FreeBlocks))

(* The bitmaps and the lists agree.  pmm_free_order() walks the list for a *)
(* buddy that the bitmap promises, and never stops if it is not there.     *)
BitsMatch == \A o \in Order : bits[o] = {BitIndex(o, p) : p \in fl[o]}

(* Fragmentation is never the allocator's: pmm_alloc_order(o) fails only   *)
(* if no aligned block of that order is free.                              *)
CanServe == Ready => \A o \in Order :
    Source(o) = {} => \A p \in Window : p % 2^o = 0 => ~(Frames(p, o) \subseteq Covered(FreeBlocks))

Extent(x) == IF x.hdr.large THEN {<<p, i>> : p \in Frames(x.frame, x.hdr.n), i \in 0 .. Page - 1}
             ELSE {<<x.frame, i>> : i \in x.at .. x.at + 2^x.hdr.n - 1}

(* No two objects of the heap overlap, none overlaps a chunk that is still *)
(* free, and each is as large as was asked for and inside the heap.        *)
HeapDisjoint ==
    /\ \A x, y \in objects : x # y => Extent(x) \cap Extent(y) = {}
    /\ \A x \in objects : /\ Cardinality(Extent(x)) >= x.size
                          /\ {u[1] : u \in Extent(x)} \subseteq Covered(HeapBlocks)
    /\ \A b \in DOMAIN bin : \A c \in bin[b] :
          /\ c[1] \in DOMAIN slab /\ slab[c[1]] = b
          /\ \A x \in objects : Extent(x) \cap {<<c[1], i>> : i \in c[2] .. c[2] + 2^b - 1} = {}
=============================================================================
