------------------------------ MODULE MemAlloc ------------------------------
(***************************************************************************)
(* The device memory of a host program: the MemoryAllocator of             *)
(* src/sim/common/mem_alloc.h under the buffer calls of the runtime        *)
(* (src/runtime/simx/vortex.cpp, src/runtime/common/callbacks.inc).        *)
(*                                                                         *)
(* The allocator keeps pages, and in each page the used and the free       *)
(* blocks.  The list of pages is sorted by address and is a set here.  The *)
(* M-list and the S-list hold the same free blocks, one sorted by address  *)
(* and one by size: they are one set.  Which of several free blocks of     *)
(* equal size the S-list yields depends on its history and is left open.   *)
(* Addresses are unsigned machine words: sums wrap.                        *)
(***************************************************************************)
EXTENDS Integers, FiniteSets

CONSTANTS
    Word,        \* 2^64: the number of values of an address
    BaseAddress, \* ALLOC_BASE_ADDR
    Capacity,    \* GLOBAL_MEM_SIZE - ALLOC_BASE_ADDR
    PageAlign,   \* RAM_PAGE_SIZE
    BlockAlign,  \* CACHE_BLOCK_SIZE
    Sizes,       \* the buffer sizes the program asks for
    Addrs,       \* the addresses it reserves
    MaxBuffers   \* bound: buffers held at a time

GlobalMemSize == BaseAddress + Capacity

ASSUME AllocAssumption ==
    /\ BaseAddress \in Nat /\ Capacity \in Nat
    /\ BlockAlign \in Nat \ {0}
    /\ PageAlign \in Nat \ {0} /\ PageAlign % BlockAlign = 0
    /\ Word \in Nat /\ Word % PageAlign = 0 /\ GlobalMemSize < Word
    /\ Sizes \subseteq 1..(Word - 1)
    /\ Addrs \subseteq 0..(Word - 1)
    /\ MaxBuffers \in Nat

VARIABLES
    pages,     \* pages_: records of addr, size and the sets used and free
    allocated, \* allocated_
    held       \* the vx_buffer handles of the program

vars == <<pages, allocated, held>>

Block(a, s) == [addr |-> a, size |-> s]
End(b) == (b.addr + b.size) % Word

AlignSize(s, a) == LET t == (s + a - 1) % Word IN t - (t % a)

Lowest(bs) == CHOOSE b \in bs : \A c \in bs : b.addr <= c.addr
Highest(bs) == CHOOSE b \in bs : \A c \in bs : c.addr <= b.addr

Init ==
    /\ pages = {}
    /\ allocated = 0
    /\ held = {}

----------------------------------------------------------------------------
(* page_t *)
NewPage(a, s) == [addr |-> a, size |-> s, used |-> {}, free |-> {Block(a, s)}]

(* findFreeBlock: a smallest free block that is large enough               *)
FindFreeBlock(p, s) ==
    LET fits == {b \in p.free : b.size >= s}
    IN  {b \in fits : \A c \in fits : b.size <= c.size}

(* page_t::allocate: the rest of the block, if it is one, stays free       *)
PageAllocateWhole(p, s, b) == [p EXCEPT !.used = @ \cup {Block(b.addr, s)},
                                        !.free = @ \ {b}]
PageAllocate(p, s, b) ==
    LET extra == b.size - s
        taken == IF extra >= BlockAlign THEN Block(b.addr, s) ELSE b
        rest == IF extra >= BlockAlign THEN {Block((b.addr + s) % Word, extra)} ELSE {}
    IN  [p EXCEPT !.used = @ \cup {taken}, !.free = (@ \ {b}) \cup rest]

(* page_t::release: the block merges with the free block that ends where   *)
(* it starts and with the one that starts where it ends.  before and after *)
(* are its neighbours in the M-list.                                       *)
LeftOf(p, b) ==
    LET before == {f \in p.free : f.addr < b.addr}
    IN  IF before # {} /\ End(Highest(before)) = b.addr THEN {Highest(before)} ELSE {}
RightOf(p, b) ==
    LET after == {f \in p.free : f.addr >= b.addr}
    IN  IF after # {} /\ Lowest(after).addr = End(b) THEN {Lowest(after)} ELSE {}

SizeOf(neighbour) == IF neighbour = {} THEN 0 ELSE Lowest(neighbour).size
StartOf(left, b) == IF left = {} THEN b.addr ELSE Lowest(left).addr

PageReleaseLeft(p, b) ==
    LET left == LeftOf(p, b)
    IN  [p EXCEPT !.used = @ \ {b},
                  !.free = (@ \ left) \cup {Block(StartOf(left, b), SizeOf(left) + b.size)}]
PageRelease(p, b) ==
    LET left == LeftOf(p, b)
        right == RightOf(p, b)
    IN  [p EXCEPT !.used = @ \ {b},
                  !.free = (@ \ (left \cup right)) \cup
                      {Block(StartOf(left, b), SizeOf(left) + b.size + SizeOf(right))}]

----------------------------------------------------------------------------
(* findNextAddress: the first gap between pages that is large enough, the  *)
(* first one starting at the base address; else the end of the last page,  *)
(* if the capacity allows it.  The first page of all is not checked.       *)
EndBefore(p) ==
    LET before == {q \in pages : q.addr < p.addr}
    IN  IF before = {} THEN BaseAddress ELSE End(Highest(before))

FindNextAddress(s) ==
    LET gaps == {p \in pages : (EndBefore(p) + s) % Word <= p.addr}
    IN  IF pages = {} THEN {BaseAddress}
        ELSE IF gaps # {} THEN {EndBefore(Lowest(gaps))}
        ELSE {a \in {End(Highest(pages))} : (a + s) % Word <= Capacity}

(* hasPageOverlap: pages that touch count as overlapping                   *)
OverlapStartOnly(a, s) == \E p \in pages : p.addr <= a /\ a <= End(p)
HasPageOverlap(a, s) ==
    \E p \in pages : a <= End(p) /\ (a + s) % Word >= p.addr

----------------------------------------------------------------------------
(* MemoryAllocator::allocate and reserve: the pages they may leave and the *)
(* block they took, none if they fail.                                     *)
TakeFrom(ps, p, s) ==
    {[pages |-> ps \cup {PageAllocate(p, s, b)}, addr |-> b.addr] :
        b \in FindFreeBlock(p, s)}

Allocate(s) ==
    LET room == {p \in pages : FindFreeBlock(p, s) # {}}
        pageSize == AlignSize(s, PageAlign)
    IN  IF room # {} THEN TakeFrom(pages \ {Lowest(room)}, Lowest(room), s)
        ELSE UNION {TakeFrom(pages, NewPage(a, pageSize), s) :
                        a \in FindNextAddress(pageSize)}

Reserve(a, s) ==
    IF (a + s) % Word > Capacity \/ HasPageOverlap(a, s) THEN {}
    ELSE TakeFrom(pages, NewPage(a, s), s)

(* MemoryAllocator::release: the page goes when its last block does.       *)
PageOf(ps, a) == Lowest({p \in ps : \E b \in p.used : b.addr = a})
UsedBlock(ps, a) == CHOOSE b \in PageOf(ps, a).used : b.addr = a

Release(ps, a) ==
    LET left == PageRelease(PageOf(ps, a), UsedBlock(ps, a))
    IN  (ps \ {PageOf(ps, a)}) \cup (IF left.used = {} THEN {} ELSE {left})

----------------------------------------------------------------------------
(* The calls of the runtime.  A block that mem_access refuses, since it    *)
(* does not lie in the device memory, is released at once.                 *)
MemAccess(a, s) == (a + AlignSize(s, BlockAlign)) % Word <= GlobalMemSize

AcquireLeaks(o, a, s, size) ==
    /\ pages' = o.pages
    /\ allocated' = allocated + size
    /\ held' = IF MemAccess(a, s) THEN held \cup {Block(a, s)} ELSE held
Acquire(o, a, s, size) ==
    IF MemAccess(a, s)
    THEN /\ pages' = o.pages
         /\ allocated' = allocated + size
         /\ held' = held \cup {Block(a, s)}
    ELSE /\ pages' = Release(o.pages, a)
         /\ allocated' = allocated + size - UsedBlock(o.pages, a).size
         /\ UNCHANGED held

MemAlloc(s) ==
    LET size == AlignSize(s, BlockAlign)
    IN  /\ Cardinality(held) < MaxBuffers
        /\ \E o \in Allocate(size) : Acquire(o, o.addr, s, size)

MemReserve(a, s) ==
    LET size == AlignSize(s, PageAlign)
    IN  /\ Cardinality(held) < MaxBuffers
        /\ \E o \in Reserve(a, size) : Acquire(o, a, s, size)

MemFree(h) ==
    /\ pages' = Release(pages, h.addr)
    /\ allocated' = allocated - UsedBlock(pages, h.addr).size
    /\ held' = held \ {h}

Next ==
    \/ \E s \in Sizes : MemAlloc(s)
    \/ \E a \in Addrs, s \in Sizes : MemReserve(a, s)
    \/ \E h \in held : MemFree(h)

Spec == Init /\ [][Next]_vars

----------------------------------------------------------------------------
Words == 0..(Word - 1)
Used == UNION {p.used : p \in pages}
UsedBytes == UNION {b.addr..(b.addr + b.size - 1) : b \in Used}

(* The type invariant: the lists of mem_alloc.h hold blocks with addresses *)
(* and sizes of a machine word.                                            *)
TypeOK ==
    /\ \A p \in pages : /\ p.addr \in Words /\ p.size \in Words
                        /\ \A b \in p.used \cup p.free : b.addr \in Words /\ b.size \in Words
    /\ allocated \in Words
    /\ \A h \in held : h.addr \in Words /\ h.size \in Sizes

(* The blocks of a page partition it, after any sequence of splits and     *)
(* merges: none are empty, no two overlap, none is used and free at once,  *)
(* none leaves the page and no byte of the page is lost; and pages never   *)
(* overlap, whatever mix of reserved and allocated ones.                   *)
BlocksTilePages ==
    \A p \in pages :
        /\ \A q \in pages \ {p} : p.addr + p.size <= q.addr \/ q.addr + q.size <= p.addr
        /\ \A b \in p.used \cup p.free : b.size > 0 /\ p.addr <= b.addr
                                         /\ b.addr + b.size <= p.addr + p.size
        /\ \A b, c \in p.used \cup p.free :
             b # c => b.addr + b.size <= c.addr \/ c.addr + c.size <= b.addr
        /\ p.used \cap p.free = {}
        /\ \A x \in p.addr..(p.addr + p.size - 1) :
             \E b \in p.used \cup p.free : b.addr <= x /\ x < b.addr + b.size

(* What the assertions in ~page_t rely on: free neighbours are merged, so  *)
(* that a page without used blocks is one free block, and such a page is   *)
(* deleted by the release that emptied it.                                 *)
FreeBlocksMerged ==
    \A p \in pages :
        /\ p.used # {}
        /\ \A b, c \in p.free : b.addr + b.size # c.addr

(* mem_info reports what is in use: allocated_ grows by the size asked     *)
(* for and shrinks by the size of the block, and the two never drift.      *)
AllocatedIsUsed == allocated = Cardinality(UsedBytes)

(* ... and capacity_ - allocated_, an unsigned difference, is not negative.*)
FreeNotNegative == allocated <= Capacity

(* Every buffer handle owns a block that holds it, so vx_mem_free finds it,*)
(* and no block is in use without a handle: failed calls leak nothing.     *)
HandlesOwnBlocks ==
    /\ \A h \in held : \E b \in Used : b.addr = h.addr /\ h.size <= b.size
    /\ Cardinality(held) = Cardinality(Used)

(* Together: what the runtime keeps (handles and the counter that mem_info *)
(* reports) agrees with the blocks of the allocator, after failed calls    *)
(* and their roll back too.                                                *)
RuntimeAgrees == AllocatedIsUsed /\ FreeNotNegative /\ HandlesOwnBlocks

(* The allocator implements the interface: calls that succeed take a range *)
(* that nobody uses, calls that fail and those that roll back change none. *)
Abstract == INSTANCE DeviceMemory WITH MemorySize <- GlobalMemSize, blocks <- Used
ImplementsDeviceMemory == Abstract!Spec
=============================================================================
