---------------------------- MODULE DeviceMemory ----------------------------
(***************************************************************************)
(* What the device memory interface of runtime/include/vortex.h promises:  *)
(* vx_mem_alloc and vx_mem_reserve hand out ranges of the device memory    *)
(* that no other buffer uses, vx_mem_free takes one back, and nothing else *)
(* changes what the buffers of a program own.                              *)
(***************************************************************************)
EXTENDS Integers

CONSTANT MemorySize

VARIABLE blocks   \* the ranges in use: records with fields addr and size

InMemory(b) == b.size > 0 /\ b.addr + b.size <= MemorySize

Apart(a, b) == a.addr + a.size <= b.addr \/ b.addr + b.size <= a.addr

Init == blocks = {}

(* mem_alloc, mem_reserve: a range beside all others                       *)
Acquire ==
    \E a \in 0..MemorySize, s \in 1..MemorySize :
        LET b == [addr |-> a, size |-> s]
        IN  /\ InMemory(b)
            /\ \A c \in blocks : Apart(b, c)
            /\ blocks' = blocks \cup {b}

(* mem_free                                                                *)
Release == \E b \in blocks : blocks' = blocks \ {b}

Next == Acquire \/ Release

Spec == Init /\ [][Next]_blocks
=============================================================================
