-------------------------------- MODULE Acl --------------------------------
(***************************************************************************)
(* ACLManager (src/sim/common/mem.cpp): the access rights of the simulated *)
(* RAM, kept as an ordered map of intervals that set splits and merges and *)
(* that check walks through, and the calls of the runtime that change      *)
(* them (callbacks.inc, vortex.cpp).                                       *)
(*                                                                         *)
(* The map is a set of records here; its order is that of the starts.      *)
(* rights is an observer: what each byte was last given.                   *)
(***************************************************************************)
EXTENDS Integers, FiniteSets

CONSTANTS
    MemSize,   \* bytes of the memory
    BlockSize, \* CACHE_BLOCK_SIZE: sizes are rounded up to it in range checks
    Rights,    \* the bits of the flags
    MaxBuffers \* bound: buffers at a time

AclAssumption ==
    /\ MemSize \in Nat
    /\ BlockSize \in Nat \ {0}

VARIABLES
    aclMap,  \* acl_map_: records [start, end, flags]
    buffers, \* buffers of the program: records [addr, size]
    rights   \* observer: rights[b], the flags byte b was last given

aclVars == <<aclMap, buffers, rights>>

Bytes == 0..(MemSize - 1)
AclInit ==
    /\ aclMap = {}
    /\ buffers = {}
    /\ rights = [b \in Bytes |-> {}]

----------------------------------------------------------------------------
(* The entries from lower_bound(addr) on, and the one before it unless it  *)
(* ends earlier.                                                           *)
Before(addr) == {e \in aclMap : e.start < addr}
Previous(addr) == {e \in Before(addr) : e.end >= addr /\ \A d \in Before(addr) : d.start <= e.start}
FromStart(addr) == {e \in aclMap : e.start >= addr}
From(addr) == FromStart(addr) \cup Previous(addr)

Touched(addr, end) == {e \in From(addr) : e.start < end /\ e.end > addr}

(* What is left of an entry on the two sides of the range.                 *)
Trimmed(e, addr, end) ==
    (IF e.start < addr THEN {[e EXCEPT !.end = addr]} ELSE {})
        \cup (IF e.end > end THEN {[e EXCEPT !.start = end]} ELSE {})

Cut(addr, end) ==
    (aclMap \ Touched(addr, end)) \cup UNION {Trimmed(e, addr, end) : e \in Touched(addr, end)}

(* The new range takes in the neighbours that have the same flags.         *)
Neighbours(map, addr, end, flags) ==
    {e \in map : e.flags = flags /\ (e.end = addr \/ e.start = end)}
StartOf(S, addr) == IF \E e \in S : e.end = addr THEN (CHOOSE e \in S : e.end = addr).start ELSE addr
EndOf(S, end) == IF \E e \in S : e.start = end THEN (CHOOSE e \in S : e.start = end).end ELSE end
Merged(map, addr, end, flags) ==
    LET S == Neighbours(map, addr, end, flags)
    IN (map \ S) \cup {[start |-> StartOf(S, addr), end |-> EndOf(S, end), flags |-> flags]}

(* ACLManager::set                                                         *)
Set(addr, size, flags) ==
    IF size = 0 THEN aclMap
    ELSE IF flags = {} THEN Cut(addr, addr + size)
    ELSE Merged(Cut(addr, addr + size), addr, addr + size, flags)

(* ACLManager::check: a range no entry speaks of is free for all.          *)
Check(addr, size, flags) ==
    \A e \in From(addr) : e.start < addr + size /\ e.end > addr => flags \subseteq e.flags

----------------------------------------------------------------------------
AlignedSize(size) == ((size + BlockSize - 1) \div BlockSize) * BlockSize

(* vx_device::mem_access and what it returns.                              *)
InMemory(addr, size) == addr + AlignedSize(size) <= MemSize

Give(addr, size, flags) ==
    IF InMemory(addr, size)
    THEN /\ aclMap' = Set(addr, size, flags)
         /\ rights' = [b \in Bytes |-> IF b \in addr..(addr + size - 1) THEN flags ELSE rights[b]]
    ELSE UNCHANGED <<aclMap, rights>>

RangeOf(r) == r.addr..(r.addr + AlignedSize(r.size) - 1)

(* mem_alloc, mem_reserve: a range the allocator has free (DeviceMemory).  *)
MemAlloc(addr, size, flags) ==
    /\ Cardinality(buffers) < MaxBuffers
    /\ InMemory(addr, size)
    /\ \A b \in buffers : RangeOf(b) \cap RangeOf([addr |-> addr, size |-> size]) = {}
    /\ Give(addr, size, flags)
    /\ buffers' = buffers \cup {[addr |-> addr, size |-> size]}

(* vx_mem_access on a part of a buffer.                                    *)
MemAccess(buffer, offset, size, flags) ==
    /\ offset + size <= buffer.size
    /\ Give(buffer.addr + offset, size, flags)
    /\ UNCHANGED buffers

(* vx_mem_free takes the rights back first.                                *)
MemFree(buffer) ==
    /\ Give(buffer.addr, buffer.size, {})
    /\ buffers' = buffers \ {buffer}

AclNext ==
    \/ \E addr \in {b \in Bytes : b % BlockSize = 0}, size \in 1..MemSize, flags \in SUBSET Rights :
         MemAlloc(addr, size, flags)
    \/ \E buffer \in buffers, offset, size \in 0..MemSize, flags \in SUBSET Rights :
         MemAccess(buffer, offset, size, flags)
    \/ \E buffer \in buffers : MemFree(buffer)

AclSpec == AclInit /\ [][AclNext]_aclVars

----------------------------------------------------------------------------
(* Whatever ranges were split, merged and freed, an access is let through  *)
(* exactly when every byte of it has the rights asked for or was given     *)
(* none; no two entries overlap, and those that meet differ in flags.      *)
ChecksEveryByte ==
    /\ \A addr \in Bytes, size \in 1..MemSize, f \in SUBSET Rights :
         addr + size <= MemSize =>
            (Check(addr, size, f) <=>
                \A b \in addr..(addr + size - 1) : rights[b] = {} \/ f \subseteq rights[b])
    /\ \A d, e \in aclMap : d # e /\ d.start <= e.start =>
         d.end < e.start \/ (d.end = e.start /\ d.flags # e.flags)
=============================================================================
