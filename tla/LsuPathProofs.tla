--------------------------- MODULE LsuPathProofs ---------------------------
(***************************************************************************)
(* Theorems about LsuPath, for every number of lanes and channels, every   *)
(* size of the two tables and every program: fences order the loads of a   *)
(* block, and each lane of a load is in exactly one place between the LSU  *)
(* and its answer.                                                         *)
(***************************************************************************)
EXTENDS LsuPath, FiniteSetTheorems, SequenceTheorems, NaturalsInduction,
        WellFoundedInduction, TLAPS

Tags == 0..(QueueIn - 1)    \* tags of the LSU's table
Reads == 0..(QueueOut - 1)  \* tags of the coalescer's table

(* A table whose entries have owners in O.                                 *)
Table(size, O) == [0..(size - 1) -> [owner : O, mask : SUBSET Lanes]]

(* What the ports carry: between the LSU and the memories masks are of     *)
(* lanes, between the coalescer and the data cache of channels.            *)
LaneReq == [write : BOOLEAN, tag : Tags, mask : SUBSET Lanes, id : Nat]
LaneRsp == [tag : Tags, mask : SUBSET Lanes]
ChanReq == [write : BOOLEAN, tag : Reads, mask : SUBSET Outs, id : Nat]
ChanRsp == [tag : Reads, mask : SUBSET Outs]

BlockType ==
    /\ prog \in Seq(Instrs) /\ inputs \in Seq(Nat)
    /\ fence \in Nat /\ done \subseteq Nat
    /\ pending \in Table(QueueIn, Nat)

PathType ==
    /\ demuxReq \in Seq(LaneReq) /\ demuxRsp \in Seq(LaneRsp)
    /\ coalReq \in Seq(LaneReq) /\ coalRsp \in Seq(ChanRsp)
    /\ sent \subseteq Lanes
    /\ coalPend \in Table(QueueOut, Tags)
    /\ dcReq \in Seq(ChanReq) /\ dcRsp \in Seq(LaneRsp)
    /\ dcBusy \in [Outs -> SUBSET Reads] /\ dcOut \in [Outs -> Seq(Reads)]
    /\ lmReq \in Seq(LaneReq) /\ lmRsp \in Seq(LaneRsp)
    /\ lmIn \in [Lanes -> Seq(LaneReq)] /\ lmOut \in [Lanes -> Seq(Tags)]

----------------------------------------------------------------------------
(* The instructions taken off the input so far are the first Fed ones.     *)
Fed == Len(prog) - Len(inputs)

InputsInOrder ==
    /\ Fed \in Nat
    /\ \A n \in DOMAIN inputs : inputs[n] = Fed + n

(* With k instructions taken, the table p, the instructions d done and the *)
(* fence f at work: an entry in use belongs to a load that was taken and   *)
(* is not done, and to no other entry.                                     *)
OwnersOK(k, p, d) ==
    /\ \A t \in Used(p) : /\ p[t].owner \in 1..k
                          /\ prog[p[t].owner].kind = "load"
                          /\ p[t].owner \notin d
    /\ \A t, u \in Used(p) : p[t].owner = p[u].owner => t = u

(* The fence that holds the block is the last instruction taken.           *)
FenceLast(k, d, f) == f # 0 => f = k /\ prog[f].kind = "fence" /\ f \notin d

(* Every instruction taken is done, holds the block or waits for lanes.    *)
TakenAccounted(k, p, d, f) ==
    /\ d \subseteq 1..k
    /\ \A n \in 1..k : n \in d \/ n = f \/ \E t \in Used(p) : p[t].owner = n

LoadsBeforeFence(d) ==
    \A g \in d : prog[g].kind = "fence" =>
        \A l \in 1..(g - 1) : prog[l].kind = "load" => l \in d

BlockOK(k, p, d, f) ==
    /\ OwnersOK(k, p, d) /\ FenceLast(k, d, f)
    /\ TakenAccounted(k, p, d, f) /\ LoadsBeforeFence(d)

BlockInv == BlockType /\ InputsInOrder /\ BlockOK(Fed, pending, done, fence)

----------------------------------------------------------------------------
(* sent_mask_ is about the request at the head of the coalescer's input.   *)
SentOfHead ==
    /\ coalReq = <<>> => sent = {}
    /\ coalReq # <<>> => sent \subseteq Head(coalReq).mask

(* A request at the coalescer's input has lanes left to send.              *)
LanesLeft ==
    /\ \A n \in DOMAIN coalReq : coalReq[n].mask # {}
    /\ coalReq # <<>> => sent # Head(coalReq).mask

(* A request at lane i of the local memory is for lane i.                  *)
OwnLane == \A i \in Lanes : \A n \in DOMAIN lmIn[i] : i \in lmIn[i][n].mask

----------------------------------------------------------------------------
(* How many elements of a queue are in a set.                              *)
Count(q, S) == Cardinality({n \in DOMAIN q : q[n] \in S})

LEMMA CountIsNat ==
    ASSUME NEW T, NEW q \in Seq(T), NEW S
    PROVE  Count(q, S) \in Nat /\ IsFiniteSet({n \in DOMAIN q : q[n] \in S})
  <1>1. IsFiniteSet(1..Len(q)) /\ {n \in DOMAIN q : q[n] \in S} \in SUBSET (1..Len(q))
    BY FS_Interval
  <1> QED
    BY <1>1, FS_Subset, FS_CardinalityType DEF Count

LEMMA CountConcat ==
    ASSUME NEW T, NEW q \in Seq(T), NEW r \in Seq(T), NEW S
    PROVE  q \o r \in Seq(T) /\ Count(q \o r, S) = Count(q, S) + Count(r, S)
  <1> DEFINE A == {n \in DOMAIN q : q[n] \in S}
             B == {n \in DOMAIN r : r[n] \in S}
             C == {n \in DOMAIN (q \o r) : (q \o r)[n] \in S}
             D == C \ A
             f == [n \in B |-> Len(q) + n]
  <1>1. /\ q \o r \in Seq(T) /\ Len(q \o r) = Len(q) + Len(r)
        /\ \A n \in 1..Len(q) : (q \o r)[n] = q[n]
        /\ \A n \in 1..Len(r) : (q \o r)[Len(q) + n] = r[n]
    BY ConcatProperties
  <1>2. /\ DOMAIN q = 1..Len(q) /\ DOMAIN r = 1..Len(r) /\ Len(q) \in Nat /\ Len(r) \in Nat
        /\ DOMAIN (q \o r) = 1..(Len(q) + Len(r))
    BY <1>1
  <1>3. IsFiniteSet(A) /\ IsFiniteSet(B)
    BY CountIsNat
  <1>4. A \subseteq C
    BY <1>1, <1>2
  <1>5. \A n \in D : n - Len(q) \in B /\ f[n - Len(q)] = n
    <2> SUFFICES ASSUME NEW n \in D PROVE n - Len(q) \in B /\ f[n - Len(q)] = n
      OBVIOUS
    <2>1. n \in 1..(Len(q) + Len(r)) /\ (q \o r)[n] \in S /\ n \notin A
      BY <1>2
    <2>2. ~(n <= Len(q))
      BY <1>1, <1>2, <2>1
    <2>3. n - Len(q) \in 1..Len(r) /\ n = Len(q) + (n - Len(q))
      BY <1>2, <2>1, <2>2
    <2>4. r[n - Len(q)] \in S
      BY <1>1, <2>1, <2>3
    <2> QED
      BY <1>2, <2>3, <2>4
  <1>6. \A n \in B : f[n] \in D
    <2> SUFFICES ASSUME NEW n \in B PROVE f[n] \in D
      OBVIOUS
    <2>1. n \in 1..Len(r) /\ f[n] = Len(q) + n /\ r[n] \in S
      BY <1>2
    <2>2. Len(q) + n \in 1..(Len(q) + Len(r)) /\ (q \o r)[Len(q) + n] \in S
      BY <1>1, <1>2, <2>1
    <2>3. Len(q) + n \notin A
      BY <1>2, <2>1
    <2> QED
      BY <1>2, <2>1, <2>2, <2>3
  <1>7. \A m, n \in B : f[m] = f[n] => m = n
    BY <1>2
  <1>8. f \in Bijection(B, D)
    <2>1. f \in [B -> D]
      BY <1>6
    <2>2. f \in Injection(B, D)
      BY <2>1, <1>7 DEF Injection, IsInjective
    <2>3. f \in Surjection(B, D)
      BY <2>1, <1>5 DEF Surjection
    <2> QED
      BY <2>2, <2>3 DEF Bijection
  <1>9. IsFiniteSet(D) /\ Cardinality(D) = Cardinality(B)
    BY <1>3, <1>8, FS_Bijection DEF ExistsBijection
  <1>10. C = A \cup D /\ A \cap D = {}
    BY <1>4
  <1>11. Cardinality(C) = Cardinality(A) + Cardinality(D)
    <2> HIDE DEF A, C, D
    <2>1. Cardinality(C) = Cardinality(A) + Cardinality(D) - Cardinality({})
      BY <1>3, <1>9, <1>10, FS_Union
    <2>2. Cardinality({}) = 0 /\ Cardinality(A) \in Nat /\ Cardinality(D) \in Nat
      BY <1>3, <1>9, FS_EmptySet, FS_CardinalityType
    <2> QED
      BY <2>1, <2>2
  <1> QED
    BY <1>1, <1>9, <1>11 DEF Count

(* Of a queue with at most one element.                                    *)
LEMMA CountSmall ==
    ASSUME NEW S
    PROVE  /\ Count(<<>>, S) = 0
           /\ \A x : Count(<<x>>, S) = IF x \in S THEN 1 ELSE 0
  <1>1. {n \in DOMAIN <<>> : <<>>[n] \in S} = {}
    OBVIOUS
  <1>2. ASSUME NEW x PROVE Count(<<x>>, S) = IF x \in S THEN 1 ELSE 0
    <2>1. {n \in DOMAIN <<x>> : <<x>>[n] \in S} = IF x \in S THEN {1} ELSE {}
      OBVIOUS
    <2> QED
      BY <2>1, FS_EmptySet, FS_Singleton DEF Count
  <1> QED
    BY <1>1, <1>2, FS_EmptySet DEF Count

LEMMA CountFirst ==
    ASSUME NEW q, NEW S
    PROVE  Count(First(q), S) = IF q # <<>> /\ Head(q) \in S THEN 1 ELSE 0
  BY CountSmall DEF First

(* A queue is its head and the rest.                                       *)
LEMMA HeadAndRest ==
    ASSUME NEW T, NEW q \in Seq(T)
    PROVE  First(q) \in Seq(T) /\ Pop(q) \in Seq(T) /\ q = First(q) \o Pop(q)
  <1>1. CASE q = <<>>
    BY <1>1 DEF First, Pop
  <1>2. CASE q # <<>>
    BY <1>2 DEF First, Pop
  <1> QED
    BY <1>1, <1>2

(* A port that is popped and pushed.                                       *)
LEMMA CountFlow ==
    ASSUME NEW T, NEW q \in Seq(T), NEW r \in Seq(T), NEW S
    PROVE  /\ Pop(q) \o r \in Seq(T) /\ Pop(q) \in Seq(T)
           /\ Count(Pop(q) \o r, S) = Count(q, S) - Count(First(q), S) + Count(r, S)
           /\ Count(Pop(q), S) = Count(q, S) - Count(First(q), S)
           /\ Count(q, S) \in Nat /\ Count(r, S) \in Nat /\ Count(Pop(q), S) \in Nat
           /\ Count(First(q), S) = IF q # <<>> /\ Head(q) \in S THEN 1 ELSE 0
  <1>1. First(q) \in Seq(T) /\ Pop(q) \in Seq(T) /\ q = First(q) \o Pop(q)
    BY HeadAndRest
  <1>2. Count(q, S) = Count(First(q), S) + Count(Pop(q), S)
    <2>1. Count(First(q) \o Pop(q), S) = Count(First(q), S) + Count(Pop(q), S)
      BY <1>1, CountConcat
    <2>2. First(q) \o Pop(q) = q
      BY <1>1, Zenon
    <2> QED
      BY <2>1, <2>2, Zenon
  <1>3. Pop(q) \o r \in Seq(T) /\ Count(Pop(q) \o r, S) = Count(Pop(q), S) + Count(r, S)
    BY <1>1, CountConcat
  <1>4. Count(q, S) \in Nat /\ Count(r, S) \in Nat /\ Count(First(q), S) \in Nat /\ Count(Pop(q), S) \in Nat
    BY <1>1, CountIsNat
  <1>5. Count(First(q), S) = IF q # <<>> /\ Head(q) \in S THEN 1 ELSE 0
    BY CountFirst
  <1> QED
    BY <1>1, <1>2, <1>3, <1>4, <1>5

(* A queue cut short holds no more.                                        *)
LEMMA CountPrefix ==
    ASSUME NEW T, NEW q \in Seq(T), NEW m \in 0..Len(q), NEW S
    PROVE  SubSeq(q, 1, m) \in Seq(T) /\ Count(SubSeq(q, 1, m), S) <= Count(q, S)
  <1>1. /\ SubSeq(q, 1, m) \in Seq(T) /\ Len(SubSeq(q, 1, m)) = m
        /\ \A n \in 1..m : SubSeq(q, 1, m)[n] = q[n]
    OBVIOUS
  <1>2. {n \in DOMAIN SubSeq(q, 1, m) : SubSeq(q, 1, m)[n] \in S} \subseteq {n \in DOMAIN q : q[n] \in S}
    BY <1>1
  <1>3. IsFiniteSet({n \in DOMAIN q : q[n] \in S})
    BY CountIsNat
  <1> QED
    BY <1>1, <1>2, <1>3, FS_Subset DEF Count

----------------------------------------------------------------------------
LEMMA SmallestNat ==
    ASSUME NEW T, T \subseteq Nat, T # {}
    PROVE  \E n \in T : \A m \in T : n <= m
  <1>1. IsWellFoundedOn(OpToRel(<, Nat), Nat)
    BY NatLessThanWellFounded
  <1>2. PICK n \in T : \A m \in T : ~(<<m, n>> \in OpToRel(<, Nat))
    BY <1>1, WFMin
  <1>3. \A m \in T : ~(m < n)
    BY <1>2 DEF OpToRel
  <1> QED
    BY <1>3

(* The HashTable: an answer takes lanes from an entry, and frees it when   *)
(* none is left; the first free entry is allocated.                        *)
LEMMA AnsweredTable ==
    ASSUME NEW size \in Nat, NEW O, 0 \in O, NEW table \in Table(size, O),
           NEW t \in 0..(size - 1), NEW lanes
    PROVE  LET new == Answered(table, t, lanes)
           IN  /\ new \in Table(size, O)
               /\ \A u \in 0..(size - 1) :
                    /\ new[u].mask = IF u = t THEN table[u].mask \ lanes ELSE table[u].mask
                    /\ new[u].mask # {} => new[u].owner = table[u].owner
               /\ Used(new) \subseteq Used(table)
  <1> DEFINE new == Answered(table, t, lanes)
             left == table[t].mask \ lanes
  <1>1. /\ table[t] \in [owner : O, mask : SUBSET Lanes]
        /\ left \in SUBSET Lanes
    BY DEF Table
  <1>2. /\ FreeEntry \in [owner : O, mask : SUBSET Lanes] /\ FreeEntry.mask = {}
    BY DEF FreeEntry
  <1>3. LET e == [table[t] EXCEPT !.mask = left]
        IN  e \in [owner : O, mask : SUBSET Lanes] /\ e.mask = left /\ e.owner = table[t].owner
    BY <1>1
  <1>4. new = [table EXCEPT ![t] = IF left = {} THEN FreeEntry ELSE [table[t] EXCEPT !.mask = left]]
    BY DEF Answered
  <1>5. new \in Table(size, O)
    BY <1>2, <1>3, <1>4 DEF Table
  <1>6. ASSUME NEW u \in 0..(size - 1)
        PROVE  /\ new[u].mask = IF u = t THEN table[u].mask \ lanes ELSE table[u].mask
               /\ new[u].mask # {} => new[u].owner = table[u].owner
    BY <1>2, <1>3, <1>4 DEF Table
  <1>7. Used(new) \subseteq Used(table)
    BY <1>5, <1>6 DEF Used, Table
  <1> QED
    BY <1>5, <1>6, <1>7

LEMMA FreeTagIs ==
    ASSUME NEW size \in Nat, NEW O, NEW table \in Table(size, O), ~Full(table)
    PROVE  FreeTag(table) \in 0..(size - 1) /\ table[FreeTag(table)].mask = {}
  <1>1. DOMAIN table = 0..(size - 1)
    BY DEF Table
  <1>2. DOMAIN table \ Used(table) # {} /\ DOMAIN table \ Used(table) \subseteq Nat
    BY <1>1 DEF Full, Used
  <1>3. \E t \in DOMAIN table \ Used(table) : \A u \in DOMAIN table \ Used(table) : t <= u
    BY <1>2, SmallestNat
  <1>4. FreeTag(table) \in DOMAIN table \ Used(table)
    BY <1>3 DEF FreeTag
  <1> QED
    BY <1>1, <1>4 DEF Used

LEMMA AllocateTable ==
    ASSUME NEW size \in Nat, NEW O, NEW table \in Table(size, O), ~Full(table),
           NEW o \in O, NEW m \in SUBSET Lanes
    PROVE  /\ Allocate(table, o, m) \in Table(size, O)
           /\ Allocate(table, o, m)[FreeTag(table)] = [owner |-> o, mask |-> m]
           /\ \A u \in 0..(size - 1) : u # FreeTag(table) => Allocate(table, o, m)[u] = table[u]
  <1>1. FreeTag(table) \in 0..(size - 1)
    BY FreeTagIs
  <1> QED
    BY <1>1 DEF Allocate, Table

LEMMA EmptyTableIs ==
    ASSUME NEW size \in Nat, NEW O, 0 \in O
    PROVE  EmptyTable(size) \in Table(size, O) /\ Used(EmptyTable(size)) = {}
  BY DEF EmptyTable, FreeEntry, Table, Used

LEMMA InstrType ==
    ASSUME NEW x \in Instrs
    PROVE  x.kind \in {"load", "store", "fence"} /\ x.mask \in SUBSET Lanes /\ x.mask # {}
  <1>1. x \in [kind : {"load", "store", "fence"}, mask : (SUBSET Lanes) \ {{}}, addr : Addresses]
    BY Zenon DEF Instrs
  <1>2. x.kind \in {"load", "store", "fence"} /\ x.mask \in (SUBSET Lanes) \ {{}}
    BY <1>1
  <1> QED
    BY <1>2, Zenon

----------------------------------------------------------------------------
(* The first half of LsuUnit::tick, with the release of the fence.         *)
DoneFirst == done \cup ReleasedByRsp \cup (IF fence = 0 \/ FenceHolds THEN {} ELSE {fence})
FenceFirst == IF FenceHolds THEN fence ELSE 0

LEMMA AfterRspIs ==
    ASSUME LsuAssumption, BlockType, demuxRsp \in Seq(LaneRsp)
    PROVE  /\ PendingAfterRsp \in Table(QueueIn, Nat)
           /\ Used(PendingAfterRsp) \subseteq Used(pending)
           /\ \A t \in Used(PendingAfterRsp) : PendingAfterRsp[t].owner = pending[t].owner
  <1>1. pending \in Table(QueueIn, Nat) /\ QueueIn \in Nat
    BY DEF BlockType, LsuAssumption
  <1>2. CASE demuxRsp = <<>>
    BY <1>1, <1>2 DEF PendingAfterRsp
  <1>3. CASE demuxRsp # <<>>
    <2> DEFINE r == Head(demuxRsp)
    <2>1. r.tag \in 0..(QueueIn - 1)
      <3>1. r \in LaneRsp
        BY <1>3
      <3> QED
        BY <3>1 DEF LaneRsp, Tags
    <2>2. PendingAfterRsp = Answered(pending, r.tag, r.mask)
      BY <1>3 DEF PendingAfterRsp
    <2> HIDE DEF r
    <2>3. LET new == Answered(pending, r.tag, r.mask)
          IN  /\ new \in Table(QueueIn, Nat)
              /\ \A u \in 0..(QueueIn - 1) :
                   /\ new[u].mask = IF u = r.tag THEN pending[u].mask \ r.mask ELSE pending[u].mask
                   /\ new[u].mask # {} => new[u].owner = pending[u].owner
              /\ Used(new) \subseteq Used(pending)
      <3>1. 0 \in Nat
        OBVIOUS
      <3> QED
        BY <1>1, <2>1, <3>1, AnsweredTable, Zenon
    <2> QED
      BY <2>2, <2>3 DEF Used, Table
  <1> QED
    BY <1>2, <1>3

LEMMA FirstHalf ==
    ASSUME LsuAssumption, BlockInv, demuxRsp \in Seq(LaneRsp)
    PROVE  BlockOK(Fed, PendingAfterRsp, DoneFirst, FenceFirst)
  <1> DEFINE P == PendingAfterRsp
             F == IF fence = 0 \/ FenceHolds THEN {} ELSE {fence}
  <1>1. /\ P \in Table(QueueIn, Nat) /\ Used(P) \subseteq Used(pending)
        /\ \A t \in Used(P) : P[t].owner = pending[t].owner
    BY AfterRspIs DEF BlockInv
  <1>2. /\ OwnersOK(Fed, pending, done) /\ FenceLast(Fed, done, fence)
        /\ TakenAccounted(Fed, pending, done, fence) /\ LoadsBeforeFence(done)
        /\ Fed \in Nat /\ fence \in Nat
    BY DEF BlockInv, BlockOK, BlockType, InputsInOrder
  <1> HIDE DEF P
  <1>3. DoneFirst = done \cup ReleasedByRsp \cup F
    BY DEF DoneFirst
  <1>4. \A n : n \in ReleasedByRsp <=> \E t \in Used(pending) \ Used(P) : n = pending[t].owner
    BY DEF ReleasedByRsp, P
  <1>5. FenceHolds <=> fence # 0 /\ Used(P) # {}
    BY DEF FenceHolds, P
  <1>6. \A n \in ReleasedByRsp : n \in 1..Fed /\ prog[n].kind = "load"
    BY <1>2, <1>4 DEF OwnersOK
  <1>7. \A n \in F : n = fence /\ fence # 0 /\ Used(P) = {}
    BY <1>5
  <1>8. OwnersOK(Fed, P, DoneFirst)
    <2>1. ASSUME NEW t \in Used(P)
          PROVE  P[t].owner \in 1..Fed /\ prog[P[t].owner].kind = "load"
      BY <1>1, <1>2 DEF OwnersOK
    <2>2. ASSUME NEW t \in Used(P) PROVE P[t].owner \notin done
      BY <1>1, <1>2 DEF OwnersOK
    <2>3. ASSUME NEW t \in Used(P) PROVE P[t].owner \notin ReleasedByRsp
      BY <1>1, <1>2, <1>4 DEF OwnersOK
    <2>4. ASSUME NEW t \in Used(P) PROVE P[t].owner \notin F
      BY <1>7
    <2>5. ASSUME NEW t \in Used(P), NEW u \in Used(P), P[t].owner = P[u].owner PROVE t = u
      BY <1>1, <1>2, <2>5 DEF OwnersOK
    <2> QED
      BY <1>3, <2>1, <2>2, <2>3, <2>4, <2>5 DEF OwnersOK
  <1>9. FenceLast(Fed, DoneFirst, FenceFirst)
    <2> SUFFICES ASSUME FenceFirst # 0
                 PROVE  FenceFirst = Fed /\ prog[FenceFirst].kind = "fence" /\ FenceFirst \notin DoneFirst
      BY DEF FenceLast
    <2>1. FenceHolds /\ FenceFirst = fence /\ fence # 0 /\ F = {}
      BY DEF FenceFirst
    <2>2. fence = Fed /\ prog[fence].kind = "fence" /\ fence \notin done
      BY <1>2, <2>1 DEF FenceLast
    <2>3. fence \notin ReleasedByRsp
      BY <1>6, <2>2
    <2> QED
      BY <1>3, <2>1, <2>2, <2>3
  <1>10. TakenAccounted(Fed, P, DoneFirst, FenceFirst)
    <2>1. DoneFirst \subseteq 1..Fed
      <3>1. done \subseteq 1..Fed
        BY <1>2 DEF TakenAccounted
      <3>2. F \subseteq 1..Fed
        BY <1>2, <1>7 DEF FenceLast
      <3> QED
        BY <1>3, <1>6, <3>1, <3>2
    <2>2. ASSUME NEW n \in 1..Fed
          PROVE  n \in DoneFirst \/ n = FenceFirst \/ \E t \in Used(P) : P[t].owner = n
      <3>1. n \in done \/ n = fence \/ \E t \in Used(pending) : pending[t].owner = n
        BY <1>2 DEF TakenAccounted
      <3>2. CASE n = fence
        <4>1. CASE FenceHolds
          BY <3>2, <4>1 DEF FenceFirst
        <4>2. CASE ~FenceHolds
          BY <1>3, <3>2, <4>2
        <4> QED
          BY <4>1, <4>2
      <3>3. CASE n \in done
        BY <1>3, <3>3
      <3>4. CASE \E t \in Used(pending) : pending[t].owner = n
        <4>1. PICK t \in Used(pending) : pending[t].owner = n
          BY <3>4
        <4>2. CASE t \in Used(P)
          BY <1>1, <4>1, <4>2
        <4>3. CASE t \notin Used(P)
          BY <1>3, <1>4, <4>1, <4>3
        <4> QED
          BY <4>2, <4>3
      <3> QED
        BY <3>1, <3>2, <3>3, <3>4
    <2> QED
      BY <2>1, <2>2 DEF TakenAccounted
  <1>11. LoadsBeforeFence(DoneFirst)
    <2> SUFFICES ASSUME NEW g \in DoneFirst, prog[g].kind = "fence",
                        NEW l \in 1..(g - 1), prog[l].kind = "load"
                 PROVE  l \in DoneFirst
      BY DEF LoadsBeforeFence
    <2>1. g \in done \/ g \in F
      BY <1>3, <1>6
    <2>2. CASE g \in done
      BY <1>2, <1>3, <2>2 DEF LoadsBeforeFence
    <2>3. CASE g \in F
      <3>1. g = Fed /\ prog[fence].kind = "fence" /\ g = fence /\ Used(P) = {}
        BY <1>2, <1>7, <2>3 DEF FenceLast
      <3>2. l \in 1..Fed /\ l # fence
        BY <1>2, <3>1
      <3>3. l \in done \/ \E t \in Used(pending) : pending[t].owner = l
        BY <1>2, <3>2 DEF TakenAccounted
      <3> QED
        BY <1>3, <1>4, <3>1, <3>3
    <2> QED
      BY <2>1, <2>2, <2>3
  <1> QED
    BY <1>8, <1>9, <1>10, <1>11 DEF BlockOK, P

(* The second half: an instruction is taken while no fence holds the block *)
LEMMA LoadTaken ==
    ASSUME LsuAssumption, NEW k \in Nat, NEW p \in Table(QueueIn, Nat), NEW d, BlockOK(k, p, d, 0),
           prog[k + 1].kind = "load", ~Full(p), NEW m \in SUBSET Lanes, m # {}
    PROVE  /\ Allocate(p, k + 1, m) \in Table(QueueIn, Nat)
           /\ BlockOK(k + 1, Allocate(p, k + 1, m), d, 0)
  <1> DEFINE N == Allocate(p, k + 1, m)
             T == FreeTag(p)
  <1>1. /\ OwnersOK(k, p, d) /\ TakenAccounted(k, p, d, 0) /\ LoadsBeforeFence(d)
        /\ QueueIn \in Nat /\ k + 1 \in Nat
    BY DEF BlockOK, LsuAssumption
  <1>2. /\ T \in 0..(QueueIn - 1) /\ p[T].mask = {} /\ N \in Table(QueueIn, Nat)
        /\ N[T] = [owner |-> k + 1, mask |-> m]
        /\ \A u \in 0..(QueueIn - 1) : u # T => N[u] = p[u]
    <2>1. T \in 0..(QueueIn - 1) /\ p[T].mask = {}
      BY <1>1, FreeTagIs
    <2> QED
      BY <1>1, <2>1, AllocateTable
  <1>3. DOMAIN p = 0..(QueueIn - 1) /\ DOMAIN N = 0..(QueueIn - 1)
    BY <1>2 DEF Table
  <1> HIDE DEF N, T
  <1>4. Used(N) = Used(p) \cup {T} /\ T \notin Used(p)
    BY <1>2, <1>3 DEF Used
  <1>5. N[T].owner = k + 1 /\ \A u \in Used(p) : N[u] = p[u] /\ p[u].owner \in 1..k
    <2>1. \A u \in Used(p) : u \in 0..(QueueIn - 1) /\ u # T
      BY <1>3, <1>4 DEF Used
    <2> QED
      BY <1>1, <1>2, <2>1 DEF OwnersOK
  <1>6. OwnersOK(k + 1, N, d)
    <2>1. k + 1 \notin d
      BY <1>1 DEF TakenAccounted
    <2>2. ASSUME NEW t \in Used(N)
          PROVE  N[t].owner \in 1..(k + 1) /\ prog[N[t].owner].kind = "load" /\ N[t].owner \notin d
      <3>1. CASE t = T
        BY <1>5, <2>1, <3>1
      <3>2. CASE t \in Used(p)
        BY <1>1, <1>5, <3>2 DEF OwnersOK
      <3> QED
        BY <1>4, <3>1, <3>2
    <2>3. ASSUME NEW t \in Used(N), NEW u \in Used(N), N[t].owner = N[u].owner PROVE t = u
      <3>1. CASE t \in Used(p) /\ u \in Used(p)
        BY <1>1, <1>5, <2>3, <3>1 DEF OwnersOK
      <3>2. CASE t = T /\ u \in Used(p)
        BY <1>5, <2>3, <3>2
      <3>3. CASE u = T /\ t \in Used(p)
        BY <1>5, <2>3, <3>3
      <3> QED
        BY <1>4, <3>1, <3>2, <3>3
    <2> QED
      BY <2>2, <2>3 DEF OwnersOK
  <1>7. TakenAccounted(k + 1, N, d, 0)
    <2>1. d \subseteq 1..(k + 1)
      BY <1>1 DEF TakenAccounted
    <2>2. ASSUME NEW n \in 1..(k + 1)
          PROVE  n \in d \/ n = 0 \/ \E t \in Used(N) : N[t].owner = n
      <3>1. CASE n = k + 1
        BY <1>4, <1>5, <3>1
      <3>2. CASE n # k + 1
        <4>1. n \in 1..k
          BY <3>2
        <4>2. n \in d \/ n = 0 \/ \E t \in Used(p) : p[t].owner = n
          BY <1>1, <4>1 DEF TakenAccounted
        <4> QED
          BY <1>4, <1>5, <4>2
      <3> QED
        BY <3>1, <3>2
    <2> QED
      BY <2>1, <2>2 DEF TakenAccounted
  <1> QED
    BY <1>1, <1>2, <1>6, <1>7 DEF BlockOK, FenceLast, N

LEMMA StoreTaken ==
    ASSUME NEW k \in Nat, NEW p, NEW d, BlockOK(k, p, d, 0), prog[k + 1].kind = "store"
    PROVE  BlockOK(k + 1, p, d \cup {k + 1}, 0)
  <1>1. OwnersOK(k, p, d) /\ TakenAccounted(k, p, d, 0) /\ LoadsBeforeFence(d)
    BY DEF BlockOK
  <1>2. OwnersOK(k + 1, p, d \cup {k + 1})
    BY <1>1 DEF OwnersOK
  <1>3. TakenAccounted(k + 1, p, d \cup {k + 1}, 0)
    <2>1. \A n \in 1..(k + 1) : n = k + 1 \/ n \in 1..k
      OBVIOUS
    <2>2. d \cup {k + 1} \subseteq 1..(k + 1)
      BY <1>1 DEF TakenAccounted
    <2> QED
      BY <1>1, <2>1, <2>2, Zenon DEF TakenAccounted
  <1>4. LoadsBeforeFence(d \cup {k + 1})
    BY <1>1 DEF LoadsBeforeFence
  <1> QED
    BY <1>2, <1>3, <1>4 DEF BlockOK, FenceLast

LEMMA FenceTaken ==
    ASSUME NEW k \in Nat, NEW p, NEW d, BlockOK(k, p, d, 0), prog[k + 1].kind = "fence"
    PROVE  BlockOK(k + 1, p, d, k + 1)
  <1>1. OwnersOK(k, p, d) /\ TakenAccounted(k, p, d, 0) /\ LoadsBeforeFence(d)
    BY DEF BlockOK
  <1>2. OwnersOK(k + 1, p, d)
    BY <1>1 DEF OwnersOK
  <1>3. TakenAccounted(k + 1, p, d, k + 1)
    BY <1>1 DEF TakenAccounted
  <1>4. FenceLast(k + 1, d, k + 1)
    BY <1>1 DEF TakenAccounted, FenceLast
  <1> QED
    BY <1>1, <1>2, <1>3, <1>4 DEF BlockOK

(* What LsuUnit::tick does, by the kind of the instruction it takes.       *)
LEMMA TickCases ==
    ASSUME LsuAssumption, BlockInv, LsuTick
    PROVE  \/ /\ inputs' = inputs /\ pending' = PendingAfterRsp
              /\ fence' = FenceFirst /\ done' = DoneFirst
              /\ LsuSends = <<>>
           \/ /\ inputs # <<>> /\ inputs' = Tail(inputs) /\ FenceFirst = 0
              /\ \/ /\ Kind(Head(inputs)) = "load" /\ ~Full(PendingAfterRsp)
                    /\ pending' = Allocate(PendingAfterRsp, Head(inputs), prog[Head(inputs)].mask)
                    /\ fence' = 0 /\ done' = DoneFirst
                    /\ LsuSends = <<MemRequest(FALSE, FreeTag(PendingAfterRsp),
                                               prog[Head(inputs)].mask, Head(inputs))>>
                 \/ /\ Kind(Head(inputs)) = "store" /\ pending' = PendingAfterRsp
                    /\ fence' = 0 /\ done' = DoneFirst \cup {Head(inputs)}
                    /\ LsuSends = <<MemRequest(TRUE, 0, prog[Head(inputs)].mask, Head(inputs))>>
                 \/ /\ Kind(Head(inputs)) = "fence" /\ pending' = PendingAfterRsp
                    /\ fence' = Head(inputs) /\ done' = DoneFirst
                    /\ LsuSends = <<>>
  <1> DEFINE h == Head(inputs)
  <1>1. \A kind : TakenKind(kind) = IF Kind(h) = kind /\ Taken # {} THEN {h} ELSE {}
    BY DEF TakenKind, Taken
  <1>2. CASE Taken = {}
    <2>1. \A kind : TakenKind(kind) = {}
      BY <1>1, <1>2
    <2> QED
      BY <1>2, <2>1 DEF LsuTick, LsuSends, FenceFirst, DoneFirst
  <1>3. CASE Taken # {}
    <2>1. inputs # <<>> /\ ~FenceHolds /\ Taken = {h} /\ (Kind(h) = "load" => ~Full(PendingAfterRsp))
      BY <1>3 DEF Taken
    <2>2. inputs' = Tail(inputs) /\ FenceFirst = 0
      BY <1>3, <2>1 DEF LsuTick, FenceFirst
    <2>3. Kind(h) \in {"load", "store", "fence"}
      <3>1. h \in 1..Len(prog)
        BY <2>1 DEF BlockInv, BlockType, InputsInOrder, Fed
      <3>2. prog[h] \in Instrs
        BY <3>1 DEF BlockInv, BlockType
      <3> QED
        BY <3>2, InstrType DEF Kind
    <2>4. CASE Kind(h) = "load"
      <3>1. TakenKind("load") = {h} /\ TakenKind("store") = {} /\ TakenKind("fence") = {}
        BY <1>1, <1>3, <2>4
      <3> QED
        BY <1>3, <2>1, <2>2, <2>4, <3>1 DEF LsuTick, LsuSends, DoneFirst
    <2>5. CASE Kind(h) = "store"
      <3>1. TakenKind("load") = {} /\ TakenKind("store") = {h} /\ TakenKind("fence") = {}
        BY <1>1, <1>3, <2>5
      <3> QED
        BY <1>3, <2>1, <2>2, <2>5, <3>1 DEF LsuTick, LsuSends, DoneFirst
    <2>6. CASE Kind(h) = "fence"
      <3>1. TakenKind("load") = {} /\ TakenKind("store") = {} /\ TakenKind("fence") = {h}
        BY <1>1, <1>3, <2>6
      <3> QED
        BY <1>3, <2>1, <2>2, <2>6, <3>1 DEF LsuTick, LsuSends, DoneFirst
    <2> QED
      BY <2>3, <2>4, <2>5, <2>6
  <1> QED
    BY <1>2, <1>3

LEMMA BlockTick ==
    ASSUME LsuAssumption, BlockInv, demuxRsp \in Seq(LaneRsp), LsuTick, prog' = prog
    PROVE  BlockInv'
  <1> DEFINE P == PendingAfterRsp
             h == Head(inputs)
             k == Fed
  <1>1. /\ prog \in Seq(Instrs) /\ inputs \in Seq(Nat) /\ fence \in Nat /\ done \subseteq Nat
        /\ k \in Nat /\ \A n \in DOMAIN inputs : inputs[n] = k + n
        /\ k = Len(prog) - Len(inputs)
    BY DEF BlockInv, BlockType, InputsInOrder, Fed
  <1>2. P \in Table(QueueIn, Nat)
    BY AfterRspIs DEF BlockInv
  <1>3. BlockOK(k, P, DoneFirst, FenceFirst)
    BY FirstHalf
  <1>4. DoneFirst \subseteq 1..k /\ FenceFirst \in Nat
    BY <1>1, <1>3 DEF BlockOK, TakenAccounted, FenceFirst
  <1>5. ASSUME inputs' = inputs, pending' = P, fence' = FenceFirst, done' = DoneFirst
        PROVE  BlockInv'
    <2>1. Fed' = k /\ InputsInOrder'
      BY <1>1, <1>5 DEF Fed, InputsInOrder
    <2>2. BlockType'
      BY <1>1, <1>2, <1>4, <1>5 DEF BlockType
    <2>3. BlockOK(Fed, pending, done, fence)'
      BY <1>3, <1>5, <2>1 DEF BlockOK, OwnersOK, FenceLast, TakenAccounted, LoadsBeforeFence, Used
    <2> QED
      BY <2>1, <2>2, <2>3 DEF BlockInv
  <1>6. ASSUME inputs # <<>>, inputs' = Tail(inputs),
               pending' \in Table(QueueIn, Nat), fence' \in Nat, done' \subseteq Nat,
               BlockOK(k + 1, pending', done', fence')
        PROVE  BlockInv'
    <2>1. Fed' = k + 1 /\ InputsInOrder'
      BY <1>1, <1>6 DEF Fed, InputsInOrder
    <2>2. BlockType'
      BY <1>1, <1>6 DEF BlockType
    <2>3. BlockOK(Fed, pending, done, fence)'
      BY <1>6, <2>1 DEF BlockOK, OwnersOK, FenceLast, TakenAccounted, LoadsBeforeFence, Used
    <2> QED
      BY <2>1, <2>2, <2>3 DEF BlockInv
  <1>7. ASSUME inputs # <<>>
        PROVE  h = k + 1 /\ prog[h] \in Instrs
    <2>1. h = inputs[1] /\ 1 \in DOMAIN inputs
      BY <1>1, <1>7
    <2>2. h = k + 1
      BY <1>1, <2>1
    <2>3. h \in 1..Len(prog)
      BY <1>1, <1>7, <2>2
    <2> QED
      BY <1>1, <2>2, <2>3
  <1>8. ASSUME inputs # <<>>, inputs' = Tail(inputs), FenceFirst = 0,
               Kind(h) = "load", ~Full(P), pending' = Allocate(P, h, prog[h].mask),
               fence' = 0, done' = DoneFirst
        PROVE  BlockInv'
    <2>1. h = k + 1 /\ prog[h].mask \in SUBSET Lanes /\ prog[h].mask # {}
      BY <1>7, <1>8, InstrType
    <2>2. BlockOK(k, P, DoneFirst, 0) /\ prog[k + 1].kind = "load"
      BY <1>3, <1>8, <2>1 DEF Kind
    <2>3. /\ Allocate(P, k + 1, prog[h].mask) \in Table(QueueIn, Nat)
          /\ BlockOK(k + 1, Allocate(P, k + 1, prog[h].mask), DoneFirst, 0)
      BY <1>1, <1>2, <1>8, <2>1, <2>2, LoadTaken
    <2>4. pending' = Allocate(P, k + 1, prog[h].mask)
      BY <1>8, <2>1
    <2>5. pending' \in Table(QueueIn, Nat) /\ BlockOK(k + 1, pending', done', fence')
      BY <1>8, <2>3, <2>4, Zenon
    <2> QED
      BY <1>4, <1>6, <1>8, <2>5
  <1>9. ASSUME inputs # <<>>, inputs' = Tail(inputs), FenceFirst = 0,
                Kind(h) = "store", pending' = P, fence' = 0, done' = DoneFirst \cup {h}
         PROVE  BlockInv'
    <2>1. h = k + 1 /\ BlockOK(k, P, DoneFirst, 0) /\ prog[k + 1].kind = "store"
      BY <1>3, <1>7, <1>9 DEF Kind
    <2>2. BlockOK(k + 1, P, DoneFirst \cup {k + 1}, 0)
      BY <1>1, <2>1, StoreTaken
    <2>3. BlockOK(k + 1, pending', done', fence')
      BY <1>9, <2>1, <2>2, Zenon
    <2>4. DoneFirst \subseteq Nat /\ h \in Nat
      BY <1>1, <1>4, <2>1
    <2>5. done' \subseteq Nat
      BY <1>9, <2>4, Zenon
    <2> QED
      BY <1>2, <1>6, <1>9, <2>3, <2>5
  <1>10. ASSUME inputs # <<>>, inputs' = Tail(inputs), FenceFirst = 0,
                Kind(h) = "fence", pending' = P, fence' = h, done' = DoneFirst
         PROVE  BlockInv'
    <2>1. h = k + 1 /\ BlockOK(k, P, DoneFirst, 0) /\ prog[k + 1].kind = "fence"
      BY <1>3, <1>7, <1>10 DEF Kind
    <2>2. BlockOK(k + 1, P, DoneFirst, k + 1)
      BY <1>1, <2>1, FenceTaken
    <2>3. BlockOK(k + 1, pending', done', fence')
      BY <1>10, <2>1, <2>2, Zenon
    <2> QED
      BY <1>1, <1>2, <1>4, <1>6, <1>10, <2>1, <2>3
  <1> HIDE DEF P, h, k
  <1> QED
    BY TickCases, <1>5, <1>8, <1>9, <1>10, Zenon DEF P, h

(* The dispatcher pushes the next instruction.                             *)
LEMMA IssueGrows ==
    ASSUME LsuAssumption, prog \in Seq(Instrs), Issue
    PROVE  /\ prog' \in Seq(Instrs) /\ Len(prog') = Len(prog) + 1
           /\ \A n \in 1..Len(prog) : prog'[n] = prog[n]
  <1>1. PICK p \in Programs : /\ Len(prog) < Len(p) /\ prog = SubSeq(p, 1, Len(prog))
                              /\ prog' = SubSeq(p, 1, Len(prog) + 1)
    BY DEF Issue
  <1>2. p \in Seq(Instrs) /\ Len(p) \in Nat /\ Len(prog) \in Nat
    BY DEF LsuAssumption
  <1>3. /\ SubSeq(p, 1, Len(prog) + 1) \in Seq(Instrs)
        /\ Len(SubSeq(p, 1, Len(prog) + 1)) = Len(prog) + 1
        /\ \A n \in 1..(Len(prog) + 1) : SubSeq(p, 1, Len(prog) + 1)[n] = p[n]
    BY <1>1, <1>2
  <1>4. \A n \in 1..Len(prog) : SubSeq(p, 1, Len(prog))[n] = p[n]
    BY <1>1, <1>2
  <1>5. \A n \in 1..Len(prog) : prog[n] = p[n]
    BY <1>1, <1>4, Zenon
  <1> QED
    BY <1>1, <1>2, <1>3, <1>5

LEMMA BlockIssue ==
    ASSUME LsuAssumption, BlockInv, Issue
    PROVE  BlockInv'
  <1>1. /\ prog \in Seq(Instrs) /\ inputs \in Seq(Nat) /\ Len(prog) \in Nat
        /\ Fed \in Nat /\ \A n \in DOMAIN inputs : inputs[n] = Fed + n
        /\ Fed = Len(prog) - Len(inputs) /\ Len(inputs) \in Nat
    BY DEF BlockInv, BlockType, InputsInOrder, Fed
  <1>2. /\ prog' \in Seq(Instrs) /\ Len(prog') = Len(prog) + 1
        /\ \A n \in 1..Len(prog) : prog'[n] = prog[n]
    BY <1>1, IssueGrows
  <1>3. /\ inputs' = Append(inputs, Len(prog) + 1)
        /\ pending' = pending /\ fence' = fence /\ done' = done
    BY DEF Issue
  <1>4. Fed' = Fed /\ BlockType'
    BY <1>1, <1>2, <1>3 DEF Fed, BlockInv, BlockType
  <1>5. InputsInOrder'
    <2>1. inputs' \in Seq(Nat) /\ Len(inputs') = Len(inputs) + 1
      BY <1>1, <1>3
    <2>2. \A n \in 1..Len(inputs) : inputs'[n] = inputs[n]
      BY <1>1, <1>3
    <2>3. inputs'[Len(inputs) + 1] = Fed + (Len(inputs) + 1)
      BY <1>1, <1>3
    <2>4. ASSUME NEW n \in 1..(Len(inputs) + 1) PROVE inputs'[n] = Fed + n
      <3>1. CASE n = Len(inputs) + 1
        BY <2>3, <3>1
      <3>2. CASE n # Len(inputs) + 1
        <4>1. n \in 1..Len(inputs)
          BY <1>1, <3>2
        <4>2. inputs[n] = Fed + n
          BY <1>1, <4>1
        <4> QED
          BY <2>2, <4>1, <4>2
      <3> QED
        BY <3>1, <3>2
    <2> QED
      BY <1>1, <1>4, <2>1, <2>4 DEF InputsInOrder
  <1>6. \A n \in 1..Fed : prog'[n] = prog[n]
    BY <1>1, <1>2
  <1>7. BlockOK(Fed, pending, done, fence)'
    <2>1. OwnersOK(Fed, pending, done)'
      BY <1>3, <1>4, <1>6 DEF BlockInv, BlockOK, OwnersOK, Used
    <2>2. FenceLast(Fed, done, fence)'
      <3>1. FenceLast(Fed, done, fence)
        BY DEF BlockInv, BlockOK
      <3>2. fence # 0 => fence \in 1..Fed
        BY <1>1, <3>1 DEF FenceLast
      <3> QED
        BY <1>3, <1>4, <1>6, <3>1, <3>2 DEF FenceLast
    <2>3. TakenAccounted(Fed, pending, done, fence)'
      BY <1>3, <1>4 DEF BlockInv, BlockOK, TakenAccounted, Used
    <2>4. LoadsBeforeFence(done)'
      <3> SUFFICES ASSUME NEW g \in done, prog'[g].kind = "fence",
                          NEW l \in 1..(g - 1), prog'[l].kind = "load"
                   PROVE  l \in done
        BY <1>3 DEF LoadsBeforeFence
      <3>1. g \in 1..Fed /\ l \in 1..Fed
        BY <1>1 DEF BlockInv, BlockOK, TakenAccounted
      <3>2. prog[g].kind = "fence" /\ prog[l].kind = "load"
        BY <1>6, <3>1
      <3> QED
        BY <3>2 DEF BlockInv, BlockOK, LoadsBeforeFence
    <2> QED
      BY <2>1, <2>2, <2>3, <2>4 DEF BlockOK
  <1> QED
    BY <1>4, <1>5, <1>7 DEF BlockInv

(* At the end of a run the LSU's table is empty.                           *)
LEMMA NothingPending ==
    ASSUME BlockInv, done = DOMAIN prog
    PROVE  Used(pending) = {} /\ fence = 0
  <1>1. /\ OwnersOK(Fed, pending, done) /\ FenceLast(Fed, done, fence)
        /\ Fed \in Nat /\ Fed <= Len(prog) /\ DOMAIN prog = 1..Len(prog) /\ fence \in Nat
    BY DEF BlockInv, BlockOK, BlockType, InputsInOrder, Fed
  <1>2. \A t \in Used(pending) : FALSE
    BY <1>1 DEF OwnersOK
  <1>3. fence = 0
    BY <1>1 DEF FenceLast
  <1> QED
    BY <1>2, <1>3

LEMMA BlockRerun ==
    ASSUME LsuAssumption, BlockInv, Rerun
    PROVE  BlockInv'
  <1>1. /\ prog' = prog /\ inputs' = inputs /\ done' = done /\ fence' = 0
        /\ pending' = EmptyTable(QueueIn) /\ done = DOMAIN prog
    BY DEF Rerun
  <1>2. pending' \in Table(QueueIn, Nat) /\ Used(pending') = {}
    BY <1>1, EmptyTableIs DEF LsuAssumption
  <1>3. Used(pending) = {} /\ fence = 0
    BY <1>1, NothingPending
  <1>4. BlockType' /\ InputsInOrder' /\ Fed' = Fed
    BY <1>1, <1>2 DEF BlockInv, BlockType, InputsInOrder, Fed
  <1>5. Used(pending)' = {}
    BY <1>2 DEF Used
  <1>6. OwnersOK(Fed, pending, done)' /\ FenceLast(Fed, done, fence)'
    BY <1>1, <1>5 DEF OwnersOK, FenceLast
  <1>7. TakenAccounted(Fed, pending, done, fence)' /\ LoadsBeforeFence(done)'
    BY <1>1, <1>3, <1>4 DEF BlockInv, BlockOK, TakenAccounted, LoadsBeforeFence
  <1> QED
    BY <1>4, <1>6, <1>7 DEF BlockInv, BlockOK

LEMMA BlockSame ==
    ASSUME BlockInv, UNCHANGED blockVars
    PROVE  BlockInv'
  <1>1. /\ prog' = prog /\ inputs' = inputs /\ done' = done /\ fence' = fence /\ pending' = pending
    BY DEF blockVars
  <1> QED
    BY <1>1 DEF BlockInv, BlockType, InputsInOrder, BlockOK, OwnersOK, FenceLast, TakenAccounted,
                LoadsBeforeFence, Fed, Used

LEMMA BlockInit ==
    ASSUME LsuAssumption, LsuInit
    PROVE  BlockInv
  <1>1. prog = <<>> /\ inputs = <<>> /\ fence = 0 /\ done = {} /\ pending = EmptyTable(QueueIn)
    BY DEF LsuInit
  <1>2. pending \in Table(QueueIn, Nat) /\ Used(pending) = {}
    BY <1>1, EmptyTableIs DEF LsuAssumption
  <1>3. Fed = 0 /\ InputsInOrder /\ BlockType
    BY <1>1, <1>2 DEF Fed, InputsInOrder, BlockType
  <1>4. BlockOK(0, pending, done, fence)
    BY <1>1, <1>2 DEF BlockOK, OwnersOK, FenceLast, TakenAccounted, LoadsBeforeFence
  <1> QED
    BY <1>3, <1>4 DEF BlockInv

LEMMA BlockOrders ==
    ASSUME BlockInv
    PROVE  FenceOrders
  <1>1. /\ FenceLast(Fed, done, fence) /\ TakenAccounted(Fed, pending, done, fence)
        /\ LoadsBeforeFence(done) /\ OwnersOK(Fed, pending, done)
        /\ inputs \in Seq(Nat) /\ Len(prog) \in Nat /\ DOMAIN prog = 1..Len(prog)
        /\ Fed \in Nat /\ \A n \in DOMAIN inputs : inputs[n] = Fed + n
        /\ Fed = Len(prog) - Len(inputs) /\ Len(inputs) \in Nat
    BY DEF BlockInv, BlockType, BlockOK, InputsInOrder, Fed
  <1> SUFFICES ASSUME NEW f \in DOMAIN prog, prog[f].kind = "fence"
               PROVE  /\ f \in done => \A l \in 1..(f - 1) : prog[l].kind = "load" => l \in done
                      /\ f \notin done => \A y \in (f + 1)..Len(prog) : \E n \in DOMAIN inputs : inputs[n] = y
    BY DEF FenceOrders
  <1>2. f \in done => \A l \in 1..(f - 1) : prog[l].kind = "load" => l \in done
    BY <1>1 DEF LoadsBeforeFence
  <1>3. ASSUME f \notin done, NEW y \in (f + 1)..Len(prog)
        PROVE  \E n \in DOMAIN inputs : inputs[n] = y
    <2>1. f >= Fed
      <3>1. CASE f \in 1..Fed
        <4>1. f = fence \/ \E t \in Used(pending) : pending[t].owner = f
          BY <1>1, <1>3, <3>1 DEF TakenAccounted
        <4>2. ~ \E t \in Used(pending) : pending[t].owner = f
          BY <1>1 DEF OwnersOK
        <4> QED
          BY <1>1, <3>1, <4>1, <4>2 DEF FenceLast
      <3> QED
        BY <1>1, <3>1
    <2>2. y - Fed \in DOMAIN inputs /\ inputs[y - Fed] = Fed + (y - Fed)
      BY <1>1, <2>1
    <2> QED
      BY <1>1, <2>2
  <1> QED
    BY <1>2, <1>3

----------------------------------------------------------------------------
(* The reads and answers that a lane of a load, or a channel of a          *)
(* coalesced read, is in.                                                  *)
LaneReads(t, i) == {r \in LaneReq : r.tag = t /\ i \in r.mask /\ ~r.write}
LaneAnswers(t, i) == {r \in LaneRsp : r.tag = t /\ i \in r.mask}
ChanReads(c, o) == {r \in ChanReq : r.tag = c /\ o \in r.mask /\ ~r.write}
ChanAnswers(c, o) == {r \in ChanRsp : r.tag = c /\ o \in r.mask}

Waits(p, t, i) == IF i \in p[t].mask THEN 1 ELSE 0

LEMMA QueueCounts ==
    ASSUME NEW t, NEW i
    PROVE  /\ \A q \in Seq(LaneReq) : ReadsIn(q, t, i) = Count(q, LaneReads(t, i))
           /\ \A q \in Seq(LaneRsp) : AnswersIn(q, t, i) = Count(q, LaneAnswers(t, i))
           /\ \A q \in Seq(ChanReq) : ReadsIn(q, t, i) = Count(q, ChanReads(t, i))
           /\ \A q \in Seq(ChanRsp) : AnswersIn(q, t, i) = Count(q, ChanAnswers(t, i))
           /\ \A q : TagsIn(q, t) = Count(q, {t})
  <1>1. ASSUME NEW q \in Seq(LaneReq) PROVE ReadsIn(q, t, i) = Count(q, LaneReads(t, i))
    <2>1. \A n \in DOMAIN q : q[n] \in LaneReq
      OBVIOUS
    <2>2. {n \in DOMAIN q : q[n].tag = t /\ i \in q[n].mask /\ ~q[n].write}
            = {n \in DOMAIN q : q[n] \in LaneReads(t, i)}
      BY <2>1, Zenon DEF LaneReads
    <2> QED
      BY <2>2 DEF ReadsIn, Count
  <1>2. ASSUME NEW q \in Seq(LaneRsp) PROVE AnswersIn(q, t, i) = Count(q, LaneAnswers(t, i))
    <2>1. \A n \in DOMAIN q : q[n] \in LaneRsp
      OBVIOUS
    <2>2. {n \in DOMAIN q : q[n].tag = t /\ i \in q[n].mask}
            = {n \in DOMAIN q : q[n] \in LaneAnswers(t, i)}
      BY <2>1, Zenon DEF LaneAnswers
    <2> QED
      BY <2>2 DEF AnswersIn, Count
  <1>3. ASSUME NEW q \in Seq(ChanReq) PROVE ReadsIn(q, t, i) = Count(q, ChanReads(t, i))
    <2>1. \A n \in DOMAIN q : q[n] \in ChanReq
      OBVIOUS
    <2>2. {n \in DOMAIN q : q[n].tag = t /\ i \in q[n].mask /\ ~q[n].write}
            = {n \in DOMAIN q : q[n] \in ChanReads(t, i)}
      BY <2>1, Zenon DEF ChanReads
    <2> QED
      BY <2>2 DEF ReadsIn, Count
  <1>4. ASSUME NEW q \in Seq(ChanRsp) PROVE AnswersIn(q, t, i) = Count(q, ChanAnswers(t, i))
    <2>1. \A n \in DOMAIN q : q[n] \in ChanRsp
      OBVIOUS
    <2>2. {n \in DOMAIN q : q[n].tag = t /\ i \in q[n].mask}
            = {n \in DOMAIN q : q[n] \in ChanAnswers(t, i)}
      BY <2>1, Zenon DEF ChanAnswers
    <2> QED
      BY <2>2 DEF AnswersIn, Count
  <1>5. ASSUME NEW q PROVE TagsIn(q, t) = Count(q, {t})
    <2>1. {n \in DOMAIN q : q[n] = t} = {n \in DOMAIN q : q[n] \in {t}}
      OBVIOUS
    <2> QED
      BY <2>1 DEF TagsIn, Count
  <1> QED
    BY <1>1, <1>2, <1>3, <1>4, <1>5

----------------------------------------------------------------------------
(* The LSU waits for a lane until its answer is taken off the port, and    *)
(* for the lanes of the load it sends.                                     *)
LEMMA RspFlow ==
    ASSUME LsuAssumption, BlockType, demuxRsp \in Seq(LaneRsp), NEW t \in Tags, NEW i \in Lanes,
           Count(First(demuxRsp), LaneAnswers(t, i)) = 1 => i \in pending[t].mask
    PROVE  Waits(PendingAfterRsp, t, i) = Waits(pending, t, i) - Count(First(demuxRsp), LaneAnswers(t, i))
  <1>1. Count(First(demuxRsp), LaneAnswers(t, i))
          = IF demuxRsp # <<>> /\ Head(demuxRsp) \in LaneAnswers(t, i) THEN 1 ELSE 0
    BY CountFirst
  <1>2. pending \in Table(QueueIn, Nat) /\ QueueIn \in Nat
    BY DEF BlockType, LsuAssumption
  <1>3. CASE demuxRsp = <<>>
    BY <1>1, <1>3 DEF PendingAfterRsp, Waits
  <1>4. CASE demuxRsp # <<>>
    <2> DEFINE r == Head(demuxRsp)
    <2>1. r \in LaneRsp
      BY <1>4
    <2>2. r.tag \in 0..(QueueIn - 1)
      BY <2>1 DEF LaneRsp, Tags
    <2>3. PendingAfterRsp = Answered(pending, r.tag, r.mask)
      BY <1>4 DEF PendingAfterRsp
    <2>4. r \in LaneAnswers(t, i) <=> r.tag = t /\ i \in r.mask
      BY <2>1 DEF LaneAnswers
    <2> HIDE DEF r
    <2>5. LET new == Answered(pending, r.tag, r.mask)
          IN  /\ new \in Table(QueueIn, Nat)
              /\ \A u \in 0..(QueueIn - 1) :
                   /\ new[u].mask = IF u = r.tag THEN pending[u].mask \ r.mask ELSE pending[u].mask
                   /\ new[u].mask # {} => new[u].owner = pending[u].owner
              /\ Used(new) \subseteq Used(pending)
      <3>1. 0 \in Nat
        OBVIOUS
      <3> QED
        BY <1>2, <2>2, <3>1, AnsweredTable, Zenon
    <2>6. PendingAfterRsp[t].mask = IF t = r.tag THEN pending[t].mask \ r.mask ELSE pending[t].mask
      BY <2>3, <2>5 DEF Tags
    <2>7. Count(First(demuxRsp), LaneAnswers(t, i)) = IF r.tag = t /\ i \in r.mask THEN 1 ELSE 0
      BY <1>1, <1>4, <2>4 DEF r
    <2> QED
      BY <2>6, <2>7 DEF Waits
  <1> QED
    BY <1>3, <1>4

LEMMA LsuFlow ==
    ASSUME LsuAssumption, BlockInv, demuxRsp \in Seq(LaneRsp), LsuTick
    PROVE  /\ LsuSends \in Seq(LaneReq)
           /\ \A t \in Tags, i \in Lanes :
                Waits(pending', t, i) = Waits(PendingAfterRsp, t, i) + Count(LsuSends, LaneReads(t, i))
  <1> DEFINE P == PendingAfterRsp
             h == Head(inputs)
  <1>1. P \in Table(QueueIn, Nat) /\ QueueIn \in Nat \ {0}
    BY AfterRspIs DEF BlockInv, LsuAssumption
  <1>2. ASSUME inputs # <<>> PROVE h \in Nat /\ prog[h].mask \in SUBSET Lanes
    <2>1. h \in 1..Len(prog) /\ prog \in Seq(Instrs)
      BY <1>2 DEF BlockInv, BlockType, InputsInOrder, Fed
    <2> QED
      BY <2>1, InstrType
  <1> HIDE DEF P, h
  <1>3. ASSUME pending' = P, LsuSends = <<>>
        PROVE  /\ LsuSends \in Seq(LaneReq)
               /\ \A t \in Tags, i \in Lanes :
                    Waits(pending', t, i) = Waits(P, t, i) + Count(LsuSends, LaneReads(t, i))
    BY <1>3, CountSmall DEF Waits
  <1>4. ASSUME inputs # <<>>, pending' = P, LsuSends = <<MemRequest(TRUE, 0, prog[h].mask, h)>>
        PROVE  /\ LsuSends \in Seq(LaneReq)
               /\ \A t \in Tags, i \in Lanes :
                    Waits(pending', t, i) = Waits(P, t, i) + Count(LsuSends, LaneReads(t, i))
    <2> DEFINE r == MemRequest(TRUE, 0, prog[h].mask, h)
    <2>1. r \in LaneReq /\ r.write
      BY <1>1, <1>2, <1>4 DEF MemRequest, LaneReq, Tags
    <2> HIDE DEF r
    <2>2. LsuSends = <<r>>
      BY <1>4 DEF r
    <2>3. \A t \in Tags, i \in Lanes : Count(LsuSends, LaneReads(t, i)) = 0
      BY <2>1, <2>2, CountSmall DEF LaneReads
    <2>4. LsuSends \in Seq(LaneReq)
      BY <2>1, <2>2
    <2>5. \A t \in Tags, i \in Lanes : Waits(pending', t, i) = Waits(P, t, i) /\ Waits(P, t, i) \in Nat
      BY <1>4 DEF Waits
    <2> QED
      BY <2>3, <2>4, <2>5
  <1>5. ASSUME inputs # <<>>, ~Full(P), pending' = Allocate(P, h, prog[h].mask),
               LsuSends = <<MemRequest(FALSE, FreeTag(P), prog[h].mask, h)>>
        PROVE  /\ LsuSends \in Seq(LaneReq)
               /\ \A t \in Tags, i \in Lanes :
                    Waits(pending', t, i) = Waits(P, t, i) + Count(LsuSends, LaneReads(t, i))
    <2> DEFINE r == MemRequest(FALSE, FreeTag(P), prog[h].mask, h)
    <2>1. /\ FreeTag(P) \in Tags /\ P[FreeTag(P)].mask = {}
          /\ pending'[FreeTag(P)].mask = prog[h].mask
          /\ \A u \in Tags : u # FreeTag(P) => pending'[u] = P[u]
      <3>1. FreeTag(P) \in 0..(QueueIn - 1) /\ P[FreeTag(P)].mask = {}
        BY <1>1, <1>5, FreeTagIs
      <3>2. /\ pending'[FreeTag(P)] = [owner |-> h, mask |-> prog[h].mask]
            /\ \A u \in 0..(QueueIn - 1) : u # FreeTag(P) => pending'[u] = P[u]
        <4>1. h \in Nat /\ prog[h].mask \in SUBSET Lanes
          BY <1>2, <1>5
        <4> DEFINE N == Allocate(P, h, prog[h].mask)
        <4>2. /\ N[FreeTag(P)] = [owner |-> h, mask |-> prog[h].mask]
              /\ \A u \in 0..(QueueIn - 1) : u # FreeTag(P) => N[u] = P[u]
          BY <1>1, <1>5, <4>1, AllocateTable
        <4> QED
          BY <1>5, <4>2, Zenon
      <3> QED
        BY <3>1, <3>2 DEF Tags
    <2>2. r \in LaneReq /\ ~r.write /\ r.tag = FreeTag(P) /\ r.mask = prog[h].mask
      BY <1>2, <1>5, <2>1 DEF MemRequest, LaneReq
    <2> HIDE DEF r
    <2>3. LsuSends = <<r>>
      BY <1>5 DEF r
    <2>4. ASSUME NEW t, NEW i
          PROVE  Count(LsuSends, LaneReads(t, i)) = IF FreeTag(P) = t /\ i \in prog[h].mask THEN 1 ELSE 0
      <3>1. r \in LaneReads(t, i) <=> FreeTag(P) = t /\ i \in prog[h].mask
        BY <2>2 DEF LaneReads
      <3>2. Count(<<r>>, LaneReads(t, i)) = IF r \in LaneReads(t, i) THEN 1 ELSE 0
        BY CountSmall
      <3> QED
        BY <2>3, <3>1, <3>2, Zenon
    <2>5. LsuSends \in Seq(LaneReq)
      BY <2>2, <2>3
    <2> QED
      BY <2>1, <2>4, <2>5 DEF Waits
  <1> QED
    BY TickCases, <1>3, <1>4, <1>5, Zenon DEF P, h

----------------------------------------------------------------------------
(* The demux sends each lane of a request to one side, and passes on the   *)
(* answers of both.                                                        *)
LEMMA PartFlow ==
    ASSUME NEW r \in LaneReq, NEW m \in SUBSET r.mask
    PROVE  /\ Part(r, m) \in Seq(LaneReq)
           /\ \A t, i : Count(Part(r, m), LaneReads(t, i))
                          = IF r.tag = t /\ ~r.write /\ i \in m THEN 1 ELSE 0
  <1>1. CASE m = {}
    <2>1. Part(r, m) = <<>>
      BY <1>1 DEF Part
    <2>2. \A t, i : Count(<<>>, LaneReads(t, i)) = 0
      BY CountSmall
    <2>3. <<>> \in Seq(LaneReq)
      OBVIOUS
    <2> QED
      BY <1>1, <2>1, <2>2, <2>3
  <1>2. CASE m # {}
    <2> DEFINE x == [r EXCEPT !.mask = m]
    <2>1. Part(r, m) = <<x>>
      BY <1>2 DEF Part
    <2>2. x \in LaneReq /\ x.tag = r.tag /\ x.write = r.write /\ x.mask = m
      BY DEF LaneReq
    <2> HIDE DEF x
    <2>3. ASSUME NEW t, NEW i
          PROVE  Count(Part(r, m), LaneReads(t, i)) = IF r.tag = t /\ ~r.write /\ i \in m THEN 1 ELSE 0
      <3>1. x \in LaneReads(t, i) <=> r.tag = t /\ ~r.write /\ i \in m
        BY <2>2 DEF LaneReads
      <3>2. Count(<<x>>, LaneReads(t, i)) = IF x \in LaneReads(t, i) THEN 1 ELSE 0
        BY CountSmall
      <3> QED
        BY <2>1, <3>1, <3>2, Zenon
    <2>4. Part(r, m) \in Seq(LaneReq)
      BY <2>1, <2>2
    <2> QED
      BY <2>3, <2>4
  <1> QED
    BY <1>1, <1>2

LEMMA DemuxFlow ==
    ASSUME demuxReq \in Seq(LaneReq)
    PROVE  /\ DemuxToCoal \in Seq(LaneReq) /\ DemuxToLmem \in Seq(LaneReq)
           /\ \A t, i : Count(DemuxToCoal, LaneReads(t, i)) + Count(DemuxToLmem, LaneReads(t, i))
                          = Count(First(demuxReq), LaneReads(t, i))
  <1>1. CASE demuxReq = <<>>
    <2>1. DemuxToCoal = <<>> /\ DemuxToLmem = <<>> /\ First(demuxReq) = <<>>
      BY <1>1 DEF DemuxToCoal, DemuxToLmem, First
    <2> QED
      BY <2>1, CountSmall
  <1>2. CASE demuxReq # <<>>
    <2> DEFINE r == Head(demuxReq)
    <2>1. r \in LaneReq
      BY <1>2
    <2>2. DemuxToCoal = Part(r, r.mask \ LmemLanes(r)) /\ DemuxToLmem = Part(r, LmemLanes(r))
      BY <1>2 DEF DemuxToCoal, DemuxToLmem
    <2>3. LmemLanes(r) \in SUBSET r.mask /\ r.mask \ LmemLanes(r) \in SUBSET r.mask
      BY DEF LmemLanes
    <2> HIDE DEF r
    <2>4. ASSUME NEW t, NEW i
          PROVE  Count(DemuxToCoal, LaneReads(t, i)) + Count(DemuxToLmem, LaneReads(t, i))
                   = Count(First(demuxReq), LaneReads(t, i))
      <3>1. /\ Count(DemuxToCoal, LaneReads(t, i))
                 = IF r.tag = t /\ ~r.write /\ i \in r.mask \ LmemLanes(r) THEN 1 ELSE 0
            /\ Count(DemuxToLmem, LaneReads(t, i))
                 = IF r.tag = t /\ ~r.write /\ i \in LmemLanes(r) THEN 1 ELSE 0
        BY <2>1, <2>2, <2>3, PartFlow
      <3>2. Count(First(demuxReq), LaneReads(t, i)) = IF r \in LaneReads(t, i) THEN 1 ELSE 0
        BY <1>2, CountFirst DEF r
      <3>3. r \in LaneReads(t, i) <=> r.tag = t /\ ~r.write /\ i \in r.mask
        BY <2>1 DEF LaneReads
      <3> QED
        BY <2>3, <3>1, <3>2, <3>3
    <2>5. DemuxToCoal \in Seq(LaneReq) /\ DemuxToLmem \in Seq(LaneReq)
      BY <2>1, <2>2, <2>3, PartFlow
    <2> QED
      BY <2>4, <2>5
  <1> QED
    BY <1>1, <1>2

LEMMA AnswersFlow ==
    ASSUME lmRsp \in Seq(LaneRsp), dcRsp \in Seq(LaneRsp), NEW S
    PROVE  /\ DemuxAnswers \in Seq(LaneRsp)
           /\ Count(DemuxAnswers, S) = Count(First(lmRsp), S) + Count(First(dcRsp), S)
  <1>1. First(lmRsp) \in Seq(LaneRsp) /\ First(dcRsp) \in Seq(LaneRsp)
    BY HeadAndRest
  <1> QED
    BY <1>1, CountConcat DEF DemuxAnswers

----------------------------------------------------------------------------
(* An adapter merges the answers at its channels that have the tag of the  *)
(* first, and takes these and no others.                                   *)
Rsp(T, D) == [tag : T, mask : SUBSET D]
RspFor(T, D, c, o) == {r \in Rsp(T, D) : r.tag = c /\ o \in r.mask}
AdapterLeft(ports, o) == IF AdapterTook(ports, o) THEN Tail(ports[o]) ELSE ports[o]

LEMMA AdapterFlow ==
    ASSUME NEW T, NEW D, D \subseteq Nat, NEW ports \in [D -> Seq(T)]
    PROVE  /\ AdapterAnswers(ports) \in Seq(Rsp(T, D))
           /\ \A o \in D : \A c :
                /\ AdapterLeft(ports, o) \in Seq(T)
                /\ Count(AdapterLeft(ports, o), {c})
                     = Count(ports[o], {c}) - Count(AdapterAnswers(ports), RspFor(T, D, c, o))
  <1>1. ReadyPorts(ports) \subseteq D /\ MergedPorts(ports) \subseteq ReadyPorts(ports)
    BY DEF ReadyPorts, MergedPorts
  <1>2. CASE ReadyPorts(ports) = {}
    <2>1. AdapterAnswers(ports) = <<>> /\ \A o : AdapterLeft(ports, o) = ports[o]
      BY <1>2 DEF AdapterAnswers, AdapterTook, AdapterLeft
    <2>2. \A S : Count(<<>>, S) = 0
      BY CountSmall
    <2>3. \A o \in D : \A c : ports[o] \in Seq(T) /\ Count(ports[o], {c}) \in Nat
      BY CountIsNat
    <2>4. ASSUME NEW o \in D, NEW c PROVE Count(ports[o], {c}) = Count(ports[o], {c}) - 0
      <3>1. Count(ports[o], {c}) \in Nat
        BY <2>3
      <3> QED
        BY <3>1
    <2>5. AdapterAnswers(ports) \in Seq(Rsp(T, D))
      BY <2>1
    <2> QED
      BY <2>1, <2>2, <2>3, <2>4, <2>5, Zenon
  <1>3. CASE ReadyPorts(ports) # {}
    <2> DEFINE f == FirstPort(ports)
               x == Response(Head(ports[f]), MergedPorts(ports))
    <2>1. \E i \in ReadyPorts(ports) : \A j \in ReadyPorts(ports) : i <= j
      BY <1>1, <1>3, SmallestNat
    <2>2. f \in ReadyPorts(ports)
      BY <2>1 DEF FirstPort
    <2>3. f \in D /\ ports[f] # <<>> /\ Head(ports[f]) \in T
      BY <1>1, <2>2 DEF ReadyPorts
    <2>4. AdapterAnswers(ports) = <<x>>
      BY <1>3 DEF AdapterAnswers
    <2>5. x \in Rsp(T, D) /\ x.tag = Head(ports[f]) /\ x.mask = MergedPorts(ports)
      BY <1>1, <2>3 DEF Response, Rsp
    <2>6. \A o : o \in MergedPorts(ports) <=> o \in D /\ ports[o] # <<>> /\ Head(ports[o]) = Head(ports[f])
      BY DEF MergedPorts, ReadyPorts
    <2> HIDE DEF f, x
    <2>7. ASSUME NEW o \in D, NEW c
          PROVE  /\ AdapterLeft(ports, o) \in Seq(T)
                 /\ Count(AdapterLeft(ports, o), {c})
                      = Count(ports[o], {c}) - Count(AdapterAnswers(ports), RspFor(T, D, c, o))
      <3> DEFINE S == RspFor(T, D, c, o)
      <3>1. x \in S <=> Head(ports[f]) = c /\ o \in MergedPorts(ports)
        BY <2>5, Zenon DEF RspFor
      <3> HIDE DEF S
      <3>2. Count(AdapterAnswers(ports), S) = IF x \in S THEN 1 ELSE 0
        BY <2>4, CountSmall
      <3>3. AdapterTook(ports, o) <=> o \in MergedPorts(ports)
        BY <1>3 DEF AdapterTook
      <3>4. ports[o] \in Seq(T) /\ Count(ports[o], {c}) \in Nat
        BY CountIsNat
      <3>5. CASE o \in MergedPorts(ports)
        <4>1. ports[o] # <<>> /\ Head(ports[o]) = Head(ports[f])
          BY <2>6, <3>5
        <4>2. Pop(ports[o]) = Tail(ports[o]) /\ Tail(ports[o]) \in Seq(T)
          BY <3>4, <4>1 DEF Pop
        <4>3. Count(Pop(ports[o]), {c}) = Count(ports[o], {c}) - Count(First(ports[o]), {c})
          BY <3>4, CountFlow
        <4>4. Count(First(ports[o]), {c}) = IF Head(ports[f]) = c THEN 1 ELSE 0
          BY <4>1, CountFirst
        <4>5. Count(Tail(ports[o]), {c}) = Count(ports[o], {c}) - Count(AdapterAnswers(ports), S)
          BY <3>1, <3>2, <3>5, <4>2, <4>3, <4>4
        <4> QED
          BY <3>3, <3>5, <4>2, <4>5, Zenon DEF S, AdapterLeft
      <3>6. CASE o \notin MergedPorts(ports)
        <4>1. Count(ports[o], {c}) = Count(ports[o], {c}) - Count(AdapterAnswers(ports), S)
          BY <3>1, <3>2, <3>4, <3>6
        <4> QED
          BY <3>3, <3>4, <3>6, <4>1, Zenon DEF S, AdapterLeft
      <3> QED
        BY <3>5, <3>6
    <2>8. AdapterAnswers(ports) \in Seq(Rsp(T, D))
      BY <2>4, <2>5
    <2> QED
      BY <2>7, <2>8
  <1> QED
    BY <1>2, <1>3

AdapterKeeps(T, D, ports, o, c) ==
    Count(AdapterLeft(ports, o), {c})
      = Count(ports[o], {c}) - Count(AdapterAnswers(ports), RspFor(T, D, c, o))

LEMMA AdapterCount ==
    ASSUME NEW T, NEW D, D \subseteq Nat, NEW ports \in [D -> Seq(T)], NEW o \in D, NEW c
    PROVE  AdapterKeeps(T, D, ports, o, c)
  <1>1. /\ AdapterAnswers(ports) \in Seq(Rsp(T, D))
        /\ \A p \in D : \A d :
             /\ AdapterLeft(ports, p) \in Seq(T)
             /\ Count(AdapterLeft(ports, p), {d})
                  = Count(ports[p], {d}) - Count(AdapterAnswers(ports), RspFor(T, D, d, p))
    BY AdapterFlow, Zenon
  <1> QED
    BY <1>1, Zenon DEF AdapterKeeps

----------------------------------------------------------------------------
(* A lane of the local memory.                                             *)
LmemLeft(i) == IF i \in Served THEN Tail(lmIn[i]) ELSE lmIn[i]

LEMMA LmemFlow ==
    ASSUME lmReq \in Seq(LaneReq), lmIn \in [Lanes -> Seq(LaneReq)], OwnLane, NEW i \in Lanes
    PROVE  /\ AdapterToLmem(i) \in Seq(LaneReq) /\ LmemLeft(i) \in Seq(LaneReq)
           /\ LmemAnswers(i) \in Seq(Tags)
           /\ \A n \in DOMAIN (LmemLeft(i) \o AdapterToLmem(i)) :
                i \in (LmemLeft(i) \o AdapterToLmem(i))[n].mask
           /\ \A t : /\ Count(AdapterToLmem(i), LaneReads(t, i)) = Count(First(lmReq), LaneReads(t, i))
                     /\ Count(LmemLeft(i), LaneReads(t, i))
                          = Count(lmIn[i], LaneReads(t, i)) - Count(LmemAnswers(i), {t})
  <1>1. lmIn[i] \in Seq(LaneReq) /\ (i \in Served => lmIn[i] # <<>>)
    BY DEF Served, ReadyPorts
  <1>2. /\ AdapterToLmem(i) \in Seq(LaneReq)
        /\ \A n \in DOMAIN AdapterToLmem(i) : i \in AdapterToLmem(i)[n].mask
        /\ \A t : Count(AdapterToLmem(i), LaneReads(t, i)) = Count(First(lmReq), LaneReads(t, i))
    <2>1. \A S : Count(<<>>, S) = 0
      BY CountSmall
    <2>2. CASE lmReq = <<>>
      <3>1. AdapterToLmem(i) = <<>> /\ First(lmReq) = <<>>
        BY <2>2 DEF AdapterToLmem, First
      <3> QED
        BY <3>1
    <2>3. CASE lmReq # <<>>
      <3> DEFINE r == Head(lmReq)
      <3>1. r \in LaneReq /\ First(lmReq) = <<r>>
        BY <2>3 DEF First
      <3>2. AdapterToLmem(i) = IF i \in r.mask THEN <<r>> ELSE <<>>
        BY <2>3 DEF AdapterToLmem
      <3> HIDE DEF r
      <3>3. CASE i \in r.mask
        BY <3>1, <3>2, <3>3
      <3>4. CASE i \notin r.mask
        <4>1. \A t : r \notin LaneReads(t, i)
          BY <3>4 DEF LaneReads
        <4>2. \A t : Count(<<r>>, LaneReads(t, i)) = 0
          BY <4>1, CountSmall
        <4> QED
          BY <2>1, <3>1, <3>2, <3>4, <4>2
      <3> QED
        BY <3>3, <3>4
    <2> QED
      BY <2>2, <2>3
  <1>3. /\ LmemLeft(i) \in Seq(LaneReq)
        /\ \A n \in DOMAIN LmemLeft(i) : i \in LmemLeft(i)[n].mask
    <2>1. \A n \in DOMAIN lmIn[i] : i \in lmIn[i][n].mask
      BY DEF OwnLane
    <2>2. CASE i \in Served
      <3>1. LmemLeft(i) = Tail(lmIn[i]) /\ lmIn[i] # <<>>
        BY <1>1, <2>2 DEF LmemLeft
      <3>2. /\ Tail(lmIn[i]) \in Seq(LaneReq) /\ Len(Tail(lmIn[i])) = Len(lmIn[i]) - 1
            /\ \A n \in 1..Len(Tail(lmIn[i])) : Tail(lmIn[i])[n] = lmIn[i][n + 1]
        BY <1>1, <3>1, HeadTailProperties
      <3>3. \A n \in 1..Len(Tail(lmIn[i])) : n + 1 \in DOMAIN lmIn[i]
        BY <1>1, <3>2
      <3> QED
        BY <2>1, <3>1, <3>2, <3>3
    <2>3. CASE i \notin Served
      BY <1>1, <2>1, <2>3 DEF LmemLeft
    <2> QED
      BY <2>2, <2>3
  <1>4. \A n \in DOMAIN (LmemLeft(i) \o AdapterToLmem(i)) :
           i \in (LmemLeft(i) \o AdapterToLmem(i))[n].mask
    <2> DEFINE q == LmemLeft(i)
               r == AdapterToLmem(i)
    <2>1. q \in Seq(LaneReq) /\ r \in Seq(LaneReq)
      BY <1>2, <1>3
    <2> HIDE DEF q, r
    <2>2. /\ DOMAIN (q \o r) = 1..(Len(q) + Len(r)) /\ Len(q) \in Nat /\ Len(r) \in Nat
          /\ \A n \in 1..(Len(q) + Len(r)) : (q \o r)[n] = IF n <= Len(q) THEN q[n] ELSE r[n - Len(q)]
      BY <2>1
    <2>3. ASSUME NEW n \in DOMAIN (q \o r) PROVE i \in (q \o r)[n].mask
      <3>1. CASE n <= Len(q)
        <4>1. n \in DOMAIN q /\ (q \o r)[n] = q[n]
          BY <2>1, <2>2, <3>1
        <4> QED
          BY <1>3, <4>1 DEF q
      <3>2. CASE ~(n <= Len(q))
        <4>1. n - Len(q) \in DOMAIN r /\ (q \o r)[n] = r[n - Len(q)]
          BY <2>1, <2>2, <3>2
        <4> QED
          BY <1>2, <4>1 DEF r
      <3> QED
        BY <3>1, <3>2
    <2> QED
      BY <2>3 DEF q, r
  <1>5. /\ LmemAnswers(i) \in Seq(Tags)
        /\ \A t : Count(LmemLeft(i), LaneReads(t, i))
                    = Count(lmIn[i], LaneReads(t, i)) - Count(LmemAnswers(i), {t})
    <2>1. \A t : Count(lmIn[i], LaneReads(t, i)) \in Nat
      BY <1>1, CountIsNat
    <2>2. \A t : Count(<<>>, {t}) = 0
      BY CountSmall
    <2>3. CASE i \notin Served
      <3>1. LmemAnswers(i) = <<>> /\ LmemLeft(i) = lmIn[i]
        BY <2>3 DEF LmemAnswers, LmemLeft
      <3>2. ASSUME NEW t PROVE Count(lmIn[i], LaneReads(t, i)) = Count(lmIn[i], LaneReads(t, i)) - 0
        <4>1. Count(lmIn[i], LaneReads(t, i)) \in Nat
          BY <2>1
        <4> QED
          BY <4>1
      <3>3. LmemAnswers(i) \in Seq(Tags)
        BY <3>1
      <3> QED
        BY <2>2, <3>1, <3>2, <3>3, Zenon
    <2>4. CASE i \in Served
      <3> DEFINE r == Head(lmIn[i])
      <3>1. lmIn[i] # <<>> /\ LmemLeft(i) = Tail(lmIn[i]) /\ Pop(lmIn[i]) = Tail(lmIn[i])
        BY <1>1, <2>4 DEF LmemLeft, Pop
      <3>2. r \in LaneReq /\ i \in r.mask
        BY <1>1, <3>1 DEF OwnLane
      <3>3. LmemAnswers(i) = IF ~r.write THEN <<r.tag>> ELSE <<>>
        BY <2>4 DEF LmemAnswers
      <3>4. r.tag \in Tags
        BY <3>2 DEF LaneReq
      <3>5. LmemAnswers(i) \in Seq(Tags)
        BY <3>3, <3>4
      <3>6. ASSUME NEW t
            PROVE  Count(LmemLeft(i), LaneReads(t, i))
                     = Count(lmIn[i], LaneReads(t, i)) - Count(LmemAnswers(i), {t})
        <4>1. Count(Pop(lmIn[i]), LaneReads(t, i))
                = Count(lmIn[i], LaneReads(t, i)) - Count(First(lmIn[i]), LaneReads(t, i))
          BY <1>1, CountFlow
        <4>2. Count(First(lmIn[i]), LaneReads(t, i)) = IF r \in LaneReads(t, i) THEN 1 ELSE 0
          BY <3>1, CountFirst
        <4>3. r \in LaneReads(t, i) <=> r.tag = t /\ ~r.write
          BY <3>2 DEF LaneReads
        <4>4. Count(<<r.tag>>, {t}) = IF r.tag = t THEN 1 ELSE 0
          BY CountSmall
        <4>5. Count(LmemAnswers(i), {t}) = IF r.tag = t /\ ~r.write THEN 1 ELSE 0
          BY <2>2, <3>3, <4>4
        <4> HIDE DEF r
        <4> QED
          BY <3>1, <4>1, <4>2, <4>3, <4>5
      <3> QED
        BY <3>5, <3>6
    <2> QED
      BY <2>3, <2>4
  <1> QED
    BY <1>2, <1>3, <1>4, <1>5

----------------------------------------------------------------------------
(* The coalescer: the entries that hold lane i of the load t, and whether  *)
(* read c waits for channel o.                                             *)
Holders(p, t, i) == {c \in DOMAIN p : p[c].owner = t /\ i \in p[c].mask}
Held(p, t, i) == Cardinality(Holders(p, t, i))
WaitsFor(p, c, o) == IF p[c].mask \cap Group(o) # {} THEN 1 ELSE 0

LEMMA Multiples ==
    ASSUME NEW a \in Nat, NEW b \in Nat, NEW n \in Nat, a < b
    PROVE  a * n + n <= b * n /\ a * n \in Nat
  <1>1. PICK d \in Nat : b = a + 1 + d
    <2>1. b - a - 1 \in Nat /\ b = a + 1 + (b - a - 1)
      OBVIOUS
    <2> QED
      BY <2>1
  <1>2. d * n \in Nat
    OBVIOUS
  <1>3. b * n = a * n + n + d * n
    BY <1>1
  <1> QED
    BY <1>2, <1>3

LEMMA GroupsApart ==
    ASSUME LsuAssumption, NEW o \in Outs, NEW p \in Outs, NEW i \in Group(o), i \in Group(p)
    PROVE  o = p
  <1>1. o \in Nat /\ p \in Nat /\ Ratio \in Nat
    BY DEF Outs, LsuAssumption
  <1>2. /\ o * Ratio \in Nat /\ p * Ratio \in Nat /\ i \in Int
        /\ o * Ratio <= i /\ i < o * Ratio + Ratio
        /\ p * Ratio <= i /\ i < p * Ratio + Ratio
    BY <1>1 DEF Group
  <1>3. CASE o < p
    <2>1. o * Ratio + Ratio <= p * Ratio
      BY <1>1, <1>3, Multiples
    <2> QED
      BY <1>1, <1>2, <2>1
  <1>4. CASE p < o
    <2>1. p * Ratio + Ratio <= o * Ratio
      BY <1>1, <1>4, Multiples
    <2> QED
      BY <1>1, <1>2, <2>1
  <1> QED
    BY <1>1, <1>3, <1>4

LEMMA HeldIsNat ==
    ASSUME NEW size \in Nat, NEW O, NEW p \in Table(size, O), NEW t, NEW i
    PROVE  IsFiniteSet(Holders(p, t, i)) /\ Held(p, t, i) \in Nat
  <1>1. IsFiniteSet(0..(size - 1)) /\ Holders(p, t, i) \in SUBSET (0..(size - 1))
    BY FS_Interval DEF Holders, Table
  <1> QED
    BY <1>1, FS_Subset, FS_CardinalityType DEF Held

(* A response at the coalescer.                                            *)
LEMMA CoalRspIs ==
    ASSUME LsuAssumption, coalRsp \in Seq(ChanRsp), coalPend \in Table(QueueOut, Tags), coalRsp # <<>>
    PROVE  LET r == Head(coalRsp)
           IN  /\ r \in ChanRsp /\ r.tag \in 0..(QueueOut - 1) /\ r.mask \subseteq Outs
               /\ LanesOf(r) \subseteq coalPend[r.tag].mask
               /\ CoalPendAfterRsp \in Table(QueueOut, Tags)
               /\ \A u \in 0..(QueueOut - 1) :
                    /\ CoalPendAfterRsp[u].mask
                         = IF u = r.tag THEN coalPend[u].mask \ LanesOf(r) ELSE coalPend[u].mask
                    /\ CoalPendAfterRsp[u].mask # {} => CoalPendAfterRsp[u].owner = coalPend[u].owner
  <1> DEFINE r == Head(coalRsp)
  <1>1. r \in ChanRsp
    OBVIOUS
  <1>2. r.tag \in 0..(QueueOut - 1) /\ r.mask \subseteq Outs
    BY <1>1 DEF ChanRsp, Reads
  <1>3. LanesOf(r) \subseteq coalPend[r.tag].mask
    BY DEF LanesOf
  <1>4. CoalPendAfterRsp = Answered(coalPend, r.tag, LanesOf(r))
    BY DEF CoalPendAfterRsp
  <1>5. 0 \in Tags /\ QueueOut \in Nat
    BY DEF Tags, LsuAssumption
  <1> HIDE DEF r
  <1>6. LET new == Answered(coalPend, r.tag, LanesOf(r))
        IN  /\ new \in Table(QueueOut, Tags)
            /\ \A u \in 0..(QueueOut - 1) :
                 /\ new[u].mask = IF u = r.tag THEN coalPend[u].mask \ LanesOf(r) ELSE coalPend[u].mask
                 /\ new[u].mask # {} => new[u].owner = coalPend[u].owner
            /\ Used(new) \subseteq Used(coalPend)
    BY <1>2, <1>5, AnsweredTable, Zenon
  <1> QED
    BY <1>1, <1>2, <1>3, <1>4, <1>6, Zenon DEF r

LEMMA CoalRspFlow ==
    ASSUME LsuAssumption, coalRsp \in Seq(ChanRsp), coalPend \in Table(QueueOut, Tags)
    PROVE  /\ CoalPendAfterRsp \in Table(QueueOut, Tags) /\ CoalAnswers \in Seq(LaneRsp)
           /\ \A t \in Tags, i \in Lanes :
                Held(CoalPendAfterRsp, t, i) = Held(coalPend, t, i) - Count(CoalAnswers, LaneAnswers(t, i))
  <1>1. QueueOut \in Nat
    BY DEF LsuAssumption
  <1>2. CASE coalRsp = <<>>
    <2>1. CoalPendAfterRsp = coalPend /\ CoalAnswers = <<>>
      BY <1>2 DEF CoalPendAfterRsp, CoalAnswers
    <2>2. \A t, i : Held(coalPend, t, i) \in Nat
      BY <1>1, HeldIsNat
    <2>3. \A t, i : Count(<<>>, LaneAnswers(t, i)) = 0
      BY CountSmall
    <2>4. ASSUME NEW t, NEW i PROVE Held(coalPend, t, i) = Held(coalPend, t, i) - 0
      <3>1. Held(coalPend, t, i) \in Nat
        BY <2>2
      <3> QED
        BY <3>1
    <2>5. CoalAnswers \in Seq(LaneRsp)
      BY <2>1
    <2> QED
      BY <2>1, <2>3, <2>4, <2>5, Zenon
  <1>3. CASE coalRsp # <<>>
    <2> DEFINE r == Head(coalRsp)
               C == CoalPendAfterRsp
               L == LanesOf(r)
               e == coalPend[r.tag]
               x == Response(e.owner, L)
    <2>1. /\ r.tag \in 0..(QueueOut - 1) /\ L \subseteq e.mask
          /\ C \in Table(QueueOut, Tags)
          /\ \A u \in 0..(QueueOut - 1) :
               /\ C[u].mask = IF u = r.tag THEN coalPend[u].mask \ L ELSE coalPend[u].mask
               /\ C[u].mask # {} => C[u].owner = coalPend[u].owner
      BY <1>3, CoalRspIs
    <2>2. CoalAnswers = <<x>>
      BY <1>3 DEF CoalAnswers
    <2> HIDE DEF r, C, L
    <2>3. e \in [owner : Tags, mask : SUBSET Lanes]
      BY <2>1 DEF Table
    <2>4. x \in LaneRsp /\ x.tag = e.owner /\ x.mask = L
      BY <2>1, <2>3 DEF Response, LaneRsp
    <2>5. DOMAIN coalPend = 0..(QueueOut - 1) /\ DOMAIN C = 0..(QueueOut - 1)
      BY <2>1 DEF Table
    <2> HIDE DEF x
    <2>6. ASSUME NEW t \in Tags, NEW i \in Lanes
          PROVE  Held(C, t, i) = Held(coalPend, t, i) - Count(CoalAnswers, LaneAnswers(t, i))
      <3>1. Count(CoalAnswers, LaneAnswers(t, i)) = IF e.owner = t /\ i \in L THEN 1 ELSE 0
        <4>1. x \in LaneAnswers(t, i) <=> e.owner = t /\ i \in L
          BY <2>4 DEF LaneAnswers
        <4>2. Count(<<x>>, LaneAnswers(t, i)) = IF x \in LaneAnswers(t, i) THEN 1 ELSE 0
          BY CountSmall
        <4> QED
          BY <2>2, <4>1, <4>2, Zenon
      <3>2. IsFiniteSet(Holders(coalPend, t, i)) /\ Held(coalPend, t, i) \in Nat
        BY <1>1, HeldIsNat
      <3>3. ASSUME NEW u \in 0..(QueueOut - 1)
            PROVE  u \in Holders(C, t, i) <=> u \in Holders(coalPend, t, i) /\ ~(u = r.tag /\ i \in L)
        <4>1. i \in C[u].mask <=> i \in coalPend[u].mask /\ ~(u = r.tag /\ i \in L)
          BY <2>1
        <4>2. i \in C[u].mask => C[u].owner = coalPend[u].owner
          BY <2>1
        <4> QED
          BY <2>5, <4>1, <4>2 DEF Holders
      <3>4. Holders(C, t, i) \subseteq 0..(QueueOut - 1) /\ Holders(coalPend, t, i) \subseteq 0..(QueueOut - 1)
        BY <2>5 DEF Holders
      <3>5. CASE e.owner = t /\ i \in L
        <4>1. r.tag \in Holders(coalPend, t, i)
          BY <2>1, <2>5, <3>5 DEF Holders
        <4>2. Holders(C, t, i) = Holders(coalPend, t, i) \ {r.tag}
          BY <3>3, <3>4, <3>5
        <4>3. Cardinality(Holders(coalPend, t, i) \ {r.tag}) = Cardinality(Holders(coalPend, t, i)) - 1
          BY <3>2, <4>1, FS_RemoveElement
        <4> QED
          BY <3>1, <3>5, <4>2, <4>3 DEF Held
      <3>6. CASE ~(e.owner = t /\ i \in L)
        <4>1. r.tag \in Holders(coalPend, t, i) => i \notin L
          BY <3>6 DEF Holders
        <4>2. Holders(C, t, i) = Holders(coalPend, t, i)
          BY <3>3, <3>4, <4>1
        <4> QED
          BY <3>1, <3>2, <3>6, <4>2 DEF Held
      <3> QED
        BY <3>5, <3>6
    <2>7. CoalAnswers \in Seq(LaneRsp)
      BY <2>2, <2>4
    <2> QED
      BY <2>1, <2>6, <2>7, Zenon DEF C
  <1> QED
    BY <1>2, <1>3

LEMMA ChanRspFlow ==
    ASSUME LsuAssumption, coalRsp \in Seq(ChanRsp), coalPend \in Table(QueueOut, Tags),
           NEW c \in Reads, NEW o \in Outs,
           Count(First(coalRsp), ChanAnswers(c, o)) = 1 => WaitsFor(coalPend, c, o) = 1
    PROVE  WaitsFor(CoalPendAfterRsp, c, o)
             = WaitsFor(coalPend, c, o) - Count(First(coalRsp), ChanAnswers(c, o))
  <1>1. Count(First(coalRsp), ChanAnswers(c, o))
          = IF coalRsp # <<>> /\ Head(coalRsp) \in ChanAnswers(c, o) THEN 1 ELSE 0
    BY CountFirst
  <1>2. CASE coalRsp = <<>>
    BY <1>1, <1>2 DEF CoalPendAfterRsp, WaitsFor
  <1>3. CASE coalRsp # <<>>
    <2> DEFINE r == Head(coalRsp)
               C == CoalPendAfterRsp
    <2>1. /\ r \in ChanRsp /\ r.mask \subseteq Outs
          /\ C[c].mask = IF c = r.tag THEN coalPend[c].mask \ LanesOf(r) ELSE coalPend[c].mask
      BY <1>3, CoalRspIs DEF Reads
    <2>2. r \in ChanAnswers(c, o) <=> r.tag = c /\ o \in r.mask
      BY <2>1 DEF ChanAnswers
    <2>3. Count(First(coalRsp), ChanAnswers(c, o)) = IF r.tag = c /\ o \in r.mask THEN 1 ELSE 0
      BY <1>1, <1>3, <2>2
    <2>4. LanesOf(r) = {i \in coalPend[r.tag].mask : \E p \in r.mask : i \in Group(p)}
      BY DEF LanesOf
    <2> HIDE DEF r, C
    <2>5. CASE c # r.tag
      BY <2>1, <2>3, <2>5 DEF WaitsFor, C
    <2>6. CASE c = r.tag /\ o \in r.mask
      <3>1. C[c].mask \cap Group(o) = {}
        BY <2>1, <2>4, <2>6
      <3> QED
        BY <2>3, <2>6, <3>1 DEF WaitsFor, C
    <2>7. CASE c = r.tag /\ o \notin r.mask
      <3>1. \A i \in Group(o) : i \notin LanesOf(r)
        BY <2>1, <2>4, <2>7, GroupsApart
      <3>2. C[c].mask \cap Group(o) = coalPend[c].mask \cap Group(o)
        BY <2>1, <2>7, <3>1
      <3> QED
        BY <2>3, <2>7, <3>2 DEF WaitsFor, C
    <2> QED
      BY <2>5, <2>6, <2>7
  <1> QED
    BY <1>2, <1>3

(* A round takes lanes that were not sent, at least one of every channel   *)
(* it uses and none of another.                                            *)
LEMMA RoundIs ==
    ASSUME LsuAssumption, NEW r \in LaneReq
    PROVE  /\ RoundLanes(r) \subseteq r.mask /\ RoundLanes(r) \cap sent = {}
           /\ RoundLanes(r) \in SUBSET Lanes /\ RoundOuts(r) \in SUBSET Outs
           /\ \A o \in Outs : o \in RoundOuts(r) <=> RoundLanes(r) \cap Group(o) # {}
  <1>1. r.mask \in SUBSET Lanes /\ Lanes \subseteq Nat
    BY DEF LaneReq, Lanes
  <1>2. \A o : Coalesced(r, o) \subseteq Unsent(r, o) /\ Unsent(r, o) \subseteq r.mask \cap Group(o)
                /\ Unsent(r, o) \cap sent = {}
    BY DEF Coalesced, Unsent
  <1>3. RoundLanes(r) \subseteq r.mask /\ RoundLanes(r) \cap sent = {}
    BY <1>2 DEF RoundLanes
  <1>4. ASSUME NEW o \in Outs PROVE o \in RoundOuts(r) <=> RoundLanes(r) \cap Group(o) # {}
    <2>1. ASSUME o \in RoundOuts(r) PROVE RoundLanes(r) \cap Group(o) # {}
      <3>1. Unsent(r, o) # {} /\ Unsent(r, o) \subseteq Nat
        BY <1>1, <1>2, <2>1 DEF RoundOuts
      <3>2. \E i \in Unsent(r, o) : \A j \in Unsent(r, o) : i <= j
        BY <3>1, SmallestNat
      <3>3. Seed(r, o) \in Unsent(r, o)
        BY <3>2 DEF Seed
      <3>4. Seed(r, o) \in Coalesced(r, o)
        BY <3>3 DEF Coalesced
      <3>5. Seed(r, o) \in RoundLanes(r)
        BY <2>1, <3>4 DEF RoundLanes
      <3> QED
        BY <1>2, <3>3, <3>5
    <2>2. ASSUME RoundLanes(r) \cap Group(o) # {} PROVE o \in RoundOuts(r)
      <3>1. PICK i \in RoundLanes(r) : i \in Group(o)
        BY <2>2
      <3>2. PICK p \in RoundOuts(r) : i \in Coalesced(r, p)
        BY DEF RoundLanes
      <3>3. p \in Outs /\ i \in Group(p)
        BY <1>2, <3>2 DEF RoundOuts
      <3>4. o = p
        BY <3>1, <3>3, GroupsApart
      <3> QED
        BY <3>4
    <2> QED
      BY <2>1, <2>2
  <1> QED
    BY <1>1, <1>3, <1>4 DEF RoundOuts

(* The lanes that the coalescer takes from its input in a cycle.           *)
Went(t, i) ==
    IF /\ ~CoalBlocked /\ ~Head(coalReq).write
       /\ Head(coalReq).tag = t /\ i \in RoundLanes(Head(coalReq)) THEN 1 ELSE 0

LEMMA CoalHeldFlow ==
    ASSUME LsuAssumption, coalReq \in Seq(LaneReq), CoalPendAfterRsp \in Table(QueueOut, Tags), CoalTick
    PROVE  /\ coalPend' \in Table(QueueOut, Tags)
           /\ \A t \in Tags, i \in Lanes :
                Held(coalPend', t, i) = Held(CoalPendAfterRsp, t, i) + Went(t, i)
           /\ CoalSends \in Seq(ChanReq)
           /\ \A c \in Reads, o \in Outs :
                WaitsFor(coalPend', c, o)
                  = WaitsFor(CoalPendAfterRsp, c, o) + Count(CoalSends, ChanReads(c, o))
  <1> DEFINE C == CoalPendAfterRsp
             r == Head(coalReq)
             RL == RoundLanes(r)
  <1>1. QueueOut \in Nat \ {0} /\ \A t, i : Held(C, t, i) \in Nat
    BY HeldIsNat DEF LsuAssumption
  <1>2. \A c, o : WaitsFor(C, c, o) \in Nat
    BY DEF WaitsFor
  <1>3. \A S : Count(<<>>, S) = 0
    BY CountSmall
  <1> HIDE DEF C
  <1>4. CASE CoalBlocked
    <2>1. coalPend' = C /\ CoalSends = <<>> /\ \A t, i : Went(t, i) = 0
      BY <1>4 DEF CoalTick, CoalSends, Went, C
    <2>2. \A n \in Nat : n = n + 0
      OBVIOUS
    <2>3. CoalSends \in Seq(ChanReq)
      BY <2>1
    <2> QED
      BY <1>1, <1>2, <1>3, <2>1, <2>2, <2>3, Zenon DEF C
  <1>5. CASE ~CoalBlocked
    <2>1. r \in LaneReq /\ ~Full(C)
      BY <1>5 DEF CoalBlocked, C
    <2>2. /\ RL \in SUBSET Lanes /\ RoundOuts(r) \in SUBSET Outs
          /\ \A o \in Outs : o \in RoundOuts(r) <=> RL \cap Group(o) # {}
      BY <2>1, RoundIs
    <2> DEFINE T == FreeTag(C)
               x == MemRequest(r.write, IF r.write THEN 0 ELSE T, RoundOuts(r), r.id)
    <2>3. CoalSends = <<x>>
      BY <1>5 DEF CoalSends, C
    <2>4. T \in 0..(QueueOut - 1) /\ C[T].mask = {}
      BY <1>1, <2>1, FreeTagIs DEF C
    <2> HIDE DEF T
    <2>5. /\ x \in ChanReq /\ x.write = r.write /\ x.mask = RoundOuts(r)
          /\ (~r.write => x.tag = T)
      <3>1. r.write \in BOOLEAN /\ r.id \in Nat
        BY <2>1 DEF LaneReq
      <3>2. (IF r.write THEN 0 ELSE T) \in Reads
        BY <1>1, <2>4 DEF Reads
      <3> QED
        BY <2>2, <3>1, <3>2 DEF MemRequest, ChanReq
    <2> HIDE DEF x
    <2>6. CoalSends \in Seq(ChanReq)
      BY <2>3, <2>5
    <2>7. ASSUME NEW c, NEW o
          PROVE  Count(CoalSends, ChanReads(c, o))
                   = IF ~r.write /\ T = c /\ o \in RoundOuts(r) THEN 1 ELSE 0
      <3>1. x \in ChanReads(c, o) <=> ~r.write /\ T = c /\ o \in RoundOuts(r)
        BY <2>5 DEF ChanReads
      <3>2. Count(<<x>>, ChanReads(c, o)) = IF x \in ChanReads(c, o) THEN 1 ELSE 0
        BY CountSmall
      <3> QED
        BY <2>3, <3>1, <3>2, Zenon
    <2>8. \A t, i : Went(t, i) = IF ~r.write /\ r.tag = t /\ i \in RL THEN 1 ELSE 0
      BY <1>5 DEF Went
    <2> HIDE DEF RL
    <2>9. CASE r.write
      <3>1. coalPend' = C
        BY <2>9 DEF CoalTick, C
      <3>2. \A t, i : Went(t, i) = 0
        BY <2>8, <2>9
      <3>3. \A c, o : Count(CoalSends, ChanReads(c, o)) = 0
        BY <2>7, <2>9
      <3>4. \A n \in Nat : n = n + 0
        OBVIOUS
      <3> QED
        BY <1>1, <1>2, <2>6, <3>1, <3>2, <3>3, <3>4, Zenon DEF C
    <2>10. CASE ~r.write
      <3> DEFINE N == Allocate(C, r.tag, RL)
      <3>1. coalPend' = N
        BY <1>5, <2>10 DEF CoalTick, C, RL
      <3>2. r.tag \in Tags
        BY <2>1 DEF LaneReq
      <3>3. /\ N \in Table(QueueOut, Tags) /\ N[T] = [owner |-> r.tag, mask |-> RL]
            /\ \A u \in 0..(QueueOut - 1) : u # T => N[u] = C[u]
        BY <1>1, <2>1, <2>2, <3>2, AllocateTable DEF T, C
      <3> HIDE DEF N, r
      <3>4. DOMAIN N = 0..(QueueOut - 1) /\ DOMAIN C = 0..(QueueOut - 1)
        BY <3>3 DEF Table, C
      <3>5. ASSUME NEW t \in Tags, NEW i \in Lanes PROVE Held(N, t, i) = Held(C, t, i) + Went(t, i)
        <4>1. T \notin Holders(C, t, i)
          BY <2>4 DEF Holders
        <4>2. IsFiniteSet(Holders(C, t, i)) /\ Held(C, t, i) \in Nat
          BY <1>1, HeldIsNat DEF C
        <4>3. \A u \in 0..(QueueOut - 1) :
                 u \in Holders(N, t, i) <=> IF u = T THEN r.tag = t /\ i \in RL ELSE u \in Holders(C, t, i)
          BY <3>3, <3>4 DEF Holders
        <4>4. Holders(N, t, i) \subseteq 0..(QueueOut - 1) /\ Holders(C, t, i) \subseteq 0..(QueueOut - 1)
          BY <3>4 DEF Holders
        <4>5. CASE r.tag = t /\ i \in RL
          <5>1. Holders(N, t, i) = Holders(C, t, i) \cup {T}
            BY <2>4, <4>3, <4>4, <4>5
          <5>2. Cardinality(Holders(C, t, i) \cup {T}) = Cardinality(Holders(C, t, i)) + 1
            BY <4>1, <4>2, FS_AddElement
          <5> QED
            BY <2>8, <2>10, <4>5, <5>1, <5>2 DEF Held
        <4>6. CASE ~(r.tag = t /\ i \in RL)
          <5>1. Holders(N, t, i) = Holders(C, t, i)
            BY <4>1, <4>3, <4>4, <4>6
          <5> QED
            BY <2>8, <4>2, <4>6, <5>1 DEF Held
        <4> QED
          BY <4>5, <4>6
      <3>6. ASSUME NEW c \in Reads, NEW o \in Outs
            PROVE  WaitsFor(N, c, o) = WaitsFor(C, c, o) + Count(CoalSends, ChanReads(c, o))
        <4>1. CASE c = T
          BY <2>2, <2>4, <2>7, <2>10, <3>3, <4>1 DEF WaitsFor
        <4>2. CASE c # T
          <5>1. N[c] = C[c]
            BY <3>3, <4>2 DEF Reads
          <5> QED
            BY <2>7, <4>2, <5>1 DEF WaitsFor
        <4> QED
          BY <4>1, <4>2
      <3> QED
        BY <2>6, <3>1, <3>3, <3>5, <3>6, Zenon DEF C
    <2> QED
      BY <2>9, <2>10
  <1> QED
    BY <1>4, <1>5

(* A lane leaves the coalescer's input when its round is sent.             *)
Sent(t, i) == IF HeadSent(t, i) THEN 1 ELSE 0

LEMMA CoalReqFlow ==
    ASSUME LsuAssumption, coalReq \in Seq(LaneReq), demuxReq \in Seq(LaneReq),
           sent \subseteq Lanes, SentOfHead, CoalTick
    PROVE  /\ coalReq' \in Seq(LaneReq) /\ sent' \subseteq Lanes /\ SentOfHead'
           /\ \A t \in Tags, i \in Lanes :
                Count(coalReq', LaneReads(t, i)) - Sent(t, i)'
                  = Count(coalReq, LaneReads(t, i)) - Sent(t, i) - Went(t, i)
                      + Count(DemuxToCoal, LaneReads(t, i))
  <1> DEFINE D == DemuxToCoal
             r == Head(coalReq)
             RL == RoundLanes(r)
  <1>1. D \in Seq(LaneReq)
    BY DemuxFlow
  <1>2. ASSUME NEW t, NEW i
        PROVE  Count(coalReq, LaneReads(t, i)) \in Nat /\ Count(D, LaneReads(t, i)) \in Nat
    BY <1>1, CountIsNat
  <1>3. ASSUME NEW t, NEW i
        PROVE  Sent(t, i) = IF coalReq # <<>> /\ r.tag = t /\ ~r.write /\ i \in r.mask \cap sent THEN 1 ELSE 0
    BY DEF Sent, HeadSent
  <1>4. ASSUME NEW t, NEW i
        PROVE  Sent(t, i)' = IF coalReq' # <<>> /\ Head(coalReq').tag = t /\ ~Head(coalReq').write
                                /\ i \in Head(coalReq').mask \cap sent' THEN 1 ELSE 0
    BY DEF Sent, HeadSent
  <1>5. coalReq # <<>> =>
           /\ r \in LaneReq /\ RL \subseteq r.mask /\ RL \cap sent = {} /\ RL \subseteq Lanes
           /\ r.mask \subseteq Lanes /\ sent \subseteq r.mask
    <2> SUFFICES ASSUME coalReq # <<>>
                 PROVE  /\ r \in LaneReq /\ RL \subseteq r.mask /\ RL \cap sent = {} /\ RL \subseteq Lanes
                        /\ r.mask \subseteq Lanes /\ sent \subseteq r.mask
      OBVIOUS
    <2>1. r \in LaneReq
      OBVIOUS
    <2>2. RL \subseteq r.mask /\ RL \cap sent = {} /\ RL \in SUBSET Lanes
      BY <2>1, RoundIs
    <2>3. r.mask \in SUBSET Lanes
      BY <2>1 DEF LaneReq
    <2> QED
      BY <2>1, <2>2, <2>3 DEF SentOfHead
  <1> HIDE DEF D
  <1>6. coalReq # <<>> => coalReq \o D # <<>> /\ Head(coalReq \o D) = r
    BY <1>1
  <1>7. CASE CoalBlocked
    <2>1. coalReq' = coalReq \o D /\ sent' = sent
      BY <1>7 DEF CoalTick, D
    <2>2. \A t, i : Went(t, i) = 0
      BY <1>7 DEF Went
    <2>3. ASSUME NEW t, NEW i PROVE Sent(t, i)' = Sent(t, i)
      <3>1. CASE coalReq = <<>>
        BY <1>3, <1>4, <2>1, <3>1 DEF SentOfHead
      <3>2. CASE coalReq # <<>>
        BY <1>3, <1>4, <1>6, <2>1, <3>2
      <3> QED
        BY <3>1, <3>2
    <2>4. SentOfHead'
      BY <1>5, <1>6, <2>1 DEF SentOfHead
    <2>5. ASSUME NEW t, NEW i
          PROVE  Count(coalReq', LaneReads(t, i)) = Count(coalReq, LaneReads(t, i)) + Count(D, LaneReads(t, i))
      BY <1>1, <2>1, CountConcat
    <2>6. ASSUME NEW t \in Tags, NEW i \in Lanes
          PROVE  Count(coalReq', LaneReads(t, i)) - Sent(t, i)'
                   = Count(coalReq, LaneReads(t, i)) - Sent(t, i) - Went(t, i) + Count(D, LaneReads(t, i))
      <3>1. Sent(t, i) \in Nat
        BY DEF Sent
      <3> QED
        BY <1>2, <2>2, <2>3, <2>5, <3>1
    <2>7. coalReq' \in Seq(LaneReq)
      BY <1>1, <2>1, CountConcat
    <2> QED
      BY <2>1, <2>4, <2>6, <2>7 DEF D
  <1>8. CASE ~CoalBlocked /\ ~RoundIsLast(r)
    <2>1. coalReq' = coalReq \o D /\ sent' = sent \cup RL /\ coalReq # <<>>
      BY <1>8 DEF CoalTick, CoalBlocked, D
    <2>2. \A t, i : Went(t, i) = IF ~r.write /\ r.tag = t /\ i \in RL THEN 1 ELSE 0
      BY <1>8 DEF Went
    <2> HIDE DEF r, RL
    <2>3. ASSUME NEW t, NEW i PROVE Sent(t, i)' = Sent(t, i) + Went(t, i)
      <3>1. Sent(t, i)' = IF r.tag = t /\ ~r.write /\ i \in r.mask \cap (sent \cup RL) THEN 1 ELSE 0
        BY <1>4, <1>6, <2>1
      <3>2. Sent(t, i) = IF r.tag = t /\ ~r.write /\ i \in r.mask \cap sent THEN 1 ELSE 0
        BY <1>3, <2>1
      <3> QED
        BY <1>5, <2>1, <2>2, <3>1, <3>2
    <2>4. SentOfHead' /\ sent' \subseteq Lanes
      BY <1>5, <1>6, <2>1 DEF SentOfHead
    <2>5. ASSUME NEW t, NEW i
          PROVE  Count(coalReq', LaneReads(t, i)) = Count(coalReq, LaneReads(t, i)) + Count(D, LaneReads(t, i))
      BY <1>1, <2>1, CountConcat
    <2>6. ASSUME NEW t \in Tags, NEW i \in Lanes
          PROVE  Count(coalReq', LaneReads(t, i)) - Sent(t, i)'
                   = Count(coalReq, LaneReads(t, i)) - Sent(t, i) - Went(t, i) + Count(D, LaneReads(t, i))
      <3>1. Sent(t, i) \in Nat /\ Went(t, i) \in Nat
        BY DEF Sent, Went
      <3> QED
        BY <1>2, <2>3, <2>5, <3>1
    <2>7. coalReq' \in Seq(LaneReq)
      BY <1>1, <2>1, CountConcat
    <2> QED
      BY <2>4, <2>6, <2>7 DEF D
  <1>9. CASE ~CoalBlocked /\ RoundIsLast(r)
    <2>1. coalReq' = Tail(coalReq) \o D /\ sent' = {} /\ coalReq # <<>>
      BY <1>9 DEF CoalTick, CoalBlocked, D
    <2>2. Pop(coalReq) = Tail(coalReq)
      BY <2>1 DEF Pop
    <2>3. \A t, i : Went(t, i) = IF ~r.write /\ r.tag = t /\ i \in RL THEN 1 ELSE 0
      BY <1>9 DEF Went
    <2>4. sent \cup RL = r.mask
      BY <1>9 DEF RoundIsLast
    <2> HIDE DEF r, RL
    <2>5. ASSUME NEW t, NEW i PROVE Sent(t, i)' = 0
      BY <1>4, <2>1
    <2>6. SentOfHead' /\ sent' \subseteq Lanes
      BY <2>1 DEF SentOfHead
    <2>7. ASSUME NEW t, NEW i
          PROVE  Count(coalReq', LaneReads(t, i)) = Count(coalReq, LaneReads(t, i))
                   - Count(First(coalReq), LaneReads(t, i)) + Count(D, LaneReads(t, i))
      <3>1. coalReq' = Pop(coalReq) \o D
        BY <2>1, <2>2
      <3>2. Count(Pop(coalReq) \o D, LaneReads(t, i)) = Count(coalReq, LaneReads(t, i))
              - Count(First(coalReq), LaneReads(t, i)) + Count(D, LaneReads(t, i))
        BY <1>1, CountFlow
      <3> QED
        BY <3>1, <3>2, Zenon
    <2>8. ASSUME NEW t, NEW i
          PROVE  Count(First(coalReq), LaneReads(t, i)) = Sent(t, i) + Went(t, i)
      <3>1. Count(First(coalReq), LaneReads(t, i)) = IF r \in LaneReads(t, i) THEN 1 ELSE 0
        BY <2>1, CountFirst DEF r
      <3>2. r \in LaneReads(t, i) <=> r.tag = t /\ i \in r.mask /\ ~r.write
        BY <1>5, <2>1 DEF LaneReads
      <3>3. Sent(t, i) = IF r.tag = t /\ ~r.write /\ i \in r.mask \cap sent THEN 1 ELSE 0
        BY <1>3, <2>1
      <3> QED
        BY <1>5, <2>1, <2>3, <2>4, <3>1, <3>2, <3>3
    <2>9. ASSUME NEW t \in Tags, NEW i \in Lanes
          PROVE  Count(coalReq', LaneReads(t, i)) - Sent(t, i)'
                   = Count(coalReq, LaneReads(t, i)) - Sent(t, i) - Went(t, i) + Count(D, LaneReads(t, i))
      <3>1. Sent(t, i) \in Nat /\ Went(t, i) \in Nat
        BY DEF Sent, Went
      <3> QED
        BY <1>2, <2>5, <2>7, <2>8, <3>1
    <2>10. coalReq' \in Seq(LaneReq)
      BY <1>1, <2>1, <2>2, CountFlow
    <2> QED
      BY <2>6, <2>9, <2>10 DEF D
  <1> QED
    BY <1>7, <1>8, <1>9

----------------------------------------------------------------------------
(* LanesConserved, in these terms.                                         *)
LanesAt(t, i) ==
    Count(demuxReq, LaneReads(t, i)) + (Count(coalReq, LaneReads(t, i)) - Sent(t, i))
    + Held(coalPend, t, i) + Count(dcRsp, LaneAnswers(t, i))
    + Count(lmReq, LaneReads(t, i)) + Count(lmIn[i], LaneReads(t, i)) + Count(lmOut[i], {t})
    + Count(lmRsp, LaneAnswers(t, i)) + Count(demuxRsp, LaneAnswers(t, i))
ChannelsAt(c, o) ==
    Count(dcReq, ChanReads(c, o)) + Cardinality(dcBusy[o] \cap {c}) + Count(dcOut[o], {c})
    + Count(coalRsp, ChanAnswers(c, o))

LanesBalance == \A t \in Tags, i \in Lanes : LanesAt(t, i) = Waits(pending, t, i)
ChannelsBalance == \A c \in Reads, o \in Outs : ChannelsAt(c, o) = WaitsFor(coalPend, c, o)

PathInv == PathType /\ SentOfHead /\ LanesLeft /\ OwnLane /\ LanesBalance /\ ChannelsBalance

LEMMA LmemAdapter ==
    ASSUME lmOut \in [Lanes -> Seq(Tags)], NEW i \in Lanes, NEW t
    PROVE  Count(AdapterLeft(lmOut, i), {t})
             = Count(lmOut[i], {t}) - Count(AdapterAnswers(lmOut), LaneAnswers(t, i))
  <1>1. Lanes \subseteq Nat
    BY DEF Lanes
  <1>2. AdapterKeeps(Tags, Lanes, lmOut, i, t)
    BY <1>1, AdapterCount
  <1>3. LaneAnswers(t, i) = RspFor(Tags, Lanes, t, i)
    BY DEF LaneRsp, Rsp, RspFor, LaneAnswers
  <1> QED
    BY <1>2, <1>3, Zenon DEF AdapterKeeps

LEMMA LaneParts ==
    ASSUME LsuAssumption, PathType, NEW t, NEW i \in Lanes
    PROVE  /\ Count(demuxReq, LaneReads(t, i)) \in Nat
           /\ Count(coalReq, LaneReads(t, i)) - Sent(t, i) \in Nat
           /\ Count(coalReq, LaneReads(t, i)) \in Nat /\ Sent(t, i) \in Nat
           /\ Held(coalPend, t, i) \in Nat /\ Count(dcRsp, LaneAnswers(t, i)) \in Nat
           /\ Count(lmReq, LaneReads(t, i)) \in Nat /\ Count(lmIn[i], LaneReads(t, i)) \in Nat
           /\ Count(lmOut[i], {t}) \in Nat
           /\ Count(lmRsp, LaneAnswers(t, i)) \in Nat /\ Count(demuxRsp, LaneAnswers(t, i)) \in Nat
  <1>1. /\ demuxReq \in Seq(LaneReq) /\ coalReq \in Seq(LaneReq) /\ dcRsp \in Seq(LaneRsp)
        /\ lmReq \in Seq(LaneReq) /\ lmIn[i] \in Seq(LaneReq) /\ lmOut[i] \in Seq(Tags)
        /\ lmRsp \in Seq(LaneRsp) /\ demuxRsp \in Seq(LaneRsp)
    BY DEF PathType
  <1>2. /\ Count(demuxReq, LaneReads(t, i)) \in Nat /\ Count(coalReq, LaneReads(t, i)) \in Nat
        /\ Count(lmReq, LaneReads(t, i)) \in Nat /\ Count(lmIn[i], LaneReads(t, i)) \in Nat
    BY <1>1, CountIsNat
  <1>3. /\ Count(lmOut[i], {t}) \in Nat /\ Count(dcRsp, LaneAnswers(t, i)) \in Nat
        /\ Count(lmRsp, LaneAnswers(t, i)) \in Nat /\ Count(demuxRsp, LaneAnswers(t, i)) \in Nat
    BY <1>1, CountIsNat
  <1>4. Held(coalPend, t, i) \in Nat
    BY HeldIsNat DEF PathType, LsuAssumption
  <1>5. Sent(t, i) \in Nat /\ Count(coalReq, LaneReads(t, i)) - Sent(t, i) \in Nat
    <2>1. CASE HeadSent(t, i)
      <3>1. coalReq # <<>> /\ Head(coalReq) \in LaneReads(t, i)
        BY <1>1, <2>1 DEF HeadSent, LaneReads
      <3>2. /\ Count(Pop(coalReq), LaneReads(t, i))
                 = Count(coalReq, LaneReads(t, i)) - Count(First(coalReq), LaneReads(t, i))
            /\ Count(Pop(coalReq), LaneReads(t, i)) \in Nat
        BY <1>1, CountFlow
      <3>3. Count(First(coalReq), LaneReads(t, i)) = 1
        BY <3>1, CountFirst
      <3> QED
        BY <2>1, <3>2, <3>3 DEF Sent
    <2>2. CASE ~HeadSent(t, i)
      BY <1>2, <2>2 DEF Sent
    <2> QED
      BY <2>1, <2>2
  <1> QED
    BY <1>2, <1>3, <1>4, <1>5

LEMMA LanesTick ==
    ASSUME LsuAssumption, BlockInv, PathInv, PlatformTick
    PROVE  LanesBalance'
  <1>1. PathType /\ SentOfHead /\ OwnLane /\ LanesBalance /\ BlockType
    BY DEF PathInv, BlockInv
  <1>2. /\ demuxReq \in Seq(LaneReq) /\ coalReq \in Seq(LaneReq) /\ dcRsp \in Seq(LaneRsp)
        /\ lmReq \in Seq(LaneReq) /\ lmIn \in [Lanes -> Seq(LaneReq)] /\ lmOut \in [Lanes -> Seq(Tags)]
        /\ lmRsp \in Seq(LaneRsp) /\ demuxRsp \in Seq(LaneRsp) /\ coalRsp \in Seq(ChanRsp)
        /\ coalPend \in Table(QueueOut, Tags) /\ sent \subseteq Lanes
    BY <1>1 DEF PathType
  <1>3. /\ LsuTick /\ CoalTick
        /\ demuxReq' = Pop(demuxReq) \o LsuSends /\ demuxRsp' = Pop(demuxRsp) \o DemuxAnswers
        /\ dcRsp' = Pop(dcRsp) \o CoalAnswers
        /\ lmReq' = Pop(lmReq) \o DemuxToLmem /\ lmRsp' = Pop(lmRsp) \o AdapterAnswers(lmOut)
    BY DEF PlatformTick
  <1> SUFFICES ASSUME NEW t \in Tags, NEW i \in Lanes
               PROVE  LanesAt(t, i)' = Waits(pending', t, i)
    BY DEF LanesBalance, Waits
  <1> DEFINE LR == LaneReads(t, i)
             LA == LaneAnswers(t, i)
  <1>4. LanesAt(t, i)' = Count(demuxReq', LR) + (Count(coalReq', LR) - Sent(t, i)')
            + Held(coalPend', t, i) + Count(dcRsp', LA)
            + Count(lmReq', LR) + Count(lmIn'[i], LR) + Count(lmOut'[i], {t})
            + Count(lmRsp', LA) + Count(demuxRsp', LA)
    BY DEF LanesAt, Held, Holders, Count, LaneReads, LaneAnswers, LaneReq, LaneRsp
  <1>5. LanesAt(t, i) = Count(demuxReq, LR) + (Count(coalReq, LR) - Sent(t, i))
            + Held(coalPend, t, i) + Count(dcRsp, LA)
            + Count(lmReq, LR) + Count(lmIn[i], LR) + Count(lmOut[i], {t})
            + Count(lmRsp, LA) + Count(demuxRsp, LA)
    BY DEF LanesAt
  <1>6. /\ Count(demuxReq, LR) \in Nat /\ Count(coalReq, LR) - Sent(t, i) \in Nat
        /\ Count(coalReq, LR) \in Nat /\ Sent(t, i) \in Nat
        /\ Held(coalPend, t, i) \in Nat /\ Count(dcRsp, LA) \in Nat
        /\ Count(lmReq, LR) \in Nat /\ Count(lmIn[i], LR) \in Nat /\ Count(lmOut[i], {t}) \in Nat
        /\ Count(lmRsp, LA) \in Nat /\ Count(demuxRsp, LA) \in Nat
    BY <1>1, LaneParts
  <1> HIDE DEF LR, LA
  <1>7. LanesAt(t, i) = Waits(pending, t, i)
    BY <1>1 DEF LanesBalance
  <1>8. /\ LsuSends \in Seq(LaneReq) /\ DemuxToLmem \in Seq(LaneReq) /\ CoalAnswers \in Seq(LaneRsp)
        /\ DemuxAnswers \in Seq(LaneRsp) /\ CoalPendAfterRsp \in Table(QueueOut, Tags)
    BY <1>2, <1>3, LsuFlow, DemuxFlow, CoalRspFlow, AnswersFlow
  <1>9. /\ Count(LsuSends, LR) \in Nat /\ Count(DemuxToCoal, LR) \in Nat /\ Count(DemuxToLmem, LR) \in Nat
        /\ Count(CoalAnswers, LA) \in Nat
    BY <1>2, <1>8, CountIsNat, DemuxFlow
  <1>10. /\ Count(First(demuxRsp), LA) \in Nat /\ Count(First(demuxRsp), LA) <= Count(demuxRsp, LA)
         /\ Count(First(demuxReq), LR) \in Nat /\ Count(First(dcRsp), LA) \in Nat
         /\ Count(First(lmReq), LR) \in Nat /\ Count(First(lmRsp), LA) \in Nat
    <2>1. /\ Count(Pop(demuxRsp), LA) = Count(demuxRsp, LA) - Count(First(demuxRsp), LA)
          /\ Count(Pop(demuxRsp), LA) \in Nat
      BY <1>2, CountFlow
    <2>2. \A q, S : Count(First(q), S) \in Nat
      BY CountFirst
    <2> QED
      BY <1>6, <2>1, <2>2
  <1>11. Count(demuxReq', LR) = Count(demuxReq, LR) - Count(First(demuxReq), LR) + Count(LsuSends, LR)
    BY <1>2, <1>3, <1>8, CountFlow
  <1>12. Count(coalReq', LR) - Sent(t, i)'
           = Count(coalReq, LR) - Sent(t, i) - Went(t, i) + Count(DemuxToCoal, LR)
    BY <1>1, <1>2, <1>3, CoalReqFlow DEF LR
  <1>13. /\ Held(coalPend', t, i) = Held(coalPend, t, i) - Count(CoalAnswers, LA) + Went(t, i)
         /\ Went(t, i) \in Nat
    <2>1. Held(CoalPendAfterRsp, t, i) = Held(coalPend, t, i) - Count(CoalAnswers, LA)
      BY <1>2, CoalRspFlow DEF LA
    <2>2. Held(coalPend', t, i) = Held(CoalPendAfterRsp, t, i) + Went(t, i)
      BY <1>2, <1>3, <1>8, CoalHeldFlow
    <2> QED
      BY <2>1, <2>2 DEF Went
  <1>14. Count(dcRsp', LA) = Count(dcRsp, LA) - Count(First(dcRsp), LA) + Count(CoalAnswers, LA)
    BY <1>2, <1>3, <1>8, CountFlow
  <1>15. Count(lmReq', LR) = Count(lmReq, LR) - Count(First(lmReq), LR) + Count(DemuxToLmem, LR)
    BY <1>2, <1>3, <1>8, CountFlow
  <1>16. /\ Count(lmIn'[i], LR) = Count(lmIn[i], LR) - Count(LmemAnswers(i), {t}) + Count(First(lmReq), LR)
         /\ Count(LmemAnswers(i), {t}) \in Nat /\ LmemAnswers(i) \in Seq(Tags)
    <2>1. /\ AdapterToLmem(i) \in Seq(LaneReq) /\ LmemLeft(i) \in Seq(LaneReq) /\ LmemAnswers(i) \in Seq(Tags)
          /\ Count(AdapterToLmem(i), LR) = Count(First(lmReq), LR)
          /\ Count(LmemLeft(i), LR) = Count(lmIn[i], LR) - Count(LmemAnswers(i), {t})
      BY <1>1, <1>2, LmemFlow DEF LR
    <2>2. lmIn'[i] = LmemLeft(i) \o AdapterToLmem(i)
      BY DEF PlatformTick, LmemLeft
    <2>3. Count(LmemLeft(i) \o AdapterToLmem(i), LR) = Count(LmemLeft(i), LR) + Count(AdapterToLmem(i), LR)
      BY <2>1, CountConcat
    <2>4. Count(LmemAnswers(i), {t}) \in Nat
      BY <2>1, CountIsNat
    <2> QED
      BY <2>1, <2>2, <2>3, <2>4
  <1>17. /\ Count(lmOut'[i], {t})
              = Count(lmOut[i], {t}) - Count(AdapterAnswers(lmOut), LA) + Count(LmemAnswers(i), {t})
         /\ AdapterAnswers(lmOut) \in Seq(LaneRsp) /\ Count(AdapterAnswers(lmOut), LA) \in Nat
    <2> DEFINE left == AdapterLeft(lmOut, i)
    <2>1. /\ AdapterAnswers(lmOut) \in Seq(LaneRsp) /\ left \in Seq(Tags)
          /\ Count(left, {t}) = Count(lmOut[i], {t}) - Count(AdapterAnswers(lmOut), LA)
      <3>1. Lanes \subseteq Nat
        BY DEF Lanes
      <3>2. LaneRsp = Rsp(Tags, Lanes) /\ LA = RspFor(Tags, Lanes, t, i)
        BY DEF LaneRsp, Rsp, RspFor, LA, LaneAnswers
      <3>3. AdapterAnswers(lmOut) \in Seq(LaneRsp) /\ AdapterLeft(lmOut, i) \in Seq(Tags)
        BY <1>2, <3>1, <3>2, AdapterFlow
      <3>4. Count(AdapterLeft(lmOut, i), {t})
              = Count(lmOut[i], {t}) - Count(AdapterAnswers(lmOut), LA)
        BY <1>2, LmemAdapter DEF LA
      <3> QED
        BY <3>3, <3>4
    <2>2. lmOut'[i] = left \o LmemAnswers(i)
      BY DEF PlatformTick, AdapterLeft
    <2> HIDE DEF left
    <2>3. Count(left \o LmemAnswers(i), {t}) = Count(left, {t}) + Count(LmemAnswers(i), {t})
      BY <1>16, <2>1, CountConcat
    <2>4. Count(AdapterAnswers(lmOut), LA) \in Nat
      BY <2>1, CountIsNat
    <2> QED
      BY <2>1, <2>2, <2>3, <2>4
  <1>18. Count(lmRsp', LA) = Count(lmRsp, LA) - Count(First(lmRsp), LA) + Count(AdapterAnswers(lmOut), LA)
    BY <1>2, <1>3, <1>17, CountFlow
  <1>19. Count(demuxRsp', LA) = Count(demuxRsp, LA) - Count(First(demuxRsp), LA)
                                 + Count(First(lmRsp), LA) + Count(First(dcRsp), LA)
    <2>1. Count(demuxRsp', LA) = Count(demuxRsp, LA) - Count(First(demuxRsp), LA) + Count(DemuxAnswers, LA)
      BY <1>2, <1>3, <1>8, CountFlow
    <2>2. Count(DemuxAnswers, LA) = Count(First(lmRsp), LA) + Count(First(dcRsp), LA)
      BY <1>2, AnswersFlow
    <2> QED
      BY <1>6, <1>10, <2>1, <2>2
  <1>20. Count(DemuxToCoal, LR) + Count(DemuxToLmem, LR) = Count(First(demuxReq), LR)
    BY <1>2, DemuxFlow DEF LR
  <1>21. Waits(pending', t, i) = Waits(pending, t, i) - Count(First(demuxRsp), LA) + Count(LsuSends, LR)
    <2>1. Count(First(demuxRsp), LA) = 1 => i \in pending[t].mask
      BY <1>5, <1>6, <1>7, <1>10 DEF Waits
    <2>2. Waits(PendingAfterRsp, t, i) = Waits(pending, t, i) - Count(First(demuxRsp), LA)
      BY <1>1, <1>2, <2>1, RspFlow DEF LA
    <2>3. Waits(pending', t, i) = Waits(PendingAfterRsp, t, i) + Count(LsuSends, LR)
      BY <1>2, <1>3, LsuFlow DEF LR
    <2> QED
      BY <2>2, <2>3
  <1>22. Waits(pending, t, i) \in Nat
    BY DEF Waits
  <1>23. LanesAt(t, i)' = (Count(demuxReq, LR) - Count(First(demuxReq), LR) + Count(LsuSends, LR))
            + (Count(coalReq, LR) - Sent(t, i) - Went(t, i) + Count(DemuxToCoal, LR))
            + (Held(coalPend, t, i) - Count(CoalAnswers, LA) + Went(t, i))
            + (Count(dcRsp, LA) - Count(First(dcRsp), LA) + Count(CoalAnswers, LA))
            + (Count(lmReq, LR) - Count(First(lmReq), LR) + Count(DemuxToLmem, LR))
            + (Count(lmIn[i], LR) - Count(LmemAnswers(i), {t}) + Count(First(lmReq), LR))
            + (Count(lmOut[i], {t}) - Count(AdapterAnswers(lmOut), LA) + Count(LmemAnswers(i), {t}))
            + (Count(lmRsp, LA) - Count(First(lmRsp), LA) + Count(AdapterAnswers(lmOut), LA))
            + (Count(demuxRsp, LA) - Count(First(demuxRsp), LA) + Count(First(lmRsp), LA)
                 + Count(First(dcRsp), LA))
    BY <1>4, <1>11, <1>12, <1>13, <1>14, <1>15, <1>16, <1>17, <1>18, <1>19, Zenon
  <1>24. Count(LmemAnswers(i), {t}) \in Nat /\ Count(AdapterAnswers(lmOut), LA) \in Nat /\ Went(t, i) \in Nat
    BY <1>13, <1>16, <1>17
  <1> QED
    BY <1>5, <1>6, <1>7, <1>9, <1>10, <1>20, <1>21, <1>22, <1>23, <1>24

----------------------------------------------------------------------------
(* The reads at the data cache.                                            *)
LEMMA BusyIs ==
    ASSUME NEW S, NEW c
    PROVE  Cardinality(S \cap {c}) = IF c \in S THEN 1 ELSE 0
  <1>1. CASE c \in S
    <2>1. S \cap {c} = {c}
      BY <1>1
    <2> QED
      BY <1>1, <2>1, FS_Singleton
  <1>2. CASE c \notin S
    <2>1. S \cap {c} = {}
      BY <1>2
    <2> QED
      BY <1>2, <2>1, FS_EmptySet
  <1> QED
    BY <1>1, <1>2

LEMMA CacheAdapter ==
    ASSUME dcOut \in [Outs -> Seq(Reads)], NEW o \in Outs
    PROVE  /\ AdapterAnswers(dcOut) \in Seq(ChanRsp) /\ AdapterLeft(dcOut, o) \in Seq(Reads)
           /\ \A c : Count(AdapterLeft(dcOut, o), {c})
                      = Count(dcOut[o], {c}) - Count(AdapterAnswers(dcOut), ChanAnswers(c, o))
  <1>1. Outs \subseteq Nat
    BY DEF Outs
  <1>2. ChanRsp = Rsp(Reads, Outs)
    BY DEF ChanRsp, Rsp
  <1>3. AdapterAnswers(dcOut) \in Seq(ChanRsp) /\ AdapterLeft(dcOut, o) \in Seq(Reads)
    BY <1>1, <1>2, AdapterFlow
  <1>4. ASSUME NEW c
        PROVE  Count(AdapterLeft(dcOut, o), {c})
                 = Count(dcOut[o], {c}) - Count(AdapterAnswers(dcOut), ChanAnswers(c, o))
    <2>1. AdapterKeeps(Reads, Outs, dcOut, o, c)
      BY <1>1, AdapterCount
    <2>2. ChanAnswers(c, o) = RspFor(Reads, Outs, c, o)
      BY <1>2 DEF ChanAnswers, RspFor
    <2> QED
      BY <2>1, <2>2, Zenon DEF AdapterKeeps
  <1> QED
    BY <1>3, <1>4

LEMMA ChannelParts ==
    ASSUME PathType, NEW c, NEW o \in Outs
    PROVE  /\ Count(dcReq, ChanReads(c, o)) \in Nat /\ Cardinality(dcBusy[o] \cap {c}) \in Nat
           /\ Count(dcOut[o], {c}) \in Nat /\ Count(coalRsp, ChanAnswers(c, o)) \in Nat
           /\ Cardinality(dcBusy[o] \cap {c}) = IF c \in dcBusy[o] THEN 1 ELSE 0
  <1>1. dcReq \in Seq(ChanReq) /\ dcOut[o] \in Seq(Reads) /\ coalRsp \in Seq(ChanRsp)
    BY DEF PathType
  <1>2. Cardinality(dcBusy[o] \cap {c}) = IF c \in dcBusy[o] THEN 1 ELSE 0
    BY BusyIs
  <1>3. Cardinality(dcBusy[o] \cap {c}) \in Nat
    BY <1>2
  <1>4. /\ Count(dcReq, ChanReads(c, o)) \in Nat /\ Count(dcOut[o], {c}) \in Nat
        /\ Count(coalRsp, ChanAnswers(c, o)) \in Nat
    BY <1>1, CountIsNat
  <1> QED
    BY <1>2, <1>3, <1>4, Zenon

LEMMA ChannelsTick ==
    ASSUME LsuAssumption, PathInv, PlatformTick
    PROVE  ChannelsBalance'
  <1>1. PathType /\ ChannelsBalance
    BY DEF PathInv
  <1>2. /\ coalReq \in Seq(LaneReq) /\ coalRsp \in Seq(ChanRsp) /\ coalPend \in Table(QueueOut, Tags)
        /\ dcReq \in Seq(ChanReq) /\ dcOut \in [Outs -> Seq(Reads)] /\ dcBusy \in [Outs -> SUBSET Reads]
    BY <1>1 DEF PathType
  <1>3. CoalTick
    BY DEF PlatformTick
  <1> SUFFICES ASSUME NEW c \in Reads, NEW o \in Outs
               PROVE  ChannelsAt(c, o)' = WaitsFor(coalPend', c, o)
    BY DEF ChannelsBalance, WaitsFor, Group, Ratio
  <1> DEFINE CR == ChanReads(c, o)
             CA == ChanAnswers(c, o)
             b == Cardinality(dcBusy[o] \cap {c})
  <1>4. ChannelsAt(c, o)' = Count(dcReq', CR) + Cardinality(dcBusy'[o] \cap {c})
                             + Count(dcOut'[o], {c}) + Count(coalRsp', CA)
    BY DEF ChannelsAt, Count, ChanReads, ChanAnswers, ChanReq, ChanRsp
  <1>5. Count(dcReq, CR) + b + Count(dcOut[o], {c}) + Count(coalRsp, CA) = WaitsFor(coalPend, c, o)
    BY <1>1 DEF ChannelsBalance, ChannelsAt
  <1>6. /\ Count(dcReq, CR) \in Nat /\ b \in Nat /\ Count(dcOut[o], {c}) \in Nat
        /\ Count(coalRsp, CA) \in Nat /\ b = IF c \in dcBusy[o] THEN 1 ELSE 0
    BY <1>1, ChannelParts
  <1>7. WaitsFor(coalPend, c, o) \in {0, 1}
    BY DEF WaitsFor
  <1>8. /\ CoalPendAfterRsp \in Table(QueueOut, Tags) /\ AdapterAnswers(dcOut) \in Seq(ChanRsp)
    BY <1>2, CoalRspFlow, CacheAdapter
  <1>9. /\ CoalSends \in Seq(ChanReq)
        /\ WaitsFor(coalPend', c, o) = WaitsFor(CoalPendAfterRsp, c, o) + Count(CoalSends, CR)
    BY <1>2, <1>3, <1>8, CoalHeldFlow
  <1>10. Count(First(dcReq), CR) = IF dcReq # <<>> /\ Head(dcReq) \in CR THEN 1 ELSE 0
    BY CountFirst
  <1> HIDE DEF CR, CA, b
  <1>11. /\ Count(dcReq', CR) = Count(dcReq, CR) - Count(First(dcReq), CR) + Count(CoalSends, CR)
         /\ Count(Pop(dcReq), CR) \in Nat /\ Count(Pop(dcReq), CR) = Count(dcReq, CR) - Count(First(dcReq), CR)
         /\ Count(CoalSends, CR) \in Nat
    BY <1>2, <1>9, CountFlow DEF PlatformTick
  <1>12. Cardinality(dcBusy'[o] \cap {c}) = b + Count(First(dcReq), CR)
    <2>1. dcBusy'[o] = dcBusy[o] \cup AdapterToCache(o)
      BY DEF PlatformTick
    <2>2. c \in AdapterToCache(o) <=> dcReq # <<>> /\ Head(dcReq) \in CR
      <3>1. dcReq # <<>> => Head(dcReq) \in ChanReq
        BY <1>2
      <3> QED
        BY <3>1 DEF AdapterToCache, CR, ChanReads
    <2>3. Cardinality(dcBusy'[o] \cap {c}) = IF c \in dcBusy'[o] THEN 1 ELSE 0
      BY BusyIs
    <2>4. c \in AdapterToCache(o) => c \notin dcBusy[o]
      BY <1>5, <1>6, <1>7, <1>10, <1>11, <2>2
    <2> QED
      BY <1>6, <1>10, <2>1, <2>2, <2>3, <2>4
  <1>13. Count(dcOut'[o], {c}) = Count(dcOut[o], {c}) - Count(AdapterAnswers(dcOut), CA)
    <2>1. dcOut'[o] = AdapterLeft(dcOut, o)
      BY DEF PlatformTick, AdapterLeft
    <2>2. Count(AdapterLeft(dcOut, o), {c}) = Count(dcOut[o], {c}) - Count(AdapterAnswers(dcOut), CA)
      BY <1>2, CacheAdapter DEF CA
    <2> QED
      BY <2>1, <2>2, Zenon
  <1>14. /\ Count(coalRsp', CA) = Count(coalRsp, CA) - Count(First(coalRsp), CA)
                                    + Count(AdapterAnswers(dcOut), CA)
         /\ Count(AdapterAnswers(dcOut), CA) \in Nat
         /\ Count(Pop(coalRsp), CA) \in Nat /\ Count(Pop(coalRsp), CA) = Count(coalRsp, CA) - Count(First(coalRsp), CA)
    BY <1>2, <1>8, CountFlow DEF PlatformTick
  <1>15. Count(First(coalRsp), CA) \in Nat /\ Count(First(dcReq), CR) \in Nat
    BY CountFirst
  <1>16. WaitsFor(CoalPendAfterRsp, c, o) = WaitsFor(coalPend, c, o) - Count(First(coalRsp), CA)
    <2>1. Count(First(coalRsp), CA) = 1 => WaitsFor(coalPend, c, o) = 1
      BY <1>5, <1>6, <1>7, <1>14
    <2> QED
      BY <1>2, <2>1, ChanRspFlow DEF CA
  <1>17. ChannelsAt(c, o)' = (Count(dcReq, CR) - Count(First(dcReq), CR) + Count(CoalSends, CR))
            + (b + Count(First(dcReq), CR))
            + (Count(dcOut[o], {c}) - Count(AdapterAnswers(dcOut), CA))
            + (Count(coalRsp, CA) - Count(First(coalRsp), CA) + Count(AdapterAnswers(dcOut), CA))
    BY <1>4, <1>11, <1>12, <1>13, <1>14, Zenon
  <1>18. WaitsFor(coalPend', c, o)
           = (WaitsFor(coalPend, c, o) - Count(First(coalRsp), CA)) + Count(CoalSends, CR)
    BY <1>9, <1>16, Zenon
  <1>19. Count(CoalSends, CR) \in Nat /\ Count(AdapterAnswers(dcOut), CA) \in Nat
         /\ WaitsFor(coalPend, c, o) \in Nat
    BY <1>7, <1>11, <1>14
  <1> QED
    BY <1>5, <1>6, <1>15, <1>17, <1>18, <1>19

----------------------------------------------------------------------------
(* What the ports carry in the next cycle.                                 *)
LEMMA TypesTick ==
    ASSUME LsuAssumption, BlockInv, PathInv, PlatformTick
    PROVE  PathType' /\ SentOfHead' /\ OwnLane'
  <1>1. PathType /\ SentOfHead /\ OwnLane /\ LsuTick /\ CoalTick
    BY DEF PathInv, PlatformTick
  <1>2. /\ demuxReq \in Seq(LaneReq) /\ coalReq \in Seq(LaneReq) /\ dcRsp \in Seq(LaneRsp)
        /\ lmReq \in Seq(LaneReq) /\ lmIn \in [Lanes -> Seq(LaneReq)] /\ lmOut \in [Lanes -> Seq(Tags)]
        /\ lmRsp \in Seq(LaneRsp) /\ demuxRsp \in Seq(LaneRsp) /\ coalRsp \in Seq(ChanRsp)
        /\ coalPend \in Table(QueueOut, Tags) /\ sent \subseteq Lanes
        /\ dcReq \in Seq(ChanReq) /\ dcOut \in [Outs -> Seq(Reads)] /\ dcBusy \in [Outs -> SUBSET Reads]
    BY <1>1 DEF PathType
  <1>3. /\ LsuSends \in Seq(LaneReq) /\ DemuxToLmem \in Seq(LaneReq) /\ CoalAnswers \in Seq(LaneRsp)
        /\ DemuxAnswers \in Seq(LaneRsp) /\ CoalPendAfterRsp \in Table(QueueOut, Tags)
    BY <1>1, <1>2, LsuFlow, DemuxFlow, CoalRspFlow, AnswersFlow
  <1>4. CoalSends \in Seq(ChanReq) /\ coalPend' \in Table(QueueOut, Tags)
    BY <1>1, <1>2, <1>3, CoalHeldFlow
  <1>5. coalReq' \in Seq(LaneReq) /\ sent' \subseteq Lanes /\ SentOfHead'
    BY <1>1, <1>2, CoalReqFlow
  <1>6. AdapterAnswers(dcOut) \in Seq(ChanRsp) /\ AdapterAnswers(lmOut) \in Seq(LaneRsp)
    <2>1. Lanes \subseteq Nat /\ Outs \subseteq Nat
      BY DEF Lanes, Outs
    <2>2. LaneRsp = Rsp(Tags, Lanes) /\ ChanRsp = Rsp(Reads, Outs)
      BY DEF LaneRsp, ChanRsp, Rsp
    <2>3. AdapterAnswers(dcOut) \in Seq(ChanRsp)
      BY <1>2, <2>1, <2>2, AdapterFlow
    <2>4. AdapterAnswers(lmOut) \in Seq(LaneRsp)
      BY <1>2, <2>1, <2>2, AdapterFlow
    <2> QED
      BY <2>3, <2>4
  <1>7. demuxReq' \in Seq(LaneReq) /\ demuxRsp' \in Seq(LaneRsp)
    BY <1>2, <1>3, CountFlow DEF PlatformTick
  <1>8. coalRsp' \in Seq(ChanRsp) /\ dcReq' \in Seq(ChanReq) /\ dcRsp' \in Seq(LaneRsp)
    BY <1>2, <1>3, <1>4, <1>6, CountFlow DEF PlatformTick
  <1>9. lmReq' \in Seq(LaneReq) /\ lmRsp' \in Seq(LaneRsp)
    BY <1>2, <1>3, <1>6, CountFlow DEF PlatformTick
  <1>10. dcBusy' \in [Outs -> SUBSET Reads]
    <2>1. dcReq # <<>> => Head(dcReq).tag \in Reads
      <3>1. dcReq # <<>> => Head(dcReq) \in ChanReq
        BY <1>2
      <3> QED
        BY <3>1 DEF ChanReq
    <2>2. \A o \in Outs : AdapterToCache(o) \in SUBSET Reads
      BY <2>1 DEF AdapterToCache
    <2>3. dcBusy' = [o \in Outs |-> dcBusy[o] \cup AdapterToCache(o)]
      BY DEF PlatformTick
    <2>4. \A o \in Outs : dcBusy[o] \cup AdapterToCache(o) \in SUBSET Reads
      BY <1>2, <2>2
    <2> QED
      BY <2>3, <2>4
  <1>11. dcOut' \in [Outs -> Seq(Reads)]
    <2>1. dcOut' = [o \in Outs |-> AdapterLeft(dcOut, o)]
      BY DEF PlatformTick, AdapterLeft
    <2>2. \A o \in Outs : AdapterLeft(dcOut, o) \in Seq(Reads)
      BY <1>2, CacheAdapter
    <2> QED
      BY <2>1, <2>2, Zenon
  <1>12. ASSUME NEW i \in Lanes
         PROVE  /\ LmemLeft(i) \o AdapterToLmem(i) \in Seq(LaneReq)
                /\ AdapterLeft(lmOut, i) \o LmemAnswers(i) \in Seq(Tags)
                /\ \A n \in DOMAIN (LmemLeft(i) \o AdapterToLmem(i)) :
                     i \in (LmemLeft(i) \o AdapterToLmem(i))[n].mask
    <2>1. /\ AdapterToLmem(i) \in Seq(LaneReq) /\ LmemLeft(i) \in Seq(LaneReq) /\ LmemAnswers(i) \in Seq(Tags)
      BY <1>1, <1>2, LmemFlow
    <2>2. AdapterLeft(lmOut, i) \in Seq(Tags)
      <3>1. Lanes \subseteq Nat
        BY DEF Lanes
      <3> QED
        BY <1>2, <3>1, AdapterFlow
    <2>3. \A n \in DOMAIN (LmemLeft(i) \o AdapterToLmem(i)) :
             i \in (LmemLeft(i) \o AdapterToLmem(i))[n].mask
      BY <1>1, <1>2, LmemFlow, Zenon
    <2>4. LmemLeft(i) \o AdapterToLmem(i) \in Seq(LaneReq) /\ AdapterLeft(lmOut, i) \o LmemAnswers(i) \in Seq(Tags)
      BY <2>1, <2>2, ConcatProperties
    <2> QED
      BY <2>3, <2>4, Zenon
  <1>13. /\ lmIn' = [i \in Lanes |-> LmemLeft(i) \o AdapterToLmem(i)]
         /\ lmOut' = [i \in Lanes |-> AdapterLeft(lmOut, i) \o LmemAnswers(i)]
    BY DEF PlatformTick, LmemLeft, AdapterLeft
  <1>14. lmIn' \in [Lanes -> Seq(LaneReq)] /\ lmOut' \in [Lanes -> Seq(Tags)]
    BY <1>12, <1>13, Zenon
  <1>15. OwnLane'
    <2>1. \A i \in Lanes : lmIn'[i] = LmemLeft(i) \o AdapterToLmem(i)
      BY <1>13, Zenon
    <2>2. \A i \in Lanes : \A n \in DOMAIN lmIn'[i] : i \in lmIn'[i][n].mask
      BY <1>12, <2>1, Zenon
    <2> QED
      BY <2>2 DEF OwnLane, Lanes
  <1>16. PathType'
    BY <1>4, <1>5, <1>7, <1>8, <1>9, <1>10, <1>11, <1>14, Zenon
       DEF PathType, Table, LaneReq, LaneRsp, ChanReq, ChanRsp, Tags, Reads, Lanes, Outs
  <1> QED
    BY <1>5, <1>15, <1>16

LEMMA LeftTick ==
    ASSUME LsuAssumption, PathInv, PlatformTick
    PROVE  LanesLeft'
  <1> DEFINE D == DemuxToCoal
             r == Head(coalReq)
  <1>1. coalReq \in Seq(LaneReq) /\ demuxReq \in Seq(LaneReq) /\ SentOfHead /\ LanesLeft /\ CoalTick
    BY DEF PathInv, PathType, PlatformTick
  <1>2. D \in Seq(LaneReq)
    BY <1>1, DemuxFlow
  <1>3. \A n \in DOMAIN D : D[n].mask # {}
    <2>1. CASE demuxReq = <<>>
      BY <2>1 DEF DemuxToCoal
    <2>2. CASE demuxReq # <<>>
      <3> DEFINE q == Head(demuxReq)
                 m == q.mask \ LmemLanes(q)
      <3>1. D = IF m = {} THEN <<>> ELSE <<[q EXCEPT !.mask = m]>>
        BY <2>2 DEF DemuxToCoal, Part
      <3>2. q \in LaneReq
        BY <1>1, <2>2
      <3>3. [q EXCEPT !.mask = m].mask = m
        BY <3>2 DEF LaneReq
      <3> HIDE DEF q, m, D
      <3>4. CASE m = {}
        BY <3>1, <3>4
      <3>5. CASE m # {}
        <4> DEFINE x == [q EXCEPT !.mask = m]
        <4>1. D = <<x>> /\ x.mask # {}
          BY <3>1, <3>3, <3>5
        <4> HIDE DEF x
        <4> QED
          BY <4>1
      <3> QED
        BY <3>4, <3>5
    <2> QED
      BY <2>1, <2>2
  <1> HIDE DEF D
  <1>4. ASSUME NEW q \in Seq(LaneReq), \A n \in DOMAIN q : q[n].mask # {}
        PROVE  /\ \A n \in DOMAIN (q \o D) : (q \o D)[n].mask # {}
               /\ q # <<>> => Head(q \o D) = Head(q)
               /\ q \o D # <<>> => Head(q \o D).mask # {}
    <2>1. /\ DOMAIN (q \o D) = 1..(Len(q) + Len(D)) /\ Len(q) \in Nat /\ Len(D) \in Nat
          /\ \A n \in 1..(Len(q) + Len(D)) : (q \o D)[n] = IF n <= Len(q) THEN q[n] ELSE D[n - Len(q)]
          /\ q \o D \in Seq(LaneReq)
          /\ q # <<>> => Head(q \o D) = Head(q)
      BY <1>2
    <2>2. ASSUME NEW n \in DOMAIN (q \o D) PROVE (q \o D)[n].mask # {}
      <3>1. CASE n <= Len(q)
        <4>1. n \in DOMAIN q /\ (q \o D)[n] = q[n]
          BY <2>1, <3>1
        <4> QED
          BY <1>4, <4>1
      <3>2. CASE ~(n <= Len(q))
        <4>1. n - Len(q) \in DOMAIN D /\ (q \o D)[n] = D[n - Len(q)]
          BY <1>2, <2>1, <3>2
        <4> QED
          BY <1>3, <4>1
      <3> QED
        BY <3>1, <3>2
    <2>3. q \o D # <<>> => 1 \in DOMAIN (q \o D) /\ Head(q \o D) = (q \o D)[1]
      BY <2>1
    <2> QED
      BY <2>1, <2>2, <2>3
  <1>5. CASE CoalBlocked
    <2>1. coalReq' = coalReq \o D /\ sent' = sent
      BY <1>1, <1>5 DEF CoalTick, D
    <2>2. CASE coalReq = <<>>
      BY <1>1, <1>4, <2>1, <2>2 DEF LanesLeft, SentOfHead
    <2>3. CASE coalReq # <<>>
      BY <1>1, <1>4, <2>1, <2>3 DEF LanesLeft
    <2> QED
      BY <2>2, <2>3
  <1>6. CASE ~CoalBlocked /\ ~RoundIsLast(r)
    <2>1. coalReq' = coalReq \o D /\ sent' = sent \cup RoundLanes(r) /\ coalReq # <<>>
      BY <1>1, <1>6 DEF CoalTick, CoalBlocked, D
    <2>2. sent' # r.mask
      BY <1>6, <2>1 DEF RoundIsLast
    <2> QED
      BY <1>1, <1>4, <2>1, <2>2 DEF LanesLeft
  <1>7. CASE ~CoalBlocked /\ RoundIsLast(r)
    <2>1. coalReq' = Tail(coalReq) \o D /\ sent' = {} /\ coalReq # <<>>
      BY <1>1, <1>7 DEF CoalTick, CoalBlocked, D
    <2>2. /\ Tail(coalReq) \in Seq(LaneReq) /\ Len(Tail(coalReq)) = Len(coalReq) - 1
          /\ \A n \in 1..Len(Tail(coalReq)) : Tail(coalReq)[n] = coalReq[n + 1]
      BY <1>1, <2>1, HeadTailProperties
    <2>3. \A n \in DOMAIN Tail(coalReq) : Tail(coalReq)[n].mask # {}
      <3>1. \A n \in 1..Len(Tail(coalReq)) : n + 1 \in DOMAIN coalReq
        BY <1>1, <2>2
      <3> QED
        BY <1>1, <2>2, <3>1 DEF LanesLeft
    <2> QED
      BY <1>4, <2>1, <2>2, <2>3 DEF LanesLeft
  <1> QED
    BY <1>5, <1>6, <1>7

LEMMA PathTick ==
    ASSUME LsuAssumption, BlockInv, PathInv, PlatformTick
    PROVE  PathInv'
  BY TypesTick, LeftTick, LanesTick, ChannelsTick DEF PathInv

----------------------------------------------------------------------------
(* A step that leaves the path alone.                                      *)
LEMMA PathSame ==
    ASSUME PathInv, pending' = pending,
           UNCHANGED <<demuxReq, demuxRsp, coalVars, dcVars, lmVars>>
    PROVE  PathInv'
  <1>1. /\ demuxReq' = demuxReq /\ demuxRsp' = demuxRsp
        /\ coalReq' = coalReq /\ coalRsp' = coalRsp /\ sent' = sent /\ coalPend' = coalPend
        /\ dcReq' = dcReq /\ dcBusy' = dcBusy /\ dcOut' = dcOut /\ dcRsp' = dcRsp
        /\ lmReq' = lmReq /\ lmIn' = lmIn /\ lmOut' = lmOut /\ lmRsp' = lmRsp
    BY DEF coalVars, dcVars, lmVars
  <1>2. PathType' /\ SentOfHead' /\ LanesLeft' /\ OwnLane'
    BY <1>1 DEF PathInv, PathType, SentOfHead, LanesLeft, OwnLane
  <1>3. LanesBalance'
    BY <1>1 DEF PathInv, LanesBalance, LanesAt, Waits, Sent, HeadSent, Held, Holders
  <1>4. ChannelsBalance'
    BY <1>1 DEF PathInv, ChannelsBalance, ChannelsAt, WaitsFor
  <1> QED
    BY <1>2, <1>3, <1>4 DEF PathInv

LEMMA PathCache ==
    ASSUME LsuAssumption, PathInv, NEW o \in Outs, CacheAnswer(o)
    PROVE  PathInv'
  <1>1. PICK u \in dcBusy[o] :
           /\ dcBusy' = [dcBusy EXCEPT ![o] = @ \ {u}]
           /\ dcOut' = [dcOut EXCEPT ![o] = Append(@, u)]
           /\ UNCHANGED <<blockVars, demuxReq, demuxRsp, coalVars, dcReq, dcRsp, lmVars, run>>
    BY DEF CacheAnswer
  <1>2. /\ demuxReq' = demuxReq /\ demuxRsp' = demuxRsp /\ pending' = pending
        /\ coalReq' = coalReq /\ coalRsp' = coalRsp /\ sent' = sent /\ coalPend' = coalPend
        /\ dcReq' = dcReq /\ dcRsp' = dcRsp
        /\ lmReq' = lmReq /\ lmIn' = lmIn /\ lmOut' = lmOut /\ lmRsp' = lmRsp
    BY <1>1 DEF blockVars, coalVars, lmVars
  <1>3. PathType
    BY DEF PathInv
  <1>4. dcBusy \in [Outs -> SUBSET Reads] /\ dcOut \in [Outs -> Seq(Reads)] /\ u \in Reads
    BY <1>3 DEF PathType
  <1>5. /\ dcBusy'[o] = dcBusy[o] \ {u} /\ dcOut'[o] = Append(dcOut[o], u)
        /\ \A p \in Outs : p # o => dcBusy'[p] = dcBusy[p] /\ dcOut'[p] = dcOut[p]
    BY <1>1, <1>4
  <1>6. PathType'
    <2>1. dcBusy[o] \ {u} \in SUBSET Reads /\ Append(dcOut[o], u) \in Seq(Reads)
      BY <1>4
    <2>2. dcBusy' \in [Outs -> SUBSET Reads] /\ dcOut' \in [Outs -> Seq(Reads)]
      BY <1>1, <1>4, <2>1
    <2> QED
      BY <1>2, <1>3, <2>2, Zenon DEF PathType, Table, LaneReq, LaneRsp, ChanReq, ChanRsp, Tags, Reads, Lanes, Outs
  <1>7. SentOfHead' /\ LanesLeft' /\ OwnLane'
    BY <1>2 DEF PathInv, SentOfHead, LanesLeft, OwnLane
  <1>8. LanesBalance'
    BY <1>2 DEF PathInv, LanesBalance, LanesAt, Waits, Sent, HeadSent, Held, Holders
  <1>9. ASSUME NEW c \in Reads, NEW p \in Outs
        PROVE  /\ Count(dcReq', ChanReads(c, p)) + Cardinality(dcBusy'[p] \cap {c}) + Count(dcOut'[p], {c})
                    + Count(coalRsp', ChanAnswers(c, p)) = WaitsFor(coalPend, c, p)
    <2>1. Count(dcReq, ChanReads(c, p)) + Cardinality(dcBusy[p] \cap {c}) + Count(dcOut[p], {c})
            + Count(coalRsp, ChanAnswers(c, p)) = WaitsFor(coalPend, c, p)
      BY DEF PathInv, ChannelsBalance, ChannelsAt
    <2>2. CASE p # o
      BY <1>2, <1>5, <2>1, <2>2
    <2>3. CASE p = o
      <3>1. /\ Count(dcReq, ChanReads(c, o)) \in Nat /\ Count(dcOut[o], {c}) \in Nat
            /\ Count(coalRsp, ChanAnswers(c, o)) \in Nat
            /\ Cardinality(dcBusy[o] \cap {c}) = IF c \in dcBusy[o] THEN 1 ELSE 0
        BY <1>3, ChannelParts
      <3>2. Cardinality((dcBusy[o] \ {u}) \cap {c}) = IF c \in dcBusy[o] \ {u} THEN 1 ELSE 0
        BY BusyIs
      <3>3. Count(Append(dcOut[o], u), {c}) = Count(dcOut[o], {c}) + IF u = c THEN 1 ELSE 0
        <4> DEFINE e == <<u>>
        <4>1. dcOut[o] \in Seq(Reads) /\ e \in Seq(Reads)
          BY <1>4
        <4>2. Append(dcOut[o], u) = dcOut[o] \o e
          BY <4>1
        <4>4. Count(e, {c}) = IF u = c THEN 1 ELSE 0
          BY CountSmall
        <4> HIDE DEF e
        <4>3. Count(dcOut[o] \o e, {c}) = Count(dcOut[o], {c}) + Count(e, {c})
          BY <4>1, CountConcat
        <4> QED
          BY <4>2, <4>3, <4>4, Zenon
      <3>4. Cardinality(dcBusy'[o] \cap {c}) + Count(dcOut'[o], {c})
              = Cardinality(dcBusy[o] \cap {c}) + Count(dcOut[o], {c})
        BY <1>5, <3>1, <3>2, <3>3
      <3>5. Cardinality(dcBusy'[o] \cap {c}) \in Nat /\ Count(dcOut'[o], {c}) \in Nat
        BY <1>5, <3>1, <3>2, <3>3
      <3> QED
        BY <1>2, <2>1, <2>3, <3>1, <3>4, <3>5
    <2> QED
      BY <2>2, <2>3
  <1>10. ChannelsBalance'
    BY <1>2, <1>9 DEF ChannelsBalance, ChannelsAt, WaitsFor, Reads, Outs
  <1> QED
    BY <1>6, <1>7, <1>8, <1>10 DEF PathInv

----------------------------------------------------------------------------
(* When the LSU waits for no lane, no lane is on its way.                  *)
LEMMA NothingOnTheWay ==
    ASSUME LsuAssumption, PathInv, pending \in Table(QueueIn, Nat), Used(pending) = {}
    PROVE  /\ \A t \in Tags, i \in Lanes :
                /\ Count(demuxReq, LaneReads(t, i)) = 0 /\ Count(coalReq, LaneReads(t, i)) = 0
                /\ Held(coalPend, t, i) = 0 /\ Count(dcRsp, LaneAnswers(t, i)) = 0
                /\ Count(lmReq, LaneReads(t, i)) = 0 /\ Count(lmIn[i], LaneReads(t, i)) = 0
                /\ Count(lmOut[i], {t}) = 0
                /\ Count(lmRsp, LaneAnswers(t, i)) = 0 /\ Count(demuxRsp, LaneAnswers(t, i)) = 0
           /\ \A c \in Reads, o \in Outs :
                /\ WaitsFor(coalPend, c, o) = 0
                /\ Count(dcReq, ChanReads(c, o)) = 0 /\ Cardinality(dcBusy[o] \cap {c}) = 0
                /\ Count(dcOut[o], {c}) = 0 /\ Count(coalRsp, ChanAnswers(c, o)) = 0
  <1>1. PathType /\ LanesBalance /\ ChannelsBalance /\ SentOfHead /\ LanesLeft
    BY DEF PathInv
  <1>2. \A t \in Tags : pending[t].mask = {}
    BY DEF Used, Table, Tags
  <1>3. ASSUME NEW t \in Tags, NEW i \in Lanes
        PROVE  /\ Count(demuxReq, LaneReads(t, i)) = 0 /\ Count(coalReq, LaneReads(t, i)) - Sent(t, i) = 0
               /\ Held(coalPend, t, i) = 0 /\ Count(dcRsp, LaneAnswers(t, i)) = 0
               /\ Count(lmReq, LaneReads(t, i)) = 0 /\ Count(lmIn[i], LaneReads(t, i)) = 0
               /\ Count(lmOut[i], {t}) = 0
               /\ Count(lmRsp, LaneAnswers(t, i)) = 0 /\ Count(demuxRsp, LaneAnswers(t, i)) = 0
    <2>1. LanesAt(t, i) = 0
      BY <1>1, <1>2 DEF LanesBalance, Waits
    <2>2. /\ Count(demuxReq, LaneReads(t, i)) \in Nat
          /\ Count(coalReq, LaneReads(t, i)) - Sent(t, i) \in Nat
          /\ Held(coalPend, t, i) \in Nat /\ Count(dcRsp, LaneAnswers(t, i)) \in Nat
          /\ Count(lmReq, LaneReads(t, i)) \in Nat /\ Count(lmIn[i], LaneReads(t, i)) \in Nat
          /\ Count(lmOut[i], {t}) \in Nat
          /\ Count(lmRsp, LaneAnswers(t, i)) \in Nat /\ Count(demuxRsp, LaneAnswers(t, i)) \in Nat
      BY <1>1, LaneParts
    <2>3. LanesAt(t, i) =
             Count(demuxReq, LaneReads(t, i)) + (Count(coalReq, LaneReads(t, i)) - Sent(t, i))
             + Held(coalPend, t, i) + Count(dcRsp, LaneAnswers(t, i))
             + Count(lmReq, LaneReads(t, i)) + Count(lmIn[i], LaneReads(t, i)) + Count(lmOut[i], {t})
             + Count(lmRsp, LaneAnswers(t, i)) + Count(demuxRsp, LaneAnswers(t, i))
      BY Zenon DEF LanesAt
    <2> DEFINE l1 == Count(demuxReq, LaneReads(t, i))
               l2 == Count(coalReq, LaneReads(t, i)) - Sent(t, i)
               l3 == Held(coalPend, t, i)
               l4 == Count(dcRsp, LaneAnswers(t, i))
               l5 == Count(lmReq, LaneReads(t, i))
               l6 == Count(lmIn[i], LaneReads(t, i))
               l7 == Count(lmOut[i], {t})
               l8 == Count(lmRsp, LaneAnswers(t, i))
               l9 == Count(demuxRsp, LaneAnswers(t, i))
    <2>4. /\ l1 \in Nat /\ l2 \in Nat /\ l3 \in Nat /\ l4 \in Nat /\ l5 \in Nat /\ l6 \in Nat
          /\ l7 \in Nat /\ l8 \in Nat /\ l9 \in Nat
          /\ l1 + l2 + l3 + l4 + l5 + l6 + l7 + l8 + l9 = 0
      BY <2>1, <2>2, <2>3, Zenon
    <2> HIDE DEF l1, l2, l3, l4, l5, l6, l7, l8, l9
    <2>5. l1 = 0 /\ l2 = 0 /\ l3 = 0 /\ l4 = 0 /\ l5 = 0 /\ l6 = 0 /\ l7 = 0 /\ l8 = 0 /\ l9 = 0
      BY <2>4
    <2> QED
      BY <2>5, Zenon DEF l1, l2, l3, l4, l5, l6, l7, l8, l9
  <1>4. \A t \in Tags, i \in Lanes : ~HeadSent(t, i)
    <2> SUFFICES ASSUME NEW t \in Tags, NEW i \in Lanes, HeadSent(t, i) PROVE FALSE
      OBVIOUS
    <2> DEFINE r == Head(coalReq)
    <2>1. coalReq \in Seq(LaneReq) /\ coalReq # <<>> /\ r.tag = t /\ ~r.write
      BY <1>1 DEF HeadSent, PathType
    <2>2. r \in LaneReq /\ r.mask \in SUBSET Lanes
      <3>1. r \in LaneReq
        BY <2>1
      <3> QED
        BY <3>1 DEF LaneReq
    <2>3. PICK j \in r.mask : j \notin sent
      BY <1>1, <2>1 DEF SentOfHead, LanesLeft
    <2>4. r \in LaneReads(t, j)
      BY <2>1, <2>2, <2>3 DEF LaneReads
    <2>5. Count(First(coalReq), LaneReads(t, j)) = 1
      BY <2>1, <2>4, CountFirst
    <2>6. Count(Pop(coalReq), LaneReads(t, j)) \in Nat
          /\ Count(Pop(coalReq), LaneReads(t, j))
               = Count(coalReq, LaneReads(t, j)) - Count(First(coalReq), LaneReads(t, j))
          /\ Count(coalReq, LaneReads(t, j)) \in Nat
      BY <2>1, CountFlow
    <2>7. Sent(t, j) = 0
      BY <2>3 DEF Sent, HeadSent
    <2>8. Count(coalReq, LaneReads(t, j)) - Sent(t, j) = 0
      BY <1>3, <2>2, <2>3
    <2> QED
      BY <2>5, <2>6, <2>7, <2>8
  <1>5. ASSUME NEW t \in Tags, NEW i \in Lanes PROVE Count(coalReq, LaneReads(t, i)) = 0
    <2>1. Count(coalReq, LaneReads(t, i)) - Sent(t, i) = 0 /\ Sent(t, i) = 0
      BY <1>3, <1>4 DEF Sent
    <2>2. Count(coalReq, LaneReads(t, i)) \in Nat
      BY <1>1, LaneParts
    <2> QED
      BY <2>1, <2>2
  <1>6. ASSUME NEW c \in Reads PROVE coalPend[c].mask = {}
    <2> SUFFICES ASSUME NEW i \in coalPend[c].mask PROVE FALSE
      OBVIOUS
    <2> DEFINE t == coalPend[c].owner
    <2>1. coalPend \in Table(QueueOut, Tags) /\ QueueOut \in Nat
      BY <1>1 DEF PathType, LsuAssumption
    <2>2. t \in Tags /\ i \in Lanes /\ c \in Holders(coalPend, t, i)
      BY <2>1 DEF Table, Reads, Holders
    <2> HIDE DEF t
    <2>3. IsFiniteSet(Holders(coalPend, t, i))
      BY <2>1, HeldIsNat
    <2>4. Cardinality(Holders(coalPend, t, i)) = 0
      BY <1>3, <2>2 DEF Held
    <2> QED
      BY <2>2, <2>3, <2>4, FS_EmptySet
  <1>7. ASSUME NEW c \in Reads, NEW o \in Outs
        PROVE  /\ WaitsFor(coalPend, c, o) = 0
               /\ Count(dcReq, ChanReads(c, o)) = 0 /\ Cardinality(dcBusy[o] \cap {c}) = 0
               /\ Count(dcOut[o], {c}) = 0 /\ Count(coalRsp, ChanAnswers(c, o)) = 0
    <2>1. WaitsFor(coalPend, c, o) = 0
      BY <1>6 DEF WaitsFor
    <2>2. ChannelsAt(c, o) = 0
      BY <1>1, <2>1 DEF ChannelsBalance
    <2>3. /\ Count(dcReq, ChanReads(c, o)) \in Nat /\ Cardinality(dcBusy[o] \cap {c}) \in Nat
          /\ Count(dcOut[o], {c}) \in Nat /\ Count(coalRsp, ChanAnswers(c, o)) \in Nat
      BY <1>1, ChannelParts
    <2> QED
      BY <2>1, <2>2, <2>3 DEF ChannelsAt
  <1> QED
    BY <1>3, <1>5, <1>7

(* A reset cuts ports short.                                               *)
LEMMA PrefixOf ==
    ASSUME NEW T, NEW q \in Seq(T), NEW r \in Prefixes(q), NEW S, Count(q, S) = 0
    PROVE  r \in Seq(T) /\ Count(r, S) = 0
  <1>1. PICK m \in 0..Len(q) : r = SubSeq(q, 1, m)
    BY DEF Prefixes
  <1>2. SubSeq(q, 1, m) \in Seq(T) /\ Count(SubSeq(q, 1, m), S) <= Count(q, S)
    BY CountPrefix
  <1>3. Count(r, S) \in Nat
    BY <1>1, <1>2, CountIsNat
  <1> QED
    BY <1>1, <1>2, <1>3

LEMMA PrefixType ==
    ASSUME NEW T, NEW q \in Seq(T), NEW r \in Prefixes(q)
    PROVE  /\ r \in Seq(T) /\ DOMAIN r \subseteq DOMAIN q
           /\ \A n \in DOMAIN r : r[n] = q[n]
           /\ r # <<>> => 1 \in DOMAIN r /\ Head(r) = r[1]
  <1>1. PICK m \in 0..Len(q) : r = SubSeq(q, 1, m)
    BY DEF Prefixes
  <1>2. /\ SubSeq(q, 1, m) \in Seq(T) /\ Len(SubSeq(q, 1, m)) = m
        /\ \A n \in 1..m : SubSeq(q, 1, m)[n] = q[n]
    OBVIOUS
  <1> QED
    BY <1>1, <1>2

LEMMA PathRerun ==
    ASSUME LsuAssumption, BlockInv, PathInv, Rerun
    PROVE  PathInv'
  <1>1. PathType /\ OwnLane /\ LanesLeft
    BY DEF PathInv
  <1>2. /\ demuxReq \in Seq(LaneReq) /\ coalReq \in Seq(LaneReq) /\ dcReq \in Seq(ChanReq)
        /\ lmReq \in Seq(LaneReq) /\ lmIn \in [Lanes -> Seq(LaneReq)]
    BY <1>1 DEF PathType
  <1>3. /\ demuxReq' \in Prefixes(demuxReq) /\ coalReq' \in Prefixes(coalReq)
        /\ dcReq' \in Prefixes(dcReq) /\ lmReq' \in Prefixes(lmReq)
        /\ sent' = {} /\ pending' = EmptyTable(QueueIn) /\ done = DOMAIN prog
        /\ demuxRsp' = demuxRsp /\ coalRsp' = coalRsp /\ coalPend' = coalPend /\ dcBusy' = dcBusy
        /\ dcOut' = dcOut /\ dcRsp' = dcRsp /\ lmOut' = lmOut /\ lmRsp' = lmRsp
    BY DEF Rerun
  <1>4. /\ lmIn' = [i \in Lanes |-> lmIn'[i]]
        /\ \A i \in Lanes : lmIn'[i] \in Prefixes(lmIn[i])
    <2>1. PICK n \in 0..Len(prog) : lmIn' = [i \in Lanes |-> SubSeq(lmIn[i], 1,
                                              IF n < Len(lmIn[i]) THEN n ELSE Len(lmIn[i]))]
      BY DEF Rerun
    <2>2. n \in Nat
      BY DEF BlockInv, BlockType
    <2>3. ASSUME NEW i \in Lanes PROVE (IF n < Len(lmIn[i]) THEN n ELSE Len(lmIn[i])) \in 0..Len(lmIn[i])
      BY <1>2, <2>2
    <2>4. \A i \in Lanes : lmIn'[i] = SubSeq(lmIn[i], 1, IF n < Len(lmIn[i]) THEN n ELSE Len(lmIn[i]))
      BY <2>1, Zenon
    <2> QED
      BY <2>1, <2>3, <2>4 DEF Prefixes
  <1>5. Used(pending) = {} /\ pending \in Table(QueueIn, Nat)
    BY <1>3, NothingPending DEF BlockInv, BlockType
  <1>6. pending' \in Table(QueueIn, Nat) /\ Used(pending') = {}
    BY <1>3, EmptyTableIs DEF LsuAssumption
  <1>7. \A t \in Tags : pending'[t].mask = {}
    BY <1>6 DEF Used, Table, Tags
  <1>8. PathType'
    <2>1. /\ demuxReq' \in Seq(LaneReq) /\ coalReq' \in Seq(LaneReq) /\ dcReq' \in Seq(ChanReq)
          /\ lmReq' \in Seq(LaneReq) /\ \A i \in Lanes : lmIn'[i] \in Seq(LaneReq)
      BY <1>2, <1>3, <1>4, PrefixType
    <2>2. lmIn' \in [Lanes -> Seq(LaneReq)]
      BY <1>4, <2>1, Zenon
    <2>3. sent' \subseteq Lanes
      BY <1>3
    <2> QED
      BY <1>1, <1>3, <2>1, <2>2, <2>3, Zenon
         DEF PathType, Table, LaneReq, LaneRsp, ChanReq, ChanRsp, Tags, Reads, Lanes, Outs
  <1>9. /\ \A n \in DOMAIN coalReq' : n \in DOMAIN coalReq /\ coalReq'[n] = coalReq[n]
        /\ coalReq' # <<>> => 1 \in DOMAIN coalReq' /\ Head(coalReq') = coalReq'[1]
    BY <1>2, <1>3, PrefixType
  <1>10. SentOfHead' /\ LanesLeft'
    BY <1>1, <1>3, <1>9 DEF SentOfHead, LanesLeft
  <1>11. OwnLane'
    <2>1. ASSUME NEW i \in Lanes, NEW n \in DOMAIN lmIn'[i] PROVE i \in lmIn'[i][n].mask
      <3>1. n \in DOMAIN lmIn[i] /\ lmIn'[i][n] = lmIn[i][n]
        BY <1>2, <1>4, PrefixType
      <3> QED
        BY <1>1, <3>1 DEF OwnLane
    <2> QED
      BY <2>1 DEF OwnLane, Lanes
  <1>12. ASSUME NEW t \in Tags, NEW i \in Lanes
         PROVE  /\ Count(demuxReq', LaneReads(t, i)) = 0 /\ Count(coalReq', LaneReads(t, i)) = 0
                /\ Sent(t, i)' = 0
                /\ Held(coalPend', t, i) = 0 /\ Count(dcRsp', LaneAnswers(t, i)) = 0
                /\ Count(lmReq', LaneReads(t, i)) = 0 /\ Count(lmIn'[i], LaneReads(t, i)) = 0
                /\ Count(lmOut'[i], {t}) = 0
                /\ Count(lmRsp', LaneAnswers(t, i)) = 0 /\ Count(demuxRsp', LaneAnswers(t, i)) = 0
    <2>1. /\ Count(demuxReq, LaneReads(t, i)) = 0 /\ Count(coalReq, LaneReads(t, i)) = 0
          /\ Held(coalPend, t, i) = 0 /\ Count(dcRsp, LaneAnswers(t, i)) = 0
          /\ Count(lmReq, LaneReads(t, i)) = 0 /\ Count(lmIn[i], LaneReads(t, i)) = 0
          /\ Count(lmOut[i], {t}) = 0
          /\ Count(lmRsp, LaneAnswers(t, i)) = 0 /\ Count(demuxRsp, LaneAnswers(t, i)) = 0
      BY <1>5, NothingOnTheWay
    <2>2. Count(demuxReq', LaneReads(t, i)) = 0 /\ Count(coalReq', LaneReads(t, i)) = 0
          /\ Count(lmReq', LaneReads(t, i)) = 0
      BY <1>2, <1>3, <2>1, PrefixOf
    <2>3. Count(lmIn'[i], LaneReads(t, i)) = 0
      BY <1>2, <1>4, <2>1, PrefixOf
    <2>4. Sent(t, i)' = 0
      BY <1>3 DEF Sent, HeadSent
    <2> QED
      BY <1>3, <2>1, <2>2, <2>3, <2>4, Zenon
  <1>13. LanesBalance'
    <2>1. ASSUME NEW t \in Tags, NEW i \in Lanes PROVE LanesAt(t, i)' = Waits(pending', t, i)
      <3>1. LanesAt(t, i)' = Count(demuxReq', LaneReads(t, i)) + (Count(coalReq', LaneReads(t, i)) - Sent(t, i)')
              + Held(coalPend', t, i) + Count(dcRsp', LaneAnswers(t, i))
              + Count(lmReq', LaneReads(t, i)) + Count(lmIn'[i], LaneReads(t, i)) + Count(lmOut'[i], {t})
              + Count(lmRsp', LaneAnswers(t, i)) + Count(demuxRsp', LaneAnswers(t, i))
        BY DEF LanesAt, Held, Holders, Count, LaneReads, LaneAnswers, LaneReq, LaneRsp
      <3>2. LanesAt(t, i)' = 0
        BY <1>12, <3>1
      <3> QED
        BY <1>7, <3>2 DEF Waits
    <2> QED
      BY <2>1 DEF LanesBalance, Waits, Tags, Lanes
  <1>14. ChannelsBalance'
    <2>1. ASSUME NEW c \in Reads, NEW o \in Outs
          PROVE  Count(dcReq', ChanReads(c, o)) + Cardinality(dcBusy'[o] \cap {c}) + Count(dcOut'[o], {c})
                   + Count(coalRsp', ChanAnswers(c, o)) = WaitsFor(coalPend', c, o)
      <3>1. /\ WaitsFor(coalPend, c, o) = 0
            /\ Count(dcReq, ChanReads(c, o)) = 0 /\ Cardinality(dcBusy[o] \cap {c}) = 0
            /\ Count(dcOut[o], {c}) = 0 /\ Count(coalRsp, ChanAnswers(c, o)) = 0
        BY <1>5, NothingOnTheWay
      <3>2. Count(dcReq', ChanReads(c, o)) = 0
        BY <1>2, <1>3, <3>1, PrefixOf
      <3> QED
        BY <1>3, <3>1, <3>2
    <2> QED
      BY <2>1 DEF ChannelsBalance, ChannelsAt, WaitsFor, Reads, Outs
  <1> QED
    BY <1>8, <1>10, <1>11, <1>13, <1>14 DEF PathInv

----------------------------------------------------------------------------
LEMMA PathInit ==
    ASSUME LsuAssumption, LsuInit
    PROVE  PathInv
  <1>1. /\ demuxReq = <<>> /\ demuxRsp = <<>> /\ coalReq = <<>> /\ coalRsp = <<>> /\ sent = {}
        /\ coalPend = EmptyTable(QueueOut) /\ pending = EmptyTable(QueueIn)
        /\ dcReq = <<>> /\ dcRsp = <<>> /\ lmReq = <<>> /\ lmRsp = <<>>
        /\ dcBusy = [o \in Outs |-> {}] /\ dcOut = [o \in Outs |-> <<>>]
        /\ lmIn = [i \in Lanes |-> <<>>] /\ lmOut = [i \in Lanes |-> <<>>]
    BY DEF LsuInit
  <1>2. QueueIn \in Nat /\ QueueOut \in Nat /\ 0 \in Tags
    BY DEF LsuAssumption, Tags
  <1>3. /\ pending \in Table(QueueIn, Nat) /\ Used(pending) = {}
        /\ coalPend \in Table(QueueOut, Tags) /\ Used(coalPend) = {}
    <2>1. EmptyTable(QueueOut) \in Table(QueueOut, Tags) /\ Used(EmptyTable(QueueOut)) = {}
      BY <1>2, EmptyTableIs
    <2>2. EmptyTable(QueueIn) \in Table(QueueIn, Nat) /\ Used(EmptyTable(QueueIn)) = {}
      BY <1>2, EmptyTableIs
    <2> QED
      BY <1>1, <2>1, <2>2
  <1>4. /\ \A t \in Tags : pending[t].mask = {}
        /\ \A c \in Reads : coalPend[c].mask = {}
    BY <1>3 DEF Used, Table, Tags, Reads
  <1>5. PathType
    <2>1. \A T : <<>> \in Seq(T)
      OBVIOUS
    <2>2. dcBusy \in [Outs -> SUBSET Reads] /\ sent \subseteq Lanes
      BY <1>1
    <2>3. /\ dcOut \in [Outs -> Seq(Reads)] /\ lmIn \in [Lanes -> Seq(LaneReq)]
          /\ lmOut \in [Lanes -> Seq(Tags)]
      BY <1>1, <2>1, Zenon
    <2> QED
      BY <1>1, <1>3, <2>1, <2>2, <2>3, Zenon DEF PathType
  <1>6. SentOfHead /\ LanesLeft
    BY <1>1 DEF SentOfHead, LanesLeft
  <1>7. OwnLane
    BY <1>1 DEF OwnLane
  <1>8. \A S : Count(<<>>, S) = 0
    BY CountSmall
  <1>9. ASSUME NEW t \in Tags, NEW i \in Lanes PROVE LanesAt(t, i) = Waits(pending, t, i)
    <2>1. lmIn[i] = <<>> /\ lmOut[i] = <<>>
      BY <1>1
    <2>2. Held(coalPend, t, i) = 0
      <3>1. Holders(coalPend, t, i) = {}
        BY <1>3, <1>4 DEF Holders, Table, Reads
      <3> QED
        BY <3>1, FS_EmptySet DEF Held
    <2>3. Sent(t, i) = 0
      BY <1>1 DEF Sent, HeadSent
    <2>4. LanesAt(t, i) = 0 + (0 - 0) + 0 + 0 + 0 + 0 + 0 + 0 + 0
      BY <1>1, <1>8, <2>1, <2>2, <2>3, Zenon DEF LanesAt
    <2> QED
      BY <1>4, <2>4 DEF Waits
  <1>10. ASSUME NEW c \in Reads, NEW o \in Outs PROVE ChannelsAt(c, o) = WaitsFor(coalPend, c, o)
    <2>1. dcOut[o] = <<>> /\ dcBusy[o] = {}
      BY <1>1
    <2>2. Cardinality(dcBusy[o] \cap {c}) = 0
      BY <2>1, BusyIs
    <2>3. ChannelsAt(c, o) = 0 + 0 + 0 + 0
      BY <1>1, <1>8, <2>1, <2>2, Zenon DEF ChannelsAt
    <2> QED
      BY <1>4, <2>3 DEF WaitsFor
  <1> QED
    BY <1>5, <1>6, <1>7, <1>9, <1>10 DEF PathInv, LanesBalance, ChannelsBalance

LEMMA PathConserves ==
    ASSUME BlockInv, PathInv
    PROVE  LanesConserved
  <1>1. PathType /\ LanesBalance /\ ChannelsBalance /\ pending \in Table(QueueIn, Nat)
    BY DEF PathInv, BlockInv, BlockType
  <1>2. DOMAIN pending = Tags /\ DOMAIN coalPend = Reads
    BY <1>1 DEF PathType, Table, Tags, Reads
  <1>3. ASSUME NEW t \in Tags, NEW i \in Lanes
        PROVE  PlacesOfLane(t, i) = IF i \in pending[t].mask THEN 1 ELSE 0
    <2>1. /\ demuxReq \in Seq(LaneReq) /\ coalReq \in Seq(LaneReq) /\ dcRsp \in Seq(LaneRsp)
          /\ lmReq \in Seq(LaneReq) /\ lmIn[i] \in Seq(LaneReq)
          /\ lmRsp \in Seq(LaneRsp) /\ demuxRsp \in Seq(LaneRsp)
      BY <1>1 DEF PathType
    <2>2. /\ ReadsIn(demuxReq, t, i) = Count(demuxReq, LaneReads(t, i))
          /\ ReadsIn(coalReq, t, i) = Count(coalReq, LaneReads(t, i))
          /\ ReadsIn(lmReq, t, i) = Count(lmReq, LaneReads(t, i))
          /\ ReadsIn(lmIn[i], t, i) = Count(lmIn[i], LaneReads(t, i))
          /\ AnswersIn(dcRsp, t, i) = Count(dcRsp, LaneAnswers(t, i))
          /\ AnswersIn(lmRsp, t, i) = Count(lmRsp, LaneAnswers(t, i))
          /\ AnswersIn(demuxRsp, t, i) = Count(demuxRsp, LaneAnswers(t, i))
          /\ TagsIn(lmOut[i], t) = Count(lmOut[i], {t})
      <3>1. \A q \in Seq(LaneReq) : ReadsIn(q, t, i) = Count(q, LaneReads(t, i))
        BY QueueCounts, Zenon
      <3>2. \A q \in Seq(LaneRsp) : AnswersIn(q, t, i) = Count(q, LaneAnswers(t, i))
        BY QueueCounts, Zenon
      <3>3. TagsIn(lmOut[i], t) = Count(lmOut[i], {t})
        BY QueueCounts, Zenon
      <3> QED
        BY <2>1, <3>1, <3>2, <3>3, Zenon
    <2>3. PlacesOfLane(t, i) =
            Count(demuxReq, LaneReads(t, i)) + Count(coalReq, LaneReads(t, i)) - Sent(t, i)
            + Held(coalPend, t, i) + Count(dcRsp, LaneAnswers(t, i))
            + Count(lmReq, LaneReads(t, i)) + Count(lmIn[i], LaneReads(t, i)) + Count(lmOut[i], {t})
            + Count(lmRsp, LaneAnswers(t, i)) + Count(demuxRsp, LaneAnswers(t, i))
      BY <2>2, Zenon DEF PlacesOfLane, Sent, Held, Holders
    <2>4. LanesAt(t, i) =
            Count(demuxReq, LaneReads(t, i)) + (Count(coalReq, LaneReads(t, i)) - Sent(t, i))
            + Held(coalPend, t, i) + Count(dcRsp, LaneAnswers(t, i))
            + Count(lmReq, LaneReads(t, i)) + Count(lmIn[i], LaneReads(t, i)) + Count(lmOut[i], {t})
            + Count(lmRsp, LaneAnswers(t, i)) + Count(demuxRsp, LaneAnswers(t, i))
      BY Zenon DEF LanesAt
    <2>5. LanesAt(t, i) = IF i \in pending[t].mask THEN 1 ELSE 0
      BY <1>1 DEF LanesBalance, Waits
    <2>6. \A a, b, s \in Int : a + b - s = a + (b - s)
      OBVIOUS
    <2>7. /\ Count(demuxReq, LaneReads(t, i)) \in Int /\ Count(coalReq, LaneReads(t, i)) \in Int
          /\ Sent(t, i) \in Int
      <3>1. Count(demuxReq, LaneReads(t, i)) \in Nat /\ Count(coalReq, LaneReads(t, i)) \in Nat
        BY <2>1, CountIsNat
      <3> QED
        BY <3>1 DEF Sent
    <2>8. Count(demuxReq, LaneReads(t, i)) + Count(coalReq, LaneReads(t, i)) - Sent(t, i)
            = Count(demuxReq, LaneReads(t, i)) + (Count(coalReq, LaneReads(t, i)) - Sent(t, i))
      BY <2>6, <2>7, Zenon
    <2> QED
      BY <2>3, <2>4, <2>5, <2>8, Zenon
  <1>4. ASSUME NEW c \in Reads, NEW o \in Outs
        PROVE  PlacesOfChannel(c, o) = IF coalPend[c].mask \cap Group(o) # {} THEN 1 ELSE 0
    <2>1. dcReq \in Seq(ChanReq) /\ coalRsp \in Seq(ChanRsp)
      BY <1>1 DEF PathType
    <2>2. /\ ReadsIn(dcReq, c, o) = Count(dcReq, ChanReads(c, o))
          /\ AnswersIn(coalRsp, c, o) = Count(coalRsp, ChanAnswers(c, o))
          /\ TagsIn(dcOut[o], c) = Count(dcOut[o], {c})
      BY <2>1, QueueCounts, Zenon
    <2>3. ChannelsAt(c, o) = WaitsFor(coalPend, c, o)
      BY <1>1 DEF ChannelsBalance
    <2> QED
      BY <2>2, <2>3, Zenon DEF PlacesOfChannel, ChannelsAt, WaitsFor
  <1> QED
    BY <1>2, <1>3, <1>4 DEF LanesConserved

----------------------------------------------------------------------------
(* The inductive invariant: the bookkeeping of the LSU block, and the two  *)
(* balances between the tables and what is on its way.                     *)
LsuInv == BlockInv /\ PathInv

LEMMA LsuInvariant ==
    ASSUME LsuAssumption
    PROVE  LsuSpec => []LsuInv
  <1>1. LsuInit => LsuInv
    BY BlockInit, PathInit DEF LsuInv
  <1>2. LsuInv /\ [LsuNext]_lsuVars => LsuInv'
    <2> SUFFICES ASSUME LsuInv, [LsuNext]_lsuVars PROVE LsuInv'
      OBVIOUS
    <2>1. BlockInv /\ PathInv
      BY DEF LsuInv
    <2>2. CASE Issue
      <3>1. BlockInv'
        BY <2>1, <2>2, BlockIssue
      <3>2. PathInv'
        BY <2>1, <2>2, PathSame DEF Issue
      <3> QED
        BY <3>1, <3>2 DEF LsuInv
    <2>3. CASE PlatformTick
      <3>1. demuxRsp \in Seq(LaneRsp)
        BY <2>1 DEF PathInv, PathType
      <3>2. BlockInv'
        BY <2>1, <2>3, <3>1, BlockTick DEF PlatformTick
      <3>3. PathInv'
        BY <2>1, <2>3, PathTick
      <3> QED
        BY <3>2, <3>3 DEF LsuInv
    <2>4. ASSUME NEW o \in Outs, CacheAnswer(o) PROVE LsuInv'
      <3>1. BlockInv'
        BY <2>1, <2>4, BlockSame DEF CacheAnswer
      <3>2. PathInv'
        BY <2>1, <2>4, PathCache
      <3> QED
        BY <3>1, <3>2 DEF LsuInv
    <2>5. CASE Rerun
      BY <2>1, <2>5, BlockRerun, PathRerun DEF LsuInv
    <2>6. CASE UNCHANGED lsuVars
      <3>1. BlockInv'
        BY <2>1, <2>6, BlockSame DEF lsuVars
      <3>2. PathInv'
        BY <2>1, <2>6, PathSame DEF lsuVars, blockVars
      <3> QED
        BY <3>1, <3>2 DEF LsuInv
    <2> QED
      BY <2>2, <2>3, <2>4, <2>5, <2>6 DEF LsuNext
  <1> QED
    BY <1>1, <1>2, PTL DEF LsuSpec

(* However a load is split between the memories, coalesced in rounds,      *)
(* merged and answered out of order, and wherever a run ends, each lane    *)
(* and each channel that a table waits for is in exactly one place: no     *)
(* answer is lost, doubled or given to another load (func_unit.cpp,        *)
(* mem_coalescer.cpp, types.cpp, local_mem.cpp).                           *)
THEOREM LanesAccounted ==
    ASSUME LsuAssumption
    PROVE  LsuSpec => []LanesConserved
  <1>1. LsuInv => LanesConserved
    BY PathConserves DEF LsuInv
  <1> QED
    BY <1>1, LsuInvariant, PTL

(* A fence completes after every older load of its block, and while it is  *)
(* not done no younger instruction is taken (LsuUnit::tick), also across   *)
(* the runs of the processor.                                              *)
THEOREM FencesOrder ==
    ASSUME LsuAssumption
    PROVE  LsuSpec => []FenceOrders
  <1>1. LsuInv => FenceOrders
    BY BlockOrders DEF LsuInv
  <1> QED
    BY <1>1, LsuInvariant, PTL
=============================================================================
