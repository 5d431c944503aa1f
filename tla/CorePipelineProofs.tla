------------------------- MODULE CorePipelineProofs -------------------------
(***************************************************************************)
(* Theorems about CorePipeline, for every number of warps, issue width,    *)
(* size of the buffers, set of units and set of instructions: the order of *)
(* the instructions of a warp, the scoreboard and pending_instrs_.         *)
(*                                                                         *)
(* Nearly every property of the stages rests on the same facts: a trace is *)
(* in one place at a time, the front of the pipeline holds one trace of a  *)
(* warp at most, and a warp that stalls runs nothing until it is resumed.  *)
(***************************************************************************)
EXTENDS CorePipeline, SequenceTheorems, FiniteSetTheorems, WellFoundedInduction, TLAPS

(* The units that finish the packets of a trace in any order get one       *)
(* packet per trace: NUM_LSU_LANES = NUM_THREADS.  Without it              *)
(* RegistersTracked is false.                                              *)
SinglePackets == \A i \in Instrs : i.unit \in OtherUnits => i.packets = 1

NoDup(s) == \A a, b \in 1..Len(s) : s[a] = s[b] => a = b

(* The stages as sets of traces.                                           *)
Fetching == Elements(fetchLatch)
Decoding == Elements(decodeLatch)
InUnits == {p.trace : p \in units}
AllTraces == InFront \cup Buffered \cup Issued

FrontTypeOK ==
    /\ count \in [Warps -> 0..MaxInstrs]
    /\ suspended \subseteq Warps
    /\ fetchLatch \in Seq(Trace) /\ icache \subseteq Trace /\ decodeLatch \in Seq(Trace)
    /\ ibuffers \in [Warps -> Seq(Trace)]

BackTypeOK ==
    /\ collecting \subseteq Trace
    /\ operands \in [Slots -> Seq(Trace)]
    /\ queues \in [Units -> [Slots -> Seq(Trace)]]
    /\ inputs \in [Units -> [Slots -> Seq(Trace)]]
    /\ sent \in [Units -> [Slots -> Nat]]
    /\ units \subseteq Packet

(* A trace is in one place, and in the one that its warp and unit say.     *)
FrontApart ==
    /\ NoDup(fetchLatch) /\ NoDup(decodeLatch)
    /\ Fetching \cap icache = {} /\ Fetching \cap Decoding = {} /\ icache \cap Decoding = {}

BackPlaced ==
    /\ \A i \in Slots : \A t \in Elements(operands[i]) : SlotOf(t.wid) = i
    /\ \A u \in Units, i \in Slots : \A t \in Elements(queues[u][i]) \cup Elements(inputs[u][i]) :
          t.instr.unit = u /\ SlotOf(t.wid) = i

BackApart ==
    /\ \A i \in Slots : NoDup(operands[i])
    /\ \A u \in Units, i \in Slots : NoDup(queues[u][i]) /\ NoDup(inputs[u][i])
    /\ collecting \cap Operands = {} /\ collecting \cap Queued = {} /\ collecting \cap AtUnits = {}
    /\ Operands \cap Queued = {} /\ Operands \cap AtUnits = {} /\ Queued \cap AtUnits = {}

(* The traces of a warp are numbered, and an ibuffer holds them in order.  *)
Numbered ==
    /\ \A t \in AllTraces : t.n <= count[t.wid]
    /\ \A s, t \in AllTraces : s.wid = t.wid /\ s.n = t.n => s = t

BuffersSorted ==
    \A w \in Warps :
        /\ \A t \in Elements(ibuffers[w]) : t.wid = w
        /\ \A a, b \in 1..Len(ibuffers[w]) : a < b => ibuffers[w][a].n < ibuffers[w][b].n

(* The front holds the newest trace of a warp, and the warp is suspended.  *)
FrontAlone ==
    /\ \A s, t \in InFront : s.wid = t.wid => s = t
    /\ \A t \in InFront : t.wid \in suspended

InOrder ==
    /\ \A t \in Buffered \cup Issued, s \in InFront : s.wid = t.wid => t.n < s.n
    /\ \A t \in Issued, s \in Buffered : s.wid = t.wid => t.n < s.n

(* A trace that stalls its warp is the last one the warp has run.          *)
StallsHold ==
    \A t \in InFront \cup Buffered \cup Waiting :
        t.instr.stall => t.wid \in suspended /\ t.n = count[t.wid]

FrontWarps == {t.wid : t \in InFront}
FrontCounted ==
    /\ IsFiniteSet(icache)
    /\ Len(fetchLatch) + Cardinality(icache) + Len(decodeLatch) = Cardinality(FrontWarps)

BackInv == BackTypeOK /\ BackPlaced /\ BackApart

OrderInv ==
    /\ FrontTypeOK /\ FrontApart /\ BackInv
    /\ Numbered /\ BuffersSorted /\ FrontAlone /\ InOrder /\ StallsHold
    /\ FrontCounted

(* The packets of a trace in the units, and the ones not sent yet.         *)
PacketsSent ==
    /\ \A p \in units : /\ p.pid \in 1..p.trace.instr.packets
                        /\ p.eop = (p.pid = p.trace.instr.packets)
    /\ \A u \in Units, i \in Slots :
          IF inputs[u][i] = <<>> THEN sent[u][i] = 0
                                 ELSE sent[u][i] < Head(inputs[u][i]).instr.packets
    /\ \A p \in units : p.trace \in Waiting =>
          LET u == p.trace.instr.unit
              i == SlotOf(p.trace.wid)
          IN  inputs[u][i] # <<>> /\ p.trace = Head(inputs[u][i]) /\ p.pid <= sent[u][i]

(* The last packet of a trace is the last to leave.                        *)
LastStays == \A p \in units : p.trace \notin Waiting => \E q \in units : q.trace = p.trace /\ q.eop

PendingInv ==
    /\ IsFiniteSet(AllTraces)
    /\ pending = Cardinality(AllTraces)

ScoreInv ==
    /\ OrderInv
    /\ PacketsSent /\ LastStays
    /\ WritersAlone /\ RegistersTracked /\ PendingInv

----------------------------------------------------------------------------
(* Queues.                                                                 *)
LEMMA QueueAppend ==
    ASSUME NEW S, NEW s \in Seq(S), NEW x \in S
    PROVE  /\ Append(s, x) \in Seq(S) /\ Len(Append(s, x)) = Len(s) + 1
           /\ Append(s, x) # <<>>
           /\ s = <<>> => Head(Append(s, x)) = x
           /\ s # <<>> => Head(Append(s, x)) = Head(s)
           /\ Elements(Append(s, x)) = Elements(s) \cup {x}
           /\ NoDup(s) /\ x \notin Elements(s) => NoDup(Append(s, x))
  <1> DEFINE t == Append(s, x)
  <1>1. /\ t \in Seq(S) /\ Len(t) = Len(s) + 1 /\ t[Len(s) + 1] = x
        /\ \A k \in 1..Len(s) : t[k] = s[k]
        /\ Len(s) \in Nat
    OBVIOUS
  <1>2. /\ t # <<>>
        /\ s = <<>> => Head(t) = x
        /\ s # <<>> => Head(t) = Head(s)
    BY <1>1
  <1> HIDE DEF t
  <1>3. Elements(t) = Elements(s) \cup {x}
    <2>1. ASSUME NEW v \in Elements(t) PROVE v \in Elements(s) \cup {x}
      BY <1>1, <2>1 DEF Elements
    <2>2. ASSUME NEW v \in Elements(s) PROVE v \in Elements(t)
      <3>1. PICK k \in 1..Len(s) : v = s[k]
        BY <2>2 DEF Elements
      <3>2. k \in 1..Len(t) /\ t[k] = v
        BY <1>1, <3>1
      <3> QED
        BY <3>2 DEF Elements
    <2>3. x \in Elements(t)
      <3>1. Len(s) + 1 \in 1..Len(t) /\ t[Len(s) + 1] = x
        BY <1>1
      <3> QED
        BY <3>1 DEF Elements
    <2> QED
      BY <2>1, <2>2, <2>3
  <1>4. NoDup(s) /\ x \notin Elements(s) => NoDup(t)
    <2> SUFFICES ASSUME NoDup(s), x \notin Elements(s), NEW a \in 1..Len(t), NEW b \in 1..Len(t), t[a] = t[b]
                 PROVE  a = b
      BY DEF NoDup
    <2>1. \A k \in 1..Len(s) : s[k] # x
      BY <1>1 DEF Elements
    <2>2. /\ a \in 1..Len(s) \/ a = Len(s) + 1
          /\ b \in 1..Len(s) \/ b = Len(s) + 1
      BY <1>1
    <2>3. CASE a \in 1..Len(s) /\ b \in 1..Len(s)
      BY <1>1, <2>3 DEF NoDup
    <2> QED
      BY <1>1, <2>1, <2>2, <2>3
  <1> QED
    BY <1>1, <1>2, <1>3, <1>4 DEF t

LEMMA QueueTail ==
    ASSUME NEW S, NEW s \in Seq(S), s # <<>>
    PROVE  /\ Tail(s) \in Seq(S) /\ Len(Tail(s)) = Len(s) - 1
           /\ Head(s) \in S /\ Head(s) \in Elements(s)
           /\ Elements(s) = Elements(Tail(s)) \cup {Head(s)}
           /\ NoDup(s) => NoDup(Tail(s)) /\ Head(s) \notin Elements(Tail(s))
  <1> DEFINE t == Tail(s)
  <1>1. /\ t \in Seq(S) /\ Len(t) = Len(s) - 1 /\ Head(s) = s[1]
        /\ \A k \in 1..(Len(s) - 1) : t[k] = s[k + 1]
        /\ Len(s) \in Nat \ {0} /\ Head(s) \in S
    OBVIOUS
  <1> HIDE DEF t
  <1>2. Head(s) \in Elements(s)
    <2>1. 1 \in 1..Len(s)
      BY <1>1
    <2> QED
      BY <1>1, <2>1 DEF Elements
  <1>3. ASSUME NEW v \in Elements(t)
        PROVE  \E k \in 1..(Len(s) - 1) : v = s[k + 1] /\ k + 1 \in 1..Len(s)
    <2>1. PICK k \in 1..Len(t) : v = t[k]
      BY <1>3 DEF Elements
    <2>2. k \in 1..(Len(s) - 1) /\ k + 1 \in 1..Len(s)
      BY <1>1
    <2> QED
      BY <1>1, <2>1, <2>2
  <1>4. Elements(s) = Elements(t) \cup {Head(s)}
    <2>1. ASSUME NEW v \in Elements(t) PROVE v \in Elements(s)
      BY <1>3, <2>1 DEF Elements
    <2>2. ASSUME NEW v \in Elements(s), v # Head(s) PROVE v \in Elements(t)
      <3>1. PICK k \in 1..Len(s) : v = s[k]
        BY <2>2 DEF Elements
      <3>2. k - 1 \in 1..(Len(s) - 1) /\ (k - 1) + 1 = k
        BY <1>1, <2>2, <3>1
      <3>3. k - 1 \in 1..Len(t) /\ t[k - 1] = v
        BY <1>1, <3>1, <3>2
      <3> QED
        BY <3>3 DEF Elements
    <2> QED
      BY <1>2, <2>1, <2>2
  <1>5. ASSUME NoDup(s)
        PROVE  NoDup(t) /\ Head(s) \notin Elements(t)
    <2>1. ASSUME NEW a \in 1..Len(t), NEW b \in 1..Len(t), t[a] = t[b]
          PROVE  a = b
      <3>1. a \in 1..(Len(s) - 1) /\ b \in 1..(Len(s) - 1) /\ Len(s) \in Nat
        BY <1>1
      <3>2. a + 1 \in 1..Len(s) /\ b + 1 \in 1..Len(s)
        BY <3>1
      <3>3. s[a + 1] = s[b + 1]
        BY <1>1, <2>1, <3>1
      <3>4. a + 1 = b + 1
        BY <1>5, <3>2, <3>3 DEF NoDup
      <3> QED
        BY <3>1, <3>4
    <2>2. ASSUME Head(s) \in Elements(t)
          PROVE  FALSE
      <3>1. PICK k \in 1..(Len(s) - 1) : s[1] = s[k + 1] /\ k + 1 \in 1..Len(s)
        BY <1>1, <1>3, <2>2
      <3>2. 1 \in 1..Len(s) /\ k + 1 # 1
        BY <1>1
      <3> QED
        BY <1>5, <3>1, <3>2 DEF NoDup
    <2> QED
      BY <2>1, <2>2 DEF NoDup
  <1> QED
    BY <1>1, <1>2, <1>4, <1>5 DEF t

LEMMA EmptyQueue == Elements(<<>>) = {} /\ NoDup(<<>>) /\ \A S : <<>> \in Seq(S)
  BY DEF Elements, NoDup

(* A family of queues, when one of them gets or loses an element.          *)
LEMMA UnionPut ==
    ASSUME NEW I, NEW f, NEW g, NEW i \in I, NEW x,
           \A k \in I \ {i} : Elements(g[k]) = Elements(f[k]),
           Elements(g[i]) = Elements(f[i]) \cup {x}
    PROVE  UNION {Elements(g[k]) : k \in I} = (UNION {Elements(f[k]) : k \in I}) \cup {x}
  <1>1. ASSUME NEW v \in UNION {Elements(g[k]) : k \in I}
        PROVE  v \in (UNION {Elements(f[k]) : k \in I}) \cup {x}
    <2>1. PICK k \in I : v \in Elements(g[k])
      BY <1>1
    <2> QED
      BY <2>1
  <1>2. ASSUME NEW v \in (UNION {Elements(f[k]) : k \in I}) \cup {x}
        PROVE  v \in UNION {Elements(g[k]) : k \in I}
    <2>1. CASE v = x
      BY <2>1
    <2>2. CASE v # x
      <3>1. PICK k \in I : v \in Elements(f[k])
        BY <1>2, <2>2
      <3>2. v \in Elements(g[k])
        BY <3>1
      <3> QED
        BY <3>2
    <2> QED
      BY <2>1, <2>2
  <1> QED
    BY <1>1, <1>2

LEMMA UnionTake ==
    ASSUME NEW I, NEW f, NEW g, NEW i \in I, NEW x,
           \A k \in I \ {i} : Elements(g[k]) = Elements(f[k]) /\ x \notin Elements(f[k]),
           Elements(g[i]) = Elements(f[i]) \ {x}
    PROVE  UNION {Elements(g[k]) : k \in I} = (UNION {Elements(f[k]) : k \in I}) \ {x}
  <1>1. ASSUME NEW v \in UNION {Elements(g[k]) : k \in I}
        PROVE  v \in (UNION {Elements(f[k]) : k \in I}) \ {x}
    <2>1. PICK k \in I : v \in Elements(g[k])
      BY <1>1
    <2>2. v \in Elements(f[k]) /\ v # x
      BY <2>1
    <2> QED
      BY <2>2
  <1>2. ASSUME NEW v \in (UNION {Elements(f[k]) : k \in I}) \ {x}
        PROVE  v \in UNION {Elements(g[k]) : k \in I}
    <2>1. PICK k \in I : v \in Elements(f[k])
      BY <1>2
    <2>2. v \in Elements(g[k])
      BY <1>2, <2>1
    <2> QED
      BY <2>2
  <1> QED
    BY <1>1, <1>2

LEMMA UnionPut2 ==
    ASSUME NEW J, NEW I, NEW f, NEW g, NEW j \in J, NEW i \in I, NEW x,
           \A h \in J, k \in I : (h # j \/ k # i) => Elements(g[h][k]) = Elements(f[h][k]),
           Elements(g[j][i]) = Elements(f[j][i]) \cup {x}
    PROVE  UNION {Elements(g[h][k]) : h \in J, k \in I}
             = (UNION {Elements(f[h][k]) : h \in J, k \in I}) \cup {x}
  <1>1. ASSUME NEW v \in UNION {Elements(g[h][k]) : h \in J, k \in I}
        PROVE  v \in (UNION {Elements(f[h][k]) : h \in J, k \in I}) \cup {x}
    <2>1. PICK h \in J, k \in I : v \in Elements(g[h][k])
      BY <1>1
    <2>2. v \in Elements(f[h][k]) \/ v = x
      BY <2>1
    <2> QED
      BY <2>2
  <1>2. ASSUME NEW v \in (UNION {Elements(f[h][k]) : h \in J, k \in I}) \cup {x}
        PROVE  v \in UNION {Elements(g[h][k]) : h \in J, k \in I}
    <2>1. CASE v = x
      BY <2>1
    <2>2. CASE v # x
      <3>1. PICK h \in J, k \in I : v \in Elements(f[h][k])
        BY <1>2, <2>2
      <3>2. v \in Elements(g[h][k])
        BY <3>1
      <3> QED
        BY <3>2
    <2> QED
      BY <2>1, <2>2
  <1> QED
    BY <1>1, <1>2

LEMMA UnionTake2 ==
    ASSUME NEW J, NEW I, NEW f, NEW g, NEW j \in J, NEW i \in I, NEW x,
           \A h \in J, k \in I : (h # j \/ k # i)
              => Elements(g[h][k]) = Elements(f[h][k]) /\ x \notin Elements(f[h][k]),
           Elements(g[j][i]) = Elements(f[j][i]) \ {x}
    PROVE  UNION {Elements(g[h][k]) : h \in J, k \in I}
             = (UNION {Elements(f[h][k]) : h \in J, k \in I}) \ {x}
  <1>1. ASSUME NEW v \in UNION {Elements(g[h][k]) : h \in J, k \in I}
        PROVE  v \in (UNION {Elements(f[h][k]) : h \in J, k \in I}) \ {x}
    <2>1. PICK h \in J, k \in I : v \in Elements(g[h][k])
      BY <1>1
    <2>2. v \in Elements(f[h][k]) /\ v # x
      BY <2>1
    <2> QED
      BY <2>2
  <1>2. ASSUME NEW v \in (UNION {Elements(f[h][k]) : h \in J, k \in I}) \ {x}
        PROVE  v \in UNION {Elements(g[h][k]) : h \in J, k \in I}
    <2>1. PICK h \in J, k \in I : v \in Elements(f[h][k])
      BY <1>2
    <2>2. v \in Elements(g[h][k])
      BY <1>2, <2>1
    <2> QED
      BY <2>2
  <1> QED
    BY <1>1, <1>2

LEMMA TraceFacts ==
    ASSUME NEW t \in Trace
    PROVE  /\ t.wid \in Warps /\ t.wid \in Nat /\ t.n \in Nat /\ t.instr \in Instrs
           /\ SlotOf(t.wid) \in Slots /\ t.instr.unit \in Units
           /\ t.instr.packets \in Nat \ {0} /\ t.instr.stall \in BOOLEAN
  <1>1. t.wid \in Warps /\ t.n \in Nat /\ t.instr \in Instrs
    BY DEF Trace
  <1>2. t.wid \in Nat
    BY <1>1, PipelineAssumption DEF Warps
  <1>3. SlotOf(t.wid) \in Slots
    BY <1>2, PipelineAssumption DEF SlotOf, Slots
  <1> QED
    BY <1>1, <1>2, <1>3, PipelineAssumption

----------------------------------------------------------------------------
(* The stages behind the scoreboard hand a trace on.                       *)
LEMMA BackSame ==
    ASSUME UNCHANGED <<collecting, operands, queues, inputs>>
    PROVE  /\ Operands' = Operands /\ Queued' = Queued /\ AtUnits' = AtUnits /\ Waiting' = Waiting
           /\ BackPlaced => BackPlaced'
           /\ BackApart => BackApart'
  <1>1. /\ Operands' = Operands /\ Queued' = Queued /\ AtUnits' = AtUnits
    BY DEF Operands, Queued, AtUnits
  <1> QED
    BY <1>1 DEF Waiting, BackPlaced, BackApart

LEMMA CollectMoves ==
    ASSUME BackInv, NEW t \in collecting, Collect(t)
    PROVE  BackInv' /\ Waiting' = Waiting
  <1> DEFINE i == SlotOf(t.wid)
  <1>1. /\ collecting' = collecting \ {t}
        /\ operands' = [operands EXCEPT ![i] = Append(operands[i], t)]
        /\ UNCHANGED <<queues, inputs, sent, units>>
    BY DEF Collect
  <1>2. /\ t \in Trace /\ i \in Slots /\ operands \in [Slots -> Seq(Trace)] /\ operands[i] \in Seq(Trace)
        /\ collecting \subseteq Trace
    BY TraceFacts DEF BackInv, BackTypeOK
  <1> HIDE DEF i
  <1>3. t \notin Operands /\ t \notin Elements(operands[i])
    BY <1>2 DEF BackInv, BackApart, Operands
  <1>4. /\ Append(operands[i], t) \in Seq(Trace)
        /\ Elements(Append(operands[i], t)) = Elements(operands[i]) \cup {t}
        /\ NoDup(Append(operands[i], t))
    BY <1>2, <1>3, QueueAppend DEF BackInv, BackApart
  <1>5. /\ operands'[i] = Append(operands[i], t)
        /\ \A k \in Slots \ {i} : operands'[k] = operands[k]
    BY <1>1, <1>2
  <1>6. Operands' = Operands \cup {t} /\ Queued' = Queued /\ AtUnits' = AtUnits
    <2>1. /\ \A k \in Slots \ {i} : Elements(operands'[k]) = Elements(operands[k])
          /\ Elements(operands'[i]) = Elements(operands[i]) \cup {t}
      BY <1>4, <1>5
    <2>2. UNION {Elements(operands'[k]) : k \in Slots} = (UNION {Elements(operands[k]) : k \in Slots}) \cup {t}
      BY <1>2, <2>1, UnionPut
    <2>3. Queued' = Queued /\ AtUnits' = AtUnits
      BY <1>1 DEF Queued, AtUnits
    <2> QED
      BY <2>2, <2>3 DEF Operands
  <1>7. BackTypeOK'
    BY <1>1, <1>2, <1>4 DEF BackInv, BackTypeOK
  <1>8. BackPlaced'
    <2>1. \A k \in Slots : \A v \in Elements(operands'[k]) : SlotOf(v.wid) = k
      BY <1>4, <1>5 DEF i, BackInv, BackPlaced
    <2> QED
      BY <1>1, <2>1 DEF BackInv, BackPlaced
  <1>9. BackApart'
    <2>1. \A k \in Slots : NoDup(operands'[k])
      BY <1>4, <1>5 DEF BackInv, BackApart
    <2> QED
      BY <1>1, <1>6, <2>1 DEF BackInv, BackApart
  <1>10. Waiting' = Waiting
    BY <1>1, <1>6 DEF Waiting
  <1> QED
    BY <1>7, <1>8, <1>9, <1>10 DEF BackInv

(* What is taken from the head of a queue is nowhere else in the family.   *)
LEMMA OperandsTaken ==
    ASSUME BackInv, NEW i \in Slots, operands[i] # <<>>,
           operands' = [operands EXCEPT ![i] = Tail(operands[i])]
    PROVE  /\ operands' \in [Slots -> Seq(Trace)]
           /\ Head(operands[i]) \in Trace /\ Head(operands[i]) \in Operands
           /\ SlotOf(Head(operands[i]).wid) = i
           /\ Operands' = Operands \ {Head(operands[i])}
           /\ \A k \in Slots : NoDup(operands'[k]) /\ \A v \in Elements(operands'[k]) : SlotOf(v.wid) = k
  <1> DEFINE t == Head(operands[i])
  <1>1. operands \in [Slots -> Seq(Trace)] /\ operands[i] \in Seq(Trace) /\ NoDup(operands[i])
    BY DEF BackInv, BackTypeOK, BackApart
  <1>2. /\ Tail(operands[i]) \in Seq(Trace) /\ t \in Trace /\ t \in Elements(operands[i])
        /\ Elements(operands[i]) = Elements(Tail(operands[i])) \cup {t}
        /\ NoDup(Tail(operands[i])) /\ t \notin Elements(Tail(operands[i]))
    BY <1>1, QueueTail
  <1>3. /\ operands'[i] = Tail(operands[i])
        /\ \A k \in Slots \ {i} : operands'[k] = operands[k]
    BY <1>1
  <1> HIDE DEF t
  <1>4. SlotOf(t.wid) = i /\ \A k \in Slots \ {i} : t \notin Elements(operands[k])
    BY <1>2 DEF BackInv, BackPlaced
  <1>5. Elements(operands'[i]) = Elements(operands[i]) \ {t}
    BY <1>2, <1>3
  <1>6. UNION {Elements(operands'[k]) : k \in Slots} = (UNION {Elements(operands[k]) : k \in Slots}) \ {t}
    BY <1>3, <1>4, <1>5, UnionTake
  <1>7. t \in Operands
    BY <1>2 DEF Operands
  <1>8. operands' \in [Slots -> Seq(Trace)]
    BY <1>1, <1>2
  <1>9. \A k \in Slots : NoDup(operands'[k]) /\ \A v \in Elements(operands'[k]) : SlotOf(v.wid) = k
    BY <1>2, <1>3, <1>5 DEF BackInv, BackApart, BackPlaced
  <1> QED
    BY <1>2, <1>4, <1>6, <1>7, <1>8, <1>9 DEF t, Operands

(* The same for the queues of the dispatchers and the inputs of the units. *)
Family == [Units -> [Slots -> Seq(Trace)]]
InPlace(f) ==
    \A u \in Units, i \in Slots :
        NoDup(f[u][i]) /\ \A v \in Elements(f[u][i]) : v.instr.unit = u /\ SlotOf(v.wid) = i
Members(f) == UNION {Elements(f[u][i]) : u \in Units, i \in Slots}

(* One queue of a family is replaced.                                      *)
Replaced(g, f, u, i, q) ==
    /\ g \in Family
    /\ g[u][i] = q
    /\ \A h \in Units, k \in Slots : (h # u \/ k # i) => g[h][k] = f[h][k]

LEMMA FamilyPut ==
    ASSUME NEW f \in Family, InPlace(f), NEW t \in Trace, t \notin Members(f), NEW u \in Units, NEW i \in Slots,
           t.instr.unit = u, SlotOf(t.wid) = i, NEW g, Replaced(g, f, u, i, Append(f[u][i], t))
    PROVE  InPlace(g) /\ Members(g) = Members(f) \cup {t}
  <1>2. f[u][i] \in Seq(Trace) /\ t \notin Elements(f[u][i]) /\ NoDup(f[u][i])
    BY DEF Family, Members, InPlace
  <1>3. /\ Append(f[u][i], t) \in Seq(Trace) /\ NoDup(Append(f[u][i], t))
        /\ Elements(Append(f[u][i], t)) = Elements(f[u][i]) \cup {t}
    BY <1>2, QueueAppend
  <1>4. /\ g[u][i] = Append(f[u][i], t)
        /\ \A h \in Units, k \in Slots : (h # u \/ k # i) => g[h][k] = f[h][k]
    BY DEF Replaced
  <1>5. InPlace(g)
    <2> SUFFICES ASSUME NEW h \in Units, NEW k \in Slots
                 PROVE  NoDup(g[h][k]) /\ \A v \in Elements(g[h][k]) : v.instr.unit = h /\ SlotOf(v.wid) = k
      BY DEF InPlace
    <2>1. CASE h = u /\ k = i
      <3>1. \A v \in Elements(g[u][i]) : v \in Elements(f[u][i]) \/ v = t
        BY <1>3, <1>4
      <3>2. \A v \in Elements(f[u][i]) : v.instr.unit = u /\ SlotOf(v.wid) = i
        BY DEF InPlace
      <3>3. \A v \in Elements(g[u][i]) : v.instr.unit = u /\ SlotOf(v.wid) = i
        BY <3>1, <3>2
      <3> QED
        BY <1>3, <1>4, <2>1, <3>3
    <2>2. CASE h # u \/ k # i
      BY <1>4, <2>2 DEF InPlace
    <2> QED
      BY <2>1, <2>2
  <1>6. Members(g) = Members(f) \cup {t}
    <2>1. /\ \A h \in Units, k \in Slots : (h # u \/ k # i) => Elements(g[h][k]) = Elements(f[h][k])
          /\ Elements(g[u][i]) = Elements(f[u][i]) \cup {t}
      BY <1>3, <1>4
    <2> QED
      BY <2>1, UnionPut2 DEF Members
  <1> QED
    BY <1>5, <1>6

LEMMA FamilyTake ==
    ASSUME NEW f \in Family, InPlace(f), NEW u \in Units, NEW i \in Slots, f[u][i] # <<>>,
           NEW g, Replaced(g, f, u, i, Tail(f[u][i]))
    PROVE  /\ Head(f[u][i]) \in Trace /\ Head(f[u][i]) \in Members(f)
           /\ Head(f[u][i]).instr.unit = u /\ SlotOf(Head(f[u][i]).wid) = i
           /\ InPlace(g) /\ Members(g) = Members(f) \ {Head(f[u][i])}
           /\ Head(f[u][i]) \notin Elements(g[u][i])
  <1> DEFINE t == Head(f[u][i])
  <1>1. f[u][i] \in Seq(Trace) /\ NoDup(f[u][i])
    BY DEF Family, InPlace
  <1>2. /\ Tail(f[u][i]) \in Seq(Trace) /\ t \in Trace /\ t \in Elements(f[u][i])
        /\ Elements(f[u][i]) = Elements(Tail(f[u][i])) \cup {t}
        /\ NoDup(Tail(f[u][i])) /\ t \notin Elements(Tail(f[u][i]))
    BY <1>1, QueueTail
  <1> HIDE DEF t
  <1>3. /\ g[u][i] = Tail(f[u][i])
        /\ \A h \in Units, k \in Slots : (h # u \/ k # i) => g[h][k] = f[h][k]
    BY DEF Replaced
  <1>4. t.instr.unit = u /\ SlotOf(t.wid) = i
    BY <1>2 DEF InPlace
  <1>5. InPlace(g)
    <2> SUFFICES ASSUME NEW h \in Units, NEW k \in Slots
                 PROVE  NoDup(g[h][k]) /\ \A v \in Elements(g[h][k]) : v.instr.unit = h /\ SlotOf(v.wid) = k
      BY DEF InPlace
    <2>1. CASE h = u /\ k = i
      <3>1. \A v \in Elements(g[u][i]) : v \in Elements(f[u][i])
        BY <1>2, <1>3
      <3> QED
        BY <1>2, <1>3, <2>1, <3>1 DEF InPlace
    <2>2. CASE h # u \/ k # i
      BY <1>3, <2>2 DEF InPlace
    <2> QED
      BY <2>1, <2>2
  <1>6. Members(g) = Members(f) \ {t}
    <2>1. Elements(g[u][i]) = Elements(f[u][i]) \ {t}
      BY <1>2, <1>3
    <2>2. \A h \in Units, k \in Slots : (h # u \/ k # i)
             => Elements(g[h][k]) = Elements(f[h][k]) /\ t \notin Elements(f[h][k])
      BY <1>3, <1>4 DEF InPlace
    <2> QED
      BY <2>1, <2>2, UnionTake2 DEF Members
  <1>7. t \in Members(f)
    BY <1>2 DEF Members
  <1> QED
    BY <1>2, <1>3, <1>4, <1>5, <1>6, <1>7 DEF t

LEMMA BackFamilies ==
    /\ BackTypeOK => queues \in Family /\ inputs \in Family
    /\ BackPlaced /\ BackApart => InPlace(queues) /\ InPlace(inputs)
    /\ Queued = Members(queues) /\ AtUnits = Members(inputs)
  <1>1. BackTypeOK => queues \in Family /\ inputs \in Family
    BY DEF BackTypeOK, Family
  <1>2. BackPlaced /\ BackApart => InPlace(queues) /\ InPlace(inputs)
    BY DEF BackPlaced, BackApart, InPlace
  <1>3. Queued = Members(queues) /\ AtUnits = Members(inputs)
    BY DEF Queued, AtUnits, Members
  <1> QED
    BY <1>1, <1>2, <1>3

LEMMA DispatchMoves ==
    ASSUME BackInv, NEW i \in Slots, Dispatch(i)
    PROVE  BackInv' /\ Waiting' = Waiting
  <1> DEFINE t == Head(operands[i])
             u == t.instr.unit
  <1>1. /\ operands[i] # <<>> /\ operands' = [operands EXCEPT ![i] = Tail(operands[i])]
        /\ queues' = [queues EXCEPT ![u][i] = Append(queues[u][i], t)]
        /\ UNCHANGED <<collecting, inputs, sent, units>>
    BY SMTT(30) DEF Dispatch
  <1>2. /\ operands' \in [Slots -> Seq(Trace)]
        /\ t \in Trace /\ t \in Operands /\ SlotOf(t.wid) = i /\ Operands' = Operands \ {t}
        /\ \A k \in Slots : NoDup(operands'[k]) /\ \A v \in Elements(operands'[k]) : SlotOf(v.wid) = k
    BY <1>1, OperandsTaken
  <1> HIDE DEF t
  <1>3. queues \in Family /\ InPlace(queues) /\ t \notin Members(queues)
    BY <1>2, BackFamilies DEF BackInv, BackApart
  <1>4. queues' \in Family /\ InPlace(queues') /\ Members(queues') = Members(queues) \cup {t}
    <2>1. u \in Units
      BY <1>2, TraceFacts
    <2> HIDE DEF u
    <2>2. queues[u][i] \in Seq(Trace)
      BY <1>3, <2>1 DEF Family
    <2>3. Append(queues[u][i], t) \in Seq(Trace)
      BY <1>2, <2>2, QueueAppend
    <2>4. Replaced(queues', queues, u, i, Append(queues[u][i], t))
      <3>1. queues' \in Family /\ queues'[u][i] = Append(queues[u][i], t)
        BY <1>1, <1>3, <2>1, <2>3 DEF Family
      <3>2. \A h \in Units, k \in Slots : (h # u \/ k # i) => queues'[h][k] = queues[h][k]
        BY <1>1, <1>3, <2>1 DEF Family
      <3> QED
        BY <3>1, <3>2 DEF Replaced
    <2>5. t.instr.unit = u /\ queues' \in Family
      BY <2>4 DEF u, Replaced
    <2> QED
      BY <1>2, <1>3, <2>1, <2>4, <2>5, FamilyPut
  <1>5. Queued' = Queued \cup {t} /\ AtUnits' = AtUnits
    <2>1. Queued = Members(queues) /\ Queued' = Members(queues')
      BY DEF Queued, Members
    <2> QED
      BY <1>1, <1>4, <2>1 DEF AtUnits
  <1>6. BackTypeOK'
    BY <1>1, <1>2, <1>4 DEF BackInv, BackTypeOK, Family
  <1>7. BackPlaced'
    BY <1>1, <1>2, <1>4 DEF BackInv, BackPlaced, InPlace
  <1>8. BackApart'
    <2>1. \A v \in Units, k \in Slots : NoDup(queues'[v][k]) /\ NoDup(inputs'[v][k])
      BY <1>1, <1>4 DEF BackInv, BackApart, InPlace
    <2> QED
      BY <1>1, <1>2, <1>5, <2>1 DEF BackInv, BackApart
  <1>9. Waiting' = Waiting
    BY <1>1, <1>2, <1>5 DEF Waiting
  <1> QED
    BY <1>6, <1>7, <1>8, <1>9 DEF BackInv

LEMMA DequeueMoves ==
    ASSUME BackInv, NEW u \in Units, NEW i \in Slots, Dequeue(u, i), NEW t, t = Head(queues[u][i])
    PROVE  /\ t \in Trace /\ Replaced(inputs', inputs, u, i, Append(inputs[u][i], t))
           /\ BackInv' /\ Waiting' = Waiting
  <1>1. /\ queues[u][i] # <<>> /\ queues' = [queues EXCEPT ![u][i] = Tail(queues[u][i])]
        /\ inputs' = [inputs EXCEPT ![u][i] = Append(inputs[u][i], t)]
        /\ UNCHANGED <<collecting, operands, sent, units>>
    BY DEF Dequeue
  <1>2. queues \in Family /\ InPlace(queues) /\ inputs \in Family /\ InPlace(inputs)
    BY BackFamilies DEF BackInv
  <1>3. /\ t \in Trace /\ t \in Members(queues) /\ t.instr.unit = u /\ SlotOf(t.wid) = i
        /\ queues' \in Family /\ InPlace(queues') /\ Members(queues') = Members(queues) \ {t}
    <2>1. Tail(queues[u][i]) \in Seq(Trace)
      BY <1>1, <1>2, QueueTail DEF Family
    <2>2. Replaced(queues', queues, u, i, Tail(queues[u][i]))
      <3>1. queues' \in Family /\ queues'[u][i] = Tail(queues[u][i])
        BY <1>1, <1>2, <2>1 DEF Family
      <3>2. \A h \in Units, k \in Slots : (h # u \/ k # i) => queues'[h][k] = queues[h][k]
        BY <1>1, <1>2 DEF Family
      <3> QED
        BY <3>1, <3>2 DEF Replaced
    <2>3. queues' \in Family /\ queues \in Family /\ InPlace(queues) /\ queues[u][i] # <<>>
      BY <1>1, <1>2, <2>2 DEF Replaced
    <2> QED
      BY <2>2, <2>3, FamilyTake
  <1>4. t \notin Members(inputs)
    BY <1>3, BackFamilies DEF BackInv, BackApart
  <1>5. /\ inputs' \in Family /\ InPlace(inputs') /\ Members(inputs') = Members(inputs) \cup {t}
        /\ Replaced(inputs', inputs, u, i, Append(inputs[u][i], t))
    <2>0. inputs[u][i] \in Seq(Trace)
      BY <1>2 DEF Family
    <2>1. Append(inputs[u][i], t) \in Seq(Trace)
      BY <1>3, <2>0, QueueAppend
    <2>2. Replaced(inputs', inputs, u, i, Append(inputs[u][i], t))
      <3>1. inputs' \in Family /\ inputs'[u][i] = Append(inputs[u][i], t)
        BY <1>1, <1>2, <2>1 DEF Family
      <3>2. \A h \in Units, k \in Slots : (h # u \/ k # i) => inputs'[h][k] = inputs[h][k]
        BY <1>1, <1>2 DEF Family
      <3> QED
        BY <3>1, <3>2 DEF Replaced
    <2>3. inputs' \in Family
      BY <2>2 DEF Replaced
    <2> QED
      BY <1>2, <1>3, <1>4, <2>2, <2>3, FamilyPut
  <1>6. Queued' = Queued \ {t} /\ AtUnits' = AtUnits \cup {t} /\ Operands' = Operands /\ t \in Queued
    <2>1. Queued = Members(queues) /\ Queued' = Members(queues') /\ AtUnits = Members(inputs) /\ AtUnits' = Members(inputs')
      BY DEF Queued, Members, AtUnits
    <2> QED
      BY <1>1, <1>3, <1>5, <2>1 DEF Operands
  <1>7. BackTypeOK'
    BY <1>1, <1>3, <1>5 DEF BackInv, BackTypeOK, Family
  <1>8. BackPlaced'
    BY <1>1, <1>3, <1>5 DEF BackInv, BackPlaced, InPlace
  <1>9. BackApart'
    <2>1. \A v \in Units, k \in Slots : NoDup(queues'[v][k]) /\ NoDup(inputs'[v][k])
      BY <1>3, <1>5 DEF InPlace
    <2> QED
      BY <1>1, <1>6, <2>1 DEF BackInv, BackApart
  <1>10. Waiting' = Waiting
    BY <1>1, <1>6 DEF Waiting
  <1> QED
    BY <1>3, <1>5, <1>7, <1>8, <1>9, <1>10 DEF BackInv

(* A packet goes to the unit; the last one takes the trace along.          *)
LEMMA ExecuteMoves ==
    ASSUME BackInv, NEW u \in Units, NEW i \in Slots, Execute(u, i), NEW t, t = Head(inputs[u][i])
    PROVE  /\ t \in Trace /\ t \in Waiting /\ t.instr.unit = u /\ SlotOf(t.wid) = i
           /\ BackInv'
           /\ Issued' = Issued
           /\ IF sent[u][i] + 1 = t.instr.packets
              THEN Waiting' = Waiting \ {t} /\ Replaced(inputs', inputs, u, i, Tail(inputs[u][i]))
              ELSE Waiting' = Waiting /\ inputs' = inputs
  <1> DEFINE k == sent[u][i] + 1
             p == [trace |-> t, pid |-> k, eop |-> Eop(t, k)]
  <1>1. /\ inputs[u][i] # <<>>
        /\ units' = units \cup {p}
        /\ inputs' = IF k = t.instr.packets THEN [inputs EXCEPT ![u][i] = Tail(inputs[u][i])] ELSE inputs
        /\ sent' = [sent EXCEPT ![u][i] = IF k = t.instr.packets THEN 0 ELSE k]
        /\ UNCHANGED <<collecting, operands, queues>>
    BY DEF Execute
  <1>2. inputs \in Family /\ InPlace(inputs) /\ inputs[u][i] \in Seq(Trace) /\ sent \in [Units -> [Slots -> Nat]]
    BY BackFamilies DEF BackInv, BackTypeOK
  <1>3. /\ t \in Trace /\ t \in Elements(inputs[u][i]) /\ t.instr.unit = u /\ SlotOf(t.wid) = i
        /\ Tail(inputs[u][i]) \in Seq(Trace)
    BY <1>1, <1>2, QueueTail DEF InPlace
  <1>4. t \in AtUnits /\ t \in Waiting
    BY <1>3 DEF AtUnits, Waiting
  <1>5. k \in Nat /\ p \in Packet
    <2>1. k \in Nat
      BY <1>2
    <2>2. Eop(t, k) \in BOOLEAN
      BY DEF Eop
    <2> QED
      BY <1>3, <2>1, <2>2 DEF Packet
  <1>6. units' \subseteq Packet /\ sent' \in [Units -> [Slots -> Nat]]
    BY <1>1, <1>2, <1>5 DEF BackInv, BackTypeOK
  <1>7. InUnits' = InUnits \cup {t}
    <2>1. p.trace = t
      OBVIOUS
    <2> HIDE DEF p
    <2> QED
      BY <1>1, <2>1 DEF InUnits
  <1> HIDE DEF k, p
  <1>8. CASE k = t.instr.packets
    <2>1. Replaced(inputs', inputs, u, i, Tail(inputs[u][i]))
      <3>1. inputs' \in Family /\ inputs'[u][i] = Tail(inputs[u][i])
        BY <1>1, <1>2, <1>3, <1>8 DEF Family
      <3>2. \A h \in Units, j \in Slots : (h # u \/ j # i) => inputs'[h][j] = inputs[h][j]
        BY <1>1, <1>2, <1>8 DEF Family
      <3> QED
        BY <3>1, <3>2 DEF Replaced
    <2>2. inputs' \in Family /\ inputs \in Family /\ InPlace(inputs) /\ inputs[u][i] # <<>>
      BY <1>1, <1>2, <2>1 DEF Replaced
    <2>3. InPlace(inputs') /\ Members(inputs') = Members(inputs) \ {t}
      BY <2>1, <2>2, FamilyTake
    <2>4. AtUnits' = AtUnits \ {t} /\ Operands' = Operands /\ Queued' = Queued
      <3>1. AtUnits = Members(inputs) /\ AtUnits' = Members(inputs')
        BY DEF Members, AtUnits
      <3> QED
        BY <1>1, <2>3, <3>1 DEF Operands, Queued
    <2>5. BackTypeOK'
      BY <1>1, <1>6, <2>2 DEF BackInv, BackTypeOK, Family
    <2>6. BackPlaced'
      BY <1>1, <2>3 DEF BackInv, BackPlaced, InPlace
    <2>7. BackApart'
      <3>1. \A v \in Units, j \in Slots : NoDup(queues'[v][j]) /\ NoDup(inputs'[v][j])
        BY <1>1, <2>3 DEF BackInv, BackApart, InPlace
      <3> QED
        BY <1>1, <2>4, <3>1 DEF BackInv, BackApart
    <2>8. Waiting' = Waiting \ {t}
      BY <1>1, <1>4, <2>4 DEF BackInv, BackApart, Waiting
    <2>9. Issued' = Issued
      BY <1>4, <1>7, <2>8 DEF Issued, InUnits
    <2> QED
      BY <1>3, <1>4, <1>8, <2>1, <2>5, <2>6, <2>7, <2>8, <2>9 DEF BackInv, k
  <1>9. CASE k # t.instr.packets
    <2>1. inputs' = inputs
      BY <1>1, <1>9
    <2>2. BackPlaced' /\ BackApart' /\ Waiting' = Waiting
      BY <1>1, <2>1, BackSame DEF BackInv
    <2>3. BackTypeOK'
      BY <1>1, <1>6, <2>1 DEF BackInv, BackTypeOK
    <2>4. Issued' = Issued
      BY <1>4, <1>7, <2>2 DEF Issued, InUnits
    <2> QED
      BY <1>3, <1>4, <1>9, <2>1, <2>2, <2>3, <2>4 DEF BackInv, k
  <1> QED
    BY <1>8, <1>9

(* What a warp's ibuffer gives and gets.                                   *)
Heads == {Head(ibuffers[w]) : w \in Picked}

LEMMA BufferHeads ==
    ASSUME FrontTypeOK, BuffersSorted, NEW w \in Warps, ibuffers[w] # <<>>
    PROVE  /\ Head(ibuffers[w]) \in Buffered /\ Head(ibuffers[w]) \in Trace /\ Head(ibuffers[w]).wid = w
           /\ Tail(ibuffers[w]) \in Seq(Trace)
           /\ Elements(ibuffers[w]) = Elements(Tail(ibuffers[w])) \cup {Head(ibuffers[w])}
           /\ \A s \in Elements(Tail(ibuffers[w])) : Head(ibuffers[w]).n < s.n
           /\ \A a, b \in 1..Len(Tail(ibuffers[w])) :
                 a < b => Tail(ibuffers[w])[a].n < Tail(ibuffers[w])[b].n
  <1> DEFINE q == ibuffers[w]
             r == Tail(q)
  <1>1. q \in Seq(Trace) /\ q # <<>>
    BY DEF FrontTypeOK
  <1>2. /\ \A t \in Elements(q) : t.wid = w
        /\ \A a, b \in 1..Len(q) : a < b => q[a].n < q[b].n
    BY DEF BuffersSorted
  <1>3. q = ibuffers[w]
    OBVIOUS
  <1> HIDE DEF q
  <1>4. /\ r \in Seq(Trace) /\ Head(q) \in Trace /\ Head(q) \in Elements(q)
        /\ Elements(q) = Elements(r) \cup {Head(q)}
    BY <1>1, QueueTail
  <1>5. /\ Len(q) \in Nat \ {0} /\ Len(r) = Len(q) - 1 /\ Head(q) = q[1]
        /\ \A j \in 1..(Len(q) - 1) : r[j] = q[j + 1]
    BY <1>1
  <1> HIDE DEF r
  <1>6. \A j \in 1..Len(r) : r[j] = q[j + 1] /\ j + 1 \in 1..Len(q) /\ 1 \in 1..Len(q) /\ 1 < j + 1
    BY <1>5
  <1>7. ASSUME NEW s \in Elements(r)
        PROVE  Head(q).n < s.n
    <2>1. PICK j \in 1..Len(r) : s = r[j]
      BY <1>7 DEF Elements
    <2> QED
      BY <1>2, <1>5, <1>6, <2>1
  <1>8. ASSUME NEW a \in 1..Len(r), NEW b \in 1..Len(r), a < b
        PROVE  r[a].n < r[b].n
    <2>1. a + 1 \in 1..Len(q) /\ b + 1 \in 1..Len(q) /\ r[a] = q[a + 1] /\ r[b] = q[b + 1]
      BY <1>6
    <2>2. a + 1 < b + 1
      BY <1>5, <1>8
    <2> QED
      BY <1>2, <2>1, <2>2
  <1>9. Head(q) \in Buffered
    BY <1>3, <1>4 DEF Buffered
  <1> QED
    BY <1>2, <1>3, <1>4, <1>7, <1>8, <1>9 DEF r

LEMMA IssueMoves ==
    ASSUME OrderInv, Issue
    PROVE  /\ ibuffers' \in [Warps -> Seq(Trace)] /\ BuffersSorted'
           /\ Heads \subseteq Buffered /\ Heads \subseteq Trace
           /\ Buffered' \cup Heads = Buffered
           /\ \A t \in Heads, s \in Buffered' : s.wid = t.wid => t.n < s.n
           /\ \A s, t \in Heads : s.wid = t.wid => s = t
           /\ \A t \in Heads : ~InUse(t)
           /\ Heads \cap Issued = {}
           /\ BackInv' /\ Waiting' = Waiting \cup Heads /\ Issued' = Issued \cup Heads
           /\ inUse' = inUse \cup UNION {{<<t.wid, r>> : r \in t.instr.dst} : t \in Heads}
  <1>1. FrontTypeOK /\ BuffersSorted /\ ibuffers \in [Warps -> Seq(Trace)]
    BY DEF OrderInv, FrontTypeOK
  <1>2. /\ Picked \subseteq Warps
        /\ \A w \in Picked : ibuffers[w] # <<>> /\ ~InUse(Head(ibuffers[w]))
    BY DEF Picked, Issuable
  <1>3. /\ ibuffers' = [w \in Warps |-> IF w \in Picked THEN Tail(ibuffers[w]) ELSE ibuffers[w]]
        /\ collecting' = collecting \cup Heads
        /\ inUse' = inUse \cup UNION {{<<w, r>> : r \in Head(ibuffers[w]).instr.dst} : w \in Picked}
        /\ UNCHANGED <<operands, queues, inputs, sent, units>>
    BY DEF Issue, Heads
  <1>4. /\ \A w \in Picked : ibuffers'[w] = Tail(ibuffers[w])
        /\ \A w \in Warps \ Picked : ibuffers'[w] = ibuffers[w]
    BY <1>2, <1>3
  <1>5. \A w \in Picked :
           /\ Head(ibuffers[w]) \in Buffered /\ Head(ibuffers[w]) \in Trace /\ Head(ibuffers[w]).wid = w
           /\ ibuffers'[w] \in Seq(Trace)
           /\ Elements(ibuffers[w]) = Elements(ibuffers'[w]) \cup {Head(ibuffers[w])}
           /\ \A s \in Elements(ibuffers'[w]) : Head(ibuffers[w]).n < s.n
           /\ \A a, b \in 1..Len(ibuffers'[w]) : a < b => ibuffers'[w][a].n < ibuffers'[w][b].n
    BY <1>1, <1>2, <1>4, BufferHeads
  <1>6. \A w \in Warps : Elements(ibuffers'[w]) \subseteq Elements(ibuffers[w])
    BY <1>4, <1>5
  <1>7. ibuffers' \in [Warps -> Seq(Trace)]
    BY <1>1, <1>3, <1>4, <1>5
  <1>8. BuffersSorted'
    <2> SUFFICES ASSUME NEW w \in Warps
                 PROVE  /\ \A t \in Elements(ibuffers'[w]) : t.wid = w
                        /\ \A a, b \in 1..Len(ibuffers'[w]) : a < b => ibuffers'[w][a].n < ibuffers'[w][b].n
      BY DEF BuffersSorted
    <2>1. \A t \in Elements(ibuffers'[w]) : t.wid = w
      BY <1>1, <1>6 DEF BuffersSorted
    <2>2. CASE w \in Picked
      BY <1>5, <2>1, <2>2
    <2>3. CASE w \notin Picked
      BY <1>1, <1>4, <2>1, <2>3 DEF BuffersSorted
    <2> QED
      BY <2>2, <2>3
  <1>9. /\ Heads \subseteq Buffered /\ Heads \subseteq Trace
        /\ \A s, t \in Heads : s.wid = t.wid => s = t
        /\ \A t \in Heads : ~InUse(t)
    BY <1>2, <1>5 DEF Heads
  <1>10. Buffered' \cup Heads = Buffered
    <2>1. ASSUME NEW v \in Buffered' PROVE v \in Buffered
      <3>1. PICK w \in Warps : v \in Elements(ibuffers'[w])
        BY <2>1 DEF Buffered
      <3>2. v \in Elements(ibuffers[w])
        BY <1>6, <3>1
      <3> QED
        BY <3>2 DEF Buffered
    <2>2. ASSUME NEW v \in Buffered PROVE v \in Buffered' \cup Heads
      <3>1. PICK w \in Warps : v \in Elements(ibuffers[w])
        BY <2>2 DEF Buffered
      <3>2. v \in Elements(ibuffers'[w]) \/ (w \in Picked /\ v = Head(ibuffers[w]))
        BY <1>4, <1>5, <3>1
      <3> QED
        BY <3>2 DEF Buffered, Heads
    <2> QED
      BY <1>9, <2>1, <2>2
  <1>11. ASSUME NEW t \in Heads, NEW s \in Buffered', s.wid = t.wid
         PROVE  t.n < s.n
    <2>1. PICK w \in Picked : t = Head(ibuffers[w])
      BY DEF Heads
    <2>2. PICK v \in Warps : s \in Elements(ibuffers'[v])
      BY DEF Buffered
    <2>3. s.wid = v /\ t.wid = w
      BY <1>5, <1>8, <2>1, <2>2 DEF BuffersSorted
    <2> QED
      BY <1>5, <1>11, <2>1, <2>2, <2>3
  <1>12. Heads \cap Issued = {}
    <2>1. ASSUME NEW t \in Heads, t \in Issued PROVE FALSE
      <3>1. t \in Trace /\ t \in Buffered
        BY <1>9
      <3>2. t.n < t.n /\ t.n \in Nat
        BY <2>1, <3>1, TraceFacts DEF OrderInv, InOrder
      <3> QED
        BY <3>2
    <2> QED
      BY <2>1
  <1>13. Operands' = Operands /\ Queued' = Queued /\ AtUnits' = AtUnits
    BY <1>3 DEF Operands, Queued, AtUnits
  <1>14. Waiting' = Waiting \cup Heads /\ Issued' = Issued \cup Heads
    <2>1. Waiting' = Waiting \cup Heads
      BY <1>3, <1>13 DEF Waiting
    <2> QED
      BY <1>3, <2>1 DEF Issued
  <1>15. BackInv'
    <2>1. BackTypeOK'
      BY <1>3, <1>9 DEF OrderInv, BackInv, BackTypeOK
    <2>2. BackPlaced'
      BY <1>3 DEF OrderInv, BackInv, BackPlaced
    <2>3. BackApart'
      <3>1. Heads \cap Operands = {} /\ Heads \cap Queued = {} /\ Heads \cap AtUnits = {}
        BY <1>12 DEF Issued, Waiting
      <3>2. \A i \in Slots : NoDup(operands'[i])
        BY <1>3 DEF OrderInv, BackInv, BackApart
      <3>3. \A u \in Units, i \in Slots : NoDup(queues'[u][i]) /\ NoDup(inputs'[u][i])
        BY <1>3 DEF OrderInv, BackInv, BackApart
      <3> QED
        BY <1>3, <1>13, <3>1, <3>2, <3>3 DEF OrderInv, BackInv, BackApart
    <2> QED
      BY <2>1, <2>2, <2>3 DEF BackInv
  <1>16. inUse' = inUse \cup UNION {{<<t.wid, r>> : r \in t.instr.dst} : t \in Heads}
    <2>1. UNION {{<<w, r>> : r \in Head(ibuffers[w]).instr.dst} : w \in Picked}
            = UNION {{<<t.wid, r>> : r \in t.instr.dst} : t \in Heads}
      BY <1>5 DEF Heads
    <2> QED
      BY <1>3, <2>1
  <1> QED
    BY <1>7, <1>8, <1>9, <1>10, <1>11, <1>12, <1>14, <1>15, <1>16

----------------------------------------------------------------------------
(* OrderInv, action by action.                                             *)
LEMMA OrderInit == Init => OrderInv
  <1> SUFFICES ASSUME Init PROVE OrderInv
    OBVIOUS
  <1>1. /\ InFront = {} /\ Buffered = {} /\ Waiting = {} /\ Issued = {} /\ AllTraces = {} /\ FrontWarps = {}
        /\ Operands = {} /\ Queued = {} /\ AtUnits = {} /\ Fetching = {} /\ Decoding = {}
    <2>1. \A w \in Warps : Elements(ibuffers[w]) = {}
      BY EmptyQueue DEF Init
    <2>2. \A i \in Slots : Elements(operands[i]) = {}
      BY EmptyQueue DEF Init
    <2>3. \A u \in Units, i \in Slots : Elements(queues[u][i]) = {} /\ Elements(inputs[u][i]) = {}
      BY EmptyQueue DEF Init
    <2>4. Fetching = {} /\ Decoding = {} /\ InFront = {}
      BY EmptyQueue DEF Init, Fetching, Decoding, InFront
    <2>5. Buffered = {} /\ Operands = {} /\ Queued = {} /\ AtUnits = {}
      BY <2>1, <2>2, <2>3 DEF Buffered, Operands, Queued, AtUnits
    <2>6. Waiting = {} /\ Issued = {}
      BY <2>5 DEF Init, Waiting, Issued
    <2> QED
      BY <2>4, <2>5, <2>6 DEF AllTraces, FrontWarps
  <1>2. FrontTypeOK
    BY PipelineAssumption, EmptyQueue DEF Init, FrontTypeOK
  <1>3. BackInv
    <2>1. BackTypeOK
      BY EmptyQueue DEF Init, BackTypeOK
    <2>2. BackPlaced
      BY EmptyQueue DEF Init, BackPlaced
    <2>3. BackApart
      <3>1. \A i \in Slots : NoDup(operands[i])
        BY EmptyQueue DEF Init
      <3>2. \A u \in Units, i \in Slots : NoDup(queues[u][i]) /\ NoDup(inputs[u][i])
        BY EmptyQueue DEF Init
      <3> QED
        BY <1>1, <3>1, <3>2 DEF BackApart
    <2> QED
      BY <2>1, <2>2, <2>3 DEF BackInv
  <1>4. FrontApart
    BY <1>1, EmptyQueue DEF Init, FrontApart
  <1>5. Numbered /\ FrontAlone /\ InOrder /\ StallsHold
    BY <1>1 DEF Numbered, FrontAlone, InOrder, StallsHold
  <1>6. BuffersSorted
    BY EmptyQueue DEF Init, BuffersSorted
  <1>7. FrontCounted
    BY <1>1, FS_EmptySet DEF Init, FrontCounted
  <1> QED
    BY <1>2, <1>3, <1>4, <1>5, <1>6, <1>7 DEF OrderInv

LEMMA FrontTraces ==
    ASSUME FrontTypeOK
    PROVE  InFront \subseteq Trace /\ Buffered \subseteq Trace
  <1>1. ASSUME NEW q \in Seq(Trace) PROVE Elements(q) \subseteq Trace
    BY DEF Elements
  <1>2. \A w \in Warps : Elements(ibuffers[w]) \subseteq Trace
    BY <1>1 DEF FrontTypeOK
  <1>3. Elements(fetchLatch) \subseteq Trace /\ Elements(decodeLatch) \subseteq Trace /\ icache \subseteq Trace
    BY <1>1 DEF FrontTypeOK
  <1> QED
    BY <1>2, <1>3 DEF InFront, Buffered

LEMMA IssuedTraces ==
    ASSUME OrderInv
    PROVE  Issued \subseteq Trace
  <1>1. \A q \in Seq(Trace) : Elements(q) \subseteq Trace
    BY DEF Elements
  <1>2. \A j \in Slots : operands[j] \in Seq(Trace)
    BY DEF OrderInv, BackInv, BackTypeOK
  <1>3. \A u \in Units, j \in Slots : queues[u][j] \in Seq(Trace) /\ inputs[u][j] \in Seq(Trace)
    BY DEF OrderInv, BackInv, BackTypeOK
  <1>4. Operands \subseteq Trace
    BY <1>1, <1>2 DEF Operands
  <1>5. Queued \subseteq Trace /\ AtUnits \subseteq Trace
    BY <1>1, <1>3 DEF Queued, AtUnits
  <1>6. Waiting \subseteq Trace
    BY <1>4, <1>5 DEF Waiting, OrderInv, BackInv, BackTypeOK
  <1>7. \A p \in units : p.trace \in Trace
    BY DEF OrderInv, BackInv, BackTypeOK, Packet
  <1> QED
    BY <1>6, <1>7 DEF Issued

LEMMA FrontSame ==
    ASSUME UNCHANGED <<fetchLatch, icache, decodeLatch>>
    PROVE  /\ InFront' = InFront
           /\ FrontApart => FrontApart'
           /\ FrontCounted => FrontCounted'
  <1>1. Fetching' = Fetching /\ Decoding' = Decoding /\ InFront' = InFront
    BY DEF Fetching, Decoding, InFront
  <1>2. FrontWarps' = FrontWarps
    BY <1>1 DEF FrontWarps
  <1> QED
    BY <1>1, <1>2 DEF FrontApart, FrontCounted

(* A step behind the scoreboard.                                           *)
LEMMA OrderBack ==
    ASSUME OrderInv, UNCHANGED <<front, ibuffers>>, BackInv', Waiting' \subseteq Waiting, Issued' \subseteq Issued
    PROVE  OrderInv'
  <1>1. UNCHANGED <<count, suspended, fetchLatch, icache, decodeLatch, ibuffers>>
    BY DEF front
  <1>2. InFront' = InFront /\ FrontApart' /\ FrontCounted'
    BY <1>1, FrontSame DEF OrderInv
  <1>3. Buffered' = Buffered
    BY <1>1 DEF Buffered
  <1>4. AllTraces' \subseteq AllTraces
    BY <1>2, <1>3 DEF AllTraces
  <1>5. FrontTypeOK' /\ BuffersSorted'
    BY <1>1 DEF OrderInv, FrontTypeOK, BuffersSorted
  <1>6. Numbered'
    BY <1>1, <1>4 DEF OrderInv, Numbered
  <1>7. FrontAlone' /\ InOrder' /\ StallsHold'
    BY <1>1, <1>2, <1>3 DEF OrderInv, FrontAlone, InOrder, StallsHold
  <1> QED
    BY <1>2, <1>5, <1>6, <1>7 DEF OrderInv

LEMMA CollectOrder ==
    ASSUME OrderInv, NEW t \in collecting, Collect(t)
    PROVE  OrderInv'
  <1>1. BackInv' /\ Waiting' = Waiting
    BY CollectMoves DEF OrderInv
  <1>2. UNCHANGED <<front, ibuffers>> /\ units' = units
    BY DEF Collect
  <1>3. Issued' = Issued
    BY <1>1, <1>2 DEF Issued
  <1> QED
    BY <1>1, <1>2, <1>3, OrderBack

LEMMA DispatchOrder ==
    ASSUME OrderInv, NEW i \in Slots, Dispatch(i)
    PROVE  OrderInv'
  <1>1. BackInv' /\ Waiting' = Waiting
    BY DispatchMoves DEF OrderInv
  <1>2. UNCHANGED <<front, ibuffers>> /\ units' = units
    BY DEF Dispatch
  <1>3. Issued' = Issued
    BY <1>1, <1>2 DEF Issued
  <1> QED
    BY <1>1, <1>2, <1>3, OrderBack

LEMMA DequeueOrder ==
    ASSUME OrderInv, NEW u \in Units, NEW i \in Slots, Dequeue(u, i)
    PROVE  OrderInv'
  <1>1. BackInv' /\ Waiting' = Waiting
    BY DequeueMoves DEF OrderInv
  <1>2. UNCHANGED <<front, ibuffers>> /\ units' = units
    BY DEF Dequeue
  <1>3. Issued' = Issued
    BY <1>1, <1>2 DEF Issued
  <1> QED
    BY <1>1, <1>2, <1>3, OrderBack

LEMMA CommitOrder ==
    ASSUME OrderInv, NEW p \in units, Commit(p)
    PROVE  OrderInv' /\ Waiting' = Waiting /\ units' = units \ {p}
  <1>1. UNCHANGED <<front, ibuffers, collecting, operands, queues, inputs, sent>> /\ units' = units \ {p}
    BY DEF Commit
  <1>2. Waiting' = Waiting /\ BackPlaced' /\ BackApart'
    BY <1>1, BackSame DEF OrderInv, BackInv
  <1>3. BackInv'
    BY <1>1, <1>2 DEF OrderInv, BackInv, BackTypeOK
  <1>4. Issued' \subseteq Issued
    BY <1>1, <1>2 DEF Issued
  <1> QED
    BY <1>1, <1>2, <1>3, <1>4, OrderBack

LEMMA StutterOrder ==
    ASSUME OrderInv, UNCHANGED vars
    PROVE  OrderInv'
  <1>1. UNCHANGED <<front, ibuffers, collecting, operands, queues, inputs, sent, units>>
    BY DEF vars, back
  <1>2. Waiting' = Waiting /\ BackPlaced' /\ BackApart'
    BY <1>1, BackSame DEF OrderInv, BackInv
  <1>3. BackInv'
    BY <1>1, <1>2 DEF OrderInv, BackInv, BackTypeOK
  <1>4. Issued' = Issued
    BY <1>1, <1>2 DEF Issued
  <1> QED
    BY <1>1, <1>2, <1>3, <1>4, OrderBack

(* A warp is resumed by its last trace, so that nothing of it is in front. *)
LEMMA ExecuteOrder ==
    ASSUME OrderInv, NEW u \in Units, NEW i \in Slots, Execute(u, i)
    PROVE  OrderInv'
  <1> DEFINE t == Head(inputs[u][i])
             k == sent[u][i] + 1
  <1>1. /\ t \in Trace /\ t \in Waiting /\ BackInv' /\ Issued' = Issued
        /\ IF k = t.instr.packets THEN Waiting' = Waiting \ {t} ELSE Waiting' = Waiting
    BY ExecuteMoves DEF OrderInv
  <1>2. /\ UNCHANGED <<count, fetchLatch, icache, decodeLatch, ibuffers>>
        /\ suspended' = IF k = t.instr.packets /\ t.instr.stall THEN suspended \ {t.wid} ELSE suspended
    BY DEF Execute, Eop
  <1> HIDE DEF t, k
  <1>3. InFront' = InFront /\ FrontApart' /\ FrontCounted' /\ Buffered' = Buffered
    <2>1. Buffered' = Buffered
      BY <1>2 DEF Buffered
    <2> QED
      BY <1>2, <2>1, FrontSame DEF OrderInv
  <1>4. FrontTypeOK' /\ BuffersSorted'
    BY <1>2 DEF OrderInv, FrontTypeOK, BuffersSorted
  <1>5. AllTraces' = AllTraces /\ Numbered'
    BY <1>1, <1>2, <1>3 DEF OrderInv, AllTraces, Numbered
  <1>6. InOrder'
    BY <1>1, <1>3 DEF OrderInv, InOrder
  <1>7. CASE k = t.instr.packets /\ t.instr.stall
    <2>1. t \in Issued /\ t \in AllTraces /\ t.n = count[t.wid] /\ t.n \in Nat
      BY <1>1, <1>7, TraceFacts DEF OrderInv, StallsHold, Issued, AllTraces
    <2>2. ASSUME NEW s \in InFront, s.wid = t.wid PROVE FALSE
      <3>1. t.n < s.n /\ s.n <= count[t.wid]
        BY <2>1, <2>2 DEF OrderInv, InOrder, Numbered, AllTraces
      <3>2. s \in Trace
        BY FrontTraces DEF OrderInv
      <3> QED
        BY <2>1, <3>1, <3>2, TraceFacts
    <2>3. FrontAlone'
      BY <1>2, <1>3, <2>2 DEF OrderInv, FrontAlone
    <2>4. StallsHold'
      <3> SUFFICES ASSUME NEW s \in InFront' \cup Buffered' \cup Waiting', s.instr.stall
                   PROVE  s.wid \in suspended' /\ s.n = count'[s.wid]
        BY DEF StallsHold
      <3>1. s \in InFront \/ s \in Buffered \/ (s \in Waiting /\ s # t)
        BY <1>1, <1>3, <1>7
      <3>2. s.wid \in suspended /\ s.n = count[s.wid] /\ s \in AllTraces
        BY <3>1 DEF OrderInv, StallsHold, AllTraces, Issued
      <3>3. s # t
        <4>1. t \notin InFront
          BY <2>2
        <4>2. t \notin Buffered
          BY <2>1 DEF OrderInv, InOrder
        <4> QED
          BY <3>1, <4>1, <4>2
      <3>4. s.wid # t.wid
        BY <2>1, <3>2, <3>3 DEF OrderInv, Numbered
      <3> QED
        BY <1>2, <3>2, <3>4
    <2> QED
      BY <1>1, <1>3, <1>4, <1>5, <1>6, <2>3, <2>4 DEF OrderInv
  <1>8. CASE ~(k = t.instr.packets /\ t.instr.stall)
    <2>1. suspended' = suspended /\ Waiting' \subseteq Waiting
      BY <1>1, <1>2, <1>8
    <2>2. FrontAlone' /\ StallsHold'
      BY <1>2, <1>3, <2>1 DEF OrderInv, FrontAlone, StallsHold
    <2> QED
      BY <1>1, <1>3, <1>4, <1>5, <1>6, <2>2 DEF OrderInv
  <1> QED
    BY <1>7, <1>8

LEMMA IssueOrder ==
    ASSUME OrderInv, Issue
    PROVE  OrderInv'
  <1>1. UNCHANGED <<count, suspended, fetchLatch, icache, decodeLatch>>
    BY DEF Issue, front
  <1>2. InFront' = InFront /\ FrontApart' /\ FrontCounted'
    BY <1>1, FrontSame DEF OrderInv
  <1>3. /\ ibuffers' \in [Warps -> Seq(Trace)] /\ BuffersSorted'
        /\ Heads \subseteq Buffered /\ Buffered' \cup Heads = Buffered
        /\ \A t \in Heads, s \in Buffered' : s.wid = t.wid => t.n < s.n
        /\ BackInv' /\ Waiting' = Waiting \cup Heads /\ Issued' = Issued \cup Heads
    BY IssueMoves
  <1>4. FrontTypeOK'
    BY <1>1, <1>3 DEF OrderInv, FrontTypeOK
  <1>5. AllTraces' = AllTraces
    BY <1>2, <1>3 DEF AllTraces
  <1>6. Numbered'
    BY <1>1, <1>5 DEF OrderInv, Numbered
  <1>7. FrontAlone' /\ StallsHold'
    BY <1>1, <1>2, <1>3 DEF OrderInv, FrontAlone, StallsHold
  <1>8. InOrder'
    BY <1>2, <1>3 DEF OrderInv, InOrder
  <1> QED
    BY <1>2, <1>3, <1>4, <1>6, <1>7, <1>8 DEF OrderInv

LEMMA FrontWarpsFinite ==
    ASSUME FrontTypeOK
    PROVE  /\ IsFiniteSet(FrontWarps) /\ Cardinality(FrontWarps) \in Nat
           /\ Cardinality(FrontWarps) <= NumWarps
  <1>1. FrontWarps \in SUBSET Warps
    BY FrontTraces, TraceFacts DEF FrontWarps
  <1>2. IsFiniteSet(Warps) /\ Cardinality(Warps) = NumWarps
    <2>1. 0 \in Int /\ NumWarps - 1 \in Int /\ ~(0 > NumWarps - 1) /\ (NumWarps - 1) - 0 + 1 = NumWarps
      BY PipelineAssumption
    <2>2. /\ IsFiniteSet(0..(NumWarps - 1))
          /\ Cardinality(0..(NumWarps - 1)) = IF 0 > NumWarps - 1 THEN 0 ELSE (NumWarps - 1) - 0 + 1
      BY <2>1, FS_Interval
    <2> QED
      BY <2>1, <2>2 DEF Warps
  <1>3. IsFiniteSet(FrontWarps) /\ Cardinality(FrontWarps) <= Cardinality(Warps)
    BY <1>1, <1>2, FS_Subset
  <1> QED
    BY <1>2, <1>3, FS_CardinalityType

(* What the steps in front of the ibuffers leave alone.                    *)
LEMMA BehindSame ==
    ASSUME UNCHANGED back
    PROVE  /\ Waiting' = Waiting /\ Issued' = Issued
           /\ BackInv => BackInv'
  <1>1. UNCHANGED <<collecting, operands, queues, inputs, sent, units>>
    BY DEF back
  <1>2. Waiting' = Waiting /\ (BackPlaced => BackPlaced') /\ (BackApart => BackApart')
    BY <1>1, BackSame
  <1>3. Issued' = Issued
    BY <1>1, <1>2 DEF Issued
  <1> QED
    BY <1>1, <1>2, <1>3 DEF BackInv, BackTypeOK

(* A trace moves on between schedule and decode: the front holds the same. *)
LEMMA OrderFront ==
    ASSUME OrderInv, UNCHANGED <<count, suspended, ibuffers, back>>, InFront' = InFront,
           FrontTypeOK', FrontApart', FrontCounted'
    PROVE  OrderInv'
  <1>1. Waiting' = Waiting /\ Issued' = Issued /\ BackInv'
    BY BehindSame DEF OrderInv
  <1>2. Buffered' = Buffered /\ BuffersSorted'
    BY DEF Buffered, OrderInv, BuffersSorted
  <1>3. AllTraces' = AllTraces
    BY <1>1, <1>2 DEF AllTraces
  <1>4. Numbered' /\ FrontAlone' /\ InOrder' /\ StallsHold'
    BY <1>1, <1>2, <1>3 DEF OrderInv, Numbered, FrontAlone, InOrder, StallsHold
  <1> QED
    BY <1>1, <1>2, <1>4 DEF OrderInv

LEMMA FetchRequestOrder ==
    ASSUME OrderInv, FetchRequest
    PROVE  OrderInv' /\ InFront' = InFront
  <1> DEFINE t == Head(fetchLatch)
  <1>1. /\ fetchLatch # <<>> /\ icache' = icache \cup {t} /\ fetchLatch' = Tail(fetchLatch)
        /\ UNCHANGED <<count, suspended, decodeLatch, ibuffers, back>>
    BY DEF FetchRequest
  <1>2. fetchLatch \in Seq(Trace) /\ icache \subseteq Trace /\ NoDup(fetchLatch) /\ FrontTypeOK
    BY DEF OrderInv, FrontTypeOK, FrontApart
  <1>3. /\ Tail(fetchLatch) \in Seq(Trace) /\ Len(Tail(fetchLatch)) = Len(fetchLatch) - 1
        /\ t \in Trace /\ t \in Elements(fetchLatch)
        /\ Elements(fetchLatch) = Elements(Tail(fetchLatch)) \cup {t}
        /\ NoDup(Tail(fetchLatch)) /\ t \notin Elements(Tail(fetchLatch))
    BY <1>1, <1>2, QueueTail
  <1> HIDE DEF t
  <1>4. Fetching' = Fetching \ {t} /\ Decoding' = Decoding /\ t \in Fetching
    BY <1>1, <1>3 DEF Fetching, Decoding
  <1>5. InFront' = InFront
    BY <1>1, <1>3 DEF InFront
  <1>6. FrontTypeOK'
    BY <1>1, <1>2, <1>3 DEF FrontTypeOK
  <1>7. FrontApart'
    BY <1>1, <1>3, <1>4 DEF OrderInv, FrontApart
  <1>8. FrontCounted'
    <2>1. FrontWarps' = FrontWarps
      BY <1>5 DEF FrontWarps
    <2>2. t \notin icache /\ IsFiniteSet(icache)
      BY <1>4 DEF OrderInv, FrontApart, FrontCounted
    <2>3. IsFiniteSet(icache') /\ Cardinality(icache') = Cardinality(icache) + 1
      BY <1>1, <2>2, FS_AddElement
    <2>4. Len(fetchLatch) \in Nat /\ Len(decodeLatch) \in Nat /\ Cardinality(icache) \in Nat
      BY <1>2, <2>2, FS_CardinalityType DEF FrontTypeOK
    <2>5. Len(fetchLatch') = Len(fetchLatch) - 1 /\ Len(decodeLatch') = Len(decodeLatch)
      BY <1>1, <1>3
    <2>6. Len(fetchLatch) + Cardinality(icache) + Len(decodeLatch) = Cardinality(FrontWarps)
      BY DEF OrderInv, FrontCounted
    <2>7. Len(fetchLatch') + Cardinality(icache') + Len(decodeLatch') = Cardinality(FrontWarps)
      BY <2>3, <2>4, <2>5, <2>6
    <2> QED
      BY <2>1, <2>3, <2>7 DEF FrontCounted
  <1> QED
    BY <1>1, <1>5, <1>6, <1>7, <1>8, OrderFront

LEMMA FetchResponseOrder ==
    ASSUME OrderInv, NEW t \in icache, FetchResponse(t)
    PROVE  OrderInv' /\ InFront' = InFront
  <1>1. /\ icache' = icache \ {t} /\ decodeLatch' = Append(decodeLatch, t)
        /\ UNCHANGED <<count, suspended, fetchLatch, ibuffers, back>>
    BY DEF FetchResponse
  <1>2. /\ decodeLatch \in Seq(Trace) /\ icache \subseteq Trace /\ NoDup(decodeLatch) /\ FrontTypeOK
        /\ t \in Trace /\ t \notin Elements(decodeLatch)
    BY DEF OrderInv, FrontTypeOK, FrontApart, Decoding
  <1>3. /\ Append(decodeLatch, t) \in Seq(Trace) /\ Len(Append(decodeLatch, t)) = Len(decodeLatch) + 1
        /\ Elements(Append(decodeLatch, t)) = Elements(decodeLatch) \cup {t}
        /\ NoDup(Append(decodeLatch, t))
    BY <1>2, QueueAppend
  <1>4. Fetching' = Fetching /\ Decoding' = Decoding \cup {t}
    BY <1>1, <1>3 DEF Fetching, Decoding
  <1>5. InFront' = InFront
    BY <1>1, <1>3 DEF InFront
  <1>6. FrontTypeOK'
    BY <1>1, <1>2, <1>3 DEF FrontTypeOK
  <1>7. FrontApart'
    BY <1>1, <1>3, <1>4 DEF OrderInv, FrontApart
  <1>8. FrontCounted'
    <2>1. FrontWarps' = FrontWarps
      BY <1>5 DEF FrontWarps
    <2>2. IsFiniteSet(icache)
      BY DEF OrderInv, FrontCounted
    <2>3. IsFiniteSet(icache') /\ Cardinality(icache') = Cardinality(icache) - 1
      BY <1>1, <2>2, FS_RemoveElement
    <2>4. Len(fetchLatch) \in Nat /\ Len(decodeLatch) \in Nat /\ Cardinality(icache) \in Nat
      BY <1>2, <2>2, FS_CardinalityType DEF FrontTypeOK
    <2>5. Len(fetchLatch') = Len(fetchLatch) /\ Len(decodeLatch') = Len(decodeLatch) + 1
      BY <1>1, <1>3
    <2>6. Len(fetchLatch) + Cardinality(icache) + Len(decodeLatch) = Cardinality(FrontWarps)
      BY DEF OrderInv, FrontCounted
    <2>7. Len(fetchLatch') + Cardinality(icache') + Len(decodeLatch') = Cardinality(FrontWarps)
      BY <2>3, <2>4, <2>5, <2>6
    <2> QED
      BY <2>1, <2>3, <2>7 DEF FrontCounted
  <1> QED
    BY <1>1, <1>5, <1>6, <1>7, <1>8, OrderFront

(* Decode takes the trace of a warp out of the front and resumes the warp. *)
LEMMA DecodeMoves ==
    ASSUME OrderInv, Decode, NEW t, t = Head(decodeLatch)
    PROVE  /\ t \in Trace /\ t \in InFront
           /\ InFront' = InFront \ {t} /\ FrontTypeOK' /\ FrontApart' /\ FrontCounted'
           /\ Buffered' = Buffered \cup {t} /\ BuffersSorted'
           /\ \A s \in InFront' : s.wid # t.wid
  <1>1. /\ decodeLatch # <<>> /\ decodeLatch' = Tail(decodeLatch)
        /\ suspended' = IF t.instr.stall THEN suspended ELSE suspended \ {t.wid}
        /\ ibuffers' = [ibuffers EXCEPT ![t.wid] = Append(ibuffers[t.wid], t)]
        /\ UNCHANGED <<count, fetchLatch, icache, back>>
    BY DEF Decode
  <1>2. /\ decodeLatch \in Seq(Trace) /\ NoDup(decodeLatch) /\ FrontTypeOK
        /\ ibuffers \in [Warps -> Seq(Trace)] /\ suspended \subseteq Warps
    BY DEF OrderInv, FrontTypeOK, FrontApart
  <1>3. /\ Tail(decodeLatch) \in Seq(Trace) /\ Len(Tail(decodeLatch)) = Len(decodeLatch) - 1
        /\ t \in Trace /\ t \in Elements(decodeLatch)
        /\ Elements(decodeLatch) = Elements(Tail(decodeLatch)) \cup {t}
        /\ NoDup(Tail(decodeLatch)) /\ t \notin Elements(Tail(decodeLatch))
    BY <1>1, <1>2, QueueTail
  <1>4. Fetching' = Fetching /\ Decoding' = Decoding \ {t} /\ t \in Decoding
    BY <1>1, <1>3 DEF Fetching, Decoding
  <1>5. t \in InFront /\ InFront' = InFront \ {t}
    <2>1. InFront = Fetching \cup icache \cup Decoding /\ InFront' = Fetching' \cup icache' \cup Decoding'
      BY DEF InFront, Fetching, Decoding
    <2> QED
      BY <1>1, <1>4, <2>1 DEF OrderInv, FrontApart
  <1> DEFINE w == t.wid
             q == ibuffers[w]
  <1>6. w \in Warps /\ q \in Seq(Trace)
    BY <1>2, <1>3, TraceFacts
  <1>7. /\ Append(q, t) \in Seq(Trace) /\ Elements(Append(q, t)) = Elements(q) \cup {t}
    BY <1>3, <1>6, QueueAppend
  <1>8. /\ ibuffers'[w] = Append(q, t)
        /\ \A v \in Warps \ {w} : ibuffers'[v] = ibuffers[v]
    BY <1>1, <1>2, <1>6
  <1>9. FrontTypeOK'
    BY <1>1, <1>2, <1>3, <1>7 DEF FrontTypeOK
  <1>10. FrontApart'
    BY <1>1, <1>3, <1>4 DEF OrderInv, FrontApart
  <1>11. Buffered' = Buffered \cup {t}
    <2>1. /\ \A v \in Warps \ {w} : Elements(ibuffers'[v]) = Elements(ibuffers[v])
          /\ Elements(ibuffers'[w]) = Elements(ibuffers[w]) \cup {t}
      BY <1>7, <1>8
    <2> HIDE DEF w, q
    <2>2. UNION {Elements(ibuffers'[v]) : v \in Warps} = (UNION {Elements(ibuffers[v]) : v \in Warps}) \cup {t}
      BY <1>6, <2>1, UnionPut
    <2> QED
      BY <2>2 DEF Buffered
  <1>12. BuffersSorted'
    <2> SUFFICES ASSUME NEW v \in Warps
                 PROVE  /\ \A s \in Elements(ibuffers'[v]) : s.wid = v
                        /\ \A a, b \in 1..Len(ibuffers'[v]) : a < b => ibuffers'[v][a].n < ibuffers'[v][b].n
      BY DEF BuffersSorted
    <2>1. CASE v # w
      BY <1>8, <2>1 DEF OrderInv, BuffersSorted
    <2>2. CASE v = w
      <3>1. /\ \A s \in Elements(q) : s.wid = w
            /\ \A a, b \in 1..Len(q) : a < b => q[a].n < q[b].n
        BY <1>6 DEF OrderInv, BuffersSorted
      <3>2. \A s \in Elements(q) : s.n < t.n
        BY <1>5, <1>6, <3>1 DEF OrderInv, InOrder, Buffered
      <3>3. \A s \in Elements(ibuffers'[v]) : s.wid = v
        BY <1>7, <1>8, <2>2, <3>1
      <3> HIDE DEF q
      <3>4. /\ Len(q) \in Nat /\ Len(Append(q, t)) = Len(q) + 1 /\ Append(q, t)[Len(q) + 1] = t
            /\ \A a \in 1..Len(q) : Append(q, t)[a] = q[a] /\ q[a] \in Elements(q)
        BY <1>6 DEF Elements
      <3>5. ASSUME NEW a \in 1..Len(Append(q, t)), NEW b \in 1..Len(Append(q, t)), a < b
            PROVE  Append(q, t)[a].n < Append(q, t)[b].n
        <4>1. a \in 1..Len(q) /\ (b \in 1..Len(q) \/ b = Len(q) + 1)
          BY <3>4, <3>5
        <4> QED
          BY <3>1, <3>2, <3>4, <3>5, <4>1
      <3> QED
        BY <1>8, <2>2, <3>3, <3>5
    <2> QED
      BY <2>1, <2>2
  <1>13. \A s \in InFront' : s.wid # t.wid
    BY <1>5 DEF OrderInv, FrontAlone
  <1>14. FrontCounted'
    <2>1. FrontWarps' = FrontWarps \ {w} /\ w \in FrontWarps
      BY <1>5, <1>13 DEF FrontWarps
    <2>2. IsFiniteSet(FrontWarps) /\ Cardinality(FrontWarps) \in Nat
      BY <1>2, FrontWarpsFinite
    <2>3. Cardinality(FrontWarps') = Cardinality(FrontWarps) - 1
      BY <2>1, <2>2, FS_RemoveElement
    <2>4. IsFiniteSet(icache) /\ Len(fetchLatch) + Cardinality(icache) + Len(decodeLatch) = Cardinality(FrontWarps)
      BY DEF OrderInv, FrontCounted
    <2>5. Len(fetchLatch) \in Nat /\ Len(decodeLatch) \in Nat /\ Cardinality(icache) \in Nat
      BY <1>2, <2>4, FS_CardinalityType DEF FrontTypeOK
    <2>6. Len(decodeLatch') = Len(decodeLatch) - 1 /\ fetchLatch' = fetchLatch /\ icache' = icache
      BY <1>1, <1>3
    <2>7. Len(fetchLatch') + Cardinality(icache') + Len(decodeLatch') = Cardinality(FrontWarps')
      BY <2>2, <2>3, <2>4, <2>5, <2>6
    <2> QED
      BY <2>4, <2>6, <2>7 DEF FrontCounted
  <1> QED
    BY <1>3, <1>5, <1>9, <1>10, <1>11, <1>12, <1>13, <1>14

LEMMA DecodeOrder ==
    ASSUME OrderInv, Decode
    PROVE  OrderInv' /\ AllTraces' = AllTraces
  <1> DEFINE t == Head(decodeLatch)
  <1>1. /\ t \in Trace /\ t \in InFront
        /\ InFront' = InFront \ {t} /\ FrontTypeOK' /\ FrontApart' /\ FrontCounted'
        /\ Buffered' = Buffered \cup {t} /\ BuffersSorted'
        /\ \A s \in InFront' : s.wid # t.wid
    BY DecodeMoves
  <1>2. /\ suspended' = IF t.instr.stall THEN suspended ELSE suspended \ {t.wid}
        /\ UNCHANGED <<count, back>>
    BY DEF Decode
  <1> HIDE DEF t
  <1>3. Waiting' = Waiting /\ Issued' = Issued /\ BackInv'
    BY <1>2, BehindSame DEF OrderInv
  <1>4. AllTraces' = AllTraces
    BY <1>1, <1>3 DEF AllTraces
  <1>5. Numbered'
    BY <1>2, <1>4 DEF OrderInv, Numbered
  <1>6. FrontAlone'
    BY <1>1, <1>2 DEF OrderInv, FrontAlone
  <1>7. InOrder'
    BY <1>1, <1>3 DEF OrderInv, InOrder
  <1>8. StallsHold'
    <2> SUFFICES ASSUME NEW s \in InFront' \cup Buffered' \cup Waiting', s.instr.stall
                 PROVE  s.wid \in suspended' /\ s.n = count'[s.wid]
      BY DEF StallsHold
    <2>1. s \in InFront \cup Buffered \cup Waiting
      BY <1>1, <1>3
    <2>2. s.wid \in suspended /\ s.n = count[s.wid]
      BY <2>1 DEF OrderInv, StallsHold
    <2>3. CASE t.instr.stall
      BY <1>2, <2>2, <2>3
    <2>4. CASE ~t.instr.stall
      <3>1. ASSUME s.wid = t.wid PROVE FALSE
        <4>1. s \in Buffered \cup Issued
          BY <1>1, <1>3, <2>4, <3>1 DEF Issued
        <4>2. s.n < t.n /\ t.n <= count[t.wid] /\ t.n \in Nat
          BY <1>1, <3>1, <4>1, TraceFacts DEF OrderInv, InOrder, Numbered, AllTraces
        <4>3. count[t.wid] \in Nat
          BY <1>1, TraceFacts, PipelineAssumption DEF OrderInv, FrontTypeOK
        <4> QED
          BY <2>2, <3>1, <4>2, <4>3
      <3> QED
        BY <1>2, <2>2, <2>4, <3>1
    <2> QED
      BY <2>3, <2>4
  <1> QED
    BY <1>1, <1>3, <1>4, <1>5, <1>6, <1>7, <1>8 DEF OrderInv

LEMMA SmallestNat ==
    ASSUME NEW T, T \subseteq Nat, T # {}
    PROVE  \E n \in T : \A m \in T : n <= m
  <1>1. IsWellFoundedOn(OpToRel(<, Nat), Nat)
    BY NatLessThanWellFounded
  <1>2. PICK n \in T : \A m \in T : ~(<<m, n>> \in OpToRel(<, Nat))
    BY <1>1, WFMin
  <1>3. \A m \in T : ~(m < n)
    BY <1>2 DEF OpToRel
  <1>4. \A m \in T : n <= m
    BY <1>3
  <1> QED
    BY <1>4

(* Schedule brings the next trace of a warp that has none in the front.    *)
LEMMA ScheduleMoves ==
    ASSUME OrderInv, Schedule
    PROVE  \E w \in Warps, i \in Instrs :
              LET t == [wid |-> w, n |-> count[w] + 1, instr |-> i]
              IN  /\ t \in Trace /\ w \notin suspended
                  /\ count' = [count EXCEPT ![w] = count[w] + 1]
                  /\ suspended' = suspended \cup {w}
                  /\ fetchLatch' = Append(fetchLatch, t)
                  /\ UNCHANGED <<icache, decodeLatch, ibuffers, inUse, back>>
  <1> DEFINE w == CHOOSE v \in Ready : \A x \in Ready : v <= x
  <1>1. w \in Ready
    <2>1. Ready # {} /\ Ready \subseteq Nat
      BY PipelineAssumption DEF Schedule, Ready, Warps
    <2>2. \E v \in Ready : \A x \in Ready : v <= x
      BY <2>1, SmallestNat
    <2> QED
      BY <2>2
  <1>2. PICK i \in Instrs :
           LET t == [wid |-> w, n |-> count[w] + 1, instr |-> i]
           IN  /\ count' = [count EXCEPT ![w] = count[w] + 1]
               /\ suspended' = SuspendWarp(t)
               /\ fetchLatch' = Append(fetchLatch, t)
    BY DEF Schedule
  <1>3. UNCHANGED <<icache, decodeLatch, ibuffers, inUse, back>>
    BY DEF Schedule
  <1> HIDE DEF w
  <1>4. w \in Warps /\ w \notin suspended /\ count[w] < MaxInstrs /\ count[w] \in 0..MaxInstrs
    BY <1>1 DEF Ready, OrderInv, FrontTypeOK
  <1>5. count[w] + 1 \in 1..MaxInstrs
    BY <1>4, PipelineAssumption
  <1> DEFINE t == [wid |-> w, n |-> count[w] + 1, instr |-> i]
  <1>6. t \in Trace
    BY <1>4, <1>5 DEF Trace
  <1>7. suspended' = suspended \cup {w}
    BY <1>2 DEF SuspendWarp
  <1> QED
    BY <1>2, <1>3, <1>4, <1>6, <1>7

LEMMA ScheduleOrder ==
    ASSUME OrderInv, Schedule
    PROVE  /\ OrderInv'
           /\ \E t \in Trace : /\ t \notin AllTraces /\ AllTraces' = AllTraces \cup {t}
                               /\ Issued' = Issued /\ Waiting' = Waiting
  <1>1. PICK w \in Warps, i \in Instrs :
              LET t == [wid |-> w, n |-> count[w] + 1, instr |-> i]
              IN  /\ t \in Trace /\ w \notin suspended
                  /\ count' = [count EXCEPT ![w] = count[w] + 1]
                  /\ suspended' = suspended \cup {w}
                  /\ fetchLatch' = Append(fetchLatch, t)
                  /\ UNCHANGED <<icache, decodeLatch, ibuffers, inUse, back>>
    BY ScheduleMoves
  <1> DEFINE t == [wid |-> w, n |-> count[w] + 1, instr |-> i]
  <1>2. t.wid = w /\ t.n = count[w] + 1 /\ t \in Trace
    BY <1>1
  <1>3. /\ w \notin suspended /\ suspended' = suspended \cup {w}
        /\ count' = [count EXCEPT ![w] = count[w] + 1]
        /\ fetchLatch' = Append(fetchLatch, t)
        /\ UNCHANGED <<icache, decodeLatch, ibuffers, back>>
    BY <1>1
  <1> HIDE DEF t
  <1>4. FrontTypeOK /\ fetchLatch \in Seq(Trace) /\ count \in [Warps -> 0..MaxInstrs] /\ count[w] \in Nat
    BY PipelineAssumption DEF OrderInv, FrontTypeOK
  <1>5. \A s \in InFront : s.wid # w
    BY <1>3 DEF OrderInv, FrontAlone
  <1>6. \A s \in AllTraces : s.n \in Nat /\ (s.wid = w => s.n < t.n)
    <2>1. \A s \in AllTraces : s \in Trace /\ s.n \in Nat /\ s.n <= count[s.wid]
      <3>1. \A s \in AllTraces : s \in Trace
        <4>1. Issued \subseteq Trace
          BY IssuedTraces
        <4> QED
          BY <1>4, <4>1, FrontTraces DEF AllTraces
      <3> QED
        BY <3>1, TraceFacts DEF OrderInv, Numbered
    <2> QED
      BY <1>2, <1>4, <2>1
  <1>7. t \notin AllTraces
    BY <1>2, <1>4, <1>6
  <1>8. /\ Append(fetchLatch, t) \in Seq(Trace) /\ Len(Append(fetchLatch, t)) = Len(fetchLatch) + 1
        /\ Elements(Append(fetchLatch, t)) = Elements(fetchLatch) \cup {t}
        /\ t \notin Elements(fetchLatch) => NoDup(Append(fetchLatch, t))
    BY <1>2, <1>4, QueueAppend DEF OrderInv, FrontApart
  <1>9. Fetching' = Fetching \cup {t} /\ Decoding' = Decoding /\ InFront' = InFront \cup {t}
    BY <1>3, <1>8 DEF Fetching, Decoding, InFront
  <1>10. Buffered' = Buffered /\ Waiting' = Waiting /\ Issued' = Issued /\ BackInv' /\ BuffersSorted'
    BY <1>3, BehindSame DEF Buffered, OrderInv, BuffersSorted
  <1>11. AllTraces' = AllTraces \cup {t}
    BY <1>9, <1>10 DEF AllTraces
  <1>12. FrontTypeOK'
    <2>1. count[w] + 1 \in 0..MaxInstrs
      BY <1>2, <1>4, PipelineAssumption DEF Trace
    <2> QED
      BY <1>3, <1>4, <1>8, <2>1 DEF FrontTypeOK
  <1>13. FrontApart'
    <2>1. t \notin Fetching /\ t \notin icache /\ t \notin Decoding
      BY <1>7 DEF AllTraces, InFront, Fetching, Decoding
    <2> QED
      BY <1>3, <1>8, <1>9, <2>1 DEF OrderInv, FrontApart, Fetching
  <1>14. Numbered'
    <2>1. \A s \in AllTraces' : s.n <= count'[s.wid]
      <3> TAKE s \in AllTraces'
      <3>1. CASE s = t
        BY <1>2, <1>3, <1>4, <3>1
      <3>2. CASE s # t
        <4>1. s \in AllTraces /\ s.n <= count[s.wid]
          BY <1>11, <3>2 DEF OrderInv, Numbered
        <4>2. CASE s.wid = w
          BY <1>2, <1>3, <1>4, <1>6, <4>1, <4>2
        <4>3. CASE s.wid # w
          BY <1>3, <1>4, <4>1, <4>3
        <4> QED
          BY <4>2, <4>3
      <3> QED
        BY <3>1, <3>2
    <2>2. \A r, s \in AllTraces' : r.wid = s.wid /\ r.n = s.n => r = s
      BY <1>2, <1>4, <1>6, <1>11 DEF OrderInv, Numbered
    <2> QED
      BY <2>1, <2>2 DEF Numbered
  <1>15. FrontAlone'
    BY <1>2, <1>3, <1>5, <1>9 DEF OrderInv, FrontAlone
  <1>16. InOrder'
    BY <1>2, <1>6, <1>9, <1>10 DEF OrderInv, InOrder, AllTraces
  <1>17. StallsHold'
    <2> SUFFICES ASSUME NEW s \in InFront' \cup Buffered' \cup Waiting', s.instr.stall
                 PROVE  s.wid \in suspended' /\ s.n = count'[s.wid]
      BY DEF StallsHold
    <2>1. CASE s = t
      BY <1>2, <1>3, <1>4, <2>1
    <2>2. CASE s # t
      <3>1. s \in InFront \cup Buffered \cup Waiting
        BY <1>9, <1>10, <2>2
      <3>2. s.wid \in suspended /\ s.n = count[s.wid]
        BY <3>1 DEF OrderInv, StallsHold
      <3> QED
        BY <1>3, <1>4, <3>2
    <2> QED
      BY <2>1, <2>2
  <1>18. FrontCounted'
    <2>1. FrontWarps' = FrontWarps \cup {w} /\ w \notin FrontWarps
      BY <1>2, <1>5, <1>9 DEF FrontWarps
    <2>2. IsFiniteSet(FrontWarps) /\ Cardinality(FrontWarps) \in Nat
      BY <1>4, FrontWarpsFinite
    <2>3. Cardinality(FrontWarps') = Cardinality(FrontWarps) + 1
      BY <2>1, <2>2, FS_AddElement
    <2>4. IsFiniteSet(icache) /\ Len(fetchLatch) + Cardinality(icache) + Len(decodeLatch) = Cardinality(FrontWarps)
      BY DEF OrderInv, FrontCounted
    <2>5. Len(fetchLatch) \in Nat /\ Len(decodeLatch) \in Nat /\ Cardinality(icache) \in Nat
      BY <1>4, <2>4, FS_CardinalityType DEF FrontTypeOK
    <2>6. Len(fetchLatch') = Len(fetchLatch) + 1 /\ decodeLatch' = decodeLatch /\ icache' = icache
      BY <1>3, <1>8
    <2>7. Len(fetchLatch') + Cardinality(icache') + Len(decodeLatch') = Cardinality(FrontWarps')
      BY <2>2, <2>3, <2>4, <2>5, <2>6
    <2> QED
      BY <2>4, <2>6, <2>7 DEF FrontCounted
  <1>19. OrderInv'
    BY <1>10, <1>12, <1>13, <1>14, <1>15, <1>16, <1>17, <1>18 DEF OrderInv
  <1> QED
    BY <1>2, <1>7, <1>10, <1>11, <1>19

LEMMA OrderNext ==
    ASSUME OrderInv, [Next]_vars
    PROVE  OrderInv'
  <1>1. CASE Schedule
    BY <1>1, ScheduleOrder
  <1>2. CASE FetchRequest
    BY <1>2, FetchRequestOrder
  <1>3. CASE \E t \in icache : FetchResponse(t)
    BY <1>3, FetchResponseOrder
  <1>4. CASE Decode
    BY <1>4, DecodeOrder
  <1>5. CASE Issue
    BY <1>5, IssueOrder
  <1>6. CASE \E t \in collecting : Collect(t)
    BY <1>6, CollectOrder
  <1>7. CASE \E i \in Slots : Dispatch(i)
    BY <1>7, DispatchOrder
  <1>8. CASE \E u \in Units, i \in Slots : Dequeue(u, i) \/ Execute(u, i)
    BY <1>8, DequeueOrder, ExecuteOrder
  <1>9. CASE \E p \in units : Commit(p)
    BY <1>9, CommitOrder
  <1>10. CASE Done \/ UNCHANGED vars
    BY <1>10, StutterOrder DEF Done
  <1> QED
    BY <1>1, <1>2, <1>3, <1>4, <1>5, <1>6, <1>7, <1>8, <1>9, <1>10 DEF Next

LEMMA OrderImplies ==
    ASSUME OrderInv
    PROVE  FetchedInOrder
  <1>1. Cardinality(FrontWarps) \in Nat /\ Cardinality(FrontWarps) <= NumWarps
    BY FrontWarpsFinite DEF OrderInv
  <1>2. OneFetchPerWarp
    BY <1>1 DEF OrderInv, FrontAlone, FrontCounted, OneFetchPerWarp
  <1>3. IssueInOrder
    BY DEF OrderInv, InOrder, IssueInOrder
  <1> QED
    BY <1>2, <1>3 DEF FetchedInOrder

----------------------------------------------------------------------------
(* ScoreInv, action by action.                                             *)
LEMMA PacketFacts ==
    ASSUME BackInv, NEW p \in units
    PROVE  p \in Packet /\ p.trace \in Trace /\ p.pid \in Nat /\ p.eop \in BOOLEAN /\ p.trace \in Issued
  BY DEF BackInv, BackTypeOK, Packet, Issued

LEMMA PacketsSame ==
    ASSUME ScoreInv, UNCHANGED <<inputs, sent, units>>, Waiting' = Waiting
    PROVE  PacketsSent' /\ LastStays'
  BY DEF ScoreInv, PacketsSent, LastStays

LEMMA RegistersSame ==
    ASSUME ScoreInv, Issued' = Issued, inUse' = inUse
    PROVE  WritersAlone' /\ RegistersTracked'
  BY DEF ScoreInv, WritersAlone, RegistersTracked

LEMMA PendingSame ==
    ASSUME ScoreInv, AllTraces' = AllTraces, pending' = pending
    PROVE  PendingInv'
  BY DEF ScoreInv, PendingInv

LEMMA ScoreInit ==
    ASSUME Init
    PROVE  ScoreInv
  <1>1. OrderInv
    BY OrderInit
  <1>2. Issued = {} /\ AllTraces = {}
    <2>1. \A w \in Warps : Elements(ibuffers[w]) = {}
      BY EmptyQueue DEF Init
    <2>2. \A i \in Slots : Elements(operands[i]) = {}
      BY EmptyQueue DEF Init
    <2>3. \A u \in Units, i \in Slots : Elements(queues[u][i]) = {} /\ Elements(inputs[u][i]) = {}
      BY EmptyQueue DEF Init
    <2>4. InFront = {} /\ Buffered = {} /\ Operands = {} /\ Queued = {} /\ AtUnits = {}
      BY EmptyQueue, <2>1, <2>2, <2>3 DEF Init, InFront, Buffered, Operands, Queued, AtUnits
    <2> QED
      BY <2>4 DEF Init, Waiting, Issued, AllTraces
  <1>3. PacketsSent /\ LastStays
    BY DEF Init, PacketsSent, LastStays
  <1>4. WritersAlone /\ RegistersTracked
    BY <1>2 DEF WritersAlone, RegistersTracked
  <1>5. PendingInv
    BY <1>2, FS_EmptySet DEF Init, PendingInv
  <1> QED
    BY <1>1, <1>3, <1>4, <1>5 DEF ScoreInv

LEMMA ScheduleScore ==
    ASSUME ScoreInv, Schedule
    PROVE  ScoreInv'
  <1>1. OrderInv
    BY DEF ScoreInv
  <1>2. OrderInv'
    BY <1>1, ScheduleOrder
  <1>3. PICK t \in Trace : /\ t \notin AllTraces /\ AllTraces' = AllTraces \cup {t}
                           /\ Issued' = Issued /\ Waiting' = Waiting
    BY <1>1, ScheduleOrder
  <1>4. UNCHANGED <<inputs, sent, units, inUse>> /\ pending' = pending + 1
    BY DEF Schedule, back
  <1>5. PendingInv'
    <2>1. IsFiniteSet(AllTraces) /\ pending = Cardinality(AllTraces)
      BY DEF ScoreInv, PendingInv
    <2>2. IsFiniteSet(AllTraces') /\ Cardinality(AllTraces') = Cardinality(AllTraces) + 1
      BY <1>3, <2>1, FS_AddElement
    <2> QED
      BY <1>4, <2>1, <2>2 DEF PendingInv
  <1> QED
    BY <1>2, <1>3, <1>4, <1>5, PacketsSame, RegistersSame DEF ScoreInv

LEMMA FrontScore ==
    ASSUME ScoreInv, FetchRequest \/ (\E t \in icache : FetchResponse(t)) \/ Decode
    PROVE  ScoreInv'
  <1>1. OrderInv
    BY DEF ScoreInv
  <1>2. /\ OrderInv' /\ AllTraces' = AllTraces
        /\ UNCHANGED <<inUse, back, pending>>
    <2>1. CASE FetchRequest
      <3>1. OrderInv' /\ InFront' = InFront /\ UNCHANGED <<ibuffers, inUse, back, pending>>
        BY <1>1, <2>1, FetchRequestOrder DEF FetchRequest
      <3>2. Buffered' = Buffered /\ Issued' = Issued
        BY <3>1, BehindSame DEF Buffered
      <3> QED
        BY <3>1, <3>2 DEF AllTraces
    <2>2. CASE \E t \in icache : FetchResponse(t)
      <3>1. OrderInv' /\ InFront' = InFront /\ UNCHANGED <<ibuffers, inUse, back, pending>>
        BY <1>1, <2>2, FetchResponseOrder DEF FetchResponse
      <3>2. Buffered' = Buffered /\ Issued' = Issued
        BY <3>1, BehindSame DEF Buffered
      <3> QED
        BY <3>1, <3>2 DEF AllTraces
    <2>3. CASE Decode
      BY <1>1, <2>3, DecodeOrder DEF Decode
    <2> QED
      BY <2>1, <2>2, <2>3
  <1>3. Waiting' = Waiting /\ Issued' = Issued
    BY <1>2, BehindSame
  <1>4. UNCHANGED <<inputs, sent, units>>
    BY <1>2 DEF back
  <1> QED
    BY <1>2, <1>3, <1>4, PacketsSame, RegistersSame, PendingSame DEF ScoreInv

(* Collect and Dispatch do not touch what ScoreInv adds to OrderInv.       *)
LEMMA CollectScore ==
    ASSUME ScoreInv, (\E t \in collecting : Collect(t)) \/ (\E i \in Slots : Dispatch(i))
    PROVE  ScoreInv'
  <1>1. OrderInv /\ BackInv
    BY DEF ScoreInv, OrderInv
  <1>2. /\ OrderInv' /\ Waiting' = Waiting
        /\ UNCHANGED <<front, ibuffers, inUse, inputs, sent, units, pending>>
    <2>1. CASE \E t \in collecting : Collect(t)
      <3>1. PICK t \in collecting : Collect(t)
        BY <2>1
      <3>2. OrderInv'
        BY <1>1, <3>1, CollectOrder
      <3>3. Waiting' = Waiting
        BY <1>1, <3>1, CollectMoves
      <3>4. UNCHANGED <<front, ibuffers, inUse, inputs, sent, units, pending>>
        BY <3>1 DEF Collect
      <3> QED
        BY <3>2, <3>3, <3>4
    <2>2. CASE \E i \in Slots : Dispatch(i)
      <3>1. PICK i \in Slots : Dispatch(i)
        BY <2>2
      <3>2. OrderInv'
        BY <1>1, <3>1, DispatchOrder
      <3>3. Waiting' = Waiting
        BY <1>1, <3>1, DispatchMoves
      <3>4. UNCHANGED <<front, ibuffers, inUse, inputs, sent, units, pending>>
        BY <3>1 DEF Dispatch
      <3> QED
        BY <3>2, <3>3, <3>4
    <2> QED
      BY <2>1, <2>2
  <1>3. UNCHANGED <<front, ibuffers, inUse, inputs, sent, units, pending>>
    BY <1>2
  <1>4. Issued' = Issued /\ InFront' = InFront /\ Buffered' = Buffered
    BY <1>2, <1>3 DEF Issued, InFront, Buffered, front
  <1>5. AllTraces' = AllTraces
    BY <1>4 DEF AllTraces
  <1> QED
    BY <1>2, <1>3, <1>4, <1>5, PacketsSame, RegistersSame, PendingSame DEF ScoreInv

LEMMA IssueScore ==
    ASSUME ScoreInv, Issue
    PROVE  ScoreInv'
  <1>1. OrderInv
    BY DEF ScoreInv
  <1>2. OrderInv'
    BY <1>1, IssueOrder
  <1>3. /\ Heads \subseteq Buffered /\ Heads \subseteq Trace /\ Buffered' \cup Heads = Buffered
        /\ \A s, t \in Heads : s.wid = t.wid => s = t
        /\ \A t \in Heads : ~InUse(t)
        /\ Heads \cap Issued = {}
        /\ Waiting' = Waiting \cup Heads /\ Issued' = Issued \cup Heads
        /\ inUse' = inUse \cup UNION {{<<t.wid, r>> : r \in t.instr.dst} : t \in Heads}
    BY <1>1, IssueMoves
  <1>4. UNCHANGED <<front, inputs, sent, units, pending>>
    BY DEF Issue
  <1>5. PendingInv'
    <2>1. InFront' = InFront
      BY <1>4 DEF front, InFront
    <2>2. AllTraces' = AllTraces
      BY <1>3, <2>1 DEF AllTraces
    <2> QED
      BY <1>4, <2>2, PendingSame
  <1>6. PacketsSent' /\ LastStays'
    <2>1. \A p \in units : p.trace \in Issued
      BY <1>1, PacketFacts DEF OrderInv
    <2>2. \A p \in units : p.trace \in Waiting' <=> p.trace \in Waiting
      BY <1>3, <2>1
    <2> QED
      BY <1>4, <2>2 DEF ScoreInv, PacketsSent, LastStays
  <1>7. WritersAlone'
    <2> SUFFICES ASSUME NEW s \in Issued', NEW t \in Issued', s.wid = t.wid, s.n < t.n
                 PROVE  s.instr.dst \cap (t.instr.dst \cup t.instr.src) = {}
      BY DEF WritersAlone
    <2>1. CASE s \in Issued /\ t \in Issued
      BY <2>1 DEF ScoreInv, WritersAlone
    <2>2. CASE s \in Issued /\ t \in Heads
      <3>1. \A r \in s.instr.dst : <<t.wid, r>> \in inUse
        BY <2>2 DEF ScoreInv, RegistersTracked
      <3>2. \A r \in t.instr.dst \cup t.instr.src : <<t.wid, r>> \notin inUse
        BY <1>3, <2>2 DEF InUse
      <3> QED
        BY <3>1, <3>2
    <2>3. CASE s \in Heads
      <3>1. s.n \in Nat
        BY <1>3, <2>3, TraceFacts
      <3>2. t \notin Heads
        BY <1>3, <2>3, <3>1
      <3>3. t.n < s.n /\ t \in Issued
        BY <1>1, <1>3, <2>3, <3>2 DEF OrderInv, InOrder
      <3>4. t.n \in Nat
        <4>1. t \in Trace
          BY <1>1, <3>3, IssuedTraces
        <4> QED
          BY <4>1, TraceFacts
      <3> QED
        BY <3>1, <3>3, <3>4
    <2> QED
      BY <1>3, <2>1, <2>2, <2>3
  <1>8. RegistersTracked'
    <2> SUFFICES ASSUME NEW t \in Issued', NEW r \in t.instr.dst
                 PROVE  <<t.wid, r>> \in inUse'
      BY DEF RegistersTracked
    <2>1. CASE t \in Issued
      BY <1>3, <2>1 DEF ScoreInv, RegistersTracked
    <2>2. CASE t \in Heads
      BY <1>3, <2>2
    <2> QED
      BY <1>3, <2>1, <2>2
  <1> QED
    BY <1>2, <1>5, <1>6, <1>7, <1>8 DEF ScoreInv

LEMMA DequeueScore ==
    ASSUME ScoreInv, NEW u \in Units, NEW i \in Slots, Dequeue(u, i)
    PROVE  ScoreInv'
  <1> DEFINE t == Head(queues[u][i])
  <1>1. OrderInv /\ BackInv
    BY DEF ScoreInv, OrderInv
  <1>2. /\ t \in Trace /\ Replaced(inputs', inputs, u, i, Append(inputs[u][i], t))
        /\ OrderInv' /\ Waiting' = Waiting
    BY <1>1, DequeueOrder, DequeueMoves
  <1>3. UNCHANGED <<front, ibuffers, inUse, sent, units, pending>>
    BY DEF Dequeue
  <1> HIDE DEF t
  <1>4. Issued' = Issued /\ InFront' = InFront /\ Buffered' = Buffered
    BY <1>2, <1>3 DEF Issued, InFront, Buffered, front
  <1>5. AllTraces' = AllTraces
    BY <1>4 DEF AllTraces
  <1>6. inputs[u][i] \in Seq(Trace) /\ t.instr.packets \in Nat \ {0}
    BY <1>1, <1>2, TraceFacts DEF BackInv, BackTypeOK
  <1>7. /\ inputs'[u][i] # <<>>
        /\ inputs[u][i] = <<>> => Head(inputs'[u][i]) = t
        /\ inputs[u][i] # <<>> => Head(inputs'[u][i]) = Head(inputs[u][i])
    <2>1. inputs'[u][i] = Append(inputs[u][i], t)
      BY <1>2 DEF Replaced
    <2> QED
      BY <1>2, <1>6, <2>1, QueueAppend
  <1>8. \A v \in Units, k \in Slots : (v # u \/ k # i) => inputs'[v][k] = inputs[v][k]
    BY <1>2 DEF Replaced
  <1>9. PacketsSent' /\ LastStays'
    <2>1. ASSUME NEW v \in Units, NEW k \in Slots
          PROVE  IF inputs'[v][k] = <<>> THEN sent'[v][k] = 0
                                         ELSE sent'[v][k] < Head(inputs'[v][k]).instr.packets
      <3>1. IF inputs[v][k] = <<>> THEN sent[v][k] = 0 ELSE sent[v][k] < Head(inputs[v][k]).instr.packets
        BY DEF ScoreInv, PacketsSent
      <3>2. CASE v = u /\ k = i
        BY <1>3, <1>6, <1>7, <3>1, <3>2
      <3> QED
        BY <1>3, <1>8, <3>1, <3>2
    <2>2. ASSUME NEW p \in units, p.trace \in Waiting,
                 NEW v \in Units, NEW k \in Slots, v = p.trace.instr.unit, k = SlotOf(p.trace.wid)
          PROVE  inputs'[v][k] # <<>> /\ p.trace = Head(inputs'[v][k]) /\ p.pid <= sent[v][k]
      <3>1. inputs[v][k] # <<>> /\ p.trace = Head(inputs[v][k]) /\ p.pid <= sent[v][k]
        BY <2>2 DEF ScoreInv, PacketsSent
      <3> QED
        BY <1>7, <1>8, <3>1
    <2>3. \A p \in units : p.trace.instr.unit \in Units /\ SlotOf(p.trace.wid) \in Slots
      BY <1>1, PacketFacts, TraceFacts
    <2>4. \A p \in units : /\ p.pid \in 1..p.trace.instr.packets
                            /\ p.eop = (p.pid = p.trace.instr.packets)
      BY DEF ScoreInv, PacketsSent
    <2>5. PacketsSent'
      BY <1>2, <1>3, <2>1, <2>2, <2>3, <2>4 DEF PacketsSent
    <2> QED
      BY <1>2, <1>3, <2>5 DEF ScoreInv, LastStays
  <1> QED
    BY <1>2, <1>3, <1>4, <1>5, <1>9, RegistersSame, PendingSame DEF ScoreInv

LEMMA ExecuteScore ==
    ASSUME ScoreInv, NEW u \in Units, NEW i \in Slots, Execute(u, i)
    PROVE  ScoreInv'
  <1> DEFINE t == Head(inputs[u][i])
             k == sent[u][i] + 1
             p == [trace |-> t, pid |-> k, eop |-> Eop(t, k)]
  <1>1. OrderInv /\ BackInv
    BY DEF ScoreInv, OrderInv
  <1>2. /\ t \in Trace /\ t \in Waiting /\ t.instr.unit = u /\ SlotOf(t.wid) = i
        /\ Issued' = Issued
        /\ IF k = t.instr.packets
           THEN Waiting' = Waiting \ {t} /\ Replaced(inputs', inputs, u, i, Tail(inputs[u][i]))
           ELSE Waiting' = Waiting /\ inputs' = inputs
    BY <1>1, ExecuteMoves
  <1>3. OrderInv'
    BY <1>1, ExecuteOrder
  <1>4. /\ inputs[u][i] # <<>>
        /\ units' = units \cup {p}
        /\ sent' = [sent EXCEPT ![u][i] = IF k = t.instr.packets THEN 0 ELSE k]
        /\ UNCHANGED <<fetchLatch, icache, decodeLatch, ibuffers, inUse, pending>>
    BY DEF Execute
  <1>5. /\ p.trace = t /\ p.pid = k /\ p.eop = (k = t.instr.packets)
    BY DEF Eop
  <1>6. /\ sent \in [Units -> [Slots -> Nat]] /\ sent[u][i] \in Nat
        /\ k \in Nat \ {0} /\ k <= t.instr.packets /\ t.instr.packets \in Nat
    <2>1. sent \in [Units -> [Slots -> Nat]] /\ sent[u][i] \in Nat
      BY <1>1 DEF BackInv, BackTypeOK
    <2>2. sent[u][i] < t.instr.packets /\ t.instr.packets \in Nat
      BY <1>2, <1>4, TraceFacts DEF ScoreInv, PacketsSent
    <2> QED
      BY <2>1, <2>2
  <1>7. /\ sent'[u][i] = IF k = t.instr.packets THEN 0 ELSE k
        /\ \A v \in Units, j \in Slots : (v # u \/ j # i) => sent'[v][j] = sent[v][j]
    BY <1>4, <1>6
  <1>8. /\ inputs \in Family
        /\ inputs'[u][i] = IF k = t.instr.packets THEN Tail(inputs[u][i]) ELSE inputs[u][i]
        /\ \A v \in Units, j \in Slots : (v # u \/ j # i) => inputs'[v][j] = inputs[v][j]
    BY <1>1, <1>2, BackFamilies DEF Replaced, BackInv
  <1> HIDE DEF t, k, p
  <1>9. AllTraces' = AllTraces
    <2>1. InFront' = InFront /\ Buffered' = Buffered
      BY <1>4 DEF InFront, Buffered
    <2> QED
      BY <1>2, <2>1 DEF AllTraces
  <1>10. \A q \in units' : /\ q.pid \in 1..q.trace.instr.packets
                            /\ q.eop = (q.pid = q.trace.instr.packets)
    <2>1. p.pid \in 1..p.trace.instr.packets /\ p.eop = (p.pid = p.trace.instr.packets)
      BY <1>5, <1>6
    <2> QED
      BY <1>4, <2>1 DEF ScoreInv, PacketsSent
  <1>11. ASSUME NEW v \in Units, NEW j \in Slots
         PROVE  IF inputs'[v][j] = <<>> THEN sent'[v][j] = 0
                                        ELSE sent'[v][j] < Head(inputs'[v][j]).instr.packets
    <2>1. IF inputs[v][j] = <<>> THEN sent[v][j] = 0 ELSE sent[v][j] < Head(inputs[v][j]).instr.packets
      BY DEF ScoreInv, PacketsSent
    <2>2. CASE v # u \/ j # i
      BY <1>7, <1>8, <2>1, <2>2
    <2>3. CASE v = u /\ j = i /\ k = t.instr.packets
      <3>1. inputs'[u][i] = Tail(inputs[u][i]) /\ inputs[u][i] \in Seq(Trace) /\ sent'[u][i] = 0
        BY <1>7, <1>8, <2>3 DEF Family
      <3>2. inputs'[u][i] \in Seq(Trace)
        BY <1>4, <3>1, QueueTail
      <3>3. inputs'[u][i] # <<>> => Head(inputs'[u][i]) \in Trace
        BY <3>2, QueueTail
      <3>4. inputs'[u][i] # <<>> => 0 < Head(inputs'[u][i]).instr.packets
        BY <3>3, TraceFacts
      <3> QED
        BY <2>3, <3>1, <3>4
    <2>4. CASE v = u /\ j = i /\ k # t.instr.packets
      <3>1. inputs'[u][i] = inputs[u][i] /\ sent'[u][i] = k /\ Head(inputs[u][i]) = t
        BY <1>7, <1>8, <2>4 DEF t
      <3> QED
        BY <1>4, <1>6, <2>4, <3>1
    <2> QED
      BY <2>2, <2>3, <2>4
  <1>12. ASSUME NEW q \in units', q.trace \in Waiting',
                NEW v \in Units, NEW j \in Slots, v = q.trace.instr.unit, j = SlotOf(q.trace.wid)
         PROVE  inputs'[v][j] # <<>> /\ q.trace = Head(inputs'[v][j]) /\ q.pid <= sent'[v][j]
    <2>1. Head(inputs[u][i]) = t
      BY DEF t
    <2>2. CASE q \in units
      <3>1. q.trace \in Waiting
        BY <1>2, <1>12
      <3>2. inputs[v][j] # <<>> /\ q.trace = Head(inputs[v][j]) /\ q.pid <= sent[v][j] /\ q.pid \in Nat
        BY <1>1, <1>12, <2>2, <3>1, PacketFacts DEF ScoreInv, PacketsSent
      <3>3. CASE v # u \/ j # i
        BY <1>7, <1>8, <3>2, <3>3
      <3>4. CASE v = u /\ j = i
        <4>1. k # t.instr.packets
          BY <1>2, <1>12, <2>1, <3>2, <3>4
        <4>2. inputs'[u][i] = inputs[u][i] /\ sent'[u][i] = k
          BY <1>7, <1>8, <4>1
        <4>3. q.pid <= k
          BY <1>6, <3>2, <3>4 DEF k
        <4> QED
          BY SMTT(30), <3>2, <3>4, <4>2, <4>3
      <3> QED
        BY <3>3, <3>4
    <2>3. CASE q = p
      <3>1. q.trace = t /\ q.pid = k /\ v = u /\ j = i
        BY <1>2, <1>5, <1>12, <2>3
      <3>2. k # t.instr.packets
        BY <1>2, <1>12, <3>1
      <3>3. inputs'[u][i] = inputs[u][i] /\ sent'[u][i] = k
        BY <1>7, <1>8, <3>2
      <3> QED
        BY <1>4, <1>6, <2>1, <3>1, <3>3
    <2> QED
      BY <1>4, <2>2, <2>3
  <1>13. PacketsSent'
    <2>1. \A q \in units' : q.trace.instr.unit \in Units /\ SlotOf(q.trace.wid) \in Slots
      <3>1. \A q \in units : q.trace.instr.unit \in Units /\ SlotOf(q.trace.wid) \in Slots
        BY <1>1, PacketFacts, TraceFacts
      <3> QED
        BY <1>2, <1>4, <1>5, <3>1
    <2> QED
      BY <1>10, <1>11, <1>12, <2>1 DEF PacketsSent
  <1>14. LastStays'
    <2> SUFFICES ASSUME NEW q \in units', q.trace \notin Waiting'
                 PROVE  \E z \in units' : z.trace = q.trace /\ z.eop
      BY DEF LastStays
    <2>1. CASE q.trace = t
      <3>1. k = t.instr.packets
        BY <1>2, <2>1
      <3> QED
        BY <1>4, <1>5, <2>1, <3>1
    <2>2. CASE q.trace # t
      <3>1. q \in units /\ q.trace \notin Waiting
        BY <1>2, <1>4, <1>5, <2>2
      <3> QED
        BY <1>4, <3>1 DEF ScoreInv, LastStays
    <2> QED
      BY <2>1, <2>2
  <1> QED
    BY <1>2, <1>3, <1>4, <1>9, <1>13, <1>14, RegistersSame, PendingSame DEF ScoreInv

(* The last packet of a trace is committed alone: the unit either finishes *)
(* the packets in order or gets one only.                                  *)
LEMMA LoneEop ==
    ASSUME SinglePackets, ScoreInv, NEW p \in units, p.eop, Finished(p), NEW q \in units, q.trace = p.trace
    PROVE  q = p
  <1>1. BackInv
    BY DEF ScoreInv, OrderInv
  <1>2. p \in Packet /\ q \in Packet /\ p.pid \in Nat /\ q.pid \in Nat
    BY <1>1, PacketFacts
  <1>3. /\ p.pid \in 1..p.trace.instr.packets /\ p.eop = (p.pid = p.trace.instr.packets)
        /\ q.pid \in 1..p.trace.instr.packets /\ q.eop = (q.pid = p.trace.instr.packets)
    BY DEF ScoreInv, PacketsSent
  <1>4. p.trace \in Trace /\ p.trace.instr \in Instrs /\ p.trace.instr.packets \in Nat
    BY <1>1, PacketFacts, TraceFacts
  <1>5. q.pid = p.pid
    <2>1. CASE p.trace.instr.unit \in OtherUnits
      <3>1. p.trace.instr.packets = 1
        BY <1>4, <2>1 DEF SinglePackets
      <3> QED
        BY <1>2, <1>3, <3>1
    <2>2. CASE \A z \in units : z.trace = p.trace => p.pid <= z.pid
      <3>1. p.pid = p.trace.instr.packets
        BY <1>3
      <3>2. p.pid <= q.pid
        BY <2>2
      <3> QED
        BY <1>2, <1>3, <1>4, <3>1, <3>2
    <2> QED
      BY <2>1, <2>2 DEF Finished
  <1>6. q.eop = p.eop
    BY <1>3, <1>5
  <1>7. /\ p = [trace |-> p.trace, pid |-> p.pid, eop |-> p.eop]
        /\ q = [trace |-> q.trace, pid |-> q.pid, eop |-> q.eop]
    BY <1>2 DEF Packet
  <1> QED
    BY <1>5, <1>6, <1>7

LEMMA CommitScore ==
    ASSUME SinglePackets, ScoreInv, NEW p \in units, Commit(p)
    PROVE  ScoreInv'
  <1> DEFINE t == p.trace
  <1>1. OrderInv /\ BackInv /\ OrderInv'
    BY CommitOrder DEF ScoreInv, OrderInv
  <1>2. /\ Finished(p) /\ units' = units \ {p}
        /\ inUse' = IF p.eop THEN inUse \ {<<t.wid, r>> : r \in t.instr.dst} ELSE inUse
        /\ pending' = IF p.eop THEN pending - 1 ELSE pending
        /\ UNCHANGED <<front, ibuffers, collecting, operands, queues, inputs, sent>>
    BY DEF Commit
  <1>3. Waiting' = Waiting /\ InFront' = InFront /\ Buffered' = Buffered
    <2>1. Waiting' = Waiting
      BY <1>2, BackSame
    <2> QED
      BY <1>2, <2>1 DEF front, InFront, Buffered
  <1>4. p.eop \in BOOLEAN /\ t \in Trace /\ t \in Issued
    BY <1>1, PacketFacts
  <1>5. PacketsSent'
    BY <1>2, <1>3 DEF ScoreInv, PacketsSent
  <1>6. Issued = Waiting \cup InUnits /\ Issued' = Waiting' \cup InUnits' /\ InUnits' \subseteq InUnits
    BY <1>2 DEF Issued, InUnits
  <1>7. CASE p.eop
    <2>1. \A q \in units : q.trace = t => q = p
      BY <1>2, <1>7, LoneEop
    <2>2. t \notin Waiting
      <3>1. SUFFICES ASSUME t \in Waiting PROVE FALSE
        OBVIOUS
      <3> DEFINE u == t.instr.unit
                 i == SlotOf(t.wid)
      <3>2. u \in Units /\ i \in Slots /\ t.instr.packets \in Nat
        BY <1>4, TraceFacts
      <3>3. inputs[u][i] # <<>> /\ t = Head(inputs[u][i]) /\ p.pid <= sent[u][i] /\ p.pid = t.instr.packets
        BY <1>7, <3>1 DEF ScoreInv, PacketsSent
      <3> HIDE DEF u, i
      <3>4. sent[u][i] < t.instr.packets /\ sent[u][i] \in Nat
        BY <1>1, <3>2, <3>3 DEF ScoreInv, PacketsSent, BackInv, BackTypeOK
      <3> QED
        BY <3>2, <3>3, <3>4
    <2>3. t \notin InFront /\ t \notin Buffered
      <3>1. t.n \in Nat /\ ~(t.n < t.n)
        BY <1>4, TraceFacts
      <3> QED
        BY <1>1, <1>4, <3>1 DEF OrderInv, InOrder
    <2>4. Issued' = Issued \ {t}
      <3>1. InUnits' = InUnits \ {t}
        BY <1>2, <2>1 DEF InUnits
      <3> QED
        BY <1>3, <1>6, <2>2, <3>1
    <2>5. AllTraces' = AllTraces \ {t} /\ t \in AllTraces
      BY <1>3, <1>4, <2>3, <2>4 DEF AllTraces
    <2>6. PendingInv'
      <3>1. IsFiniteSet(AllTraces) /\ pending = Cardinality(AllTraces)
        BY DEF ScoreInv, PendingInv
      <3>2. IsFiniteSet(AllTraces') /\ Cardinality(AllTraces') = Cardinality(AllTraces) - 1
        BY <2>5, <3>1, FS_RemoveElement
      <3> QED
        BY <1>2, <1>7, <3>1, <3>2 DEF PendingInv
    <2>7. LastStays'
      BY <1>2, <1>3, <2>1 DEF ScoreInv, LastStays
    <2>8. WritersAlone'
      BY <2>4 DEF ScoreInv, WritersAlone
    <2>9. RegistersTracked'
      <3> SUFFICES ASSUME NEW s \in Issued, s # t, NEW r \in s.instr.dst
                   PROVE  <<s.wid, r>> \in inUse'
        BY <2>4 DEF RegistersTracked
      <3>1. <<s.wid, r>> \in inUse
        BY DEF ScoreInv, RegistersTracked
      <3>2. ASSUME NEW x \in t.instr.dst, <<s.wid, r>> = <<t.wid, x>> PROVE FALSE
        <4>1. s.wid = t.wid /\ r \in t.instr.dst
          BY <3>2
        <4>2. s.n # t.n /\ s.n \in Nat /\ t.n \in Nat
          <5>1. s.n # t.n
            BY <1>1, <1>4, <4>1 DEF OrderInv, Numbered, AllTraces
          <5>2. s \in Trace
            BY <1>1, IssuedTraces
          <5> QED
            BY <1>4, <5>1, <5>2, TraceFacts
        <4>3. CASE s.n < t.n
          BY <1>4, <4>1, <4>3 DEF ScoreInv, WritersAlone
        <4>4. CASE t.n < s.n
          BY <1>4, <4>1, <4>4 DEF ScoreInv, WritersAlone
        <4> QED
          BY <4>2, <4>3, <4>4
      <3> QED
        BY <1>2, <1>7, <3>1, <3>2
    <2> QED
      BY <1>1, <1>5, <2>6, <2>7, <2>8, <2>9 DEF ScoreInv
  <1>8. CASE ~p.eop
    <2>1. t \in Waiting \/ \E z \in units : z.trace = t /\ z.eop /\ z # p
      BY <1>8 DEF ScoreInv, LastStays
    <2>2. Issued' = Issued
      <3>1. t \in Waiting' \cup InUnits'
        BY <1>2, <1>3, <2>1 DEF InUnits
      <3>2. \A q \in units : q.trace \in Waiting' \cup InUnits'
        BY <1>2, <3>1 DEF InUnits
      <3>3. InUnits \subseteq Waiting' \cup InUnits'
        BY <3>2 DEF InUnits
      <3> QED
        BY <1>3, <1>6, <3>3
    <2>3. AllTraces' = AllTraces
      BY <1>3, <2>2 DEF AllTraces
    <2>4. LastStays'
      BY <1>2, <1>3, <1>8 DEF ScoreInv, LastStays
    <2> QED
      BY <1>1, <1>2, <1>5, <1>8, <2>2, <2>3, <2>4, RegistersSame, PendingSame DEF ScoreInv
  <1> QED
    BY <1>4, <1>7, <1>8

LEMMA ScoreNext ==
    ASSUME SinglePackets, ScoreInv, [Next]_vars
    PROVE  ScoreInv'
  <1>1. CASE Schedule
    BY <1>1, ScheduleScore
  <1>2. CASE FetchRequest \/ (\E t \in icache : FetchResponse(t)) \/ Decode
    BY <1>2, FrontScore
  <1>3. CASE Issue
    BY <1>3, IssueScore
  <1>4. CASE (\E t \in collecting : Collect(t)) \/ (\E i \in Slots : Dispatch(i))
    BY <1>4, CollectScore
  <1>5. CASE \E u \in Units, i \in Slots : Dequeue(u, i) \/ Execute(u, i)
    BY <1>5, DequeueScore, ExecuteScore
  <1>6. CASE \E p \in units : Commit(p)
    BY <1>6, CommitScore
  <1>7. CASE UNCHANGED vars
    <2>1. UNCHANGED <<front, ibuffers, inUse, back, pending>>
      BY <1>7 DEF vars
    <2>2. OrderInv'
      BY <1>7, StutterOrder DEF ScoreInv
    <2>3. Waiting' = Waiting /\ Issued' = Issued
      BY <2>1, BehindSame
    <2>4. AllTraces' = AllTraces
      BY <2>1, <2>3 DEF AllTraces, InFront, Buffered, front
    <2> QED
      BY <2>1, <2>2, <2>3, <2>4, PacketsSame, RegistersSame, PendingSame DEF ScoreInv, back
  <1> QED
    BY <1>1, <1>2, <1>3, <1>4, <1>5, <1>6, <1>7 DEF Next, Done

----------------------------------------------------------------------------
(* A warp has at most one trace between schedule and decode: the table     *)
(* pending_icache_ of Core::fetch, with one entry per warp, never asserts. *)
(* Instruction cache responses come back in any order, and still a warp    *)
(* issues in program order: everything past the scoreboard is older than   *)
(* everything in its ibuffer and before it.                                *)
THEOREM ProgramOrderKept == Spec => []FetchedInOrder
  <1>1. Init => OrderInv
    BY OrderInit
  <1>2. OrderInv /\ [Next]_vars => OrderInv'
    BY OrderNext
  <1>3. OrderInv => FetchedInOrder
    BY OrderImplies
  <1> QED
    BY <1>1, <1>2, <1>3, PTL DEF Spec

(* The asserts of Scoreboard::reserve and Scoreboard::release: past the    *)
(* scoreboard no younger instruction of a warp reads or writes a register  *)
(* that an older one of the warp has still to write.                       *)
THEOREM WriterIsAlone == ASSUME SinglePackets PROVE Spec => []WritersAlone
  <1>1. Init => ScoreInv
    BY ScoreInit
  <1>2. ScoreInv /\ [Next]_vars => ScoreInv'
    BY ScoreNext
  <1>3. ScoreInv => WritersAlone
    BY DEF ScoreInv
  <1> QED
    BY <1>1, <1>2, <1>3, PTL DEF Spec

(* A register reserved in Core::issue stays in in_use_regs_ until the last *)
(* packet of its instruction has gone through Core::commit.                *)
THEOREM RegisterHeld == ASSUME SinglePackets PROVE Spec => []RegistersTracked
  <1>1. Init => ScoreInv
    BY ScoreInit
  <1>2. ScoreInv /\ [Next]_vars => ScoreInv'
    BY ScoreNext
  <1>3. ScoreInv => RegistersTracked
    BY DEF ScoreInv
  <1> QED
    BY <1>1, <1>2, <1>3, PTL DEF Spec

(* pending_instrs_, which Core::schedule counts up and Core::commit counts *)
(* down, is the number of traces in the pipeline: Core::running says that  *)
(* a core is idle exactly when nothing is in flight.                       *)
THEOREM PendingIsExact == ASSUME SinglePackets PROVE Spec => []PendingCounts
  <1>1. Init => ScoreInv
    BY ScoreInit
  <1>2. ScoreInv /\ [Next]_vars => ScoreInv'
    BY ScoreNext
  <1>3. ScoreInv => PendingCounts
    BY DEF ScoreInv, PendingInv, PendingCounts, AllTraces
  <1> QED
    BY <1>1, <1>2, <1>3, PTL DEF Spec
=============================================================================
