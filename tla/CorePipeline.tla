---------------------------- MODULE CorePipeline ----------------------------
(***************************************************************************)
(* The stages of a SimX core, from the warp scheduler to commit            *)
(* (src/sim/simx/core.cpp with ibuffer.h, scoreboard.h, operand.h and      *)
(* dispatcher.h).  The emulator has executed an instruction when it enters *)
(* the pipeline: what travels is its trace, and the pipeline decides when  *)
(* the warp may go on and when the registers and the core are free again.  *)
(*                                                                         *)
(* Core::tick runs the stages once each, last stage first.  The ports      *)
(* between them deliver after delays that depend on the instruction (bank  *)
(* conflicts, latencies, cache misses), so that each stage is an action of *)
(* its own here and the ports reorder what the delays can reorder.         *)
(***************************************************************************)
EXTENDS Integers, Sequences, FiniteSets

CONSTANTS
    NumWarps,     \* arch.num_warps()
    IssueWidth,   \* ISSUE_WIDTH
    IbufSize,     \* IBUF_SIZE
    QueueSize,    \* buf_size of the dispatchers
    InOrderUnits, \* units that finish the packets of a trace in order
    OtherUnits,   \* units that do not: loads wait for the data cache
    Instrs,       \* instructions: unit, dst, src (sets of registers), packets, stall
    MaxInstrs     \* bound: instructions a warp runs

Units == InOrderUnits \cup OtherUnits
Warps == 0..(NumWarps - 1)
Slots == 0..(IssueWidth - 1)
PerIssueWarps == NumWarps \div IssueWidth

(* dst is empty if the trace does not write back (wb), packets is the      *)
(* number of groups of NUM_LANES threads with an active one, stall is the  *)
(* flag fetch_stall of instructions that redirect the warp.                *)
ASSUME PipelineAssumption ==
    /\ NumWarps \in Nat \ {0} /\ IssueWidth \in Nat \ {0}
    /\ NumWarps % IssueWidth = 0
    /\ IbufSize \in Nat \ {0} /\ QueueSize \in Nat \ {0}
    /\ MaxInstrs \in Nat
    /\ \A i \in Instrs : /\ i.unit \in Units /\ Cardinality(i.dst) <= 1
                         /\ i.packets \in Nat \ {0} /\ i.stall \in BOOLEAN

SlotOf(w) == w % IssueWidth

Trace == [wid : Warps, n : 1..MaxInstrs, instr : Instrs]
Packet == [trace : Trace, pid : Nat, eop : BOOLEAN]

VARIABLES
    count,      \* count[w]: instructions warp w has run
    suspended,  \* stalled_warps_ of the emulator
    fetchLatch, \* fetch_latch_
    icache,     \* pending_icache_
    decodeLatch,\* decode_latch_
    ibuffers,   \* ibuffers_
    inUse,      \* in_use_regs_ and owners_ of the scoreboard: <<warp, register>>
    turn,       \* ibuffer_idx_ modulo PER_ISSUE_WARPS
    collecting, \* traces in the operand collectors
    operands,   \* operands[i]: Output of the operand collector i
    queues,     \* queues[u][i]: queues_ of the dispatcher of unit u
    inputs,     \* inputs[u][i]: Inputs_ of the dispatcher of unit u
    sent,       \* sent[u][i]: packets sent of the head of inputs[u][i]
    units,      \* packets in the functional units and the commit arbiters
    pending     \* pending_instrs_

front == <<count, suspended, fetchLatch, icache, decodeLatch>>
back == <<collecting, operands, queues, inputs, sent, units>>
vars == <<front, ibuffers, inUse, turn, back, pending>>

Init ==
    /\ count = [w \in Warps |-> 0]
    /\ suspended = {}
    /\ fetchLatch = <<>>
    /\ icache = {}
    /\ decodeLatch = <<>>
    /\ ibuffers = [w \in Warps |-> <<>>]
    /\ inUse = {}
    /\ turn = 0
    /\ collecting = {}
    /\ operands = [i \in Slots |-> <<>>]
    /\ queues = [u \in Units |-> [i \in Slots |-> <<>>]]
    /\ inputs = [u \in Units |-> [i \in Slots |-> <<>>]]
    /\ sent = [u \in Units |-> [i \in Slots |-> 0]]
    /\ units = {}
    /\ pending = 0

----------------------------------------------------------------------------
(* Core::schedule: the first warp that is ready runs one instruction and   *)
(* is suspended until its trace is decoded.                                *)
Ready == {w \in Warps : w \notin suspended /\ count[w] < MaxInstrs}

SuspendWarpOnStall(t) == IF t.instr.stall THEN suspended \cup {t.wid} ELSE suspended
SuspendWarp(t) == suspended \cup {t.wid}

Schedule ==
    /\ Ready # {}
    /\ LET w == CHOOSE v \in Ready : \A x \in Ready : v <= x
       IN  \E i \in Instrs :
             LET t == [wid |-> w, n |-> count[w] + 1, instr |-> i]
             IN  /\ count' = [count EXCEPT ![w] = @ + 1]
                 /\ suspended' = SuspendWarp(t)
                 /\ fetchLatch' = Append(fetchLatch, t)
    /\ pending' = pending + 1
    /\ UNCHANGED <<icache, decodeLatch, ibuffers, inUse, turn, back>>

(* Core::fetch: a request to the instruction cache, and its response.      *)
FetchRequest ==
    /\ fetchLatch # <<>>
    /\ icache' = icache \cup {Head(fetchLatch)}
    /\ fetchLatch' = Tail(fetchLatch)
    /\ UNCHANGED <<count, suspended, decodeLatch, ibuffers, inUse, turn, back, pending>>

FetchResponse(t) ==
    /\ icache' = icache \ {t}
    /\ decodeLatch' = Append(decodeLatch, t)
    /\ UNCHANGED <<count, suspended, fetchLatch, ibuffers, inUse, turn, back, pending>>

(* Core::decode: waits for room in the ibuffer of the trace's warp.        *)
IbufferFullEarly(w) == Len(ibuffers[w]) >= IbufSize - 1
IbufferFull(w) == Len(ibuffers[w]) = IbufSize

Decode ==
    /\ decodeLatch # <<>>
    /\ LET t == Head(decodeLatch)
       IN  /\ ~IbufferFull(t.wid)
           /\ suspended' = IF t.instr.stall THEN suspended ELSE suspended \ {t.wid}
           /\ ibuffers' = [ibuffers EXCEPT ![t.wid] = Append(@, t)]
    /\ decodeLatch' = Tail(decodeLatch)
    /\ UNCHANGED <<count, fetchLatch, icache, inUse, turn, back, pending>>

----------------------------------------------------------------------------
(* Core::issue, second loop: in each slot the first warp in turn whose     *)
(* oldest instruction uses no register in use.                             *)
InUseSourcesOnly(t) == \E r \in t.instr.src : <<t.wid, r>> \in inUse
InUse(t) == \E r \in t.instr.dst \cup t.instr.src : <<t.wid, r>> \in inUse

Issuable(i) == {w \in Warps : SlotOf(w) = i /\ ibuffers[w] # <<>>
                               /\ ~InUse(Head(ibuffers[w]))}

(* how long warp w waits for its turn                                      *)
Distance(w) == ((w \div IssueWidth) + PerIssueWarps - turn) % PerIssueWarps

Picked == {w \in Warps : w \in Issuable(SlotOf(w))
                         /\ \A v \in Issuable(SlotOf(w)) : Distance(w) <= Distance(v)}

Advanced == turn' = (turn + 1) % PerIssueWarps

Issue ==
    /\ ibuffers' = [w \in Warps |-> IF w \in Picked THEN Tail(ibuffers[w]) ELSE ibuffers[w]]
    /\ inUse' = inUse \cup UNION {{<<w, r>> : r \in Head(ibuffers[w]).instr.dst} : w \in Picked}
    /\ collecting' = collecting \cup {Head(ibuffers[w]) : w \in Picked}
    /\ Advanced
    /\ UNCHANGED <<front, operands, queues, inputs, sent, units, pending>>

(* Operand::tick: bank conflicts delay a trace and let others overtake it. *)
Collect(t) ==
    /\ collecting' = collecting \ {t}
    /\ operands' = [operands EXCEPT ![SlotOf(t.wid)] = Append(@, t)]
    /\ UNCHANGED <<front, ibuffers, inUse, turn, queues, inputs, sent, units, pending>>

(* Core::issue, first loop: to the dispatcher of the unit, if it has room. *)
Dispatch(i) ==
    /\ operands[i] # <<>>
    /\ LET t == Head(operands[i])
       IN  /\ Len(queues[t.instr.unit][i]) < QueueSize
           /\ queues' = [queues EXCEPT ![t.instr.unit][i] = Append(@, t)]
    /\ operands' = [operands EXCEPT ![i] = Tail(@)]
    /\ UNCHANGED <<front, ibuffers, inUse, turn, collecting, inputs, sent, units, pending>>

(* Dispatcher::tick, first loop                                            *)
Dequeue(u, i) ==
    /\ queues[u][i] # <<>>
    /\ inputs' = [inputs EXCEPT ![u][i] = Append(@, Head(queues[u][i]))]
    /\ queues' = [queues EXCEPT ![u][i] = Tail(@)]
    /\ UNCHANGED <<front, ibuffers, inUse, turn, collecting, operands, sent, units, pending>>

(* Dispatcher::tick, second loop, and Core::execute: the next packet of    *)
(* the trace goes to the unit; only the last one carries eop and takes the *)
(* trace off the input.  A unit that gets the last packet of a trace that  *)
(* stalled its warp resumes the warp.                                      *)
EopAlways(t, k) == TRUE
Eop(t, k) == k = t.instr.packets

Execute(u, i) ==
    /\ inputs[u][i] # <<>>
    /\ LET t == Head(inputs[u][i])
           k == sent[u][i] + 1
           last == k = t.instr.packets
           p == [trace |-> t, pid |-> k, eop |-> Eop(t, k)]
       IN  /\ units' = units \cup {p}
           /\ inputs' = IF last THEN [inputs EXCEPT ![u][i] = Tail(@)] ELSE inputs
           /\ sent' = [sent EXCEPT ![u][i] = IF last THEN 0 ELSE k]
           /\ suspended' = IF p.eop /\ t.instr.stall THEN suspended \ {t.wid} ELSE suspended
    /\ UNCHANGED <<count, fetchLatch, icache, decodeLatch, ibuffers, inUse, turn,
                   collecting, operands, queues, pending>>

(* Core::commit: the last packet of a trace frees its register.            *)
Finished(p) == \/ p.trace.instr.unit \in OtherUnits
               \/ \A q \in units : q.trace = p.trace => p.pid <= q.pid

Commit(p) ==
    /\ Finished(p)
    /\ units' = units \ {p}
    /\ inUse' = IF p.eop THEN inUse \ {<<p.trace.wid, r>> : r \in p.trace.instr.dst}
                         ELSE inUse
    /\ pending' = IF p.eop THEN pending - 1 ELSE pending
    /\ UNCHANGED <<front, ibuffers, turn, collecting, operands, queues, inputs, sent>>

(* Every warp has run its instructions and the core is idle.               *)
Done == Ready = {} /\ pending = 0 /\ UNCHANGED vars

Next ==
    \/ Schedule
    \/ FetchRequest
    \/ \E t \in icache : FetchResponse(t)
    \/ Decode
    \/ Issue
    \/ \E t \in collecting : Collect(t)
    \/ \E i \in Slots : Dispatch(i)
    \/ \E u \in Units, i \in Slots : Dequeue(u, i) \/ Execute(u, i)
    \/ \E p \in units : Commit(p)
    \/ Done

Spec == Init /\ [][Next]_vars

(* Every stage runs in every cycle, the cache answers and units finish.    *)
Fairness ==
    /\ WF_vars(Schedule) /\ WF_vars(FetchRequest) /\ WF_vars(Decode) /\ WF_vars(Issue)
    /\ \A w \in Warps, n \in 1..MaxInstrs, i \in Instrs :
         LET t == [wid |-> w, n |-> n, instr |-> i]
         IN  /\ WF_vars(t \in icache /\ FetchResponse(t))
             /\ WF_vars(t \in collecting /\ Collect(t))
             /\ \A k \in 1..i.packets :
                  LET p == [trace |-> t, pid |-> k, eop |-> Eop(t, k)]
                  IN  WF_vars(p \in units /\ Commit(p))
    /\ \A i \in Slots : WF_vars(Dispatch(i))
    /\ \A u \in Units, i \in Slots : WF_vars(Dequeue(u, i)) /\ WF_vars(Execute(u, i))

FairSpec == Spec /\ Fairness

----------------------------------------------------------------------------
Elements(s) == {s[k] : k \in 1..Len(s)}
InFront == Elements(fetchLatch) \cup icache \cup Elements(decodeLatch)
Buffered == UNION {Elements(ibuffers[w]) : w \in Warps}
Operands == UNION {Elements(operands[i]) : i \in Slots}
Queued == UNION {Elements(queues[u][i]) : u \in Units, i \in Slots}
AtUnits == UNION {Elements(inputs[u][i]) : u \in Units, i \in Slots}
Waiting == collecting \cup Operands \cup Queued \cup AtUnits
Issued == Waiting \cup {p.trace : p \in units}

(* The type invariant of the stages.                                       *)
TypeOK ==
    /\ count \in [Warps -> 0..MaxInstrs]
    /\ suspended \subseteq Warps
    /\ InFront \cup Buffered \cup Issued \subseteq Trace
    /\ \A w \in Warps : Len(ibuffers[w]) <= IbufSize
    /\ \A p \in units : p.trace \in Trace /\ p.pid \in Nat /\ p.eop \in BOOLEAN
    /\ turn \in 0..(PerIssueWarps - 1)
    /\ pending \in Nat

(* A warp has at most one trace between schedule and decode, so that       *)
(* pending_icache_, which has an entry per warp and asserts that one is    *)
(* free, never overflows and responses in any order keep program order.    *)
OneFetchPerWarp ==
    /\ \A s, t \in InFront : s.wid = t.wid => s = t
    /\ Len(fetchLatch) + Cardinality(icache) + Len(decodeLatch) <= NumWarps

(* A warp issues its instructions in program order.                        *)
IssueInOrder ==
    \A t \in Issued : \A s \in InFront \cup Buffered : s.wid = t.wid => t.n < s.n

(* Together: the reordering of the instruction cache is never visible.     *)
FetchedInOrder == OneFetchPerWarp /\ IssueInOrder

(* Two instructions of a warp that wait for or use the same register are   *)
(* never past the scoreboard together if the first writes it: the asserts  *)
(* on owners_ in reserve and release.                                      *)
WritersAlone ==
    \A s, t \in Issued : s.wid = t.wid /\ s.n < t.n
        => s.instr.dst \cap (t.instr.dst \cup t.instr.src) = {}

(* What the scoreboard is for: a register is in use from issue until all   *)
(* the packets of its instruction have been committed.                     *)
RegistersTracked ==
    \A t \in Issued : \A r \in t.instr.dst : <<t.wid, r>> \in inUse

(* pending_instrs_, which decides whether the core still runs, counts the  *)
(* traces in all the stages.                                               *)
PendingCounts == pending = Cardinality(InFront \cup Buffered \cup Issued)

(* Every instruction of every warp is committed in the end.                *)
AllCommitted == <>(\A w \in Warps : count[w] = MaxInstrs /\ pending = 0)
=============================================================================
