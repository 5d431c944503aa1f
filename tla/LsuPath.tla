------------------------------ MODULE LsuPath ------------------------------
(***************************************************************************)
(* The load/store path of a SimX core, one LSU block of it: the LSU        *)
(* (func_unit.cpp), the local-memory demux and the two adapters            *)
(* (types.cpp), the coalescer (mem_coalescer.cpp) and the local memory     *)
(* (local_mem.cpp), with the data cache as an environment that answers in  *)
(* any order.                                                              *)
(*                                                                         *)
(* A load leaves the LSU as one request with a lane mask.  The demux       *)
(* splits it between local memory and cache, the coalescer splits it into  *)
(* rounds that merge the lanes of a cache line, the adapters split it into *)
(* channels, and the answers come back in pieces that must add up.         *)
(*                                                                         *)
(* All the components tick in every cycle.  A port delivers what is pushed *)
(* into it in the next cycle, so the order of their ticks is irrelevant.   *)
(***************************************************************************)
EXTENDS Integers, Sequences, FiniteSets

CONSTANTS
    NumLanes,   \* LSU_CHANNELS = NUM_LSU_LANES
    NumOuts,    \* DCACHE_CHANNELS
    GlobalLines, \* lines of global memory, all the coalescer sees of an address
    LmemBanks,  \* banks of local memory, all the local memory sees of one
    QueueIn,    \* LSUQ_IN_SIZE: loads an LSU block tracks
    QueueOut,   \* LSUQ_OUT_SIZE: reads the coalescer tracks
    Programs,   \* bound: the sequences of instructions a core issues
    MaxInputs,  \* bound: instructions waiting at the LSU
    MaxRuns     \* bound: runs of the processor

Lanes == 0..(NumLanes - 1)
Outs == 0..(NumOuts - 1)
Ratio == NumLanes \div NumOuts
Group(o) == (o * Ratio)..(o * Ratio + Ratio - 1)

(* An instruction of a warp, with the addresses of its active lanes.       *)
Addresses == UNION {[m -> GlobalLines \cup LmemBanks] : m \in SUBSET Lanes}
Instrs == {x \in [kind : {"load", "store", "fence"}, mask : (SUBSET Lanes) \ {{}},
                  addr : Addresses] : DOMAIN x.addr = x.mask}

LsuAssumption ==
    /\ NumOuts \in Nat \ {0}
    /\ Ratio \in Nat \ {0} /\ NumLanes = NumOuts * Ratio
    /\ GlobalLines \cap LmemBanks = {}
    /\ QueueIn \in Nat \ {0} /\ QueueOut \in Nat \ {0}
    /\ MaxInputs \in Nat /\ MaxRuns \in Nat \ {0}
    /\ Programs \subseteq Seq(Instrs)

VARIABLES
    prog,      \* the instructions issued so far
    inputs,    \* LsuUnit::Inputs: indices of prog
    pending,   \* pending_rd_reqs of the LSU block
    fence,     \* fence_trace while fence_lock, 0 otherwise
    done,      \* instructions pushed to LsuUnit::Outputs
    demuxReq, demuxRsp,  \* LocalMemDemux: ReqIn, RspIn
    coalReq, coalRsp,    \* MemCoalescer::ReqIn; RspOut
    sent,      \* sent_mask_
    coalPend,  \* pending_rd_reqs_ of the coalescer
    dcReq,     \* ReqIn of the data-cache adapter
    dcBusy,    \* dcBusy[o]: reads the cache holds on channel o
    dcOut,     \* dcOut[o]: RspOut of the data-cache adapter
    dcRsp,     \* RspDC of the demux
    lmReq,     \* ReqIn of the local-memory adapter
    lmIn,      \* lmIn[i]: LocalMem::Inputs
    lmOut,     \* lmOut[i]: RspOut of the local-memory adapter
    lmRsp,     \* RspLmem of the demux
    run        \* how often the processor was started

blockVars == <<prog, inputs, pending, fence, done>>
coalVars == <<coalReq, coalRsp, sent, coalPend>>
dcVars == <<dcReq, dcBusy, dcOut, dcRsp>>
lmVars == <<lmReq, lmIn, lmOut, lmRsp>>
lsuVars == <<blockVars, demuxReq, demuxRsp, coalVars, dcVars, lmVars, run>>

----------------------------------------------------------------------------
(* HashTable: tagged entries; an entry with an empty mask is free.         *)
Used(table) == {t \in DOMAIN table : table[t].mask # {}}
Full(table) == Used(table) = DOMAIN table
FreeTag(table) == CHOOSE t \in DOMAIN table \ Used(table) :
                      \A u \in DOMAIN table \ Used(table) : t <= u
FreeEntry == [owner |-> 0, mask |-> {}]
EmptyTable(size) == [t \in 0..(size - 1) |-> FreeEntry]
Allocate(table, owner, mask) ==
    [table EXCEPT ![FreeTag(table)] = [owner |-> owner, mask |-> mask]]
(* mask &= ~answered, and release once nothing remains                     *)
Answered(table, t, lanes) ==
    LET left == table[t].mask \ lanes
    IN  [table EXCEPT ![t] = IF left = {} THEN FreeEntry
                             ELSE [@ EXCEPT !.mask = left]]

MemRequest(write, tag, mask, id) == [write |-> write, tag |-> tag, mask |-> mask, id |-> id]
Response(tag, mask) == [tag |-> tag, mask |-> mask]

Pop(q) == IF q = <<>> THEN q ELSE Tail(q)

LsuInit ==
    /\ prog = <<>> /\ inputs = <<>> /\ fence = 0 /\ done = {} /\ run = 1
    /\ pending = EmptyTable(QueueIn)
    /\ demuxReq = <<>> /\ demuxRsp = <<>>
    /\ coalReq = <<>> /\ coalRsp = <<>> /\ sent = {}
    /\ coalPend = EmptyTable(QueueOut)
    /\ dcReq = <<>> /\ dcRsp = <<>>
    /\ dcBusy = [o \in Outs |-> {}]
    /\ dcOut = [o \in Outs |-> <<>>]
    /\ lmReq = <<>> /\ lmRsp = <<>>
    /\ lmIn = [i \in Lanes |-> <<>>]
    /\ lmOut = [i \in Lanes |-> <<>>]

(* The dispatcher pushes an instruction into LsuUnit::Inputs.              *)
Issue ==
    /\ Len(inputs) < MaxInputs
    /\ \E p \in Programs :
         /\ Len(prog) < Len(p) /\ prog = SubSeq(p, 1, Len(prog))
         /\ prog' = SubSeq(p, 1, Len(prog) + 1)
    /\ inputs' = Append(inputs, Len(prog) + 1)
    /\ UNCHANGED <<pending, fence, done, demuxReq, demuxRsp, coalVars, dcVars, lmVars, run>>

----------------------------------------------------------------------------
(* LsuUnit::tick, first half: one response is taken off the port; the last *)
(* missing lanes release the trace.                                        *)
PendingAfterRsp ==
    IF demuxRsp = <<>> THEN pending
    ELSE Answered(pending, Head(demuxRsp).tag, Head(demuxRsp).mask)

ReleasedByRsp == {pending[t].owner : t \in Used(pending) \ Used(PendingAfterRsp)}

(* second half: a fence holds the block until no load is pending.  Other-  *)
(* wise the head of the input is taken: a fence locks, a load needs a free *)
(* entry, a store is not waited for.                                       *)
FenceHoldsNever == FALSE
FenceHoldsInput == fence # 0 /\ (Used(PendingAfterRsp) # {} \/ inputs # <<>>)
FenceHolds == fence # 0 /\ Used(PendingAfterRsp) # {}

Kind(id) == prog[id].kind
Taken ==
    IF FenceHolds \/ inputs = <<>> THEN {}
    ELSE {id \in {Head(inputs)} : ~(Kind(id) = "load" /\ Full(PendingAfterRsp))}
TakenKind(kind) == {id \in Taken : Kind(id) = kind}

LsuSends ==
    IF Taken = {} \/ TakenKind("fence") # {} THEN <<>>
    ELSE LET id == Head(inputs)
         IN  <<IF Kind(id) = "store" THEN MemRequest(TRUE, 0, prog[id].mask, id)
               ELSE MemRequest(FALSE, FreeTag(PendingAfterRsp), prog[id].mask, id)>>

LsuTick ==
    /\ inputs' = IF Taken = {} THEN inputs ELSE Tail(inputs)
    /\ pending' = IF TakenKind("load") = {} THEN PendingAfterRsp
                  ELSE Allocate(PendingAfterRsp, Head(inputs), prog[Head(inputs)].mask)
    /\ fence' = IF TakenKind("fence") # {} THEN Head(inputs)
                ELSE IF FenceHolds THEN fence ELSE 0
    /\ done' = done \cup ReleasedByRsp \cup TakenKind("store")
                    \cup (IF fence = 0 \/ FenceHolds THEN {} ELSE {fence})

----------------------------------------------------------------------------
(* LocalMemDemux::tick: forward a response of each side, split a request.  *)
First(q) == IF q = <<>> THEN <<>> ELSE <<Head(q)>>
LmemLanes(r) == {i \in r.mask : prog[r.id].addr[i] \in LmemBanks}
Part(r, mask) == IF mask = {} THEN <<>> ELSE <<[r EXCEPT !.mask = mask]>>

DemuxAnswers == First(lmRsp) \o First(dcRsp)
DemuxToCoal == IF demuxReq = <<>> THEN <<>>
               ELSE Part(Head(demuxReq), Head(demuxReq).mask \ LmemLanes(Head(demuxReq)))
DemuxToLmem == IF demuxReq = <<>> THEN <<>>
               ELSE Part(Head(demuxReq), LmemLanes(Head(demuxReq)))

----------------------------------------------------------------------------
(* MemCoalescer::tick.  A response stands for all the lanes of its entry   *)
(* in the groups that answered.                                            *)
LanesOf(r) == {i \in coalPend[r.tag].mask : \E o \in r.mask : i \in Group(o)}

CoalAnswers ==
    IF coalRsp = <<>> THEN <<>>
    ELSE <<Response(coalPend[Head(coalRsp).tag].owner, LanesOf(Head(coalRsp)))>>

CoalPendAfterRsp ==
    IF coalRsp = <<>> THEN coalPend
    ELSE Answered(coalPend, Head(coalRsp).tag, LanesOf(Head(coalRsp)))

(* One round: each group sends the line of its first unsent lane, together *)
(* with the other unsent lanes of the group on that line.                  *)
Unsent(r, o) == {i \in r.mask \cap Group(o) : i \notin sent}
Seed(r, o) == CHOOSE i \in Unsent(r, o) : \A j \in Unsent(r, o) : i <= j
Coalesced(r, o) ==
    {i \in Unsent(r, o) : prog[r.id].addr[i] = prog[r.id].addr[Seed(r, o)]}
RoundOuts(r) == {o \in Outs : Unsent(r, o) # {}}
RoundLanes(r) == UNION {Coalesced(r, o) : o \in RoundOuts(r)}
RoundIsLast(r) == sent \cup RoundLanes(r) = r.mask

CoalBlocked == coalReq = <<>> \/ Full(CoalPendAfterRsp)
CoalSends ==
    IF CoalBlocked THEN <<>>
    ELSE LET r == Head(coalReq)
         IN  <<MemRequest(r.write, IF r.write THEN 0 ELSE FreeTag(CoalPendAfterRsp),
                       RoundOuts(r), r.id)>>

CoalTick ==
    /\ coalPend' = IF CoalBlocked \/ Head(coalReq).write THEN CoalPendAfterRsp
                   ELSE Allocate(CoalPendAfterRsp, Head(coalReq).tag,
                                 RoundLanes(Head(coalReq)))
    /\ sent' = IF CoalBlocked THEN sent
               ELSE IF RoundIsLast(Head(coalReq)) THEN {}
               ELSE sent \cup RoundLanes(Head(coalReq))
    /\ coalReq' = (IF CoalBlocked \/ ~RoundIsLast(Head(coalReq)) THEN coalReq
                   ELSE Tail(coalReq)) \o DemuxToCoal

----------------------------------------------------------------------------
(* LsuMemAdapter::tick: the first channel with a response, merged with the *)
(* later channels whose head has the same tag; a request goes to all the   *)
(* channels of its mask.                                                   *)
ReadyPorts(ports) == {i \in DOMAIN ports : ports[i] # <<>>}
FirstPort(ports) == CHOOSE i \in ReadyPorts(ports) : \A j \in ReadyPorts(ports) : i <= j
MergedAnyTag(ports) == ReadyPorts(ports)
MergedPorts(ports) ==
    {i \in ReadyPorts(ports) : Head(ports[i]) = Head(ports[FirstPort(ports)])}
AdapterAnswers(ports) ==
    IF ReadyPorts(ports) = {} THEN <<>>
    ELSE <<Response(Head(ports[FirstPort(ports)]), MergedPorts(ports))>>
AdapterTook(ports, i) == ReadyPorts(ports) # {} /\ i \in MergedPorts(ports)

AdapterToCache(o) ==
    IF dcReq # <<>> /\ ~Head(dcReq).write /\ o \in Head(dcReq).mask
    THEN {Head(dcReq).tag} ELSE {}
AdapterToLmem(i) ==
    IF lmReq # <<>> /\ i \in Head(lmReq).mask THEN <<Head(lmReq)>> ELSE <<>>

(* LocalMem::tick: every lane is served whose bank no lower lane uses;     *)
(* only reads are answered (write_reponse is false).                       *)
BankAt(i) == prog[Head(lmIn[i]).id].addr[i]
Served == {i \in ReadyPorts(lmIn) : \A j \in ReadyPorts(lmIn) : j < i => BankAt(j) # BankAt(i)}
LmemAnswers(i) ==
    IF i \in Served /\ ~Head(lmIn[i]).write THEN <<Head(lmIn[i]).tag>> ELSE <<>>

----------------------------------------------------------------------------
(* A cycle: every component ticks on the ports as they are; what it pushes *)
(* arrives with the next cycle (all delays are one).                       *)
PlatformTick ==
    /\ LsuTick
    /\ CoalTick
    /\ demuxReq' = Pop(demuxReq) \o LsuSends
    /\ demuxRsp' = Pop(demuxRsp) \o DemuxAnswers
    /\ coalRsp' = Pop(coalRsp) \o AdapterAnswers(dcOut)
    /\ dcReq' = Pop(dcReq) \o CoalSends
    /\ dcRsp' = Pop(dcRsp) \o CoalAnswers
    /\ dcBusy' = [o \in Outs |-> dcBusy[o] \cup AdapterToCache(o)]
    /\ dcOut' = [o \in Outs |-> IF AdapterTook(dcOut, o) THEN Tail(dcOut[o]) ELSE dcOut[o]]
    /\ lmReq' = Pop(lmReq) \o DemuxToLmem
    /\ lmRsp' = Pop(lmRsp) \o AdapterAnswers(lmOut)
    /\ lmIn' = [i \in Lanes |-> (IF i \in Served THEN Tail(lmIn[i]) ELSE lmIn[i])
                                \o AdapterToLmem(i)]
    /\ lmOut' = [i \in Lanes |-> (IF AdapterTook(lmOut, i) THEN Tail(lmOut[i]) ELSE lmOut[i])
                                 \o LmemAnswers(i)]
    /\ UNCHANGED <<prog, run>>

(* The data cache answers a read when it has the line, in any order.       *)
CacheAnswer(o) ==
    \E t \in dcBusy[o] :
        /\ dcBusy' = [dcBusy EXCEPT ![o] = @ \ {t}]
        /\ dcOut' = [dcOut EXCEPT ![o] = Append(@, t)]
        /\ UNCHANGED <<blockVars, demuxReq, demuxRsp, coalVars, dcReq, dcRsp, lmVars, run>>

----------------------------------------------------------------------------
(* A run ends when the cores have committed all they issued; stores may    *)
(* still be on their way.  The reset then empties the LSU's table and the  *)
(* coalescer's sent_mask_ but not its table, and drops the requests that   *)
(* are events of the platform: the last ones pushed into each port.        *)
Prefixes(q) == {SubSeq(q, 1, n) : n \in 0..Len(q)}
Rerun ==
    /\ run < MaxRuns
    /\ done = DOMAIN prog
    /\ run' = run + 1
    /\ pending' = EmptyTable(QueueIn)
    /\ fence' = 0
    /\ sent' = {}
    /\ demuxReq' \in Prefixes(demuxReq)
    /\ coalReq' \in Prefixes(coalReq)
    /\ dcReq' \in Prefixes(dcReq)
    /\ lmReq' \in Prefixes(lmReq)
    /\ \E n \in 0..Len(prog) : lmIn' = [i \in Lanes |-> SubSeq(lmIn[i], 1,
                                          IF n < Len(lmIn[i]) THEN n ELSE Len(lmIn[i]))]
    /\ UNCHANGED <<prog, inputs, done, demuxRsp, coalRsp, coalPend, dcBusy, dcOut, dcRsp, lmOut, lmRsp>>

LsuNext ==
    \/ Issue
    \/ PlatformTick
    \/ \E o \in Outs : CacheAnswer(o)
    \/ Rerun

LsuSpec == LsuInit /\ [][LsuNext]_lsuVars

(* The platform ticks all components in every cycle, and the data cache    *)
(* answers every read (CacheBank.ReadsAnswered): one of the two happens.   *)
LsuProgress == PlatformTick \/ \E o \in Outs : CacheAnswer(o)
LsuFairness == WF_lsuVars(LsuProgress)

LsuFairSpec == LsuSpec /\ LsuFairness
----------------------------------------------------------------------------
LsuTypeOK ==
    /\ done \subseteq DOMAIN prog
    /\ fence \in 0..Len(prog) /\ sent \subseteq Lanes
    /\ \A t \in DOMAIN pending : pending[t] \in [owner : 0..Len(prog), mask : SUBSET Lanes]
    /\ \A t \in DOMAIN coalPend :
         coalPend[t] \in [owner : DOMAIN pending, mask : SUBSET Lanes]
    /\ dcBusy \in [Outs -> SUBSET DOMAIN coalPend]

(* How often a queue holds a read with tag t for lane i.                   *)
ReadsIn(q, t, i) ==
    Cardinality({n \in DOMAIN q : q[n].tag = t /\ i \in q[n].mask /\ ~q[n].write})
AnswersIn(q, t, i) == Cardinality({n \in DOMAIN q : q[n].tag = t /\ i \in q[n].mask})
TagsIn(q, t) == Cardinality({n \in DOMAIN q : q[n] = t})

(* The coalescer has sent lane i of the load at its input already.         *)
HeadSent(t, i) ==
    /\ coalReq # <<>> /\ Head(coalReq).tag = t /\ ~Head(coalReq).write
    /\ i \in Head(coalReq).mask \cap sent

(* Where lane i of the load with tag t is, between the LSU and its answer. *)
PlacesOfLane(t, i) ==
    ReadsIn(demuxReq, t, i) + ReadsIn(coalReq, t, i)
    - (IF HeadSent(t, i) THEN 1 ELSE 0)
    + Cardinality({c \in DOMAIN coalPend : coalPend[c].owner = t /\ i \in coalPend[c].mask})
    + AnswersIn(dcRsp, t, i)
    + ReadsIn(lmReq, t, i) + ReadsIn(lmIn[i], t, i) + TagsIn(lmOut[i], t)
    + AnswersIn(lmRsp, t, i) + AnswersIn(demuxRsp, t, i)

(* Where channel o of the coalesced read c is.                             *)
PlacesOfChannel(c, o) ==
    ReadsIn(dcReq, c, o) + Cardinality(dcBusy[o] \cap {c}) + TagsIn(dcOut[o], c)
    + AnswersIn(coalRsp, c, o)

(* However a load is split, merged and answered out of order, each lane    *)
(* the LSU waits for is in exactly one place and no other lane is: the     *)
(* asserts `entry.first` and `!entry.mask.none()` hold at both tables, no  *)
(* answer reaches a tag that was given to another load, none is lost.      *)
LanesConserved ==
    /\ \A t \in DOMAIN pending, i \in Lanes :
         PlacesOfLane(t, i) = IF i \in pending[t].mask THEN 1 ELSE 0
    /\ \A c \in DOMAIN coalPend, o \in Outs :
         PlacesOfChannel(c, o) = IF coalPend[c].mask \cap Group(o) # {} THEN 1 ELSE 0

(* A fence completes after every older load and before any younger         *)
(* instruction of its block is taken.  It is about loads: the comment at   *)
(* the lock (func_unit.cpp:143) speaks of all pending memory operations,   *)
(* but what is waited for is pending_rd_reqs, and a store that was sent    *)
(* may still be on its way when the fence completes.                       *)
FenceOrders ==
    \A f \in DOMAIN prog : prog[f].kind = "fence" =>
        /\ f \in done => \A l \in 1..(f - 1) : prog[l].kind = "load" => l \in done
        /\ f \notin done => \A y \in (f + 1)..Len(prog) : \E n \in DOMAIN inputs : inputs[n] = y

(* Every instruction completes: the two tables, which block each other's   *)
(* requests while they are full, always drain.                             *)
AllDone == done = DOMAIN prog
InstrsComplete == []<>AllDone
=============================================================================
