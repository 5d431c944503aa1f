----------------------------- MODULE CacheBank -----------------------------
(***************************************************************************)
(* One bank of a SimX cache with its miss status holding registers (MSHR), *)
(* the ports of the cores in front of it and the memory behind it          *)
(* (src/sim/simx/cache_sim.cpp).  Banks share nothing but the ports, so    *)
(* one bank stands for all.  The simulator keeps no data in its caches:    *)
(* the state is tags, dirty bits and requests.                             *)
(*                                                                         *)
(* A tick schedules at most one request of the bank, a replay before a     *)
(* fill before a core request, and hands every non-cacheable request at    *)
(* the head of a port to the bypass.                                       *)
(***************************************************************************)
EXTENDS Integers, Sequences, FiniteSets

CONSTANTS
    Lines,         \* memory lines
    Sets,          \* cache sets of the bank
    SetOf,         \* the set a line maps to (addr_set_id)
    MshrSize,      \* mshr_size
    Configs,       \* caches considered: inputs, ways, writeBack; with bounds
    WriteResponse, \* config.write_reponse
    Traffic,       \* the kinds of requests the cores make
    MaxReqs        \* bound: requests the cores make

ASSUME CacheAssumption ==
    /\ MshrSize \in Nat \ {0}
    /\ Lines # {}
    /\ SetOf \in [Lines -> Sets]
    /\ WriteResponse \in BOOLEAN
    /\ Traffic \subseteq {"read", "write", "io_read", "io_write"}
    /\ MaxReqs \in Nat
    /\ Configs \subseteq [inputs : Nat \ {0}, ways : Nat \ {0}, writeBack : BOOLEAN, traffic : SUBSET Traffic,
                          reqs : 0..MaxReqs, queue : Nat, runs : Nat]

Slots == 0..(MshrSize - 1)
Ids == 1..MaxReqs

Request == [id : Ids, line : Lines, kind : Traffic]
NoRequest == [id |-> 0]
IsWrite(r) == r.kind \in {"write", "io_write"}
IsIO(r) == r.kind \in {"io_read", "io_write"}

VARIABLES
    config,    \* CacheSim::Config: inputs (core request ports), ways, writeBack;
               \* and the bounds: traffic, requests, queue of a port, runs
    issued,    \* number of requests made so far; request k has id k
    ports,     \* ports[p]: CoreReqPorts, a queue of requests
    ways,      \* ways[s][i]: the line_t of way i of set s
    mshr,      \* mshr[k]: the mshr_entry_t of slot k
    fills,     \* fills[k]: fill requests with tag k that memory holds
    memRsp,    \* mem_rsp_ports_: tags of fills that memory has answered
    bypassed,  \* non-cacheable requests that memory holds
    answers,   \* answers[id]: responses sent for the request
    owed,      \* lines that were written and not written back since
    run        \* how often the processor was started

vars == <<config, issued, ports, ways, mshr, fills, memRsp, bypassed, answers, owed, run>>

Inputs == 0..(config.inputs - 1)
Ways == 0..(config.ways - 1)
WriteBack == config.writeBack

EmptyWay == [valid |-> FALSE, dirty |-> FALSE, line |-> CHOOSE l \in Lines : TRUE,
             lru |-> 0]
FreeSlot == [type |-> "None", req |-> NoRequest, way |-> 0]

Init ==
    /\ config \in Configs
    /\ issued = 0
    /\ ports = [p \in Inputs |-> <<>>]
    /\ ways = [s \in Sets |-> [i \in Ways |-> EmptyWay]]
    /\ mshr = [k \in Slots |-> FreeSlot]
    /\ fills = [k \in Slots |-> 0]
    /\ memRsp = <<>>
    /\ bypassed = {}
    /\ answers = [id \in Ids |-> 0]
    /\ owed = {}
    /\ run = 1

----------------------------------------------------------------------------
(* The environment: a core pushes a request, the memory (DRAM or the next  *)
(* cache, which both reorder) answers a fill or a bypassed request.        *)
CoreRequest(p) ==
    /\ issued < config.reqs
    /\ Len(ports[p]) < config.queue
    /\ \E l \in Lines, k \in config.traffic :
         ports' = [ports EXCEPT ![p] =
                     Append(@, [id |-> issued + 1, line |-> l, kind |-> k])]
    /\ issued' = issued + 1
    /\ UNCHANGED <<config, ways, mshr, fills, memRsp, bypassed, answers, owed, run>>

MemRespond(k) ==
    /\ fills[k] > 0
    /\ fills' = [fills EXCEPT ![k] = @ - 1]
    /\ memRsp' = Append(memRsp, k)
    /\ UNCHANGED <<config, issued, ports, ways, mshr, bypassed, answers, owed, run>>

----------------------------------------------------------------------------
(* MSHR *)
SlotsOf(type) == {k \in Slots : mshr[k].type = type}
SlotOnLine(k, l) == mshr[k].type # "None" /\ mshr[k].req.line = l
First(slots) == CHOOSE k \in slots : \A j \in slots : k <= j
Full == SlotsOf("None") = {}

(* MSHR::lookup: is the line of the request already on its way?            *)
LookupNever(r) == FALSE
LookupAlways(r) == TRUE
Lookup(r) == \E k \in Slots : SlotOnLine(k, r.line)

(* MSHR::allocate: the first free slot takes the request and its victim.   *)
Allocated(r, i) ==
    [mshr EXCEPT ![First(SlotsOf("None"))] = [type |-> "Core", req |-> r, way |-> i]]

(* MSHR::replay: all the requests for the line of slot k are due.          *)
Replay(k) ==
    [j \in Slots |-> IF mshr[j].type = "Core" /\ mshr[j].req.line = mshr[k].req.line
                     THEN [mshr[j] EXCEPT !.type = "Replay"] ELSE mshr[j]]

(* MSHR::pop: the replayed request frees its slot.                         *)
ReleasedLate(k) == mshr
Released(k) == [mshr EXCEPT ![k] = FreeSlot]

(* A response of the cache to a core, which writes get only if configured. *)
Responds(r) == ~IsWrite(r) \/ WriteResponse

----------------------------------------------------------------------------
(* Scheduling.  IO requests at the head of a port leave for the bypass in  *)
(* every tick; the first port whose request the bank can take is served    *)
(* if the bank is not busy.  A request that may need an MSHR slot waits    *)
(* until there is one.                                                     *)
IOHeads == {p \in Inputs : ports[p] # <<>> /\ IsIO(Head(ports[p]))}

NeedsSlot(r) == ~IsWrite(r) \/ WriteBack

Eligible == {p \in Inputs \ IOHeads :
                ports[p] # <<>> /\ ~(NeedsSlot(Head(ports[p])) /\ Full)}

(* processBypassRequest for every IO head, and the core request taken.     *)
Popped(taken) ==
    ports' = [p \in Inputs |-> IF p \in IOHeads \cup taken THEN Tail(ports[p])
                                                            ELSE ports[p]]
BypassAnswers ==
    {Head(ports[p]).id : p \in {q \in IOHeads : IsWrite(Head(ports[q]))
                                                 /\ WriteResponse}}
Bypass == bypassed' = bypassed \cup
    {Head(ports[p]).id : p \in {q \in IOHeads : ~IsWrite(Head(ports[q]))}}

(* first: a replay answers its core and frees its slot                     *)
TickReplay ==
    /\ SlotsOf("Replay") # {}
    /\ LET k == First(SlotsOf("Replay"))
           r == mshr[k].req
       IN  /\ mshr' = Released(k)
           /\ answers' = [id \in Ids |-> answers[id]
                            + (IF id = r.id /\ Responds(r) THEN 1 ELSE 0)
                            + (IF id \in BypassAnswers THEN 1 ELSE 0)]
           /\ owed' = IF IsWrite(r) THEN owed \cup {r.line} ELSE owed
    /\ Popped({})
    /\ Bypass
    /\ UNCHANGED <<config, issued, ways, fills, memRsp, run>>

(* second: a fill puts the line into the way chosen at the miss            *)
FillMayRunAlways == memRsp # <<>>
FillMayRun == memRsp # <<>> /\ SlotsOf("Replay") = {}

FilledWay(w, l) == [w EXCEPT !.valid = TRUE, !.line = l]

TickFill ==
    /\ FillMayRun
    /\ LET k == Head(memRsp)
           r == mshr[k].req
       IN  /\ mshr[k].type = "Core"   \* assert in MSHR::replay
           /\ mshr' = Replay(k)
           /\ ways' = [ways EXCEPT ![SetOf[r.line]][mshr[k].way] =
                         FilledWay(@, r.line)]
    /\ memRsp' = Tail(memRsp)
    /\ answers' = [id \in Ids |-> answers[id]
                     + (IF id \in BypassAnswers THEN 1 ELSE 0)]
    /\ Popped({})
    /\ Bypass
    /\ UNCHANGED <<config, issued, fills, owed, run>>

----------------------------------------------------------------------------
(* last: a core request.  The tag lookup walks the ways in order: the      *)
(* victim is the first way with the largest counter, a free way is the     *)
(* last invalid one, and every valid way that does not match ages.         *)
HitsFirstWay(s, l) == {i \in {0} : ways[s][i].valid /\ ways[s][i].line = l}
Hits(s, l) == {i \in Ways : ways[s][i].valid /\ ways[s][i].line = l}
FreeWays(s) == {i \in Ways : ~ways[s][i].valid}
Last(is) == CHOOSE i \in is : \A j \in is : j <= i

Victim(s) ==
    CHOOSE i \in Ways : \A j \in Ways :
        \/ ways[s][j].lru < ways[s][i].lru
        \/ ways[s][j].lru = ways[s][i].lru /\ i <= j

Place(s) == IF FreeWays(s) # {} THEN Last(FreeWays(s)) ELSE Victim(s)

Aged(s, l) ==
    [i \in Ways |->
        IF ~ways[s][i].valid THEN ways[s][i]
        ELSE [ways[s][i] EXCEPT !.lru = IF ways[s][i].line = l THEN 0 ELSE @ + 1]]

(* Hit: a write goes to memory or marks the line dirty.                    *)
CoreHit(r, s) ==
    /\ Hits(s, r.line) # {}
    /\ ways' = [ways EXCEPT ![s] =
                  [i \in Ways |->
                     IF i = Last(Hits(s, r.line)) /\ r.kind = "write" /\ WriteBack
                     THEN [Aged(s, r.line)[i] EXCEPT !.dirty = TRUE]
                     ELSE Aged(s, r.line)[i]]]
    /\ owed' = IF r.kind = "write" /\ WriteBack THEN owed \cup {r.line} ELSE owed
    /\ UNCHANGED <<mshr, fills>>

(* A write that misses in a write-through cache only goes to memory.       *)
CoreWriteThrough(r, s) ==
    /\ Hits(s, r.line) = {}
    /\ r.kind = "write" /\ ~WriteBack
    /\ ways' = [ways EXCEPT ![s] = Aged(s, r.line)]
    /\ UNCHANGED <<mshr, fills, owed>>

(* Every other miss takes a slot, and asks for the line unless somebody    *)
(* has; a dirty victim is written back first.                              *)
CoreMiss(r, s) ==
    /\ Hits(s, r.line) = {}
    /\ r.kind = "read" \/ WriteBack
    /\ ways' = [ways EXCEPT ![s] = Aged(s, r.line)]
    /\ owed' = IF FreeWays(s) = {} /\ WriteBack /\ ways[s][Victim(s)].dirty
               THEN owed \ {ways[s][Victim(s)].line} ELSE owed
    /\ mshr' = Allocated(r, Place(s))
    /\ fills' = IF Lookup(r) THEN fills
                ELSE [fills EXCEPT ![First(SlotsOf("None"))] = @ + 1]

CoreMayRun == memRsp = <<>> /\ SlotsOf("Replay") = {}

TickCore ==
    /\ CoreMayRun
    /\ IF Eligible = {}
       THEN /\ IOHeads # {}
            /\ Popped({})
            /\ answers' = [id \in Ids |-> answers[id]
                             + (IF id \in BypassAnswers THEN 1 ELSE 0)]
            /\ UNCHANGED <<ways, mshr, fills, owed>>
       ELSE LET p == First(Eligible)
                r == Head(ports[p])
                s == SetOf[r.line]
                now == (Hits(s, r.line) # {} /\ Responds(r))
                       \/ (r.kind = "write" /\ ~WriteBack /\ WriteResponse)
            IN  /\ CoreHit(r, s) \/ CoreWriteThrough(r, s) \/ CoreMiss(r, s)
                /\ answers' = [id \in Ids |-> answers[id]
                                 + (IF id = r.id /\ now THEN 1 ELSE 0)
                                 + (IF id \in BypassAnswers THEN 1 ELSE 0)]
                /\ Popped({p})
    /\ Bypass
    /\ UNCHANGED <<config, issued, memRsp, run>>

(* processBypassResponse *)
BypassRespond(id) ==
    /\ id \in bypassed
    /\ bypassed' = bypassed \ {id}
    /\ answers' = [answers EXCEPT ![id] = @ + 1]
    /\ UNCHANGED <<config, issued, ports, ways, mshr, fills, memRsp, owed, run>>

----------------------------------------------------------------------------
(* The processor is started again once its cores are idle, that is once    *)
(* every read is answered.  CacheSim::reset clears the lines and the MSHR, *)
(* but not the queues of the ports, and DramSim::reset does nothing; the   *)
(* fills that were events of the platform at that moment are dropped.      *)
Outstanding(r) == answers[r.id] = 0 /\ Responds(r)
InPorts == UNION {{ports[p][n] : n \in DOMAIN ports[p]} : p \in Inputs}
InMshr == {mshr[k].req : k \in Slots \ SlotsOf("None")}

CoresIdle ==
    /\ \A r \in InPorts \cup InMshr : ~Outstanding(r)
    /\ bypassed = {}

Rerun ==
    /\ run < config.runs
    /\ CoresIdle
    /\ run' = run + 1
    /\ ways' = [s \in Sets |-> [i \in Ways |->
                  [ways[s][i] EXCEPT !.valid = FALSE, !.dirty = FALSE]]]
    /\ mshr' = [k \in Slots |-> FreeSlot]
    /\ fills' \in {f \in [Slots -> 0..1] : \A k \in Slots : f[k] <= fills[k]}
    /\ owed' = {}
    /\ UNCHANGED <<config, issued, ports, memRsp, bypassed, answers>>

----------------------------------------------------------------------------
Tick == TickReplay \/ TickFill \/ TickCore

Next ==
    \/ \E p \in Inputs : CoreRequest(p)
    \/ \E k \in Slots : MemRespond(k)
    \/ \E id \in Ids : BypassRespond(id)
    \/ TickReplay
    \/ TickFill
    \/ TickCore
    \/ Rerun

Spec == Init /\ [][Next]_vars

(* The platform ticks the cache every cycle and the memory answers.        *)
Fairness ==
    /\ WF_vars(Tick)
    /\ \A k \in Slots : WF_vars(MemRespond(k))
    /\ \A id \in Ids : WF_vars(BypassRespond(id))

FairSpec == Spec /\ Fairness

----------------------------------------------------------------------------
TypeOK ==
    /\ config \in Configs
    /\ issued \in 0..MaxReqs
    /\ \A p \in Inputs : \A n \in DOMAIN ports[p] : ports[p][n] \in Request
    /\ ways \in [Sets -> [Ways -> [valid : BOOLEAN, dirty : BOOLEAN,
                                   line : Lines, lru : Nat]]]
    /\ mshr \in [Slots -> [type : {"None"}, req : {NoRequest}, way : {0}]
                          \cup [type : {"Core", "Replay"}, req : Request, way : Ways]]
    /\ fills \in [Slots -> Nat]
    /\ \A n \in DOMAIN memRsp : memRsp[n] \in Slots
    /\ bypassed \subseteq Ids
    /\ answers \in [Ids -> Nat]
    /\ owed \subseteq Lines
    /\ run \in Nat \ {0}

(* A line is in at most one way of its set, however its misses, fills and  *)
(* replays interleave: the tag lookup is unambiguous.                      *)
OneWayPerLine ==
    \A s \in Sets, i, j \in Ways :
        ways[s][i].valid /\ ways[s][j].valid /\ ways[s][i].line = ways[s][j].line
            => i = j

(* Fills in flight with tag k, asked for or answered.                      *)
FillsOf(k) == fills[k] + Cardinality({n \in DOMAIN memRsp : memRsp[n] = k})

(* `assert(root_entry.bank_req.type == bank_req_t::Core)` of MSHR::replay: *)
(* a fill comes back to the slot that asked for it, still waiting.         *)
FillFindsOwner == \A k \in Slots : FillsOf(k) > 0 => mshr[k].type = "Core"

(* The requests waiting for one line have exactly one fill in flight among *)
(* them: none waits for ever, and no line is fetched twice.                *)
OneFillPerLine ==
    \A k \in SlotsOf("Core") :
        LET same == {j \in SlotsOf("Core") : mshr[j].req.line = mshr[k].req.line}
        IN  \E j \in same : FillsOf(j) = 1 /\ \A i \in same \ {j} : FillsOf(i) = 0

(* Together: misses, fills and slots stay matched, also when a slot is     *)
(* released and taken again and when the processor is restarted.           *)
FillsMatched == FillFindsOwner /\ OneFillPerLine

(* A request due for replay finds its line in the cache: neither another   *)
(* fill nor another miss took the way in the meantime.                     *)
ReplayHits ==
    \A k \in SlotsOf("Replay") :
        LET l == mshr[k].req.line IN Hits(SetOf[l], l) # {}

(* Places where request id waits.                                          *)
PlacesOf(id) ==
    Cardinality({x \in Inputs \X (1..MaxReqs) :
                    x[2] \in DOMAIN ports[x[1]] /\ ports[x[1]][x[2]].id = id})
    + Cardinality({k \in Slots : mshr[k].type # "None" /\ mshr[k].req.id = id})
    + Cardinality(bypassed \cap {id})

(* No request is duplicated or answered twice: it waits in one place or it *)
(* is done; and where writes are answered too, none is lost.               *)
RequestsConserved ==
    \A id \in Ids :
        /\ answers[id] + PlacesOf(id) <= 1
        /\ WriteResponse /\ id <= issued => answers[id] + PlacesOf(id) = 1

(* Every read is answered in the end.                                      *)
ReadsAnswered ==
    \A id \in Ids :
        (\E r \in InPorts : r.id = id /\ ~IsWrite(r)) ~> (answers[id] = 1)

(* A write-back cache keeps what was written: a line written and not yet   *)
(* written back is dirty in the cache.                                     *)
WrittenLinesDirty ==
    \A l \in owed : \E i \in Hits(SetOf[l], l) : ways[SetOf[l]][i].dirty
=============================================================================
