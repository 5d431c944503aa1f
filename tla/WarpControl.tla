---------------------------- MODULE WarpControl ----------------------------
(***************************************************************************)
(* Warp control of one cluster of the SimX simulator: which warps of a    *)
(* core are active, which are stalled, who releases them, and the local   *)
(* and global barriers (src/sim/simx/emulator.cpp, core.cpp, func_unit.cpp,*)
(* socket.cpp, cluster.cpp).                                               *)
(*                                                                         *)
(* The functional emulator executes an instruction when the core schedules *)
(* it, and the timing pipeline carries its trace on to the decoder and the *)
(* functional units; the warp stays stalled until one of them releases it. *)
(* Every warp therefore has at most one trace that owns its stall.         *)
(*                                                                         *)
(* The program is a constant: Code[w][p] is the set of instructions that   *)
(* warp w may execute at program counter p.  A set with several members    *)
(* stands for data the model leaves out (branch conditions, predicates).   *)
(***************************************************************************)
EXTENDS Integers, FiniteSets

CONSTANTS
    NumSockets,      \* sockets of the cluster
    CoresPerSocket,  \* cores of a socket
    NumWarps,        \* warps of a core
    Barriers,        \* barrier indices (arch.num_barriers)
    PCs,             \* program counters
    StartPC,         \* VX_DCR_BASE_STARTUP_ADDR
    Code             \* the program, see above

NumCores == NumSockets * CoresPerSocket
Cores == 0..(NumCores - 1)
Warps == 0..(NumWarps - 1)

(* Instructions, told apart by who releases the warp.                      *)
(*   plain  : fetch_stall is false, the decoder releases                   *)
(*   branch : B, JAL, JALR, ECALL: the ALU releases                        *)
(*   wctl   : TMC, SPLIT, JOIN, PRED, CSR access: the SFU releases         *)
(*   wspawn : WSPAWN num, entry                                            *)
(*   bar    : BAR id, count; "global" is bit 31 of the id                  *)
(* "next" is the PC that execute() leaves in the warp, and "alive" says    *)
(* whether the thread mask it leaves is not empty.                         *)
Instr ==
    [op : {"plain", "branch", "wctl"}, next : PCs, alive : BOOLEAN]
    \cup [op : {"wspawn"}, next : PCs, alive : {TRUE}, num : Nat, entry : PCs]
    \cup [op : {"bar"}, next : PCs, alive : {TRUE}, bar : Barriers,
          count : Nat, global : BOOLEAN]

ASSUME SizesAssumption ==
    /\ NumSockets \in Nat \ {0}
    /\ CoresPerSocket \in Nat \ {0}
    /\ NumWarps \in Nat \ {0}

ASSUME CodeAssumption ==
    /\ StartPC \in PCs
    /\ Code \in [Warps -> [PCs -> SUBSET Instr]]

(* The device library spawns from warp 0 only (vx_spawn.c); step() resumes *)
(* warp 0, whoever asked, when it activates the spawned warps.             *)
ASSUME SpawnerAssumption ==
    \A w \in Warps, p \in PCs : \A i \in Code[w][p] :
        i.op = "wspawn" => w = 0

(* Programs that synchronise the warps of a core only.                     *)
NoGlobalBarriers ==
    \A w \in Warps, p \in PCs : \A i \in Code[w][p] :
        i.op = "bar" => ~i.global

VARIABLES
    pc,        \* pc[c][w]: warps_[w].PC
    active,    \* active[c]: active_warps_
    stalled,   \* stalled[c]: stalled_warps_
    wspawn,    \* wspawn[c]: wspawn_, the spawn request that step() serves
    barriers,  \* barriers[c][b]: warps suspended at barrier b
    trace,     \* trace[c][w]: the in-flight trace that will release warp w
    clusterBar \* clusterBar[b]: cores suspended at the cluster's barrier b

vars == <<pc, active, stalled, wspawn, barriers, trace, clusterBar>>

NoTrace == [stage |-> "none"]
InFlight(i, s) == [stage |-> s, instr |-> i]
Stages == {"fetch", "execute"}
Traces == {NoTrace} \cup [stage : Stages, instr : Instr]

----------------------------------------------------------------------------
(* Emulator::clear and Cluster::reset: thread 0 of warp 0 runs, no spawn   *)
(* is pending, every barrier is empty.                                     *)
Cleared(p, a, s, ws, b, t, cb) ==
    /\ p = [c \in Cores |-> [w \in Warps |-> StartPC]]
    /\ a = [c \in Cores |-> {0}]
    /\ s = [c \in Cores |-> {}]
    /\ ws = [c \in Cores |-> [valid |-> FALSE, num |-> 0, entry |-> StartPC]]
    /\ b = [c \in Cores |-> [i \in Barriers |-> {}]]
    /\ t = [c \in Cores |-> [w \in Warps |-> NoTrace]]
    /\ cb = [i \in Barriers |-> {}]

Init == Cleared(pc, active, stalled, wspawn, barriers, trace, clusterBar)

(* ProcessorImpl::run returns when no core is running; the next run resets *)
(* every simulation object first.                                          *)
Finished ==
    \A c \in Cores : active[c] = {} /\ \A w \in Warps : trace[c][w] = NoTrace

Rerun ==
    /\ Finished
    /\ Cleared(pc', active', stalled', wspawn', barriers', trace', clusterBar')

----------------------------------------------------------------------------
(* Emulator::step serves a pending spawn first: once the spawning warp is  *)
(* the only active one, warps 1..num-1 start at the entry and warp 0 is    *)
(* released.                                                               *)
ServeSpawnAnytime(c) == wspawn[c].valid
ServeSpawn(c) == wspawn[c].valid /\ Cardinality(active[c]) = 1

Spawned(c) == IF ServeSpawn(c) THEN 1..(wspawn[c].num - 1) ELSE {}

StalledAfterSpawnKept(c) == stalled[c]
StalledAfterSpawn(c) == IF ServeSpawn(c) THEN stalled[c] \ {0} ELSE stalled[c]

SpawnStillPending(c) == wspawn[c].valid /\ ~ServeSpawn(c)

(* Then the ready warp with the lowest index is scheduled and its          *)
(* instruction emulated: the PC and the thread mask take their new values  *)
(* at once, and the warp is suspended behind the new trace.                *)
Schedule(c) ==
    LET act   == active[c] \cup Spawned(c)
        stl   == StalledAfterSpawn(c)
        pcs   == [w \in Warps |->
                    IF w \in Spawned(c) THEN wspawn[c].entry ELSE pc[c][w]]
        ready == act \ stl
    IN  \E w \in ready :
          /\ \A v \in ready : w <= v
          /\ \E i \in Code[w][pcs[w]] :
               /\ pc' = [pc EXCEPT ![c] = [pcs EXCEPT ![w] = i.next]]
               /\ active' = [active EXCEPT ![c] =
                               IF i.alive THEN act ELSE act \ {w}]
               /\ stalled' = [stalled EXCEPT ![c] = stl \cup {w}]
               /\ trace' = [trace EXCEPT ![c][w] = InFlight(i, "fetch")]
          /\ wspawn' = [wspawn EXCEPT ![c].valid = SpawnStillPending(c)]
          /\ UNCHANGED <<barriers, clusterBar>>

(* Core::decode releases the warp of an instruction without fetch_stall;   *)
(* the others go on to their functional unit with the warp still stalled.  *)
FetchStall(i) == i.op # "plain"

DecodeReleasesAll(c, w) ==
    /\ trace[c][w].stage = "fetch"
    /\ stalled' = [stalled EXCEPT ![c] = @ \ {w}]
    /\ trace' = [trace EXCEPT ![c][w] =
                   IF FetchStall(@.instr) THEN InFlight(@.instr, "execute")
                                          ELSE NoTrace]
    /\ UNCHANGED <<pc, active, wspawn, barriers, clusterBar>>

Decode(c, w) ==
    /\ trace[c][w].stage = "fetch"
    /\ IF FetchStall(trace[c][w].instr)
       THEN /\ trace' = [trace EXCEPT ![c][w] = InFlight(@.instr, "execute")]
            /\ UNCHANGED stalled
       ELSE /\ trace' = [trace EXCEPT ![c][w] = NoTrace]
            /\ stalled' = [stalled EXCEPT ![c] = @ \ {w}]
    /\ UNCHANGED <<pc, active, wspawn, barriers, clusterBar>>

----------------------------------------------------------------------------
(* What a functional unit does with the trace of warp w that reached it.   *)
AtUnit(c, w, ops) ==
    /\ trace[c][w].stage = "execute"
    /\ trace[c][w].instr.op \in ops
    /\ trace' = [trace EXCEPT ![c][w] = NoTrace]

(* Emulator::resume(wid) *)
Resume(c, w) == stalled' = [stalled EXCEPT ![c] = @ \ {w}]

(* AluUnit::tick for a branch, SfuUnit::tick for TMC, SPLIT, JOIN, PRED    *)
(* and CSR instructions: the unit releases the warp.                       *)
ExecuteRelease(c, w) ==
    /\ AtUnit(c, w, {"branch", "wctl"})
    /\ Resume(c, w)
    /\ UNCHANGED <<pc, active, wspawn, barriers, clusterBar>>

(* Emulator::wspawn: a request for fewer than two warps returns at once if *)
(* the caller is alone; every other request waits for step().              *)
ReturnsAtOnceLoose(c, n) == n < 2
ReturnsAtOnce(c, n) == n < 2 /\ Cardinality(active[c]) = 1

SpawnCountUnclamped(num) == num
SpawnCount(num) == IF num < NumWarps THEN num ELSE NumWarps

ExecuteWspawn(c, w) ==
    LET i == trace[c][w].instr
        n == SpawnCount(i.num)
    IN  /\ AtUnit(c, w, {"wspawn"})
        /\ IF ReturnsAtOnce(c, n)
           THEN Resume(c, w) /\ UNCHANGED wspawn
           ELSE /\ wspawn' = [wspawn EXCEPT ![c] =
                                [valid |-> TRUE, num |-> n, entry |-> i.entry]]
                /\ UNCHANGED stalled
        /\ UNCHANGED <<pc, active, barriers, clusterBar>>

----------------------------------------------------------------------------
(* Emulator::barrier, a count below two: the warp goes on.                 *)
ExecuteBarTrivial(c, w) ==
    /\ AtUnit(c, w, {"bar"})
    /\ trace[c][w].instr.count < 2
    /\ Resume(c, w)
    /\ UNCHANGED <<pc, active, wspawn, barriers, clusterBar>>

(* Emulator::barrier, local: the last of count warps releases them all and *)
(* empties the barrier.                                                    *)
BarrierKept(members) == members
BarrierReset(members) == {}

BarrierReachedLate(members, count) == Cardinality(members) > count
BarrierReachedEarly(members, count) == Cardinality(members) + 1 = count
BarrierReached(members, count) == Cardinality(members) = count

ExecuteBarLocal(c, w) ==
    LET i       == trace[c][w].instr
        members == barriers[c][i.bar] \cup {w}
    IN  /\ AtUnit(c, w, {"bar"})
        /\ i.count >= 2
        /\ ~i.global
        /\ IF BarrierReached(members, i.count)
           THEN /\ stalled' = [stalled EXCEPT ![c] = @ \ members]
                /\ barriers' = [barriers EXCEPT ![c][i.bar] =
                                  BarrierReset(members)]
           ELSE /\ barriers' = [barriers EXCEPT ![c][i.bar] = members]
                /\ UNCHANGED stalled
        /\ UNCHANGED <<pc, active, wspawn, clusterBar>>

(* Core ids are global (Socket's constructor numbers them from             *)
(* socket_id * cores_per_socket), yet Socket::barrier adds the offset of   *)
(* the socket once more, and Cluster::barrier takes the result modulo the  *)
(* number of cores.                                                        *)
SocketOf(c) == c \div CoresPerSocket
LocalCoreId(c) == (SocketOf(c) * CoresPerSocket + c) % NumCores

(* Cluster::barrier: once count cores are there, Socket::resume clears the *)
(* stall of every warp of each core in the barrier.                        *)

ClusterBarrier(b, count, core) ==
    LET cores == clusterBar[b] \cup {core}
    IN  IF Cardinality(cores) = count
        THEN /\ stalled' = [c \in Cores |->
                              IF c \in cores THEN {} ELSE stalled[c]]
             /\ clusterBar' = [clusterBar EXCEPT ![b] = {}]
        ELSE /\ clusterBar' = [clusterBar EXCEPT ![b] = cores]
             /\ UNCHANGED stalled

(* Emulator::barrier, global: once all the active warps of the core are    *)
(* there, the core enters the cluster's barrier.                           *)
CoreArrivedFirst(c, members) == TRUE
CoreArrivedLate(c, members) == Cardinality(members) > Cardinality(active[c])
CoreArrived(c, members) == Cardinality(members) = Cardinality(active[c])

ExecuteBarGlobal(c, w) ==
    LET i       == trace[c][w].instr
        members == barriers[c][i.bar] \cup {w}
    IN  /\ AtUnit(c, w, {"bar"})
        /\ i.count >= 2
        /\ i.global
        /\ IF CoreArrived(c, members)
           THEN /\ ClusterBarrier(i.bar, i.count, LocalCoreId(c))
                /\ barriers' = [barriers EXCEPT ![c][i.bar] = {}]
           ELSE /\ barriers' = [barriers EXCEPT ![c][i.bar] = members]
                /\ UNCHANGED <<stalled, clusterBar>>
        /\ UNCHANGED <<pc, active, wspawn>>

Execute(c, w) ==
    \/ ExecuteRelease(c, w)
    \/ ExecuteWspawn(c, w)
    \/ ExecuteBarTrivial(c, w)
    \/ ExecuteBarLocal(c, w)
    \/ ExecuteBarGlobal(c, w)

----------------------------------------------------------------------------
Next ==
    \/ \E c \in Cores : Schedule(c)
    \/ \E c \in Cores, w \in Warps : Decode(c, w)
    \/ \E c \in Cores, w \in Warps : ExecuteRelease(c, w)
    \/ \E c \in Cores, w \in Warps : ExecuteWspawn(c, w)
    \/ \E c \in Cores, w \in Warps : ExecuteBarTrivial(c, w)
    \/ \E c \in Cores, w \in Warps : ExecuteBarLocal(c, w)
    \/ \E c \in Cores, w \in Warps : ExecuteBarGlobal(c, w)
    \/ Rerun

Spec == Init /\ [][Next]_vars

(* Every cycle ticks every core through all its stages, the instruction    *)
(* cache answers every fetch and the issue stage serves the warps in turn. *)
Fairness ==
    /\ \A c \in Cores : WF_vars(Schedule(c))
    /\ \A c \in Cores, w \in Warps : WF_vars(Decode(c, w))
    /\ \A c \in Cores, w \in Warps : WF_vars(Execute(c, w))

FairSpec == Spec /\ Fairness

----------------------------------------------------------------------------
(* Every variable has the shape its C++ member has.                        *)
TypeOK ==
    /\ pc \in [Cores -> [Warps -> PCs]]
    /\ active \in [Cores -> SUBSET Warps]
    /\ stalled \in [Cores -> SUBSET Warps]
    /\ wspawn \in [Cores -> [valid : BOOLEAN, num : 0..NumWarps, entry : PCs]]
    /\ barriers \in [Cores -> [Barriers -> SUBSET Warps]]
    /\ trace \in [Cores -> [Warps -> Traces]]
    /\ clusterBar \in [Barriers -> SUBSET Cores]

(* A warp whose trace is still on its way to the decoder or to a unit is   *)
(* stalled.  This is what `assert(stalled_warps_.test(wid))` of            *)
(* Emulator::resume relies on, and what keeps a warp from being scheduled  *)
(* past an instruction that has not taken effect.                          *)
HoldersStalled ==
    \A c \in Cores, w \in Warps : trace[c][w] # NoTrace => w \in stalled[c]

(* No stall is orphaned: whoever is stalled has somebody left to release   *)
(* it: its own trace, the barrier of the core it is counted in, the        *)
(* pending spawn (warp 0), or the cluster barrier that the core entered.   *)
NoOrphanStall ==
    \A c \in Cores : \A w \in stalled[c] :
        \/ trace[c][w] # NoTrace
        \/ \E b \in Barriers : w \in barriers[c][b]
        \/ w = 0 /\ wspawn[c].valid
        \/ \E b \in Barriers : LocalCoreId(c) \in clusterBar[b]

(* A warp counted in a barrier is parked there: active (it will be needed  *)
(* after the barrier), stalled, with no instruction in flight, and in no   *)
(* other barrier, whatever the interleaving of arrivals, exits and spawns. *)
BarrierMembersParked ==
    \A c \in Cores, b \in Barriers : \A w \in barriers[c][b] :
        /\ w \in active[c]
        /\ w \in stalled[c]
        /\ trace[c][w] = NoTrace
        /\ \A d \in Barriers \ {b} : w \notin barriers[c][d]

(* A pending spawn has its caller waiting: warp 0 is active, stalled, has  *)
(* nothing in flight and is in no barrier, so `stalled_warps_.reset(0)` of *)
(* step() releases the caller and nobody else.                             *)
SpawnerParked ==
    \A c \in Cores : wspawn[c].valid =>
        /\ 0 \in active[c]
        /\ 0 \in stalled[c]
        /\ trace[c][0] = NoTrace
        /\ \A b \in Barriers : 0 \notin barriers[c][b]

(* What the four invariants above need to be inductive: only warp 0 has a  *)
(* spawn in flight, no global barrier is in flight, and a warp whose       *)
(* instruction left threads running is active until the trace lands.       *)
TraceOwner ==
    \A c \in Cores, w \in Warps : trace[c][w] # NoTrace =>
        /\ trace[c][w].instr.op = "wspawn" => w = 0
        /\ trace[c][w].instr.op = "bar" => ~trace[c][w].instr.global
        /\ trace[c][w].instr.alive => w \in active[c]

WarpInv ==
    /\ TypeOK
    /\ HoldersStalled
    /\ NoOrphanStall
    /\ BarrierMembersParked
    /\ SpawnerParked
    /\ TraceOwner

(* Spawned warps start only when the spawning warp 0 is the last one       *)
(* active, so that no running warp ever has its PC overwritten.            *)
SpawnWaitsForAll ==
    [][\A c \in Cores : wspawn[c].valid /\ ~wspawn'[c].valid =>
            active[c] = {0}]_vars
=============================================================================
