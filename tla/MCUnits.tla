------------------------------ MODULE MCUnits ------------------------------
(***************************************************************************)
(* The units that share no state with one another, each checked on a small *)
(* instance of its own.  `unit' is the one a behaviour is about; it is     *)
(* chosen in the initial state, and the others are off or do not leave     *)
(* their initial states.                                                   *)
(***************************************************************************)
EXTENDS DeviceRun, OpaeDma, Acl, Switch, LsuPath, Rasterizer, Spawn

VARIABLES
    unit,
    \* Simt
    simtProg, pc, tmask, simtActive, stack, reg, cnt, simtPos, abort, simtRun,
    \* RasterUnit
    prims, pos, avail, memTrace, memState, rasPending, rasStamps, fetched, input, flying,
    nextUnit, warp, active, given

----------------------------------------------------------------------------
(* Four lanes over two channels of a data cache with two lines and a local *)
(* memory of two banks.                                                    *)
Access(kind, mask, addr) == [kind |-> kind, mask |-> mask, addr |-> addr]
\* two rounds in channel 0, a merge in channel 1
TwoRounds == Access("load", Lanes, [i \in Lanes |-> IF i = 1 THEN "b" ELSE "a"])
\* both memories, a bank conflict
BothMemories == Access("load", 0..2, [i \in 0..2 |-> IF i = 1 THEN "a" ELSE "s"])
\* two rounds, and a lane to local memory
Store == Access("store", {0, 1, 3}, [i \in {0, 1, 3} |-> CASE i = 0 -> "a" [] i = 1 -> "b" [] i = 3 -> "s"])
Fence == Access("fence", {0}, [i \in {0} |-> "a"])

LsuPrograms ==
    {<<TwoRounds, BothMemories, TwoRounds>>, <<BothMemories, BothMemories, BothMemories>>,
     <<TwoRounds, Fence, BothMemories>>, <<BothMemories, Store, Fence>>,
     <<Store, Fence, TwoRounds>>, <<Store, TwoRounds, Store>>}

----------------------------------------------------------------------------
(* Programs in the layout of the compiler, with the intrinsics of          *)
(* src/kernel/include/vx_intrinsics.h.                                     *)
TmcOf(mask)         == [op |-> "tmc", mask |-> mask]
SplitOn(c, n)       == [op |-> "split", c |-> c, neg |-> n]
BranchIf(c, to)     == [op |-> "branch", c |-> c, neg |-> FALSE, to |-> to]
BranchUnless(c, to) == [op |-> "branch", c |-> c, neg |-> TRUE, to |-> to]
JumpTo(to)          == [op |-> "jump", to |-> to]
JoinOf(s)           == [op |-> "join", of |-> s]
PredOn(c, m)        == [op |-> "pred", c |-> c, neg |-> FALSE, of |-> m]
SaveMask            == [op |-> "mask"]
WorkOn(c)           == [op |-> "work", c |-> c]
LoadData            == [op |-> "load"]
End                 == <<TmcOf({0}), TmcOf({})>>

(* if (a) { if (!b) {} else b-- } else { do b-- while (b) }                *)
IfIfElseLoop ==
    <<TmcOf(0..2), LoadData,
      SplitOn("a", FALSE), BranchUnless("a", 10),
         SplitOn("b", TRUE), BranchUnless("b", 8), WorkOn("b"), JoinOf(5),
         JumpTo(14),
         SaveMask, WorkOn("b"), PredOn("b", 10), BranchIf("b", 11),
      JoinOf(3)>> \o End

(* do { if (b) b-- ; a-- } while (a)                                       *)
LoopIf ==
    <<TmcOf(0..2), LoadData,
      SaveMask,
         SplitOn("b", FALSE), BranchUnless("b", 7), WorkOn("b"), JoinOf(4),
         WorkOn("a"), PredOn("a", 3), BranchIf("a", 4)>> \o End

(* if (a) { a--; if (b) { if (a) a-- } }: more levels than the stack has   *)
ThreeIfs ==
    <<TmcOf(0..2), LoadData,
      SplitOn("a", FALSE), BranchUnless("a", 11), WorkOn("a"),
         SplitOn("b", FALSE), BranchUnless("b", 10),
            SplitOn("a", FALSE),
            JoinOf(8),
         JoinOf(6),
      JoinOf(3)>> \o End

S == INSTANCE Simt WITH
    NumThreads <- 3, Programs <- {IfIfElseLoop, LoopIf, ThreeIfs},
    Counters <- {"a", "b"}, Counts <- {0, 1, 2}, MaxRuns <- 2,
    prog <- simtProg, active <- simtActive, pos <- simtPos, run <- simtRun

----------------------------------------------------------------------------
(* Launches that vx_spawn_threads distributes without a remainder of tasks *)
(* per core; Spawn.cfg is about the others.                                *)
Launch(cores, groups, size) ==
    [cores |-> cores, warps |-> 2, threads |-> 2, groups |-> groups, size |-> size]
SoundLaunches ==
    {Launch(c, g, s) : c \in {1, 2}, g \in 1..7, s \in {2, 3, 4}}
        \cup {Launch(3, g, s) : g \in {3, 4, 6, 7}, s \in {2, 3, 4}}
        \cup {Launch(1, g, 1) : g \in {2, 4, 6, 10}}
        \cup {Launch(2, g, 1) : g \in {4, 8, 12, 20}}

Shape(i, o, tags, arbiter) == [inputs |-> i, outputs |-> o, tags |-> tags, arbiter |-> arbiter]
UnitShapes ==
    {Shape(2, 1, {0, 1}, "RoundRobin"), Shape(3, 1, {0}, "RoundRobin"), Shape(4, 2, {0}, "RoundRobin"),
     Shape(5, 1, {0}, "RoundRobin"), Shape(2, 1, {0, 1}, "Priority")}

(* Two units; tiles with primitives that cover nothing, and a last tile    *)
(* without any stamp.  Warps of two threads and of one.                    *)
R == INSTANCE RasterUnit WITH
    Tiles <- <<<<3, 0>>, <<1>>, <<0, 2>>, <<0>>>>, NumUnits <- 2, WarpSizes <- <<2, 1>>,
    Reads <- [header |-> 2, primitive |-> 1, edges |-> 2],
    pending <- rasPending, stamps <- rasStamps

Edge(x, y, z) == [x |-> x, y |-> y, z |-> z]
Scissor(l, r, t, b) == [left |-> l, right |-> r, top |-> t, bottom |-> b]
TileEdges == {Edge(1, -1, 0), Edge(-1, 2, 1), Edge(2, 1, -9), Edge(-1, -1, 8), Edge(0, 1, -2)}
TilePlaces == {[x |-> 0, y |-> 0], [x |-> 8, y |-> 0]}
TileScissors == {Scissor(0, 16, 0, 8), Scissor(1, 11, 2, 5), Scissor(0, 0, 0, 0)}

ASSUME UnitsAssumption ==
    /\ LsuAssumption /\ DeviceAssumption /\ AclAssumption
    /\ SwitchAssumption /\ DmaAssumption /\ TileAssumption /\ LaunchAssumption

----------------------------------------------------------------------------
off == "off"

(* The registers start with the same value: the values are interchangeable. *)
DeviceOn == DeviceInit /\ dcrs = [r \in Items |-> "v"]
DeviceOff == DeviceOn /\ driver = "simx"
SimtOff ==
    /\ simtProg = off /\ pc = off /\ tmask = off /\ simtActive = off /\ stack = off
    /\ reg = off /\ cnt = off /\ simtPos = off /\ abort = off /\ simtRun = off
SpawnOff == SpawnInit /\ launch = Launch(1, 2, 1)
SwitchOff == SwitchInit /\ shape = Shape(2, 1, {0, 1}, "RoundRobin")
RasterOff ==
    /\ prims = off /\ pos = off /\ avail = off /\ memTrace = off /\ memState = off /\ rasPending = off
    /\ rasStamps = off /\ fetched = off /\ input = off /\ flying = off /\ nextUnit = off
    /\ warp = off /\ active = off /\ given = off
TileOff ==
    TileInit /\ edges = [s \in Sides |-> Edge(1, -1, 0)] /\ origin.x = 0 /\ scissor = Scissor(0, 0, 0, 0)

Units == {"lsu", "device", "simt", "spawn", "dma", "acl", "switch", "raster", "tile"}

Init ==
    /\ unit \in Units
    /\ LsuInit
    /\ IF unit = "device" THEN DeviceOn ELSE DeviceOff
    /\ IF unit = "simt" THEN S!Init ELSE SimtOff
    /\ IF unit = "spawn" THEN SpawnInit ELSE SpawnOff
    /\ DmaInit
    /\ AclInit
    /\ IF unit = "switch" THEN SwitchInit ELSE SwitchOff
    /\ IF unit = "raster" THEN R!Init ELSE RasterOff
    /\ IF unit = "tile" THEN TileInit ELSE TileOff

----------------------------------------------------------------------------
simtVars == <<simtProg, pc, tmask, simtActive, stack, reg, cnt, simtPos, abort, simtRun>>
rasterVars == <<prims, pos, avail, memTrace, memState, rasPending, rasStamps, fetched, input,
                flying, nextUnit, warp, active, given>>
vars == <<unit, lsuVars, deviceVars, simtVars, spawnVars, dmaVars, aclVars, switchVars, rasterVars, tileVars>>

NotLsu    == UNCHANGED <<unit, deviceVars, simtVars, spawnVars, dmaVars, aclVars,
                         switchVars, rasterVars, tileVars>>
NotDevice == UNCHANGED <<unit, lsuVars, simtVars, spawnVars, dmaVars, aclVars,
                         switchVars, rasterVars, tileVars>>
NotSimt   == UNCHANGED <<unit, lsuVars, deviceVars, spawnVars, dmaVars, aclVars,
                         switchVars, rasterVars, tileVars>>
NotSpawn  == UNCHANGED <<unit, lsuVars, deviceVars, simtVars, dmaVars, aclVars,
                         switchVars, rasterVars, tileVars>>
NotDma    == UNCHANGED <<unit, lsuVars, deviceVars, simtVars, spawnVars, aclVars,
                         switchVars, rasterVars, tileVars>>
NotAcl    == UNCHANGED <<unit, lsuVars, deviceVars, simtVars, spawnVars, dmaVars,
                         switchVars, rasterVars, tileVars>>
NotSwitch == UNCHANGED <<unit, lsuVars, deviceVars, simtVars, spawnVars, dmaVars,
                         aclVars, rasterVars, tileVars>>
NotRaster == UNCHANGED <<unit, lsuVars, deviceVars, simtVars, spawnVars, dmaVars,
                         aclVars, switchVars, tileVars>>
NotTile   == UNCHANGED <<unit, lsuVars, deviceVars, simtVars, spawnVars, dmaVars,
                         aclVars, switchVars, rasterVars>>

Next ==
    \/ unit = "lsu" /\ LsuNext /\ NotLsu
    \/ unit = "device" /\ DeviceNext /\ NotDevice
    \/ unit = "simt" /\ S!Next /\ NotSimt
    \/ unit = "spawn" /\ SpawnNext /\ NotSpawn
    \/ unit = "dma" /\ DmaNext /\ NotDma
    \/ unit = "acl" /\ AclNext /\ NotAcl
    \/ unit = "switch" /\ SwitchNext /\ NotSwitch
    \/ unit = "raster" /\ R!Next /\ NotRaster
    \/ unit = "tile" /\ TileNext /\ NotTile

(* The fairness of the units that have liveness properties.                *)
Progress ==
    \/ unit = "lsu" /\ LsuProgress /\ NotLsu
    \/ unit = "device" /\ Host /\ NotDevice
    \/ unit = "dma" /\ Transfer /\ NotDma
    \/ unit = "raster" /\ R!Next /\ NotRaster

Fairness == WF_vars(Progress) /\ WF_vars(unit = "device" /\ Device /\ NotDevice)

FairSpec == Init /\ [][Next]_vars /\ Fairness

----------------------------------------------------------------------------
(* Simt: every thread in the mask is where it would be if it ran alone     *)
(* (execute.cpp: SPLIT, JOIN, PRED and the branches).                      *)
InStep == unit = "simt" => S!InStep

(* Simt: no structured program makes the emulator abort.                   *)
NoAbort == unit = "simt" => S!NoAbort

(* RasterUnit: every warp comes to its end for good and all stamps are     *)
(* handed out once (raster_unit.cpp).                                      *)
RasterDrains == []<>(unit = "raster" => R!AllEnd)
=============================================================================
