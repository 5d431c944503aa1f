------------------------------- MODULE Spawn -------------------------------
(***************************************************************************)
(* vx_spawn_threads (src/kernel/src/vx_spawn.c): how every core, from the  *)
(* same arguments and its own id, finds its part of a grid of blocks, its  *)
(* warps their batches and its threads their tasks.                        *)
(*                                                                         *)
(* A block of one thread is a task; tasks fill the warps of a core, and    *)
(* those that do not fill one are run by warp 0 at the end.  Blocks of     *)
(* several threads take whole warps.  blockIdx and threadIdx are the       *)
(* linear indices here; the code stores their x, y and z digits.           *)
(***************************************************************************)
EXTENDS Integers, FiniteSets

CONSTANT Launches   \* records: cores, warps, threads, groups, size

Count == Nat \ {0}

ASSUME LaunchAssumption ==
    Launches \subseteq [cores : Count, warps : Count, threads : Count, groups : Count, size : Count]

VARIABLES
    launch,   \* the device and the grid
    stage,    \* stage[c]: where core c is in vx_spawn_threads
    iter,     \* iter[c][w]: batches warp w has run
    blockIdx, \* blockIdx[c][w][t], thread local
    ran       \* ran[g, l]: how often thread l of block g was run

spawnVars == <<launch, stage, iter, blockIdx, ran>>

Cores == 0..(launch.cores - 1)
Warps == 0..(launch.warps - 1)
Threads == 0..(launch.threads - 1)
Blocks == 0..(launch.groups - 1)
Locals == 0..(launch.size - 1)
MaxBlock == 2 * launch.groups + launch.cores * launch.cores  \* bound: ids a wrong offset can reach

SMin(a, b) == IF a < b THEN a ELSE b
CeilDiv(a, b) == (a + b - 1) \div b
Grouped == launch.size > 1

----------------------------------------------------------------------------
(* The part of a core.                                                     *)
WarpsPerGroup == CeilDiv(launch.size, launch.threads)
GroupsPerCore == launch.warps \div WarpsPerGroup

NeededCores ==
    IF Grouped THEN CeilDiv(launch.groups * WarpsPerGroup, launch.warps)
    ELSE CeilDiv(launch.groups, launch.warps * launch.threads)
ActiveCores == SMin(NeededCores, launch.cores)

Left == launch.groups % ActiveCores
Share(c) == launch.groups \div ActiveCores + (IF c < Left THEN 1 ELSE 0)
OffsetPlain(c) == c * Share(c)
Offset(c) == c * Share(c) + SMin(c, Left)

(* Warps to fill, in one batch or in several.                              *)
TotalWarps(c) ==
    IF Grouped THEN Share(c) * WarpsPerGroup ELSE Share(c) \div launch.threads
Capacity == IF Grouped THEN GroupsPerCore * WarpsPerGroup ELSE launch.warps
Batched(c) == TotalWarps(c) > launch.warps
ActiveWarps(c) == IF Batched(c) THEN Capacity ELSE TotalWarps(c)
WarpBatches(c) == IF Batched(c) THEN TotalWarps(c) \div Capacity ELSE 1
RemainingWarps(c) ==
    IF Batched(c) THEN TotalWarps(c) - WarpBatches(c) * Capacity ELSE 0
Iterations(c, w) == WarpBatches(c) + (IF w < RemainingWarps(c) THEN 1 ELSE 0)

(* process_threads and process_thread_groups: the block and the place in   *)
(* it of a thread in its k-th batch.                                       *)
StartWarp(c, w) == w * WarpBatches(c) + SMin(w, RemainingWarps(c))
BlockOf(c, w, t, k) ==
    IF Grouped THEN Offset(c) + w \div WarpsPerGroup + k * GroupsPerCore
    ELSE Offset(c) + (StartWarp(c, w) + k) * launch.threads + t
LocalOf(w, t) == IF Grouped THEN (w % WarpsPerGroup) * launch.threads + t ELSE 0

(* The last warp of a group has the threads that are left.                 *)
MaskOf(w) ==
    IF Grouped /\ w % WarpsPerGroup = WarpsPerGroup - 1 /\ launch.size % launch.threads # 0
    THEN 0..((launch.size % launch.threads) - 1) ELSE Threads

RemainingTasks(c) == IF Grouped THEN 0 ELSE Share(c) % launch.threads

----------------------------------------------------------------------------
SpawnInit ==
    /\ launch \in Launches
    /\ stage = [c \in Cores |-> "begin"]
    /\ iter = [c \in Cores |-> [w \in Warps |-> 0]]
    /\ blockIdx = [c \in Cores |-> [w \in Warps |-> [t \in Threads |-> 0]]]
    /\ ran = [task \in (0..MaxBlock) \X Locals |-> 0]

(* The checks and early returns, then the spawn of the warps.              *)
SpawnBegin(c) ==
    /\ stage[c] = "begin"
    /\ stage' = [stage EXCEPT ![c] =
         IF launch.warps * launch.threads < launch.size \/ c >= ActiveCores THEN "done"
         ELSE "run"]
    /\ UNCHANGED <<launch, iter, blockIdx, ran>>

(* The callback in all the threads of a mask, with their blockIdx.         *)
Called(c, w, mask) ==
    ran' = [task \in DOMAIN ran |->
              ran[task] + Cardinality({t \in mask :
                            blockIdx'[c][w][t] = task[1] /\ LocalOf(w, t) = task[2]})]

RunBatch(c, w) ==
    /\ stage[c] = "run" /\ w < ActiveWarps(c)
    /\ iter[c][w] < Iterations(c, w)
    /\ iter' = [iter EXCEPT ![c][w] = @ + 1]
    /\ blockIdx' = [blockIdx EXCEPT ![c][w] =
         [t \in Threads |-> IF t \in MaskOf(w) THEN BlockOf(c, w, t, iter[c][w]) ELSE @[t]]]
    /\ Called(c, w, MaskOf(w))
    /\ UNCHANGED <<launch, stage>>

WarpDone(c, w) == w >= ActiveWarps(c) \/ iter[c][w] = Iterations(c, w)

(* process_remaining_threads computes the task and calls the kernel; it    *)
(* does not store the task in blockIdx.                                    *)
RunRemaining(c) ==
    /\ stage[c] = "run" /\ WarpDone(c, 0)
    /\ stage' = [stage EXCEPT ![c] = "wait"]
    /\ UNCHANGED blockIdx
    /\ Called(c, 0, {t \in Threads : t < RemainingTasks(c)})
    /\ UNCHANGED <<launch, iter>>

(* vx_wspawn(1, 0): wait for the other warps.                              *)
Finish(c) ==
    /\ stage[c] = "wait" /\ \A w \in Warps : WarpDone(c, w)
    /\ stage' = [stage EXCEPT ![c] = "done"]
    /\ UNCHANGED <<launch, iter, blockIdx, ran>>

SpawnNext ==
    \E c \in Cores :
        \/ SpawnBegin(c)
        \/ \E w \in Warps : RunBatch(c, w)
        \/ RunRemaining(c)
        \/ Finish(c)

SpawnSpec == SpawnInit /\ [][SpawnNext]_spawnVars

----------------------------------------------------------------------------
(* A grid launch runs each thread of each block exactly once, and nothing  *)
(* else, whatever the grid and the device (vx_spawn.h: "launch a kernel    *)
(* function with a grid of blocks and block of threads").                  *)
EachTaskOnce ==
    (\A c \in Cores : stage[c] = "done") /\ launch.size <= launch.warps * launch.threads =>
        \A task \in DOMAIN ran : ran[task] = IF task[1] \in Blocks THEN 1 ELSE 0
=============================================================================
