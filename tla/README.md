# A TLA+ model of the Skybox / Vortex GPGPU simulator and runtime

Skybox is a RISC-V GPGPU (Vortex with graphics units). The repository holds its
RTL (`hw/rtl`), a cycle-level C++ simulator of it (`sim/simx`), a host runtime
(`runtime`) and a device library (`kernel`). This project models the control
logic of the simulator, of the runtime's back ends with the command state
machines they drive, and of the library's work distribution: the parts of the
program that are concurrent in themselves (warps, pipelines, caches, barriers,
host and device proceed at their own pace) and that unit tests reach least.

The files are TLA+ modules (`*.tla`), TLC configurations (`*.cfg`), and
`PROJECT.json`, which lists components, runs, mutants, hazards, findings and
theorems and maps every definition to the lines it models.

## Inventory

| Component | State | Operations | Interacts with | What makes it correct |
|---|---|---|---|---|
| Warp control (`emulator`, `core`, `socket`, `cluster`) | `active_warps_`, `stalled_warps_`, `wspawn_`, barriers of core and cluster | step, suspend, resume, wspawn, barrier | pipeline (traces carry the release), other cores | a stall has exactly one owner; barriers separate phases; spawn and join wait |
| Core pipeline (`core`, `ibuffer`, `scoreboard`, `operand`, `dispatcher`) | latches, ibuffers, scoreboard, queues, `pending_instrs_` | schedule, fetch, decode, issue, dispatch, execute, commit | caches, units, warp control | no hazard passes the scoreboard; program order at issue; the core stops when and only when it is drained |
| Cache bank and MSHR (`cache_sim`) | lines, MSHR slots, port queues | tick: replay, fill, core request, bypass; reset | cores, next level or DRAM | fills and slots match; no request lost or answered twice; every read answered |
| LSU path (`func_unit`, `mem_coalescer`, `local_mem`, `types.cpp`) | pending reads, fence lock, sent masks, the coalescer's table, queues | tick, reset | pipeline, caches | every lane answered once; a fence orders; everything completes |
| Thread divergence (`execute.cpp`) | IPDOM stack, thread mask | SPLIT, JOIN, PRED, TMC, branches | warp control | a thread is where it would be alone; no abort |
| Atomic instructions (`execute.cpp`, `mem.cpp`) | the reservation of a core | LR, SC, AMO | RAM | no update is lost |
| Switches (`types.h`) | queues, cursors, tags | tick | caches, cores | an answer returns to who asked; nobody waits more than a round |
| Device memory (`mem_alloc.h`, the `vortex.cpp` files, `callbacks.inc`) | pages, blocks, `allocated_`, buffer handles | alloc, reserve, free, roll back | access rights | buffers are disjoint and in memory; nothing leaks |
| Access rights (`mem.cpp`) | an ordered map of intervals | set, check | RAM, runtime | an access passes exactly when each byte allows it |
| Device control (`runtime/{simx,rtlsim,opae,xrt}`) | the run's thread or state machine, DCRs and the host's copy, `mpm_cache_` | start, ready_wait, dcr_write, upload, download, mpm_query | processor, shells | ready means finished; what is read back is of the last run; calls return |
| OPAE transfers (`vortex_afu.sv`, `opae_sim.cpp`) | windows, request and response counters, buses and banks | upload, download | host, device memory | what is downloaded is what was uploaded; transfers end |
| Raster units (`raster_unit`, `graphics.cpp`) | tile state, memory traces, stamps | tick, RASTER; renderTile | SFU, caches | stamps are handed out once and warps end; coverage is exact |
| Kernel library (`vx_spawn.c`) | per-core and per-warp arguments, `blockIdx` | spawn, batches, remaining tasks | warp control | each task is done once |
| Simulation kernel, memory simulator, processor run loop | events, queues, cycle | tick, reset, run | all | modelled where the parts above meet them |
| Decoding, arithmetic, texture and output merger, RTL cores, shells `xrtsim` and `rtlsim`, start-up and I/O, tracing, build | | | | not modelled, see below |

What is hard here: warps, cores, caches and memory advance independently;
functional execution happens when an instruction is *scheduled* while its
timing trace lives on in the pipeline; memory, operand collectors and units
reorder, and answers come back in pieces; several parties may release one warp;
requests in flight survive the reset between two runs; the host thread runs
beside the device, polls it with timeouts and is not told when a command is
dropped. The list of hazards, each at its line, is in `PROJECT.json`.

## Modules

```
WarpControl  <- WarpControlProofs
     ^------ MCWarpControl                     (programs, barrier properties)
CacheBank    <- CacheBankProofs,    MCCacheBank
CorePipeline <- CorePipelineProofs, MCCorePipeline
MemAlloc     <- MemAllocProofs,     MCMemAlloc
     ^------ MemAlloc INSTANCEs DeviceMemory (abstract)
LsuPath      <- LsuPathProofs
DeviceRun, Acl <- RuntimeProofs
OpaeDma      <- OpaeDmaProofs
Switch, Rasterizer, Spawn <- UnitProofs
LsuPath, DeviceRun, Simt, Spawn, OpaeDma, Acl, Switch, RasterUnit, Rasterizer
             <- MCUnits (one of each: extends the seven that have theorems,
                         instantiates the others)
Spawn        <- MCSpawn
LrSc         <- MCLrSc
```

### WarpControl

One cluster: cores with `active`, `stalled`, the pending `wspawn`, the local
`barriers`, the `trace` in flight of each warp, and the cluster's barrier. The
program is a constant, `Code[w][p]`, a set of instructions for each warp and
program counter; several members stand for data-dependent choices.
`Schedule` is `Emulator::step` and `Core::schedule`: it serves a pending spawn,
picks the lowest ready warp, executes its instruction functionally and leaves
the warp suspended behind the trace. `Decode` is `Core::decode`. The `Execute*`
actions are the units' reactions to the trace: `AluUnit` and `SfuUnit` release
(`ExecuteRelease`), `Emulator::wspawn`, and `Emulator::barrier` in its trivial,
local and global form, the last one through `Socket::barrier` and
`Cluster::barrier` with the core numbering the code really uses. `Rerun` is
`ProcessorImpl::run` started again. A thread mask is reduced to whether it is
empty (`alive`).

`MCWarpControl` holds kernels of the shape of `vx_spawn.c`: warp 0 spawns, all
warps meet at two barriers of one index, warp 0 joins and starts over or ends.

### CacheBank

One bank: `ports` of the cores, `ways` with tag, dirty bit and LRU counter,
`mshr`, fills in memory, answered fills, bypassed IO requests. A tick is
`TickReplay`, `TickFill` or `TickCore`, the priority of `CacheSim::tick`; each
of them also passes on the IO requests at the heads of the ports. `Rerun` is
`CacheSim::reset` at the start of the next run, with the DRAM requests that
survive it. `config` is the cache under consideration, chosen initially:
write-through or write-back, its ports and ways. `answers` and `owed` (lines
written and not written back) are history. The memory behind the bank answers
in any order.

### CorePipeline

The stages of `Core::tick`, each an action. The order in which the ports
deliver is left open where delays depend on the instruction: the instruction
cache, the operand collector (bank conflicts) and the units. The dispatcher's
packets are modelled one by one. `turn` is `ibuffer_idx_` modulo the warps of a
slot. An instruction is a unit, registers, a number of packets and the flag
`fetch_stall`.

### MemAlloc and DeviceMemory

Pages, used and free blocks, `allocated_`, and the handles the program holds.
`Allocate`, `Reserve` and `Release` are the allocator's calls, `MemAlloc`,
`MemReserve` and `MemFree` those of the runtime with the roll back after a
refused `mem_access`. Sums wrap at `Word`. `DeviceMemory` is the abstract
specification: ranges are taken beside all others and given back.
A call that fails without touching the state is a stuttering step.

### LsuPath

The path of one LSU block: LSU table and fence lock, the demultiplexer to local
memory, coalescer, both adapters and the local memory. `PlatformTick` is one cycle of
all of them, because the platform ticks them together and a port delivers one
cycle later; the steps are separate definitions composed in the order data
flows. The data cache is an environment that answers in any order. `Rerun`
is the reset between two runs: it empties the LSU's table and `sent_mask_` and
leaves the queues and the coalescer's table, as the code does. An instruction is
a load, a store or a fence, a lane mask and a line or a bank for each lane.

### DeviceRun

Host and device of the four back ends. The simulators keep a future of the
run and wait for it before `start` and `dcr_write`; the accelerators are a state
machine that OPAE drives with commands it drops unless idle, and that XRT
drives with a start bit and writes. `Begin` starts a call, `Host` are its steps
(polls with a timeout), `Device` the
steps of the run and of the memory that acknowledges its last writes. A timeout
is a number of milliseconds, as the callers give it. The simulators divide it
once and count seconds (`Counted`); the accelerators subtract the sleep of each
poll (`SleepTime`: 1 ms, or `XrtSleep` in XRT, which is a second in debug
builds) in an unsigned word of `TimeoutBits`, and it may step over zero. A kernel
may never end (`endless`). The host keeps the order of the runtime's programs,
`Ordered`: between `start` and a `ready_wait` that succeeded it only makes calls
that the back end itself orders after the run. `memory`, `latched` and `wanted`
say which run's results, and which register values, are where.

### Simt

One warp: `pc`, `tmask`, the IPDOM `stack` and the registers that SPLIT, JOIN
and PRED read, on programs in the layout of `vx_intrinsics.h` and the compiler.
`pos` is an observer that runs each thread alone; `InStep` compares. `abort` is
reached where the code calls `std::abort`. `Restart` begins again with the
stack as the last program left it.

### Spawn

`vx_spawn_threads` on all the cores: the division of groups and tasks by cores,
warps and batches with the code's own expressions, one action per batch of a
warp and one for the remaining tasks. `blockIdx` is thread-local and outlives a
batch. `ran` counts how often each task was run.

### OpaeDma, Acl, Switch, RasterUnit, Rasterizer, LrSc

`OpaeDma` interleaves the engines of `vortex_afu.sv` (read requests in windows,
out-of-order answers, the write engine) with the buses and banks of
`opae_sim.cpp`; uploads of no lines, which the driver sends too, are among its
commands. `Acl` is `ACLManager` as a set of intervals, changed by the
runtime's calls on buffers; `rights` is an observer that keeps each byte's
rights. `Switch` is one switch with requesters that ask for ever, the tag bits
and the cursor. The number of places of an output is the ratio of inputs to
outputs, rounded down by the division and up to a power of two by `log2ceil`;
places that are no input are skipped.
`RasterUnit` has several units, the RASTER instruction that takes stamps at once
and the trace that waits for the reads behind them. `Rasterizer` replaces the
recursion of `renderTile` by a stack of tiles. `LrSc` is one word counted up by
LR and SC, or AMOADD, from warps of two cores.

## Runs

| Run | Instance | Shows |
|---|---|---|
| `warp_local` | 1 core, 3 warps, 2 barrier indices; more warps asked for than exist | stalls have owners, barrier phases never mix, the join waits, whoever is stalled is released |
| `warp_global` | 1 socket, 2 cores, 2 warps each | global barriers separate the phases of all warps, every run ends |
| `warp_two_sockets` (violation) | 2 sockets of 1 core | both cores take the same bit of the cluster's barrier: hang |
| `warp_join_global` (violation) | 2 cores, global barrier after the join | a warp that exited is released while its trace is in flight; the assertion of `resume` fails |
| `cache_bank` | write-through: 2 ways, 2 ports, 3 requests of 4 kinds, 2 runs; write-back: 1 way, 1 port, 4 requests; 2 MSHR slots, 3 lines | fills, slots and lines match, requests are conserved, reads are answered |
| `cache_dirty` (violation) | the write-back bank alone | the line of a write miss is never marked dirty |
| `pipeline` | 2 warps in one issue slot, ibuffers and queues of 1, 2 instructions per warp, 2 packets | scoreboard, front end and `pending_instrs_` are right; everything commits |
| `pipe_loads` (violation) | 1 warp, loads of two packets | the register of a load is freed while a packet is outstanding |
| `alloc_main` | up to 4 buffers of 5 sizes, aligned and unaligned reservations, a memory of 36 bytes with pages of 8 and blocks of 2 | blocks tile pages, neighbours merge, nothing leaks, the allocator implements `DeviceMemory` |
| `units` | nine units, see below | their twelve invariants and four liveness properties |
| `spawn_grid` (violation) | 3 cores of 2 warps of 2 threads, 11 tasks | tasks are skipped, and the remaining ones run as another block |
| `lrsc` (violation) | 2 warps of one core with LR and SC, one of another with AMOADD | an update is lost |

`units` holds the units that share no state with one another. `unit` is chosen
in the initial state and the others do not move (the variables of those that
`MCUnits` instantiates are off, those it extends stay in an initial state), so
the run is the disjoint union of nine small ones and a property is about one of
them:

| Unit | Instance | Properties |
|---|---|---|
| `LsuPath` | 4 lanes, 2 channels, tables of 2, 2 lines, 2 banks, 6 programs of 3 instructions, 2 runs | `LanesConserved`: every lane of a load is in one place, across the reset too; `FenceOrders`; `InstrsComplete` |
| `DeviceRun` | 4 back ends, 5 calls, timeouts of 0 to 2 ms in words of 2 bits, seconds and the debug sleep of XRT of 2 ms | `ReadyMeansFinished`, `ResultsOfLastRun`, `CallsReturn` |
| `Simt` | 3 threads, 3 nested programs with loops, counts 0 to 2, 2 starts | `InStep`, `NoAbort` |
| `Spawn` | 1 to 3 cores, launches whose parts come out even | `EachTaskOnce` |
| `OpaeDma` | 4 lines, 2 banks, windows of 2, 2 transfers, uploads of 0 to 4 lines | `DmaIntact`, `DmaEnds` |
| `Acl` | 6 bytes, 2 buffers, 2 rights | `ChecksEveryByte` |
| `Switch` | 2:1, 3:1, 4:2 and 5:1 round robin, 2:1 priority | `AnswersReturn`, `InputsServed` |
| `RasterUnit` | 2 units, 4 tiles, warps of 2 threads and of 1 | `RasterDrains` |
| `Rasterizer` | tile of 8 by 8, all triples of 5 edges, 2 places, 3 scissors, one of them empty | `CoverageExact` |

**Why the bounds are enough.** Three warps let one arrive early, one late and
one exit; two barrier phases of one index and restarts let phases overlap. Two
MSHR slots, three lines and two ways give hits, misses on a line already asked
for, evictions and a full MSHR. Two warps of two instructions with queues of
one entry fill every stage; the longest chain of the scoreboard is a pair of
instructions. Four buffers allow a block with a used or free neighbour on both
sides; the sizes include one that leaves no rest, one that fills the capacity
exactly and one that exceeds it. Three LSU instructions overrun tables of two,
and the programs have merged lanes, several rounds, bank conflicts and both
memories in one load. Five calls allow a run, a write, a second run, a timeout
and a late answer. Three threads give a stack of two entries, and `ThreeIfs`
nests deeper than that. Two windows of two lines need a window to be reused
after out-of-order answers. A timeout of 1 with a sleep of 2 wraps, the others do
not. The switches of 3:1 and 5:1 (8 places; the switch of the L2 cache in its
default bypass) have places without an input; 4:2 has two outputs. An 8 by 8 tile is
three levels of the descent.
Constants named `Max...` are bounds of the model and not of the code. Deadlock
is checked where the system runs for ever (in the pipeline the issue turn moves
in every tick, so that `AllCommitted` is what rules a deadlock out); the cache,
the units, a grid launch and the programs of LR and SC stop when their bounded input is used up, and there the liveness
properties say that they stop at the end.

**Fairness.** Always weak. The platform ticks every object in every cycle, so
that a stage whose input is there runs (`WF` on every action of warp control,
cache and pipeline), and DRAM and caches answer each request they took. In
`units` the fairness is `WF` on one disjunction, `Progress`: some step of the
unit happens while one can. For `LsuPath` that is a tick or an answer of the
cache, for `DeviceRun` a step of the host within a call (never the beginning of
a call), with a second `WF` for the steps of the device, which runs beside it
(never the end of an endless kernel), for `OpaeDma` a
clocked step of a transfer, for `RasterUnit` any step. As the clock never stops
this is weaker than what the code has. Nothing is assumed about the program.

**Limits of the properties.** `ResultsOfLastRun` excepts one case the code gets
wrong by itself, an OPAE `mpm_query` after a query that timed out, which finds
the entry that `mpm_cache_[core_id]` created. `ReadyMeansFinished` rests on
`Ordered`: a host that starts twice without waiting loses a command on OPAE and
is told 0. `EachTaskOnce` of `units` is about launches that divide evenly in the
sense of `EvenLaunch`; `spawn_grid` shows the others. The write-back bank has
one run of the processor: where writes are not answered, as in the caches the
code configures, after a reset a fill of the last run may answer a slot of the
next. `InputsServed` is about round robin, as priority starves by design, and
holds where every input has a place; the shapes of the run are such, and
`LeftOutInputsWait` says what becomes of the other inputs. `FenceOrders` is about
loads: the comment at `func_unit.cpp:143` says "wait for all pending memory
operations to complete", the code waits for `pending_rd_reqs`, and a store on its
way does not hold a fence back. `DmaEnds` is about transfers of at least one line:
an upload of none is in the model and never ends, as `cmd_mem_wr_done`
(`vortex_afu.sv:775`) is set by the last write only; a download of none, which
would ask for lines until its counter comes round, is left out. `CallsReturn` excepts the calls of a
simulator that wait for an endless kernel without a timeout, and an endless
kernel with a timeout that is no multiple of the sleep, which wraps
(`xrt/vortex.cpp:590`, debug builds) and leaves the call without an end.

## Theorems

TLC checks the properties on the instances above; the theorems below hold for
every value of the constants that meets the assumption named with them. The
assumption of a module (`...Assumption`) only says that sizes are natural
numbers, positive where the code divides by them, and that records have their
type; TLC evaluates it in the runs. A second hypothesis is named where a theorem
needs one, with what happens without it. Each proof has an inductive invariant,
which was checked with TLC before it was proved, and a lemma for each action.

| Module | Theorem | Run's property | Hypothesis |
|---|---|---|---|
| `WarpControlProofs` | `TypeCorrect` | `TypeOK` | |
| | `ResumeAssertion` | `HoldersStalled` | `NoGlobalBarriers` |
| | `StallsHaveReleasers` | `NoOrphanStall` | `NoGlobalBarriers` |
| | `BarrierMembers` | `BarrierMembersParked` | `NoGlobalBarriers` |
| | `SpawnWaits` | `SpawnWaitsForAll` (action) | `NoGlobalBarriers` |
| | `LocalBarrier` | `BarrierSeparates` | `KernelProgram(FALSE)` |
| | `JoinIsComplete` | `JoinWaits` | `KernelProgram(FALSE)` |
| | `GlobalBarrier` | `GlobalBarrierSeparates` | `KernelProgram(TRUE)` |
| | `ResumeAssertionGlobal` | `HoldersStalled` | `KernelProgram(TRUE)` |
| `CorePipelineProofs` | `ProgramOrderKept` | `FetchedInOrder` | |
| | `WriterIsAlone` | `WritersAlone` | `SinglePackets` |
| | `RegisterHeld` | `RegistersTracked` | `SinglePackets` |
| | `PendingIsExact` | `PendingCounts` | `SinglePackets` |
| `CacheBankProofs` | `TagsUnique` | `OneWayPerLine` | `RestartsClean` |
| | `FillsComeHome` | `FillsMatched` | `RestartsClean` |
| | `ReplayedLineThere` | `ReplayHits` | `RestartsClean` |
| | `NoRequestLost` | `RequestsConserved` | `RestartsClean` |
| `MemAllocProofs` | `PagesTiled` | `BlocksTilePages` | `NoWrap` |
| | `NeighboursMerged` | `FreeBlocksMerged` | `NoWrap` |
| | `HandlesMatchBlocks` | `HandlesOwnBlocks`, a part of `RuntimeAgrees` | `NoWrap` |
| | `RuntimeCounts` | `RuntimeAgrees` | `NoWrap`, `ReservesAbove` |
| | `AllocatorRefines` | `ImplementsDeviceMemory` (refinement) | `NoWrap` |
| `LsuPathProofs` | `LanesAccounted` | `LanesConserved` | |
| | `FencesOrder` | `FenceOrders` | |
| `RuntimeProofs` | `DeviceTypeCorrect` | | |
| | `ReadyIsTrue` | `ReadyMeansFinished` | |
| | `ReadsLastRun` | `ResultsOfLastRun` | |
| | `AccessChecked` | `ChecksEveryByte` | |
| `UnitProofs` | `AnswersReachAsker` | `AnswersReturn` | |
| | `NoInputStarves` | `InputsServed` | `InputsCovered` |
| | `LeftOutInputsWait` | | |
| | `CoversExactly` | `CoverageExact` | |
| | `GridRunsOnce` | `EachTaskOnce` | `EvenLaunch` |
| `OpaeDmaProofs` | `DownloadsReturnUploads` | `DmaIntact` | |

**Warp control.** The assumptions include that only warp 0 spawns, as in
`vx_spawn.c`; the code itself releases warp 0 whoever asked. The inductive
invariant is `WarpInv`, the conjunction of `TypeOK`, `HoldersStalled`,
`NoOrphanStall`, `BarrierMembersParked`, `SpawnerParked` and `TraceOwner`. None
of the middle four is inductive alone: that a unit releases the right warp needs
that the warp of a trace is in no barrier and has no spawn pending, that a
barrier's members are idle needs that only stalled warps enter it, and both need
`TraceOwner`, which says whose traces are in flight: only warp 0 has a spawn, a
warp whose instruction left threads running is still active, and no global
barrier is on its way. The restriction to local barriers is real:
`warp_join_global` shows that `HoldersStalled` fails with a global one.

What a barrier and a join are for can only be said of a program that uses them.
`KernelProgram` fixes the program (the kernel of `MCWarpControl`, with local or
with global barriers) and nothing else: the numbers of warps and cores stay
arbitrary, except that a global barrier gets one socket, as `warp_two_sockets`
shows it hang with two, and at least two cores, as `Emulator::barrier` ignores a
count below two. The inductive invariant is `KernelInv`. Its heart is `Lockstep`:
the warps that a barrier synchronises (those of a core, or of all the cores)
have passed equally many barriers. To keep it, the core's state has to match the
program: what is in flight is the instruction before the warp's PC (`FlightOK`),
the members of a barrier are parked behind it (`MembersOK`), a pending spawn is
the kernel's start or its join (`SpawnOK`, `JoinOK`), and a core in the cluster's
barrier is parked as a whole (`ClusterOK`). Then a full barrier has all the warps
waiting at the same one of the two, although both use one index, and
`Socket::resume`, which clears the stalls of whole cores, meets no warp with an
instruction in flight: a warp that ended early would be ahead of the others.

**Core pipeline.** `OrderInv` holds for all instructions: a trace is in one
place at a time, the front (fetch latch, instruction cache, decode latch) holds
at most one trace of a warp, counters number the traces, the ibuffers are
sorted, and a warp that stalled runs nothing until it is resumed. All of them
are needed: the instruction cache reorders, and what keeps a warp's traces in
order is that it has only one there. `ScoreInv` adds
the packets sent and outstanding (`PacketsSent`), that the last packet of a
trace is the last to leave (`LastStays`), the scoreboard and the count of
traces. `LastStays` is what `SinglePackets` is for: the units that finish packets
in any order, which is the LSU, get one packet per trace
(`NUM_LSU_LANES = NUM_THREADS`); the others may get any number. With two packets
for a load, `RegistersTracked` is false, which is what `pipe_loads` shows.

**Cache bank.** `CacheInv` has three parts. `TagInv`: a line is in one way, a
line somebody waits for is in none, slots that wait for a line have exactly one
fill among them, asked for or answered, and what is being replayed is present;
each of these is used to keep the others. `RequestInv`: ports, MSHR, bypass and
answers hold different requests, each once. `RestartsClean` says that a
write-back cache without write responses is not started twice: in it a write
may miss as the last thing of a run, nobody waits for its fill, and
`CacheSim::reset` clears the slot while the fill is on its way; TLC finds
`FillsMatched` violated with a second run. For write-through caches, which
includes every instruction cache and the default data cache, it says nothing. The
configurations of the `cache_bank` run satisfy it.

**Allocator.** `AllocInv`: pages are beside one another, tiled byte by byte by
blocks that are used or free, without two free neighbours and without a page
that has no used block; pages end below the capacity rounded up; and handles and
used blocks correspond. The refinement maps the used blocks to the abstract
`blocks`; a roll back is a stuttering step because the block it frees was
allocated in the same call. `NoWrap` bounds the sizes the program asks for such
that the sums of `reserve`, `findNextAddress` and `mem_access` stay in a word.
It is needed: the code compares sums that may wrap, and for a size close to the
word TLC finds a false gap between two pages and pages that overlap. The
instance of `alloc_main` satisfies it.

`RuntimeCounts` adds the sum: `allocated_` is the number of bytes in used blocks,
by counting the bytes an allocation adds and a release takes away, and what is
used lies between the base address and the capacity. The latter needs
`ReservesAbove`: `reserve` accepts an address below the base, which the capacity
does not count, so that `allocated_` could exceed it.

**LSU path.** `LsuInv` is `BlockInv` and `PathInv`. `BlockInv` is about the LSU
alone: the inputs are the instructions not yet taken, in order; an entry in use
belongs to a load that was taken and is not done, and to no other entry; the
fence that holds the block is the last instruction taken; every instruction
taken is done, holds the block or has an entry. `FenceOrders` follows, and so
does that nothing is pending when a run ends. `PathInv` is a balance for every
lane and tag, and one for every channel and coalesced read: the occurrences in
all the ports together are 1 when the table waits for it and 0 when it does not.
A tick composes ten steps, and the proof has a lemma for each that says what
leaves one place and enters the next (`LsuFlow`, `DemuxFlow`, `CoalReqFlow`,
`CoalHeldFlow`, `AdapterFlow`, `LmemFlow` and the others), so that the sum over a
tick cancels. The balance is used in its own proof: that an answer meets an
entry that waits for it, and that the data cache does not hold a read twice, are
instances of it. Three facts make it inductive: `sent_mask_` is about the request
at the head of the coalescer's input (`SentOfHead`), that request has lanes left
to send (`LanesLeft`), and a request at a lane of the local memory is for that
lane (`OwnLane`). At the reset `sent_mask_` is cleared although the request it
describes may stay in the queue: with `LanesLeft`, a load half sent would still
have a lane on its way, which contradicts that nothing is pending. The ratio of
lanes to channels, the table sizes and the programs are arbitrary; the lanes are
a multiple of the channels, without which `input_size / output_size` would leave
lanes in no group.

**Device control.** `DeviceInv` relates, for all four back ends together, the
step of the call, the phase of the device, the counters of started and finished
runs, the registers of host and device (`RegistersAgree`) and the run whose
results are in memory and in `mpm_cache_` (`MemoryAgrees`); `AckedMeansQuiet`,
that a successful wait leaves nothing under way, carries the two theorems. Like
the runs, they are about a host that keeps the order `Ordered`.

**Access rights.** `AclInv`: entries are not empty, lie apart, do not touch when
they have the same rights, and say of every byte what the observer says. The
lemma that the walk from `lower_bound` meets every overlapping entry
(`WalkMeetsAll`) is what both `set` and `check` depend on.

**Switch.** The theorems are about every shape that the constructor accepts, up
to 32 inputs and no fewer than the outputs. `SwitchInv`: no queue has a tag twice,
what is behind an output carries the place of an input (`Owners`), the places of
a tag are disjoint and together what is owed, in a round-robin switch the number
of requests that passed an input plus those ahead of it in the round stays below
the number of inputs that share its output (`Served`), and nothing comes back to
an input that no output looks at (`Unreached`). The arithmetic of the tag is the lemma
`PackUnpack`; that the places of an output are at least as many as the ratio is
`ShapeNumbers`. `NoInputStarves` needs `InputsCovered`: outputs times
places is at least the number of inputs. `MultiplesCovered` says that this is so
when the inputs are a multiple of the outputs. The constructor asserts only
that the inputs are not fewer, and with 3 inputs and 2 outputs, or 9 and 2, the
last input has no place; by `LeftOutInputsWait` its requests are never taken, so
that the hypothesis cannot be weakened.

**Rasterizer.** `TileInv` adds to `CoverageExact` that every tile on the stack
carries the values of the edge functions at its corner and is at an even place
(`TilesTrue`), and that stamps have covered pixels only (`StampsTrue`).
`CalcEdgeExtents` bounds what an edge function can gain within a tile
(`ExtentsBound`), so a rejected tile has no covered pixel (`RejectSound`); the
four parts of a tile divide its pixels (`PartsDivide`), which rests on the size
being a power of two; the mask of a quad is exact (`MaskExact`). The prover knows
no powers: that `2^(n+1)` is twice `2^n` is derived from the library's theorem
that `1..n` has `2^n` subsets (`PowerDoubles`). `TileAssumption` says that edges
are integers, a tile is at least a quad, and its place is even, which
`tile << tile_logsize` gives.

**Grid launches.** `SpawnInv`: a task was run once if the batch it falls in is
behind its warp (`Did`), and not at all otherwise (`Counted`); a core that goes
on has warps that are done (`StagesTrue`). It rests on what the launch computes.
The parts of the cores, and the batches of the warps of tasks, are slices of `b`
of which the first `r` are one longer; slices adjoin, lie apart and cover what is
shared out (`SlicesAdjoin`, `SlicesApart`, `SlicesCover`). Warps of groups take
every `GroupsPerCore`-th block instead (`GroupWarps`), and the mask of the last
warp of a group cuts the block off where it ends (`MaskFits`). Together every
thread of every block falls in exactly one batch of one thread (`Distribution`).
`EvenLaunch` says that at most one core has a block more than the others and
that no core has tasks that do not fill a warp. It is what the two findings
about `vx_spawn.c` leave: when two cores have a block more, core 1 starts one
block late, and the tasks left over run as another block. On all the launches
with up to 3 cores, 3 warps, 2 threads and 7 blocks of up to 4 threads that fit, TLC
finds no other launch that is right, except a grid of a single task, where the
`blockIdx` left over is the right one by luck. Grids and devices are arbitrary
otherwise; the numbers are not 32 bits wide, so that a grid whose products
exceed a word is outside the theorem.

**OPAE transfers.** `DmaInv`: in an upload, the requests out are of the window
that `addrBase` opens (`WindowInv`), so that a tag finds its address, and every
line of the upload is not asked for, asked for, in the read queue, or `Fresh`:
the last write to it in its bank's queue, or else the memory, is what it has to
be. As `Fresh` looks past the queue it holds after an upload has ended with
writes still under way; reads are queued behind them, so that the read at the
head of a bank finds the memory right. In a download every line is to be read,
at its bank, on its way back or in the staging buffer, and `wrLeft` counts the
others (`DownloadInv`).

**Only model-checked.**

- All liveness (`RunEnds`, `StallsEnd`, `ReadsAnswered`, `AllCommitted` and the
  like): fairness and `ENABLED` are beyond the prover.
- Global barriers in other programs than the kernel.
- `InStep` and `NoAbort`: they are about the particular programs of `MCUnits`.

## Findings

- `Socket::barrier` offsets a core id that is already global
  (`socket.cpp:136`); with two sockets of one core a global barrier hangs.
- `Socket::resume` releases all the warps of a core (`socket.cpp:140`), also
  one whose last instruction is still in flight; `emulator.cpp:243` asserts
  otherwise.
- A write miss of a write-back cache never marks the line dirty
  (`cache_sim.cpp:600`).
- With fewer LSU lanes than threads the scoreboard frees the register of a load
  when the last packet commits, not when all have (`dispatcher.h:89`).
- `vx_spawn_threads` counts the remaining tasks twice in a core's offset
  (`vx_spawn.c:277`, and `:224` for groups): some tasks are skipped, some run
  twice.
- The tasks left over after the full warps run with the `blockIdx` of an earlier
  batch (`vx_spawn.c:87`).
- The reservation of LR belongs to the core, not the warp, and writes of other
  cores do not end it (`mem.cpp:178`).

Met while modelling, without a run: `CacheSim::reset` forgets fills that DRAM
still answers, which only a write-back cache without write responses can have at the end of a
run;
ports of a cache bank are served in index order without a bound on waiting
(`cache_sim.cpp:478`); a warp that exits early while the others wait at a global
barrier lowers a count nobody compares again (`emulator.cpp:273`); the size
checks of `mem_alloc.h:73` and `vortex.cpp:129` compare a sum that may wrap;
a reservation below the base address makes later allocations start below it; a
copy of size 0 on OPAE is sent as a command that never ends
(`opae/vortex.cpp:291`); a `Switch` whose inputs are no multiple of its outputs
may leave the last inputs unserved (`types.h:568`, `:573`), as in a data cache
cluster of 9 cores and 2 caches (`SOCKET_SIZE` of 9); a timeout of XRT wraps in
debug builds (`xrt/vortex.cpp:590`); a fence does not wait for stores
(`func_unit.cpp:143`); `Mux` reduces its cursor by a mask and needs a power of
two (`types.h:510`); a texture trace waits for as many answers as addresses
but sends those of the first lanes (`tex_unit.cpp:88`).

## Not modelled

- Decoding and the arithmetic of instructions (`decode.cpp`, most of
  `execute.cpp`), pixel arithmetic (texture, depth, stencil, blending), the
  values of the DCRs: functions of their inputs without control, for which a
  model would be the program again.
- Formatting and character output (`tinyprintf.c`), start-up code, performance
  counters and their printing (`utils.cpp`), tracing, the vendored JSON library
  `nlohmann_json.hpp` (half the C++ lines of the repository), build and
  synthesis scripts.
- The RTL of cores and caches, a second implementation of what SimX models by the
  cycle; `xrtsim` and `rtlsim`, which drive generated code signal by signal.
- Address decomposition and several banks of a cache, the wiring of
  `cache_cluster.h`, the TLB and the pages of `RAM`, XRT's banks and buffers,
  clock domains of the shells, DRAM timing (Ramulator is not in the repository).

## Plan

The model is complete in the sense of the inventory, and what is left is proof:

1. `WarpControl`: `NoOrphanStall` and `BarrierMembersParked` with global
   barriers in one socket, where the numbering of the cores is right, for
   programs that do not join behind one.
2. `Simt`: the IPDOM stack as a path of the program's nesting, from which
   `NoAbort` follows for every structured program.
3. The action properties and parts of invariants of the modules above that other
   proofs turn out to need.
