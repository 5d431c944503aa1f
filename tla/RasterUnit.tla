----------------------------- MODULE RasterUnit -----------------------------
(***************************************************************************)
(* The raster units (src/sim/simx/raster_unit.cpp) and the RASTER          *)
(* instruction (execute.cpp).  An instruction takes a stamp per thread at  *)
(* once, as it is executed; its trace then waits in the unit until the     *)
(* memory reads behind as many stamps are done.  Reads go tile by tile:    *)
(* its header, then for each primitive its index and its edges.            *)
(*                                                                         *)
(* A primitive is the number of stamps it covers in its tile.  The queue   *)
(* of memory traces holds the primitives that were rendered, with the      *)
(* place in their tile.  A warp asks in a loop: a thread that gets no      *)
(* stamp leaves it, and the next turn waits for the result of the last.    *)
(***************************************************************************)
EXTENDS Integers, Sequences, FiniteSetsExt, SequencesExt, TLC

CONSTANTS
    Tiles,     \* the tile buffer: for each tile the stamps of its primitives
    NumUnits,  \* raster_count
    WarpSizes, \* WarpSizes[w]: threads of warp w
    Reads      \* Reads[s]: how many addresses are read in state s

Units == 0..(NumUnits - 1)
WarpIds == DOMAIN WarpSizes

VARIABLES
    prims,    \* prims[u]: the primitives that unit u finds in the tile buffer
    pos,      \* pos[u]: primitives rendered
    avail,    \* avail[u]: stamps_size_
    memTrace, \* memTrace[u]: mem_traces_
    memState, \* memState[u]: mem_trace_state_
    pending,  \* pending[u]: addresses not answered
    stamps,   \* stamps[u]: stamps_, counts of primitives that were read
    fetched,  \* fetched[u]: fetched_stamps_
    input,    \* input[u]: Input
    flying,   \* traces on their way to a unit
    nextUnit, \* raster_idx_
    warp,     \* warp[w]: ready, wait, end
    active,   \* active[w]: threads still in the loop
    given     \* observer: stamps handed out

vars == <<prims, pos, avail, memTrace, memState, pending, stamps, fetched, input,
          flying, nextUnit, warp, active, given>>

----------------------------------------------------------------------------
(* The primitives of a unit in order: those of every NumUnits-th tile.     *)
SumOf(s) == LET sum[k \in 0..Len(s)] == IF k = 0 THEN 0 ELSE sum[k - 1] + s[k]
            IN sum[Len(s)]
TilesOf(u) == [k \in 1..((Len(Tiles) - u + NumUnits - 1) \div NumUnits) |->
                 Tiles[u + 1 + (k - 1) * NumUnits]]
Primitives(t) == [k \in DOMAIN t |-> [stamps |-> t[k], last |-> k = Len(t)]]
Summed(s) ==     \* with the stamps of all up to each one
    [k \in DOMAIN s |-> s[k] @@ [sum |-> SumOf([i \in 1..k |-> s[i].stamps])]]
PrimsOf(u) == Summed(FlattenSeq([k \in DOMAIN TilesOf(u) |-> Primitives(TilesOf(u)[k])]))

UpTo(u, p) == IF p = 0 THEN 0 ELSE prims[u][p].sum
StampsIn(u, p, q) == UpTo(u, q) - UpTo(u, p)

(* fetch, for n threads: primitives are rendered while no stamp is left.   *)
Enough(u, n) == {p \in pos[u]..Len(prims[u]) : avail[u] + StampsIn(u, pos[u], p) >= n}
RenderedTo(u, n) == IF Enough(u, n) = {} THEN Len(prims[u]) ELSE Min(Enough(u, n))
Fetched(u, n) == Min({n, avail[u] + StampsIn(u, pos[u], Len(prims[u]))})

Init ==
    /\ prims = [u \in Units |-> PrimsOf(u)]
    /\ pos = [u \in Units |-> 0] /\ avail = [u \in Units |-> 0]
    /\ memTrace = [u \in Units |-> <<>>] /\ memState = [u \in Units |-> "header"]
    /\ pending = [u \in Units |-> 0]
    /\ stamps = [u \in Units |-> <<>>] /\ fetched = [u \in Units |-> 0]
    /\ input = [u \in Units |-> <<>>] /\ flying = {} /\ nextUnit = 0
    /\ warp = [w \in WarpIds |-> "ready"]
    /\ active = WarpSizes /\ given = 0

(* RASTER: the units are asked in turn until one has stamps.  The trace    *)
(* goes to the unit asked last.                                            *)
Asked(k) == (nextUnit + k) % NumUnits
HasStamps(n) == {k \in Units : Fetched(Asked(k), n) > 0}
Tries(n) == IF HasStamps(n) = {} THEN NumUnits - 1 ELSE Min(HasStamps(n))

Raster(w) ==
    LET n == active[w]
        last == Tries(n)
        asked == {Asked(k) : k \in 0..last}
        u == Asked(last)
        to == [v \in Units |-> IF v \in asked THEN RenderedTo(v, n) ELSE pos[v]]
        got == Fetched(u, n)
    IN /\ warp[w] = "ready"
       /\ pos' = to
       /\ avail' = [v \in Units |-> avail[v] + StampsIn(v, pos[v], to[v])
                                             - (IF v = u THEN got ELSE 0)]
       /\ memTrace' = [v \in Units |-> memTrace[v] \o SubSeq(prims[v], pos[v] + 1, to[v])]
       /\ nextUnit' = (u + 1) % NumUnits
       /\ flying' = flying \cup {[warp |-> w, unit |-> u, threads |-> n]}
       /\ warp' = [warp EXCEPT ![w] = "wait"]
       /\ active' = [active EXCEPT ![w] = got]
       /\ given' = given + got
       /\ UNCHANGED <<prims, memState, pending, stamps, fetched, input>>

Arrive(t) ==
    /\ flying' = flying \ {t}
    /\ input' = [input EXCEPT ![t.unit] = Append(@, t)]
    /\ UNCHANGED <<prims, pos, avail, memTrace, memState, pending, stamps, fetched, nextUnit,
                   warp, active, given>>

----------------------------------------------------------------------------
(* The first part of a tick: the trace at the head of the input.           *)
RasterDone(u) ==
    pos[u] = Len(prims[u]) /\ avail[u] = 0 /\ memTrace[u] = <<>> /\ stamps[u] = <<>>

Sum(u, k) == fetched[u] + SumOf(SubSeq(stamps[u], 1, k))
Taken(u, n) ==    \* counts taken from the queue until there are n
    LET enough == {k \in 0..Len(stamps[u]) : Sum(u, k) >= n}
    IN IF enough = {} THEN Len(stamps[u]) ELSE Min(enough)
LeftOverLost(u, n, k) == 0
LeftOver(u, n, k) == Sum(u, k) - n

Out(u) ==
    LET t == Head(input[u])
    IN /\ input' = [input EXCEPT ![u] = Tail(@)]
       /\ warp' = [warp EXCEPT ![t.warp] = IF active[t.warp] = 0 THEN "end" ELSE "ready"]

Serve(u, left) ==     \* left: what stays of the queue of counts
    IF input[u] = <<>>
    THEN left = stamps[u] /\ UNCHANGED <<input, warp, fetched>>
    ELSE LET n == Head(input[u]).threads
             k == Taken(u, n)
         IN IF RasterDone(u)
            THEN left = stamps[u] /\ Out(u) /\ UNCHANGED fetched
            ELSE /\ left = SubSeq(stamps[u], k + 1, Len(stamps[u]))
                 /\ IF Sum(u, k) >= n
                    THEN fetched' = [fetched EXCEPT ![u] = LeftOver(u, n, k)] /\ Out(u)
                    ELSE fetched' = [fetched EXCEPT ![u] = Sum(u, k)] /\ UNCHANGED <<input, warp>>

(* The second part: an answer of the memory; the last one of a state       *)
(* leads to the next.  Then the reads of the state are sent.               *)
StateAfter(u) ==
    CASE memState[u] = "header" -> "primitive"
      [] memState[u] = "primitive" -> "edges"
      [] OTHER -> IF Head(memTrace[u]).last THEN "header" ELSE "primitive"

Answered(u, rsp) == rsp /\ pending[u] = 1

Memory(u, rsp, left) ==
    LET read == Answered(u, rsp) /\ memState[u] = "edges"
        left2 == pending[u] - (IF rsp THEN 1 ELSE 0)
    IN /\ memState' = [memState EXCEPT ![u] = IF Answered(u, rsp) THEN StateAfter(u) ELSE @]
       /\ memTrace' = [memTrace EXCEPT ![u] = IF read THEN Tail(@) ELSE @]
       /\ stamps' = [stamps EXCEPT ![u] = IF read THEN Append(left, Head(memTrace[u]).stamps) ELSE left]
       /\ pending' = [pending EXCEPT ![u] = IF left2 = 0 /\ memTrace'[u] # <<>>
                                            THEN Reads[memState'[u]] ELSE left2]

Tick(u, rsp) ==
    /\ rsp => pending[u] > 0
    /\ \E k \in 0..Len(stamps[u]) :
         LET left == SubSeq(stamps[u], k + 1, Len(stamps[u]))
         IN Serve(u, left) /\ Memory(u, rsp, left)
    /\ UNCHANGED <<prims, pos, avail, flying, nextUnit, active, given>>

Next ==
    \/ \E w \in WarpIds : Raster(w)
    \/ \E t \in flying : Arrive(t)
    \/ \E u \in Units, rsp \in BOOLEAN : Tick(u, rsp)

Spec == Init /\ [][Next]_vars

(* The units are ticked, the memory answers, traces arrive, warps run: the *)
(* system does not stop while a step is possible.                          *)
Fairness == WF_vars(Next)
FairSpec == Spec /\ Fairness

----------------------------------------------------------------------------
TotalStamps == SumOf([k \in DOMAIN Tiles |-> SumOf(Tiles[k])])
AllEnd == (\A w \in WarpIds : warp[w] = "end") /\ given = TotalStamps

(* Every warp comes to its end, and then every stamp of every tile has     *)
(* been handed out, once: no trace waits in a unit for stamps that are     *)
(* already spent or will never be read, also when traces of several warps  *)
(* arrive in another order than they took their stamps.                    *)
RasterDrains == []<>AllEnd
=============================================================================
