--------------------------- MODULE MCWarpControl ---------------------------
(***************************************************************************)
(* Programs that drive WarpControl in TLC, shaped like the kernels the     *)
(* device library runs (src/kernel/src/vx_spawn.c): warp 0 spawns the      *)
(* others, all of them meet at barriers, and warp 0 joins them.            *)
(***************************************************************************)
EXTENDS WarpControl

Plain(n)        == [op |-> "plain", next |-> n, alive |-> TRUE]
Branch(n)       == [op |-> "branch", next |-> n, alive |-> TRUE]
TmcZero(n)      == [op |-> "wctl", next |-> n, alive |-> FALSE]
Tmc(n)          == [op |-> "wctl", next |-> n, alive |-> TRUE]
Wspawn(k, e, n) == [op |-> "wspawn", next |-> n, alive |-> TRUE,
                    num |-> k, entry |-> e]
Bar(b, k, n)    == [op |-> "bar", next |-> n, alive |-> TRUE, bar |-> b,
                    count |-> k, global |-> FALSE]
GlobalBar(b, k, n) == [Bar(b, k, n) EXCEPT !.global = TRUE]

MCPCs == {"start", "work1", "bar1", "work2", "bar2", "work3", "after", "end"}

(* Which of the two barriers of the program a warp at p has executed.      *)
Phase(p) == CASE p \in {"start", "work1", "bar1"} -> 0
              [] p \in {"work2", "bar2"} -> 1
              [] p = "work3" -> 2
              [] p \in {"after", "end"} -> 3

(* Spawn, work, barrier, work, barrier, then warp 0 joins and either       *)
(* starts over or ends.  ask is the number of warps it asks for, bar(n)    *)
(* the barrier instruction that continues at n.                            *)
Kernel(ask, bar(_), stop) ==
    [w \in Warps |-> [p \in MCPCs |->
        CASE p = "start" -> IF w = 0 THEN {Wspawn(ask, "work1", "work1")} ELSE {}
          [] p = "work1" -> {Plain("bar1"), Branch("bar1")}
          [] p = "bar1"  -> {bar("work2")}
          [] p = "work2" -> {Plain("bar2"), Tmc("bar2"), Bar("b0", 1, "bar2")}
          [] p = "bar2"  -> {bar("work3")}
          [] p = "work3" -> IF w = 0 THEN {Wspawn(1, "end", "after")}
                                     ELSE {TmcZero("end")}
          [] p = "after" -> IF w = 0 THEN stop ELSE {}
          [] p = "end"   -> {} ]]

Restartable == {Branch("start"), TmcZero("end")}

(* A local barrier, the same index for both phases; more warps are asked   *)
(* for than the core has.                                                  *)
LocalBar(n) == Bar("b0", NumWarps, n)
LocalCode == Kernel(NumWarps + 1, LocalBar, Restartable)

(* A global barrier of all the cores of the cluster.                       *)
AllCoresBar(n) == GlobalBar("b0", NumCores, n)
GlobalCode == Kernel(NumWarps, AllCoresBar, {TmcZero("end")})

(* After the join, warp 0 of every core meets the others once more.        *)
JoinThenGlobalCode ==
    [Kernel(NumWarps, LocalBar, {AllCoresBar("end")})
        EXCEPT ![0]["end"] = {TmcZero("end")}]

----------------------------------------------------------------------------
(* A warp at a barrier has executed BAR and is not released yet.           *)
Waiting(c, w) ==
    /\ w \in stalled[c]
    /\ trace[c][w] = NoTrace \/ trace[c][w].instr.op = "bar"

Through(c, w, k) ==
    \/ Phase(pc[c][w]) > k
    \/ Phase(pc[c][w]) = k /\ ~Waiting(c, w)

(* A barrier separates the work before it from the work after it: while a  *)
(* warp is through the k-th barrier no running warp of the core is still   *)
(* in front of it, although both barriers use one index, warps arrive in   *)
(* any order and the kernel is spawned again and again.                    *)
BarrierSeparates ==
    \A c \in Cores : \A w, v \in active[c] : \A k \in 1..2 :
        Through(c, w, k) => Phase(pc[c][v]) >= k

(* The same for the global barrier and the warps of all the cores.         *)
GlobalBarrierSeparates ==
    \A c, d \in Cores : \A w \in active[c], v \in active[d] : \A k \in 1..2 :
        Through(c, w, k) => Phase(pc[d][v]) >= k

(* `vx_wspawn(1, 0)` at the end of vx_spawn_threads waits for the spawned  *)
(* warps: once warp 0 has executed the instruction after it, no other warp *)
(* is active.                                                              *)
JoinWaits ==
    \A c \in Cores : pc[c][0] \in {"start", "end"} => active[c] \subseteq {0}

(* Whoever is stalled is released in the end: barriers fill, spawns are    *)
(* served, and the lowest-warp-first scheduler starves nobody here.        *)
StallsEnd ==
    \A c \in Cores, w \in Warps : (w \in stalled[c]) ~> (w \notin stalled[c])

(* A core is suspended at a global barrier when all its active warps have  *)
(* executed BAR there and nothing of the core itself will release them.    *)
Suspended(c) ==
    /\ active[c] # {}
    /\ ~wspawn[c].valid
    /\ \A w \in Warps :
         /\ w \in active[c] => w \in stalled[c]
         /\ trace[c][w] = NoTrace
         /\ \A b \in Barriers : w \notin barriers[c][b]

(* A global barrier stalls its cores only until its count is reached: the  *)
(* count being the number of cores, never are all of them suspended.       *)
NeverAllSuspended == ~ \A c \in Cores : Suspended(c)

(* Every run of the kernel comes to its end.                               *)
RunEnds == []<>Finished
=============================================================================
