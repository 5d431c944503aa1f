--------------------------- MODULE MCCorePipeline ---------------------------
(* Instances of CorePipeline for TLC: small instruction sets that make the *)
(* instructions of a warp depend on each other.                            *)
EXTENDS CorePipeline

I(unit, dst, src, packets, stall) ==
    [unit |-> unit, dst |-> dst, src |-> src, packets |-> packets, stall |-> stall]

(* Fewer lanes than threads in the ALU, whose packets stay in order; the   *)
(* last one is a branch.                                                   *)
Packets == {I("alu", {"x"}, {"y"}, 2, FALSE), I("lsu", {"y"}, {}, 1, FALSE),
            I("alu", {}, {"y"}, 2, TRUE)}

(* NUM_LSU_LANES < NUM_THREADS: a load is two packets.                     *)
LoadPackets == {I("lsu", {"x"}, {}, 2, FALSE), I("alu", {"x"}, {"x"}, 1, FALSE)}
=============================================================================
