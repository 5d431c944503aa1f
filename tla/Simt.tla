-------------------------------- MODULE Simt --------------------------------
(***************************************************************************)
(* Thread divergence: how Emulator::execute (src/sim/simx/execute.cpp)     *)
(* runs the threads of a warp with one program counter, a thread mask and  *)
(* the IPDOM stack, under SPLIT, JOIN, PRED, TMC and branches.             *)
(*                                                                         *)
(* A program is structured as the compiler and vx_intrinsics.h lay it out: *)
(* SPLIT, a branch on the same predicate, the two sides, JOIN; and loops   *)
(* that end in PRED and a branch back.  Registers hold what these use: the *)
(* stack size of a SPLIT, a saved mask, a counter that predicates test.    *)
(*                                                                         *)
(* pos is an observer: where each thread would be if it ran alone.         *)
(***************************************************************************)
EXTENDS Integers, Sequences, FiniteSets

CONSTANTS
    NumThreads, \* threads of a warp
    Programs,   \* programs, sequences of instructions
    Counters,   \* the counters of a thread
    Counts,     \* the values a thread may load into them
    MaxRuns     \* bound: how often the warp is started

Threads == 0..(NumThreads - 1)
IpdomSizeShort == NumThreads - 2
IpdomSize == NumThreads - 1     \* ipdom_size_

VARIABLES
    prog,   \* the program
    pc,     \* warp.PC
    tmask,  \* warp.tmask
    active, \* the warp is in active_warps_
    stack,  \* warp.ipdom_stack, the top last
    reg,    \* reg[t][p]: the register written by the instruction at p
    cnt,    \* cnt[t][c]: counter c of thread t
    pos,    \* observer: the pc of thread t on its own
    abort,  \* why the emulator aborted
    run     \* how often the warp was started

vars == <<prog, pc, tmask, active, stack, reg, cnt, pos, abort, run>>

(* Emulator::clear starts the warp with thread 0 alone.                    *)
Init ==
    /\ prog \in Programs
    /\ pc = 1 /\ tmask = {0} /\ active = TRUE
    /\ stack = <<>>
    /\ reg = [t \in Threads |-> [p \in DOMAIN prog |-> 0]]
    /\ cnt = [t \in Threads |-> [c \in Counters |-> 0]]
    /\ pos = [t \in Threads |-> IF t = 0 THEN 1 ELSE 0]
    /\ abort = "none" /\ run = 1

Instr == prog[pc]
ThreadLast == CHOOSE t \in tmask : \A u \in tmask : u <= t
Holds(t) == (cnt[t][Instr.c] > 0) # Instr.neg     \* cond ^ not_pred

(* The end of execute: the new pc and mask; a warp without threads leaves  *)
(* active_warps_.                                                          *)
Continue(nextPC, nextTmask) ==
    /\ pc' = nextPC
    /\ tmask' = nextTmask
    /\ active' = (nextTmask # {})

Running(op) == active /\ abort = "none" /\ Instr.op = op
Alone(next) == pos' = [t \in Threads |-> IF t \in tmask THEN next ELSE pos[t]]

----------------------------------------------------------------------------
(* TMC: the mask is taken from a register of the last thread.              *)
Tmc ==
    /\ Running("tmc")
    /\ Continue(pc + 1, Instr.mask)
    /\ pos' = [t \in Threads |-> IF t \in Instr.mask THEN pc + 1
                                 ELSE IF t \in tmask THEN 0 ELSE pos[t]]
    /\ UNCHANGED <<prog, stack, reg, cnt, abort, run>>

(* SPLIT: of the two sides the larger runs first; the mask to reconverge   *)
(* to, the other side and the pc after the SPLIT go on the stack.          *)
ThenMask == {t \in tmask : Holds(t)}
ElseMask == tmask \ ThenMask
Divergent == ThenMask # {} /\ ElseMask # {}
TakenMask == IF Cardinality(ThenMask) >= Cardinality(ElseMask) THEN ThenMask ELSE ElseMask
EntryWithTaken == [orig |-> tmask, els |-> TakenMask, pc |-> pc + 1, fall |-> FALSE]
Entry == [orig |-> tmask, els |-> tmask \ TakenMask, pc |-> pc + 1, fall |-> FALSE]

Split ==
    /\ Running("split")
    /\ IF Divergent /\ Len(stack) = IpdomSize
       THEN abort' = "full" /\ UNCHANGED <<pc, tmask, active, stack, reg, pos>>
       ELSE /\ Continue(pc + 1, IF Divergent THEN TakenMask ELSE tmask)
            /\ stack' = IF Divergent THEN Append(stack, Entry) ELSE stack
            /\ reg' = [t \in Threads |-> IF t \in tmask THEN [reg[t] EXCEPT ![pc] = Len(stack)]
                                         ELSE reg[t]]
            /\ Alone(pc + 1)
            /\ UNCHANGED abort
    /\ UNCHANGED <<prog, cnt, run>>

(* JOIN: nothing if its SPLIT did not push.  The first JOIN of an entry    *)
(* sends the other side through the code after the SPLIT, the second one   *)
(* restores the mask.                                                      *)
Top == stack[Len(stack)]
Reconverged == Top.orig

Join ==
    /\ Running("join")
    /\ Alone(pc + 1)
    /\ IF reg[ThreadLast][Instr.of] = Len(stack)
       THEN Continue(pc + 1, tmask) /\ UNCHANGED <<stack, abort>>
       ELSE IF stack = <<>>
       THEN abort' = "empty" /\ UNCHANGED <<pc, tmask, active, stack>>
       ELSE /\ IF Top.fall
               THEN /\ Continue(pc + 1, Reconverged)
                    /\ stack' = SubSeq(stack, 1, Len(stack) - 1)
               ELSE /\ Continue(Top.pc, Top.els)
                    /\ stack' = [stack EXCEPT ![Len(stack)].fall = TRUE]
            /\ UNCHANGED abort
    /\ UNCHANGED <<prog, reg, cnt, run>>

(* PRED: threads without the predicate leave the loop; the last ones to    *)
(* leave restore the mask saved in front of it.                            *)
PredMask ==
    IF ThenMask # {} THEN ThenMask ELSE reg[ThreadLast][Instr.of]

Pred ==
    /\ Running("pred")
    /\ Continue(pc + 1, PredMask)
    /\ Alone(pc + 1)
    /\ UNCHANGED <<prog, stack, reg, cnt, abort, run>>

(* A branch on a predicate: all the threads must agree.                    *)
Branch ==
    /\ Running("branch")
    /\ IF Divergent
       THEN abort' = "divergent" /\ UNCHANGED <<pc, tmask, active>>
       ELSE Continue(IF ThenMask # {} THEN Instr.to ELSE pc + 1, tmask) /\ UNCHANGED abort
    /\ pos' = [t \in Threads |-> IF t \notin tmask THEN pos[t]
                                 ELSE IF Holds(t) THEN Instr.to ELSE pc + 1]
    /\ UNCHANGED <<prog, stack, reg, cnt, run>>

Jump ==
    /\ Running("jump")
    /\ Continue(Instr.to, tmask)
    /\ Alone(Instr.to)
    /\ UNCHANGED <<prog, stack, reg, cnt, abort, run>>

(* Loads of a thread's own data, csrr of VX_CSR_ACTIVE_THREADS, and an     *)
(* instruction that counts down.                                           *)
Load ==
    /\ Running("load")
    /\ Continue(pc + 1, tmask)
    /\ \E data \in [tmask -> [Counters -> Counts]] :
         cnt' = [t \in Threads |-> IF t \in tmask THEN data[t] ELSE cnt[t]]
    /\ Alone(pc + 1)
    /\ UNCHANGED <<prog, stack, reg, abort, run>>

ReadMask ==
    /\ Running("mask")
    /\ Continue(pc + 1, tmask)
    /\ reg' = [t \in Threads |-> IF t \in tmask THEN [reg[t] EXCEPT ![pc] = tmask] ELSE reg[t]]
    /\ Alone(pc + 1)
    /\ UNCHANGED <<prog, stack, cnt, abort, run>>

Work ==
    /\ Running("work")
    /\ Continue(pc + 1, tmask)
    /\ cnt' = [t \in Threads |->
                 IF t \in tmask /\ cnt[t][Instr.c] > 0 THEN [cnt[t] EXCEPT ![Instr.c] = @ - 1]
                 ELSE cnt[t]]
    /\ Alone(pc + 1)
    /\ UNCHANGED <<prog, stack, reg, abort, run>>

(* The warp is started again: warp_t::clear sets the registers anew and    *)
(* leaves the IPDOM stack as it is.                                        *)
Restart ==
    /\ ~active /\ run < MaxRuns
    /\ run' = run + 1
    /\ pc' = 1 /\ tmask' = {0} /\ active' = TRUE
    /\ reg' = [t \in Threads |-> [p \in DOMAIN prog |-> 0]]
    /\ cnt' = [t \in Threads |-> [c \in Counters |-> 0]]
    /\ pos' = [t \in Threads |-> IF t = 0 THEN 1 ELSE 0]
    /\ UNCHANGED <<prog, stack, abort>>

Next ==
    \/ Tmc \/ Split \/ Join \/ Pred \/ Branch \/ Jump \/ Load \/ ReadMask \/ Work
    \/ Restart

Spec == Init /\ [][Next]_vars

----------------------------------------------------------------------------
(* One program counter serves all: whenever a thread is in the mask, the   *)
(* instruction the warp executes is the one the thread would execute if it *)
(* ran alone, with its own branches; and when the warp ends every thread   *)
(* has come to its end, none was lost in a branch it left.                 *)
InStep ==
    /\ active => \A t \in tmask : pos[t] = pc
    /\ ~active => \A t \in Threads : pos[t] = 0

(* A structured program never makes the emulator abort: its branches are   *)
(* uniform, NUM_THREADS - 1 entries are enough however deep it nests, and  *)
(* JOIN finds its entry.  Also after restarts, which keep the stack.       *)
NoAbort == abort = "none"
=============================================================================
