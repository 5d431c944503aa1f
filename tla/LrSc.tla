-------------------------------- MODULE LrSc --------------------------------
(***************************************************************************)
(* Atomic instructions (case AMO of Emulator::execute, execute.cpp) on one *)
(* word of global memory that the warps of several cores count up, some    *)
(* with AMOADD, some with the usual loop of LR and SC.  A thread whose SC  *)
(* fails takes another turn; the threads of a warp run in lock step.       *)
(*                                                                         *)
(* The MemoryUnit of a core (src/sim/common/mem.cpp) has one reservation   *)
(* for all its warps and threads.  It holds until this core writes.        *)
(***************************************************************************)
EXTENDS Integers, FiniteSets

CONSTANTS
    Cores,
    Warps,      \* warps, each with the core it runs on and its instruction
    NumThreads

CoreOf(w) == w.core
Threads == 0..(NumThreads - 1)

VARIABLES
    word,        \* the word in the RAM the cores share
    reservation, \* reservation[c]: amo_reservation_.valid, for this word
    read,        \* read[w][t]: what LR gave to thread t
    left,        \* left[w]: threads that have not counted yet
    step         \* step[w]: the instruction the warp executes next

vars == <<word, reservation, read, left, step>>

Init ==
    /\ word = 0
    /\ reservation = [c \in Cores |-> FALSE]
    /\ read = [w \in Warps |-> [t \in Threads |-> 0]]
    /\ left = [w \in Warps |-> Threads]
    /\ step = [w \in Warps |-> w.uses]

Lr(w) ==
    /\ step[w] = "lr" /\ left[w] # {}
    /\ read' = [read EXCEPT ![w] = [t \in Threads |-> IF t \in left[w] THEN word ELSE @[t]]]
    /\ reservation' = [reservation EXCEPT ![CoreOf(w)] = TRUE]      \* amo_reserve
    /\ step' = [step EXCEPT ![w] = "sc"]
    /\ UNCHANGED <<word, left>>

(* The threads try one after the other: the write of the first that finds  *)
(* the reservation clears it.                                              *)
FirstLeft(w) == CHOOSE t \in left[w] : \A u \in left[w] : t <= u

Sc(w) ==
    /\ step[w] = "sc"
    /\ IF reservation[CoreOf(w)]                                     \* amo_check
       THEN /\ word' = read[w][FirstLeft(w)] + 1
            /\ reservation' = [reservation EXCEPT ![CoreOf(w)] = FALSE]
            /\ left' = [left EXCEPT ![w] = @ \ {FirstLeft(w)}]
       ELSE UNCHANGED <<word, reservation, left>>
    /\ step' = [step EXCEPT ![w] = "lr"]
    /\ UNCHANGED read

(* AMOADD: all the threads read and write in one instruction.              *)
AmoAdd(w) ==
    /\ step[w] = "amoadd" /\ left[w] # {}
    /\ word' = word + Cardinality(left[w])
    /\ reservation' = [reservation EXCEPT ![CoreOf(w)] = FALSE]
    /\ left' = [left EXCEPT ![w] = {}]
    /\ UNCHANGED <<read, step>>

Next == \E w \in Warps : Lr(w) \/ Sc(w) \/ AmoAdd(w)

Spec == Init /\ [][Next]_vars

----------------------------------------------------------------------------
(* Atomicity: when every thread has counted once, the word shows all of    *)
(* them ("Support RISC-V RV32IMAF and RV64IMAFD").                         *)
NoLostUpdate ==
    (\A w \in Warps : left[w] = {}) => word = Cardinality(Warps) * NumThreads
=============================================================================
