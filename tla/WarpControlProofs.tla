------------------------- MODULE WarpControlProofs -------------------------
(***************************************************************************)
(* Theorems about WarpControl, for every number of sockets, cores, warps   *)
(* and barriers: first for every program without global barriers, then for *)
(* the kernel of MCWarpControl, with local and with global barriers.       *)
(***************************************************************************)
EXTENDS MCWarpControl, FiniteSetTheorems, TLAPS

(* The fields of an instruction have the types of the C++ operands.        *)
LEMMA InstrFields ==
    ASSUME NEW i \in Instr
    PROVE  /\ i.next \in PCs
           /\ i.alive \in BOOLEAN
           /\ i.op = "wspawn" => i.num \in Nat /\ i.entry \in PCs
           /\ i.op = "bar" => i.bar \in Barriers /\ i.count \in Nat
                                                 /\ i.global \in BOOLEAN
           /\ i.op \in {"wspawn", "bar"} => i.alive
  BY DEF Instr

(* What warp w may execute at p is an instruction.                         *)
LEMMA CodeIsInstr ==
    ASSUME NEW w \in Warps, NEW p \in PCs, NEW i \in Code[w][p]
    PROVE  i \in Instr
  BY CodeAssumption

(* A trace is the empty one or carries an instruction.                     *)
LEMMA TraceFields ==
    ASSUME NEW t \in Traces
    PROVE  /\ t.stage = "none" <=> t = NoTrace
           /\ t # NoTrace => t.stage \in Stages /\ t.instr \in Instr
           /\ t # NoTrace <=> t.stage \in Stages
  BY DEF Traces, NoTrace, Stages

(* What InFlight builds is a trace, and not the empty one.                 *)
LEMMA InFlightType ==
    ASSUME NEW i \in Instr, NEW s \in Stages
    PROVE  /\ InFlight(i, s) \in Traces
           /\ InFlight(i, s) # NoTrace
           /\ InFlight(i, s).instr = i
  BY DEF InFlight, Traces, NoTrace, Stages

(* Warp 0 exists.                                                          *)
LEMMA ZeroIsWarp == 0 \in Warps
  BY SizesAssumption DEF Warps

(* Warps are integers, and a set of warps is finite.                       *)
LEMMA WarpsFinite == IsFiniteSet(Warps) /\ \A s \in SUBSET Warps : IsFiniteSet(s)
  <1>1. IsFiniteSet(Warps)
    BY SizesAssumption, FS_Interval DEF Warps
  <1> QED
    BY <1>1, FS_Subset

(* The only active warp, if warp 0 is active, is warp 0.                   *)
LEMMA AloneIsZero ==
    ASSUME NEW s \in SUBSET Warps, 0 \in s, Cardinality(s) = 1
    PROVE  s = {0}
  <1>1. IsFiniteSet(s)
    BY WarpsFinite
  <1>2. PICK x : s = {x}
    BY <1>1, FS_Singleton
  <1> QED
    BY <1>2

-----------------------------------------------------------------------------
(* The spawned warps are warps of the core.                                *)
LEMMA SpawnedAreWarps ==
    ASSUME TypeOK, NEW c \in Cores
    PROVE  /\ Spawned(c) \in SUBSET Warps
           /\ 0 \notin Spawned(c)
           /\ StalledAfterSpawn(c) \in SUBSET stalled[c]
           /\ stalled[c] \ {0} \subseteq StalledAfterSpawn(c)
  <1>1. wspawn[c].num \in 0..NumWarps
    BY DEF TypeOK
  <1>2. Spawned(c) \in SUBSET Warps /\ 0 \notin Spawned(c)
    BY <1>1, SizesAssumption DEF Spawned, Warps
  <1> QED
    BY <1>2 DEF StalledAfterSpawn

(* Releasing a warp, or none, keeps the type of the stalled warps.         *)
LEMMA ReleaseType ==
    ASSUME TypeOK, NEW c \in Cores, NEW w \in Warps,
           stalled' = stalled \/ stalled' = [stalled EXCEPT ![c] = stalled[c] \ {w}]
    PROVE  stalled' \in [Cores -> SUBSET Warps]
  <1>1. CASE stalled' = stalled
    BY <1>1 DEF TypeOK
  <1>2. CASE stalled' = [stalled EXCEPT ![c] = stalled[c] \ {w}]
    BY <1>2 DEF TypeOK
  <1> QED
    BY <1>1, <1>2

(* Every step keeps the types.                                             *)
LEMMA TypeStep == TypeOK /\ [Next]_vars => TypeOK'
  <1> SUFFICES ASSUME TypeOK, [Next]_vars PROVE TypeOK'
    OBVIOUS
  <1>1. ASSUME NEW c \in Cores, Schedule(c) PROVE TypeOK'
    <2> DEFINE act == active[c] \cup Spawned(c)
               stl == StalledAfterSpawn(c)
               pcs == [w \in Warps |->
                        IF w \in Spawned(c) THEN wspawn[c].entry ELSE pc[c][w]]
    <2>1. act \in SUBSET Warps /\ stl \in SUBSET Warps
      BY SpawnedAreWarps DEF TypeOK
    <2>2. pcs \in [Warps -> PCs]
      BY DEF TypeOK
    <2>3. PICK w \in act \ stl : \E i \in Code[w][pcs[w]] :
              /\ pc' = [pc EXCEPT ![c] = [pcs EXCEPT ![w] = i.next]]
              /\ active' = [active EXCEPT ![c] =
                              IF i.alive THEN act ELSE act \ {w}]
              /\ stalled' = [stalled EXCEPT ![c] = stl \cup {w}]
              /\ trace' = [trace EXCEPT ![c][w] = InFlight(i, "fetch")]
      BY <1>1 DEF Schedule
    <2>4. w \in Warps
      BY <2>1
    <2>5. PICK i \in Code[w][pcs[w]] :
              /\ pc' = [pc EXCEPT ![c] = [pcs EXCEPT ![w] = i.next]]
              /\ active' = [active EXCEPT ![c] =
                              IF i.alive THEN act ELSE act \ {w}]
              /\ stalled' = [stalled EXCEPT ![c] = stl \cup {w}]
              /\ trace' = [trace EXCEPT ![c][w] = InFlight(i, "fetch")]
      BY <2>3
    <2>6. i \in Instr /\ InFlight(i, "fetch") \in Traces /\ i.next \in PCs
      BY <2>2, <2>4, CodeIsInstr, InFlightType, InstrFields DEF Stages
    <2> HIDE DEF act, stl, pcs
    <2>7. pc' \in [Cores -> [Warps -> PCs]]
      BY <2>2, <2>4, <2>5, <2>6 DEF TypeOK
    <2>8. active' \in [Cores -> SUBSET Warps] /\ stalled' \in [Cores -> SUBSET Warps]
      BY <2>1, <2>4, <2>5 DEF TypeOK
    <2>9. trace' \in [Cores -> [Warps -> Traces]]
      BY <2>4, <2>5, <2>6 DEF TypeOK
    <2>10. wspawn' \in [Cores -> [valid : BOOLEAN, num : 0..NumWarps, entry : PCs]]
      <3>1. wspawn' = [wspawn EXCEPT ![c].valid = SpawnStillPending(c)]
        BY <1>1 DEF Schedule
      <3>2. SpawnStillPending(c) \in BOOLEAN
        BY DEF SpawnStillPending
      <3> QED
        BY <3>1, <3>2 DEF TypeOK
    <2> QED
      BY <1>1, <2>7, <2>8, <2>9, <2>10 DEF TypeOK, Schedule
  <1>2. ASSUME NEW c \in Cores, NEW w \in Warps, Decode(c, w) PROVE TypeOK'
    <2>1. trace[c][w] \in Traces /\ trace[c][w].stage = "fetch"
      BY <1>2 DEF TypeOK, Decode
    <2>2. InFlight(trace[c][w].instr, "execute") \in Traces
      BY <2>1, TraceFields, InFlightType DEF Stages
    <2>3. NoTrace \in Traces
      BY DEF Traces
    <2>4. PICK t \in Traces : trace' = [trace EXCEPT ![c][w] = t]
      BY <1>2, <2>2, <2>3 DEF Decode
    <2>5. trace' \in [Cores -> [Warps -> Traces]]
      BY <2>4 DEF TypeOK
    <2>6. stalled' = stalled \/ stalled' = [stalled EXCEPT ![c] = stalled[c] \ {w}]
      BY <1>2 DEF Decode
    <2>7. stalled' \in [Cores -> SUBSET Warps]
      BY <2>6, ReleaseType
    <2>8. UNCHANGED <<pc, active, wspawn, barriers, clusterBar>>
      BY <1>2 DEF Decode
    <2> QED
      BY <2>5, <2>7, <2>8 DEF TypeOK
  <1>3. ASSUME NEW c \in Cores, NEW w \in Warps, NEW ops, AtUnit(c, w, ops)
        PROVE  /\ trace' \in [Cores -> [Warps -> Traces]]
               /\ trace[c][w].instr \in Instr
               /\ trace[c][w].instr.op \in ops
    <2>1. trace[c][w] \in Traces /\ NoTrace \in Traces
      BY DEF TypeOK, Traces
    <2> QED
      BY <1>3, <2>1, TraceFields DEF TypeOK, AtUnit, Stages
  <1>4. ASSUME NEW c \in Cores, NEW w \in Warps, ExecuteRelease(c, w) PROVE TypeOK'
    BY <1>3, <1>4 DEF TypeOK, ExecuteRelease, Resume
  <1>5. ASSUME NEW c \in Cores, NEW w \in Warps, ExecuteWspawn(c, w) PROVE TypeOK'
    <2> DEFINE i == trace[c][w].instr
    <2>1. i \in Instr /\ i.op = "wspawn" /\ trace' \in [Cores -> [Warps -> Traces]]
      BY <1>3, <1>5 DEF ExecuteWspawn
    <2>2. SpawnCount(i.num) \in 0..NumWarps /\ i.entry \in PCs
      BY <2>1, InstrFields, SizesAssumption DEF SpawnCount
    <2> DEFINE r == [valid |-> TRUE, num |-> SpawnCount(i.num), entry |-> i.entry]
    <2>3. r \in [valid : BOOLEAN, num : 0..NumWarps, entry : PCs]
      BY <2>2
    <2> HIDE DEF r
    <2>4. wspawn' \in {wspawn, [wspawn EXCEPT ![c] = r]}
      BY <1>5 DEF ExecuteWspawn, r
    <2>5. wspawn' \in [Cores -> [valid : BOOLEAN, num : 0..NumWarps, entry : PCs]]
      BY <2>3, <2>4 DEF TypeOK
    <2>6. stalled' = stalled \/ stalled' = [stalled EXCEPT ![c] = stalled[c] \ {w}]
      BY <1>5 DEF ExecuteWspawn, Resume
    <2>7. stalled' \in [Cores -> SUBSET Warps]
      BY <2>6, ReleaseType
    <2>8. UNCHANGED <<pc, active, barriers, clusterBar>>
      BY <1>5 DEF ExecuteWspawn
    <2> QED
      BY <2>1, <2>5, <2>7, <2>8 DEF TypeOK
  <1>6. ASSUME NEW c \in Cores, NEW w \in Warps, ExecuteBarTrivial(c, w) PROVE TypeOK'
    BY <1>3, <1>6 DEF TypeOK, ExecuteBarTrivial, Resume
  <1>7. ASSUME NEW c \in Cores, NEW w \in Warps, ExecuteBarLocal(c, w) PROVE TypeOK'
    <2> DEFINE i == trace[c][w].instr
               members == barriers[c][i.bar] \cup {w}
    <2>1. i \in Instr /\ i.op = "bar" /\ trace' \in [Cores -> [Warps -> Traces]]
      BY <1>3, <1>7 DEF ExecuteBarLocal
    <2>2. i.bar \in Barriers
      BY <2>1, InstrFields
    <2>3. members \in SUBSET Warps /\ BarrierReset(members) \in SUBSET Warps
      BY <2>2 DEF TypeOK, BarrierReset
    <2>4. barriers' \in [Cores -> [Barriers -> SUBSET Warps]]
      <3>1. PICK m \in SUBSET Warps : barriers' = [barriers EXCEPT ![c][i.bar] = m]
        BY <1>7, <2>3 DEF ExecuteBarLocal
      <3> HIDE DEF i
      <3> QED
        BY <2>2, <3>1 DEF TypeOK
    <2>5. stalled' \in [Cores -> SUBSET Warps]
      BY <1>7 DEF TypeOK, ExecuteBarLocal
    <2> QED
      BY <1>7, <2>1, <2>4, <2>5 DEF TypeOK, ExecuteBarLocal
  <1>8. ASSUME NEW c \in Cores, NEW w \in Warps, ExecuteBarGlobal(c, w) PROVE TypeOK'
    <2> DEFINE i == trace[c][w].instr
               members == barriers[c][i.bar] \cup {w}
    <2>1. i \in Instr /\ i.op = "bar" /\ trace' \in [Cores -> [Warps -> Traces]]
      BY <1>3, <1>8 DEF ExecuteBarGlobal
    <2>2. i.bar \in Barriers
      BY <2>1, InstrFields
    <2>3. members \in SUBSET Warps
      BY <2>2 DEF TypeOK
    <2>4. LocalCoreId(c) \in Cores
      <3>1. NumCores \in Nat \ {0}
        BY SizesAssumption DEF NumCores
      <3>2. SocketOf(c) * CoresPerSocket + c \in Int
        BY SizesAssumption DEF SocketOf, Cores
      <3> QED
        BY <3>1, <3>2 DEF LocalCoreId, Cores
    <2>5. barriers' \in [Cores -> [Barriers -> SUBSET Warps]]
      <3>1. PICK m \in SUBSET Warps : barriers' = [barriers EXCEPT ![c][i.bar] = m]
        BY <1>8, <2>3 DEF ExecuteBarGlobal
      <3> HIDE DEF i
      <3> QED
        BY <2>2, <3>1 DEF TypeOK
    <2>6. /\ stalled' \in [Cores -> SUBSET Warps]
          /\ clusterBar' \in [Barriers -> SUBSET Cores]
      <3>1. CASE CoreArrived(c, members)
        <4> DEFINE cores == clusterBar[i.bar] \cup {LocalCoreId(c)}
        <4>1. ClusterBarrier(i.bar, i.count, LocalCoreId(c))
          BY <1>8, <3>1 DEF ExecuteBarGlobal
        <4>2. cores \in SUBSET Cores
          BY <2>2, <2>4 DEF TypeOK
        <4>3. CASE Cardinality(cores) = i.count
          BY <2>2, <4>1, <4>3 DEF TypeOK, ClusterBarrier
        <4>4. CASE Cardinality(cores) # i.count
          BY <2>2, <4>1, <4>2, <4>4 DEF TypeOK, ClusterBarrier
        <4> QED
          BY <4>3, <4>4
      <3>2. CASE ~CoreArrived(c, members)
        BY <1>8, <3>2 DEF TypeOK, ExecuteBarGlobal
      <3> QED
        BY <3>1, <3>2
    <2> QED
      BY <1>8, <2>1, <2>5, <2>6 DEF TypeOK, ExecuteBarGlobal
  <1>9. ASSUME Rerun PROVE TypeOK'
    BY <1>9, CodeAssumption, SizesAssumption, ZeroIsWarp
    DEF TypeOK, Rerun, Cleared, Traces
  <1>10. ASSUME UNCHANGED vars PROVE TypeOK'
    BY <1>10 DEF TypeOK, vars
  <1> QED
    BY <1>1, <1>2, <1>4, <1>5, <1>6, <1>7, <1>8, <1>9, <1>10 DEF Next

(* The variables of the simulator keep their types, for every program,     *)
(* global barriers included.                                               *)
THEOREM TypeCorrect == Spec => []TypeOK
  <1>1. Init => TypeOK
    BY CodeAssumption, SizesAssumption, ZeroIsWarp DEF TypeOK, Init, Cleared, Traces
  <1> QED
    BY <1>1, TypeStep, PTL DEF Spec

-----------------------------------------------------------------------------
(* The invariant, core by core: what it says of core c reads nothing of    *)
(* another core but the cluster's barriers.                                *)
CoreInv(c) ==
    /\ \A w \in Warps : trace[c][w] # NoTrace =>
          /\ w \in stalled[c]
          /\ trace[c][w].instr.op = "wspawn" => w = 0
          /\ trace[c][w].instr.op = "bar" => ~trace[c][w].instr.global
          /\ trace[c][w].instr.alive => w \in active[c]
    /\ \A w \in stalled[c] :
          \/ trace[c][w] # NoTrace
          \/ \E b \in Barriers : w \in barriers[c][b]
          \/ w = 0 /\ wspawn[c].valid
          \/ \E b \in Barriers : LocalCoreId(c) \in clusterBar[b]
    /\ \A b \in Barriers : \A w \in barriers[c][b] :
          /\ w \in active[c]
          /\ w \in stalled[c]
          /\ trace[c][w] = NoTrace
          /\ \A d \in Barriers \ {b} : w \notin barriers[c][d]
    /\ wspawn[c].valid =>
          /\ 0 \in active[c]
          /\ 0 \in stalled[c]
          /\ trace[c][0] = NoTrace
          /\ \A b \in Barriers : 0 \notin barriers[c][b]

LEMMA InvByCore == WarpInv <=> TypeOK /\ \A c \in Cores : CoreInv(c)
  BY DEF WarpInv, CoreInv, HoldersStalled, NoOrphanStall, BarrierMembersParked,
         SpawnerParked, TraceOwner

(* A step that changes nothing of core d and no cluster barrier keeps the  *)
(* invariant of core d.                                                    *)
LEMMA OtherCore ==
    ASSUME NEW d \in Cores, CoreInv(d),
           active'[d] = active[d], stalled'[d] = stalled[d],
           wspawn'[d] = wspawn[d], barriers'[d] = barriers[d],
           trace'[d] = trace[d], clusterBar' = clusterBar
    PROVE  CoreInv(d)'
  BY DEF CoreInv

(* Scheduling: the new trace owns the stall of a warp that had none.       *)
LEMMA ScheduleInv ==
    ASSUME TypeOK, NEW c \in Cores, CoreInv(c), Schedule(c), NoGlobalBarriers
    PROVE  CoreInv(c)'
  <1> DEFINE act == active[c] \cup Spawned(c)
             stl == StalledAfterSpawn(c)
             pcs == [w \in Warps |->
                      IF w \in Spawned(c) THEN wspawn[c].entry ELSE pc[c][w]]
  <1>1. act \in SUBSET Warps /\ stl \in SUBSET Warps
    BY SpawnedAreWarps DEF TypeOK
  <1>2. pcs \in [Warps -> PCs]
    BY DEF TypeOK
  <1>3. PICK w \in act \ stl : \E i \in Code[w][pcs[w]] :
            /\ active' = [active EXCEPT ![c] =
                            IF i.alive THEN act ELSE act \ {w}]
            /\ stalled' = [stalled EXCEPT ![c] = stl \cup {w}]
            /\ trace' = [trace EXCEPT ![c][w] = InFlight(i, "fetch")]
    BY DEF Schedule
  <1>4. w \in Warps
    BY <1>1
  <1>5. PICK i \in Code[w][pcs[w]] :
            /\ active' = [active EXCEPT ![c] =
                            IF i.alive THEN act ELSE act \ {w}]
            /\ stalled' = [stalled EXCEPT ![c] = stl \cup {w}]
            /\ trace' = [trace EXCEPT ![c][w] = InFlight(i, "fetch")]
    BY <1>3
  <1>6. /\ i \in Instr
        /\ i.op = "wspawn" => w = 0
        /\ i.op = "bar" => ~i.global
    BY <1>2, <1>4, CodeIsInstr, SpawnerAssumption DEF NoGlobalBarriers
  <1>7. InFlight(i, "fetch") # NoTrace /\ InFlight(i, "fetch").instr = i
    BY <1>6, InFlightType DEF Stages
  <1>8. /\ active'[c] = IF i.alive THEN act ELSE act \ {w}
        /\ stalled'[c] = stl \cup {w}
        /\ trace'[c] = [trace[c] EXCEPT ![w] = InFlight(i, "fetch")]
        /\ barriers'[c] = barriers[c]
        /\ clusterBar' = clusterBar
    <2>1. barriers' = barriers /\ clusterBar' = clusterBar
      BY DEF Schedule
    <2> HIDE DEF act, stl, pcs
    <2> QED
      BY <1>5, <2>1 DEF TypeOK
  <1>9. wspawn'[c].valid = SpawnStillPending(c)
    BY DEF TypeOK, Schedule
  <1>10. trace[c] \in [Warps -> Traces]
    BY DEF TypeOK
  <1>11. ServeSpawn(c) => wspawn[c].valid
    BY DEF ServeSpawn
  (* The scheduled warp was not stalled, unless it is the released warp 0. *)
  <1>12. w \notin stalled[c] \/ (w = 0 /\ ServeSpawn(c))
    BY <1>3 DEF StalledAfterSpawn
  <1>13. /\ trace[c][w] = NoTrace
         /\ \A b \in Barriers : w \notin barriers[c][b]
    BY <1>4, <1>11, <1>12 DEF CoreInv
  <1>14. stl \subseteq stalled[c] /\ stalled[c] \ {0} \subseteq stl
    BY SpawnedAreWarps
  (* A spawn that is served is over, and leaves warp 0 without a stall.    *)
  <1>15. CASE ServeSpawn(c)
    <2>1. stl = stalled[c] \ {0} /\ ~wspawn'[c].valid
      BY <1>9, <1>15 DEF StalledAfterSpawn, SpawnStillPending
    <2>2. trace[c][0] = NoTrace /\ \A b \in Barriers : 0 \notin barriers[c][b]
      BY <1>11, <1>15 DEF CoreInv
    <2> HIDE DEF act, stl, pcs
    <2>3. active[c] \subseteq act
      BY DEF act
    <2>4. trace'[c][w] = InFlight(i, "fetch")
      BY <1>8, <1>10, <1>4
    <2> QED
      BY <1>4, <1>6, <1>7, <1>8, <1>10, <1>13, <2>1, <2>2, <2>3, <2>4, ZeroIsWarp
      DEF CoreInv
  <1>16. CASE ~ServeSpawn(c)
    <2>1. act = active[c] /\ stl = stalled[c] /\ wspawn'[c].valid = wspawn[c].valid
      BY <1>9, <1>16 DEF Spawned, StalledAfterSpawn, SpawnStillPending, TypeOK
    <2>2. w \notin stalled[c]
      BY <1>12, <1>16
    <2> HIDE DEF act, stl, pcs
    <2>3. trace'[c][w] = InFlight(i, "fetch")
      BY <1>8, <1>10, <1>4
    <2> QED
      BY <1>4, <1>6, <1>7, <1>8, <1>10, <1>13, <2>1, <2>2, <2>3, ZeroIsWarp
      DEF CoreInv
  <1> QED
    BY <1>15, <1>16

(* Decoding: the trace moves on with the stall, or both end.               *)
LEMMA DecodeInv ==
    ASSUME TypeOK, NEW c \in Cores, NEW w \in Warps, CoreInv(c), Decode(c, w)
    PROVE  CoreInv(c)'
  <1> DEFINE i == trace[c][w].instr
  <1>1. /\ trace[c] \in [Warps -> Traces]
        /\ trace[c][w] # NoTrace
        /\ i \in Instr
    BY TraceFields DEF TypeOK, Decode, NoTrace
  <1>2. /\ active' = active
        /\ wspawn' = wspawn
        /\ barriers' = barriers
        /\ clusterBar' = clusterBar
    BY DEF Decode
  <1>3. CASE FetchStall(i)
    <2>1. trace'[c] = [trace[c] EXCEPT ![w] = InFlight(i, "execute")]
      BY <1>3 DEF Decode, TypeOK
    <2>2. stalled' = stalled
      BY <1>3 DEF Decode
    <2>3. InFlight(i, "execute") # NoTrace /\ InFlight(i, "execute").instr = i
      BY <1>1, InFlightType DEF Stages
    <2> QED
      BY <1>1, <1>2, <2>1, <2>2, <2>3 DEF CoreInv
  <1>4. CASE ~FetchStall(i)
    <2>1. trace'[c] = [trace[c] EXCEPT ![w] = NoTrace]
      BY <1>4 DEF Decode, TypeOK
    <2>2. stalled'[c] = stalled[c] \ {w}
      BY <1>4 DEF Decode, TypeOK
    <2> QED
      BY <1>1, <1>2, <2>1, <2>2 DEF CoreInv
  <1> QED
    BY <1>3, <1>4

(* A trace that reaches its unit leaves the pipeline.                      *)
LEMMA AtUnitFacts ==
    ASSUME TypeOK, NEW c \in Cores, NEW w \in Warps, NEW ops, AtUnit(c, w, ops)
    PROVE  /\ trace[c] \in [Warps -> Traces]
           /\ trace[c][w] # NoTrace
           /\ trace[c][w].instr \in Instr
           /\ trace[c][w].instr.op \in ops
           /\ trace'[c] = [trace[c] EXCEPT ![w] = NoTrace]
           /\ \A d \in Cores \ {c} : trace'[d] = trace[d]
  BY TraceFields DEF TypeOK, AtUnit, NoTrace

(* Releasing the warp together with its trace.                             *)
LEMMA ReleaseInv ==
    ASSUME TypeOK, NEW c \in Cores, NEW w \in Warps, CoreInv(c),
           NEW ops, AtUnit(c, w, ops), Resume(c, w),
           UNCHANGED <<active, wspawn, barriers, clusterBar>>
    PROVE  CoreInv(c)'
  <1>1. stalled'[c] = stalled[c] \ {w}
    BY DEF Resume, TypeOK
  <1>2. /\ trace[c] \in [Warps -> Traces]
        /\ trace[c][w] # NoTrace
        /\ trace'[c] = [trace[c] EXCEPT ![w] = NoTrace]
    BY AtUnitFacts
  <1> QED
    BY <1>1, <1>2 DEF CoreInv

(* A spawn request keeps the stall of warp 0 for step() to end.            *)
LEMMA WspawnInv ==
    ASSUME TypeOK, NEW c \in Cores, NEW w \in Warps, CoreInv(c), ExecuteWspawn(c, w)
    PROVE  CoreInv(c)'
  <1> DEFINE i == trace[c][w].instr
  <1>1. AtUnit(c, w, {"wspawn"})
    BY DEF ExecuteWspawn
  <1> HIDE DEF i
  <1>0. /\ trace[c] \in [Warps -> Traces]
        /\ trace[c][w] # NoTrace
        /\ trace'[c] = [trace[c] EXCEPT ![w] = NoTrace]
        /\ i \in Instr /\ i.op \in {"wspawn"}
    BY <1>1, AtUnitFacts DEF i
  <1>2. i.op = "wspawn" /\ i.alive
    BY <1>0, InstrFields
  <1>3. w = 0 /\ 0 \in active[c] /\ 0 \in stalled[c]
    BY <1>0, <1>2 DEF CoreInv, i
  <1>4. CASE ReturnsAtOnce(c, SpawnCount(i.num))
    BY <1>1, <1>4, ReleaseInv DEF ExecuteWspawn, i
  <1>5. CASE ~ReturnsAtOnce(c, SpawnCount(i.num))
    <2>1. /\ wspawn'[c].valid
          /\ stalled' = stalled
          /\ UNCHANGED <<active, barriers, clusterBar>>
      BY <1>5 DEF ExecuteWspawn, TypeOK, i
    <2>2. \A b \in Barriers : 0 \notin barriers[c][b]
      BY <1>0, <1>3 DEF CoreInv
    <2>3. trace'[c][0] = NoTrace /\ \A v \in Warps \ {0} : trace'[c][v] = trace[c][v]
      BY <1>0, <1>3
    <2>4. stalled[c] \in SUBSET Warps /\ barriers[c] \in [Barriers -> SUBSET Warps]
      BY DEF TypeOK
    <2> QED
      BY <1>3, <2>1, <2>2, <2>3, <2>4 DEF CoreInv
  <1> QED
    BY <1>4, <1>5

(* A local barrier either adds the warp to the members, which keep their   *)
(* stalls, or releases them all.                                           *)
LEMMA BarLocalInv ==
    ASSUME TypeOK, NEW c \in Cores, NEW w \in Warps, CoreInv(c), ExecuteBarLocal(c, w)
    PROVE  CoreInv(c)'
  <1> DEFINE i == trace[c][w].instr
             members == barriers[c][i.bar] \cup {w}
  <1>1. AtUnit(c, w, {"bar"})
    BY DEF ExecuteBarLocal
  <1> HIDE DEF i
  <1>0. /\ trace[c] \in [Warps -> Traces]
        /\ trace[c][w] # NoTrace
        /\ trace'[c] = [trace[c] EXCEPT ![w] = NoTrace]
        /\ i \in Instr /\ i.op \in {"bar"}
    BY <1>1, AtUnitFacts DEF i
  <1>2. i.op = "bar" /\ i.alive /\ i.bar \in Barriers
    BY <1>0, InstrFields
  <1>3. w \in active[c] /\ w \in stalled[c]
    BY <1>0, <1>2 DEF CoreInv, i
  <1>4. \A b \in Barriers : w \notin barriers[c][b]
    BY <1>0 DEF CoreInv
  <1>5. wspawn[c].valid => w # 0
    BY <1>0 DEF CoreInv
  <1>6. UNCHANGED <<active, wspawn, clusterBar>>
    BY DEF ExecuteBarLocal
  <1>7. barriers[c] \in [Barriers -> SUBSET Warps]
    BY DEF TypeOK
  <1>8. CASE BarrierReached(members, i.count)
    <2>1. /\ stalled'[c] = stalled[c] \ members
          /\ barriers'[c] = [barriers[c] EXCEPT ![i.bar] = {}]
      BY <1>8 DEF ExecuteBarLocal, TypeOK, BarrierReset, i
    <2> QED
      BY <1>0, <1>2, <1>3, <1>4, <1>5, <1>6, <1>7, <2>1 DEF CoreInv
  <1>9. CASE ~BarrierReached(members, i.count)
    <2>1. /\ stalled' = stalled
          /\ barriers'[c] = [barriers[c] EXCEPT ![i.bar] = members]
      BY <1>9 DEF ExecuteBarLocal, TypeOK, i
    <2> QED
      BY <1>0, <1>2, <1>3, <1>4, <1>5, <1>6, <1>7, <2>1 DEF CoreInv
  <1> QED
    BY <1>8, <1>9

-----------------------------------------------------------------------------
(* Every step keeps the invariant, in programs without global barriers.    *)
LEMMA InvStep == NoGlobalBarriers /\ WarpInv /\ [Next]_vars => WarpInv'
  <1> SUFFICES ASSUME NoGlobalBarriers, WarpInv, [Next]_vars PROVE WarpInv'
    OBVIOUS
  <1>1. TypeOK /\ TypeOK' /\ \A c \in Cores : CoreInv(c)
    BY InvByCore, TypeStep
  <1> SUFFICES \A d \in Cores : CoreInv(d)'
    BY <1>1, InvByCore DEF WarpInv, HoldersStalled, NoOrphanStall,
       BarrierMembersParked, SpawnerParked, TraceOwner, CoreInv
  <1>2. ASSUME NEW c \in Cores, Schedule(c) PROVE \A d \in Cores : CoreInv(d)'
    <2>1. CoreInv(c)'
      BY <1>1, <1>2, ScheduleInv
    <2>2. ASSUME NEW d \in Cores \ {c} PROVE CoreInv(d)'
      BY <1>1, <1>2, OtherCore DEF Schedule, TypeOK
    <2> QED
      BY <2>1, <2>2
  <1>3. ASSUME NEW c \in Cores, NEW w \in Warps, Decode(c, w)
        PROVE  \A d \in Cores : CoreInv(d)'
    <2>1. CoreInv(c)'
      BY <1>1, <1>3, DecodeInv
    <2>2. ASSUME NEW d \in Cores \ {c} PROVE CoreInv(d)'
      BY <1>1, <1>3, OtherCore DEF Decode, TypeOK
    <2> QED
      BY <2>1, <2>2
  <1>4. ASSUME NEW c \in Cores, NEW w \in Warps, ExecuteRelease(c, w)
        PROVE  \A d \in Cores : CoreInv(d)'
    <2>1. CoreInv(c)'
      BY <1>1, <1>4, ReleaseInv DEF ExecuteRelease
    <2>2. ASSUME NEW d \in Cores \ {c} PROVE CoreInv(d)'
      BY <1>1, <1>4, OtherCore DEF ExecuteRelease, Resume, AtUnit, TypeOK
    <2> QED
      BY <2>1, <2>2
  <1>5. ASSUME NEW c \in Cores, NEW w \in Warps, ExecuteWspawn(c, w)
        PROVE  \A d \in Cores : CoreInv(d)'
    <2>1. CoreInv(c)'
      BY <1>1, <1>5, WspawnInv
    <2>2. ASSUME NEW d \in Cores \ {c} PROVE CoreInv(d)'
      BY <1>1, <1>5, OtherCore DEF ExecuteWspawn, Resume, AtUnit, TypeOK
    <2> QED
      BY <2>1, <2>2
  <1>6. ASSUME NEW c \in Cores, NEW w \in Warps, ExecuteBarTrivial(c, w)
        PROVE  \A d \in Cores : CoreInv(d)'
    <2>1. CoreInv(c)'
      BY <1>1, <1>6, ReleaseInv DEF ExecuteBarTrivial
    <2>2. ASSUME NEW d \in Cores \ {c} PROVE CoreInv(d)'
      BY <1>1, <1>6, OtherCore DEF ExecuteBarTrivial, Resume, AtUnit, TypeOK
    <2> QED
      BY <2>1, <2>2
  <1>7. ASSUME NEW c \in Cores, NEW w \in Warps, ExecuteBarLocal(c, w)
        PROVE  \A d \in Cores : CoreInv(d)'
    <2>1. CoreInv(c)'
      BY <1>1, <1>7, BarLocalInv
    <2>2. ASSUME NEW d \in Cores \ {c} PROVE CoreInv(d)'
      BY <1>1, <1>7, OtherCore DEF ExecuteBarLocal, AtUnit, TypeOK
    <2> QED
      BY <2>1, <2>2
  (* No global barrier is in flight.                                       *)
  <1>8. ASSUME NEW c \in Cores, NEW w \in Warps, ExecuteBarGlobal(c, w)
        PROVE  FALSE
    <2>1. AtUnit(c, w, {"bar"}) /\ trace[c][w].instr.global
      BY <1>8 DEF ExecuteBarGlobal
    <2>2. trace[c][w] # NoTrace /\ trace[c][w].instr.op = "bar"
      <3>1. trace[c][w] \in Traces
        BY <1>1 DEF TypeOK
      <3> QED
        BY <2>1, <3>1, TraceFields DEF AtUnit, Stages
    <2> QED
      BY <1>1, <2>1, <2>2 DEF CoreInv
  <1>9. ASSUME Rerun PROVE \A d \in Cores : CoreInv(d)'
    BY <1>9 DEF CoreInv, Rerun, Cleared
  <1>10. ASSUME UNCHANGED vars PROVE \A d \in Cores : CoreInv(d)'
    BY <1>1, <1>10, OtherCore DEF vars
  <1> QED
    BY <1>2, <1>3, <1>4, <1>5, <1>6, <1>7, <1>8, <1>9, <1>10 DEF Next

(* In every program without global barriers, on any number of cores and    *)
(* warps, the inductive invariant holds throughout.                        *)
THEOREM InvariantHolds == NoGlobalBarriers /\ Spec => []WarpInv
  <1> SUFFICES ASSUME NoGlobalBarriers PROVE Spec => []WarpInv
    OBVIOUS
  <1>1. ASSUME Init PROVE WarpInv
    <2>1. TypeOK
      BY <1>1, CodeAssumption, SizesAssumption, ZeroIsWarp
      DEF TypeOK, Init, Cleared, Traces
    <2>2. \A c \in Cores : CoreInv(c)
      BY <1>1 DEF CoreInv, Init, Cleared
    <2> QED
      BY <2>1, <2>2, InvByCore
  <1>2. WarpInv /\ [Next]_vars => WarpInv'
    BY InvStep
  <1> QED
    BY <1>1, <1>2, PTL DEF Spec

(* The assertion of Emulator::resume never fails: no warp is released      *)
(* while a trace of it is on its way, in programs without global barriers. *)
THEOREM ResumeAssertion == NoGlobalBarriers /\ Spec => []HoldersStalled
  BY InvariantHolds, PTL DEF WarpInv

(* No warp is ever stalled with nobody left to release it.                 *)
THEOREM StallsHaveReleasers == NoGlobalBarriers /\ Spec => []NoOrphanStall
  BY InvariantHolds, PTL DEF WarpInv

(* The warps counted in a barrier are parked there and nowhere else.       *)
THEOREM BarrierMembers == NoGlobalBarriers /\ Spec => []BarrierMembersParked
  BY InvariantHolds, PTL DEF WarpInv

(* Spawned warps start only when warp 0 is alone: no running warp has its  *)
(* PC overwritten.                                                         *)
THEOREM SpawnWaits == NoGlobalBarriers /\ Spec => SpawnWaitsForAll
  <1>1. ASSUME WarpInv, [Next]_vars
        PROVE  [\A c \in Cores : wspawn[c].valid /\ ~wspawn'[c].valid =>
                                     active[c] = {0}]_vars
    <2> SUFFICES ASSUME NEW c \in Cores, wspawn[c].valid, ~wspawn'[c].valid, Next
                 PROVE  active[c] = {0}
      BY <1>1 DEF vars
    <2>1. TypeOK /\ 0 \in active[c] /\ active[c] \in SUBSET Warps
      BY <1>1 DEF WarpInv, SpawnerParked, TypeOK
    <2>2. CASE \E d \in Cores : Schedule(d)
      <3>1. PICK d \in Cores : wspawn' = [wspawn EXCEPT ![d].valid = SpawnStillPending(d)]
        BY <2>2 DEF Schedule
      <3>2. d = c /\ ~SpawnStillPending(c)
        BY <2>1, <3>1 DEF TypeOK
      <3>3. Cardinality(active[c]) = 1
        BY <3>2 DEF SpawnStillPending, ServeSpawn
      <3> QED
        BY <2>1, <3>3, AloneIsZero
    <2>3. CASE \E d \in Cores, w \in Warps : ExecuteWspawn(d, w)
      <3>1. PICK d \in Cores, w \in Warps :
                \/ wspawn' = wspawn
                \/ wspawn' = [wspawn EXCEPT ![d] =
                       [valid |-> TRUE, num |-> SpawnCount(trace[d][w].instr.num),
                        entry |-> trace[d][w].instr.entry]]
        BY <2>3 DEF ExecuteWspawn
      <3>2. wspawn \in [Cores -> [valid : BOOLEAN, num : 0..NumWarps, entry : PCs]]
        BY <2>1 DEF TypeOK
      <3>3. CASE d = c
        BY <3>1, <3>2, <3>3
      <3>4. CASE d # c
        BY <3>1, <3>2, <3>4
      <3> QED
        BY <3>3, <3>4
    <2>4. CASE Rerun
      BY <2>1, <2>4 DEF Rerun, Finished
    <2>5. ASSUME NEW d \in Cores, NEW w \in Warps,
                 \/ Decode(d, w) \/ ExecuteRelease(d, w) \/ ExecuteBarTrivial(d, w)
                 \/ ExecuteBarLocal(d, w) \/ ExecuteBarGlobal(d, w)
          PROVE  FALSE
      <3>1. wspawn' = wspawn
        BY <2>5, Zenon DEF Decode, ExecuteRelease, ExecuteBarTrivial, ExecuteBarLocal,
           ExecuteBarGlobal
      <3> QED
        BY <3>1
    <2> QED
      BY <2>2, <2>3, <2>4, <2>5 DEF Next
  <1> QED
    BY <1>1, InvariantHolds, PTL DEF SpawnWaitsForAll, Spec

-----------------------------------------------------------------------------
(* The kernel of MCWarpControl, with its two barriers local to the core (g *)
(* is FALSE) or shared by the cores of a single socket (g is TRUE): at     *)
(* least two cores, as Emulator::barrier ignores a count below two.        *)
KernelProgram(g) ==
    /\ PCs = MCPCs
    /\ StartPC = "start"
    /\ "b0" \in Barriers
    /\ IF g THEN Code = GlobalCode /\ NumSockets = 1 /\ CoresPerSocket >= 2
            ELSE Code = LocalCode

(* One of the two barriers of the kernel, not the trivial one in between.  *)
FullBar(g, i) ==
    /\ i.op = "bar"
    /\ i.bar = "b0"
    /\ i.next \in {"work2", "work3"}
    /\ IF g THEN i.count = NumCores /\ i.global ELSE i.count = NumWarps /\ ~i.global

TrivialBar(i) == i.op = "bar" /\ i.next = "bar2" /\ i.count = 1

(* The program, address by address.                                        *)
LEMMA KernelAt ==
    ASSUME NEW g \in BOOLEAN, KernelProgram(g), NEW w \in Warps
    PROVE  /\ Code[w]["start"] \in {{}, {Wspawn(NumWarps, "work1", "work1")},
                                        {Wspawn(NumWarps + 1, "work1", "work1")}}
           /\ w # 0 => Code[w]["start"] = {}
           /\ Code[w]["work1"] = {Plain("bar1"), Branch("bar1")}
           /\ Code[w]["bar1"] = {IF g THEN AllCoresBar("work2") ELSE LocalBar("work2")}
           /\ Code[w]["work2"] = {Plain("bar2"), Tmc("bar2"), Bar("b0", 1, "bar2")}
           /\ Code[w]["bar2"] = {IF g THEN AllCoresBar("work3") ELSE LocalBar("work3")}
           /\ Code[w]["work3"] = IF w = 0 THEN {Wspawn(1, "end", "after")}
                                          ELSE {TmcZero("end")}
           /\ Code[w]["after"] \subseteq IF w # 0 THEN {}
                   ELSE IF g THEN {TmcZero("end")} ELSE Restartable
           /\ Code[w]["end"] = {}
  <1>1. CASE g
    <2>0. Code = GlobalCode
      BY <1>1, Zenon DEF KernelProgram
    <2>1. Code[w]["start"] = IF w = 0 THEN {Wspawn(NumWarps, "work1", "work1")} ELSE {}
      BY <2>0, Zenon DEF GlobalCode, Kernel, MCPCs
    <2>2. Code[w]["work1"] = {Plain("bar1"), Branch("bar1")}
      BY <2>0, Zenon DEF GlobalCode, Kernel, MCPCs
    <2>3. Code[w]["bar1"] = {AllCoresBar("work2")}
      BY <2>0, Zenon DEF GlobalCode, Kernel, MCPCs
    <2>4. Code[w]["work2"] = {Plain("bar2"), Tmc("bar2"), Bar("b0", 1, "bar2")}
      BY <2>0, Zenon DEF GlobalCode, Kernel, MCPCs
    <2>5. Code[w]["bar2"] = {AllCoresBar("work3")}
      BY <2>0, Zenon DEF GlobalCode, Kernel, MCPCs
    <2>6. Code[w]["work3"] = IF w = 0 THEN {Wspawn(1, "end", "after")} ELSE {TmcZero("end")}
      BY <2>0, Zenon DEF GlobalCode, Kernel, MCPCs
    <2>7. Code[w]["after"] = IF w = 0 THEN {TmcZero("end")} ELSE {}
      BY <2>0, Zenon DEF GlobalCode, Kernel, MCPCs
    <2>8. Code[w]["end"] = {}
      BY <2>0, Zenon DEF GlobalCode, Kernel, MCPCs
    <2> QED
      BY <1>1, <2>1, <2>2, <2>3, <2>4, <2>5, <2>6, <2>7, <2>8
  <1>2. CASE ~g
    <2>0. Code = LocalCode
      BY <1>2, Zenon DEF KernelProgram
    <2>1. Code[w]["start"] = IF w = 0 THEN {Wspawn(NumWarps + 1, "work1", "work1")} ELSE {}
      BY <2>0, Zenon DEF LocalCode, Kernel, MCPCs
    <2>2. Code[w]["work1"] = {Plain("bar1"), Branch("bar1")}
      BY <2>0, Zenon DEF LocalCode, Kernel, MCPCs
    <2>3. Code[w]["bar1"] = {LocalBar("work2")}
      BY <2>0, Zenon DEF LocalCode, Kernel, MCPCs
    <2>4. Code[w]["work2"] = {Plain("bar2"), Tmc("bar2"), Bar("b0", 1, "bar2")}
      BY <2>0, Zenon DEF LocalCode, Kernel, MCPCs
    <2>5. Code[w]["bar2"] = {LocalBar("work3")}
      BY <2>0, Zenon DEF LocalCode, Kernel, MCPCs
    <2>6. Code[w]["work3"] = IF w = 0 THEN {Wspawn(1, "end", "after")} ELSE {TmcZero("end")}
      BY <2>0, Zenon DEF LocalCode, Kernel, MCPCs
    <2>7. Code[w]["after"] = IF w = 0 THEN Restartable ELSE {}
      BY <2>0, Zenon DEF LocalCode, Kernel, MCPCs
    <2>8. Code[w]["end"] = {}
      BY <2>0, Zenon DEF LocalCode, Kernel, MCPCs
    <2> QED
      BY <1>2, <2>1, <2>2, <2>3, <2>4, <2>5, <2>6, <2>7, <2>8
  <1> QED
    BY <1>1, <1>2

(* What the kernel executes at p.                                          *)
LEMMA KernelInstr ==
    ASSUME NEW g \in BOOLEAN, KernelProgram(g),
           NEW w \in Warps, NEW p \in PCs, NEW i \in Code[w][p]
    PROVE  \/ /\ p = "start" /\ w = 0 /\ i.op = "wspawn" /\ i.alive
              /\ i.next = "work1" /\ i.entry = "work1"
           \/ /\ p = "work1" /\ i.op \in {"plain", "branch"} /\ i.alive
              /\ i.next = "bar1"
           \/ p = "bar1" /\ i.alive /\ i.next = "work2" /\ FullBar(g, i)
           \/ /\ p = "work2" /\ i.alive /\ i.next = "bar2"
              /\ i.op \in {"plain", "wctl"} \/ TrivialBar(i)
           \/ p = "bar2" /\ i.alive /\ i.next = "work3" /\ FullBar(g, i)
           \/ /\ p = "work3" /\ w = 0 /\ i.op = "wspawn" /\ i.alive
              /\ i.next = "after" /\ i.num = 1
           \/ p = "work3" /\ w # 0 /\ i.op = "wctl" /\ ~i.alive /\ i.next = "end"
           \/ p = "after" /\ w = 0 /\ i.op = "branch" /\ i.alive /\ i.next = "start" /\ ~g
           \/ p = "after" /\ w = 0 /\ i.op = "wctl" /\ ~i.alive /\ i.next = "end"
  <1>1. p \in MCPCs
    BY DEF KernelProgram
  <1>2. CASE p \in {"start", "work1", "work2"}
    BY <1>2, KernelAt DEF Wspawn, Plain, Branch, Tmc, Bar, TrivialBar
  <1>3. CASE p \in {"bar1", "bar2"}
    BY <1>3, KernelAt DEF AllCoresBar, LocalBar, GlobalBar, Bar, FullBar
  <1>4. CASE p \in {"work3", "after", "end"}
    BY <1>4, KernelAt DEF Wspawn, TmcZero, Restartable, Branch
  <1> QED
    BY <1>1, <1>2, <1>3, <1>4 DEF MCPCs

-----------------------------------------------------------------------------
(* A warp waits at one of the two barriers: its BAR is in flight, the core *)
(* counts it, or the core has entered the cluster's barrier.               *)
AtBar(c, w) ==
    \/ w \in barriers[c]["b0"]
    \/ c \in clusterBar["b0"]
    \/ /\ trace[c][w] # NoTrace
       /\ trace[c][w].instr.op = "bar"
       /\ trace[c][w].instr.next # "bar2"

(* How many of the two barriers have let warp w through.                   *)
Past(c, w) ==
    IF pc[c][w] \in {"start", "work1", "bar1"} THEN 0
    ELSE IF pc[c][w] = "bar2" \/ (pc[c][w] = "work2" /\ ~AtBar(c, w))
                              \/ (pc[c][w] = "work3" /\ AtBar(c, w)) THEN 1
    ELSE IF pc[c][w] = "work2" THEN 0 ELSE 2

(* The warps that run the kernel; with global barriers, nobody starts it   *)
(* again in the same run, so that a warp that ended still counts.          *)
Counted(g, c, w) == w \in active[c] \/ (g /\ pc[c][w] = "end")

(* The warps that a barrier synchronises have passed equally many.         *)
Lockstep(g) ==
    \A c, d \in Cores : g \/ c = d =>
        \A w, v \in Warps :
            Counted(g, c, w) /\ Counted(g, d, v) => Past(c, w) = Past(d, v)

(* What is in flight stands between the warp's PC and the instruction      *)
(* before it.                                                              *)
FlightOK(g, c, w) ==
    trace[c][w] # NoTrace =>
        /\ w \in stalled[c]
        /\ trace[c][w].instr.alive => w \in active[c]
        /\ g /\ ~trace[c][w].instr.alive => pc[c][w] = "end"
        /\ trace[c][w].instr.op = "wspawn" =>
              /\ w = 0
              /\ \/ pc[c][w] = "work1" /\ trace[c][w].instr.entry = "work1"
                 \/ pc[c][w] = "after" /\ trace[c][w].instr.num = 1
        /\ trace[c][w].instr.op = "bar" =>
              /\ trace[c][w].instr.next = pc[c][w]
              /\ FullBar(g, trace[c][w].instr) \/ TrivialBar(trace[c][w].instr)

Parked(c, w) ==
    /\ w \in active[c]
    /\ w \in stalled[c]
    /\ trace[c][w] = NoTrace
    /\ pc[c][w] \in {"work2", "work3"}

MembersOK(c) ==
    \A b \in Barriers : \A w \in barriers[c][b] : b = "b0" /\ Parked(c, w)

SpawnOK(c) ==
    wspawn[c].valid =>
        /\ 0 \in active[c]
        /\ 0 \in stalled[c]
        /\ trace[c][0] = NoTrace
        /\ \/ pc[c][0] = "work1" /\ wspawn[c].entry = "work1"
           \/ pc[c][0] = "after" /\ wspawn[c].num <= 1

Joining(c) ==
    /\ 0 \in stalled[c]
    /\ wspawn[c].valid \/ (trace[c][0] # NoTrace /\ trace[c][0].instr.op = "wspawn")

JoinOK(c) ==
    /\ pc[c][0] \in {"start", "end"} => active[c] \subseteq {0}
    /\ pc[c][0] = "after" => active[c] \subseteq {0} \/ Joining(c)

(* A core in the cluster's barrier is wholly parked there.                 *)
ClusterOK(g, c) ==
    c \in clusterBar["b0"] =>
        /\ g
        /\ active[c] # {}
        /\ ~wspawn[c].valid
        /\ barriers[c]["b0"] = {}
        /\ \A w \in active[c] : Parked(c, w)

KernelCore(g, c) ==
    /\ \A w \in Warps : FlightOK(g, c, w)
    /\ MembersOK(c)
    /\ SpawnOK(c)
    /\ JoinOK(c)
    /\ ClusterOK(g, c)

KernelInv(g) ==
    /\ TypeOK
    /\ Lockstep(g)
    /\ \A c \in Cores : KernelCore(g, c)

(* Nothing of core d changes.                                              *)
CoreUnchanged(d) ==
    /\ pc'[d] = pc[d]
    /\ active'[d] = active[d]
    /\ stalled'[d] = stalled[d]
    /\ wspawn'[d] = wspawn[d]
    /\ barriers'[d] = barriers[d]
    /\ trace'[d] = trace[d]
    /\ d \in clusterBar'["b0"] <=> d \in clusterBar["b0"]

LEMMA KernelOther ==
    ASSUME NEW g \in BOOLEAN, NEW d \in Cores, CoreUnchanged(d)
    PROVE  /\ KernelCore(g, d) => KernelCore(g, d)'
           /\ \A w \in Warps : Counted(g, d, w)' = Counted(g, d, w)
                               /\ Past(d, w)' = Past(d, w)
  <1>1. \A w \in Warps : AtBar(d, w)' <=> AtBar(d, w)
    BY DEF CoreUnchanged, AtBar
  <1>2. \A w \in Warps : Past(d, w)' = Past(d, w)
    BY <1>1 DEF CoreUnchanged, Past
  <1>3. \A w \in Warps : Counted(g, d, w)' = Counted(g, d, w)
    BY DEF CoreUnchanged, Counted
  <1>4. ASSUME NEW w \in Warps PROVE FlightOK(g, d, w) => FlightOK(g, d, w)'
    BY DEF CoreUnchanged, FlightOK
  <1>5. MembersOK(d) => MembersOK(d)'
    BY DEF CoreUnchanged, MembersOK, Parked
  <1>6. SpawnOK(d) => SpawnOK(d)'
    BY DEF CoreUnchanged, SpawnOK
  <1>7. JoinOK(d) => JoinOK(d)'
    BY DEF CoreUnchanged, JoinOK, Joining
  <1>8. ClusterOK(g, d) => ClusterOK(g, d)'
    BY DEF CoreUnchanged, ClusterOK, Parked
  <1> QED
    BY <1>2, <1>3, <1>4, <1>5, <1>6, <1>7, <1>8 DEF KernelCore

(* Lockstep survives a step that gives every counted warp the number of a  *)
(* counted warp of its core.                                               *)
LEMMA LockstepKept ==
    ASSUME NEW g \in BOOLEAN, Lockstep(g),
           \A d \in Cores, w \in Warps : Counted(g, d, w)' =>
               \E v \in Warps : Counted(g, d, v) /\ Past(d, w)' = Past(d, v)
    PROVE  Lockstep(g)'
  <1> SUFFICES ASSUME NEW c \in Cores, NEW d \in Cores, g \/ c = d,
                      NEW w \in Warps, NEW v \in Warps,
                      Counted(g, c, w)', Counted(g, d, v)'
               PROVE  Past(c, w)' = Past(d, v)'
    BY DEF Lockstep
  <1>1. PICK x \in Warps : Counted(g, c, x) /\ Past(c, w)' = Past(c, x)
    OBVIOUS
  <1>2. PICK y \in Warps : Counted(g, d, y) /\ Past(d, v)' = Past(d, y)
    OBVIOUS
  <1> QED
    BY <1>1, <1>2 DEF Lockstep

(* A step of core c only: the kernel's invariant follows from core c.      *)
LEMMA OneCore ==
    ASSUME NEW g \in BOOLEAN, KernelInv(g), TypeOK', NEW c \in Cores,
           \A d \in Cores \ {c} : CoreUnchanged(d),
           KernelCore(g, c)',
           \A w \in Warps : Counted(g, c, w)' =>
               \E v \in Warps : Counted(g, c, v) /\ Past(c, w)' = Past(c, v)
    PROVE  KernelInv(g)'
  <1>1. \A d \in Cores : KernelCore(g, d)'
    BY KernelOther DEF KernelInv
  <1>2. \A d \in Cores, w \in Warps : Counted(g, d, w)' =>
            \E v \in Warps : Counted(g, d, v) /\ Past(d, w)' = Past(d, v)
    BY KernelOther
  <1>3. Lockstep(g)'
    BY <1>2, LockstepKept DEF KernelInv
  <1> QED
    BY <1>1, <1>3 DEF KernelInv

(* With local barriers the warps of core c may go on together.             *)
LEMMA OneCoreAlone ==
    ASSUME NEW g \in BOOLEAN, ~g, KernelInv(g), TypeOK', NEW c \in Cores,
           \A d \in Cores \ {c} : CoreUnchanged(d),
           KernelCore(g, c)',
           \A w, v \in Warps : Counted(g, c, w)' /\ Counted(g, c, v)' =>
               Past(c, w)' = Past(c, v)'
    PROVE  KernelInv(g)'
  <1>1. \A d \in Cores : KernelCore(g, d)'
    BY KernelOther DEF KernelInv
  <1>2. Lockstep(g)'
    <2> SUFFICES ASSUME NEW d \in Cores, NEW w \in Warps, NEW v \in Warps,
                        Counted(g, d, w)', Counted(g, d, v)'
                 PROVE  Past(d, w)' = Past(d, v)'
      BY DEF Lockstep
    <2>1. CASE d = c
      BY <2>1
    <2>2. CASE d # c
      <3>1. /\ Past(d, w)' = Past(d, w) /\ Past(d, v)' = Past(d, v)
            /\ Counted(g, d, w) /\ Counted(g, d, v)
        BY <2>2, KernelOther
      <3> QED
        BY <3>1 DEF KernelInv, Lockstep
    <2> QED
      BY <2>1, <2>2
  <1> QED
    BY <1>1, <1>2 DEF KernelInv

(* A core in the cluster's barrier has nothing in flight: what a warp that *)
(* ended left in flight would put it ahead of the warps that wait.         *)
LEMMA ClusterIdle ==
    ASSUME NEW g \in BOOLEAN, KernelInv(g), NEW c \in Cores,
           c \in clusterBar["b0"], NEW w \in Warps
    PROVE  trace[c][w] = NoTrace
  <1> SUFFICES ASSUME trace[c][w] # NoTrace PROVE FALSE
    OBVIOUS
  <1>1. g /\ active[c] # {} /\ \A v \in active[c] : Parked(c, v)
    BY DEF KernelInv, KernelCore, ClusterOK
  <1>2. PICK v \in active[c] : Parked(c, v)
    BY <1>1
  <1>3. v \in Warps
    BY DEF KernelInv, TypeOK
  <1>4. w \notin active[c]
    BY <1>1 DEF Parked
  <1>5. pc[c][w] = "end"
    <2>1. trace[c][w] \in Traces
      BY DEF KernelInv, TypeOK
    <2>2. trace[c][w].instr.alive \in BOOLEAN
      BY <2>1, TraceFields, InstrFields
    <2> QED
      BY <1>1, <1>4, <2>2 DEF KernelInv, KernelCore, FlightOK
  <1>6. Past(c, v) \in {0, 1} /\ Past(c, w) = 2
    BY <1>2, <1>5 DEF Past, Parked, AtBar
  <1> QED
    BY <1>1, <1>3, <1>5, <1>6 DEF KernelInv, Lockstep, Counted

-----------------------------------------------------------------------------
(* Warp w of core c, which has nothing in flight, executes i.              *)
Moves(c, w, i) ==
    /\ w \in active[c]
    /\ trace[c][w] = NoTrace
    /\ w \notin barriers[c]["b0"]
    /\ c \notin clusterBar["b0"]
    /\ w = 0 /\ pc[c][0] \in {"start", "after"} => active[c] = {0}
    /\ pc'[c] = [pc[c] EXCEPT ![w] = i.next]
    /\ active'[c] = IF i.alive THEN active[c] ELSE active[c] \ {w}
    /\ w \in stalled'[c]
    /\ \A v \in Warps \ {w} : v \in stalled'[c] <=> v \in stalled[c]
    /\ trace'[c] = [trace[c] EXCEPT ![w] = InFlight(i, "fetch")]
    /\ barriers'[c] = barriers[c]
    /\ c \notin clusterBar'["b0"]
    /\ wspawn'[c].num = wspawn[c].num
    /\ wspawn'[c].entry = wspawn[c].entry
    /\ wspawn'[c].valid <=> wspawn[c].valid /\ w # 0

LEMMA MovesCore ==
    ASSUME NEW g \in BOOLEAN, KernelProgram(g), KernelInv(g),
           NEW c \in Cores, NEW w \in Warps, NEW i \in Code[w][pc[c][w]],
           Moves(c, w, i)
    PROVE  KernelCore(g, c)'
  <1> DEFINE t == InFlight(i, "fetch")
  <1>1. pc[c] \in [Warps -> PCs] /\ trace[c] \in [Warps -> Traces]
        /\ active[c] \in SUBSET Warps /\ barriers[c] \in [Barriers -> SUBSET Warps]
    BY DEF KernelInv, TypeOK
  <1>2. i \in Instr
    BY <1>1, CodeIsInstr
  <1>3. t # NoTrace /\ t.instr = i
    BY <1>2, InFlightType DEF Stages
  <1> HIDE DEF t
  <1>4. /\ pc'[c][w] = i.next
        /\ \A v \in Warps \ {w} : pc'[c][v] = pc[c][v]
        /\ trace'[c][w] = t
        /\ \A v \in Warps \ {w} : trace'[c][v] = trace[c][v]
    BY <1>1 DEF Moves, t
  <1>5. \A v \in Warps \ {w} : v \in active'[c] <=> v \in active[c]
    BY DEF Moves
  <1>6. i.alive => w \in active'[c]
    BY DEF Moves
  <1>7. /\ i.op = "wspawn" =>
              /\ w = 0
              /\ (i.next = "work1" /\ i.entry = "work1") \/ (i.next = "after" /\ i.num = 1)
        /\ i.op = "bar" => FullBar(g, i) \/ TrivialBar(i)
        /\ ~i.alive => i.next = "end"
        /\ i.next = "after" => i.op = "wspawn"
        /\ w = 0 /\ i.next \in {"start", "end"} => pc[c][0] = "after"
    BY <1>1, KernelInstr DEF FullBar, TrivialBar
  <1>8. KernelCore(g, c)
    BY DEF KernelInv
  <1>9. ASSUME NEW v \in Warps PROVE FlightOK(g, c, v)'
    <2>1. CASE v = w
      BY <1>3, <1>4, <1>6, <1>7, <2>1 DEF FlightOK, Moves
    <2>2. CASE v # w
      BY <1>4, <1>5, <1>8, <2>2 DEF FlightOK, Moves, KernelCore
    <2> QED
      BY <2>1, <2>2
  <1>10. MembersOK(c)'
    <2> SUFFICES ASSUME NEW b \in Barriers, NEW v \in barriers'[c][b]
                 PROVE  b = "b0" /\ Parked(c, v)'
      BY DEF MembersOK
    <2>1. v \in barriers[c][b] /\ b = "b0" /\ Parked(c, v)
      BY <1>8 DEF Moves, KernelCore, MembersOK
    <2>2. v # w /\ v \in Warps
      BY <1>1, <2>1 DEF Moves
    <2> QED
      BY <1>4, <1>5, <2>1, <2>2 DEF Parked, Moves
  <1>11. SpawnOK(c)'
    BY <1>4, <1>5, <1>8, ZeroIsWarp DEF SpawnOK, Moves, KernelCore
  <1>12. JoinOK(c)'
    <2>1. CASE w = 0
      BY <1>3, <1>4, <1>7, <2>1 DEF JoinOK, Joining, Moves
    <2>2. CASE w # 0
      BY <1>4, <1>5, <1>8, <2>2, ZeroIsWarp DEF JoinOK, Joining, Moves, KernelCore
    <2> QED
      BY <2>1, <2>2
  <1>13. ClusterOK(g, c)'
    BY DEF ClusterOK, Moves
  <1> QED
    BY <1>9, <1>10, <1>11, <1>12, <1>13 DEF KernelCore

(* Executing an instruction takes no warp through a barrier.               *)
LEMMA MovesPast ==
    ASSUME NEW g \in BOOLEAN, KernelProgram(g), KernelInv(g),
           NEW c \in Cores, NEW w \in Warps, NEW i \in Code[w][pc[c][w]],
           Moves(c, w, i), NEW v \in Warps, Counted(g, c, v)'
    PROVE  \/ Counted(g, c, v) /\ Past(c, v)' = Past(c, v)
           \/ ~g /\ active'[c] = {0}
  <1> DEFINE t == InFlight(i, "fetch")
  <1>1. pc[c] \in [Warps -> PCs] /\ trace[c] \in [Warps -> Traces]
    BY DEF KernelInv, TypeOK
  <1>2. i \in Instr
    BY <1>1, CodeIsInstr
  <1>3. t # NoTrace /\ t.instr = i
    BY <1>2, InFlightType DEF Stages
  <1> HIDE DEF t
  <1>4. /\ pc'[c][w] = i.next
        /\ \A x \in Warps \ {w} : pc'[c][x] = pc[c][x]
        /\ trace'[c][w] = t
        /\ \A x \in Warps \ {w} : trace'[c][x] = trace[c][x]
    BY <1>1 DEF Moves, t
  <1>5. CASE v # w
    <2>1. Counted(g, c, v)
      BY <1>4, <1>5 DEF Counted, Moves
    <2>2. AtBar(c, v)' <=> AtBar(c, v)
      BY <1>4, <1>5 DEF AtBar, Moves
    <2> QED
      BY <1>4, <1>5, <2>1, <2>2 DEF Past
  <1>6. CASE v = w
    <2>1. Counted(g, c, w) /\ ~AtBar(c, w)
      BY DEF Counted, AtBar, Moves
    <2>2. AtBar(c, w)' <=> i.op = "bar" /\ i.next # "bar2"
      BY <1>3, <1>4 DEF AtBar, Moves
    <2>3. CASE i.next = "start"
      <3>1. ~g /\ w = 0 /\ pc[c][w] = "after" /\ i.alive
        BY <1>1, <2>3, KernelInstr DEF FullBar
      <3> QED
        BY <3>1 DEF Moves
    <2>4. CASE i.next # "start"
      <3>1. \/ pc[c][w] \in {"start", "work1", "bar1"} /\ i.next \in {"work1", "bar1"}
            \/ pc[c][w] = "bar1" /\ i.next = "work2" /\ AtBar(c, w)'
            \/ pc[c][w] = "work2" /\ i.next = "bar2"
            \/ pc[c][w] = "bar2" /\ i.next = "work3" /\ AtBar(c, w)'
            \/ pc[c][w] \in {"work3", "after"} /\ i.next \in {"after", "end"}
        BY <1>1, <2>2, <2>4, KernelInstr DEF FullBar
      <3> QED
        BY <1>4, <1>6, <2>1, <3>1 DEF Past
    <2> QED
      BY <2>3, <2>4
  <1> QED
    BY <1>5, <1>6

(* The warps that step() starts together with warp 0 are at the kernel's   *)
(* entry, as warp 0 is.                                                    *)
LEMMA KernelSchedule ==
    ASSUME NEW g \in BOOLEAN, KernelProgram(g), KernelInv(g), TypeOK',
           NEW c \in Cores, Schedule(c)
    PROVE  KernelInv(g)'
  <1> DEFINE act == active[c] \cup Spawned(c)
             stl == StalledAfterSpawn(c)
             pcs == [v \in Warps |->
                      IF v \in Spawned(c) THEN wspawn[c].entry ELSE pc[c][v]]
  <1>0. TypeOK /\ KernelCore(g, c)
    BY DEF KernelInv
  <1>1. act \in SUBSET Warps /\ stl \in SUBSET Warps /\ pcs \in [Warps -> PCs]
    BY <1>0, SpawnedAreWarps DEF TypeOK
  <1>2. PICK w \in act \ stl : \E i \in Code[w][pcs[w]] :
            /\ pc' = [pc EXCEPT ![c] = [pcs EXCEPT ![w] = i.next]]
            /\ active' = [active EXCEPT ![c] =
                            IF i.alive THEN act ELSE act \ {w}]
            /\ stalled' = [stalled EXCEPT ![c] = stl \cup {w}]
            /\ trace' = [trace EXCEPT ![c][w] = InFlight(i, "fetch")]
    BY DEF Schedule
  <1>3. PICK i \in Code[w][pcs[w]] :
            /\ pc' = [pc EXCEPT ![c] = [pcs EXCEPT ![w] = i.next]]
            /\ active' = [active EXCEPT ![c] =
                            IF i.alive THEN act ELSE act \ {w}]
            /\ stalled' = [stalled EXCEPT ![c] = stl \cup {w}]
            /\ trace' = [trace EXCEPT ![c][w] = InFlight(i, "fetch")]
    BY <1>2
  <1>4. /\ wspawn' = [wspawn EXCEPT ![c].valid = SpawnStillPending(c)]
        /\ barriers' = barriers
        /\ clusterBar' = clusterBar
    BY DEF Schedule
  <1>5. w \in Warps /\ w \in act /\ w \notin stl
    BY <1>1, <1>2
  <1>6. ServeSpawn(c) => wspawn[c].valid /\ active[c] = {0}
    <2> SUFFICES ASSUME ServeSpawn(c) PROVE wspawn[c].valid /\ active[c] = {0}
      OBVIOUS
    <2>1. wspawn[c].valid /\ Cardinality(active[c]) = 1
      BY DEF ServeSpawn
    <2>2. 0 \in active[c] /\ active[c] \in SUBSET Warps
      BY <1>0, <2>1 DEF KernelCore, SpawnOK, TypeOK
    <2> QED
      BY <2>1, <2>2, AloneIsZero
  <1>7. w \in Spawned(c) => ServeSpawn(c)
    BY DEF Spawned
  (* A core in the cluster's barrier has no warp to schedule.              *)
  <1>8. c \notin clusterBar["b0"]
    <2> SUFFICES ASSUME c \in clusterBar["b0"] PROVE FALSE
      OBVIOUS
    <2>1. ~ServeSpawn(c) /\ \A v \in active[c] : v \in stalled[c]
      BY <1>0 DEF KernelCore, ClusterOK, ServeSpawn, Parked
    <2> QED
      BY <1>5, <2>1 DEF Spawned, StalledAfterSpawn
  <1> HIDE DEF act, stl, pcs
  <1>9. \A d \in Cores \ {c} : CoreUnchanged(d)
    BY <1>0, <1>3, <1>4 DEF TypeOK, CoreUnchanged
  <1>10. /\ pc'[c] = [pcs EXCEPT ![w] = i.next]
         /\ active'[c] = IF i.alive THEN act ELSE act \ {w}
         /\ stalled'[c] = stl \cup {w}
         /\ trace'[c] = [trace[c] EXCEPT ![w] = InFlight(i, "fetch")]
         /\ barriers'[c] = barriers[c]
         /\ c \notin clusterBar'["b0"]
         /\ wspawn'[c].valid = SpawnStillPending(c)
         /\ wspawn'[c].num = wspawn[c].num
         /\ wspawn'[c].entry = wspawn[c].entry
    BY <1>0, <1>3, <1>4, <1>8 DEF TypeOK
  <1>11. SpawnStillPending(c) <=> wspawn[c].valid /\ ~ServeSpawn(c)
    BY DEF SpawnStillPending
  (* The kernel starts: warp 0 waits at the entry, alone.                  *)
  <1>12. CASE ServeSpawn(c) /\ pc[c][0] = "work1"
    <2>1. /\ active[c] = {0} /\ act = {0} \cup Spawned(c)
          /\ wspawn[c].entry = "work1" /\ trace[c][0] = NoTrace
      BY <1>0, <1>6, <1>12 DEF KernelCore, SpawnOK, act
    <2>2. \A v \in Warps : pcs[v] = IF v \in act THEN "work1" ELSE pc[c][v]
      BY <1>12, <2>1 DEF pcs
    <2>3. i.op \in {"plain", "branch"} /\ i.alive /\ i.next = "bar1" /\ i \in Instr
      <3>1. pcs[w] = "work1" /\ pcs[w] \in PCs
        BY <1>1, <1>5, <2>2
      <3> QED
        BY <1>5, <3>1, KernelInstr, CodeIsInstr
    <2>4. \A v \in Warps : pc'[c][v] = IF v = w THEN "bar1" ELSE pcs[v]
      BY <1>1, <1>10, <2>3
    <2>5. active'[c] = act /\ \A v \in stalled[c] : v # 0 => v \in stalled'[c]
      BY <1>10, <2>3 DEF stl, StalledAfterSpawn
    <2>6. /\ trace'[c][w].instr = i
          /\ \A v \in Warps \ {w} : trace'[c][v] = trace[c][v]
      BY <1>0, <1>5, <1>10, <2>3, InFlightType DEF TypeOK, Stages
    <2>7. \A b \in Barriers : barriers[c][b] = {}
      BY <1>0, <1>12, <2>1 DEF KernelCore, MembersOK, Parked
    <2>8. \A v \in Warps : pc[c][v] = "end" => ~g
      <3> SUFFICES ASSUME NEW v \in Warps, pc[c][v] = "end", g PROVE FALSE
        OBVIOUS
      <3>1. Past(c, v) = 2 /\ Past(c, 0) = 0
        BY <1>12 DEF Past
      <3> QED
        BY <2>1, <3>1, ZeroIsWarp DEF KernelInv, Lockstep, Counted
    (* A warp that was not active has no live instruction in flight.       *)
    <2>9. ASSUME NEW v \in Warps, v # w, trace[c][v] # NoTrace
          PROVE  v # 0 /\ ~trace[c][v].instr.alive /\ ~g
                 /\ trace[c][v].instr.op \notin {"wspawn", "bar"}
      <3>1. trace[c][v].instr \in Instr
        BY <1>0, <2>9, TraceFields DEF TypeOK
      <3>2. v # 0
        BY <2>1, <2>9
      <3>3. ~trace[c][v].instr.alive
        BY <1>0, <2>1, <2>9, <3>1, <3>2 DEF KernelCore, FlightOK
      <3>4. ~g
        BY <1>0, <2>8, <2>9, <3>3 DEF KernelCore, FlightOK
      <3> QED
        BY <3>1, <3>2, <3>3, <3>4, InstrFields
    <2>10. KernelCore(g, c)'
      <3>1. ASSUME NEW v \in Warps PROVE FlightOK(g, c, v)'
        <4>1. CASE v = w
          BY <1>5, <1>10, <2>3, <2>5, <2>6, <4>1 DEF FlightOK
        <4>2. CASE v # w
          BY <1>0, <2>5, <2>6, <2>9, <4>2 DEF FlightOK, KernelCore
        <4> QED
          BY <4>1, <4>2
      <3>2. MembersOK(c)'
        BY <1>10, <2>7 DEF MembersOK
      <3>3. SpawnOK(c)'
        BY <1>10, <1>11, <1>12 DEF SpawnOK
      <3>4. JoinOK(c)'
        BY <2>1, <2>2, <2>4, ZeroIsWarp DEF JoinOK
      <3>5. ClusterOK(g, c)'
        BY <1>10 DEF ClusterOK
      <3> QED
        BY <3>1, <3>2, <3>3, <3>4, <3>5 DEF KernelCore
    <2>11. ASSUME NEW v \in Warps, Counted(g, c, v)'
           PROVE  Counted(g, c, 0) /\ Past(c, v)' = Past(c, 0)
      <3>1. v \in act
        BY <1>5, <2>2, <2>4, <2>5, <2>8, <2>11 DEF Counted
      <3>2. pc'[c][v] \in {"work1", "bar1"}
        BY <2>2, <2>4, <3>1
      <3> QED
        BY <1>12, <2>1, <3>2 DEF Past, Counted
    <2> QED
      BY <1>9, <2>10, <2>11, OneCore, ZeroIsWarp
  (* Otherwise no warp is started.                                         *)
  <1>13. CASE ~(ServeSpawn(c) /\ pc[c][0] = "work1")
    <2>1. Spawned(c) = {} /\ act = active[c] /\ pcs = pc[c]
      <3>1. Spawned(c) = {}
        <4>1. CASE ~ServeSpawn(c)
          BY <4>1 DEF Spawned
        <4>2. CASE ServeSpawn(c)
          <5>1. wspawn[c].num \in Nat /\ wspawn[c].num <= 1
            BY <1>0, <1>6, <1>13, <4>2, SizesAssumption DEF KernelCore, SpawnOK, TypeOK
          <5> QED
            BY <5>1 DEF Spawned
        <4> QED
          BY <4>1, <4>2
      <3> QED
        BY <1>0, <3>1 DEF TypeOK, act, pcs
    <2>2. Moves(c, w, i)
      <3>1. w \in active[c] /\ (w \notin stalled[c] \/ (w = 0 /\ ServeSpawn(c)))
        BY <1>5, <2>1 DEF stl, StalledAfterSpawn
      <3>2. trace[c][w] = NoTrace
        BY <1>0, <1>5, <1>6, <3>1 DEF KernelCore, FlightOK, SpawnOK
      <3>3. w \notin barriers[c]["b0"]
        <4>1. "b0" \in Barriers
          BY DEF KernelProgram
        <4> QED
          BY <1>0, <1>6, <3>1, <4>1 DEF KernelCore, MembersOK, Parked, SpawnOK
      <3>4. w = 0 /\ pc[c][0] \in {"start", "after"} => active[c] = {0}
        BY <1>0, <1>6, <3>1 DEF KernelCore, JoinOK, Joining
      <3>5. \A v \in Warps \ {w} : v \in stalled'[c] <=> v \in stalled[c]
        BY <1>6, <1>10, <2>1, <3>1 DEF stl, StalledAfterSpawn
      <3>6. wspawn'[c].valid <=> wspawn[c].valid /\ w # 0
        BY <1>0, <1>6, <1>10, <1>11, <3>1 DEF KernelCore, SpawnOK
      <3> QED
        BY <1>8, <1>10, <2>1, <3>1, <3>2, <3>3, <3>4, <3>5, <3>6 DEF Moves
    <2>3. i \in Code[w][pc[c][w]]
      BY <2>1
    <2>4. KernelCore(g, c)'
      BY <1>5, <2>2, <2>3, MovesCore
    <2>5. \A v \in Warps : Counted(g, c, v)' =>
              \/ Counted(g, c, v) /\ Past(c, v)' = Past(c, v)
              \/ ~g /\ active'[c] = {0}
      BY <1>5, <2>2, <2>3, MovesPast
    <2>6. CASE ~g /\ active'[c] = {0}
      BY <1>9, <2>4, <2>6, OneCoreAlone DEF Counted
    <2>7. CASE ~(~g /\ active'[c] = {0})
      BY <1>9, <2>4, <2>5, <2>7, OneCore
    <2> QED
      BY <2>6, <2>7
  <1> QED
    BY <1>12, <1>13

-----------------------------------------------------------------------------
(* What is in flight is an instruction of the kernel, and its core has not *)
(* entered the cluster's barrier.                                          *)
LEMMA KernelFlight ==
    ASSUME NEW g \in BOOLEAN, KernelInv(g), NEW c \in Cores, NEW w \in Warps,
           trace[c][w] # NoTrace
    PROVE  /\ trace[c] \in [Warps -> Traces]
           /\ trace[c][w].instr \in Instr
           /\ trace[c][w].stage \in Stages
           /\ c \notin clusterBar["b0"]
           /\ \A b \in Barriers : w \notin barriers[c][b]
           /\ KernelCore(g, c)
           /\ FlightOK(g, c, w)
  <1>1. trace[c] \in [Warps -> Traces] /\ KernelCore(g, c)
    BY DEF KernelInv, TypeOK
  <1>2. trace[c][w] \in Traces
    BY <1>1
  <1>3. c \notin clusterBar["b0"]
    BY ClusterIdle
  <1> QED
    BY <1>1, <1>2, <1>3, TraceFields DEF KernelCore, MembersOK, Parked

(* The trace of warp w ends and the warp is released.                      *)
Lands(c, w) ==
    /\ trace[c][w] # NoTrace
    /\ trace' = [trace EXCEPT ![c][w] = NoTrace]
    /\ stalled' = [stalled EXCEPT ![c] = @ \ {w}]
    /\ UNCHANGED <<pc, active, wspawn, barriers, clusterBar>>

LEMMA LandsCore ==
    ASSUME NEW g \in BOOLEAN, KernelInv(g), NEW c \in Cores, NEW w \in Warps,
           Lands(c, w), trace[c][w].instr.op = "wspawn" => active[c] = {0}
    PROVE  /\ KernelCore(g, c)'
           /\ \A d \in Cores \ {c} : CoreUnchanged(d)
  <1>1. trace[c][w] # NoTrace
    BY DEF Lands
  <1>2. trace[c] \in [Warps -> Traces] /\ KernelCore(g, c)
    BY <1>1, KernelFlight
  <1>3. /\ trace'[c][w] = NoTrace
        /\ \A v \in Warps \ {w} : trace'[c][v] = trace[c][v]
        /\ stalled'[c] = stalled[c] \ {w}
        /\ pc' = pc /\ active' = active /\ wspawn' = wspawn
        /\ barriers' = barriers /\ clusterBar' = clusterBar
    BY <1>2 DEF KernelInv, TypeOK, Lands
  <1>4. active[c] \in SUBSET Warps /\ barriers[c] \in [Barriers -> SUBSET Warps]
    BY DEF KernelInv, TypeOK
  <1>5. \A v \in Warps : FlightOK(g, c, v)'
    BY <1>2, <1>3 DEF KernelCore, FlightOK
  <1>6. MembersOK(c)'
    <2> SUFFICES ASSUME NEW b \in Barriers, NEW v \in barriers[c][b]
                 PROVE  b = "b0" /\ Parked(c, v)'
      BY <1>3 DEF MembersOK
    <2>1. b = "b0" /\ Parked(c, v) /\ v \in Warps
      BY <1>2, <1>4 DEF KernelCore, MembersOK
    <2>2. v # w
      BY <1>1, <2>1 DEF Parked
    <2> QED
      BY <1>3, <2>1, <2>2 DEF Parked
  <1>7. SpawnOK(c)'
    BY <1>1, <1>2, <1>3, ZeroIsWarp DEF KernelCore, SpawnOK
  <1>8. JoinOK(c)'
    BY <1>1, <1>2, <1>3, ZeroIsWarp DEF KernelCore, SpawnOK, JoinOK, Joining
  <1>9. c \notin clusterBar'["b0"]
    BY <1>1, <1>3, KernelFlight
  <1>10. \A d \in Cores \ {c} : CoreUnchanged(d)
    BY <1>3 DEF KernelInv, TypeOK, Lands, CoreUnchanged
  <1> QED
    BY <1>5, <1>6, <1>7, <1>8, <1>9, <1>10 DEF KernelCore, ClusterOK

(* Unless its instruction was one of the two barriers, the warp is where   *)
(* it was.                                                                 *)
LEMMA KernelLands ==
    ASSUME NEW g \in BOOLEAN, KernelInv(g), TypeOK', NEW c \in Cores, NEW w \in Warps,
           Lands(c, w), ~FullBar(g, trace[c][w].instr),
           trace[c][w].instr.op = "wspawn" => active[c] = {0}
    PROVE  KernelInv(g)'
  <1>1. KernelCore(g, c)' /\ \A d \in Cores \ {c} : CoreUnchanged(d)
    BY LandsCore
  <1>2. trace[c][w] # NoTrace
    BY DEF Lands
  <1>3. trace[c] \in [Warps -> Traces] /\ FlightOK(g, c, w)
    BY <1>2, KernelFlight
  <1>4. /\ trace'[c][w] = NoTrace
        /\ \A v \in Warps \ {w} : trace'[c][v] = trace[c][v]
        /\ pc' = pc /\ active' = active
        /\ barriers' = barriers /\ clusterBar' = clusterBar
    BY <1>3 DEF KernelInv, TypeOK, Lands
  <1>5. ~(trace[c][w].instr.op = "bar" /\ trace[c][w].instr.next # "bar2")
    BY <1>2, <1>3 DEF FlightOK, TrivialBar
  <1>6. \A v \in Warps : AtBar(c, v)' <=> AtBar(c, v)
    BY <1>4, <1>5 DEF AtBar
  <1>7. \A v \in Warps : Past(c, v)' = Past(c, v) /\ Counted(g, c, v)' = Counted(g, c, v)
    BY <1>4, <1>6 DEF Past, Counted
  <1> QED
    BY <1>1, <1>7, OneCore

LEMMA KernelDecode ==
    ASSUME NEW g \in BOOLEAN, KernelInv(g), TypeOK', NEW c \in Cores, NEW w \in Warps,
           Decode(c, w)
    PROVE  KernelInv(g)'
  <1> DEFINE i == trace[c][w].instr
  <1>1. trace[c][w] # NoTrace
    BY DEF Decode, NoTrace
  <1>2. trace[c] \in [Warps -> Traces] /\ KernelCore(g, c) /\ i \in Instr
    BY <1>1, KernelFlight
  <1>3. CASE ~FetchStall(i)
    BY <1>1, <1>3, KernelLands DEF Decode, Lands, FetchStall, FullBar
  <1>4. CASE FetchStall(i)
    <2>1. /\ pc' = pc /\ active' = active /\ wspawn' = wspawn /\ stalled' = stalled
          /\ barriers' = barriers /\ clusterBar' = clusterBar
      BY <1>4 DEF Decode
    <2>2. InFlight(i, "execute") # NoTrace /\ InFlight(i, "execute").instr = i
      BY <1>2, InFlightType DEF Stages
    <2>3. /\ trace'[c][w] # NoTrace /\ trace'[c][w].instr = trace[c][w].instr
          /\ \A v \in Warps \ {w} : trace'[c][v] = trace[c][v]
      BY <1>2, <1>4, <2>2 DEF Decode, KernelInv, TypeOK
    <2>4. \A d \in Cores \ {c} : CoreUnchanged(d)
      BY <1>4, <2>1 DEF Decode, KernelInv, TypeOK, CoreUnchanged
    <2>5. \A v \in Warps : /\ trace'[c][v] = NoTrace <=> trace[c][v] = NoTrace
                           /\ trace'[c][v].instr = trace[c][v].instr
      BY <1>1, <2>3
    <2>6. barriers[c] \in [Barriers -> SUBSET Warps] /\ active[c] \in SUBSET Warps
      BY DEF KernelInv, TypeOK
    <2>7. \A v \in Warps : FlightOK(g, c, v)'
      BY <1>2, <2>1, <2>5 DEF KernelCore, FlightOK
    <2>8. \A v \in Warps : Parked(c, v)' <=> Parked(c, v)
      BY <2>1, <2>5 DEF Parked
    <2>9. MembersOK(c)' /\ ClusterOK(g, c)'
      BY <1>2, <2>1, <2>6, <2>8 DEF KernelCore, MembersOK, ClusterOK
    <2>10. SpawnOK(c)' /\ JoinOK(c)'
      BY <1>2, <2>1, <2>5, ZeroIsWarp DEF KernelCore, SpawnOK, JoinOK, Joining
    <2>11. \A v \in Warps : AtBar(c, v)' <=> AtBar(c, v)
      BY <2>1, <2>5 DEF AtBar
    <2>12. \A v \in Warps : Past(c, v)' = Past(c, v) /\ Counted(g, c, v)' = Counted(g, c, v)
      BY <2>1, <2>11 DEF Past, Counted
    <2> QED
      BY <2>4, <2>7, <2>9, <2>10, <2>12, OneCore DEF KernelCore
  <1> QED
    BY <1>3, <1>4

(* A spawn that waits, at the start or at the join.                        *)
LEMMA KernelWspawn ==
    ASSUME NEW g \in BOOLEAN, KernelInv(g), TypeOK', NEW c \in Cores, NEW w \in Warps,
           ExecuteWspawn(c, w)
    PROVE  KernelInv(g)'
  <1> DEFINE i == trace[c][w].instr
             n == SpawnCount(i.num)
  <1>0. TypeOK /\ AtUnit(c, w, {"wspawn"})
    BY DEF KernelInv, ExecuteWspawn
  <1>1. /\ trace[c][w] # NoTrace
        /\ i \in Instr /\ i.op \in {"wspawn"}
        /\ trace'[c] = [trace[c] EXCEPT ![w] = NoTrace]
    BY <1>0, AtUnitFacts
  <1>2. trace[c] \in [Warps -> Traces] /\ KernelCore(g, c) /\ FlightOK(g, c, w)
        /\ c \notin clusterBar["b0"]
    BY <1>1, KernelFlight
  <1>3. w = 0 /\ i.alive /\ 0 \in active[c] /\ 0 \in stalled[c]
    BY <1>1, <1>2, InstrFields DEF FlightOK
  <1>4. CASE ReturnsAtOnce(c, n)
    <2>1. active[c] = {0}
      <3>1. active[c] \in SUBSET Warps /\ Cardinality(active[c]) = 1
        BY <1>0, <1>4 DEF TypeOK, ReturnsAtOnce
      <3> QED
        BY <1>3, <3>1, AloneIsZero
    <2>2. Lands(c, w)
      BY <1>0, <1>1, <1>4 DEF ExecuteWspawn, AtUnit, Resume, Lands
    <2> QED
      BY <1>1, <2>1, <2>2, KernelLands DEF FullBar
  <1>5. CASE ~ReturnsAtOnce(c, n)
    <2>1. /\ pc' = pc /\ active' = active /\ stalled' = stalled
          /\ barriers' = barriers /\ clusterBar' = clusterBar
          /\ wspawn' = [wspawn EXCEPT ![c] = [valid |-> TRUE, num |-> n, entry |-> i.entry]]
      BY <1>5 DEF ExecuteWspawn
    <2>2. wspawn'[c].num = n /\ wspawn'[c].entry = i.entry
      BY <1>0, <2>1 DEF TypeOK
    <2>3. i.num = 1 => n <= 1
      BY SizesAssumption DEF SpawnCount
    <2>4. /\ trace'[c][w] = NoTrace
          /\ \A v \in Warps \ {w} : trace'[c][v] = trace[c][v]
      BY <1>1, <1>2
    <2>5. \A d \in Cores \ {c} : CoreUnchanged(d)
      BY <1>0, <2>1 DEF AtUnit, TypeOK, CoreUnchanged
    <2>6. barriers[c] \in [Barriers -> SUBSET Warps]
      BY <1>0 DEF TypeOK
    <2>7. \A v \in Warps : FlightOK(g, c, v)'
      BY <1>2, <2>1, <2>4 DEF KernelCore, FlightOK
    <2>8. MembersOK(c)'
      BY <1>1, <1>2, <2>1, <2>4, <2>6 DEF KernelCore, MembersOK, Parked
    <2>9. SpawnOK(c)'
      <3>1. (pc[c][0] = "work1" /\ i.entry = "work1") \/ (pc[c][0] = "after" /\ n <= 1)
        BY <1>1, <1>2, <1>3, <2>3 DEF FlightOK
      <3> QED
        BY <1>3, <2>1, <2>2, <2>4, <3>1 DEF SpawnOK
    <2>10. JoinOK(c)'
      <3>1. wspawn'[c].valid
        BY <1>0, <2>1 DEF TypeOK
      <3> QED
        BY <1>2, <1>3, <2>1, <3>1 DEF KernelCore, JoinOK, Joining
    <2>11. ClusterOK(g, c)'
      BY <1>2, <2>1 DEF ClusterOK
    <2>12. \A v \in Warps : AtBar(c, v)' <=> AtBar(c, v)
      BY <1>1, <2>1, <2>4 DEF AtBar
    <2>13. \A v \in Warps : Past(c, v)' = Past(c, v) /\ Counted(g, c, v)' = Counted(g, c, v)
      BY <2>1, <2>12 DEF Past, Counted
    <2> QED
      BY <2>5, <2>7, <2>8, <2>9, <2>10, <2>11, <2>13, OneCore DEF KernelCore
  <1> QED
    BY <1>4, <1>5

(* A barrier with a count below two: the one in the middle of the kernel,  *)
(* or a core with a single warp.                                           *)
LEMMA KernelBarTrivial ==
    ASSUME NEW g \in BOOLEAN, KernelProgram(g), KernelInv(g), TypeOK',
           NEW c \in Cores, NEW w \in Warps, ExecuteBarTrivial(c, w)
    PROVE  KernelInv(g)'
  <1> DEFINE i == trace[c][w].instr
  <1>0. TypeOK /\ AtUnit(c, w, {"bar"}) /\ i.count < 2
    BY DEF KernelInv, ExecuteBarTrivial
  <1>01. trace[c][w] # NoTrace /\ i \in Instr /\ i.op \in {"bar"}
    BY <1>0, AtUnitFacts
  <1>1. trace[c][w] # NoTrace /\ i.op = "bar"
    BY <1>01
  <1>2. Lands(c, w)
    BY <1>1 DEF ExecuteBarTrivial, AtUnit, Resume, Lands
  <1>3. CASE ~FullBar(g, i)
    BY <1>1, <1>2, <1>3, KernelLands
  <1>4. CASE FullBar(g, i)
    <2>1. ~g
      <3> SUFFICES ASSUME g PROVE FALSE
        OBVIOUS
      <3>1. NumCores >= 2
        BY SizesAssumption DEF KernelProgram, NumCores
      <3>2. i.count = NumCores /\ NumCores \in Nat
        BY <1>4, SizesAssumption DEF FullBar, NumCores
      <3> QED
        BY <1>0, <3>1, <3>2
    <2>2. Warps = {0}
      BY <1>0, <1>4, <2>1, SizesAssumption DEF FullBar, Warps
    <2>3. KernelCore(g, c)' /\ \A d \in Cores \ {c} : CoreUnchanged(d)
      BY <1>1, <1>2, LandsCore
    <2> QED
      BY <2>1, <2>2, <2>3, OneCoreAlone
  <1> QED
    BY <1>3, <1>4

(* The warp at a barrier that is not full is counted there.                *)
BarJoins(c, w) ==
    /\ trace' = [trace EXCEPT ![c][w] = NoTrace]
    /\ barriers' = [barriers EXCEPT ![c]["b0"] = @ \cup {w}]
    /\ UNCHANGED <<pc, active, stalled, wspawn, clusterBar>>

LEMMA KernelBarJoins ==
    ASSUME NEW g \in BOOLEAN, KernelProgram(g), KernelInv(g), TypeOK',
           NEW c \in Cores, NEW w \in Warps, trace[c][w] # NoTrace,
           FullBar(g, trace[c][w].instr), BarJoins(c, w)
    PROVE  KernelInv(g)'
  <1> DEFINE i == trace[c][w].instr
  <1>1. /\ trace[c] \in [Warps -> Traces] /\ KernelCore(g, c) /\ FlightOK(g, c, w)
        /\ c \notin clusterBar["b0"] /\ i \in Instr
    BY KernelFlight
  <1>2. /\ w \in active[c] /\ w \in stalled[c]
        /\ pc[c][w] \in {"work2", "work3"} /\ i.op = "bar" /\ i.next # "bar2"
    BY <1>1, InstrFields DEF FlightOK, FullBar
  <1>3. barriers[c] \in [Barriers -> SUBSET Warps] /\ "b0" \in Barriers
    BY DEF KernelProgram, KernelInv, TypeOK
  <1>4. /\ trace'[c][w] = NoTrace
        /\ \A v \in Warps \ {w} : trace'[c][v] = trace[c][v]
        /\ barriers'[c]["b0"] = barriers[c]["b0"] \cup {w}
        /\ \A b \in Barriers \ {"b0"} : barriers'[c][b] = barriers[c][b]
        /\ pc' = pc /\ active' = active /\ stalled' = stalled
        /\ wspawn' = wspawn /\ clusterBar' = clusterBar
    BY <1>1, <1>3 DEF BarJoins, KernelInv, TypeOK
  <1>5. \A d \in Cores \ {c} : CoreUnchanged(d)
    BY <1>4 DEF BarJoins, KernelInv, TypeOK, CoreUnchanged
  <1>6. \A v \in Warps : FlightOK(g, c, v)'
    BY <1>1, <1>4 DEF KernelCore, FlightOK
  <1>7. MembersOK(c)'
    <2> SUFFICES ASSUME NEW b \in Barriers, NEW v \in barriers'[c][b]
                 PROVE  b = "b0" /\ Parked(c, v)'
      BY DEF MembersOK
    <2>1. CASE v = w
      <3>1. b = "b0"
        BY <1>1, <1>4, <2>1 DEF KernelCore, MembersOK
      <3> QED
        BY <1>2, <1>4, <2>1, <3>1 DEF Parked
    <2>2. CASE v # w
      <3>1. v \in barriers[c][b] /\ v \in Warps
        BY <1>3, <1>4, <2>2
      <3>2. b = "b0" /\ Parked(c, v)
        BY <1>1, <3>1 DEF KernelCore, MembersOK
      <3> QED
        BY <1>4, <2>2, <3>1, <3>2 DEF Parked
    <2> QED
      BY <2>1, <2>2
  <1>8. SpawnOK(c)'
    BY <1>1, <1>4, ZeroIsWarp DEF KernelCore, SpawnOK
  <1>9. JoinOK(c)'
    BY <1>1, <1>2, <1>4, ZeroIsWarp DEF KernelCore, JoinOK, Joining
  <1>10. ClusterOK(g, c)'
    BY <1>1, <1>4 DEF ClusterOK
  <1>11. \A v \in Warps : AtBar(c, v)' <=> AtBar(c, v)
    BY <1>1, <1>2, <1>4 DEF AtBar
  <1>12. \A v \in Warps : Past(c, v)' = Past(c, v) /\ Counted(g, c, v)' = Counted(g, c, v)
    BY <1>4, <1>11 DEF Past, Counted
  <1> QED
    BY <1>5, <1>6, <1>7, <1>8, <1>9, <1>10, <1>12, OneCore DEF KernelCore

(* A set of warps of full cardinality has them all.                        *)
LEMMA SameCardinality ==
    ASSUME NEW T, IsFiniteSet(T), NEW S \in SUBSET T, Cardinality(S) = Cardinality(T)
    PROVE  S = T
  BY FS_Subset

(* The last warp at a local barrier: every warp of the core waits there,   *)
(* at the same one, and all of them go through.                            *)
LEMMA KernelBarLocal ==
    ASSUME NEW g \in BOOLEAN, KernelProgram(g), KernelInv(g), TypeOK',
           NEW c \in Cores, NEW w \in Warps, ExecuteBarLocal(c, w)
    PROVE  KernelInv(g)'
  <1> DEFINE i == trace[c][w].instr
             members == barriers[c]["b0"] \cup {w}
  <1>0. TypeOK /\ AtUnit(c, w, {"bar"}) /\ i.count >= 2 /\ ~i.global
    BY DEF KernelInv, ExecuteBarLocal
  <1>01. trace[c][w] # NoTrace /\ i \in Instr /\ i.op \in {"bar"}
    BY <1>0, AtUnitFacts
  <1>1. trace[c][w] # NoTrace /\ i.op = "bar" /\ i \in Instr
    BY <1>01
  <1>2. KernelCore(g, c) /\ FlightOK(g, c, w) /\ c \notin clusterBar["b0"]
    BY <1>1, KernelFlight
  <1>3. FullBar(g, i) /\ ~g /\ i.bar = "b0" /\ i.count = NumWarps
    <2>1. FullBar(g, i) \/ TrivialBar(i)
      BY <1>1, <1>2 DEF FlightOK
    <2>2. FullBar(g, i)
      BY <1>0, <2>1 DEF TrivialBar
    <2> QED
      BY <1>0, <2>2 DEF FullBar
  <1>4. barriers[c] \in [Barriers -> SUBSET Warps] /\ "b0" \in Barriers
        /\ members \in SUBSET Warps
    BY <1>0 DEF KernelProgram, TypeOK
  <1>5. CASE ~BarrierReached(members, i.count)
    <2>1. BarJoins(c, w)
      BY <1>0, <1>3, <1>5 DEF ExecuteBarLocal, AtUnit, BarJoins
    <2> QED
      BY <1>1, <1>3, <2>1, KernelBarJoins
  <1>6. CASE BarrierReached(members, i.count)
    <2>1. /\ stalled' = [stalled EXCEPT ![c] = @ \ members]
          /\ barriers' = [barriers EXCEPT ![c]["b0"] = {}]
          /\ trace' = [trace EXCEPT ![c][w] = NoTrace]
          /\ pc' = pc /\ active' = active /\ wspawn' = wspawn /\ clusterBar' = clusterBar
      BY <1>0, <1>3, <1>6 DEF ExecuteBarLocal, BarrierReset, AtUnit
    <2>2. members = Warps
      <3>1. Cardinality(members) = NumWarps
        BY <1>3, <1>6 DEF BarrierReached
      <3>2. IsFiniteSet(Warps) /\ Cardinality(Warps) = NumWarps
        BY SizesAssumption, FS_Interval DEF Warps
      <3> QED
        BY <1>4, <3>1, <3>2, SameCardinality
    <2>3. \A v \in Warps : /\ v \in active[c] /\ AtBar(c, v)
                           /\ pc[c][v] \in {"work2", "work3"}
                           /\ v # w => trace[c][v] = NoTrace
      <3>1. w \in active[c] /\ AtBar(c, w) /\ pc[c][w] \in {"work2", "work3"}
        BY <1>1, <1>2, <1>3, InstrFields DEF FlightOK, FullBar, AtBar
      <3>2. \A v \in barriers[c]["b0"] : Parked(c, v) /\ AtBar(c, v)
        BY <1>2, <1>4 DEF KernelCore, MembersOK, AtBar
      <3> QED
        BY <2>2, <3>1, <3>2 DEF Parked
    <2>4. /\ \A v \in Warps : trace'[c][v] = NoTrace
          /\ \A b \in Barriers : barriers'[c][b] = {}
      <3>1. \A v \in Warps : trace'[c][v] = NoTrace
        BY <1>0, <2>1, <2>3 DEF TypeOK
      <3>2. \A b \in Barriers : b # "b0" => barriers[c][b] = {}
        BY <1>2 DEF KernelCore, MembersOK
      <3> QED
        BY <1>0, <2>1, <3>1, <3>2 DEF TypeOK
    <2>5. \A d \in Cores \ {c} : CoreUnchanged(d)
      BY <1>0, <2>1 DEF TypeOK, CoreUnchanged
    <2>6. KernelCore(g, c)'
      <3>1. \A v \in Warps : FlightOK(g, c, v)'
        BY <2>4 DEF FlightOK
      <3>2. MembersOK(c)'
        BY <2>4 DEF MembersOK
      <3>3. SpawnOK(c)'
        BY <1>2, <2>1, <2>3, ZeroIsWarp DEF KernelCore, SpawnOK
      <3>4. JoinOK(c)'
        BY <2>1, <2>3, ZeroIsWarp DEF JoinOK
      <3>5. ClusterOK(g, c)'
        BY <1>2, <2>1 DEF ClusterOK
      <3> QED
        BY <3>1, <3>2, <3>3, <3>4, <3>5 DEF KernelCore
    <2>7. ASSUME NEW v \in Warps, NEW x \in Warps PROVE Past(c, v)' = Past(c, x)'
      <3>1. Past(c, v) = Past(c, x)
        BY <2>3 DEF KernelInv, Lockstep, Counted
      <3>2. pc[c][v] = pc[c][x]
        BY <2>3, <3>1 DEF Past
      <3>3. ~AtBar(c, v)' /\ ~AtBar(c, x)'
        BY <1>2, <1>4, <2>1, <2>4 DEF AtBar
      <3> QED
        BY <2>1, <3>2, <3>3 DEF Past
    <2> QED
      BY <1>3, <2>5, <2>6, <2>7, OneCoreAlone
  <1> QED
    BY <1>5, <1>6

(* With one socket, Cluster::barrier counts a core under its own id.       *)
LEMMA OneSocketId ==
    ASSUME NumSockets = 1, NEW c \in Cores
    PROVE  LocalCoreId(c) = c
  <1>1. NumCores = CoresPerSocket /\ CoresPerSocket \in Nat \ {0}
    BY SizesAssumption DEF NumCores
  <1>2. c \in Nat /\ c < CoresPerSocket
    BY <1>1 DEF Cores
  <1>3. c \div CoresPerSocket = 0
    BY <1>1, <1>2
  <1>4. (0 * CoresPerSocket + c) % CoresPerSocket = c
    BY <1>1, <1>2
  <1> QED
    BY <1>1, <1>3, <1>4 DEF LocalCoreId, SocketOf

(* All the active warps of core c wait at one of the two barriers.         *)
AllWait(c) ==
    /\ active[c] # {}
    /\ \A v \in active[c] : AtBar(c, v) /\ pc[c][v] \in {"work2", "work3"}

(* Then no warp of the core has ended, and no spawn is pending.            *)
LEMMA WaitersOnly ==
    ASSUME NEW g \in BOOLEAN, g, KernelInv(g), NEW c \in Cores, AllWait(c), NEW v \in Warps
    PROVE  /\ pc[c][v] # "end"
           /\ trace[c][v] # NoTrace => v \in active[c]
           /\ ~wspawn[c].valid
           /\ Counted(g, c, v) <=> v \in active[c]
  <1>1. PICK x \in active[c] : AtBar(c, x) /\ pc[c][x] \in {"work2", "work3"}
    BY DEF AllWait
  <1>2. x \in Warps /\ Past(c, x) \in {0, 1}
    BY <1>1 DEF KernelInv, TypeOK, Past
  <1>3. pc[c][v] # "end"
    <2> SUFFICES ASSUME pc[c][v] = "end" PROVE FALSE
      OBVIOUS
    <2>1. Past(c, v) = 2
      BY DEF Past
    <2> QED
      BY <1>2, <2>1 DEF KernelInv, Lockstep, Counted
  <1>4. trace[c][v] # NoTrace => v \in active[c]
    <2> SUFFICES ASSUME trace[c][v] # NoTrace PROVE v \in active[c]
      OBVIOUS
    <2>1. FlightOK(g, c, v) /\ trace[c][v].instr.alive \in BOOLEAN
      BY KernelFlight, InstrFields
    <2> QED
      BY <1>3, <2>1 DEF FlightOK
  <1>5. ~wspawn[c].valid
    BY DEF KernelInv, KernelCore, SpawnOK, AllWait
  <1> QED
    BY <1>3, <1>4, <1>5 DEF Counted

(* The warps that wait are at the same of the two barriers.                *)
LEMMA SameBarrier ==
    ASSUME NEW g \in BOOLEAN, g, KernelInv(g), NEW c \in Cores, NEW d \in Cores,
           AllWait(c), AllWait(d)
    PROVE  \A w \in active[c], v \in active[d] : pc[c][w] = pc[d][v]
  <1> SUFFICES ASSUME NEW w \in active[c], NEW v \in active[d]
               PROVE  pc[c][w] = pc[d][v]
    OBVIOUS
  <1>1. w \in Warps /\ v \in Warps /\ Counted(g, c, w) /\ Counted(g, d, v)
    BY DEF KernelInv, TypeOK, Counted
  <1>2. Past(c, w) = Past(d, v)
    BY <1>1 DEF KernelInv, Lockstep
  <1> QED
    BY <1>2 DEF AllWait, Past

(* The last warp of its core at a global barrier: the core enters the      *)
(* cluster's barrier.                                                      *)
LEMMA KernelEnters ==
    ASSUME NEW g \in BOOLEAN, g, KernelProgram(g), KernelInv(g), TypeOK',
           NEW c \in Cores, NEW w \in Warps, trace[c][w] # NoTrace, AllWait(c),
           \A v \in active[c] \ {w} : Parked(c, v),
           w \in active[c], w \in stalled[c],
           trace' = [trace EXCEPT ![c][w] = NoTrace],
           barriers' = [barriers EXCEPT ![c]["b0"] = {}],
           clusterBar' = [clusterBar EXCEPT !["b0"] = @ \cup {c}],
           UNCHANGED <<pc, active, stalled, wspawn>>
    PROVE  KernelInv(g)'
  <1>1. TypeOK /\ KernelCore(g, c) /\ "b0" \in Barriers /\ active[c] \in SUBSET Warps
    BY DEF KernelInv, TypeOK, KernelProgram
  <1>2. /\ pc' = pc /\ active' = active /\ stalled' = stalled /\ wspawn' = wspawn
        /\ trace'[c][w] = NoTrace
        /\ \A v \in Warps \ {w} : trace'[c][v] = trace[c][v]
        /\ \A b \in Barriers : barriers'[c][b] = {}
        /\ c \in clusterBar'["b0"]
    <2>1. \A b \in Barriers : b # "b0" => barriers[c][b] = {}
      BY <1>1 DEF KernelCore, MembersOK
    <2> QED
      BY <1>1, <2>1 DEF TypeOK
  <1>3. \A d \in Cores \ {c} : CoreUnchanged(d)
    BY <1>1 DEF TypeOK, CoreUnchanged
  <1>4. ~wspawn[c].valid /\ \A v \in Warps : Counted(g, c, v) <=> v \in active[c]
    BY WaitersOnly, ZeroIsWarp
  <1>5. ASSUME NEW v \in Warps PROVE FlightOK(g, c, v)'
    <2>1. CASE v = w
      BY <1>2, <2>1 DEF FlightOK
    <2>2. CASE v # w
      <3>1. FlightOK(g, c, v) /\ trace'[c][v] = trace[c][v]
        BY <1>1, <1>2, <2>2 DEF KernelCore
      <3> QED
        BY <1>2, <3>1 DEF FlightOK
    <2> QED
      BY <2>1, <2>2
  <1>6. MembersOK(c)' /\ SpawnOK(c)'
    BY <1>2, <1>4 DEF MembersOK, SpawnOK
  <1>7. JoinOK(c)'
    <2>1. pc[c][0] = "after" => ~Joining(c) \/ w # 0
      BY DEF AllWait, Joining
    <2> QED
      BY <1>1, <1>2, <1>4, <2>1, ZeroIsWarp DEF KernelCore, JoinOK, Joining
  <1>8. ClusterOK(g, c)'
    <2>1. \A v \in active[c] : Parked(c, v)'
      BY <1>1, <1>2 DEF Parked, AllWait
    <2> QED
      BY <1>1, <1>2, <1>4, <2>1 DEF ClusterOK, AllWait
  <1>9. \A v \in Warps : Counted(g, c, v)' => Counted(g, c, v) /\ Past(c, v)' = Past(c, v)
    <2> SUFFICES ASSUME NEW v \in Warps, Counted(g, c, v)'
                 PROVE  Counted(g, c, v) /\ Past(c, v)' = Past(c, v)
      OBVIOUS
    <2>1. Counted(g, c, v) /\ v \in active[c]
      BY <1>2, <1>4 DEF Counted
    <2>2. AtBar(c, v) /\ AtBar(c, v)'
      BY <1>2, <2>1 DEF AllWait, AtBar
    <2> QED
      BY <1>2, <2>1, <2>2 DEF Past
  <1> QED
    BY <1>3, <1>5, <1>6, <1>7, <1>8, <1>9, OneCore DEF KernelCore

(* The last core: every warp of every core waits at the same barrier, and  *)
(* Socket::resume lets all of them through.                                *)
OpensBar(c, w) ==
    /\ trace[c][w] # NoTrace
    /\ AllWait(c)
    /\ \A v \in active[c] \ {w} : Parked(c, v)
    /\ \A d \in Cores \ {c} : d \in clusterBar["b0"]
    /\ trace' = [trace EXCEPT ![c][w] = NoTrace]
    /\ barriers' = [barriers EXCEPT ![c]["b0"] = {}]
    /\ clusterBar' = [clusterBar EXCEPT !["b0"] = {}]
    /\ stalled' = [d \in Cores |-> {}]
    /\ UNCHANGED <<pc, active, wspawn>>

LEMMA KernelOpens ==
    ASSUME NEW g \in BOOLEAN, g, KernelProgram(g), KernelInv(g), TypeOK',
           NEW c \in Cores, NEW w \in Warps, OpensBar(c, w)
    PROVE  KernelInv(g)'
  <1>1. TypeOK /\ "b0" \in Barriers /\ \A d \in Cores : KernelCore(g, d)
    BY DEF KernelInv, KernelProgram
  <1>0. pc' = pc /\ active' = active /\ wspawn' = wspawn
    BY DEF OpensBar
  <1>2. \A d \in Cores : AllWait(d)
    <2> SUFFICES ASSUME NEW d \in Cores \ {c} PROVE AllWait(d)
      BY DEF OpensBar
    <2> QED
      BY <1>1 DEF OpensBar, KernelCore, ClusterOK, AllWait, AtBar, Parked
  <1>3. ASSUME NEW d \in Cores, NEW v \in Warps
        PROVE  trace'[d][v] = NoTrace
    <2>1. CASE d = c
      <3>1. v # w => trace[c][v] = NoTrace
        BY <1>2, WaitersOnly DEF OpensBar, Parked
      <3> QED
        BY <1>1, <2>1, <3>1 DEF OpensBar, TypeOK
    <2>2. CASE d # c
      <3>1. trace[d][v] = NoTrace
        BY <2>2, ClusterIdle DEF OpensBar
      <3> QED
        BY <1>1, <2>2, <3>1 DEF OpensBar, TypeOK
    <2> QED
      BY <2>1, <2>2
  <1>4. ASSUME NEW d \in Cores, NEW b \in Barriers PROVE barriers'[d][b] = {}
    <2>1. b # "b0" => barriers[d][b] = {}
      BY <1>1 DEF KernelCore, MembersOK
    <2>2. d # c => barriers[d]["b0"] = {}
      BY <1>1 DEF OpensBar, KernelCore, ClusterOK
    <2> QED
      BY <1>1, <2>1, <2>2 DEF OpensBar, TypeOK
  <1>5. ASSUME NEW d \in Cores PROVE KernelCore(g, d)'
    <2>0. clusterBar'["b0"] = {}
      BY <1>1 DEF OpensBar, TypeOK
    <2>1. ~wspawn[d].valid /\ d \notin clusterBar'["b0"] /\ KernelCore(g, d)
      <3>1. ~wspawn[d].valid
        BY <1>2, WaitersOnly, ZeroIsWarp
      <3>2. KernelCore(g, d)
        BY <1>1
      <3> QED
        BY <2>0, <3>1, <3>2
    <2>2. \A v \in Warps : FlightOK(g, d, v)'
      BY <1>3 DEF FlightOK
    <2>3. MembersOK(d)' /\ SpawnOK(d)' /\ ClusterOK(g, d)'
      BY <1>0, <1>4, <2>1 DEF MembersOK, SpawnOK, ClusterOK
    <2>4. JoinOK(d)'
      <3>1. pc[d][0] = "after" => 0 \notin active[d]
        BY <1>2 DEF AllWait
      <3>2. pc[d][0] = "after" => ~Joining(d)
        BY <1>2, <2>1, <3>1, WaitersOnly, ZeroIsWarp DEF Joining
      <3> QED
        BY <1>0, <2>1, <3>2 DEF KernelCore, JoinOK
    <2> QED
      BY <2>2, <2>3, <2>4 DEF KernelCore
  <1>6. ASSUME NEW d \in Cores, NEW e \in Cores, NEW v \in Warps, NEW x \in Warps,
               Counted(g, d, v)', Counted(g, e, x)'
        PROVE  Past(d, v)' = Past(e, x)'
    <2>1. Counted(g, d, v) /\ Counted(g, e, x)
      BY <1>0, <1>6 DEF Counted
    <2>2. v \in active[d] /\ x \in active[e]
      BY <1>2, <2>1, WaitersOnly
    <2>3. AllWait(d) /\ AllWait(e)
      BY <1>2
    <2>4. pc[d][v] = pc[e][x]
      <3>1. \A y \in active[d], z \in active[e] : pc[d][y] = pc[e][z]
        BY <2>3, SameBarrier
      <3> QED
        BY <2>2, <3>1
    <2>5. ~AtBar(d, v)' /\ ~AtBar(e, x)'
      <3>1. clusterBar'["b0"] = {}
        BY <1>1 DEF OpensBar, TypeOK
      <3> QED
        BY <1>1, <1>3, <1>4, <3>1 DEF AtBar
    <2> QED
      BY <1>0, <2>4, <2>5 DEF Past
  <1>7. Lockstep(g)'
    BY <1>6 DEF Lockstep, Counted
  <1> QED
    BY <1>5, <1>7 DEF KernelInv

(* A warp at a global barrier.                                             *)
LEMMA KernelBarGlobal ==
    ASSUME NEW g \in BOOLEAN, KernelProgram(g), KernelInv(g), TypeOK',
           NEW c \in Cores, NEW w \in Warps, ExecuteBarGlobal(c, w)
    PROVE  KernelInv(g)'
  <1> DEFINE i == trace[c][w].instr
             members == barriers[c]["b0"] \cup {w}
             cores == clusterBar["b0"] \cup {c}
  <1>0. TypeOK /\ AtUnit(c, w, {"bar"}) /\ i.count >= 2 /\ i.global
    BY DEF KernelInv, ExecuteBarGlobal
  <1>01. trace[c][w] # NoTrace /\ i \in Instr /\ i.op \in {"bar"}
    BY <1>0, AtUnitFacts
  <1>1. trace[c][w] # NoTrace /\ i \in Instr /\ i.op = "bar"
    BY <1>01
  <1>2. KernelCore(g, c) /\ FlightOK(g, c, w) /\ c \notin clusterBar["b0"]
    BY <1>1, KernelFlight
  <1>3. FullBar(g, i) /\ i.bar = "b0"
    <2>1. FullBar(g, i) \/ TrivialBar(i)
      BY <1>1, <1>2 DEF FlightOK
    <2>2. FullBar(g, i)
      BY <1>0, <2>1 DEF TrivialBar
    <2> QED
      BY <2>2 DEF FullBar
  <1>4. g = TRUE /\ i.count = NumCores
    BY <1>0, <1>3 DEF FullBar
  <1>5. /\ barriers[c] \in [Barriers -> SUBSET Warps] /\ "b0" \in Barriers
        /\ clusterBar["b0"] \in SUBSET Cores
        /\ w \in active[c] /\ w \in stalled[c] /\ active[c] \in SUBSET Warps
    BY <1>0, <1>1, <1>2, InstrFields DEF KernelProgram, TypeOK, FlightOK
  <1>6. \A v \in barriers[c]["b0"] : Parked(c, v)
    BY <1>2, <1>5 DEF KernelCore, MembersOK
  <1>7. CASE ~CoreArrived(c, members)
    <2>1. BarJoins(c, w)
      BY <1>0, <1>3, <1>7 DEF ExecuteBarGlobal, AtUnit, BarJoins
    <2> QED
      BY <1>1, <1>3, <2>1, KernelBarJoins
  <1>8. CASE CoreArrived(c, members)
    <2>1. members = active[c]
      <3>1. members \subseteq active[c] /\ Cardinality(members) = Cardinality(active[c])
        BY <1>5, <1>6, <1>8 DEF Parked, CoreArrived
      <3>2. IsFiniteSet(active[c])
        BY <1>5, WarpsFinite
      <3> QED
        BY <3>1, <3>2, SameCardinality
    <2>2. AllWait(c) /\ \A v \in active[c] \ {w} : Parked(c, v)
      <3>1. AtBar(c, w) /\ pc[c][w] \in {"work2", "work3"}
        BY <1>1, <1>2, <1>3 DEF FlightOK, FullBar, AtBar
      <3>2. \A v \in active[c] \ {w} : v \in barriers[c]["b0"]
        BY <2>1
      <3> QED
        BY <1>5, <1>6, <3>1, <3>2 DEF AllWait, AtBar, Parked
    <2>3. /\ trace' = [trace EXCEPT ![c][w] = NoTrace]
          /\ barriers' = [barriers EXCEPT ![c]["b0"] = {}]
          /\ UNCHANGED <<pc, active, wspawn>>
      BY <1>0, <1>3, <1>8 DEF ExecuteBarGlobal, AtUnit
    <2>4. ClusterBarrier("b0", NumCores, c)
      <3>1. LocalCoreId(c) = c
        BY <1>4, OneSocketId DEF KernelProgram
      <3> QED
        BY <1>3, <1>4, <1>8, <3>1 DEF ExecuteBarGlobal
    <2>5. CASE Cardinality(cores) # NumCores
      <3>1. clusterBar' = [clusterBar EXCEPT !["b0"] = @ \cup {c}] /\ stalled' = stalled
        BY <2>4, <2>5 DEF ClusterBarrier
      <3> QED
        BY <1>1, <1>4, <1>5, <2>2, <2>3, <3>1, KernelEnters
    <2>6. CASE Cardinality(cores) = NumCores
      <3>1. cores = Cores
        <4>1. IsFiniteSet(Cores) /\ Cardinality(Cores) = NumCores
          <5>1. NumCores \in Nat
            BY SizesAssumption DEF NumCores
          <5> QED
            BY <5>1, FS_Interval DEF Cores
        <4>2. cores \in SUBSET Cores
          BY <1>5
        <4> QED
          BY <2>6, <4>1, <4>2, SameCardinality
      <3>2. \A d \in Cores \ {c} : d \in clusterBar["b0"]
        BY <3>1
      <3>3. /\ clusterBar' = [clusterBar EXCEPT !["b0"] = {}]
            /\ stalled' = [d \in Cores |-> IF d \in cores THEN {} ELSE stalled[d]]
        BY <2>4, <2>6 DEF ClusterBarrier
      <3>4. stalled' = [d \in Cores |-> {}]
        BY <3>1, <3>3
      <3> QED
        BY <1>1, <1>4, <2>2, <2>3, <3>2, <3>3, <3>4, KernelOpens DEF OpensBar
    <2> QED
      BY <2>5, <2>6
  <1> QED
    BY <1>7, <1>8

-----------------------------------------------------------------------------
(* Emulator::clear leaves warp 0 of every core alone at the start.         *)
LEMMA KernelCleared ==
    ASSUME NEW g \in BOOLEAN, KernelProgram(g), Init
    PROVE  KernelInv(g)
  <1>1. TypeOK
    BY CodeAssumption, SizesAssumption, ZeroIsWarp DEF TypeOK, Init, Cleared, Traces
  <1>2. \A c \in Cores : /\ active[c] = {0}
                         /\ clusterBar["b0"] = {}
                         /\ ~wspawn[c].valid
                         /\ \A b \in Barriers : barriers[c][b] = {}
                         /\ \A w \in Warps : pc[c][w] = "start" /\ trace[c][w] = NoTrace
    BY DEF Init, Cleared, KernelProgram
  <1>3. \A c \in Cores : KernelCore(g, c)
    BY <1>2, ZeroIsWarp DEF KernelCore, FlightOK, MembersOK, SpawnOK, JoinOK, ClusterOK
  <1>4. Lockstep(g)
    BY <1>2 DEF Lockstep, Past
  <1> QED
    BY <1>1, <1>3, <1>4 DEF KernelInv

LEMMA KernelStep ==
    ASSUME NEW g \in BOOLEAN, KernelProgram(g), KernelInv(g), [Next]_vars
    PROVE  KernelInv(g)'
  <1>1. TypeOK'
    BY TypeStep DEF KernelInv
  <1>2. ASSUME NEW c \in Cores, Schedule(c) PROVE KernelInv(g)'
    BY <1>1, <1>2, KernelSchedule
  <1>3. ASSUME NEW c \in Cores, NEW w \in Warps, Decode(c, w) PROVE KernelInv(g)'
    BY <1>1, <1>3, KernelDecode
  <1>4. ASSUME NEW c \in Cores, NEW w \in Warps, ExecuteRelease(c, w) PROVE KernelInv(g)'
    <2>1. TypeOK /\ AtUnit(c, w, {"branch", "wctl"})
      BY <1>4 DEF KernelInv, ExecuteRelease
    <2>2. trace[c][w] # NoTrace /\ trace[c][w].instr.op \in {"branch", "wctl"}
      BY <2>1, AtUnitFacts
    <2>3. Lands(c, w)
      BY <1>4, <2>2 DEF ExecuteRelease, AtUnit, Resume, Lands
    <2> QED
      BY <1>1, <2>2, <2>3, KernelLands DEF FullBar
  <1>5. ASSUME NEW c \in Cores, NEW w \in Warps, ExecuteWspawn(c, w) PROVE KernelInv(g)'
    BY <1>1, <1>5, KernelWspawn
  <1>6. ASSUME NEW c \in Cores, NEW w \in Warps, ExecuteBarTrivial(c, w) PROVE KernelInv(g)'
    BY <1>1, <1>6, KernelBarTrivial
  <1>7. ASSUME NEW c \in Cores, NEW w \in Warps, ExecuteBarLocal(c, w) PROVE KernelInv(g)'
    BY <1>1, <1>7, KernelBarLocal
  <1>8. ASSUME NEW c \in Cores, NEW w \in Warps, ExecuteBarGlobal(c, w) PROVE KernelInv(g)'
    BY <1>1, <1>8, KernelBarGlobal
  <1>9. ASSUME Rerun PROVE KernelInv(g)'
    <2>1. Init'
      BY <1>9 DEF Rerun, Init
    <2>2. KernelProgram(g)'
      BY DEF KernelProgram
    <2>3. \A c \in Cores : /\ active'[c] = {0}
                           /\ clusterBar'["b0"] = {}
                           /\ ~wspawn'[c].valid
                           /\ \A b \in Barriers : barriers'[c][b] = {}
                           /\ \A w \in Warps : pc'[c][w] = "start" /\ trace'[c][w] = NoTrace
      BY <2>1 DEF Init, Cleared, KernelProgram
    <2>4. \A c \in Cores : KernelCore(g, c)'
      BY <2>3, ZeroIsWarp DEF KernelCore, FlightOK, MembersOK, SpawnOK, JoinOK, ClusterOK
    <2>5. Lockstep(g)'
      BY <2>3 DEF Lockstep, Past
    <2> QED
      BY <1>1, <2>4, <2>5 DEF KernelInv
  <1>10. ASSUME UNCHANGED vars PROVE KernelInv(g)'
    <2>1. \A d \in Cores : CoreUnchanged(d)
      BY <1>10 DEF vars, CoreUnchanged
    <2>2. \A d \in Cores : KernelCore(g, d)'
      BY <2>1, KernelOther DEF KernelInv
    <2>3. \A d \in Cores, w \in Warps : Counted(g, d, w)' =>
              \E v \in Warps : Counted(g, d, v) /\ Past(d, w)' = Past(d, v)
      BY <2>1, KernelOther
    <2> QED
      BY <1>1, <2>2, <2>3, LockstepKept DEF KernelInv
  <1> QED
    BY <1>2, <1>3, <1>4, <1>5, <1>6, <1>7, <1>8, <1>9, <1>10 DEF Next

(* A warp through the k-th barrier has passed at least k of them, and one  *)
(* that has passed k of them has executed k.                               *)
LEMMA ThroughIsPast ==
    ASSUME NEW g \in BOOLEAN, KernelProgram(g), KernelInv(g), NEW c \in Cores,
           NEW w \in active[c]
    PROVE  /\ \A k \in 1..2 : Through(c, w, k) => Past(c, w) >= k
           /\ Phase(pc[c][w]) >= Past(c, w)
           /\ Past(c, w) \in Nat /\ Phase(pc[c][w]) \in Nat
           /\ Counted(g, c, w) /\ w \in Warps
  <1> DEFINE p == pc[c][w]
  <1>1. w \in Warps /\ p \in MCPCs /\ KernelCore(g, c) /\ "b0" \in Barriers
    BY DEF KernelInv, TypeOK, KernelProgram
  <1>2. /\ p \in {"start", "work1", "bar1"} => Phase(p) = 0
        /\ p \in {"work2", "bar2"} => Phase(p) = 1
        /\ p = "work3" => Phase(p) = 2
        /\ p \in {"after", "end"} => Phase(p) = 3
    BY DEF Phase
  <1>3. AtBar(c, w) => Waiting(c, w)
    <2>1. CASE w \in barriers[c]["b0"]
      BY <1>1, <2>1 DEF KernelCore, MembersOK, Parked, Waiting
    <2>2. CASE c \in clusterBar["b0"]
      BY <1>1, <2>2 DEF KernelCore, ClusterOK, Parked, Waiting
    <2>3. CASE trace[c][w] # NoTrace /\ trace[c][w].instr.op = "bar"
      BY <1>1, <2>3 DEF KernelCore, FlightOK, Waiting
    <2> QED
      BY <2>1, <2>2, <2>3 DEF AtBar
  <1>4. p \in {"start", "work1", "bar1"} \/ p \in {"work2", "bar2"} \/ p = "work3"
        \/ p \in {"after", "end"}
    BY <1>1 DEF MCPCs
  <1>5. ASSUME NEW k \in 1..2, Through(c, w, k) PROVE Past(c, w) >= k
    BY <1>2, <1>3, <1>4, <1>5 DEF Past, Through
  <1> QED
    BY <1>1, <1>2, <1>4, <1>5 DEF Past, Counted

(* A local barrier separates the phases of the kernel, for every number of *)
(* warps and cores: no warp runs behind a barrier (Emulator::barrier) that *)
(* another running warp of the core has not reached, although both         *)
(* barriers share one index and the kernel is spawned again and again.     *)
THEOREM LocalBarrier ==
    ASSUME KernelProgram(FALSE)
    PROVE  Spec => []BarrierSeparates
  <1>1. ASSUME KernelInv(FALSE) PROVE BarrierSeparates
    <2> SUFFICES ASSUME NEW c \in Cores, NEW w \in active[c], NEW v \in active[c],
                        NEW k \in 1..2, Through(c, w, k)
                 PROVE  Phase(pc[c][v]) >= k
      BY DEF BarrierSeparates
    <2>1. /\ Past(c, w) >= k /\ Counted(FALSE, c, w) /\ w \in Warps
          /\ Phase(pc[c][v]) >= Past(c, v) /\ Counted(FALSE, c, v) /\ v \in Warps
          /\ Past(c, v) \in Nat /\ Phase(pc[c][v]) \in Nat
      BY <1>1, ThroughIsPast
    <2>2. Past(c, w) = Past(c, v)
      BY <1>1, <2>1 DEF KernelInv, Lockstep
    <2> QED
      BY <2>1, <2>2
  <1>2. Init => KernelInv(FALSE)
    BY KernelCleared
  <1>3. KernelInv(FALSE) /\ [Next]_vars => KernelInv(FALSE)'
    BY KernelStep
  <1> QED
    BY <1>1, <1>2, <1>3, PTL DEF Spec

(* `vx_wspawn(1, 0)` at the end of vx_spawn_threads waits for the warps it *)
(* spawned, for every number of warps and cores: once warp 0 has gone on,  *)
(* no other warp of the core is active (Emulator::wspawn, step).           *)
THEOREM JoinIsComplete ==
    ASSUME KernelProgram(FALSE)
    PROVE  Spec => []JoinWaits
  <1>1. KernelInv(FALSE) => JoinWaits
    BY DEF KernelInv, KernelCore, JoinOK, JoinWaits
  <1>2. Init => KernelInv(FALSE)
    BY KernelCleared
  <1>3. KernelInv(FALSE) /\ [Next]_vars => KernelInv(FALSE)'
    BY KernelStep
  <1> QED
    BY <1>1, <1>2, <1>3, PTL DEF Spec

(* A global barrier separates the phases of all the warps of all the cores *)
(* of a socket, for every number of warps and of two or more cores         *)
(* (Emulator::barrier, Cluster::barrier, Socket::resume).                  *)
THEOREM GlobalBarrier ==
    ASSUME KernelProgram(TRUE)
    PROVE  Spec => []GlobalBarrierSeparates
  <1>1. ASSUME KernelInv(TRUE) PROVE GlobalBarrierSeparates
    <2> SUFFICES ASSUME NEW c \in Cores, NEW d \in Cores,
                        NEW w \in active[c], NEW v \in active[d],
                        NEW k \in 1..2, Through(c, w, k)
                 PROVE  Phase(pc[d][v]) >= k
      BY DEF GlobalBarrierSeparates
    <2>1. /\ Past(c, w) >= k /\ Counted(TRUE, c, w) /\ w \in Warps
          /\ Phase(pc[d][v]) >= Past(d, v) /\ Counted(TRUE, d, v) /\ v \in Warps
          /\ Past(d, v) \in Nat /\ Phase(pc[d][v]) \in Nat
      BY <1>1, ThroughIsPast
    <2>2. Past(c, w) = Past(d, v)
      BY <1>1, <2>1 DEF KernelInv, Lockstep
    <2> QED
      BY <2>1, <2>2
  <1>2. Init => KernelInv(TRUE)
    BY KernelCleared
  <1>3. KernelInv(TRUE) /\ [Next]_vars => KernelInv(TRUE)'
    BY KernelStep
  <1> QED
    BY <1>1, <1>2, <1>3, PTL DEF Spec

(* The assertion of Emulator::resume holds with global barriers too, where *)
(* Socket::resume clears the stalls of whole cores: no warp of them has a  *)
(* trace on its way then.                                                  *)
THEOREM ResumeAssertionGlobal ==
    ASSUME KernelProgram(TRUE)
    PROVE  Spec => []HoldersStalled
  <1>1. KernelInv(TRUE) => HoldersStalled
    BY DEF KernelInv, KernelCore, FlightOK, HoldersStalled
  <1>2. Init => KernelInv(TRUE)
    BY KernelCleared
  <1>3. KernelInv(TRUE) /\ [Next]_vars => KernelInv(TRUE)'
    BY KernelStep
  <1> QED
    BY <1>1, <1>2, <1>3, PTL DEF Spec
=============================================================================
