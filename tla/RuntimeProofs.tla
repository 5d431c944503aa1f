--------------------------- MODULE RuntimeProofs ---------------------------
(***************************************************************************)
(* Theorems about the runtime's control of the device and of its memory:   *)
(* about DeviceRun, for every set of back ends, values, timeouts and every *)
(* number of calls, what ready_wait, download and mpm_query tell the host  *)
(* is true; about Acl, for every memory, block size, set of rights and     *)
(* number of buffers, the interval map of ACLManager is at all times the   *)
(* map from bytes to rights that it stands for.                            *)
(***************************************************************************)
EXTENDS DeviceRun, Acl, TLAPS

Steps == {"launch", "addr", "arg", "state", "run", "poll", "copy", "copied"}
Operations == {"start", "dcr_write", "ready_wait"} \cup Transfers
Running == {"reset", "busy_wait", "busy"}

(* The type of the state.  How many calls were made decides nothing here.  *)
DeviceTypeOK ==
    /\ driver \in {"simx", "rtlsim", "opae", "xrt"}
    /\ \/ call = NoCall
       \/ call \in [op : Operations, arg : Values, step : Steps, timeout : Int]
    /\ dcrs \in [Items -> Values]
    /\ devDcrs \in [Items -> Values]
    /\ phase \in {"idle", "mem", "dcr"} \cup Running
    /\ started \in Nat /\ finished \in Nat /\ memory \in Nat
    /\ unacked \in {0, 1}
    /\ acked \in BOOLEAN

(* A call takes the steps of its operation and its back end, and a call    *)
(* that nothing orders after the run is only made when the host knows that *)
(* the device is idle.                                                     *)
CallSteps ==
    /\ call.op = "start" => call.step \in (IF driver \in Simulators THEN {"launch"} ELSE {"addr", "arg", "run"})
    /\ call.op = "dcr_write" => call.step = "state"
    /\ call.op = "ready_wait" => call.step = "poll"
    /\ call.op \in Transfers =>
         IF driver = "opae"
         THEN call.step \in {"poll", "copied"} \/ (call.op = "mpm_query" /\ call.step = "copy" /\ mpmCache # NoRun)
         ELSE call.step = "copy" /\ acked
    /\ call.op \in {"start", "dcr_write"} /\ driver \notin Simulators => acked
    /\ call.op = "start" /\ call.step \in {"arg", "run"} => dcrs["addr"] = call.arg
    /\ call.op = "start" /\ call.step = "run" => dcrs["arg"] = call.arg

(* The device is in a run exactly while one start is not answered, and the *)
(* state machine is where its platform can bring it.                       *)
RunsCounted ==
    /\ started = IF phase \in Running THEN finished + 1 ELSE finished
    /\ driver \in Simulators => phase \in {"idle", "busy"}
    /\ driver = "xrt" => phase \notin {"mem", "dcr"}

(* What the host knows: nothing runs, and its own command is all that may  *)
(* be under way.                                                           *)
AckedMeansQuiet ==
    acked => /\ phase \notin Running /\ unacked = 0
             /\ phase = "mem" => call.step = "copied"

(* The run works with the registers the host wanted it to have.            *)
RegistersAgree ==
    /\ devDcrs = dcrs
    /\ IF phase = "reset" THEN wanted = dcrs ELSE latched = wanted

(* Only XRT leaves writes behind, and never into the next run.             *)
MemoryAgrees ==
    /\ unacked = 0 => memory = finished
    /\ unacked = 1 => driver = "xrt" /\ phase \notin Running
    /\ mpmCache \in {NoRun, started} \/ (mpmCache = Blank /\ driver = "opae")

(* A result stands until the next call.                                    *)
ResultStands ==
    /\ result.op # "none" => call = NoCall
    /\ result.op = "ready_wait" /\ result.code = 0 => acked

DeviceInv ==
    /\ DeviceTypeOK
    /\ CallSteps
    /\ RunsCounted
    /\ AckedMeansQuiet
    /\ RegistersAgree
    /\ MemoryAgrees
    /\ ResultStands
    /\ ResultsOfLastRun

----------------------------------------------------------------------------
(* The words of the timeout that ready_wait counts down are integers.      *)
LEMMA PollAgainType ==
    ASSUME DeviceAssumption, NEW t \in Int
    PROVE  PollAgain(t) \in Int
  <1>1. SleepTime \in Int
    BY DEF DeviceAssumption, SleepTime
  <1> QED
    BY <1>1 DEF DeviceAssumption, PollAgain

(* The initial state of a driver satisfies the invariant.                  *)
LEMMA DeviceInitInv == ASSUME DeviceAssumption, DeviceInit PROVE DeviceInv
  BY DEF DeviceAssumption, DeviceInit, DeviceInv, DeviceTypeOK, CallSteps, RunsCounted,
         AckedMeansQuiet, RegistersAgree, MemoryAgrees, ResultStands, ResultsOfLastRun,
         NoCall, NoResult, Items, Registers, Running, Simulators, Transfers, NoRun, Blank,
         Operations

(* A call begins only where Ordered allows it, with the first step of its  *)
(* operation.                                                              *)
LEMMA BeginInv ==
    ASSUME DeviceAssumption, DeviceInv, NEW op \in Operations, Begin(op)
    PROVE  DeviceInv'
  <1> USE DEF DeviceInv
  <1>1. PICK v \in Values, t \in Timeouts :
          call' = [op |-> op, arg |-> v, step |-> FirstStep(op),
                   timeout |-> Counted(IF op = "ready_wait" THEN t ELSE MaxTimeout)]
    BY DEF Begin
  <1>0. Counted(IF op = "ready_wait" THEN t ELSE MaxTimeout) \in Int
    BY DEF Counted, DeviceAssumption
  <1>2. FirstStep(op) \in Steps
    BY DEF FirstStep, Steps, Operations, Transfers
  <1>3. DeviceTypeOK'
    BY <1>0, <1>1, <1>2 DEF DeviceTypeOK, Begin, devVars, Operations
  <1>4. CallSteps'
    BY <1>1 DEF CallSteps, Begin, devVars, FirstStep, Ordered, Operations, Transfers,
                Simulators, DeviceTypeOK
  <1>5. RunsCounted' /\ AckedMeansQuiet' /\ RegistersAgree' /\ MemoryAgrees'
    BY <1>1 DEF RunsCounted, AckedMeansQuiet, RegistersAgree, MemoryAgrees, Begin, devVars,
                NoCall
  <1>6. ResultStands' /\ ResultsOfLastRun'
    BY DEF ResultStands, ResultsOfLastRun, Begin, NoResult
  <1> QED
    BY <1>3, <1>4, <1>5, <1>6

(* start of a simulator: the new run has the registers it was given.       *)
LEMMA SimStartInv ==
    ASSUME DeviceInv, SimStart
    PROVE  DeviceInv'
  <1> USE DEF DeviceInv
  <1>1. call.op = "start" /\ driver \in Simulators /\ call.arg \in Values
    BY DEF SimStart, CallSteps, DeviceTypeOK, NoCall, Operations, Transfers
  <1>2. DeviceTypeOK' /\ CallSteps'
    <2>1. DeviceTypeOK'
      <3>1. dcrs' \in [Items -> Values] /\ devDcrs' \in [Items -> Values]
        BY <1>1 DEF DeviceTypeOK, SimStart
      <3>2. started' \in Nat /\ acked' = FALSE /\ call' = NoCall
        BY DEF DeviceTypeOK, SimStart, Launched, Return
      <3> QED
        BY <3>1, <3>2 DEF DeviceTypeOK, SimStart, Running
    <2>2. CallSteps'
      BY DEF CallSteps, SimStart, Return, NoCall, Transfers
    <2> QED
      BY <2>1, <2>2
  <1>3. RunsCounted' /\ AckedMeansQuiet' /\ RegistersAgree'
    BY <1>1 DEF DeviceTypeOK, RunsCounted, AckedMeansQuiet, RegistersAgree, SimStart,
                Launched, Running, Simulators
  <1>4. MemoryAgrees'
    BY <1>1 DEF DeviceTypeOK, MemoryAgrees, SimStart, Launched, MpmAfterStart, Running, Simulators
  <1>5. ResultStands' /\ ResultsOfLastRun'
    BY <1>1 DEF ResultStands, ResultsOfLastRun, SimStart, Return
  <1> QED
    BY <1>2, <1>3, <1>4, <1>5

(* A DCR write never meets a busy OPAE device, which would drop it.        *)
LEMMA DcrWriteInv ==
    ASSUME DeviceInv, DcrWrite
    PROVE  DeviceInv'
  <1> USE DEF DeviceInv
  <1>1. call.op \in {"start", "dcr_write"} /\ call.arg \in Values /\ call.step \in Items
        /\ call \in [op : Operations, arg : Values, step : Steps, timeout : Int]
    BY DEF DcrWrite, CallSteps, DeviceTypeOK, NoCall, Operations, Transfers, Registers, Items
  <1>2. phase = "idle" \/ driver = "xrt"
    BY <1>1 DEF DcrWrite, CallSteps, AckedMeansQuiet, DeviceTypeOK, Running, Registers
  <1>3. phase \notin Running
    BY <1>1, <1>2 DEF DcrWrite, CallSteps, AckedMeansQuiet, DeviceTypeOK, Running, Simulators
  <1>4. DeviceTypeOK'
    <2>1. dcrs' \in [Items -> Values] /\ devDcrs' \in [Items -> Values]
      BY <1>1 DEF DcrWrite, DeviceTypeOK
    <2>2. call' = NoCall \/ call' \in [op : Operations, arg : Values, step : Steps, timeout : Int]
      BY <1>1 DEF DcrWrite, Step, Return, NextStep, CallSteps, Steps, Registers, Simulators
    <2> QED
      BY <2>1, <2>2 DEF DcrWrite, DeviceTypeOK, Running
  <1>5. CallSteps'
    <2>1. CASE call.op = "start"
      BY <1>1, <2>1 DEF DcrWrite, Step, NextStep, CallSteps, Transfers, Registers, Items,
                        DeviceTypeOK, Simulators
    <2>2. CASE call.op # "start"
      BY <1>1, <2>2 DEF DcrWrite, Return, CallSteps, NoCall, Transfers
    <2> QED
      BY <2>1, <2>2
  <1>6. RunsCounted' /\ AckedMeansQuiet' /\ RegistersAgree' /\ MemoryAgrees'
    BY <1>1, <1>2, <1>3 DEF DcrWrite, RunsCounted, AckedMeansQuiet, RegistersAgree, MemoryAgrees,
                            DeviceTypeOK, Running, Simulators
  <1>7. ResultStands' /\ ResultsOfLastRun'
    BY <1>1 DEF DcrWrite, ResultStands, ResultsOfLastRun, Return, Step, NoCall
  <1> QED
    BY <1>4, <1>5, <1>6, <1>7

(* The command to run is taken: the accelerator is idle when it comes.     *)
LEMMA RunCommandInv ==
    ASSUME DeviceInv, RunCommand
    PROVE  DeviceInv'
  <1> USE DEF DeviceInv
  <1>1. call.op = "start" /\ driver \in {"opae", "xrt"} /\ acked
    BY DEF RunCommand, CallSteps, DeviceTypeOK, NoCall, Operations, Transfers, Simulators
  <1>2. phase = "idle" /\ unacked = 0
    BY <1>1 DEF RunCommand, AckedMeansQuiet, DeviceTypeOK
  <1>3. DeviceTypeOK' /\ CallSteps'
    <2>1. DeviceTypeOK'
      <3>1. started' \in Nat /\ acked' = FALSE /\ call' = NoCall
        BY DEF DeviceTypeOK, RunCommand, Launched, Return
      <3> QED
        BY <3>1 DEF DeviceTypeOK, RunCommand, Running
    <2>2. CallSteps'
      BY DEF CallSteps, RunCommand, Return, NoCall, Transfers
    <2> QED
      BY <2>1, <2>2
  <1>4. RegistersAgree'
    <2>1. dcrs["addr"] = call.arg /\ dcrs["arg"] = call.arg
      BY <1>1 DEF CallSteps, RunCommand
    <2>2. wanted' = dcrs
      BY <2>1 DEF RunCommand, Launched, DeviceTypeOK
    <2> QED
      BY <1>2, <2>2 DEF RegistersAgree, RunCommand
  <1>5. RunsCounted' /\ AckedMeansQuiet' /\ MemoryAgrees'
    BY <1>1, <1>2 DEF RunsCounted, AckedMeansQuiet, MemoryAgrees, RunCommand, Launched, MpmAfterStart,
                      DeviceTypeOK, Running, Simulators
  <1>6. ResultStands' /\ ResultsOfLastRun'
    BY <1>1 DEF ResultStands, ResultsOfLastRun, RunCommand, Return
  <1> QED
    BY <1>3, <1>4, <1>5, <1>6

(* A poll that finds the device ready: nothing runs any more.              *)
LEMMA PollReadyInv ==
    ASSUME DeviceAssumption, DeviceInv, PollReady
    PROVE  DeviceInv'
  <1> USE DEF DeviceInv
  <1>1. phase = "idle" /\ unacked = 0
    BY DEF PollReady, Ready, MemoryAgrees, DeviceTypeOK
  <1>2. call \in [op : Operations, arg : Values, step : Steps, timeout : Int]
    BY DEF PollReady, DeviceTypeOK, NoCall
  <1>3. call.op = "ready_wait" \/ (call.op \in Transfers /\ driver = "opae")
    BY <1>2 DEF PollReady, CallSteps, Operations, Simulators, Transfers
  <1>4. CASE call.op = "ready_wait"
    <2>1. DeviceTypeOK' /\ CallSteps'
      BY <1>2, <1>4 DEF DeviceTypeOK, CallSteps, PollReady, Return, NoCall, Transfers
    <2>2. RunsCounted' /\ AckedMeansQuiet' /\ RegistersAgree' /\ MemoryAgrees'
      BY <1>1, <1>4 DEF RunsCounted, AckedMeansQuiet, RegistersAgree, MemoryAgrees, PollReady,
                        Transfers, Running
    <2>3. ResultStands' /\ ResultsOfLastRun'
      BY <1>4 DEF ResultStands, ResultsOfLastRun, PollReady, Return, Transfers
    <2> QED
      BY <2>1, <2>2, <2>3
  <1>5. CASE call.op \in Transfers
    <2>1. /\ call' = [call EXCEPT !.step = "copied", !.timeout = MaxTimeout]
          /\ phase' = "mem"
          /\ Uploaded
          /\ UNCHANGED <<result, acked>>
      BY <1>5 DEF PollReady, Transfers
    <2>2. DeviceTypeOK'
      <3>1. call' \in [op : Operations, arg : Values, step : Steps, timeout : Int]
        <4>1. MaxTimeout \in Int
          BY DEF DeviceAssumption
        <4> QED
          BY <1>2, <2>1, <4>1 DEF Steps
      <3>2. dcrs' \in [Items -> Values] /\ devDcrs' \in [Items -> Values]
        BY <1>2, <2>1 DEF DeviceTypeOK, Uploaded
      <3> QED
        BY <2>1, <3>1, <3>2 DEF DeviceTypeOK, PollReady
    <2>3. CallSteps'
      BY <1>2, <1>3, <1>5, <2>1 DEF CallSteps, PollReady, Transfers
    <2>4. RunsCounted' /\ AckedMeansQuiet' /\ RegistersAgree' /\ MemoryAgrees'
      BY <1>1, <1>2, <1>3, <1>5, <2>1 DEF RunsCounted, AckedMeansQuiet, RegistersAgree,
           MemoryAgrees, PollReady, Uploaded, Transfers, Running, Simulators
    <2>5. ResultStands' /\ ResultsOfLastRun'
      BY <1>2, <2>1 DEF ResultStands, ResultsOfLastRun, PollReady, NoCall
    <2> QED
      BY <2>2, <2>3, <2>4, <2>5
  <1> QED
    BY <1>3, <1>4, <1>5

(* A poll that finds it busy: the call goes on or times out, and from then *)
(* on the host knows nothing.                                              *)
LEMMA PollBusyInv ==
    ASSUME DeviceAssumption, DeviceInv, PollBusy
    PROVE  DeviceInv'
  <1> USE DEF DeviceInv
  <1>1. call \in [op : Operations, arg : Values, step : Steps, timeout : Int]
    BY DEF PollBusy, DeviceTypeOK, NoCall
  <1>2. call.op = "ready_wait" \/ (call.op \in Transfers /\ driver = "opae")
    BY <1>1 DEF PollBusy, CallSteps, Operations, Simulators, Transfers
  <1>3. CASE TimedOut(call.timeout)
    <2>1. DeviceTypeOK' /\ CallSteps'
      <3>1. DeviceTypeOK'
        BY <1>3 DEF DeviceTypeOK, PollBusy, Return, devVars
      <3>2. CallSteps'
        BY <1>3 DEF CallSteps, PollBusy, Return, NoCall, Transfers
      <3> QED
        BY <3>1, <3>2
    <2>2. RunsCounted' /\ AckedMeansQuiet' /\ RegistersAgree' /\ MemoryAgrees'
      BY <1>2, <1>3 DEF RunsCounted, AckedMeansQuiet, RegistersAgree, MemoryAgrees, PollBusy,
                        devVars
    <2>3. ResultStands' /\ ResultsOfLastRun'
      BY <1>3 DEF ResultStands, ResultsOfLastRun, PollBusy, Return
    <2> QED
      BY <2>1, <2>2, <2>3
  <1>4. CASE ~TimedOut(call.timeout)
    <2>1. PollAgain(call.timeout) \in Int
      BY <1>1, PollAgainType
    <2>2. call' = [call EXCEPT !.timeout = PollAgain(@)] /\ UNCHANGED <<result, acked, mpmCache>>
      BY <1>4 DEF PollBusy
    <2>3. DeviceTypeOK'
      BY <1>1, <2>1, <2>2 DEF DeviceTypeOK, PollBusy, devVars
    <2>4. CallSteps' /\ RunsCounted' /\ AckedMeansQuiet' /\ RegistersAgree' /\ MemoryAgrees'
      BY <1>1, <2>2 DEF CallSteps, RunsCounted, AckedMeansQuiet, RegistersAgree, MemoryAgrees,
                        PollBusy, devVars
    <2>5. ResultStands' /\ ResultsOfLastRun'
      BY <1>1, <2>2 DEF ResultStands, ResultsOfLastRun, PollBusy, NoCall
    <2> QED
      BY <2>3, <2>4, <2>5
  <1> QED
    BY <1>3, <1>4

(* A transfer is done: the memory holds the results of the last run.       *)
LEMMA CopyInv ==
    ASSUME DeviceInv, Copy
    PROVE  DeviceInv'
  <1> USE DEF DeviceInv
  <1>1. call \in [op : Operations, arg : Values, step : Steps, timeout : Int]
    BY DEF Copy, DeviceTypeOK, NoCall
  <1>2. call.op \in Transfers
    BY <1>1 DEF Copy, CallSteps, Operations
  <1>3. memory = started \/ (driver = "opae" /\ call.op = "mpm_query" /\ mpmCache # NoRun)
    <2>1. CASE driver = "opae" /\ call.step = "copied"
      BY <2>1 DEF Copy, Ready, RunsCounted, MemoryAgrees, DeviceTypeOK, Running
    <2>2. CASE driver = "opae" /\ call.step = "copy"
      BY <1>2, <2>2 DEF CallSteps
    <2>3. CASE driver # "opae"
      BY <1>2, <2>3 DEF CallSteps, AckedMeansQuiet, RunsCounted, MemoryAgrees
    <2> QED
      BY <2>1, <2>2, <2>3 DEF Copy
  <1>4. DeviceTypeOK' /\ CallSteps'
    BY <1>1 DEF DeviceTypeOK, CallSteps, Copy, Return, Uploaded, NoCall, Transfers, Items
  <1>5. RunsCounted' /\ RegistersAgree'
    <2>1. phase # "reset" \/ call.op # "upload" \/ call.step # "copy"
      BY <1>2 DEF CallSteps, AckedMeansQuiet, Running
    <2> QED
      BY <1>1, <2>1 DEF RunsCounted, RegistersAgree, Copy, Uploaded, Transfers
  <1>6. AckedMeansQuiet'
    BY <1>2 DEF AckedMeansQuiet, Copy, CallSteps, Ready
  <1>7. MemoryAgrees'
    BY <1>2, <1>3 DEF MemoryAgrees, Copy
  <1>8. ResultStands'
    BY <1>2 DEF ResultStands, Copy, Return, Transfers
  <1>9. ResultsOfLastRun'
    BY <1>2, <1>3 DEF ResultsOfLastRun, MemoryAgrees, Copy, Return, NoRun, Blank, Transfers
  <1> QED
    BY <1>4, <1>5, <1>6, <1>7, <1>8, <1>9

(* The steps of the device.                                                *)
LEMMA DeviceStepInv ==
    ASSUME DeviceInv, Device
    PROVE  DeviceInv'
  <1> USE DEF DeviceInv
  <1>1. CASE ResetDone \/ GoesBusy
    BY <1>1 DEF ResetDone, GoesBusy, hostVars, DeviceTypeOK, CallSteps, RunsCounted,
         AckedMeansQuiet, RegistersAgree, MemoryAgrees, ResultStands, ResultsOfLastRun,
         Running, Simulators
  <1>2. CASE RunEnds
    BY <1>2 DEF RunEnds, hostVars, DeviceTypeOK, CallSteps, RunsCounted,
         AckedMeansQuiet, RegistersAgree, MemoryAgrees, ResultStands, ResultsOfLastRun,
         Running, Simulators
  <1>3. CASE WriteAcked
    BY <1>3 DEF WriteAcked, hostVars, DeviceTypeOK, CallSteps, RunsCounted,
         AckedMeansQuiet, RegistersAgree, MemoryAgrees, ResultStands, ResultsOfLastRun,
         Running
  <1>4. CASE CommandDone
    BY <1>4 DEF CommandDone, hostVars, DeviceTypeOK, CallSteps, RunsCounted,
         AckedMeansQuiet, RegistersAgree, MemoryAgrees, ResultStands, ResultsOfLastRun,
         Running, Simulators
  <1> QED
    BY <1>1, <1>2, <1>3, <1>4 DEF Device

----------------------------------------------------------------------------
(* Every step of host and device preserves the invariant.                  *)
LEMMA DeviceNextInv ==
    ASSUME DeviceAssumption, DeviceInv, [DeviceNext]_deviceVars
    PROVE  DeviceInv'
  <1>1. CASE \E op \in {"start", "dcr_write", "ready_wait"} \cup Transfers : Begin(op)
    BY <1>1, BeginInv DEF Operations
  <1>2. CASE Host
    BY <1>2, SimStartInv, DcrWriteInv, RunCommandInv, PollReadyInv, PollBusyInv, CopyInv DEF Host
  <1>3. CASE Device
    BY <1>3, DeviceStepInv
  <1>4. CASE UNCHANGED deviceVars
    BY <1>4 DEF deviceVars, hostVars, devVars, DeviceInv, DeviceTypeOK, CallSteps, RunsCounted,
         AckedMeansQuiet, RegistersAgree, MemoryAgrees, ResultStands, ResultsOfLastRun
  <1> QED
    BY <1>1, <1>2, <1>3, <1>4 DEF DeviceNext

LEMMA DeviceInvariant == ASSUME DeviceAssumption PROVE DeviceSpec => []DeviceInv
  <1>1. DeviceInit => DeviceInv
    BY DeviceInitInv
  <1>2. DeviceInv /\ [DeviceNext]_deviceVars => DeviceInv'
    BY DeviceNextInv
  <1> QED
    BY <1>1, <1>2, PTL DEF DeviceSpec

(* The state of every driver keeps its type.                               *)
THEOREM DeviceTypeCorrect == ASSUME DeviceAssumption PROVE DeviceSpec => []DeviceTypeOK
  <1>1. DeviceInv => DeviceTypeOK
    BY DEF DeviceInv
  <1> QED
    BY <1>1, DeviceInvariant, PTL

(* ready_wait of all four back ends tells the truth: when it returns 0     *)
(* every run that was started has ended, the last one had the registers    *)
(* the host gave it, and no command was dropped.                           *)
THEOREM ReadyIsTrue == ASSUME DeviceAssumption PROVE DeviceSpec => []ReadyMeansFinished
  <1>1. DeviceInv => ReadyMeansFinished
    BY DEF DeviceInv, ReadyMeansFinished, ResultStands, AckedMeansQuiet, RunsCounted,
           RegistersAgree, Running
  <1> QED
    BY <1>1, DeviceInvariant, PTL

(* download and mpm_query return what the last run wrote, whatever was     *)
(* cached before and whatever is still on its way.                         *)
THEOREM ReadsLastRun == ASSUME DeviceAssumption PROVE DeviceSpec => []ResultsOfLastRun
  <1>1. DeviceInv => ResultsOfLastRun
    BY DEF DeviceInv
  <1> QED
    BY <1>1, DeviceInvariant, PTL

----------------------------------------------------------------------------
(* An interval of the map.                                                 *)
Entry == [start : Nat, end : Nat, flags : (SUBSET Rights) \ {{}}]
Covers(e, b) == e.start <= b /\ b < e.end
Overlaps(e, addr, end) == e.start < end /\ e.end > addr

(* Entries are not empty and lie in the memory.                            *)
WellFormed(map) ==
    \A e \in map : e \in Entry /\ e.start < e.end /\ e.end <= MemSize

(* Entries do not overlap, and two that meet differ in their flags.        *)
Apart(map) ==
    \A d, e \in map : d # e /\ d.start <= e.start =>
        d.end < e.start \/ (d.end = e.start /\ d.flags # e.flags)

(* The map says of every byte what it was last given.                      *)
Observed(map, r) ==
    /\ \A e \in map, b \in Bytes : Covers(e, b) => r[b] = e.flags
    /\ \A b \in Bytes : r[b] # {} => \E e \in map : Covers(e, b)

(* A buffer lies in the memory, with its size rounded up.                  *)
BuffersInMemory ==
    \A b \in buffers : /\ b \in [addr : Nat, size : Nat]
                       /\ InMemory(b.addr, b.size)

AclInv ==
    /\ rights \in [Bytes -> SUBSET Rights]
    /\ WellFormed(aclMap)
    /\ Apart(aclMap)
    /\ Observed(aclMap, rights)
    /\ BuffersInMemory

----------------------------------------------------------------------------
(* The walk of set and check starts at lower_bound, or one entry earlier:  *)
(* it meets every entry that overlaps the range.                           *)
LEMMA WalkMeetsAll ==
    ASSUME WellFormed(aclMap), Apart(aclMap), NEW addr \in Nat, NEW end \in Nat,
           NEW e \in aclMap, Overlaps(e, addr, end)
    PROVE  e \in From(addr)
  <1>1. CASE e.start >= addr
    BY <1>1 DEF From, FromStart
  <1>2. CASE e.start < addr
    <2>1. ASSUME NEW d \in Before(addr) PROVE d.start <= e.start
      <3>1. d \in aclMap /\ d.start < addr /\ d.start \in Nat /\ e.start \in Nat /\ e.end \in Nat
        BY <2>1 DEF Before, WellFormed, Entry
      <3>2. CASE d.start > e.start
        <4>1. e.end <= d.start
          BY <3>1, <3>2 DEF Apart
        <4> QED
          BY <3>1, <4>1 DEF Overlaps
      <3> QED
        BY <3>1, <3>2
    <2>2. e.end >= addr
      BY DEF Overlaps, WellFormed, Entry
    <2> QED
      BY <1>2, <2>1, <2>2 DEF From, Previous, Before
  <1> QED
    BY <1>1, <1>2 DEF WellFormed, Entry

(* So Touched is what it is meant to be.                                   *)
LEMMA TouchedOverlap ==
    ASSUME WellFormed(aclMap), Apart(aclMap), NEW addr \in Nat, NEW end \in Nat
    PROVE  Touched(addr, end) = {e \in aclMap : Overlaps(e, addr, end)}
  <1>1. Touched(addr, end) \subseteq aclMap
    BY DEF Touched, From, FromStart, Previous, Before
  <1> QED
    BY <1>1, WalkMeetsAll DEF Touched, Overlaps

(* What Cut leaves: entries beside the range, and the parts beside the     *)
(* range of those that overlap it.                                         *)
LEMMA CutEntries ==
    ASSUME WellFormed(aclMap), Apart(aclMap), NEW addr \in Nat, NEW end \in Nat, addr < end,
           NEW c \in Cut(addr, end)
    PROVE  \E e \in aclMap :
             \/ c = e /\ (e.end <= addr \/ end <= e.start)
             \/ c = [e EXCEPT !.end = addr] /\ e.start < addr /\ addr < e.end
             \/ c = [e EXCEPT !.start = end] /\ e.start < end /\ end < e.end
  <1>1. Touched(addr, end) = {e \in aclMap : Overlaps(e, addr, end)}
    BY TouchedOverlap
  <1>2. CASE c \in aclMap \ Touched(addr, end)
    BY <1>1, <1>2 DEF Overlaps, WellFormed, Entry
  <1>3. CASE c \in UNION {Trimmed(e, addr, end) : e \in Touched(addr, end)}
    <2>1. PICK e \in aclMap : Overlaps(e, addr, end) /\ c \in Trimmed(e, addr, end)
      BY <1>1, <1>3
    <2> QED
      BY <2>1 DEF Trimmed, Overlaps
  <1> QED
    BY <1>2, <1>3 DEF Cut

(* And nothing else of the map is lost.                                    *)
LEMMA CutKeeps ==
    ASSUME WellFormed(aclMap), Apart(aclMap), NEW addr \in Nat, NEW end \in Nat, addr < end,
           NEW e \in aclMap
    PROVE  /\ e.end <= addr \/ end <= e.start => e \in Cut(addr, end)
           /\ e.start < addr /\ addr < e.end => [e EXCEPT !.end = addr] \in Cut(addr, end)
           /\ e.start < end /\ end < e.end => [e EXCEPT !.start = end] \in Cut(addr, end)
  <1>1. Touched(addr, end) = {d \in aclMap : Overlaps(d, addr, end)}
    BY TouchedOverlap
  <1>2. e.start \in Nat /\ e.end \in Nat
    BY DEF WellFormed, Entry
  <1>3. CASE e.end <= addr \/ end <= e.start
    BY <1>1, <1>2, <1>3 DEF Cut, Overlaps
  <1>4. CASE e.start < addr /\ addr < e.end
    <2>1. e \in Touched(addr, end)
      BY <1>1, <1>2, <1>4 DEF Overlaps
    <2>2. [e EXCEPT !.end = addr] \in Trimmed(e, addr, end)
      BY <1>4 DEF Trimmed
    <2> QED
      BY <1>2, <1>4, <2>1, <2>2 DEF Cut, Trimmed
  <1>5. CASE e.start < end /\ end < e.end
    <2>1. e \in Touched(addr, end)
      BY <1>1, <1>2, <1>5 DEF Overlaps
    <2>2. [e EXCEPT !.start = end] \in Trimmed(e, addr, end)
      BY <1>2, <1>5 DEF Trimmed
    <2> QED
      BY <1>2, <1>5, <2>1, <2>2 DEF Cut, Trimmed
  <1> QED
    BY <1>3, <1>4, <1>5

(* The map stays well formed, and no entry is left in the range.           *)
LEMMA CutWellFormed ==
    ASSUME AclAssumption, WellFormed(aclMap), Apart(aclMap), NEW addr \in Nat, NEW end \in Nat, addr < end
    PROVE  /\ WellFormed(Cut(addr, end))
           /\ \A c \in Cut(addr, end) : c.end <= addr \/ end <= c.start
  <1> SUFFICES ASSUME NEW c \in Cut(addr, end)
               PROVE  /\ c \in Entry /\ c.start < c.end /\ c.end <= MemSize
                      /\ c.end <= addr \/ end <= c.start
    BY DEF WellFormed
  <1>1. PICK e \in aclMap :
          \/ c = e /\ (e.end <= addr \/ end <= e.start)
          \/ c = [e EXCEPT !.end = addr] /\ e.start < addr /\ addr < e.end
          \/ c = [e EXCEPT !.start = end] /\ e.start < end /\ end < e.end
    BY CutEntries
  <1>2. e \in Entry /\ e.start < e.end /\ e.end <= MemSize
    BY DEF WellFormed
  <1> QED
    BY <1>1, <1>2 DEF Entry, AclAssumption

(* Entries are still apart.                                                *)
LEMMA CutApart ==
    ASSUME WellFormed(aclMap), Apart(aclMap), NEW addr \in Nat, NEW end \in Nat, addr < end
    PROVE  Apart(Cut(addr, end))
  <1> SUFFICES ASSUME NEW c \in Cut(addr, end), NEW d \in Cut(addr, end), c # d, c.start <= d.start
               PROVE  c.end < d.start \/ (c.end = d.start /\ c.flags # d.flags)
    BY DEF Apart
  <1>1. PICK e \in aclMap :
          \/ c = e /\ (e.end <= addr \/ end <= e.start)
          \/ c = [e EXCEPT !.end = addr] /\ e.start < addr /\ addr < e.end
          \/ c = [e EXCEPT !.start = end] /\ e.start < end /\ end < e.end
    BY CutEntries
  <1>2. PICK f \in aclMap :
          \/ d = f /\ (f.end <= addr \/ end <= f.start)
          \/ d = [f EXCEPT !.end = addr] /\ f.start < addr /\ addr < f.end
          \/ d = [f EXCEPT !.start = end] /\ f.start < end /\ end < f.end
    BY CutEntries
  <1>3. /\ e \in Entry /\ e.start < e.end
        /\ f \in Entry /\ f.start < f.end
    BY DEF WellFormed
  <1>4. CASE e = f
    BY <1>1, <1>2, <1>3, <1>4 DEF Entry
  <1>5. CASE e # f /\ e.start <= f.start
    <2>1. e.end < f.start \/ (e.end = f.start /\ e.flags # f.flags)
      BY <1>5 DEF Apart
    <2> QED
      BY <1>1, <1>2, <1>3, <2>1 DEF Entry
  <1>6. CASE e # f /\ f.start <= e.start
    <2>1. f.end <= e.start
      BY <1>6, <1>3 DEF Apart, Entry
    <2> QED
      BY <1>1, <1>2, <1>3, <2>1 DEF Entry
  <1> QED
    BY <1>3, <1>4, <1>5, <1>6 DEF Entry

(* The bytes of the range are given nothing, the others keep their rights. *)
LEMMA CutObserved ==
    ASSUME WellFormed(aclMap), Apart(aclMap), NEW addr \in Nat, NEW end \in Nat, addr < end,
           Observed(aclMap, rights), NEW r \in [Bytes -> SUBSET Rights],
           \A b \in Bytes : r[b] = IF b \in addr..(end - 1) THEN {} ELSE rights[b]
    PROVE  Observed(Cut(addr, end), r)
  <1>1. ASSUME NEW c \in Cut(addr, end), NEW b \in Bytes, Covers(c, b) PROVE r[b] = c.flags
    <2>1. PICK e \in aclMap :
            \/ c = e /\ (e.end <= addr \/ end <= e.start)
            \/ c = [e EXCEPT !.end = addr] /\ e.start < addr /\ addr < e.end
            \/ c = [e EXCEPT !.start = end] /\ e.start < end /\ end < e.end
      BY CutEntries
    <2>2. e \in Entry /\ b \in Int
      BY DEF WellFormed, Bytes
    <2>3. b \notin addr..(end - 1) /\ Covers(e, b) /\ c.flags = e.flags
      BY <1>1, <2>1, <2>2 DEF Entry, Covers
    <2> QED
      BY <2>3 DEF Observed
  <1>2. ASSUME NEW b \in Bytes, r[b] # {} PROVE \E c \in Cut(addr, end) : Covers(c, b)
    <2>1. b \notin addr..(end - 1) /\ rights[b] # {} /\ b \in Int
      BY <1>2 DEF Bytes
    <2>2. PICK e \in aclMap : Covers(e, b)
      BY <2>1 DEF Observed
    <2>3. e \in Entry /\ e.start < e.end
      BY DEF WellFormed
    <2>4. CASE b < addr
      <3>1. CASE e.end <= addr
        BY <2>2, <3>1, CutKeeps
      <3>2. CASE addr < e.end
        <4>0. e.start < addr
          BY <2>1, <2>2, <2>3, <2>4 DEF Covers, Entry
        <4>1. [e EXCEPT !.end = addr] \in Cut(addr, end)
          BY <3>2, <4>0, CutKeeps
        <4>2. Covers([e EXCEPT !.end = addr], b)
          BY <2>2, <2>3, <2>4 DEF Covers, Entry
        <4> QED
          BY <4>1, <4>2
      <3> QED
        BY <2>3, <3>1, <3>2 DEF Entry
    <2>5. CASE end <= b
      <3>1. CASE end <= e.start
        BY <2>2, <3>1, CutKeeps
      <3>2. CASE e.start < end
        <4>0. end < e.end
          BY <2>1, <2>2, <2>3, <2>5 DEF Covers, Entry
        <4>1. [e EXCEPT !.start = end] \in Cut(addr, end)
          BY <3>2, <4>0, CutKeeps
        <4>2. Covers([e EXCEPT !.start = end], b)
          BY <2>2, <2>3, <2>5 DEF Covers, Entry
        <4> QED
          BY <4>1, <4>2
      <3> QED
        BY <2>3, <3>1, <3>2 DEF Entry
    <2> QED
      BY <2>1, <2>4, <2>5
  <1> QED
    BY <1>1, <1>2 DEF Observed

----------------------------------------------------------------------------
(* The neighbours that a new range takes in: at most one on each side, and *)
(* what is left out does not touch the range with the same flags.          *)
LEMMA MergedRange ==
    ASSUME NEW map, WellFormed(map), Apart(map), NEW addr \in Nat, NEW end \in Nat, addr < end,
           end <= MemSize, MemSize \in Nat, NEW flags \in (SUBSET Rights) \ {{}},
           \A c \in map : c.end <= addr \/ end <= c.start
    PROVE  LET S == Neighbours(map, addr, end, flags)
               lo == StartOf(S, addr)
               hi == EndOf(S, end)
           IN  /\ lo \in Nat /\ hi \in Nat /\ lo <= addr /\ end <= hi /\ hi <= MemSize
               /\ \A c \in map \ S : c.end < lo \/ hi < c.start \/ (c.flags # flags /\ (c.end = lo \/ c.start = hi))
               /\ \A c \in S : lo <= c.start /\ c.end <= hi
               /\ lo = addr \/ \E c \in S : c.start = lo /\ c.end = addr
               /\ hi = end \/ \E c \in S : c.start = end /\ c.end = hi
  <1> DEFINE S == Neighbours(map, addr, end, flags)
             lo == StartOf(S, addr)
             hi == EndOf(S, end)
  <1>1. \A c \in map : c \in Entry /\ c.start < c.end /\ c.end <= MemSize
    BY DEF WellFormed
  <1>2. \A c \in S : c \in map /\ c.flags = flags /\ (c.end = addr \/ c.start = end)
    BY DEF Neighbours
  <1>3. \A c \in map \ S : c.flags = flags => c.end # addr /\ c.start # end
    BY DEF Neighbours
  <1>4. \/ lo = addr /\ \A c \in S : c.end # addr
        \/ \E c \in S : c.end = addr /\ lo = c.start
    BY DEF StartOf
  <1>5. \/ hi = end /\ \A c \in S : c.start # end
        \/ \E c \in S : c.start = end /\ hi = c.end
    BY DEF EndOf
  <1> HIDE DEF S, lo, hi
  <1>6. lo \in Nat /\ lo <= addr /\ (lo = addr \/ \E c \in S : c.start = lo /\ c.end = addr)
    BY <1>1, <1>2, <1>4 DEF Entry
  <1>7. hi \in Nat /\ end <= hi /\ hi <= MemSize /\ (hi = end \/ \E c \in S : c.start = end /\ c.end = hi)
    BY <1>1, <1>2, <1>5 DEF Entry
  <1>8. ASSUME NEW c \in S PROVE lo <= c.start /\ c.end <= hi
    <2>1. c \in map /\ c \in Entry /\ c.start < c.end /\ c.flags = flags
      BY <1>1, <1>2
    <2>2. CASE c.end = addr
      <3>1. PICK d \in S : d.end = addr /\ lo = d.start
        BY <1>4, <2>2
      <3>2. d \in map /\ d \in Entry /\ d.start < d.end
        BY <1>1, <1>2
      <3>3. c = d
        BY <2>1, <2>2, <3>1, <3>2 DEF Apart, Entry
      <3> QED
        BY <1>7, <2>1, <2>2, <3>1, <3>3 DEF Entry
    <2>3. CASE c.start = end
      <3>1. PICK d \in S : d.start = end /\ hi = d.end
        BY <1>5, <2>3
      <3>2. d \in map /\ d \in Entry /\ d.start < d.end
        BY <1>1, <1>2
      <3>3. c = d
        BY <2>1, <2>3, <3>1, <3>2 DEF Apart, Entry
      <3> QED
        BY <1>6, <2>1, <2>3, <3>1, <3>3 DEF Entry
    <2> QED
      BY <1>2, <2>2, <2>3
  <1>9. ASSUME NEW c \in map \ S
        PROVE  c.end < lo \/ hi < c.start \/ (c.flags # flags /\ (c.end = lo \/ c.start = hi))
    <2>1. c \in Entry /\ c.start < c.end
      BY <1>1
    <2>2. CASE c.end <= addr
      <3>1. CASE lo = addr /\ \A d \in S : d.end # addr
        BY <1>3, <2>1, <2>2, <3>1 DEF Entry
      <3>2. CASE \E d \in S : d.end = addr /\ lo = d.start
        <4>1. PICK d \in S : d.end = addr /\ lo = d.start
          BY <3>2
        <4>2. d \in map /\ d \in Entry /\ d.start < d.end /\ d.flags = flags /\ c # d
          BY <1>1, <1>2
        <4>3. CASE c.start <= d.start
          BY <2>1, <4>1, <4>2, <4>3 DEF Apart, Entry
        <4>4. CASE d.start <= c.start
          BY <2>1, <2>2, <4>1, <4>2, <4>4 DEF Apart, Entry
        <4> QED
          BY <2>1, <4>2, <4>3, <4>4 DEF Entry
      <3> QED
        BY <1>4, <3>1, <3>2
    <2>3. CASE end <= c.start
      <3>1. CASE hi = end /\ \A d \in S : d.start # end
        BY <1>3, <2>1, <2>3, <3>1 DEF Entry
      <3>2. CASE \E d \in S : d.start = end /\ hi = d.end
        <4>1. PICK d \in S : d.start = end /\ hi = d.end
          BY <3>2
        <4>2. d \in map /\ d \in Entry /\ d.start < d.end /\ d.flags = flags /\ c # d
          BY <1>1, <1>2
        <4>3. CASE d.start <= c.start
          BY <2>1, <4>1, <4>2, <4>3 DEF Apart, Entry
        <4>4. CASE c.start <= d.start
          BY <2>1, <2>3, <4>1, <4>2, <4>4 DEF Apart, Entry
        <4> QED
          BY <2>1, <4>2, <4>3, <4>4 DEF Entry
      <3> QED
        BY <1>5, <3>1, <3>2
    <2> QED
      BY <2>2, <2>3
  <1> QED
    BY <1>6, <1>7, <1>8, <1>9 DEF S, lo, hi

(* Merging keeps the map well formed and apart.                            *)
LEMMA MergedApart ==
    ASSUME NEW map, WellFormed(map), Apart(map), NEW addr \in Nat, NEW end \in Nat, addr < end,
           end <= MemSize, MemSize \in Nat, NEW flags \in (SUBSET Rights) \ {{}},
           \A c \in map : c.end <= addr \/ end <= c.start
    PROVE  WellFormed(Merged(map, addr, end, flags)) /\ Apart(Merged(map, addr, end, flags))
  <1> DEFINE S == Neighbours(map, addr, end, flags)
             lo == StartOf(S, addr)
             hi == EndOf(S, end)
             n == [start |-> lo, end |-> hi, flags |-> flags]
  <1>1. Merged(map, addr, end, flags) = (map \ S) \cup {n}
    BY DEF Merged
  <1>2. /\ lo \in Nat /\ hi \in Nat /\ lo <= addr /\ end <= hi /\ hi <= MemSize
        /\ \A c \in map \ S : c.end < lo \/ hi < c.start \/ (c.flags # flags /\ (c.end = lo \/ c.start = hi))
    BY MergedRange
  <1>3. \A c \in map : c \in Entry /\ c.start < c.end /\ c.end <= MemSize
    BY DEF WellFormed
  <1> HIDE DEF S, lo, hi
  <1>4. n \in Entry /\ n.start < n.end /\ n.end <= MemSize /\ n.start = lo /\ n.end = hi /\ n.flags = flags
    BY <1>2 DEF Entry
  <1> HIDE DEF n
  <1>5. WellFormed((map \ S) \cup {n})
    BY <1>3, <1>4 DEF WellFormed
  <1>6. ASSUME NEW c \in map \ S
        PROVE  /\ c.start <= n.start => c.end < n.start \/ (c.end = n.start /\ c.flags # n.flags)
               /\ n.start <= c.start => n.end < c.start \/ (n.end = c.start /\ c.flags # n.flags)
    BY <1>2, <1>3, <1>4 DEF Entry
  <1>7. Apart((map \ S) \cup {n})
    BY <1>6 DEF Apart
  <1> QED
    BY <1>1, <1>5, <1>7

(* Merging gives the bytes of the range the new flags.                     *)
LEMMA MergedObserved ==
    ASSUME NEW map, WellFormed(map), Apart(map), NEW addr \in Nat, NEW end \in Nat, addr < end,
           end <= MemSize, MemSize \in Nat, NEW flags \in (SUBSET Rights) \ {{}},
           \A c \in map : c.end <= addr \/ end <= c.start,
           NEW q, Observed(map, q), NEW r,
           \A b \in Bytes : r[b] = IF b \in addr..(end - 1) THEN flags ELSE q[b]
    PROVE  Observed(Merged(map, addr, end, flags), r)
  <1> DEFINE S == Neighbours(map, addr, end, flags)
             lo == StartOf(S, addr)
             hi == EndOf(S, end)
             n == [start |-> lo, end |-> hi, flags |-> flags]
  <1>1. Merged(map, addr, end, flags) = (map \ S) \cup {n}
    BY DEF Merged
  <1>2. /\ lo \in Nat /\ hi \in Nat /\ lo <= addr /\ end <= hi
        /\ \A c \in S : lo <= c.start /\ c.end <= hi
        /\ lo = addr \/ \E c \in S : c.start = lo /\ c.end = addr
        /\ hi = end \/ \E c \in S : c.start = end /\ c.end = hi
    BY MergedRange
  <1>3. \A c \in map : c \in Entry
    BY DEF WellFormed
  <1>4. \A c \in S : c \in map /\ c.flags = flags
    BY DEF Neighbours
  <1> HIDE DEF S, lo, hi
  <1>5. n.start = lo /\ n.end = hi /\ n.flags = flags
    OBVIOUS
  <1> HIDE DEF n
  <1>6. ASSUME NEW b \in Bytes, Covers(n, b) PROVE r[b] = flags
    <2>0. b \in Int
      BY DEF Bytes
    <2>1. CASE b \in addr..(end - 1)
      BY <2>1
    <2>2. CASE b < addr
      <3>1. PICK c \in S : c.start = lo /\ c.end = addr
        BY <1>2, <1>5, <1>6, <2>0, <2>2 DEF Covers
      <3>2. Covers(c, b)
        BY <1>5, <1>6, <2>2, <3>1 DEF Covers
      <3> QED
        BY <1>4, <2>0, <2>2, <3>2 DEF Observed
    <2>3. CASE end <= b
      <3>1. PICK c \in S : c.start = end /\ c.end = hi
        BY <1>2, <1>5, <1>6, <2>0, <2>3 DEF Covers
      <3>2. Covers(c, b)
        BY <1>5, <1>6, <2>3, <3>1 DEF Covers
      <3> QED
        BY <1>4, <2>0, <2>3, <3>2 DEF Observed
    <2> QED
      BY <2>0, <2>1, <2>2, <2>3
  <1>7. ASSUME NEW c \in map \ S, NEW b \in Bytes, Covers(c, b) PROVE r[b] = c.flags
    <2>1. b \notin addr..(end - 1)
      BY <1>3, <1>7 DEF Covers, Entry, Bytes
    <2> QED
      BY <1>7, <2>1 DEF Observed
  <1>8. ASSUME NEW b \in Bytes, r[b] # {} PROVE \E c \in (map \ S) \cup {n} : Covers(c, b)
    <2>1. CASE b \in addr..(end - 1)
      BY <1>2, <1>5, <2>1 DEF Covers
    <2>2. CASE b \notin addr..(end - 1)
      <3>1. PICK c \in map : Covers(c, b)
        BY <1>8, <2>2 DEF Observed
      <3>2. CASE c \in S
        <4>1. Covers(n, b)
          BY <1>2, <1>3, <1>5, <3>1, <3>2 DEF Covers, Entry, Bytes
        <4> QED
          BY <4>1
      <3> QED
        BY <3>1, <3>2
    <2> QED
      BY <2>1, <2>2
  <1> QED
    BY <1>1, <1>5, <1>6, <1>7, <1>8 DEF Observed

----------------------------------------------------------------------------
(* set: the bytes of the range have the flags, all others what they had.   *)
LEMMA SetCorrect ==
    ASSUME AclAssumption, AclInv, NEW addr \in Nat, NEW size \in Nat, addr + size <= MemSize,
           NEW flags \in SUBSET Rights, NEW r,
           r = [b \in Bytes |-> IF b \in addr..(addr + size - 1) THEN flags ELSE rights[b]]
    PROVE  /\ r \in [Bytes -> SUBSET Rights]
           /\ WellFormed(Set(addr, size, flags))
           /\ Apart(Set(addr, size, flags))
           /\ Observed(Set(addr, size, flags), r)
  <1>1. r \in [Bytes -> SUBSET Rights]
    BY DEF AclInv
  <1>2. CASE size = 0
    <2>1. \A b \in Bytes : r[b] = rights[b]
      BY <1>2 DEF Bytes
    <2> QED
      BY <1>1, <1>2, <2>1 DEF AclInv, Set, Observed
  <1>3. CASE size # 0
    <2> DEFINE end == addr + size
               q == [b \in Bytes |-> IF b \in addr..(end - 1) THEN {} ELSE rights[b]]
    <2>1. end \in Nat /\ addr < end /\ end <= MemSize
      BY <1>3
    <2>2. q \in [Bytes -> SUBSET Rights]
      BY DEF AclInv
    <2>3. \A b \in Bytes : q[b] = IF b \in addr..(end - 1) THEN {} ELSE rights[b]
      OBVIOUS
    <2>4. \A b \in Bytes : r[b] = IF b \in addr..(end - 1) THEN flags ELSE rights[b]
      OBVIOUS
    <2> HIDE DEF end, q
    <2>5. /\ WellFormed(Cut(addr, end)) /\ Apart(Cut(addr, end)) /\ Observed(Cut(addr, end), q)
          /\ \A c \in Cut(addr, end) : c.end <= addr \/ end <= c.start
      BY <2>1, <2>2, <2>3, CutWellFormed, CutApart, CutObserved DEF AclInv
    <2>6. CASE flags = {}
      <3>1. r = q
        BY <1>1, <2>2, <2>3, <2>4, <2>6
      <3>2. Set(addr, size, flags) = Cut(addr, end)
        BY <1>3, <2>6 DEF Set, end
      <3> QED
        BY <1>1, <2>5, <3>1, <3>2
    <2>7. CASE flags # {}
      <3>1. Set(addr, size, flags) = Merged(Cut(addr, end), addr, end, flags)
        BY <1>3, <2>7 DEF Set, end
      <3>2. \A b \in Bytes : r[b] = IF b \in addr..(end - 1) THEN flags ELSE q[b]
        BY <2>3, <2>4
      <3>3. MemSize \in Nat /\ flags \in (SUBSET Rights) \ {{}}
        BY <2>7 DEF AclAssumption
      <3>4. WellFormed(Set(addr, size, flags)) /\ Apart(Set(addr, size, flags))
        BY <2>1, <2>5, <3>1, <3>3, MergedApart
      <3>5. Observed(Set(addr, size, flags), r)
        BY <2>1, <2>5, <3>1, <3>2, <3>3, MergedObserved
      <3> QED
        BY <1>1, <3>4, <3>5
    <2> QED
      BY <2>6, <2>7
  <1> QED
    BY <1>2, <1>3

(* A size is rounded up.                                                   *)
LEMMA AlignedUp ==
    ASSUME AclAssumption, NEW size \in Nat
    PROVE  AlignedSize(size) \in Nat /\ size <= AlignedSize(size)
  <1> DEFINE n == size + BlockSize - 1
             q == n \div BlockSize
  <1>1. n \in Nat /\ BlockSize \in Nat \ {0}
    BY DEF AclAssumption
  <1>2. q \in Nat /\ n % BlockSize \in 0..(BlockSize - 1) /\ n = q * BlockSize + (n % BlockSize)
    BY <1>1
  <1>3. AlignedSize(size) = q * BlockSize
    BY DEF AlignedSize
  <1>4. q * BlockSize \in Nat
    BY <1>1, <1>2
  <1> QED
    BY <1>1, <1>2, <1>3, <1>4

(* mem_access keeps the map right, whether it refuses or not.              *)
LEMMA GiveCorrect ==
    ASSUME AclAssumption, AclInv, NEW addr \in Nat, NEW size \in Nat,
           NEW flags \in SUBSET Rights, Give(addr, size, flags)
    PROVE  /\ rights' \in [Bytes -> SUBSET Rights]
           /\ WellFormed(aclMap') /\ Apart(aclMap') /\ Observed(aclMap', rights')
  <1>1. CASE InMemory(addr, size)
    <2>1. addr + size <= MemSize
      BY <1>1, AlignedUp DEF InMemory, AclAssumption
    <2>2. /\ aclMap' = Set(addr, size, flags)
          /\ rights' = [b \in Bytes |-> IF b \in addr..(addr + size - 1) THEN flags ELSE rights[b]]
      BY <1>1 DEF Give
    <2> QED
      BY <2>1, <2>2, SetCorrect
  <1>2. CASE ~InMemory(addr, size)
    BY <1>2 DEF Give, AclInv
  <1> QED
    BY <1>1, <1>2

----------------------------------------------------------------------------
LEMMA AclInitInv == ASSUME AclAssumption, AclInit PROVE AclInv
  BY DEF AclInit, AclInv, WellFormed, Apart, Observed, BuffersInMemory

(* Every call of the runtime preserves the invariant.                      *)
LEMMA AclNextInv ==
    ASSUME AclAssumption, AclInv, [AclNext]_aclVars
    PROVE  AclInv'
  <1> SUFFICES ASSUME AclNext PROVE AclInv'
    BY DEF AclInv, WellFormed, Apart, Observed, BuffersInMemory, aclVars
  <1>1. ASSUME NEW addr \in {b \in Bytes : b % BlockSize = 0}, NEW size \in 1..MemSize,
               NEW flags \in SUBSET Rights, MemAlloc(addr, size, flags)
        PROVE  AclInv'
    <2>1. addr \in Nat /\ size \in Nat
      BY DEF Bytes, AclAssumption
    <2>2. /\ rights' \in [Bytes -> SUBSET Rights]
          /\ WellFormed(aclMap') /\ Apart(aclMap') /\ Observed(aclMap', rights')
      BY <1>1, <2>1, GiveCorrect DEF MemAlloc
    <2>3. BuffersInMemory'
      BY <1>1, <2>1 DEF MemAlloc, AclInv, BuffersInMemory
    <2> QED
      BY <2>2, <2>3 DEF AclInv, WellFormed, Apart, Observed
  <1>2. ASSUME NEW buffer \in buffers, NEW offset \in 0..MemSize, NEW size \in 0..MemSize,
               NEW flags \in SUBSET Rights, MemAccess(buffer, offset, size, flags)
        PROVE  AclInv'
    <2>1. buffer.addr + offset \in Nat /\ size \in Nat
      BY DEF AclInv, BuffersInMemory, AclAssumption
    <2>2. /\ rights' \in [Bytes -> SUBSET Rights]
          /\ WellFormed(aclMap') /\ Apart(aclMap') /\ Observed(aclMap', rights')
      BY <1>2, <2>1, GiveCorrect DEF MemAccess
    <2>3. BuffersInMemory'
      BY <1>2 DEF MemAccess, AclInv, BuffersInMemory
    <2> QED
      BY <2>2, <2>3 DEF AclInv, WellFormed, Apart, Observed
  <1>3. ASSUME NEW buffer \in buffers, MemFree(buffer)
        PROVE  AclInv'
    <2>1. buffer.addr \in Nat /\ buffer.size \in Nat /\ {} \in SUBSET Rights
      BY DEF AclInv, BuffersInMemory
    <2>2. /\ rights' \in [Bytes -> SUBSET Rights]
          /\ WellFormed(aclMap') /\ Apart(aclMap') /\ Observed(aclMap', rights')
      BY <1>3, <2>1, GiveCorrect DEF MemFree
    <2>3. BuffersInMemory'
      BY <1>3 DEF MemFree, AclInv, BuffersInMemory
    <2> QED
      BY <2>2, <2>3 DEF AclInv, WellFormed, Apart, Observed
  <1> QED
    BY <1>1, <1>2, <1>3 DEF AclNext

LEMMA AclInvariant == ASSUME AclAssumption PROVE AclSpec => []AclInv
  <1>1. AclInit => AclInv
    BY AclInitInv
  <1>2. AclInv /\ [AclNext]_aclVars => AclInv'
    BY AclNextInv
  <1> QED
    BY <1>1, <1>2, PTL DEF AclSpec

(* The walk of check through the intervals decides byte by byte.           *)
LEMMA InvChecks == ASSUME AclAssumption, AclInv PROVE ChecksEveryByte
  <1>0. MemSize \in Nat
    BY DEF AclAssumption
  <1>1. ASSUME NEW addr \in Bytes, NEW size \in 1..MemSize, NEW f \in SUBSET Rights,
               addr + size <= MemSize
        PROVE  Check(addr, size, f) <=>
                 \A b \in addr..(addr + size - 1) : rights[b] = {} \/ f \subseteq rights[b]
    <2>1. addr \in Nat /\ size \in Nat /\ addr + size \in Nat
      BY <1>0 DEF Bytes
    <2>2. ASSUME Check(addr, size, f), NEW b \in addr..(addr + size - 1), rights[b] # {}
          PROVE  f \subseteq rights[b]
      <3>1. b \in Bytes /\ b \in Int
        BY <1>0, <1>1, <2>1 DEF Bytes
      <3>2. PICK e \in aclMap : Covers(e, b)
        BY <2>2, <3>1 DEF AclInv, Observed
      <3>3. e \in Entry
        BY DEF AclInv, WellFormed
      <3>4. Overlaps(e, addr, addr + size)
        BY <2>1, <3>1, <3>2, <3>3 DEF Overlaps, Covers, Entry
      <3>5. e \in From(addr)
        BY <2>1, <3>4, WalkMeetsAll DEF AclInv
      <3>6. f \subseteq e.flags
        BY <2>2, <3>4, <3>5 DEF Check, Overlaps
      <3> QED
        BY <3>1, <3>2, <3>6 DEF AclInv, Observed
    <2>3. ASSUME \A b \in addr..(addr + size - 1) : rights[b] = {} \/ f \subseteq rights[b]
          PROVE  Check(addr, size, f)
      <3> SUFFICES ASSUME NEW e \in From(addr), e.start < addr + size, e.end > addr
                   PROVE  f \subseteq e.flags
        BY DEF Check
      <3>1. e \in aclMap
        BY DEF From, FromStart, Previous, Before
      <3>2. e \in Entry /\ e.start < e.end /\ e.end <= MemSize
        BY <3>1 DEF AclInv, WellFormed
      <3>3. PICK b \in Int : b \in addr..(addr + size - 1) /\ Covers(e, b) /\ b \in Bytes
        <4>1. CASE e.start < addr
          BY <1>0, <1>1, <2>1, <3>2, <4>1 DEF Covers, Entry, Bytes
        <4>2. CASE addr <= e.start
          BY <1>0, <1>1, <2>1, <3>2, <4>2 DEF Covers, Entry, Bytes
        <4> QED
          BY <2>1, <3>2, <4>1, <4>2 DEF Entry
      <3>4. rights[b] = e.flags
        BY <3>1, <3>3 DEF AclInv, Observed
      <3>5. e.flags # {}
        BY <3>2 DEF Entry
      <3> QED
        BY <2>3, <3>3, <3>4, <3>5
    <2> QED
      BY <2>2, <2>3
  <1>2. \A d, e \in aclMap : d # e /\ d.start <= e.start =>
          d.end < e.start \/ (d.end = e.start /\ d.flags # e.flags)
    BY DEF AclInv, Apart
  <1> QED
    BY <1>1, <1>2 DEF ChecksEveryByte

(* After any sequence of mem_alloc, mem_access and mem_free an access to   *)
(* the RAM is let through exactly when each of its bytes allows it.        *)
THEOREM AccessChecked == ASSUME AclAssumption PROVE AclSpec => []ChecksEveryByte
  <1>1. AclInv => ChecksEveryByte
    BY InvChecks
  <1> QED
    BY <1>1, AclInvariant, PTL
=============================================================================
