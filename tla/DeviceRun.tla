----------------------------- MODULE DeviceRun -----------------------------
(***************************************************************************)
(* The host side of a device: the vx_device of the four back ends          *)
(* (src/runtime/{simx,rtlsim,opae,xrt}/vortex.cpp) and the device they     *)
(* drive, which is another thread (the simulators), or an accelerator with *)
(* a command state machine (vortex_afu.sv, VX_afu_wrap.sv).                *)
(*                                                                         *)
(* The simulators keep a future of the run and wait for it before they     *)
(* touch the processor.  The accelerators are driven through registers:    *)
(* OPAE takes a command only while its state machine is idle and drops it  *)
(* otherwise; XRT takes DCR writes at any time and a start while idle.     *)
(* Transfers go through the state machine (OPAE) or past it (the others).  *)
(*                                                                         *)
(* The host is one thread.  It keeps to the order of the runtime's own     *)
(* programs: between a start and the ready_wait that returns 0 it only     *)
(* makes calls that the back end itself orders after the run; so too after *)
(* a call that timed out.                                                  *)
(***************************************************************************)
EXTENDS Integers, Sequences

CONSTANTS
    Drivers,     \* back ends considered
    Values,      \* values of a kernel address, an argument, a register
    Timeouts,    \* timeouts of ready_wait, in milliseconds
    MaxTimeout,  \* VX_MAX_TIMEOUT, the same
    TimeoutBits, \* width of a timeout
    Second,      \* milliseconds of a second
    XrtSleep,    \* sleep_time_ms of XRT: 1, in a debug build a second
    MaxCalls     \* bound: calls the host makes

DeviceAssumption ==
    /\ Drivers \subseteq {"simx", "rtlsim", "opae", "xrt"}
    /\ TimeoutBits \in Nat
    /\ MaxTimeout \in 0..(2^TimeoutBits - 1)
    /\ Timeouts \subseteq 0..MaxTimeout
    /\ Second \in Nat \ {0} /\ XrtSleep \in {1, Second}
    /\ MaxCalls \in Nat

Simulators == {"simx", "rtlsim"}
NoValue == "none"
NoRun == -1
Blank == -2    \* counters that were never read, all zero

VARIABLES
    driver,   \* the back end
    call,     \* the call in progress: operation, argument, step, timeout
    result,   \* what the last call returned
    calls,    \* how many calls were made
    dcrs,     \* the host's copy of the device configuration registers
    mpmCache, \* mpm_cache_ of a core: counters of a run, NoRun or Blank
    acked,    \* host's knowledge: the device was seen ready after its last command
    phase,    \* the device: idle, reset, busy_wait, busy, mem, dcr
    devDcrs,  \* the registers of the device and the input in its memory
    latched,  \* what of these the current run works with
    unacked,  \* writes of the run the memory has not acknowledged
    memory,   \* the number of the run whose results are in memory
    started, finished, \* runs the host started; runs that ended
    wanted,   \* the same as the host wants it for its last start
    endless   \* the kernel of the current run does not end

hostVars == <<call, result, calls, dcrs, mpmCache, acked, wanted, started>>
devVars == <<phase, devDcrs, latched, unacked, memory, finished, endless>>
deviceVars == <<driver, hostVars, devVars>>

Registers == {"addr", "arg", "state"}
Items == Registers \cup {"input"}
NoCall == [op |-> "none", arg |-> NoValue, step |-> "none", timeout |-> 0]
NoResult == [op |-> "none", code |-> 0, value |-> 0]

DeviceInit ==
    /\ driver \in Drivers
    /\ call = NoCall /\ result = NoResult /\ calls = 0
    /\ dcrs \in {[r \in Items |-> v] : v \in Values} /\ devDcrs = dcrs
    /\ latched = dcrs /\ wanted = dcrs
    /\ mpmCache = NoRun /\ acked = TRUE
    /\ phase = "idle" /\ unacked = 0 /\ memory = 0 /\ started = 0 /\ finished = 0
    /\ endless = FALSE

----------------------------------------------------------------------------
(* Begin a call; its first step depends on the back end.                   *)
FirstStep(op) ==
    CASE op = "start" -> IF driver \in Simulators THEN "launch" ELSE "addr"
      [] op = "dcr_write" -> "state"
      [] op = "ready_wait" -> "poll"
      [] op = "mpm_query" /\ mpmCache # NoRun -> "copy"
      [] OTHER -> IF driver = "opae" THEN "poll" ELSE "copy"

Transfers == {"upload", "download", "mpm_query"}

(* OPAE orders a transfer after the run, the simulators a start and a DCR  *)
(* write; all else waits for the acknowledgement.                          *)
Ordered(op) ==
    \/ acked
    \/ op = "ready_wait"
    \/ driver = "opae" /\ op \in Transfers
    \/ driver \in Simulators /\ op \in {"start", "dcr_write"}

(* A simulator counts whole seconds, an accelerator milliseconds.          *)
Counted(t) == IF driver \in Simulators THEN t \div Second ELSE t

Begin(op) ==
    /\ call = NoCall
    /\ calls < MaxCalls
    /\ Ordered(op)
    /\ calls' = calls + 1
    /\ result' = NoResult
    /\ \E v \in Values, t \in Timeouts :
         call' = [op |-> op, arg |-> v, step |-> FirstStep(op),
                  timeout |-> Counted(IF op = "ready_wait" THEN t ELSE MaxTimeout)]
    /\ UNCHANGED <<driver, dcrs, mpmCache, acked, wanted, started, devVars>>

Step(s) == call' = [call EXCEPT !.step = s]
Return(code, value) ==
    /\ call' = NoCall
    /\ result' = [op |-> call.op, code |-> code, value |-> value]

----------------------------------------------------------------------------
(* start of a simulator: future_.wait(), the four DCRs, std::async.  The   *)
(* device runs from here on in its own thread.                             *)
MpmKept == mpmCache
MpmAfterStart == NoRun

Launched(v) ==
    /\ started' = started + 1
    /\ acked' = FALSE
    /\ mpmCache' = MpmAfterStart
    /\ wanted' = [dcrs EXCEPT !["addr"] = v, !["arg"] = v]

SimStart ==
    /\ call.step = "launch"
    /\ phase = "idle"                       \* future_.wait()
    /\ devDcrs' = [devDcrs EXCEPT !["addr"] = call.arg, !["arg"] = call.arg]
    /\ dcrs' = [dcrs EXCEPT !["addr"] = call.arg, !["arg"] = call.arg]
    /\ Launched(call.arg)
    /\ phase' = "busy"
    /\ latched' = devDcrs'
    /\ endless' \in BOOLEAN
    /\ Return(0, 0)
    /\ UNCHANGED <<driver, calls, unacked, memory, finished>>

(* dcr_write, alone or as a step of an accelerator's start: a simulator    *)
(* waits for its future, OPAE takes the command only while idle, XRT       *)
(* passes it on.  The host's copy is written in any case.  MMIO accesses   *)
(* are many cycles apart: the next one finds STATE_DCR_WRITE left.         *)
NextStep(s) == CASE s = "addr" -> "arg" [] s = "arg" -> "run" [] OTHER -> "none"

DcrWrite ==
    /\ call.step \in Registers
    /\ IF driver \in Simulators THEN phase = "idle" ELSE phase # "dcr"
    /\ devDcrs' = IF driver = "opae" /\ phase # "idle" THEN devDcrs
                  ELSE [devDcrs EXCEPT ![call.step] = call.arg]
    /\ phase' = IF driver = "opae" /\ phase = "idle" THEN "dcr" ELSE phase
    /\ dcrs' = [dcrs EXCEPT ![call.step] = call.arg]
    /\ IF call.op = "start" THEN Step(NextStep(call.step)) /\ UNCHANGED result
                            ELSE Return(0, 0)
    /\ UNCHANGED <<driver, calls, mpmCache, acked, wanted, started, latched,
                   unacked, memory, finished, endless>>

(* CMD_RUN or CTL_AP_START; the next read of the status sees the run.      *)
RunCommand ==
    /\ call.step = "run"
    /\ phase # "dcr"
    /\ phase' = IF phase = "idle" THEN "reset" ELSE phase
    /\ endless' \in IF phase = "idle" THEN BOOLEAN ELSE {endless}
    /\ Launched(call.arg)
    /\ Return(0, 0)
    /\ UNCHANGED <<driver, calls, dcrs, devDcrs, latched, unacked, memory, finished>>

----------------------------------------------------------------------------
(* ready_wait: poll until the device is ready or the timeout is used up.   *)
(* ap_done of XRT also waits for the last memory writes.                   *)
ReadyEarly == phase \in {"idle", "busy_wait"} /\ (driver = "xrt" => unacked = 0)
Ready == phase = "idle" /\ (driver = "xrt" => unacked = 0)

SleepTime == IF driver = "xrt" THEN XrtSleep ELSE 1
PollAgain(t) == (t - SleepTime) % 2^TimeoutBits
TimedOutNever(t) == FALSE
TimedOut(t) == t = 0

Uploaded ==
    IF call.op = "upload"
    THEN /\ devDcrs' = [devDcrs EXCEPT !["input"] = call.arg]
         /\ dcrs' = [dcrs EXCEPT !["input"] = call.arg]
    ELSE UNCHANGED <<devDcrs, dcrs>>

PollReady ==
    /\ call.step = "poll" /\ Ready
    /\ \/ /\ call.op = "ready_wait"
          /\ Return(0, 0)
          /\ acked' = TRUE
          /\ UNCHANGED phase
          /\ UNCHANGED <<dcrs, devDcrs>>
       \/ /\ call.op \in Transfers           \* CMD_MEM_READ, CMD_MEM_WRITE
          /\ call' = [call EXCEPT !.step = "copied", !.timeout = MaxTimeout]
          /\ phase' = "mem"
          /\ Uploaded
          /\ UNCHANGED <<result, acked>>
    /\ UNCHANGED <<driver, calls, mpmCache, wanted, started, latched,
                   unacked, memory, finished, endless>>

(* nanosleep, timeout -= sleep_time_ms.  mpm_query has put its entry into  *)
(* the cache before the download that times out.                           *)
PollBusy ==
    /\ call.step \in {"poll", "copied"} /\ ~Ready
    /\ IF TimedOut(call.timeout)
       THEN /\ Return(-1, 0)
            /\ acked' = FALSE
            /\ mpmCache' = IF call.op = "mpm_query" THEN Blank ELSE mpmCache
       ELSE /\ call' = [call EXCEPT !.timeout = PollAgain(@)]
            /\ UNCHANGED <<result, acked, mpmCache>>
    /\ UNCHANGED <<driver, calls, dcrs, wanted, started, devVars>>

(* upload, download, and mpm_query, which keeps the counters it has read   *)
(* until the next start.  What is downloaded stands for the number of the  *)
(* run that wrote it.                                                      *)
Copy ==
    /\ \/ call.step = "copy" /\ Uploaded
       \/ call.step = "copied" /\ Ready /\ UNCHANGED <<devDcrs, dcrs>>
    /\ mpmCache' = IF call.op = "mpm_query" /\ mpmCache = NoRun THEN memory ELSE mpmCache
    /\ Return(0, IF call.op = "mpm_query" THEN mpmCache' ELSE memory)
    /\ UNCHANGED <<driver, calls, acked, wanted, started, phase, latched, unacked,
                   memory, finished, endless>>

----------------------------------------------------------------------------
(* The device.  An accelerator resets the processor, waits until it goes   *)
(* busy and then until it is not; the reset loads the startup registers.   *)
ResetDone ==
    /\ phase = "reset"
    /\ phase' = "busy_wait"
    /\ latched' = devDcrs
    /\ UNCHANGED <<driver, hostVars, devDcrs, unacked, memory, finished, endless>>

GoesBusy ==
    /\ phase = "busy_wait"
    /\ phase' = "busy"
    /\ UNCHANGED <<driver, hostVars, devDcrs, latched, unacked, memory, finished, endless>>

(* The last write may still be on its way on the AXI bus.                  *)
RunEnds ==
    /\ phase = "busy" /\ ~endless
    /\ phase' = "idle"
    /\ finished' = finished + 1
    /\ \/ memory' = finished + 1 /\ UNCHANGED unacked
       \/ driver = "xrt" /\ unacked' = 1 /\ UNCHANGED memory
    /\ UNCHANGED <<driver, hostVars, devDcrs, latched, endless>>

WriteAcked ==
    /\ unacked = 1
    /\ unacked' = 0
    /\ memory' = finished
    /\ UNCHANGED <<driver, hostVars, phase, devDcrs, latched, finished, endless>>

CommandDone ==
    /\ phase \in {"mem", "dcr"}
    /\ phase' = "idle"
    /\ UNCHANGED <<driver, hostVars, devDcrs, latched, unacked, memory, finished, endless>>

Host ==
    \/ SimStart
    \/ DcrWrite
    \/ RunCommand
    \/ PollReady
    \/ PollBusy
    \/ Copy

Device ==
    \/ ResetDone
    \/ GoesBusy
    \/ RunEnds
    \/ WriteAcked
    \/ CommandDone

DeviceNext ==
    \/ \E op \in {"start", "dcr_write", "ready_wait"} \cup Transfers : Begin(op)
    \/ Host
    \/ Device

DeviceSpec == DeviceInit /\ [][DeviceNext]_deviceVars

(* Host and device are threads of their own, or the device is clocked.  An *)
(* endless kernel never ends, and is not expected to.                      *)
DeviceFairness == WF_deviceVars(Host) /\ WF_deviceVars(Device)
DeviceFairSpec == DeviceSpec /\ DeviceFairness

----------------------------------------------------------------------------
(* A ready_wait that returns 0 means what the host needs: every run it     *)
(* started has been carried out and is over, the last one ran with the     *)
(* registers the host gave it, and the host's copy of them is true.        *)
ReadyMeansFinished ==
    result.op = "ready_wait" /\ result.code = 0 =>
        /\ finished = started
        /\ started > 0 => latched = wanted
        /\ devDcrs = dcrs

(* What a download or a counter query returns is from the last run started *)
(* and complete: not of an earlier run kept in the cache, not a result     *)
(* whose last writes are still on their way.  The one exception is a query *)
(* after a query that timed out in the same run: it finds the blank entry. *)
ResultsOfLastRun ==
    result.op \in {"download", "mpm_query"} /\ result.code = 0 =>
        \/ result.value = started
        \/ driver = "opae" /\ result.op = "mpm_query" /\ mpmCache = Blank

CountsToZero == call.timeout % SleepTime = 0
MustReturn ==
    /\ call.op # "none"
    /\ endless => CountsToZero /\ ~(driver \in Simulators /\ call.op \in {"start", "dcr_write"})
CallOver == call.op = "none"

(* Every call returns, also when the kernel never ends, but for the calls  *)
(* of a simulator that wait for the run without a timeout.  A timeout that *)
(* is no multiple of the sleep of a poll, as it may be in a debug build of *)
(* XRT, steps over zero and wraps: with it a call returns when the run     *)
(* ends, and for an endless kernel it does not return.                     *)
CallsReturn == MustReturn ~> CallOver
=============================================================================
