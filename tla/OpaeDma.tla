------------------------------ MODULE OpaeDma ------------------------------
(***************************************************************************)
(* Transfers between host and device on the OPAE platform: the DMA part of *)
(* the accelerator (src/hw/rtl/afu/opae/vortex_afu.sv) and the shell it is *)
(* simulated in (src/sim/opaesim/opae_sim.cpp).                            *)
(*                                                                         *)
(* An upload reads host lines in windows: a tag is the place in the window *)
(* and answers come in any order, so that a new window may begin only when *)
(* the last one is complete.  A download reads device lines and sends each *)
(* to the host as it comes; banks of the memory answer independently.      *)
(* Clocked steps are interleaved; what the clock edge of one step assigns  *)
(* is one action.                                                          *)
(***************************************************************************)
EXTENDS Integers, Sequences, FiniteSets

CONSTANTS
    NumLines,   \* lines of the device memory and of the staging buffer
    Banks,      \* PLATFORM_MEMORY_BANKS
    Window,     \* CCI_RD_WINDOW_SIZE
    RqSize,     \* CCI_RQ_SIZE, CCI_WQ_SIZE of the shell
    MaxPending, \* CCI_RW_PENDING_SIZE
    MaxCmds     \* bound: transfers

DmaAssumption ==
    /\ NumLines \in Nat
    /\ Banks \in Nat \ {0} /\ Window \in Nat \ {0}
    /\ RqSize \in Nat /\ MaxPending \in Nat /\ MaxCmds \in Nat

Lines == 0..(NumLines - 1)
BankIds == 0..(Banks - 1)
BankOf(line) == line % Banks     \* banks are interleaved by default

VARIABLES
    afu,      \* the state machine: idle, mem_write, mem_read
    cmd,      \* cmd_mem_addr, cmd_data_size, and the number of the command
    staging,  \* the host's staging buffer
    want,     \* observer: what the device memory has to hold
    rdCtr, rdWait, rspCtr, addrBase, \* cci_rd_req_ctr, _wait, cci_rd_rsp_ctr, cci_mem_wr_req_addr_base
    cciReads, \* requests to the host not answered: tag and line
    rdq,      \* cci_rd_req_queue: data and address
    wrCtr,    \* cci_mem_wr_req_ctr
    memReqs,  \* memReqs[b]: requests on the way to bank b
    ram,      \* the device memory
    memRsps,  \* memRsps[b]: lines read, not yet answered
    mrCtr,    \* cci_mem_rd_req_ctr
    wrLeft,   \* cci_wr_req_ctr
    cciWrites \* cci_pending_writes

upVars == <<rdCtr, rdWait, rspCtr, addrBase, cciReads, rdq, wrCtr>>
downVars == <<mrCtr, wrLeft, cciWrites>>
memVars == <<memReqs, ram, memRsps>>
dmaVars == <<afu, cmd, staging, want, upVars, downVars, memVars>>

DmaInit ==
    /\ afu = "idle"
    /\ cmd = [op |-> "none", addr |-> 0, size |-> 0, nr |-> 0]
    /\ staging = [i \in Lines |-> <<0, i>>]
    /\ want = [l \in Lines |-> <<0, l>>] /\ ram = want
    /\ rdCtr = 0 /\ rdWait = FALSE /\ rspCtr = 0 /\ addrBase = 0 /\ wrCtr = 0
    /\ cciReads = {} /\ rdq = <<>>
    /\ memReqs = [b \in BankIds |-> <<>>] /\ memRsps = [b \in BankIds |-> <<>>]
    /\ mrCtr = 0 /\ wrLeft = 0 /\ cciWrites = 0

----------------------------------------------------------------------------
(* The runtime fills the staging buffer and writes CMD_MEM_WRITE; or it    *)
(* writes CMD_MEM_READ, and takes the lines when the accelerator is idle.  *)
(* Only an idle accelerator takes a command.                               *)
Command(op, addr, size) ==
    /\ afu = "idle" /\ cmd.nr < MaxCmds
    /\ addr + size <= NumLines
    /\ cmd' = [op |-> op, addr |-> addr, size |-> size, nr |-> cmd.nr + 1]

Upload(addr, size) ==
    /\ Command("mem_write", addr, size)
    /\ afu' = "mem_write"
    /\ staging' = [i \in Lines |-> IF i < size THEN <<cmd'.nr, i>> ELSE staging[i]]
    /\ want' = [l \in Lines |-> IF l \in addr..(addr + size - 1) THEN <<cmd'.nr, l - addr>>
                                ELSE want[l]]
    /\ rdCtr' = 0 /\ rdWait' = FALSE /\ rspCtr' = 0 /\ addrBase' = addr /\ wrCtr' = 0
    /\ UNCHANGED <<cciReads, rdq, downVars, memVars>>

Download(addr, size) ==
    /\ Command("mem_read", addr, size)
    /\ afu' = "mem_read"
    /\ mrCtr' = 0 /\ wrLeft' = size
    /\ UNCHANGED <<staging, want, upVars, cciWrites, memVars>>

----------------------------------------------------------------------------
(* Upload: read requests to the host, until the window is used up.  What   *)
(* is asked for and not yet written counts against the read queue.         *)
LastOfWindowNever(ctr) == FALSE
LastOfWindow(ctr) == ctr % Window = Window - 1

HostRead ==
    /\ afu = "mem_write"
    /\ rdCtr # cmd.size /\ ~rdWait
    /\ Cardinality(cciReads) + Len(rdq) < 2 * Window
    /\ Cardinality(cciReads) < RqSize - 1
    /\ cciReads' = cciReads \cup {[tag |-> rdCtr % Window, data |-> staging[rdCtr], nr |-> rdCtr]}
    /\ rdCtr' = rdCtr + 1
    /\ rdWait' = LastOfWindow(rdCtr)
    /\ UNCHANGED <<afu, cmd, staging, want, rspCtr, addrBase, rdq, wrCtr, downVars, memVars>>

(* An answer; the last one of a window moves the base and opens the next.  *)
WindowCompleteLate(ctr) == ctr = Window
WindowComplete(ctr) == ctr = Window - 1

HostReadRsp(r) ==
    /\ cciReads' = cciReads \ {r}
    /\ rdq' = Append(rdq, [data |-> r.data, addr |-> addrBase + r.tag])
    /\ rspCtr' = (rspCtr + 1) % Window
    /\ IF WindowComplete(rspCtr)
       THEN addrBase' = addrBase + Window /\ rdWait' = FALSE
       ELSE UNCHANGED <<addrBase, rdWait>>
    /\ UNCHANGED <<afu, cmd, staging, want, rdCtr, wrCtr, downVars, memVars>>

MemWrite ==
    /\ afu = "mem_write" /\ rdq # <<>>
    /\ rdq' = Tail(rdq)
    /\ wrCtr' = wrCtr + 1
    /\ LET q == Head(rdq)
           b == BankOf(q.addr)
       IN memReqs' = [memReqs EXCEPT ![b] = Append(@, [op |-> "write", addr |-> q.addr, v |-> q.data])]
    /\ UNCHANGED <<afu, cmd, staging, want, rdCtr, rdWait, rspCtr, addrBase, cciReads,
                   downVars, ram, memRsps>>

(* cmd_mem_wr_done is set by the last write: without any line to write an  *)
(* upload never ends.                                                      *)
UploadDone ==
    /\ afu = "mem_write" /\ wrCtr = cmd.size /\ wrCtr > 0
    /\ afu' = "idle"
    /\ UNCHANGED <<cmd, staging, want, upVars, downVars, memVars>>

----------------------------------------------------------------------------
(* The banks take their requests in order.                                 *)
BankStep(b) ==
    /\ memReqs[b] # <<>>
    /\ memReqs' = [memReqs EXCEPT ![b] = Tail(@)]
    /\ LET q == Head(memReqs[b])
       IN IF q.op = "write" THEN ram' = [ram EXCEPT ![q.addr] = q.v] /\ UNCHANGED memRsps
          ELSE /\ memRsps' = [memRsps EXCEPT ![b] = Append(@, [tag |-> q.v, data |-> ram[q.addr]])]
               /\ UNCHANGED ram
    /\ UNCHANGED <<afu, cmd, staging, want, upVars, downVars>>

----------------------------------------------------------------------------
(* Download: read requests to the memory, the number of a line as tag.     *)
MemRead ==
    /\ afu = "mem_read" /\ mrCtr < cmd.size           \* ~cci_mem_rd_req_done
    /\ mrCtr' = mrCtr + 1
    /\ LET a == cmd.addr + mrCtr
       IN memReqs' = [memReqs EXCEPT ![BankOf(a)] = Append(@, [op |-> "read", addr |-> a, v |-> mrCtr])]
    /\ UNCHANGED <<afu, cmd, staging, want, upVars, wrLeft, cciWrites, ram, memRsps>>

(* A line goes to the host in the cycle after it came.                     *)
HostWrite(b) ==
    /\ memRsps[b] # <<>>
    /\ cciWrites < MaxPending /\ cciWrites < RqSize - 1
    /\ memRsps' = [memRsps EXCEPT ![b] = Tail(@)]
    /\ staging' = [staging EXCEPT ![Head(memRsps[b]).tag] = Head(memRsps[b]).data]
    /\ cciWrites' = cciWrites + 1
    /\ wrLeft' = wrLeft - 1
    /\ UNCHANGED <<afu, cmd, want, upVars, mrCtr, memReqs, ram>>

HostWriteRsp ==
    /\ afu = "mem_read" /\ cciWrites > 0
    /\ cciWrites' = cciWrites - 1
    /\ UNCHANGED <<afu, cmd, staging, want, upVars, mrCtr, wrLeft, memVars>>

AllSent == wrLeft = 0 /\ cciWrites = 0                \* cmd_mem_rd_done

DownloadDone ==
    /\ afu = "mem_read" /\ AllSent
    /\ afu' = "idle"
    /\ UNCHANGED <<cmd, staging, want, upVars, downVars, memVars>>

Transfer ==
    \/ HostRead \/ MemWrite \/ UploadDone
    \/ \E r \in cciReads : HostReadRsp(r)
    \/ \E b \in BankIds : BankStep(b)
    \/ MemRead \/ HostWriteRsp \/ DownloadDone
    \/ \E b \in BankIds : HostWrite(b)

(* The driver sends transfers of no lines too.  An upload of none waits    *)
(* for ever; a download of none would ask for lines until its counter      *)
(* comes round to all ones, and is left out.                               *)
DmaNext ==
    \/ \E addr \in Lines, size \in 0..NumLines : Upload(addr, size)
    \/ \E addr \in Lines, size \in 1..NumLines : Download(addr, size)
    \/ Transfer

DmaSpec == DmaInit /\ [][DmaNext]_dmaVars

(* Host, accelerator and banks are clocked: a step that stays possible is  *)
(* taken.  Of the answers of the host and of the banks some one is.        *)
DmaFairness == WF_dmaVars(Transfer)
DmaFairSpec == DmaSpec /\ DmaFairness

----------------------------------------------------------------------------
(* What a download leaves in the staging buffer is, line by line, what     *)
(* the last uploads put at its addresses: whatever the order of answers,   *)
(* however the windows fall, and although an upload ends while its last    *)
(* writes are still on their way to the banks.                             *)
DmaIntact ==
    afu = "idle" /\ cmd.op = "mem_read" =>
        \A i \in 0..(cmd.size - 1) : staging[i] = want[cmd.addr + i]

Moving == afu # "idle" /\ cmd.size > 0

(* Every transfer of at least one line ends: no window waits for answers   *)
(* that are not owed, no queue fills up for good.  The upload of no lines, *)
(* which the driver sends to the accelerator as well, does not.            *)
DmaEnds == []<>~Moving
=============================================================================
