--------------------------- MODULE OpaeDmaProofs ---------------------------
(***************************************************************************)
(* The theorem about OpaeDma, for every number of lines and banks, every   *)
(* window and every queue size: what a download leaves in the staging      *)
(* buffer is what the uploads before it put into the device memory.        *)
(***************************************************************************)
EXTENDS OpaeDma, SequenceTheorems, FiniteSetTheorems, TLAPS

Values == Nat \X Nat
WriteReq == [op : {"write"}, addr : Lines, v : Values]
ReadReq == [op : {"read"}, addr : Lines, v : Nat]
HostReq == [tag : Nat, data : Values, nr : Nat]

DmaTypeOK ==
    /\ afu \in {"idle", "mem_write", "mem_read"}
    /\ cmd \in [op : {"none", "mem_write", "mem_read"}, addr : Nat, size : Nat, nr : Nat]
    /\ cmd.addr + cmd.size <= NumLines
    /\ afu # "idle" => cmd.op = afu
    /\ staging \in [Lines -> Values] /\ want \in [Lines -> Values] /\ ram \in [Lines -> Values]
    /\ rdCtr \in Nat /\ rspCtr \in Nat /\ addrBase \in Nat /\ wrCtr \in Nat /\ mrCtr \in Nat
    /\ rdWait \in BOOLEAN
    /\ cciReads \in SUBSET HostReq /\ IsFiniteSet(cciReads)
    /\ rdq \in Seq([data : Values, addr : Lines])
    /\ memReqs \in [BankIds -> Seq(WriteReq \cup ReadReq)]
    /\ memRsps \in [BankIds -> Seq([tag : Nat, data : Values])]

----------------------------------------------------------------------------
(* Upload.  The windows: base is where the open one begins, and the        *)
(* requests that are out are of that window.                               *)
Base == addrBase - cmd.addr

WindowInv ==
    /\ rdCtr <= cmd.size
    /\ Base \in Nat /\ Base % Window = 0
    /\ Base <= rdCtr /\ rdCtr <= Base + Window
    /\ rdWait <=> rdCtr = Base + Window
    /\ rspCtr + Cardinality(cciReads) = rdCtr - Base
    /\ rspCtr < Window
    /\ \A r \in cciReads : /\ Base <= r.nr /\ r.nr < rdCtr /\ r.tag = r.nr - Base
                           /\ r.data = <<cmd.nr, r.nr>>

(* What was uploaded is on its way, line by line.                          *)
UploadInv ==
    /\ \A i \in 0..(cmd.size - 1) : staging[i] = <<cmd.nr, i>> /\ want[cmd.addr + i] = <<cmd.nr, i>>
    /\ \A n \in DOMAIN rdq :
          /\ cmd.addr <= rdq[n].addr /\ rdq[n].addr < cmd.addr + cmd.size
          /\ rdq[n].data = want[rdq[n].addr]
    /\ wrCtr + Len(rdq) + Cardinality(cciReads) = rdCtr

Queued(l) == \E n \in DOMAIN rdq : rdq[n].addr = l
Asked(i) == \E r \in cciReads : r.nr = i
Outstanding(l) ==
    /\ afu = "mem_write"
    /\ \E i \in 0..(cmd.size - 1) : l = cmd.addr + i /\ (i >= rdCtr \/ Asked(i) \/ Queued(l))

(* Once the requests of its bank are done, a line is what it has to be:    *)
(* the last write of the queue, or else the memory, says so.               *)
Writes(e, l) == e.op = "write" /\ e.addr = l
FreshIn(q, old, new, l) ==
    \/ old = new /\ \A n \in DOMAIN q : ~Writes(q[n], l)
    \/ \E n \in DOMAIN q : /\ Writes(q[n], l) /\ q[n].v = new
                           /\ \A m \in DOMAIN q : m > n => ~Writes(q[m], l)
Fresh(l) == FreshIn(memReqs[BankOf(l)], ram[l], want[l], l)

----------------------------------------------------------------------------
(* Download.  Reads are queued behind all the writes, and the number of a  *)
(* line is in one place.                                                   *)
Reads(e, i) == e.op = "read" /\ e.v = i
RequestOK(e, b) ==
    /\ BankOf(e.addr) = b
    /\ e.op = "read" => afu = "mem_read" /\ e.v < mrCtr /\ e.addr = cmd.addr + e.v
QueueInv(b) ==
    /\ \A n \in DOMAIN memReqs[b] : RequestOK(memReqs[b][n], b)
    /\ \A m, n \in DOMAIN memReqs[b] : m < n /\ memReqs[b][m].op = "read" =>
          memReqs[b][n].op = "read" /\ memReqs[b][m].v # memReqs[b][n].v
RspInv(b) ==
    /\ \A n \in DOMAIN memRsps[b] :
          LET t == memRsps[b][n].tag
          IN  /\ afu = "mem_read" /\ t < mrCtr /\ BankOf(cmd.addr + t) = b
              /\ memRsps[b][n].data = want[cmd.addr + t]
              /\ \A m \in DOMAIN memReqs[b] : ~Reads(memReqs[b][m], t)
    /\ \A m, n \in DOMAIN memRsps[b] : memRsps[b][m].tag = memRsps[b][n].tag => m = n

AtBank(i) == \E n \in DOMAIN memReqs[BankOf(cmd.addr + i)] : Reads(memReqs[BankOf(cmd.addr + i)][n], i)
Back(i) == \E n \in DOMAIN memRsps[BankOf(cmd.addr + i)] : memRsps[BankOf(cmd.addr + i)][n].tag = i
Left == {i \in 0..(cmd.size - 1) : i >= mrCtr \/ AtBank(i) \/ Back(i)}

DownloadInv ==
    /\ mrCtr <= cmd.size
    /\ wrLeft = Cardinality(Left)
    /\ \A i \in 0..(cmd.size - 1) : i \in Left \/ staging[i] = want[cmd.addr + i]

DmaInv ==
    /\ DmaTypeOK
    /\ afu # "mem_write" => cciReads = {} /\ rdq = <<>>
    /\ afu = "mem_write" => WindowInv /\ UploadInv
    /\ \A l \in Lines : Outstanding(l) \/ Fresh(l)
    /\ \A b \in BankIds : QueueInv(b) /\ RspInv(b)
    /\ afu = "mem_read" => DownloadInv
    /\ DmaIntact

----------------------------------------------------------------------------
(* Queues.                                                                 *)
LEMMA AppendFacts ==
    ASSUME NEW S, NEW q \in Seq(S), NEW e \in S
    PROVE  /\ Append(q, e) \in Seq(S) /\ Len(Append(q, e)) = Len(q) + 1 /\ Len(q) \in Nat
           /\ DOMAIN q = 1..Len(q) /\ DOMAIN Append(q, e) = 1..(Len(q) + 1)
           /\ \A n \in 1..Len(q) : Append(q, e)[n] = q[n]
           /\ Append(q, e)[Len(q) + 1] = e
  OBVIOUS

LEMMA TailFacts ==
    ASSUME NEW S, NEW q \in Seq(S), q # <<>>
    PROVE  /\ Tail(q) \in Seq(S) /\ Len(Tail(q)) = Len(q) - 1 /\ Len(q) \in Nat /\ Len(q) >= 1
           /\ Head(q) = q[1] /\ Head(q) \in S /\ 1 \in DOMAIN q
           /\ DOMAIN q = 1..Len(q) /\ DOMAIN Tail(q) = 1..(Len(q) - 1)
           /\ \A n \in 1..(Len(q) - 1) : Tail(q)[n] = q[n + 1]
  OBVIOUS

LEMMA FreshAppend ==
    ASSUME NEW S, NEW q \in Seq(S), NEW e \in S, NEW old, NEW new, NEW l
    PROVE  /\ Writes(e, l) /\ e.v = new => FreshIn(Append(q, e), old, new, l)
           /\ ~Writes(e, l) /\ FreshIn(q, old, new, l) => FreshIn(Append(q, e), old, new, l)
  <1> DEFINE a == Append(q, e)
  <1>1. /\ Len(q) \in Nat /\ DOMAIN q = 1..Len(q) /\ DOMAIN a = 1..(Len(q) + 1)
        /\ \A n \in 1..Len(q) : a[n] = q[n]
        /\ a[Len(q) + 1] = e
    BY AppendFacts
  <1> HIDE DEF a
  <1>2. ASSUME Writes(e, l), e.v = new PROVE FreshIn(a, old, new, l)
    <2>1. Len(q) + 1 \in DOMAIN a /\ \A m \in DOMAIN a : ~(m > Len(q) + 1)
      BY <1>1
    <2> QED
      BY <1>1, <1>2, <2>1 DEF FreshIn
  <1>3. ASSUME ~Writes(e, l), FreshIn(q, old, new, l) PROVE FreshIn(a, old, new, l)
    <2>1. \A n \in DOMAIN a : n \in DOMAIN q \/ (n = Len(q) + 1 /\ ~Writes(a[n], l))
      BY <1>1, <1>3
    <2>2. \A n \in DOMAIN q : n \in DOMAIN a /\ a[n] = q[n]
      BY <1>1
    <2> QED
      BY <1>3, <2>1, <2>2 DEF FreshIn
  <1> QED
    BY <1>2, <1>3 DEF a

LEMMA FreshTail ==
    ASSUME NEW S, NEW q \in Seq(S), q # <<>>, NEW old, NEW new, NEW l, FreshIn(q, old, new, l)
    PROVE  FreshIn(Tail(q), IF Writes(Head(q), l) THEN Head(q).v ELSE old, new, l)
  <1> DEFINE t == Tail(q)
             now == IF Writes(Head(q), l) THEN Head(q).v ELSE old
  <1>1. /\ Len(q) \in Nat /\ Len(q) >= 1 /\ Head(q) = q[1] /\ 1 \in DOMAIN q
        /\ DOMAIN q = 1..Len(q) /\ DOMAIN t = 1..(Len(q) - 1)
        /\ \A n \in 1..(Len(q) - 1) : t[n] = q[n + 1]
    BY TailFacts
  <1> HIDE DEF t
  <1>2. \A n \in DOMAIN t : n \in Nat /\ n + 1 \in DOMAIN q /\ t[n] = q[n + 1]
    BY <1>1
  <1>3. CASE old = new /\ \A n \in DOMAIN q : ~Writes(q[n], l)
    <2>1. now = new /\ \A n \in DOMAIN t : ~Writes(t[n], l)
      BY <1>1, <1>2, <1>3
    <2> QED
      BY <2>1 DEF FreshIn, t
  <1>4. ASSUME NEW n \in DOMAIN q, Writes(q[n], l), q[n].v = new,
               \A m \in DOMAIN q : m > n => ~Writes(q[m], l)
        PROVE  FreshIn(t, now, new, l)
    <2>1. CASE n = 1
      <3>1. now = new
        BY <1>1, <1>4, <2>1
      <3>2. \A m \in DOMAIN t : ~Writes(t[m], l)
        BY <1>2, <1>4, <2>1
      <3> QED
        BY <3>1, <3>2 DEF FreshIn
    <2>2. CASE n # 1
      <3>1. n - 1 \in DOMAIN t /\ t[n - 1] = q[n]
        BY <1>1, <2>2
      <3>2. \A m \in DOMAIN t : m > n - 1 => ~Writes(t[m], l)
        BY <1>1, <1>2, <1>4
      <3> QED
        BY <1>4, <3>1, <3>2 DEF FreshIn
    <2> QED
      BY <2>1, <2>2
  <1> QED
    BY <1>3, <1>4 DEF FreshIn, t

----------------------------------------------------------------------------
LEMMA DmaNumbers ==
    ASSUME DmaAssumption, DmaTypeOK
    PROVE  /\ NumLines \in Nat /\ Banks \in Nat \ {0} /\ Window \in Nat \ {0}
           /\ cmd.addr \in Nat /\ cmd.size \in Nat /\ cmd.nr \in Nat
           /\ cmd.addr + cmd.size <= NumLines
           /\ \A i \in 0..(cmd.size - 1) : i \in Nat /\ i \in Lines /\ cmd.addr + i \in Lines
           /\ \A l \in Lines : l \in Nat /\ BankOf(l) \in BankIds
  <1>1. NumLines \in Nat /\ Banks \in Nat \ {0} /\ Window \in Nat \ {0}
    BY DEF DmaAssumption
  <1>2. /\ cmd.addr \in Nat /\ cmd.size \in Nat /\ cmd.nr \in Nat
        /\ cmd.addr + cmd.size <= NumLines
    BY DEF DmaTypeOK
  <1>3. \A l \in Lines : l \in Nat /\ l % Banks \in 0..(Banks - 1)
    BY <1>1 DEF Lines
  <1>4. \A i \in 0..(cmd.size - 1) : i \in Nat /\ i \in Lines /\ cmd.addr + i \in Lines
    BY <1>1, <1>2 DEF Lines
  <1> QED
    BY <1>1, <1>2, <1>3, <1>4 DEF BankOf, BankIds

(* Steps that leave the memory side and the command alone.                 *)
LEMMA MemorySame ==
    ASSUME UNCHANGED <<afu, cmd, mrCtr, want, memVars>>, \A b \in BankIds : QueueInv(b) /\ RspInv(b)
    PROVE  /\ \A b \in BankIds : QueueInv(b)' /\ RspInv(b)'
           /\ \A l \in Lines : Fresh(l)' <=> Fresh(l)
           /\ Left' = Left
  <1>1. \A b \in BankIds : QueueInv(b)' /\ RspInv(b)'
    BY DEF memVars, QueueInv, RspInv, RequestOK
  <1>2. \A l \in Lines : Fresh(l)' <=> Fresh(l)
    BY DEF memVars, Fresh
  <1>3. Left' = Left
    BY DEF memVars, Left, AtBank, Back
  <1> QED
    BY <1>1, <1>2, <1>3

LEMMA InitInv == ASSUME DmaAssumption, DmaInit PROVE DmaInv
  <1>1. NumLines \in Nat
    BY DEF DmaAssumption
  <1>2. \A b \in BankIds : memReqs[b] = <<>> /\ memRsps[b] = <<>>
    BY DEF DmaInit
  <1>3. DmaTypeOK
    <2>1. \A l \in Lines : <<0, l>> \in Values
      BY <1>1 DEF Values, Lines
    <2>2. staging \in [Lines -> Values] /\ want \in [Lines -> Values] /\ ram \in [Lines -> Values]
      BY <2>1 DEF DmaInit
    <2>3. IsFiniteSet(cciReads) /\ cciReads \in SUBSET HostReq
      BY FS_EmptySet DEF DmaInit
    <2>4. /\ rdq \in Seq([data : Values, addr : Lines])
          /\ memReqs \in [BankIds -> Seq(WriteReq \cup ReadReq)]
          /\ memRsps \in [BankIds -> Seq([tag : Nat, data : Values])]
      BY DEF DmaInit
    <2>5. /\ cmd \in [op : {"none", "mem_write", "mem_read"}, addr : Nat, size : Nat, nr : Nat]
          /\ cmd.addr + cmd.size <= NumLines
      BY <1>1 DEF DmaInit
    <2> QED
      BY <2>2, <2>3, <2>4, <2>5 DEF DmaInit, DmaTypeOK
  <1>4. \A l \in Lines : Fresh(l)
    <2>1. \A l \in Lines : BankOf(l) \in BankIds
      BY <1>3, DmaNumbers
    <2> QED
      BY <1>2, <2>1 DEF DmaInit, Fresh, FreshIn
  <1>5. \A b \in BankIds : QueueInv(b) /\ RspInv(b)
    BY <1>2 DEF QueueInv, RspInv
  <1>6. afu = "idle" /\ cmd.op = "none" /\ cciReads = {} /\ rdq = <<>>
    BY DEF DmaInit
  <1> QED
    BY <1>3, <1>4, <1>5, <1>6 DEF DmaInv, DmaIntact

----------------------------------------------------------------------------
(* The host's commands.  An idle accelerator has nothing under way but     *)
(* writes in the banks.                                                    *)
LEMMA IdleQueues ==
    ASSUME DmaAssumption, DmaInv, afu # "mem_read"
    PROVE  /\ \A b \in BankIds : \A n \in DOMAIN memReqs[b] : memReqs[b][n].op # "read"
           /\ \A b \in BankIds : memRsps[b] = <<>>
  <1>1. \A b \in BankIds : \A n \in DOMAIN memReqs[b] : memReqs[b][n].op # "read"
    BY DEF DmaInv, QueueInv, RequestOK
  <1>2. ASSUME NEW b \in BankIds PROVE memRsps[b] = <<>>
    <2>1. memRsps[b] \in Seq([tag : Nat, data : Values])
      BY DEF DmaInv, DmaTypeOK
    <2>2. \A n \in DOMAIN memRsps[b] : FALSE
      BY DEF DmaInv, RspInv
    <2>3. memRsps[b] # <<>> => 1 \in DOMAIN memRsps[b]
      BY <2>1, TailFacts
    <2> QED
      BY <2>2, <2>3
  <1> QED
    BY <1>1, <1>2

LEMMA UploadStep ==
    ASSUME DmaAssumption, DmaInv, NEW addr \in Lines, NEW size \in 0..NumLines, Upload(addr, size)
    PROVE  DmaInv'
  <1>1. NumLines \in Nat /\ Window \in Nat \ {0} /\ addr \in Nat /\ size \in Nat
    BY DEF DmaAssumption, Lines
  <1>2. /\ afu = "idle" /\ afu' = "mem_write" /\ addr + size <= NumLines /\ cmd.nr \in Nat
        /\ cmd' = [op |-> "mem_write", addr |-> addr, size |-> size, nr |-> cmd.nr + 1]
    BY DmaNumbers DEF Upload, Command, DmaInv
  <1>3. cmd'.op = "mem_write" /\ cmd'.addr = addr /\ cmd'.size = size /\ cmd'.nr = cmd.nr + 1
    BY <1>2
  <1>4. /\ cciReads' = {} /\ rdq' = <<>>
        /\ rdCtr' = 0 /\ rdWait' = FALSE /\ rspCtr' = 0 /\ addrBase' = addr /\ wrCtr' = 0
        /\ memReqs' = memReqs /\ memRsps' = memRsps /\ ram' = ram /\ mrCtr' = mrCtr
    BY <1>2 DEF Upload, DmaInv, downVars, memVars
  <1>5. /\ staging' = [i \in Lines |-> IF i < size THEN <<cmd.nr + 1, i>> ELSE staging[i]]
        /\ want' = [l \in Lines |-> IF l \in addr..(addr + size - 1) THEN <<cmd.nr + 1, l - addr>>
                                    ELSE want[l]]
    BY <1>3 DEF Upload
  <1>6. DmaTypeOK'
    <2>1. staging' \in [Lines -> Values] /\ want' \in [Lines -> Values]
      <3>1. \A i \in Lines : i < size => <<cmd.nr + 1, i>> \in Values
        BY <1>1, <1>2 DEF Lines, Values
      <3>2. \A l \in Lines : l \in addr..(addr + size - 1) => <<cmd.nr + 1, l - addr>> \in Values
        BY <1>1, <1>2 DEF Lines, Values
      <3>3. staging \in [Lines -> Values] /\ want \in [Lines -> Values]
        BY DEF DmaInv, DmaTypeOK
      <3> QED
        BY <1>5, <3>1, <3>2, <3>3
    <2>2. /\ cmd' \in [op : {"none", "mem_write", "mem_read"}, addr : Nat, size : Nat, nr : Nat]
          /\ cmd'.addr + cmd'.size <= NumLines
      BY <1>1, <1>2, <1>3
    <2>3. IsFiniteSet(cciReads') /\ cciReads' \in SUBSET HostReq
      BY <1>4, FS_EmptySet
    <2>4. rdq' \in Seq([data : Values, addr : Lines])
      BY <1>4
    <2>5. /\ ram \in [Lines -> Values] /\ mrCtr \in Nat
          /\ memReqs \in [BankIds -> Seq(WriteReq \cup ReadReq)]
          /\ memRsps \in [BankIds -> Seq([tag : Nat, data : Values])]
      BY DEF DmaInv, DmaTypeOK
    <2> QED
      BY <1>1, <1>2, <1>3, <1>4, <2>1, <2>2, <2>3, <2>4, <2>5 DEF DmaTypeOK
  <1>7. WindowInv'
    <2>1. Base' = 0 /\ Cardinality(cciReads') = 0
      BY <1>1, <1>3, <1>4, FS_EmptySet DEF Base
    <2>2. 0 % Window = 0
      BY <1>1
    <2> QED
      BY <1>1, <1>3, <1>4, <2>1, <2>2 DEF WindowInv
  <1>8. UploadInv'
    <2>1. \A i \in 0..(size - 1) : staging'[i] = <<cmd.nr + 1, i>> /\ want'[addr + i] = <<cmd.nr + 1, i>>
      <3> SUFFICES ASSUME NEW i \in 0..(size - 1)
                   PROVE  staging'[i] = <<cmd.nr + 1, i>> /\ want'[addr + i] = <<cmd.nr + 1, i>>
        OBVIOUS
      <3>1. i \in Lines /\ i < size /\ addr + i \in Lines /\ addr + i \in addr..(addr + size - 1) /\ addr + i - addr = i
        BY <1>1, <1>2 DEF Lines
      <3> QED
        BY <1>5, <3>1
    <2>2. Len(rdq') = 0 /\ Cardinality(cciReads') = 0 /\ DOMAIN rdq' = {}
      BY <1>4, FS_EmptySet
    <2> QED
      BY <1>3, <1>4, <2>1, <2>2 DEF UploadInv
  <1>9. ASSUME NEW l \in Lines PROVE Outstanding(l)' \/ Fresh(l)'
    <2>1. CASE l \in addr..(addr + size - 1)
      <3>1. l - addr \in 0..(size - 1) /\ l = addr + (l - addr) /\ l - addr >= 0
        BY <1>1, <2>1 DEF Lines
      <3> QED
        BY <1>2, <1>3, <1>4, <3>1 DEF Outstanding
    <2>2. CASE l \notin addr..(addr + size - 1)
      <3>1. want'[l] = want[l]
        BY <1>5, <2>2
      <3>2. Fresh(l)
        BY <1>2 DEF DmaInv, Outstanding
      <3> QED
        BY <1>4, <3>1, <3>2 DEF Fresh
    <2> QED
      BY <2>1, <2>2
  <1>10. ASSUME NEW b \in BankIds PROVE QueueInv(b)' /\ RspInv(b)'
    <2>1. /\ \A n \in DOMAIN memReqs[b] : memReqs[b][n].op # "read"
          /\ memRsps[b] = <<>>
      BY <1>2, IdleQueues
    <2>2. \A n \in DOMAIN memReqs[b] : BankOf(memReqs[b][n].addr) = b
      BY DEF DmaInv, QueueInv, RequestOK
    <2>3. QueueInv(b)'
      BY <1>4, <2>1, <2>2 DEF QueueInv, RequestOK
    <2>4. RspInv(b)'
      BY <1>4, <2>1 DEF RspInv
    <2> QED
      BY <2>3, <2>4
  <1> QED
    BY <1>2, <1>4, <1>6, <1>7, <1>8, <1>9, <1>10 DEF DmaInv, DmaIntact

LEMMA DownloadStep ==
    ASSUME DmaAssumption, DmaInv, NEW addr \in Lines, NEW size \in 1..NumLines, Download(addr, size)
    PROVE  DmaInv'
  <1>1. NumLines \in Nat /\ addr \in Nat /\ size \in Nat
    BY DEF DmaAssumption, Lines
  <1>2. /\ afu = "idle" /\ afu' = "mem_read" /\ addr + size <= NumLines /\ cmd.nr \in Nat
        /\ cmd' = [op |-> "mem_read", addr |-> addr, size |-> size, nr |-> cmd.nr + 1]
    BY DmaNumbers DEF Download, Command, DmaInv
  <1>3. cmd'.op = "mem_read" /\ cmd'.addr = addr /\ cmd'.size = size /\ cmd'.nr = cmd.nr + 1
    BY <1>2
  <1>4. /\ mrCtr' = 0 /\ wrLeft' = size
        /\ UNCHANGED <<staging, want, upVars, cciWrites, memVars>>
    BY DEF Download
  <1>5. /\ UNCHANGED <<staging, want, ram, rdCtr, rdWait, rspCtr, addrBase, cciReads, rdq, wrCtr>>
        /\ memReqs' = memReqs /\ memRsps' = memRsps
    BY <1>4 DEF upVars, memVars
  <1>6. DmaTypeOK'
    <2>1. /\ cmd' \in [op : {"none", "mem_write", "mem_read"}, addr : Nat, size : Nat, nr : Nat]
          /\ cmd'.addr + cmd'.size <= NumLines
      BY <1>1, <1>2, <1>3
    <2> QED
      BY <1>2, <1>3, <1>4, <1>5, <2>1 DEF DmaInv, DmaTypeOK
  <1>7. ASSUME NEW l \in Lines PROVE Fresh(l)'
    <2>1. Fresh(l)
      BY <1>2 DEF DmaInv, Outstanding
    <2> QED
      BY <1>5, <2>1 DEF Fresh
  <1>8. ASSUME NEW b \in BankIds PROVE QueueInv(b)' /\ RspInv(b)'
    <2>1. /\ \A n \in DOMAIN memReqs[b] : memReqs[b][n].op # "read"
          /\ memRsps[b] = <<>>
      BY <1>2, IdleQueues
    <2>2. \A n \in DOMAIN memReqs[b] : BankOf(memReqs[b][n].addr) = b
      BY DEF DmaInv, QueueInv, RequestOK
    <2>3. QueueInv(b)'
      BY <1>5, <2>1, <2>2 DEF QueueInv, RequestOK
    <2>4. RspInv(b)'
      BY <1>5, <2>1 DEF RspInv
    <2> QED
      BY <2>3, <2>4
  <1>9. DownloadInv'
    <2>1. Left' = 0..(size - 1)
      BY <1>1, <1>3, <1>4 DEF Left
    <2>2. Cardinality(0..(size - 1)) = size
      BY <1>1, FS_Interval
    <2> QED
      BY <1>1, <1>3, <1>4, <2>1, <2>2 DEF DownloadInv
  <1> QED
    BY <1>2, <1>5, <1>6, <1>7, <1>8, <1>9 DEF DmaInv, DmaIntact

----------------------------------------------------------------------------
(* The engines of an upload.                                               *)
LEMMA HostReadStep ==
    ASSUME DmaAssumption, DmaInv, HostRead
    PROVE  DmaInv'
  <1> DEFINE r == [tag |-> rdCtr % Window, data |-> staging[rdCtr], nr |-> rdCtr]
  <1>1. /\ afu = "mem_write" /\ rdCtr # cmd.size /\ ~rdWait
        /\ cciReads' = cciReads \cup {r} /\ rdCtr' = rdCtr + 1 /\ rdWait' = LastOfWindow(rdCtr)
        /\ UNCHANGED <<afu, cmd, staging, want, rspCtr, addrBase, rdq, wrCtr, downVars, memVars>>
    BY DEF HostRead
  <1>2. WindowInv /\ UploadInv /\ DmaTypeOK
    BY <1>1 DEF DmaInv
  <1>3. /\ Window \in Nat \ {0} /\ cmd.size \in Nat /\ cmd.nr \in Nat /\ rdCtr \in Nat
        /\ Base \in Nat /\ Base % Window = 0 /\ Base <= rdCtr /\ rdCtr < Base + Window
        /\ rdCtr < cmd.size /\ rspCtr \in Nat
    <2>1. Window \in Nat \ {0} /\ cmd.size \in Nat /\ cmd.nr \in Nat
      BY <1>2, DmaNumbers
    <2>2. rdCtr \in Nat /\ rspCtr \in Nat
      BY <1>2 DEF DmaTypeOK
    <2>3. /\ Base \in Nat /\ Base % Window = 0 /\ Base <= rdCtr /\ rdCtr <= Base + Window
          /\ rdCtr <= cmd.size /\ rdCtr # Base + Window
      BY <1>1, <1>2 DEF WindowInv
    <2> QED
      BY <1>1, <2>1, <2>2, <2>3
  <1>4. rdCtr % Window = rdCtr - Base
    <2>1. PICK k \in Nat : Base = k * Window
      <3>1. Base \div Window \in Nat /\ Base = (Base \div Window) * Window + (Base % Window)
        BY <1>3
      <3>2. (Base \div Window) * Window \in Nat
        BY <1>3, <3>1
      <3> QED
        BY <1>3, <3>1, <3>2
    <2>2. rdCtr - Base \in 0..(Window - 1)
      BY <1>3
    <2>3. (k * Window + (rdCtr - Base)) % Window = rdCtr - Base
      BY <1>3, <2>2
    <2>4. k * Window + (rdCtr - Base) = rdCtr
      BY <1>3, <2>1
    <2> QED
      BY <2>3, <2>4
  <1>5. staging[rdCtr] = <<cmd.nr, rdCtr>> /\ rdCtr \in 0..(cmd.size - 1) /\ staging[rdCtr] \in Values
    <2>1. rdCtr \in 0..(cmd.size - 1)
      BY <1>3
    <2>2. rdCtr \in Lines
      BY <1>2, <2>1, DmaNumbers
    <2>3. staging \in [Lines -> Values]
      BY <1>2 DEF DmaTypeOK
    <2>4. staging[rdCtr] = <<cmd.nr, rdCtr>>
      BY <1>2, <2>1 DEF UploadInv
    <2> QED
      BY <2>1, <2>2, <2>3, <2>4
  <1>6. r.tag = rdCtr - Base /\ r.data = <<cmd.nr, rdCtr>> /\ r.nr = rdCtr /\ r \in HostReq
    BY <1>3, <1>4, <1>5 DEF HostReq
  <1> HIDE DEF r
  <1>7. r \notin cciReads
    BY <1>2, <1>3, <1>6 DEF WindowInv
  <1>8. /\ IsFiniteSet(cciReads') /\ Cardinality(cciReads') = Cardinality(cciReads) + 1
        /\ Cardinality(cciReads) \in Nat
    BY <1>1, <1>2, <1>7, FS_AddElement, FS_CardinalityType DEF DmaTypeOK
  <1>9. Base' = Base
    BY <1>1 DEF Base
  <1>10. WindowInv'
    <2>1. LastOfWindow(rdCtr) <=> rdCtr + 1 = Base + Window
      BY <1>3, <1>4 DEF LastOfWindow
    <2>2. \A x \in cciReads' : /\ Base <= x.nr /\ x.nr < rdCtr + 1 /\ x.tag = x.nr - Base
                               /\ x.data = <<cmd.nr, x.nr>>
      BY <1>1, <1>2, <1>3, <1>6 DEF WindowInv, DmaTypeOK, HostReq
    <2>3. rspCtr + Cardinality(cciReads') = rdCtr + 1 - Base
      BY SMTT(30), <1>2, <1>3, <1>8 DEF WindowInv
    <2> QED
      BY <1>1, <1>2, <1>3, <1>9, <2>1, <2>2, <2>3 DEF WindowInv
  <1>11. UploadInv'
    <2>1. wrCtr + Len(rdq) + Cardinality(cciReads') = rdCtr + 1
      BY <1>2, <1>3, <1>8 DEF UploadInv, DmaTypeOK
    <2> QED
      BY <1>1, <1>2, <2>1 DEF UploadInv
  <1>12. DmaTypeOK'
    <2>1. rdCtr' \in Nat /\ rdWait' \in BOOLEAN
      BY <1>1, <1>3 DEF LastOfWindow
    <2>2. cciReads' \in SUBSET HostReq
      BY <1>1, <1>2, <1>6 DEF DmaTypeOK
    <2>3. /\ UNCHANGED <<afu, cmd, staging, want, ram, rspCtr, addrBase, wrCtr, mrCtr, rdq>>
          /\ UNCHANGED <<memReqs, memRsps>>
      BY <1>1 DEF downVars, memVars
    <2> QED
      BY <1>2, <1>8, <2>1, <2>2, <2>3 DEF DmaTypeOK
  <1>13. UNCHANGED <<afu, cmd, mrCtr, want, memVars>>
    BY <1>1 DEF downVars
  <1>14. ASSUME NEW l \in Lines PROVE Outstanding(l)' \/ Fresh(l)'
    <2>1. CASE Fresh(l)
      BY <1>13, <2>1, MemorySame DEF DmaInv
    <2>2. CASE Outstanding(l)
      <3>1. PICK i \in 0..(cmd.size - 1) : l = cmd.addr + i /\ (i >= rdCtr \/ Asked(i) \/ Queued(l))
        BY <2>2 DEF Outstanding
      <3>2. Asked(i) => Asked(i)'
        BY <1>1 DEF Asked
      <3>3. Queued(l) => Queued(l)'
        BY <1>1 DEF Queued
      <3>4. i = rdCtr => Asked(i)'
        BY <1>1, <1>6 DEF Asked
      <3>5. i >= rdCtr => i = rdCtr \/ i >= rdCtr'
        BY <1>1, <1>3
      <3> QED
        BY <1>1, <3>1, <3>2, <3>3, <3>4, <3>5 DEF Outstanding
    <2> QED
      BY <2>1, <2>2 DEF DmaInv
  <1>15. \A b \in BankIds : QueueInv(b)' /\ RspInv(b)'
    BY <1>13, MemorySame DEF DmaInv
  <1> QED
    BY <1>1, <1>10, <1>11, <1>12, <1>14, <1>15 DEF DmaInv, DmaIntact

LEMMA HostReadRspStep ==
    ASSUME DmaAssumption, DmaInv, NEW r \in cciReads, HostReadRsp(r)
    PROVE  DmaInv'
  <1> DEFINE e == [data |-> r.data, addr |-> addrBase + r.tag]
  <1>1. /\ cciReads' = cciReads \ {r} /\ rdq' = Append(rdq, e)
        /\ rspCtr' = (rspCtr + 1) % Window
        /\ IF WindowComplete(rspCtr)
           THEN addrBase' = addrBase + Window /\ rdWait' = FALSE
           ELSE UNCHANGED <<addrBase, rdWait>>
        /\ UNCHANGED <<afu, cmd, staging, want, rdCtr, wrCtr, downVars, memVars>>
    BY DEF HostReadRsp
  <1>2. afu = "mem_write" /\ WindowInv /\ UploadInv /\ DmaTypeOK
    BY DEF DmaInv
  <1>3. /\ Window \in Nat \ {0} /\ cmd.addr \in Nat /\ cmd.size \in Nat /\ cmd.nr \in Nat /\ rdCtr \in Nat
        /\ Base \in Nat /\ Base % Window = 0 /\ Base <= rdCtr /\ rdCtr <= Base + Window
        /\ rdCtr <= cmd.size /\ rspCtr \in Nat /\ rspCtr < Window /\ addrBase \in Nat
        /\ addrBase = cmd.addr + Base /\ wrCtr \in Nat
    <2>1. Window \in Nat \ {0} /\ cmd.addr \in Nat /\ cmd.size \in Nat /\ cmd.nr \in Nat
      BY <1>2, DmaNumbers
    <2>2. rdCtr \in Nat /\ rspCtr \in Nat /\ addrBase \in Nat /\ wrCtr \in Nat
      BY <1>2 DEF DmaTypeOK
    <2>3. /\ Base \in Nat /\ Base % Window = 0 /\ Base <= rdCtr /\ rdCtr <= Base + Window
          /\ rdCtr <= cmd.size /\ rspCtr < Window
      BY <1>2 DEF WindowInv
    <2>4. addrBase = cmd.addr + Base
      BY <2>1, <2>2 DEF Base
    <2> QED
      BY <2>1, <2>2, <2>3, <2>4
  <1>4. /\ r.nr \in Nat /\ Base <= r.nr /\ r.nr < rdCtr /\ r.tag = r.nr - Base
        /\ r.data = <<cmd.nr, r.nr>>
    BY <1>2 DEF WindowInv, DmaTypeOK, HostReq
  <1>5. /\ e.addr = cmd.addr + r.nr /\ e.addr \in Lines /\ r.nr \in 0..(cmd.size - 1)
        /\ e.data = want[e.addr] /\ e \in [data : Values, addr : Lines]
    <2>1. r.nr \in 0..(cmd.size - 1) /\ addrBase + r.tag = cmd.addr + r.nr
      BY <1>3, <1>4
    <2>2. cmd.addr + r.nr \in Lines
      BY <1>2, <2>1, DmaNumbers
    <2>3. want[cmd.addr + r.nr] = <<cmd.nr, r.nr>> /\ want[cmd.addr + r.nr] \in Values
      BY <1>2, <2>1, <2>2 DEF UploadInv, DmaTypeOK
    <2> QED
      BY <1>4, <2>1, <2>2, <2>3
  <1> HIDE DEF e
  <1>6. /\ rdq' \in Seq([data : Values, addr : Lines]) /\ Len(rdq') = Len(rdq) + 1 /\ Len(rdq) \in Nat
        /\ DOMAIN rdq = 1..Len(rdq) /\ DOMAIN rdq' = 1..(Len(rdq) + 1)
        /\ \A n \in 1..Len(rdq) : rdq'[n] = rdq[n]
        /\ rdq'[Len(rdq) + 1] = e
    BY <1>1, <1>2, <1>5, AppendFacts DEF DmaTypeOK
  <1>7. /\ IsFiniteSet(cciReads') /\ Cardinality(cciReads') = Cardinality(cciReads) - 1
        /\ Cardinality(cciReads) \in Nat /\ Cardinality(cciReads') \in Nat
    BY <1>1, <1>2, FS_RemoveElement, FS_CardinalityType DEF DmaTypeOK
  <1>8. rspCtr + Cardinality(cciReads) = rdCtr - Base
    BY <1>2 DEF WindowInv
  <1>9. WindowInv' /\ addrBase' \in Nat /\ rspCtr' \in Nat /\ rdWait' \in BOOLEAN
    <2>0. \A x \in cciReads' : /\ x.nr \in Nat /\ Base <= x.nr /\ x.nr < rdCtr /\ x.tag = x.nr - Base
                               /\ x.data = <<cmd.nr, x.nr>>
      BY <1>1, <1>2 DEF WindowInv, DmaTypeOK, HostReq
    <2>1. CASE rspCtr = Window - 1
      <3>1. addrBase' = addrBase + Window /\ rdWait' = FALSE
        BY <1>1, <2>1 DEF WindowComplete
      <3>2. rdCtr = Base + Window /\ Cardinality(cciReads') = 0
        BY <1>3, <1>7, <1>8, <2>1
      <3>3. cciReads' = {}
        BY <1>7, <3>2, FS_EmptySet
      <3>4. Base' = Base + Window
        BY <1>1, <1>3, <3>1 DEF Base
      <3>5. (Base + Window) % Window = 0
        <4>1. Base \div Window \in Nat /\ Base = (Base \div Window) * Window + (Base % Window)
          BY <1>3
        <4>2. (Base \div Window) * Window \in Nat
          BY <1>3, <4>1
        <4>3. Base + Window = (Base \div Window + 1) * Window
          BY <1>3, <4>1, <4>2
        <4>4. Base \div Window + 1 \in Nat
          BY <4>1
        <4>5. \A k \in Nat : (k * Window) % Window = 0
          BY <1>3
        <4> QED
          BY <4>3, <4>4, <4>5
      <3>6. rspCtr' = 0
        <4>1. rspCtr + 1 = Window /\ Window % Window = 0
          BY <1>3, <2>1
        <4> QED
          BY <1>1, <4>1
      <3>7. Base + Window \in Nat /\ rdCtr <= Base + Window + Window /\ Base + Window <= rdCtr
            /\ rdCtr # Base + Window + Window
        BY <1>3, <3>2
      <3>8. 0 + Cardinality(cciReads') = rdCtr - (Base + Window) /\ 0 < Window
        BY <1>3, <3>2
      <3>9. WindowInv'
        <4>1. cmd' = cmd /\ rdCtr' = rdCtr
          BY <1>1
        <4>2. Base' \in Nat /\ Base' % Window = 0 /\ Base' <= rdCtr' /\ rdCtr' <= Base' + Window
          BY <3>4, <3>5, <3>7, <4>1
        <4>3. (rdWait <=> rdCtr = Base + Window)'
          BY <3>1, <3>4, <3>7, <4>1
        <4>4. (rspCtr + Cardinality(cciReads) = rdCtr - Base)'
          BY <3>4, <3>6, <3>8, <4>1
        <4>5. rdCtr' <= cmd'.size /\ rspCtr' < Window
          BY <1>3, <3>6, <3>8, <4>1
        <4> QED
          BY <3>3, <4>2, <4>3, <4>4, <4>5 DEF WindowInv
      <3>10. addrBase' \in Nat /\ rspCtr' \in Nat
        BY <1>3, <3>1, <3>6
      <3>11. rdWait' \in BOOLEAN
        BY <3>1
      <3> QED
        BY <3>9, <3>10, <3>11
    <2>2. CASE rspCtr # Window - 1
      <3>1. addrBase' = addrBase /\ rdWait' = rdWait /\ Base' = Base
        BY <1>1, <2>2 DEF WindowComplete, Base
      <3>2. rspCtr' = rspCtr + 1 /\ rspCtr + 1 < Window
        <4>1. rspCtr + 1 \in Nat /\ rspCtr + 1 < Window
          BY <1>3, <2>2
        <4>2. (rspCtr + 1) % Window = rspCtr + 1
          BY <1>3, <4>1
        <4> QED
          BY <1>1, <4>1, <4>2
      <3>3. rspCtr + 1 + Cardinality(cciReads') = rdCtr - Base
        BY <1>3, <1>7, <1>8
      <3>4. rdWait <=> rdCtr = Base + Window
        BY <1>2 DEF WindowInv
      <3>5. WindowInv'
        <4>1. cmd' = cmd /\ rdCtr' = rdCtr
          BY <1>1
        <4>2. \A x \in cciReads' : /\ Base' <= x.nr /\ x.nr < rdCtr' /\ x.tag = x.nr - Base'
                                   /\ x.data = <<cmd'.nr, x.nr>>
          BY <2>0, <3>1, <4>1
        <4>3. rspCtr' + Cardinality(cciReads') = rdCtr' - Base' /\ rspCtr' < Window
          BY <3>1, <3>2, <3>3, <4>1
        <4> QED
          BY <1>3, <3>1, <3>4, <4>1, <4>2, <4>3 DEF WindowInv
      <3>6. addrBase' \in Nat /\ rspCtr' \in Nat
        BY <1>3, <3>1, <3>2
      <3>7. rdWait' \in BOOLEAN
        BY <1>2, <3>1 DEF DmaTypeOK
      <3> QED
        BY <3>5, <3>6, <3>7
    <2> QED
      BY <2>1, <2>2
  <1>10. UploadInv'
    <2>1. ASSUME NEW n \in DOMAIN rdq'
          PROVE  /\ cmd.addr <= rdq'[n].addr /\ rdq'[n].addr < cmd.addr + cmd.size
                 /\ rdq'[n].data = want[rdq'[n].addr]
      <3>1. CASE n \in DOMAIN rdq
        BY <1>2, <1>6, <3>1 DEF UploadInv
      <3>2. CASE n \notin DOMAIN rdq
        <4>1. n = Len(rdq) + 1
          BY <1>6, <3>2
        <4>2. rdq'[n] = e
          BY <1>6, <4>1
        <4>3. cmd.addr <= e.addr /\ e.addr < cmd.addr + cmd.size
          BY <1>3, <1>5
        <4> QED
          BY <1>5, <4>2, <4>3
      <3> QED
        BY <3>1, <3>2
    <2>2. wrCtr + Len(rdq') + Cardinality(cciReads') = rdCtr
      BY <1>2, <1>3, <1>6, <1>7 DEF UploadInv
    <2> QED
      BY <1>1, <1>2, <2>1, <2>2 DEF UploadInv
  <1>11. DmaTypeOK'
    BY <1>1, <1>2, <1>6, <1>7, <1>9 DEF DmaTypeOK, downVars, memVars
  <1>12. UNCHANGED <<afu, cmd, mrCtr, want, memVars>>
    BY <1>1 DEF downVars
  <1>13. ASSUME NEW l \in Lines PROVE Outstanding(l)' \/ Fresh(l)'
    <2>1. CASE Fresh(l)
      BY <1>12, <2>1, MemorySame DEF DmaInv
    <2>2. CASE Outstanding(l)
      <3>1. PICK i \in 0..(cmd.size - 1) : l = cmd.addr + i /\ (i >= rdCtr \/ Asked(i) \/ Queued(l))
        BY <2>2 DEF Outstanding
      <3>2. Queued(l) => Queued(l)'
        BY <1>6 DEF Queued
      <3>3. Asked(i) => Asked(i)' \/ Queued(l)'
        <4>1. ASSUME NEW x \in cciReads, x.nr = i, x = r PROVE Queued(l)'
          <5>1. Len(rdq) + 1 \in DOMAIN rdq' /\ rdq'[Len(rdq) + 1].addr = l
            BY <1>5, <1>6, <3>1, <4>1
          <5> QED
            BY <5>1 DEF Queued
        <4> QED
          BY <1>1, <4>1 DEF Asked
      <3> QED
        BY <1>1, <1>2, <3>1, <3>2, <3>3 DEF Outstanding
    <2> QED
      BY <2>1, <2>2 DEF DmaInv
  <1>14. \A b \in BankIds : QueueInv(b)' /\ RspInv(b)'
    BY <1>12, MemorySame DEF DmaInv
  <1> QED
    BY <1>1, <1>2, <1>9, <1>10, <1>11, <1>13, <1>14 DEF DmaInv, DmaIntact

LEMMA MemWriteStep ==
    ASSUME DmaAssumption, DmaInv, MemWrite
    PROVE  DmaInv'
  <1> DEFINE q == Head(rdq)
             c == BankOf(q.addr)
             e == [op |-> "write", addr |-> q.addr, v |-> q.data]
  <1>1. /\ afu = "mem_write" /\ rdq # <<>> /\ rdq' = Tail(rdq) /\ wrCtr' = wrCtr + 1
        /\ memReqs' = [memReqs EXCEPT ![c] = Append(@, e)]
        /\ UNCHANGED <<afu, cmd, staging, want, rdCtr, rdWait, rspCtr, addrBase, cciReads, ram, memRsps>>
        /\ mrCtr' = mrCtr
    BY DEF MemWrite, downVars
  <1>2. WindowInv /\ UploadInv /\ DmaTypeOK
    BY <1>1 DEF DmaInv
  <1>3. /\ rdq' \in Seq([data : Values, addr : Lines]) /\ Len(rdq') = Len(rdq) - 1 /\ Len(rdq) \in Nat
        /\ Len(rdq) >= 1 /\ q = rdq[1] /\ q \in [data : Values, addr : Lines] /\ 1 \in DOMAIN rdq
        /\ DOMAIN rdq = 1..Len(rdq) /\ DOMAIN rdq' = 1..(Len(rdq) - 1)
        /\ \A n \in 1..(Len(rdq) - 1) : rdq'[n] = rdq[n + 1]
    BY <1>1, <1>2, TailFacts DEF DmaTypeOK
  <1>4. q.addr \in Lines /\ q.data \in Values /\ q.data = want[q.addr] /\ c \in BankIds
    <2>1. q.addr \in Lines /\ q.data \in Values
      BY <1>3
    <2>2. q.data = want[q.addr]
      BY <1>2, <1>3 DEF UploadInv
    <2> QED
      BY <1>2, <2>1, <2>2, DmaNumbers
  <1>5. e.op = "write" /\ e.addr = q.addr /\ e.v = want[q.addr] /\ e \in WriteReq \cup ReadReq
    BY <1>4 DEF WriteReq
  <1> HIDE DEF e
  <1>6. /\ memReqs \in [BankIds -> Seq(WriteReq \cup ReadReq)]
        /\ \A b \in BankIds : memReqs[b] \in Seq(WriteReq \cup ReadReq)
    BY <1>2 DEF DmaTypeOK
  <1>7. /\ memReqs'[c] = Append(memReqs[c], e)
        /\ \A b \in BankIds : b # c => memReqs'[b] = memReqs[b]
    BY <1>1, <1>4, <1>6
  <1>8. DmaTypeOK'
    <2>1. Append(memReqs[c], e) \in Seq(WriteReq \cup ReadReq)
      BY <1>4, <1>5, <1>6, AppendFacts
    <2>2. memReqs' \in [BankIds -> Seq(WriteReq \cup ReadReq)]
      BY <1>1, <1>6, <2>1
    <2>3. wrCtr' \in Nat
      BY <1>1, <1>2 DEF DmaTypeOK
    <2> HIDE DEF c, q
    <2> QED
      BY <1>1, <1>2, <1>3, <2>2, <2>3 DEF DmaTypeOK
  <1>9. WindowInv'
    BY <1>1, <1>2 DEF WindowInv, Base
  <1>10. UploadInv'
    <2>1. \A n \in DOMAIN rdq' : n + 1 \in DOMAIN rdq /\ rdq'[n] = rdq[n + 1]
      BY <1>3
    <2>2. \A n \in DOMAIN rdq' : /\ cmd.addr <= rdq'[n].addr /\ rdq'[n].addr < cmd.addr + cmd.size
                                 /\ rdq'[n].data = want[rdq'[n].addr]
      BY <1>2, <2>1 DEF UploadInv
    <2>3. wrCtr' + Len(rdq') + Cardinality(cciReads) = rdCtr
      <3>1. wrCtr \in Nat /\ Cardinality(cciReads) \in Nat
        BY <1>2, FS_CardinalityType DEF DmaTypeOK
      <3>2. wrCtr + Len(rdq) + Cardinality(cciReads) = rdCtr
        BY <1>2 DEF UploadInv
      <3> QED
        BY <1>1, <1>3, <3>1, <3>2
    <2>4. \A i \in 0..(cmd.size - 1) : staging[i] = <<cmd.nr, i>> /\ want[cmd.addr + i] = <<cmd.nr, i>>
      BY <1>2 DEF UploadInv
    <2> HIDE DEF q, c
    <2> QED
      BY <1>1, <2>2, <2>3, <2>4 DEF UploadInv
  <1>11. ASSUME NEW l \in Lines PROVE Outstanding(l)' \/ Fresh(l)'
    <2>1. BankOf(l) \in BankIds
      BY <1>2, DmaNumbers
    <2>2. CASE l = q.addr
      <3>1. Writes(e, l) /\ e.v = want[l] /\ BankOf(l) = c
        BY <1>5, <2>2 DEF Writes
      <3>2. FreshIn(Append(memReqs[c], e), ram[l], want[l], l)
        BY <1>4, <1>5, <1>6, <3>1, FreshAppend
      <3> QED
        BY <1>1, <1>7, <3>1, <3>2 DEF Fresh
    <2>3. CASE l # q.addr /\ Fresh(l)
      <3>1. ~Writes(e, l)
        BY <1>5, <2>3 DEF Writes
      <3>2. FreshIn(memReqs[BankOf(l)], ram[l], want[l], l)
        BY <2>3 DEF Fresh
      <3>3. FreshIn(Append(memReqs[BankOf(l)], e), ram[l], want[l], l)
        BY <1>5, <1>6, <2>1, <3>1, <3>2, FreshAppend
      <3> QED
        BY <1>1, <1>7, <2>1, <3>2, <3>3 DEF Fresh
    <2>4. CASE l # q.addr /\ Outstanding(l)
      <3>1. PICK i \in 0..(cmd.size - 1) : l = cmd.addr + i /\ (i >= rdCtr \/ Asked(i) \/ Queued(l))
        BY <2>4 DEF Outstanding
      <3>2. Asked(i) => Asked(i)'
        BY <1>1 DEF Asked
      <3>3. Queued(l) => Queued(l)'
        <4>1. ASSUME NEW n \in DOMAIN rdq, rdq[n].addr = l PROVE Queued(l)'
          <5>1. n # 1
            BY <1>3, <2>4, <4>1
          <5>2. n - 1 \in DOMAIN rdq' /\ rdq'[n - 1] = rdq[n]
            BY <1>3, <5>1
          <5> QED
            BY <4>1, <5>2 DEF Queued
        <4> QED
          BY <4>1 DEF Queued
      <3> HIDE DEF q, c
      <3> QED
        BY <1>1, <3>1, <3>2, <3>3 DEF Outstanding
    <2> QED
      BY <2>2, <2>3, <2>4 DEF DmaInv
  <1>12. ASSUME NEW b \in BankIds PROVE QueueInv(b)' /\ RspInv(b)'
    <2>1. /\ \A n \in DOMAIN memReqs[b] : memReqs[b][n].op # "read" /\ BankOf(memReqs[b][n].addr) = b
          /\ memRsps[b] = <<>>
      BY <1>1, IdleQueues DEF DmaInv, QueueInv, RequestOK
    <2>2. \A n \in DOMAIN memReqs'[b] : memReqs'[b][n].op # "read" /\ BankOf(memReqs'[b][n].addr) = b
      <3>1. CASE b = c
        <4>1. /\ Len(memReqs[b]) \in Nat /\ DOMAIN memReqs[b] = 1..Len(memReqs[b])
              /\ DOMAIN memReqs'[b] = 1..(Len(memReqs[b]) + 1)
              /\ \A n \in 1..Len(memReqs[b]) : memReqs'[b][n] = memReqs[b][n]
              /\ memReqs'[b][Len(memReqs[b]) + 1] = e
          BY SMTT(30), <1>5, <1>6, <1>7, <3>1, AppendFacts
        <4>2. \A n \in DOMAIN memReqs'[b] : n \in DOMAIN memReqs[b] \/ n = Len(memReqs[b]) + 1
          BY <4>1
        <4> QED
          BY <1>5, <2>1, <3>1, <4>1, <4>2
      <3>2. CASE b # c
        BY <1>7, <2>1, <3>2
      <3> QED
        BY <3>1, <3>2
    <2>3. QueueInv(b)'
      BY <2>2 DEF QueueInv, RequestOK
    <2>4. RspInv(b)'
      BY <1>1, <2>1 DEF RspInv
    <2> QED
      BY <2>3, <2>4
  <1> HIDE DEF q, c
  <1> QED
    BY <1>1, <1>8, <1>9, <1>10, <1>11, <1>12 DEF DmaInv, DmaIntact

LEMMA UploadDoneStep ==
    ASSUME DmaAssumption, DmaInv, UploadDone
    PROVE  DmaInv'
  <1>1. /\ afu = "mem_write" /\ wrCtr = cmd.size /\ afu' = "idle" /\ cmd.op = "mem_write"
        /\ UNCHANGED <<cmd, staging, want, rdCtr, rdWait, rspCtr, addrBase, cciReads, rdq, wrCtr, mrCtr>>
        /\ UNCHANGED <<memReqs, ram, memRsps>>
    BY DEF UploadDone, DmaInv, DmaTypeOK, upVars, downVars, memVars
  <1>2. WindowInv /\ UploadInv /\ DmaTypeOK
    BY <1>1 DEF DmaInv
  <1>3. /\ wrCtr \in Nat /\ Len(rdq) \in Nat /\ Cardinality(cciReads) \in Nat /\ rdCtr \in Nat
        /\ IsFiniteSet(cciReads) /\ cmd.size \in Nat
    <2>1. wrCtr \in Nat /\ rdCtr \in Nat /\ IsFiniteSet(cciReads) /\ rdq \in Seq([data : Values, addr : Lines])
      BY <1>2 DEF DmaTypeOK
    <2>2. cmd.size \in Nat
      BY <1>2, DmaNumbers
    <2> QED
      BY <2>1, <2>2, FS_CardinalityType
  <1>4. rdCtr = cmd.size /\ Len(rdq) = 0 /\ Cardinality(cciReads) = 0
    <2>1. wrCtr + Len(rdq) + Cardinality(cciReads) = rdCtr
      BY <1>2 DEF UploadInv
    <2>2. rdCtr <= cmd.size
      BY <1>2 DEF WindowInv
    <2> QED
      BY <1>1, <1>3, <2>1, <2>2
  <1>5. cciReads = {} /\ rdq = <<>>
    BY <1>2, <1>3, <1>4, FS_EmptySet DEF DmaTypeOK
  <1>6. \A l \in Lines : ~Outstanding(l)
    BY <1>3, <1>4, <1>5 DEF Outstanding, Asked, Queued
  <1>7. \A l \in Lines : Fresh(l)'
    BY <1>1, <1>6 DEF DmaInv, Fresh
  <1>8. ASSUME NEW b \in BankIds PROVE QueueInv(b)' /\ RspInv(b)'
    <2>1. /\ \A n \in DOMAIN memReqs[b] : memReqs[b][n].op # "read" /\ BankOf(memReqs[b][n].addr) = b
          /\ memRsps[b] = <<>>
      BY <1>1, IdleQueues DEF DmaInv, QueueInv, RequestOK
    <2>2. QueueInv(b)'
      BY <1>1, <2>1 DEF QueueInv, RequestOK
    <2>3. RspInv(b)'
      BY <1>1, <2>1 DEF RspInv
    <2> QED
      BY <2>2, <2>3
  <1>9. DmaTypeOK'
    BY <1>1, <1>2 DEF DmaTypeOK
  <1> QED
    BY <1>1, <1>5, <1>7, <1>8, <1>9 DEF DmaInv, DmaIntact

----------------------------------------------------------------------------
(* The banks.                                                              *)
LEMMA BankStepStep ==
    ASSUME DmaAssumption, DmaInv, NEW c \in BankIds, BankStep(c)
    PROVE  DmaInv'
  <1> DEFINE q == Head(memReqs[c])
             rsp == [tag |-> q.v, data |-> ram[q.addr]]
  <1>1. /\ memReqs[c] # <<>> /\ memReqs' = [memReqs EXCEPT ![c] = Tail(@)]
        /\ IF q.op = "write" THEN ram' = [ram EXCEPT ![q.addr] = q.v] /\ UNCHANGED memRsps
           ELSE memRsps' = [memRsps EXCEPT ![c] = Append(@, rsp)] /\ UNCHANGED ram
        /\ UNCHANGED <<afu, cmd, staging, want, rdCtr, rdWait, rspCtr, addrBase, cciReads, rdq, wrCtr>>
        /\ UNCHANGED <<mrCtr, wrLeft>>
    BY DEF BankStep, upVars, downVars
  <1>2. DmaTypeOK /\ QueueInv(c) /\ RspInv(c)
    BY DEF DmaInv
  <1>3. /\ memReqs \in [BankIds -> Seq(WriteReq \cup ReadReq)]
        /\ memRsps \in [BankIds -> Seq([tag : Nat, data : Values])]
        /\ ram \in [Lines -> Values]
        /\ memReqs[c] \in Seq(WriteReq \cup ReadReq) /\ memRsps[c] \in Seq([tag : Nat, data : Values])
    BY <1>2 DEF DmaTypeOK
  <1> DEFINE old == memReqs[c]
             rest == Tail(memReqs[c])
  <1>4. /\ rest \in Seq(WriteReq \cup ReadReq) /\ Len(old) \in Nat
        /\ q = old[1] /\ q \in WriteReq \cup ReadReq /\ 1 \in DOMAIN old
        /\ DOMAIN old = 1..Len(old) /\ DOMAIN rest = 1..(Len(old) - 1)
        /\ \A n \in 1..(Len(old) - 1) : rest[n] = old[n + 1]
    BY <1>1, <1>3, TailFacts
  <1>5. memReqs'[c] = rest /\ \A b \in BankIds : b # c => memReqs'[b] = memReqs[b]
    BY <1>1, <1>3
  <1>6. /\ q.addr \in Lines /\ BankOf(q.addr) = c /\ (q.op = "write" \/ q.op = "read")
        /\ q.op = "write" => q.v \in Values
        /\ q.op = "read" => q.v \in Nat
    <2>1. BankOf(q.addr) = c
      BY <1>2, <1>4 DEF QueueInv, RequestOK
    <2> QED
      BY <1>4, <2>1 DEF WriteReq, ReadReq
  <1>7. \A n \in DOMAIN rest : n \in Nat /\ n + 1 \in DOMAIN old /\ rest[n] = old[n + 1]
    BY <1>4
  <1>8. \A n \in DOMAIN old : n = 1 \/ (n - 1 \in DOMAIN rest /\ rest[n - 1] = old[n])
    BY <1>4
  <1> HIDE DEF rest, old
  <1>9. q.op = "read" => /\ afu = "mem_read" /\ q.v < mrCtr /\ q.addr = cmd.addr + q.v
                         /\ ram[q.addr] = want[q.addr]
                         /\ \A n \in DOMAIN rest : rest[n].op = "read" /\ rest[n].v # q.v
                         /\ \A n \in DOMAIN memRsps[c] : memRsps[c][n].tag # q.v
    <2> SUFFICES ASSUME q.op = "read"
                 PROVE  /\ afu = "mem_read" /\ q.v < mrCtr /\ q.addr = cmd.addr + q.v
                        /\ ram[q.addr] = want[q.addr]
                        /\ \A n \in DOMAIN rest : rest[n].op = "read" /\ rest[n].v # q.v
                        /\ \A n \in DOMAIN memRsps[c] : memRsps[c][n].tag # q.v
      OBVIOUS
    <2>1. afu = "mem_read" /\ q.v < mrCtr /\ q.addr = cmd.addr + q.v
      BY <1>2, <1>4 DEF QueueInv, RequestOK, old
    <2>2. \A n \in DOMAIN old : 1 < n => old[n].op = "read" /\ old[n].v # q.v
      BY <1>2, <1>4 DEF QueueInv, old
    <2>3. \A n \in DOMAIN rest : rest[n].op = "read" /\ rest[n].v # q.v
      <3>1. \A n \in DOMAIN rest : 1 < n + 1
        BY <1>4
      <3> QED
        BY <1>7, <2>2, <3>1
    <2>4. \A n \in DOMAIN old : ~Writes(old[n], q.addr)
      BY <1>4, <1>8, <2>3 DEF Writes
    <2>5. Fresh(q.addr)
      BY <1>6, <2>1 DEF DmaInv, Outstanding
    <2>6. ram[q.addr] = want[q.addr]
      BY <1>6, <2>4, <2>5 DEF Fresh, FreshIn, old
    <2>7. \A n \in DOMAIN memRsps[c] : memRsps[c][n].tag # q.v
      BY <1>2, <1>4 DEF RspInv, Reads, old
    <2> QED
      BY <2>1, <2>3, <2>6, <2>7
  <1>10. DmaTypeOK'
    <2>1. memReqs' \in [BankIds -> Seq(WriteReq \cup ReadReq)]
      BY <1>1, <1>3, <1>4 DEF rest
    <2>2. ram' \in [Lines -> Values] /\ memRsps' \in [BankIds -> Seq([tag : Nat, data : Values])]
      <3>1. CASE q.op = "write"
        BY <1>1, <1>3, <1>6, <3>1
      <3>2. CASE q.op = "read"
        <4>1. rsp \in [tag : Nat, data : Values]
          BY <1>3, <1>6, <3>2
        <4>2. Append(memRsps[c], rsp) \in Seq([tag : Nat, data : Values])
          BY <1>3, <4>1, AppendFacts
        <4> QED
          BY <1>1, <1>3, <3>2, <4>2
      <3> QED
        BY <1>6, <3>1, <3>2
    <2> HIDE DEF q
    <2> QED
      BY <1>1, <1>2, <2>1, <2>2 DEF DmaTypeOK
  <1>11. ASSUME NEW l \in Lines PROVE Outstanding(l)' \/ Fresh(l)'
    <2>1. Outstanding(l) => Outstanding(l)'
      BY <1>1 DEF Outstanding, Asked, Queued
    <2>2. BankOf(l) \in BankIds
      BY <1>2, DmaNumbers
    <2>3. ASSUME Fresh(l) PROVE Fresh(l)'
      <3>1. FreshIn(memReqs[BankOf(l)], ram[l], want[l], l)
        BY <2>3 DEF Fresh
      <3>2. CASE BankOf(l) = c
        <4>1. FreshIn(rest, IF Writes(q, l) THEN q.v ELSE ram[l], want[l], l)
          BY <1>1, <1>3, <3>1, <3>2, FreshTail DEF rest
        <4>2. ram'[l] = IF Writes(q, l) THEN q.v ELSE ram[l]
          BY <1>1, <1>3, <1>6 DEF Writes
        <4> QED
          BY <1>1, <1>5, <3>2, <4>1, <4>2 DEF Fresh
      <3>3. CASE BankOf(l) # c
        <4>1. ram'[l] = ram[l]
          BY <1>1, <1>3, <1>6, <3>3
        <4> QED
          BY <1>1, <1>5, <2>2, <3>1, <3>3, <4>1 DEF Fresh
      <3> QED
        BY <3>2, <3>3
    <2> QED
      BY <2>1, <2>3 DEF DmaInv
  <1>12. QueueInv(c)'
    <2>1. \A n \in DOMAIN rest : RequestOK(rest[n], c)
      BY <1>2, <1>7 DEF QueueInv, old
    <2>2. \A m, n \in DOMAIN rest : m < n /\ rest[m].op = "read" => rest[n].op = "read" /\ rest[m].v # rest[n].v
      <3> SUFFICES ASSUME NEW m \in DOMAIN rest, NEW n \in DOMAIN rest, m < n, rest[m].op = "read"
                   PROVE  rest[n].op = "read" /\ rest[m].v # rest[n].v
        OBVIOUS
      <3>1. /\ m + 1 \in DOMAIN old /\ n + 1 \in DOMAIN old /\ m + 1 < n + 1
            /\ rest[m] = old[m + 1] /\ rest[n] = old[n + 1]
        BY <1>7
      <3> QED
        BY <1>2, <3>1 DEF QueueInv, old
    <2>3. \A x, b : RequestOK(x, b)' <=> RequestOK(x, b)
      BY <1>1 DEF RequestOK
    <2> HIDE DEF q
    <2> QED
      BY <1>5, <2>1, <2>2, <2>3 DEF QueueInv
  <1>13. RspInv(c)'
    <2>1. ASSUME NEW t \in Nat, \A m \in DOMAIN old : ~Reads(old[m], t)
          PROVE  \A m \in DOMAIN rest : ~Reads(rest[m], t)
      BY <1>7, <2>1
    <2>2. \A n \in DOMAIN memRsps[c] : memRsps[c][n].tag \in Nat
      <3>1. \A n \in DOMAIN memRsps[c] : memRsps[c][n] \in [tag : Nat, data : Values]
        <4>1. DOMAIN memRsps[c] = 1..Len(memRsps[c])
          BY <1>3, LenProperties
        <4> QED
          BY <1>3, <4>1, ElementOfSeq
      <3> QED
        BY <3>1
    <2>3. CASE q.op = "write"
      <3>1. memRsps' = memRsps
        BY <1>1, <2>3
      <3> HIDE DEF q
      <3> QED
        BY <1>1, <1>2, <1>5, <2>1, <2>2, <3>1 DEF RspInv, old
    <2>4. CASE q.op = "read"
      <3> DEFINE N == Len(memRsps[c]) + 1
      <3>1. rsp \in [tag : Nat, data : Values] /\ rsp.tag = q.v /\ rsp.data = ram[q.addr]
        BY <1>3, <1>6, <2>4
      <3>2. memRsps'[c] = Append(memRsps[c], rsp)
        BY <1>1, <1>3, <2>4
      <3> HIDE DEF rsp
      <3>3. /\ Len(memRsps[c]) \in Nat /\ DOMAIN memRsps[c] = 1..Len(memRsps[c])
            /\ DOMAIN memRsps'[c] = 1..N
            /\ \A n \in 1..Len(memRsps[c]) : memRsps'[c][n] = memRsps[c][n]
            /\ memRsps'[c][N] = rsp
        BY <1>3, <3>1, <3>2, AppendFacts
      <3>4. \A n \in DOMAIN memRsps'[c] : n = N \/ (n \in DOMAIN memRsps[c] /\ memRsps'[c][n] = memRsps[c][n])
        BY <3>3
      <3> HIDE DEF N
      <3>5. ASSUME NEW n \in DOMAIN memRsps'[c]
            PROVE  LET t == memRsps'[c][n].tag
                   IN  /\ afu = "mem_read" /\ t < mrCtr /\ BankOf(cmd.addr + t) = c
                       /\ memRsps'[c][n].data = want[cmd.addr + t]
                       /\ \A m \in DOMAIN rest : ~Reads(rest[m], t)
        <4>1. CASE n = N
          <5>1. memRsps'[c][n].tag = q.v /\ memRsps'[c][n].data = want[cmd.addr + q.v]
            BY <1>9, <2>4, <3>1, <3>3, <4>1
          <5>2. \A m \in DOMAIN rest : ~Reads(rest[m], q.v)
            BY <1>9, <2>4 DEF Reads
          <5>3. afu = "mem_read" /\ q.v < mrCtr /\ BankOf(cmd.addr + q.v) = c
            BY <1>6, <1>9, <2>4
          <5> QED
            BY <5>1, <5>2, <5>3
        <4>2. CASE n \in DOMAIN memRsps[c] /\ memRsps'[c][n] = memRsps[c][n]
          <5>1. /\ afu = "mem_read" /\ memRsps[c][n].tag < mrCtr /\ BankOf(cmd.addr + memRsps[c][n].tag) = c
                /\ memRsps[c][n].data = want[cmd.addr + memRsps[c][n].tag]
                /\ \A m \in DOMAIN old : ~Reads(old[m], memRsps[c][n].tag)
            BY <1>2, <4>2 DEF RspInv, old
          <5>2. \A m \in DOMAIN rest : ~Reads(rest[m], memRsps[c][n].tag)
            BY <2>1, <2>2, <4>2, <5>1
          <5> QED
            BY <4>2, <5>1, <5>2
        <4> QED
          BY <3>4, <4>1, <4>2
      <3>6. \A m, n \in DOMAIN memRsps'[c] : memRsps'[c][m].tag = memRsps'[c][n].tag => m = n
        <4>1. \A n \in DOMAIN memRsps[c] : memRsps[c][n].tag # q.v
          BY <1>9, <2>4
        <4>2. \A m, n \in DOMAIN memRsps[c] : memRsps[c][m].tag = memRsps[c][n].tag => m = n
          BY <1>2 DEF RspInv
        <4> QED
          BY <3>1, <3>3, <3>4, <4>1, <4>2
      <3> HIDE DEF q
      <3> QED
        BY <1>1, <1>5, <3>5, <3>6 DEF RspInv
    <2> QED
      BY <1>6, <2>3, <2>4
  <1>14. ASSUME NEW b \in BankIds, b # c PROVE QueueInv(b)' /\ RspInv(b)'
    <2>1. memReqs'[b] = memReqs[b] /\ memRsps'[b] = memRsps[b]
      BY <1>1, <1>3, <1>5, <1>14
    <2>2. QueueInv(b) /\ RspInv(b)
      BY DEF DmaInv
    <2>3. \A x : RequestOK(x, b)' <=> RequestOK(x, b)
      BY <1>1 DEF RequestOK
    <2>4. QueueInv(b)'
      BY <2>1, <2>2, <2>3 DEF QueueInv
    <2>5. afu' = afu /\ cmd' = cmd /\ mrCtr' = mrCtr /\ want' = want
      BY <1>1
    <2>6. RspInv(b)'
      BY <2>1, <2>2, <2>5 DEF RspInv
    <2> QED
      BY <2>4, <2>6
  <1>15. afu = "mem_read" => DownloadInv'
    <2> SUFFICES ASSUME afu = "mem_read" PROVE DownloadInv'
      OBVIOUS
    <2>1. DownloadInv
      BY DEF DmaInv
    <2>2. ASSUME NEW i \in 0..(cmd.size - 1)
          PROVE  (AtBank(i) \/ Back(i))' <=> (AtBank(i) \/ Back(i))
      <3> DEFINE d == BankOf(cmd.addr + i)
      <3>1. d \in BankIds /\ d' = d
        BY <1>1, <1>2, DmaNumbers
      <3>2. CASE d # c
        <4>1. memReqs'[d] = memReqs[d] /\ memRsps'[d] = memRsps[d]
          BY <1>1, <1>3, <1>5, <3>1, <3>2
        <4> HIDE DEF q
        <4> QED
          BY <1>1, <3>1, <4>1 DEF AtBank, Back
      <3>3. CASE d = c
        <4>1. AtBank(i)' <=> \E n \in DOMAIN rest : Reads(rest[n], i)
          BY <1>1, <1>5, <3>1, <3>3 DEF AtBank, Reads
        <4>2. AtBank(i) <=> \E n \in DOMAIN old : Reads(old[n], i)
          BY <3>3 DEF AtBank, old
        <4>3. (\E n \in DOMAIN old : Reads(old[n], i)) <=> (Reads(q, i) \/ \E n \in DOMAIN rest : Reads(rest[n], i))
          BY <1>4, <1>7, <1>8
        <4>4. Back(i)' <=> Back(i) \/ Reads(q, i)
          <5>1. CASE q.op = "write"
            BY <1>1, <3>1, <3>3, <5>1 DEF Back, Reads
          <5>2. CASE q.op = "read"
            <6>1. rsp \in [tag : Nat, data : Values] /\ rsp.tag = q.v
              BY <1>3, <1>6, <5>2
            <6>2. memRsps'[c] = Append(memRsps[c], rsp)
              BY <1>1, <1>3, <5>2
            <6> HIDE DEF rsp
            <6>3. /\ Len(memRsps[c]) \in Nat /\ DOMAIN memRsps[c] = 1..Len(memRsps[c])
                  /\ DOMAIN memRsps'[c] = 1..(Len(memRsps[c]) + 1)
                  /\ \A n \in 1..Len(memRsps[c]) : memRsps'[c][n] = memRsps[c][n]
                  /\ memRsps'[c][Len(memRsps[c]) + 1] = rsp
              BY <1>3, <6>1, <6>2, AppendFacts
            <6>4. (\E n \in DOMAIN memRsps'[c] : memRsps'[c][n].tag = i)
                     <=> (q.v = i \/ \E n \in DOMAIN memRsps[c] : memRsps[c][n].tag = i)
              <7>1. /\ Len(memRsps[c]) + 1 \in DOMAIN memRsps'[c]
                    /\ \A n \in DOMAIN memRsps[c] : n \in DOMAIN memRsps'[c] /\ memRsps'[c][n] = memRsps[c][n]
                    /\ \A n \in DOMAIN memRsps'[c] : n \in DOMAIN memRsps[c] \/ n = Len(memRsps[c]) + 1
                BY <6>3
              <7> HIDE DEF q
              <7> QED
                BY <6>1, <6>3, <7>1
            <6>5. Reads(q, i) <=> q.v = i
              BY <5>2 DEF Reads
            <6> HIDE DEF q
            <6> QED
              BY <1>1, <3>1, <3>3, <6>4, <6>5 DEF Back
          <5> QED
            BY <1>6, <5>1, <5>2
        <4> QED
          BY <4>1, <4>2, <4>3, <4>4
      <3> QED
        BY <3>2, <3>3
    <2>3. Left' = Left
      BY <1>1, <2>2 DEF Left
    <2> HIDE DEF q
    <2> QED
      BY <1>1, <2>1, <2>3 DEF DownloadInv
  <1>16. afu = "mem_write" => WindowInv' /\ UploadInv'
    <2> HIDE DEF q
    <2> QED
      BY <1>1 DEF DmaInv, WindowInv, UploadInv, Base
  <1>17. \A b \in BankIds : QueueInv(b)' /\ RspInv(b)'
    BY <1>12, <1>13, <1>14
  <1> HIDE DEF q
  <1> QED
    BY <1>1, <1>10, <1>11, <1>15, <1>16, <1>17 DEF DmaInv, DmaIntact

----------------------------------------------------------------------------
(* The engines of a download.                                              *)
LEMMA MemReadStep ==
    ASSUME DmaAssumption, DmaInv, MemRead
    PROVE  DmaInv'
  <1> DEFINE a == cmd.addr + mrCtr
             c == BankOf(a)
             e == [op |-> "read", addr |-> a, v |-> mrCtr]
  <1>1. /\ afu = "mem_read" /\ mrCtr < cmd.size /\ mrCtr' = mrCtr + 1
        /\ memReqs' = [memReqs EXCEPT ![c] = Append(@, e)]
        /\ UNCHANGED <<afu, cmd, staging, want, rdCtr, rdWait, rspCtr, addrBase, cciReads, rdq, wrCtr>>
        /\ UNCHANGED <<wrLeft, ram, memRsps>>
    BY DEF MemRead, upVars
  <1>2. DmaTypeOK /\ DownloadInv
    BY <1>1 DEF DmaInv
  <1>3. mrCtr \in Nat /\ cmd.addr \in Nat /\ cmd.size \in Nat /\ mrCtr \in 0..(cmd.size - 1)
    <2>1. mrCtr \in Nat
      BY <1>2 DEF DmaTypeOK
    <2>2. cmd.addr \in Nat /\ cmd.size \in Nat
      BY <1>2, DmaNumbers
    <2> QED
      BY <1>1, <2>1, <2>2
  <1>4. a \in Lines /\ c \in BankIds
    BY <1>2, <1>3, DmaNumbers
  <1>5. e.op = "read" /\ e.addr = a /\ e.v = mrCtr /\ e \in WriteReq \cup ReadReq
    BY <1>3, <1>4 DEF ReadReq
  <1> HIDE DEF e
  <1>6. /\ memReqs \in [BankIds -> Seq(WriteReq \cup ReadReq)]
        /\ \A b \in BankIds : memReqs[b] \in Seq(WriteReq \cup ReadReq)
        /\ \A b \in BankIds : memRsps[b] \in Seq([tag : Nat, data : Values])
    BY <1>2 DEF DmaTypeOK
  <1>7. /\ memReqs'[c] = Append(memReqs[c], e)
        /\ \A b \in BankIds : b # c => memReqs'[b] = memReqs[b]
    BY <1>1, <1>4, <1>6
  <1> DEFINE N == Len(memReqs[c]) + 1
  <1>8. /\ Len(memReqs[c]) \in Nat /\ memReqs'[c] \in Seq(WriteReq \cup ReadReq)
        /\ DOMAIN memReqs[c] = 1..Len(memReqs[c]) /\ DOMAIN memReqs'[c] = 1..N
        /\ \A n \in 1..Len(memReqs[c]) : memReqs'[c][n] = memReqs[c][n]
        /\ memReqs'[c][N] = e
    BY <1>4, <1>5, <1>6, <1>7, AppendFacts
  <1>9. /\ N \in DOMAIN memReqs'[c] /\ N \in Nat
        /\ \A n \in DOMAIN memReqs'[c] : n = N \/ (n \in DOMAIN memReqs[c] /\ memReqs'[c][n] = memReqs[c][n])
        /\ \A n \in DOMAIN memReqs[c] : n < N /\ n \in DOMAIN memReqs'[c] /\ memReqs'[c][n] = memReqs[c][n]
    BY <1>8
  <1> HIDE DEF N, c, a
  <1>10. DmaTypeOK'
    <2>1. memReqs' \in [BankIds -> Seq(WriteReq \cup ReadReq)]
      BY <1>1, <1>6, <1>7, <1>8
    <2>2. mrCtr' \in Nat
      BY <1>1, <1>3
    <2> QED
      BY <1>1, <1>2, <2>1, <2>2 DEF DmaTypeOK
  <1>11. ASSUME NEW l \in Lines PROVE Fresh(l)'
    <2>1. BankOf(l) \in BankIds
      BY <1>2, DmaNumbers
    <2>2. FreshIn(memReqs[BankOf(l)], ram[l], want[l], l)
      BY <1>1 DEF DmaInv, Outstanding, Fresh
    <2>3. ~Writes(e, l)
      BY <1>5 DEF Writes
    <2>4. FreshIn(Append(memReqs[BankOf(l)], e), ram[l], want[l], l)
      BY <1>5, <1>6, <2>1, <2>2, <2>3, FreshAppend
    <2> QED
      BY <1>1, <1>7, <2>1, <2>2, <2>4 DEF Fresh
  <1>12. \A b \in BankIds : \A n \in DOMAIN memReqs[b] :
            /\ BankOf(memReqs[b][n].addr) = b
            /\ memReqs[b][n].op = "read" => /\ memReqs[b][n].v \in Nat /\ memReqs[b][n].v < mrCtr
                                            /\ memReqs[b][n].addr = cmd.addr + memReqs[b][n].v
    <2> SUFFICES ASSUME NEW b \in BankIds, NEW n \in DOMAIN memReqs[b]
                 PROVE  /\ BankOf(memReqs[b][n].addr) = b
                        /\ memReqs[b][n].op = "read" => /\ memReqs[b][n].v \in Nat /\ memReqs[b][n].v < mrCtr
                                                        /\ memReqs[b][n].addr = cmd.addr + memReqs[b][n].v
      OBVIOUS
    <2> DEFINE x == memReqs[b][n]
    <2>1. x \in WriteReq \cup ReadReq
      <3>1. DOMAIN memReqs[b] = 1..Len(memReqs[b])
        BY <1>6, LenProperties
      <3> QED
        BY <1>6, <3>1, ElementOfSeq
    <2>2. RequestOK(x, b)
      BY DEF DmaInv, QueueInv
    <2> HIDE DEF x
    <2>3. /\ BankOf(x.addr) = b
          /\ x.op = "read" => x.v \in Nat /\ x.v < mrCtr /\ x.addr = cmd.addr + x.v
      BY <2>1, <2>2 DEF RequestOK, WriteReq, ReadReq
    <2> QED
      BY <2>3 DEF x
  <1>13. mrCtr < mrCtr' /\ \A t \in Nat : t < mrCtr => t < mrCtr' /\ t # mrCtr
    BY <1>1, <1>3
  <1>14. ASSUME NEW b \in BankIds PROVE QueueInv(b)'
    <2>1. \A m, n \in DOMAIN memReqs[b] : m < n /\ memReqs[b][m].op = "read" =>
             memReqs[b][n].op = "read" /\ memReqs[b][m].v # memReqs[b][n].v
      BY DEF DmaInv, QueueInv
    <2>2. CASE b # c
      <3>1. memReqs'[b] = memReqs[b]
        BY <1>7, <2>2
      <3>2. ASSUME NEW n \in DOMAIN memReqs[b] PROVE RequestOK(memReqs[b][n], b)'
        <4>1. memReqs'[b][n] = memReqs[b][n]
          BY <3>1
        <4> QED
          BY <1>1, <1>12, <1>13, <4>1 DEF RequestOK
      <3> QED
        BY <2>1, <3>1, <3>2 DEF QueueInv
    <2>3. CASE b = c
      <3>1. \A n \in DOMAIN memReqs'[b] : RequestOK(memReqs[b][n], b)'
        <4> SUFFICES ASSUME NEW n \in DOMAIN memReqs'[b] PROVE RequestOK(memReqs[b][n], b)'
          OBVIOUS
        <4>1. CASE n = N
          <5>1. memReqs'[b][n] = e /\ BankOf(a) = b
            BY <1>8, <2>3, <4>1 DEF c
          <5> QED
            BY <1>1, <1>5, <1>13, <5>1 DEF RequestOK, a
        <4>2. CASE n # N
          <5>1. n \in DOMAIN memReqs[b] /\ memReqs'[b][n] = memReqs[b][n]
            BY <1>9, <2>3, <4>2
          <5> QED
            BY <1>1, <1>12, <1>13, <5>1 DEF RequestOK
        <4> QED
          BY <4>1, <4>2
      <3>2. \A m, n \in DOMAIN memReqs'[b] : m < n /\ memReqs'[b][m].op = "read" =>
               memReqs'[b][n].op = "read" /\ memReqs'[b][m].v # memReqs'[b][n].v
        <4> SUFFICES ASSUME NEW m \in DOMAIN memReqs'[b], NEW n \in DOMAIN memReqs'[b],
                            m < n, memReqs'[b][m].op = "read"
                     PROVE  memReqs'[b][n].op = "read" /\ memReqs'[b][m].v # memReqs'[b][n].v
          OBVIOUS
        <4>1. m \in DOMAIN memReqs[b] /\ memReqs'[b][m] = memReqs[b][m]
          BY <1>8, <1>9, <2>3
        <4>2. CASE n = N
          BY <1>5, <1>8, <1>12, <1>13, <2>3, <4>1, <4>2
        <4>3. CASE n # N
          BY <1>9, <2>1, <2>3, <4>1, <4>3
        <4> QED
          BY <4>2, <4>3
      <3> QED
        BY <3>1, <3>2 DEF QueueInv
    <2> QED
      BY <2>2, <2>3
  <1>15. ASSUME NEW b \in BankIds PROVE RspInv(b)'
    <2>1. RspInv(b)
      BY DEF DmaInv
    <2>2. \A n \in DOMAIN memRsps[b] : memRsps[b][n].tag \in Nat
      <3>1. DOMAIN memRsps[b] = 1..Len(memRsps[b])
        BY <1>6, LenProperties
      <3>2. \A n \in DOMAIN memRsps[b] : memRsps[b][n] \in [tag : Nat, data : Values]
        BY <1>6, <3>1, ElementOfSeq
      <3> QED
        BY <3>2
    <2>3. ASSUME NEW t \in Nat, t < mrCtr, \A m \in DOMAIN memReqs[b] : ~Reads(memReqs[b][m], t)
          PROVE  \A m \in DOMAIN memReqs'[b] : ~Reads(memReqs'[b][m], t)
      <3>1. CASE b # c
        BY <1>7, <2>3, <3>1
      <3>2. CASE b = c
        BY <1>5, <1>8, <1>9, <1>13, <2>3, <3>2 DEF Reads
      <3> QED
        BY <3>1, <3>2
    <2>4. \A n \in DOMAIN memRsps[b] :
             LET t == memRsps[b][n].tag
             IN  /\ afu = "mem_read" /\ t < mrCtr /\ BankOf(cmd.addr + t) = b
                 /\ memRsps[b][n].data = want[cmd.addr + t]
                 /\ \A m \in DOMAIN memReqs'[b] : ~Reads(memReqs'[b][m], t)
      BY <2>1, <2>2, <2>3 DEF RspInv
    <2>5. \A m, n \in DOMAIN memRsps[b] : memRsps[b][m].tag = memRsps[b][n].tag => m = n
      BY <2>1 DEF RspInv
    <2> QED
      BY <1>1, <1>13, <2>2, <2>4, <2>5 DEF RspInv
  <1>16. DownloadInv'
    <2>1. ASSUME NEW i \in 0..(cmd.size - 1)
          PROVE  (i >= mrCtr \/ AtBank(i) \/ Back(i))' <=> (i >= mrCtr \/ AtBank(i) \/ Back(i))
      <3> DEFINE d == BankOf(cmd.addr + i)
      <3>1. d \in BankIds /\ i \in Nat
        BY <1>2, DmaNumbers
      <3>2. Back(i)' <=> Back(i)
        BY <1>1 DEF Back
      <3>3. AtBank(i)' <=> \E n \in DOMAIN memReqs'[d] : Reads(memReqs'[d][n], i)
        BY <1>1 DEF AtBank, Reads
      <3>4. AtBank(i) <=> \E n \in DOMAIN memReqs[d] : Reads(memReqs[d][n], i)
        BY DEF AtBank
      <3>5. i = mrCtr => d = c
        BY DEF a, c
      <3> HIDE DEF d
      <3>6. AtBank(i)' <=> AtBank(i) \/ (i = mrCtr /\ d = c)
        <4>1. CASE d # c
          BY <1>7, <3>1, <3>3, <3>4, <4>1
        <4>2. CASE d = c
          <5>1. Reads(e, i) <=> i = mrCtr
            BY <1>5 DEF Reads
          <5>2. (\E n \in DOMAIN memReqs'[c] : Reads(memReqs'[c][n], i))
                   <=> (Reads(e, i) \/ \E n \in DOMAIN memReqs[c] : Reads(memReqs[c][n], i))
            BY <1>8, <1>9
          <5> QED
            BY <3>3, <3>4, <4>2, <5>1, <5>2
        <4> QED
          BY <4>1, <4>2
      <3>7. i >= mrCtr <=> i = mrCtr \/ i >= mrCtr'
        BY <1>1, <1>3, <3>1
      <3> QED
        BY <3>2, <3>5, <3>6, <3>7
    <2>2. Left' = Left
      BY <1>1, <2>1 DEF Left
    <2>3. mrCtr' <= cmd.size
      BY <1>1, <1>3
    <2> QED
      BY <1>1, <1>2, <2>2, <2>3 DEF DownloadInv
  <1> QED
    BY <1>1, <1>10, <1>11, <1>14, <1>15, <1>16 DEF DmaInv, DmaIntact

LEMMA HostWriteStep ==
    ASSUME DmaAssumption, DmaInv, NEW c \in BankIds, HostWrite(c)
    PROVE  DmaInv'
  <1> DEFINE h == Head(memRsps[c])
             t == h.tag
             rest == Tail(memRsps[c])
  <1>1. /\ memRsps[c] # <<>> /\ memRsps' = [memRsps EXCEPT ![c] = Tail(@)]
        /\ staging' = [staging EXCEPT ![t] = h.data] /\ wrLeft' = wrLeft - 1
        /\ UNCHANGED <<afu, cmd, want, rdCtr, rdWait, rspCtr, addrBase, cciReads, rdq, wrCtr>>
        /\ UNCHANGED <<mrCtr, memReqs, ram>>
    BY DEF HostWrite, upVars
  <1>2. DmaTypeOK /\ RspInv(c)
    BY DEF DmaInv
  <1>3. /\ memRsps \in [BankIds -> Seq([tag : Nat, data : Values])]
        /\ memRsps[c] \in Seq([tag : Nat, data : Values])
        /\ staging \in [Lines -> Values] /\ mrCtr \in Nat
    BY <1>2 DEF DmaTypeOK
  <1>4. /\ rest \in Seq([tag : Nat, data : Values]) /\ Len(memRsps[c]) \in Nat
        /\ h = memRsps[c][1] /\ h \in [tag : Nat, data : Values] /\ 1 \in DOMAIN memRsps[c]
        /\ DOMAIN memRsps[c] = 1..Len(memRsps[c]) /\ DOMAIN rest = 1..(Len(memRsps[c]) - 1)
        /\ \A n \in 1..(Len(memRsps[c]) - 1) : rest[n] = memRsps[c][n + 1]
    BY <1>1, <1>3, TailFacts
  <1>5. memRsps'[c] = rest /\ \A b \in BankIds : b # c => memRsps'[b] = memRsps[b]
    BY <1>1, <1>3
  <1>6. /\ \A n \in DOMAIN rest : n + 1 \in DOMAIN memRsps[c] /\ n + 1 # 1 /\ n \in Nat /\ rest[n] = memRsps[c][n + 1]
        /\ \A n \in DOMAIN memRsps[c] : n = 1 \/ (n - 1 \in DOMAIN rest /\ rest[n - 1] = memRsps[c][n])
    <2> HIDE DEF rest
    <2>1. ASSUME NEW n \in DOMAIN rest
          PROVE  n + 1 \in DOMAIN memRsps[c] /\ n + 1 # 1 /\ n \in Nat /\ rest[n] = memRsps[c][n + 1]
      BY <1>4
    <2>2. ASSUME NEW n \in DOMAIN memRsps[c], n # 1
          PROVE  n - 1 \in DOMAIN rest /\ rest[n - 1] = memRsps[c][n]
      <3>1. n - 1 \in 1..(Len(memRsps[c]) - 1) /\ (n - 1) + 1 = n
        BY <1>4, <2>2
      <3> QED
        BY <1>4, <3>1
    <2> QED
      BY <2>1, <2>2
  <1>7. /\ afu = "mem_read" /\ t \in Nat /\ t < mrCtr /\ BankOf(cmd.addr + t) = c
        /\ h.data = want[cmd.addr + t] /\ h.data \in Values
        /\ \A m \in DOMAIN memReqs[c] : ~Reads(memReqs[c][m], t)
        /\ \A n \in DOMAIN memRsps[c] : memRsps[c][n].tag = t => n = 1
    <2>1. t \in Nat /\ h.data \in Values
      BY <1>4
    <2> QED
      BY <1>2, <1>4, <2>1 DEF RspInv
  <1>8. DownloadInv
    BY <1>7 DEF DmaInv
  <1>9. t \in 0..(cmd.size - 1) /\ t \in Lines
    <2>1. mrCtr <= cmd.size /\ cmd.size \in Nat
      BY <1>2, <1>8, DmaNumbers DEF DownloadInv
    <2>2. t \in 0..(cmd.size - 1)
      BY <1>3, <1>7, <2>1
    <2> QED
      BY <1>2, <2>2, DmaNumbers
  <1> HIDE DEF h, t, rest
  <1>10. DmaTypeOK'
    <2>1. memRsps' \in [BankIds -> Seq([tag : Nat, data : Values])]
      BY <1>1, <1>3, <1>4 DEF rest
    <2>2. staging' \in [Lines -> Values]
      BY <1>1, <1>3, <1>7, <1>9
    <2> QED
      BY <1>1, <1>2, <2>1, <2>2 DEF DmaTypeOK
  <1>11. \A l \in Lines : Fresh(l)'
    BY <1>1, <1>7 DEF DmaInv, Outstanding, Fresh
  <1>12. ASSUME NEW b \in BankIds PROVE QueueInv(b)'
    <2>1. QueueInv(b)
      BY DEF DmaInv
    <2>2. afu' = afu /\ cmd' = cmd /\ mrCtr' = mrCtr /\ memReqs' = memReqs
      BY <1>1
    <2> QED
      BY <2>1, <2>2 DEF QueueInv, RequestOK
  <1>13. ASSUME NEW b \in BankIds PROVE RspInv(b)'
    <2>1. RspInv(b)
      BY DEF DmaInv
    <2>2. afu' = afu /\ cmd' = cmd /\ mrCtr' = mrCtr /\ memReqs' = memReqs /\ want' = want
      BY <1>1
    <2>3. CASE b # c
      BY <1>5, <2>1, <2>2, <2>3 DEF RspInv
    <2>4. CASE b = c
      <3>1. \A n \in DOMAIN rest :
               LET x == rest[n].tag
               IN  /\ afu = "mem_read" /\ x < mrCtr /\ BankOf(cmd.addr + x) = b
                   /\ rest[n].data = want[cmd.addr + x]
                   /\ \A m \in DOMAIN memReqs[b] : ~Reads(memReqs[b][m], x)
        BY <1>6, <2>1, <2>4 DEF RspInv
      <3>2. \A m, n \in DOMAIN rest : rest[m].tag = rest[n].tag => m = n
        <4> SUFFICES ASSUME NEW m \in DOMAIN rest, NEW n \in DOMAIN rest, rest[m].tag = rest[n].tag
                     PROVE  m = n
          OBVIOUS
        <4>1. m + 1 = n + 1
          BY <1>6, <2>1, <2>4 DEF RspInv
        <4> QED
          BY <1>6, <4>1
      <3> QED
        BY <1>5, <2>2, <2>4, <3>1, <3>2 DEF RspInv
    <2> QED
      BY <2>3, <2>4
  <1>14. ASSUME NEW i \in 0..(cmd.size - 1)
         PROVE  /\ AtBank(i)' <=> AtBank(i)
                /\ i # t => (Back(i)' <=> Back(i))
                /\ i = t => Back(i) /\ ~Back(i)' /\ ~AtBank(i) /\ ~(i >= mrCtr)
    <2> DEFINE d == BankOf(cmd.addr + i)
    <2>1. d \in BankIds /\ i \in Nat
      BY <1>2, DmaNumbers
    <2>2. Back(i)' <=> \E n \in DOMAIN memRsps'[d] : memRsps'[d][n].tag = i
      BY <1>1 DEF Back
    <2>3. Back(i) <=> \E n \in DOMAIN memRsps[d] : memRsps[d][n].tag = i
      BY DEF Back
    <2>4. AtBank(i)' <=> AtBank(i)
      BY <1>1 DEF AtBank
    <2>5. i = t => d = c /\ ~AtBank(i) /\ ~(i >= mrCtr)
      BY <1>3, <1>7, <2>1 DEF AtBank
    <2> HIDE DEF d
    <2>6. CASE d # c
      BY <1>5, <2>1, <2>2, <2>3, <2>4, <2>5, <2>6
    <2>7. CASE d = c
      <3>1. i # t => ((\E n \in DOMAIN rest : rest[n].tag = i) <=> \E n \in DOMAIN memRsps[c] : memRsps[c][n].tag = i)
        <4>1. memRsps[c][1].tag = t
          BY <1>4 DEF t
        <4> QED
          BY <1>6, <4>1
      <3>2. i = t => /\ \E n \in DOMAIN memRsps[c] : memRsps[c][n].tag = i
                     /\ ~ \E n \in DOMAIN rest : rest[n].tag = i
        <4>1. memRsps[c][1].tag = t /\ 1 \in DOMAIN memRsps[c]
          BY <1>4 DEF t
        <4>2. \A n \in DOMAIN rest : rest[n].tag # t
          BY <1>6, <1>7
        <4> QED
          BY <4>1, <4>2
      <3> QED
        BY <1>5, <2>2, <2>3, <2>4, <2>5, <2>7, <3>1, <3>2
    <2> QED
      BY <2>6, <2>7
  <1>15. Left' = Left \ {t} /\ t \in Left
    <2>1. t \in Left
      BY <1>9, <1>14 DEF Left
    <2>2. \A i \in 0..(cmd.size - 1) : i \in Left' <=> i \in Left /\ i # t
      BY <1>1, <1>14 DEF Left
    <2>3. Left \subseteq 0..(cmd.size - 1) /\ Left' \subseteq 0..(cmd.size - 1)
      BY <1>1 DEF Left
    <2> QED
      BY <2>1, <2>2, <2>3
  <1>16. DownloadInv'
    <2>1. IsFiniteSet(Left)
      <3>1. IsFiniteSet(0..(cmd.size - 1))
        <4>1. cmd.size \in Nat
          BY <1>2, DmaNumbers
        <4> QED
          BY <4>1, FS_Interval
      <3>2. Left \subseteq 0..(cmd.size - 1)
        BY DEF Left
      <3> QED
        BY <3>1, <3>2, FS_Subset
    <2>2. Cardinality(Left') = Cardinality(Left) - 1
      BY <1>15, <2>1, FS_RemoveElement
    <2>3. wrLeft' = Cardinality(Left')
      BY <1>1, <1>8, <2>2 DEF DownloadInv
    <2>4. ASSUME NEW i \in 0..(cmd.size - 1) PROVE i \in Left' \/ staging'[i] = want[cmd.addr + i]
      <3>1. i \in Lines
        BY <1>2, DmaNumbers
      <3>2. CASE i = t
        BY <1>1, <1>3, <1>7, <1>9, <3>2
      <3>3. CASE i # t
        <4>1. staging'[i] = staging[i]
          BY <1>1, <1>3, <3>1, <3>3
        <4> QED
          BY <1>8, <1>15, <3>3, <4>1 DEF DownloadInv
      <3> QED
        BY <3>2, <3>3
    <2>5. mrCtr' <= cmd'.size
      BY <1>1, <1>8 DEF DownloadInv
    <2> QED
      BY <1>1, <2>3, <2>4, <2>5 DEF DownloadInv
  <1> QED
    BY <1>1, <1>7, <1>10, <1>11, <1>12, <1>13, <1>16 DEF DmaInv, DmaIntact

(* The counter of writes not yet acknowledged does not matter here.        *)
LEMMA QuietStep ==
    ASSUME DmaInv, UNCHANGED <<afu, cmd, staging, want, upVars, mrCtr, wrLeft, memVars>>
    PROVE  DmaInv'
  <1>1. /\ UNCHANGED <<afu, cmd, staging, want, rdCtr, rdWait, rspCtr, addrBase, cciReads, rdq, wrCtr>>
        /\ UNCHANGED <<mrCtr, wrLeft, memReqs, ram, memRsps>>
    BY DEF upVars, memVars
  <1>2. /\ \A b \in BankIds : QueueInv(b)' /\ RspInv(b)'
        /\ \A l \in Lines : Fresh(l)' <=> Fresh(l)
        /\ Left' = Left
    BY <1>1, MemorySame DEF DmaInv, memVars
  <1>3. \A l \in Lines : Outstanding(l)' <=> Outstanding(l)
    BY <1>1 DEF Outstanding, Asked, Queued
  <1>4. DmaTypeOK'
    BY <1>1 DEF DmaInv, DmaTypeOK
  <1>5. afu' = "mem_write" => WindowInv' /\ UploadInv'
    BY <1>1 DEF DmaInv, WindowInv, UploadInv, Base
  <1>6. afu' = "mem_read" => DownloadInv'
    BY <1>1, <1>2 DEF DmaInv, DownloadInv
  <1> QED
    BY <1>1, <1>2, <1>3, <1>4, <1>5, <1>6 DEF DmaInv, DmaIntact

LEMMA DownloadDoneStep ==
    ASSUME DmaAssumption, DmaInv, DownloadDone
    PROVE  DmaInv'
  <1>1. /\ afu = "mem_read" /\ wrLeft = 0 /\ afu' = "idle"
        /\ UNCHANGED <<cmd, staging, want, rdCtr, rdWait, rspCtr, addrBase, cciReads, rdq, wrCtr, mrCtr>>
        /\ UNCHANGED <<memReqs, ram, memRsps>>
    BY DEF DownloadDone, AllSent, upVars, downVars, memVars
  <1>2. DmaTypeOK /\ DownloadInv
    BY <1>1 DEF DmaInv
  <1>3. cmd.size \in Nat /\ mrCtr \in Nat /\ mrCtr <= cmd.size
    <2>1. mrCtr \in Nat
      BY <1>2 DEF DmaTypeOK
    <2> QED
      BY <1>2, <2>1, DmaNumbers DEF DownloadInv
  <1>4. Left = {}
    <2>1. IsFiniteSet(0..(cmd.size - 1))
      BY <1>3, FS_Interval
    <2>2. Left \subseteq 0..(cmd.size - 1)
      BY DEF Left
    <2>3. IsFiniteSet(Left) /\ Cardinality(Left) = 0
      BY <1>1, <1>2, <2>1, <2>2, FS_Subset DEF DownloadInv
    <2> QED
      BY <2>3, FS_EmptySet
  <1>5. \A i \in 0..(cmd.size - 1) : staging[i] = want[cmd.addr + i] /\ ~AtBank(i) /\ ~Back(i)
    BY <1>2, <1>4 DEF DownloadInv, Left
  <1>6. ASSUME NEW b \in BankIds PROVE QueueInv(b)' /\ RspInv(b)'
    <2>1. /\ memReqs[b] \in Seq(WriteReq \cup ReadReq)
          /\ memRsps[b] \in Seq([tag : Nat, data : Values])
      BY <1>2 DEF DmaTypeOK
    <2>2. QueueInv(b) /\ RspInv(b)
      BY DEF DmaInv
    <2>3. ASSUME NEW n \in DOMAIN memReqs[b] PROVE memReqs[b][n].op # "read" /\ BankOf(memReqs[b][n].addr) = b
      <3> DEFINE x == memReqs[b][n]
      <3>1. x \in WriteReq \cup ReadReq
        <4>1. DOMAIN memReqs[b] = 1..Len(memReqs[b])
          BY <2>1, LenProperties
        <4> QED
          BY <2>1, <4>1, ElementOfSeq
      <3>2. RequestOK(x, b)
        BY <2>2 DEF QueueInv
      <3>3. ASSUME x.op = "read" PROVE FALSE
        <4>1. x.v \in Nat /\ x.v < mrCtr /\ BankOf(cmd.addr + x.v) = b
          BY <3>1, <3>2, <3>3 DEF RequestOK, WriteReq, ReadReq
        <4>2. x.v \in 0..(cmd.size - 1)
          BY <1>3, <4>1
        <4>3. AtBank(x.v)
          BY <3>3, <4>1 DEF AtBank, Reads
        <4> QED
          BY <1>5, <4>2, <4>3
      <3> QED
        BY <3>2, <3>3 DEF RequestOK
    <2>4. ASSUME NEW n \in DOMAIN memRsps[b] PROVE FALSE
      <3> DEFINE x == memRsps[b][n].tag
      <3>1. x \in Nat
        <4>1. DOMAIN memRsps[b] = 1..Len(memRsps[b])
          BY <2>1, LenProperties
        <4>2. memRsps[b][n] \in [tag : Nat, data : Values]
          BY <2>1, <4>1, ElementOfSeq
        <4> QED
          BY <4>2
      <3>2. x < mrCtr /\ BankOf(cmd.addr + x) = b
        BY <2>2 DEF RspInv
      <3>3. x \in 0..(cmd.size - 1)
        BY <1>3, <3>1, <3>2
      <3>4. Back(x)
        BY <3>2 DEF Back
      <3> QED
        BY <1>5, <3>3, <3>4
    <2>5. QueueInv(b)'
      BY <1>1, <2>3 DEF QueueInv, RequestOK
    <2>6. RspInv(b)'
      BY <1>1, <2>4 DEF RspInv
    <2> QED
      BY <2>5, <2>6
  <1>7. \A l \in Lines : Fresh(l)'
    BY <1>1 DEF DmaInv, Outstanding, Fresh
  <1>8. DmaTypeOK'
    BY <1>1, <1>2 DEF DmaTypeOK
  <1> QED
    BY <1>1, <1>5, <1>6, <1>7, <1>8 DEF DmaInv, DmaIntact

----------------------------------------------------------------------------
LEMMA NextInv ==
    ASSUME DmaAssumption, DmaInv, [DmaNext]_dmaVars
    PROVE  DmaInv'
  <1>0. ASSUME NEW addr \in Lines, NEW size \in 0..NumLines, Upload(addr, size)
        PROVE  DmaInv'
    BY <1>0, UploadStep
  <1>1. ASSUME NEW addr \in Lines, NEW size \in 1..NumLines, Download(addr, size)
        PROVE  DmaInv'
    BY <1>1, DownloadStep
  <1>2. CASE HostRead
    BY <1>2, HostReadStep
  <1>3. CASE MemWrite
    BY <1>3, MemWriteStep
  <1>4. CASE UploadDone
    BY <1>4, UploadDoneStep
  <1>5. ASSUME NEW r \in cciReads, HostReadRsp(r) PROVE DmaInv'
    BY <1>5, HostReadRspStep
  <1>6. ASSUME NEW b \in BankIds, BankStep(b) PROVE DmaInv'
    BY <1>6, BankStepStep
  <1>7. CASE MemRead
    BY <1>7, MemReadStep
  <1>8. CASE HostWriteRsp
    BY <1>8, QuietStep DEF HostWriteRsp
  <1>9. CASE DownloadDone
    BY <1>9, DownloadDoneStep
  <1>10. ASSUME NEW b \in BankIds, HostWrite(b) PROVE DmaInv'
    BY <1>10, HostWriteStep
  <1>11. CASE UNCHANGED dmaVars
    BY <1>11, QuietStep DEF dmaVars, downVars
  <1> QED
    BY <1>0, <1>1, <1>2, <1>3, <1>4, <1>5, <1>6, <1>7, <1>8, <1>9, <1>10, <1>11 DEF DmaNext, Transfer

LEMMA DmaInvariant == ASSUME DmaAssumption PROVE DmaSpec => []DmaInv
  <1>1. DmaInit => DmaInv
    BY InitInv
  <1>2. DmaInv /\ [DmaNext]_dmaVars => DmaInv'
    BY NextInv
  <1> QED
    BY <1>1, <1>2, PTL DEF DmaSpec

(* What vx_copy_from_dev finds in the staging buffer when the accelerator  *)
(* is idle again is what the uploads before it wrote to those addresses:   *)
(* whatever the order in which the host and the banks answer, however the  *)
(* windows fall, and although the accelerator leaves STATE_MEM_WRITE while *)
(* writes are still on their way to the banks.                             *)
THEOREM DownloadsReturnUploads ==
    ASSUME DmaAssumption
    PROVE  DmaSpec => []DmaIntact
  <1>1. DmaInv => DmaIntact
    BY DEF DmaInv
  <1> QED
    BY <1>1, DmaInvariant, PTL
=============================================================================
