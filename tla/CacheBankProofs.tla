-------------------------- MODULE CacheBankProofs --------------------------
(***************************************************************************)
(* Theorems about CacheBank, for every number of ports, sets, ways, lines  *)
(* and MSHR slots: tags, fills, replays and requests stay matched.         *)
(***************************************************************************)
EXTENDS CacheBank, SequenceTheorems, FiniteSetTheorems, WellFoundedInduction, TLAPS

(* A processor is started again only after its last request that makes a   *)
(* fill is answered: so it is in a write-through cache, where only reads   *)
(* miss, and in a write-back cache that answers writes.  In one that does  *)
(* not, CacheSim::reset may clear the slot of a write whose fill is still  *)
(* on its way.                                                             *)
RestartsClean == \A c \in Configs : c.writeBack /\ ~WriteResponse => c.runs <= 1

NoDup(s) == \A a, b \in 1..Len(s) : s[a] = s[b] => a = b
Elements(s) == {s[n] : n \in 1..Len(s)}

Way == [valid : BOOLEAN, dirty : BOOLEAN, line : Lines, lru : Nat]
Entry == [type : {"None"}, req : {NoRequest}, way : {0}]
         \cup [type : {"Core", "Replay"}, req : Request, way : Ways]

CacheTypeOK ==
    /\ config \in Configs
    /\ issued \in Nat /\ issued <= config.reqs
    /\ ports \in [Inputs -> Seq(Request)]
    /\ ways \in [Sets -> [Ways -> Way]]
    /\ mshr \in [Slots -> Entry]
    /\ fills \in [Slots -> {0, 1}]
    /\ memRsp \in Seq(Slots)
    /\ bypassed \subseteq Ids
    /\ answers \in [Ids -> {0, 1}]
    /\ run \in Nat \ {0}

Taken == {k \in Slots : mshr[k].type # "None"}

(* A request that waits in the MSHR waits for a line that is not there,    *)
(* and the cache answers it.                                               *)
WaitersMiss == \A k \in SlotsOf("Core") : Hits(SetOf[mshr[k].req.line], mshr[k].req.line) = {}
ReadsWait == \A k \in Taken : WriteBack \/ mshr[k].req.kind = "read"

(* The slots with a fill in flight: asked for, or answered.                *)
Arrived == Elements(memRsp)
Filling == {k \in Slots : fills[k] = 1} \cup Arrived

FillInv ==
    /\ NoDup(memRsp)
    /\ \A k \in Arrived : fills[k] = 0
    /\ Filling \subseteq SlotsOf("Core")
    /\ \A k \in SlotsOf("Core") : \E j \in Filling : mshr[j].req.line = mshr[k].req.line
    /\ \A j, k \in Filling : mshr[j].req.line = mshr[k].req.line => j = k

(* The requests in the ports, in the MSHR, in the bypass and answered.     *)
IdsOf(s) == {s[n].id : n \in 1..Len(s)}
DistinctIds(s) == \A m, n \in 1..Len(s) : s[m].id = s[n].id => m = n

PortIds == UNION {IdsOf(ports[p]) : p \in Inputs}
MshrIds == {mshr[k].req.id : k \in Taken}
Answered == {id \in Ids : answers[id] = 1}

EachOnce ==
    /\ \A p \in Inputs : DistinctIds(ports[p]) /\ Len(ports[p]) <= issued
    /\ \A p, q \in Inputs : p # q => IdsOf(ports[p]) \cap IdsOf(ports[q]) = {}
    /\ \A j, k \in Taken : mshr[j].req.id = mshr[k].req.id => j = k

IdsApart ==
    /\ PortIds \cap MshrIds = {} /\ PortIds \cap bypassed = {} /\ PortIds \cap Answered = {}
    /\ MshrIds \cap bypassed = {} /\ MshrIds \cap Answered = {} /\ bypassed \cap Answered = {}

IdsCounted ==
    /\ PortIds \cup MshrIds \cup bypassed \cup Answered \subseteq 1..issued
    /\ WriteResponse => 1..issued \subseteq PortIds \cup MshrIds \cup bypassed \cup Answered

RequestInv == EachOnce /\ IdsApart /\ IdsCounted

TagInv == OneWayPerLine /\ WaitersMiss /\ ReadsWait /\ FillInv /\ ReplayHits

CacheInv == CacheTypeOK /\ TagInv /\ RequestInv

----------------------------------------------------------------------------
(* Queues.                                                                 *)
LEMMA QueueAppend ==
    ASSUME NEW S, NEW s \in Seq(S), NEW x \in S
    PROVE  /\ Append(s, x) \in Seq(S) /\ Len(Append(s, x)) = Len(s) + 1
           /\ Append(s, x) # <<>>
           /\ s = <<>> => Head(Append(s, x)) = x
           /\ s # <<>> => Head(Append(s, x)) = Head(s)
           /\ Elements(Append(s, x)) = Elements(s) \cup {x}
           /\ NoDup(s) /\ x \notin Elements(s) => NoDup(Append(s, x))
  <1> DEFINE t == Append(s, x)
  <1>1. /\ t \in Seq(S) /\ Len(t) = Len(s) + 1 /\ t[Len(s) + 1] = x
        /\ \A k \in 1..Len(s) : t[k] = s[k]
        /\ Len(s) \in Nat
    OBVIOUS
  <1>2. /\ t # <<>>
        /\ s = <<>> => Head(t) = x
        /\ s # <<>> => Head(t) = Head(s)
    BY <1>1
  <1> HIDE DEF t
  <1>3. Elements(t) = Elements(s) \cup {x}
    <2>1. ASSUME NEW v \in Elements(t) PROVE v \in Elements(s) \cup {x}
      BY <1>1, <2>1 DEF Elements
    <2>2. ASSUME NEW v \in Elements(s) PROVE v \in Elements(t)
      <3>1. PICK k \in 1..Len(s) : v = s[k]
        BY <2>2 DEF Elements
      <3>2. k \in 1..Len(t) /\ t[k] = v
        BY <1>1, <3>1
      <3> QED
        BY <3>2 DEF Elements
    <2>3. x \in Elements(t)
      <3>1. Len(s) + 1 \in 1..Len(t) /\ t[Len(s) + 1] = x
        BY <1>1
      <3> QED
        BY <3>1 DEF Elements
    <2> QED
      BY <2>1, <2>2, <2>3
  <1>4. NoDup(s) /\ x \notin Elements(s) => NoDup(t)
    <2> SUFFICES ASSUME NoDup(s), x \notin Elements(s), NEW a \in 1..Len(t), NEW b \in 1..Len(t), t[a] = t[b]
                 PROVE  a = b
      BY DEF NoDup
    <2>1. \A k \in 1..Len(s) : s[k] # x
      BY <1>1 DEF Elements
    <2>2. /\ a \in 1..Len(s) \/ a = Len(s) + 1
          /\ b \in 1..Len(s) \/ b = Len(s) + 1
      BY <1>1
    <2>3. CASE a \in 1..Len(s) /\ b \in 1..Len(s)
      BY <1>1, <2>3 DEF NoDup
    <2> QED
      BY <1>1, <2>1, <2>2, <2>3
  <1> QED
    BY <1>1, <1>2, <1>3, <1>4 DEF t

LEMMA QueueTail ==
    ASSUME NEW S, NEW s \in Seq(S), s # <<>>
    PROVE  /\ Tail(s) \in Seq(S) /\ Len(Tail(s)) = Len(s) - 1
           /\ Head(s) \in S /\ Head(s) \in Elements(s)
           /\ Elements(s) = Elements(Tail(s)) \cup {Head(s)}
           /\ NoDup(s) => NoDup(Tail(s)) /\ Head(s) \notin Elements(Tail(s))
  <1> DEFINE t == Tail(s)
  <1>1. /\ t \in Seq(S) /\ Len(t) = Len(s) - 1 /\ Head(s) = s[1]
        /\ \A k \in 1..(Len(s) - 1) : t[k] = s[k + 1]
        /\ Len(s) \in Nat \ {0} /\ Head(s) \in S
    OBVIOUS
  <1> HIDE DEF t
  <1>2. Head(s) \in Elements(s)
    <2>1. 1 \in 1..Len(s)
      BY <1>1
    <2> QED
      BY <1>1, <2>1 DEF Elements
  <1>3. ASSUME NEW v \in Elements(t)
        PROVE  \E k \in 1..(Len(s) - 1) : v = s[k + 1] /\ k + 1 \in 1..Len(s)
    <2>1. PICK k \in 1..Len(t) : v = t[k]
      BY <1>3 DEF Elements
    <2>2. k \in 1..(Len(s) - 1) /\ k + 1 \in 1..Len(s)
      BY <1>1
    <2> QED
      BY <1>1, <2>1, <2>2
  <1>4. Elements(s) = Elements(t) \cup {Head(s)}
    <2>1. ASSUME NEW v \in Elements(t) PROVE v \in Elements(s)
      BY <1>3, <2>1 DEF Elements
    <2>2. ASSUME NEW v \in Elements(s), v # Head(s) PROVE v \in Elements(t)
      <3>1. PICK k \in 1..Len(s) : v = s[k]
        BY <2>2 DEF Elements
      <3>2. k - 1 \in 1..(Len(s) - 1) /\ (k - 1) + 1 = k
        BY <1>1, <2>2, <3>1
      <3>3. k - 1 \in 1..Len(t) /\ t[k - 1] = v
        BY <1>1, <3>1, <3>2
      <3> QED
        BY <3>3 DEF Elements
    <2> QED
      BY <1>2, <2>1, <2>2
  <1>5. ASSUME NoDup(s)
        PROVE  NoDup(t) /\ Head(s) \notin Elements(t)
    <2>1. ASSUME NEW a \in 1..Len(t), NEW b \in 1..Len(t), t[a] = t[b]
          PROVE  a = b
      <3>1. a \in 1..(Len(s) - 1) /\ b \in 1..(Len(s) - 1) /\ Len(s) \in Nat
        BY <1>1
      <3>2. a + 1 \in 1..Len(s) /\ b + 1 \in 1..Len(s)
        BY <3>1
      <3>3. s[a + 1] = s[b + 1]
        BY <1>1, <2>1, <3>1
      <3>4. a + 1 = b + 1
        BY <1>5, <3>2, <3>3 DEF NoDup
      <3> QED
        BY <3>1, <3>4
    <2>2. ASSUME Head(s) \in Elements(t)
          PROVE  FALSE
      <3>1. PICK k \in 1..(Len(s) - 1) : s[1] = s[k + 1] /\ k + 1 \in 1..Len(s)
        BY <1>1, <1>3, <2>2
      <3>2. 1 \in 1..Len(s) /\ k + 1 # 1
        BY <1>1
      <3> QED
        BY <1>5, <3>1, <3>2 DEF NoDup
    <2> QED
      BY <2>1, <2>2 DEF NoDup
  <1> QED
    BY <1>1, <1>2, <1>4, <1>5 DEF t

LEMMA EmptyQueue == Elements(<<>>) = {} /\ NoDup(<<>>) /\ \A S : <<>> \in Seq(S)
  BY DEF Elements, NoDup

(* The choices of the scheduler and of the replacement exist.              *)
LEMMA SmallestNat ==
    ASSUME NEW T, T \subseteq Nat, T # {}
    PROVE  \E n \in T : \A m \in T : n <= m
  <1>1. IsWellFoundedOn(OpToRel(<, Nat), Nat)
    BY NatLessThanWellFounded
  <1>2. PICK n \in T : \A m \in T : ~(<<m, n>> \in OpToRel(<, Nat))
    BY <1>1, WFMin
  <1>3. \A m \in T : ~(m < n)
    BY <1>2 DEF OpToRel
  <1>4. \A m \in T : n <= m
    BY <1>3
  <1> QED
    BY <1>4

(* Schedule brings the next trace of a warp that has none in the front.    *)

LEMMA FirstExists ==
    ASSUME NEW S, S \subseteq Nat, S # {}
    PROVE  First(S) \in S
  <1>1. \E k \in S : \A j \in S : k <= j
    BY SmallestNat
  <1> QED
    BY <1>1 DEF First

(* The last of the largest values of a function on 0..n.                   *)
LEMMA LargestExists ==
    ASSUME NEW f, NEW n \in Nat, \A i \in 0..n : f[i] \in Nat
    PROVE  \E i \in 0..n : \A j \in 0..n : f[j] < f[i] \/ (f[j] = f[i] /\ i <= j)
  <1> DEFINE Best(m, i) == \A j \in 0..m : f[j] < f[i] \/ (f[j] = f[i] /\ i <= j)
             Bad == {m \in 0..n : \A i \in 0..m : ~Best(m, i)}
  <1>1. SUFFICES ASSUME Bad # {} PROVE FALSE
    <2>1. n \in 0..n
      OBVIOUS
    <2>2. n \notin Bad
      BY <1>1
    <2> QED
      BY <2>1, <2>2
  <1>0. /\ Bad \subseteq Nat /\ Bad \subseteq 0..n
        /\ \A m \in Bad : \A i \in 0..m : ~Best(m, i)
        /\ \A m \in 0..n : m \notin Bad => \E i \in 0..m : Best(m, i)
    OBVIOUS
  <1> HIDE DEF Bad
  <1>2. PICK m \in Bad : \A j \in Bad : m <= j
    BY <1>1, <1>0, SmallestNat
  <1>3. m \in 0..n /\ \A i \in 0..m : ~Best(m, i)
    BY <1>2, <1>0
  <1>4. CASE m = 0
    <2>1. Best(m, 0)
      BY <1>3, <1>4
    <2> QED
      BY <1>3, <1>4, <2>1
  <1>5. CASE m # 0
    <2>1. m - 1 \in 0..n /\ ~(m <= m - 1)
      BY <1>3, <1>5
    <2>2. PICK i \in 0..(m - 1) : Best(m - 1, i)
      BY <1>2, <1>0, <2>1
    <2>3. \A j \in 0..m : j \in 0..(m - 1) \/ j = m
      BY <1>3
    <2>4. i \in 0..m /\ m \in 0..m /\ f[i] \in Nat /\ f[m] \in Nat
      BY <1>3
    <2>5. CASE f[m] <= f[i]
      <3>1. Best(m, i)
        BY <1>3, <2>2, <2>3, <2>4, <2>5
      <3> QED
        BY <1>3, <2>4, <3>1
    <2>6. CASE f[i] < f[m]
      <3>1. \A j \in 0..(m - 1) : f[j] \in Nat /\ f[j] <= f[i]
        BY <1>3, <2>2, <2>4
      <3>2. Best(m, m)
        BY <1>3, <2>3, <2>4, <2>6, <3>1
      <3> QED
        BY <1>3, <2>4, <3>2
    <2> QED
      BY <2>4, <2>5, <2>6
  <1> QED
    BY <1>4, <1>5

LEMMA LastExists ==
    ASSUME NEW n \in Nat, NEW S, S \subseteq 0..n, S # {}
    PROVE  Last(S) \in S
  <1> DEFINE R == {n - i : i \in S}
  <1>1. R \subseteq Nat /\ R # {}
    <2>1. \A i \in S : n - i \in Nat
      OBVIOUS
    <2> QED
      BY <2>1
  <1>2. PICK m \in R : \A j \in R : m <= j
    BY <1>1, SmallestNat
  <1>3. PICK i \in S : m = n - i
    BY <1>2
  <1>4. \A j \in S : n - j \in R
    OBVIOUS
  <1>5. \A j \in S : j <= i
    <2>1. \A j \in S : m <= n - j
      BY <1>2, <1>4
    <2> QED
      BY <1>3, <2>1
  <1> QED
    BY <1>3, <1>5 DEF Last

LEMMA PlaceExists ==
    ASSUME CacheTypeOK, NEW s \in Sets
    PROVE  Place(s) \in Ways
  <1>1. config.ways \in Nat \ {0}
    BY CacheAssumption DEF CacheTypeOK
  <1>2. PICK n \in Nat : Ways = 0..n
    BY <1>1 DEF Ways
  <1>3. CASE FreeWays(s) # {}
    <2>1. FreeWays(s) \subseteq 0..n
      BY <1>2 DEF FreeWays
    <2>2. Last(FreeWays(s)) \in FreeWays(s)
      BY <1>3, <2>1, LastExists
    <2> QED
      BY <1>3, <2>2 DEF Place, FreeWays
  <1>4. CASE FreeWays(s) = {}
    <2> DEFINE f == [i \in Ways |-> ways[s][i].lru]
    <2>1. \A i \in 0..n : f[i] \in Nat
      BY <1>2 DEF CacheTypeOK, Way
    <2> HIDE DEF f
    <2>2. \E i \in Ways : \A j \in Ways : f[j] < f[i] \/ (f[j] = f[i] /\ i <= j)
      BY <1>2, <2>1, LargestExists
    <2>3. \E i \in Ways : \A j \in Ways :
             \/ ways[s][j].lru < ways[s][i].lru
             \/ ways[s][j].lru = ways[s][i].lru /\ i <= j
      BY <2>2 DEF f
    <2>4. Victim(s) \in Ways
      BY <2>3 DEF Victim
    <2> QED
      BY <1>4, <2>4 DEF Place
  <1> QED
    BY <1>3, <1>4

LEMMA ConfigFacts ==
    ASSUME CacheTypeOK
    PROVE  /\ config.inputs \in Nat \ {0} /\ config.ways \in Nat \ {0} /\ config.writeBack \in BOOLEAN
           /\ config.traffic \subseteq Traffic /\ config.reqs \in 0..MaxReqs /\ config.runs \in Nat
           /\ MaxReqs \in Nat /\ Inputs \subseteq Nat /\ Ways \subseteq Nat /\ Slots \subseteq Nat
           /\ Ids \subseteq Nat /\ issued \in Nat /\ 1..issued \subseteq Ids
  <1>1. /\ config.inputs \in Nat \ {0} /\ config.ways \in Nat \ {0} /\ config.writeBack \in BOOLEAN
        /\ config.traffic \subseteq Traffic /\ config.reqs \in 0..MaxReqs /\ config.runs \in Nat
    BY CacheAssumption DEF CacheTypeOK
  <1>2. MaxReqs \in Nat /\ MshrSize \in Nat
    BY CacheAssumption
  <1>3. issued \in Nat /\ issued <= config.reqs
    BY DEF CacheTypeOK
  <1> QED
    BY <1>1, <1>2, <1>3 DEF Inputs, Ways, Slots, Ids

LEMMA RequestFacts ==
    ASSUME NEW r \in Request
    PROVE  /\ r.id \in Ids /\ r.line \in Lines /\ SetOf[r.line] \in Sets
           /\ r.kind \in {"read", "write", "io_read", "io_write"}
  BY CacheAssumption DEF Request

LEMMA EntryFacts ==
    ASSUME CacheTypeOK, NEW k \in Slots
    PROVE  /\ mshr[k].type \in {"None", "Core", "Replay"}
           /\ mshr[k].type # "None" => /\ mshr[k].req \in Request /\ mshr[k].way \in Ways
                                       /\ mshr[k] \in [type : {"Core", "Replay"}, req : Request, way : Ways]
  BY DEF CacheTypeOK, Entry

(* Queues of requests, by their ids.                                       *)
LEMMA IdsAppend ==
    ASSUME NEW s \in Seq(Request), NEW r \in Request
    PROVE  /\ IdsOf(Append(s, r)) = IdsOf(s) \cup {r.id}
           /\ DistinctIds(s) /\ r.id \notin IdsOf(s) => DistinctIds(Append(s, r))
  <1> DEFINE t == Append(s, r)
  <1>1. /\ Len(t) = Len(s) + 1 /\ t[Len(s) + 1] = r
        /\ \A k \in 1..Len(s) : t[k] = s[k]
        /\ Len(s) \in Nat
    OBVIOUS
  <1> HIDE DEF t
  <1>2. 1..Len(t) = 1..Len(s) \cup {Len(s) + 1}
    BY <1>1
  <1>3. IdsOf(t) = IdsOf(s) \cup {r.id}
    BY <1>1, <1>2 DEF IdsOf
  <1>4. ASSUME DistinctIds(s), r.id \notin IdsOf(s), NEW m \in 1..Len(t), NEW n \in 1..Len(t), t[m].id = t[n].id
        PROVE  m = n
    <2>1. \A k \in 1..Len(s) : s[k].id # r.id
      BY <1>4 DEF IdsOf
    <2>2. CASE m \in 1..Len(s) /\ n \in 1..Len(s)
      BY <1>1, <1>4, <2>2 DEF DistinctIds
    <2> QED
      BY <1>1, <1>2, <1>4, <2>1, <2>2
  <1> QED
    BY <1>3, <1>4 DEF t, DistinctIds

LEMMA IdsTail ==
    ASSUME NEW s \in Seq(Request), s # <<>>, DistinctIds(s)
    PROVE  /\ Tail(s) \in Seq(Request) /\ Head(s) \in Request /\ Head(s).id \in IdsOf(s)
           /\ Len(Tail(s)) = Len(s) - 1
           /\ IdsOf(Tail(s)) = IdsOf(s) \ {Head(s).id}
           /\ DistinctIds(Tail(s))
  <1> DEFINE t == Tail(s)
  <1>1. /\ t \in Seq(Request) /\ Len(t) = Len(s) - 1 /\ Head(s) = s[1] /\ Head(s) \in Request
        /\ \A k \in 1..(Len(s) - 1) : t[k] = s[k + 1]
        /\ Len(s) \in Nat \ {0}
    OBVIOUS
  <1> HIDE DEF t
  <1>2. 1 \in 1..Len(s) /\ \A k \in 1..Len(t) : k + 1 \in 1..Len(s) /\ t[k] = s[k + 1] /\ k + 1 # 1
    BY <1>1
  <1>3. Head(s).id \in IdsOf(s)
    BY <1>1, <1>2 DEF IdsOf
  <1>4. ASSUME NEW x \in IdsOf(t) PROVE x \in IdsOf(s) /\ x # Head(s).id
    <2>1. PICK k \in 1..Len(t) : x = t[k].id
      BY <1>4 DEF IdsOf
    <2>2. k + 1 \in 1..Len(s) /\ x = s[k + 1].id /\ k + 1 # 1
      BY <1>2, <2>1
    <2> QED
      BY <1>1, <1>2, <2>2 DEF IdsOf, DistinctIds
  <1>5. ASSUME NEW x \in IdsOf(s), x # Head(s).id PROVE x \in IdsOf(t)
    <2>1. PICK k \in 1..Len(s) : x = s[k].id
      BY <1>5 DEF IdsOf
    <2>2. k - 1 \in 1..(Len(s) - 1) /\ (k - 1) + 1 = k
      BY <1>1, <1>5, <2>1
    <2>3. k - 1 \in 1..Len(t) /\ t[k - 1].id = x
      BY <1>1, <2>1, <2>2
    <2> QED
      BY <2>3 DEF IdsOf
  <1>6. ASSUME NEW m \in 1..Len(t), NEW n \in 1..Len(t), t[m].id = t[n].id
        PROVE  m = n
    <2>1. m + 1 = n + 1
      BY <1>2, <1>6 DEF DistinctIds
    <2> QED
      BY <1>1, <2>1
  <1>7. IdsOf(t) = IdsOf(s) \ {Head(s).id}
    BY <1>4, <1>5
  <1>8. DistinctIds(t)
    BY <1>6 DEF DistinctIds
  <1> QED
    BY <1>1, <1>3, <1>7, <1>8 DEF t

(* Some of the ports lose their heads.                                     *)
HeadIds(T) == {Head(ports[p]).id : p \in T}

LEMMA PopMoves ==
    ASSUME ports \in [Inputs -> Seq(Request)], issued \in Nat, EachOnce, NEW T, T \subseteq Inputs,
           \A p \in T : ports[p] # <<>>, config' = config, issued' = issued,
           ports' = [p \in Inputs |-> IF p \in T THEN Tail(ports[p]) ELSE ports[p]]
    PROVE  /\ ports' \in [Inputs' -> Seq(Request)]
           /\ \A p \in Inputs' : DistinctIds(ports'[p]) /\ Len(ports'[p]) <= issued'
           /\ \A p, q \in Inputs' : p # q => IdsOf(ports'[p]) \cap IdsOf(ports'[q]) = {}
           /\ PortIds' = PortIds \ HeadIds(T)
           /\ HeadIds(T) \subseteq PortIds
           /\ \A p \in T : Head(ports[p]) \in Request
           /\ \A p, q \in T : Head(ports[p]).id = Head(ports[q]).id => p = q
  <1>1. Inputs' = Inputs
    BY DEF Inputs
  <1>2. \A p \in Inputs : ports[p] \in Seq(Request) /\ DistinctIds(ports[p]) /\ Len(ports[p]) <= issued
    BY DEF EachOnce
  <1>3. ASSUME NEW p \in T
        PROVE  /\ ports'[p] \in Seq(Request) /\ Head(ports[p]) \in Request /\ Head(ports[p]).id \in IdsOf(ports[p])
               /\ Len(ports'[p]) = Len(ports[p]) - 1
               /\ IdsOf(ports'[p]) = IdsOf(ports[p]) \ {Head(ports[p]).id}
               /\ DistinctIds(ports'[p])
    <2>1. ports'[p] = Tail(ports[p]) /\ ports[p] # <<>> /\ ports[p] \in Seq(Request) /\ DistinctIds(ports[p])
      BY <1>2
    <2> QED
      BY <2>1, IdsTail
  <1>4. \A p \in Inputs \ T : ports'[p] = ports[p]
    OBVIOUS
  <1>5. \A p, q \in Inputs : p # q => IdsOf(ports[p]) \cap IdsOf(ports[q]) = {}
    BY DEF EachOnce
  <1>6. \A p \in Inputs : ports'[p] \in Seq(Request) /\ DistinctIds(ports'[p]) /\ IdsOf(ports'[p]) \subseteq IdsOf(ports[p])
    BY <1>2, <1>3, <1>4
  <1>7. \A p \in Inputs : Len(ports'[p]) <= issued
    <2> SUFFICES ASSUME NEW p \in Inputs PROVE Len(ports'[p]) <= issued
      OBVIOUS
    <2>1. Len(ports[p]) \in Nat /\ Len(ports[p]) <= issued
      BY <1>2
    <2>2. CASE p \in T
      BY <1>3, <2>1, <2>2
    <2> QED
      BY <1>4, <2>1, <2>2
  <1>8. ports' \in [Inputs -> Seq(Request)]
    BY <1>6
  <1>9. ASSUME NEW x \in PortIds' PROVE x \in PortIds /\ x \notin HeadIds(T)
    <2>1. PICK p \in Inputs : x \in IdsOf(ports'[p])
      BY <1>1, <1>9 DEF PortIds
    <2>2. x \in IdsOf(ports[p])
      BY <1>6, <2>1
    <2>3. ASSUME NEW q \in T, x = Head(ports[q]).id PROVE FALSE
      <3>1. x \in IdsOf(ports[q]) /\ x \notin IdsOf(ports'[q])
        BY <1>3, <2>3
      <3> QED
        BY <1>5, <2>1, <2>2, <3>1
    <2> QED
      BY <2>2, <2>3 DEF PortIds, HeadIds
  <1>10. ASSUME NEW x \in PortIds, x \notin HeadIds(T) PROVE x \in PortIds'
    <2>1. PICK p \in Inputs : x \in IdsOf(ports[p])
      BY <1>10 DEF PortIds
    <2>2. x \in IdsOf(ports'[p])
      <3>1. CASE p \in T
        BY <1>3, <1>10, <2>1, <3>1 DEF HeadIds
      <3> QED
        BY <1>4, <2>1, <3>1
    <2> QED
      BY <1>1, <2>2 DEF PortIds
  <1>11. ASSUME NEW x \in HeadIds(T) PROVE x \in PortIds
    <2>1. PICK p \in T : x = Head(ports[p]).id
      BY <1>11 DEF HeadIds
    <2>2. p \in Inputs /\ x \in IdsOf(ports[p])
      BY <1>3, <2>1
    <2> QED
      BY <2>2 DEF PortIds
  <1>12. ASSUME NEW p \in T, NEW q \in T, Head(ports[p]).id = Head(ports[q]).id, p # q PROVE FALSE
    <2>1. Head(ports[p]).id \in IdsOf(ports[p]) \cap IdsOf(ports[q])
      BY <1>3, <1>12
    <2> QED
      BY <1>5, <1>12, <2>1
  <1>13. PortIds' = PortIds \ HeadIds(T)
    BY <1>9, <1>10
  <1>14. \A p, q \in Inputs : p # q => IdsOf(ports'[p]) \cap IdsOf(ports'[q]) = {}
    BY <1>5, <1>6
  <1>15. \A p \in Inputs' : DistinctIds(ports'[p]) /\ Len(ports'[p]) <= issued'
    BY <1>1, <1>6, <1>7
  <1>16. \A p \in T : Head(ports[p]) \in Request
    BY <1>3
  <1>17. \A p, q \in T : Head(ports[p]).id = Head(ports[q]).id => p = q
    BY <1>12
  <1>18. HeadIds(T) \subseteq PortIds
    BY <1>11
  <1> QED
    BY <1>1, <1>8, <1>13, <1>14, <1>15, <1>16, <1>17, <1>18

----------------------------------------------------------------------------
(* CacheInv, action by action.                                             *)
LEMMA CacheInit ==
    ASSUME Init
    PROVE  CacheInv
  <1>1. config \in Configs /\ config.reqs \in Nat
    BY CacheAssumption DEF Init
  <1>2. EmptyWay \in Way
    <2>1. (CHOOSE l \in Lines : TRUE) \in Lines
      BY CacheAssumption
    <2> QED
      BY <2>1 DEF EmptyWay, Way
  <1>3. FreeSlot \in Entry /\ FreeSlot.type = "None"
    BY DEF FreeSlot, Entry
  <1>4. CacheTypeOK
    BY <1>1, <1>2, <1>3 DEF Init, CacheTypeOK
  <1>5. SlotsOf("Core") = {} /\ SlotsOf("Replay") = {} /\ Taken = {}
    BY <1>3 DEF Init, SlotsOf, Taken
  <1>6. Arrived = {} /\ Filling = {} /\ NoDup(memRsp)
    BY EmptyQueue DEF Init, Arrived, Filling
  <1>7. OneWayPerLine
    BY DEF Init, OneWayPerLine, EmptyWay
  <1>8. TagInv
    BY <1>5, <1>6, <1>7 DEF TagInv, WaitersMiss, ReadsWait, FillInv, ReplayHits
  <1>9. \A p \in Inputs : IdsOf(ports[p]) = {} /\ DistinctIds(ports[p]) /\ Len(ports[p]) = 0
    BY DEF Init, IdsOf, DistinctIds
  <1>10. PortIds = {} /\ MshrIds = {} /\ bypassed = {} /\ Answered = {} /\ issued = 0
    BY <1>5, <1>9 DEF Init, PortIds, MshrIds, Answered
  <1>11. EachOnce
    BY <1>5, <1>9, <1>10 DEF EachOnce
  <1>12. IdsApart /\ IdsCounted
    BY <1>10 DEF IdsApart, IdsCounted
  <1> QED
    BY <1>4, <1>8, <1>11, <1>12 DEF CacheInv, RequestInv

LEMMA TagSame ==
    ASSUME TagInv, UNCHANGED <<config, ways, mshr, fills, memRsp>>
    PROVE  TagInv'
  <1>1. /\ SlotsOf("Core")' = SlotsOf("Core") /\ SlotsOf("Replay")' = SlotsOf("Replay") /\ Taken' = Taken
        /\ Filling' = Filling /\ Arrived' = Arrived /\ Ways' = Ways
    BY DEF SlotsOf, Taken, Filling, Arrived, Ways
  <1>2. OneWayPerLine' /\ WaitersMiss' /\ ReadsWait' /\ ReplayHits'
    BY <1>1 DEF TagInv, OneWayPerLine, WaitersMiss, ReadsWait, ReplayHits, Hits, WriteBack
  <1>3. FillInv'
    BY <1>1 DEF TagInv, FillInv
  <1> QED
    BY <1>2, <1>3 DEF TagInv

LEMMA RequestSame ==
    ASSUME RequestInv, UNCHANGED <<config, issued, ports, mshr, bypassed, answers>>
    PROVE  RequestInv'
  <1>1. Inputs' = Inputs /\ Taken' = Taken /\ MshrIds' = MshrIds /\ Answered' = Answered
    BY DEF Inputs, Taken, MshrIds, Answered
  <1>2. PortIds' = PortIds
    BY <1>1 DEF PortIds
  <1>3. EachOnce'
    BY <1>1 DEF RequestInv, EachOnce
  <1>4. IdsApart' /\ IdsCounted'
    BY <1>1, <1>2 DEF RequestInv, IdsApart, IdsCounted
  <1> QED
    BY <1>3, <1>4 DEF RequestInv

LEMMA CoreRequestInv ==
    ASSUME CacheInv, NEW p \in Inputs, CoreRequest(p)
    PROVE  CacheInv'
  <1>1. PICK l \in Lines, k \in config.traffic :
             ports' = [ports EXCEPT ![p] = Append(ports[p], [id |-> issued + 1, line |-> l, kind |-> k])]
    BY DEF CoreRequest
  <1> DEFINE r == [id |-> issued + 1, line |-> l, kind |-> k]
  <1>2. /\ issued < config.reqs /\ issued' = issued + 1
        /\ UNCHANGED <<config, ways, mshr, fills, memRsp, bypassed, answers, run>>
    BY DEF CoreRequest
  <1>3. CacheTypeOK /\ ports \in [Inputs -> Seq(Request)] /\ ports[p] \in Seq(Request)
    BY DEF CacheInv, CacheTypeOK
  <1>4. issued + 1 \in Ids /\ issued \in Nat /\ r \in Request
    <2>1. /\ config.reqs \in 0..MaxReqs /\ issued \in Nat /\ config.traffic \subseteq Traffic /\ MaxReqs \in Nat
      BY <1>3, ConfigFacts
    <2>2. issued + 1 \in Ids
      BY <1>2, <2>1 DEF Ids
    <2> QED
      BY <2>1, <2>2 DEF Request
  <1>5. /\ r.id = issued + 1 /\ ports'[p] = Append(ports[p], r) /\ \A q \in Inputs \ {p} : ports'[q] = ports[q]
    BY <1>1, <1>3
  <1>6. Append(ports[p], r) \in Seq(Request) /\ Len(Append(ports[p], r)) = Len(ports[p]) + 1
    BY <1>3, <1>4, QueueAppend
  <1>7. ports' \in [Inputs -> Seq(Request)]
    BY <1>1, <1>3, <1>6
  <1> HIDE DEF r
  <1>8. Inputs' = Inputs /\ Ways' = Ways /\ Entry' = Entry
    BY <1>2 DEF Inputs, Ways, Entry
  <1>9. CacheTypeOK'
    <2>1. issued' \in Nat /\ issued' <= config'.reqs
      <3>1. config.reqs \in Nat
        BY <1>3, ConfigFacts
      <3> QED
        BY <1>2, <1>4, <3>1
    <2> QED
      BY <1>2, <1>3, <1>7, <1>8, <2>1 DEF CacheTypeOK
  <1>10. \A q \in Inputs : r.id \notin IdsOf(ports[q])
    <2>1. issued + 1 \notin 1..issued
      BY <1>4
    <2>2. PortIds \subseteq 1..issued
      BY DEF CacheInv, RequestInv, IdsCounted
    <2> QED
      BY <1>5, <2>1, <2>2 DEF PortIds
  <1>11. /\ IdsOf(ports'[p]) = IdsOf(ports[p]) \cup {issued + 1}
         /\ DistinctIds(ports'[p])
    <2>1. DistinctIds(ports[p]) /\ r.id \notin IdsOf(ports[p])
      BY <1>10 DEF CacheInv, RequestInv, EachOnce
    <2> QED
      BY <1>3, <1>4, <1>5, <2>1, IdsAppend
  <1>12. PortIds' = PortIds \cup {issued + 1}
    BY <1>5, <1>8, <1>11 DEF PortIds
  <1>13. MshrIds' = MshrIds /\ Answered' = Answered /\ Taken' = Taken
    BY <1>2 DEF MshrIds, Answered, Taken
  <1>14. EachOnce'
    <2>1. \A q \in Inputs : DistinctIds(ports'[q])
      BY <1>5, <1>11 DEF CacheInv, RequestInv, EachOnce
    <2>2. ASSUME NEW q \in Inputs PROVE Len(ports'[q]) <= issued + 1
      <3>1. Len(ports[q]) <= issued /\ Len(ports[q]) \in Nat
        BY <1>3 DEF CacheInv, RequestInv, EachOnce
      <3> QED
        BY <1>4, <1>5, <1>6, <3>1
    <2>3. ASSUME NEW q \in Inputs, NEW u \in Inputs, q # u PROVE IdsOf(ports'[q]) \cap IdsOf(ports'[u]) = {}
      <3>1. IdsOf(ports[q]) \cap IdsOf(ports[u]) = {}
        BY <2>3 DEF CacheInv, RequestInv, EachOnce
      <3>2. issued + 1 \notin IdsOf(ports[q]) /\ issued + 1 \notin IdsOf(ports[u])
        BY <1>5, <1>10
      <3>3. CASE q = p
        BY <1>5, <1>11, <2>3, <3>1, <3>2, <3>3
      <3>4. CASE u = p
        BY <1>5, <1>11, <2>3, <3>1, <3>2, <3>4
      <3> QED
        BY <1>5, <3>1, <3>3, <3>4
    <2>4. \A j, k2 \in Taken' : mshr'[j].req.id = mshr'[k2].req.id => j = k2
      BY <1>2, <1>13 DEF CacheInv, RequestInv, EachOnce
    <2> QED
      BY <1>2, <1>8, <2>1, <2>2, <2>3, <2>4 DEF EachOnce
  <1>15. IdsApart' /\ IdsCounted'
    <2>1. 1..(issued + 1) = 1..issued \cup {issued + 1} /\ issued + 1 \notin 1..issued
      BY <1>4
    <2>2. IdsApart /\ IdsCounted
      BY DEF CacheInv, RequestInv
    <2>3. IdsApart'
      BY <1>2, <1>12, <1>13, <2>1, <2>2 DEF IdsApart, IdsCounted
    <2>4. IdsCounted'
      BY <1>2, <1>12, <1>13, <2>1, <2>2 DEF IdsCounted
    <2> QED
      BY <2>3, <2>4
  <1> QED
    BY <1>2, <1>9, <1>14, <1>15, TagSame DEF CacheInv, RequestInv

LEMMA MemRespondInv ==
    ASSUME CacheInv, NEW k \in Slots, MemRespond(k)
    PROVE  CacheInv'
  <1>1. /\ fills[k] > 0 /\ fills' = [fills EXCEPT ![k] = fills[k] - 1]
        /\ memRsp' = Append(memRsp, k)
        /\ UNCHANGED <<config, issued, ports, ways, mshr, bypassed, answers, run>>
    BY DEF MemRespond
  <1>2. CacheTypeOK /\ fills \in [Slots -> {0, 1}] /\ memRsp \in Seq(Slots)
    BY DEF CacheInv, CacheTypeOK
  <1>3. fills[k] = 1 /\ fills'[k] = 0 /\ fills' \in [Slots -> {0, 1}] /\ \A j \in Slots \ {k} : fills'[j] = fills[j]
    BY <1>1, <1>2
  <1>4. NoDup(memRsp) /\ k \notin Elements(memRsp)
    BY <1>3 DEF CacheInv, TagInv, FillInv, Arrived
  <1>5. memRsp' \in Seq(Slots) /\ Arrived' = Arrived \cup {k} /\ NoDup(memRsp')
    BY <1>1, <1>2, <1>4, QueueAppend DEF Arrived
  <1>6. Filling' = Filling
    BY <1>3, <1>5 DEF Filling
  <1>7. Ways' = Ways /\ Inputs' = Inputs /\ Entry' = Entry
    BY <1>1 DEF Ways, Inputs, Entry
  <1>8. CacheTypeOK'
    BY <1>1, <1>2, <1>3, <1>5, <1>7 DEF CacheTypeOK
  <1>9. SlotsOf("Core")' = SlotsOf("Core") /\ SlotsOf("Replay")' = SlotsOf("Replay") /\ Taken' = Taken
    BY <1>1 DEF SlotsOf, Taken
  <1>10. FillInv'
    <2>1. \A j \in Arrived' : fills'[j] = 0
      <3>1. \A j \in Arrived : fills[j] = 0 /\ j \in Slots
        BY SMTT(30), <1>2 DEF CacheInv, TagInv, FillInv, Arrived, Elements
      <3> QED
        BY <1>3, <1>5, <3>1
    <2> QED
      BY <1>1, <1>5, <1>6, <1>9, <2>1 DEF CacheInv, TagInv, FillInv
  <1>11. OneWayPerLine' /\ WaitersMiss' /\ ReadsWait' /\ ReplayHits'
    BY <1>1, <1>7, <1>9 DEF CacheInv, TagInv, OneWayPerLine, WaitersMiss, ReadsWait, ReplayHits, Hits, WriteBack
  <1> QED
    BY <1>1, <1>8, <1>10, <1>11, RequestSame DEF CacheInv, TagInv

LEMMA BypassRespondInv ==
    ASSUME CacheInv, NEW id \in Ids, BypassRespond(id)
    PROVE  CacheInv'
  <1>1. /\ id \in bypassed /\ bypassed' = bypassed \ {id}
        /\ answers' = [answers EXCEPT ![id] = answers[id] + 1]
        /\ UNCHANGED <<config, issued, ports, ways, mshr, fills, memRsp, run>>
    BY DEF BypassRespond
  <1>2. CacheTypeOK /\ answers \in [Ids -> {0, 1}]
    BY DEF CacheInv, CacheTypeOK
  <1>3. IdsApart /\ IdsCounted /\ EachOnce
    BY DEF CacheInv, RequestInv
  <1>4. answers[id] = 0
    BY <1>1, <1>2, <1>3 DEF IdsApart, Answered
  <1>5. answers' \in [Ids -> {0, 1}] /\ Answered' = Answered \cup {id}
    BY <1>1, <1>2, <1>4 DEF Answered
  <1>6. Ways' = Ways /\ Inputs' = Inputs /\ Entry' = Entry
    BY <1>1 DEF Ways, Inputs, Entry
  <1>7. CacheTypeOK'
    BY <1>1, <1>2, <1>5, <1>6 DEF CacheTypeOK
  <1>8. PortIds' = PortIds /\ MshrIds' = MshrIds /\ Taken' = Taken
    BY <1>1, <1>6 DEF PortIds, MshrIds, Taken
  <1>9. EachOnce'
    BY <1>1, <1>3, <1>6, <1>8 DEF EachOnce
  <1>10. IdsApart' /\ IdsCounted'
    BY <1>1, <1>3, <1>5, <1>8 DEF IdsApart, IdsCounted
  <1> QED
    BY <1>1, <1>7, <1>9, <1>10, TagSame DEF CacheInv, RequestInv

(* A tick: the heads of the ports in IOReads and IOWrites go to the bypass *)
(* and those in T to the bank.                                             *)
IOReads == {p \in IOHeads : ~IsWrite(Head(ports[p]))}
IOWrites == {p \in IOHeads : IsWrite(Head(ports[p]))}

LEMMA BypassMoves ==
    ASSUME CacheInv, NEW T, T \subseteq Inputs \ IOHeads, \A p \in T : ports[p] # <<>>,
           Popped(T), Bypass, UNCHANGED <<config, issued>>
    PROVE  /\ ports' \in [Inputs' -> Seq(Request)]
           /\ \A p \in Inputs' : DistinctIds(ports'[p]) /\ Len(ports'[p]) <= issued'
           /\ \A p, q \in Inputs' : p # q => IdsOf(ports'[p]) \cap IdsOf(ports'[q]) = {}
           /\ PortIds' = PortIds \ (HeadIds(IOReads) \cup HeadIds(IOWrites) \cup HeadIds(T))
           /\ HeadIds(IOReads) \cup HeadIds(IOWrites) \cup HeadIds(T) \subseteq PortIds
           /\ HeadIds(IOReads) \cap HeadIds(IOWrites) = {}
           /\ (HeadIds(IOReads) \cup HeadIds(IOWrites)) \cap HeadIds(T) = {}
           /\ bypassed' = bypassed \cup HeadIds(IOReads)
           /\ BypassAnswers \subseteq HeadIds(IOWrites)
           /\ WriteResponse => BypassAnswers = HeadIds(IOWrites)
  <1> DEFINE U == IOHeads \cup T
  <1>1. U \subseteq Inputs /\ \A p \in U : ports[p] # <<>>
    BY DEF IOHeads
  <1>2. ports' = [p \in Inputs |-> IF p \in U THEN Tail(ports[p]) ELSE ports[p]]
    BY DEF Popped
  <1>3. ports \in [Inputs -> Seq(Request)] /\ issued \in Nat /\ EachOnce
    BY DEF CacheInv, CacheTypeOK, RequestInv
  <1>4. U = IOReads \cup IOWrites \cup T /\ IOReads \cap IOWrites = {} /\ (IOReads \cup IOWrites) \cap T = {}
    BY DEF IOReads, IOWrites
  <1> HIDE DEF U
  <1>5. /\ ports' \in [Inputs' -> Seq(Request)]
        /\ \A p \in Inputs' : DistinctIds(ports'[p]) /\ Len(ports'[p]) <= issued'
        /\ \A p, q \in Inputs' : p # q => IdsOf(ports'[p]) \cap IdsOf(ports'[q]) = {}
        /\ PortIds' = PortIds \ HeadIds(U)
        /\ HeadIds(U) \subseteq PortIds
        /\ \A p, q \in U : Head(ports[p]).id = Head(ports[q]).id => p = q
    BY <1>1, <1>2, <1>3, PopMoves
  <1>6. HeadIds(U) = HeadIds(IOReads) \cup HeadIds(IOWrites) \cup HeadIds(T)
    BY <1>4 DEF HeadIds
  <1>7. /\ HeadIds(IOReads) \cap HeadIds(IOWrites) = {}
        /\ (HeadIds(IOReads) \cup HeadIds(IOWrites)) \cap HeadIds(T) = {}
    BY <1>4, <1>5 DEF HeadIds
  <1>8. bypassed' = bypassed \cup HeadIds(IOReads)
    BY DEF Bypass, HeadIds, IOReads
  <1>9. BypassAnswers \subseteq HeadIds(IOWrites) /\ (WriteResponse => BypassAnswers = HeadIds(IOWrites))
    BY DEF BypassAnswers, HeadIds, IOWrites
  <1> QED
    BY <1>5, <1>6, <1>7, <1>8, <1>9

AnsweredNow(D) ==
    answers' = [id \in Ids |-> answers[id] + (IF id \in D THEN 1 ELSE 0)
                                        + (IF id \in BypassAnswers THEN 1 ELSE 0)]

(* The requests of the bank, in the MSHR and taken from the ports, stay in *)
(* the MSHR or are answered, D; those of the bypass likewise.              *)
LEMMA TickMoves ==
    ASSUME CacheInv, NEW T, T \subseteq Inputs \ IOHeads, \A p \in T : ports[p] # <<>>,
           Popped(T), Bypass, UNCHANGED <<config, issued>>,
           NEW D, D \subseteq MshrIds \cup HeadIds(T), AnsweredNow(D),
           MshrIds' \subseteq (MshrIds \cup HeadIds(T)) \ D,
           WriteResponse => MshrIds \cup HeadIds(T) \subseteq MshrIds' \cup D,
           \A j, k \in Taken' : mshr'[j].req.id = mshr'[k].req.id => j = k
    PROVE  /\ RequestInv'
           /\ ports' \in [Inputs' -> Seq(Request)] /\ bypassed' \subseteq Ids
           /\ answers' \in [Ids -> {0, 1}]
  <1> DEFINE A == HeadIds(IOReads)
             B == HeadIds(IOWrites)
             H == HeadIds(T)
             Z == BypassAnswers
  <1>1. /\ ports' \in [Inputs' -> Seq(Request)]
        /\ \A p \in Inputs' : DistinctIds(ports'[p]) /\ Len(ports'[p]) <= issued'
        /\ \A p, q \in Inputs' : p # q => IdsOf(ports'[p]) \cap IdsOf(ports'[q]) = {}
    BY BypassMoves
  <1>2. /\ PortIds' = PortIds \ (A \cup B \cup H) /\ A \cup B \cup H \subseteq PortIds
        /\ A \cap B = {} /\ (A \cup B) \cap H = {}
        /\ bypassed' = bypassed \cup A
        /\ Z \subseteq B /\ (WriteResponse => Z = B)
    BY BypassMoves
  <1>3. D \subseteq MshrIds \cup H /\ MshrIds' \subseteq (MshrIds \cup H) \ D
        /\ (WriteResponse => MshrIds \cup H \subseteq MshrIds' \cup D)
    OBVIOUS
  <1>4. IdsApart /\ IdsCounted /\ answers \in [Ids -> {0, 1}]
    BY DEF CacheInv, RequestInv, CacheTypeOK
  <1>5. 1..issued \subseteq Ids
    BY ConfigFacts DEF CacheInv
  <1> HIDE DEF A, B, H
  <1>6. PortIds \cup MshrIds \cup bypassed \cup Answered \subseteq Ids
    BY <1>4, <1>5 DEF IdsCounted
  <1>7. Answered \cap D = {} /\ Answered \cap Z = {} /\ D \cap Z = {} /\ D \cup Z \subseteq Ids
    BY <1>2, <1>3, <1>4, <1>6 DEF IdsApart
  <1>8. answers' = [id \in Ids |-> answers[id] + (IF id \in D THEN 1 ELSE 0) + (IF id \in Z THEN 1 ELSE 0)]
    BY DEF AnsweredNow
  <1> HIDE DEF Z
  <1>9. ASSUME NEW id \in Ids
        PROVE  answers'[id] \in {0, 1} /\ (answers'[id] = 1 <=> id \in Answered \cup D \cup Z)
    <2>1. answers[id] \in {0, 1} /\ (answers[id] = 1 <=> id \in Answered)
      BY <1>4 DEF Answered
    <2>2. answers'[id] = answers[id] + (IF id \in D THEN 1 ELSE 0) + (IF id \in Z THEN 1 ELSE 0)
      BY <1>8
    <2> QED
      BY <1>7, <2>1, <2>2
  <1>10. Answered' = Answered \cup D \cup Z
    <2>1. Answered \subseteq Ids /\ Answered' = {id \in Ids : answers'[id] = 1}
      BY DEF Answered
    <2> QED
      BY <1>7, <1>9, <2>1
  <1>11. answers' \in [Ids -> {0, 1}]
    BY <1>8, <1>9
  <1>12. IdsApart'
    BY <1>2, <1>3, <1>4, <1>7, <1>10 DEF IdsApart
  <1>13. IdsCounted'
    <2>1. PortIds' \cup MshrIds' \cup bypassed' \cup Answered' \subseteq 1..issued
      BY <1>2, <1>3, <1>4, <1>10 DEF IdsCounted
    <2>2. ASSUME WriteResponse, NEW x \in 1..issued PROVE x \in PortIds' \cup MshrIds' \cup bypassed' \cup Answered'
      <3>1. x \in PortIds \cup MshrIds \cup bypassed \cup Answered
        BY <1>4, <2>2 DEF IdsCounted
      <3> QED
        BY <1>2, <1>3, <1>10, <2>2, <3>1
    <2> QED
      BY <2>1, <2>2 DEF IdsCounted
  <1>14. EachOnce'
    BY <1>1 DEF EachOnce
  <1>15. bypassed' \subseteq Ids
    BY <1>2, <1>6
  <1> QED
    BY <1>1, <1>11, <1>12, <1>13, <1>14, <1>15 DEF RequestInv

LEMMA TickReplayInv ==
    ASSUME CacheInv, TickReplay
    PROVE  CacheInv'
  <1> DEFINE k == First(SlotsOf("Replay"))
             r == mshr[k].req
             D == IF Responds(r) THEN {r.id} ELSE {}
  <1>1. /\ SlotsOf("Replay") # {} /\ mshr' = [mshr EXCEPT ![k] = FreeSlot]
        /\ answers' = [id \in Ids |-> answers[id] + (IF id = r.id /\ Responds(r) THEN 1 ELSE 0)
                                            + (IF id \in BypassAnswers THEN 1 ELSE 0)]
        /\ Popped({}) /\ Bypass
        /\ UNCHANGED <<config, issued, ways, fills, memRsp, run>>
    BY DEF TickReplay, Released
  <1>2. CacheTypeOK /\ mshr \in [Slots -> Entry]
    BY DEF CacheInv, CacheTypeOK
  <1>3. k \in SlotsOf("Replay")
    <2>1. SlotsOf("Replay") \subseteq Nat
      BY <1>2, ConfigFacts DEF SlotsOf
    <2> QED
      BY <1>1, <2>1, FirstExists
  <1> HIDE DEF k
  <1>4. k \in Slots /\ mshr[k].type = "Replay" /\ k \in Taken
    BY <1>3 DEF SlotsOf, Taken
  <1>5. FreeSlot.type = "None" /\ FreeSlot \in Entry
    BY DEF FreeSlot, Entry
  <1>6. /\ mshr' \in [Slots -> Entry] /\ mshr'[k].type = "None"
        /\ \A j \in Slots \ {k} : mshr'[j] = mshr[j]
    BY <1>1, <1>2, <1>4, <1>5
  <1>7. /\ Taken' = Taken \ {k} /\ SlotsOf("Core")' = SlotsOf("Core")
        /\ SlotsOf("Replay")' = SlotsOf("Replay") \ {k}
    BY <1>4, <1>6 DEF Taken, SlotsOf
  <1>8. \A j \in Taken' : j \in Slots /\ mshr'[j] = mshr[j]
    BY <1>6, <1>7 DEF Taken
  <1>9. \A i, j \in Taken : mshr[i].req.id = mshr[j].req.id => i = j
    BY DEF CacheInv, RequestInv, EachOnce
  <1>10. MshrIds' = MshrIds \ {r.id} /\ r.id \in MshrIds
    <2>1. MshrIds' = {mshr[j].req.id : j \in Taken \ {k}}
      BY <1>7, <1>8 DEF MshrIds
    <2> QED
      BY <1>4, <1>9, <2>1 DEF MshrIds
  <1>11. \A id : id \in D <=> id = r.id /\ Responds(r)
    OBVIOUS
  <1> HIDE DEF r, D
  <1>12. AnsweredNow(D)
    BY <1>1, <1>11 DEF AnsweredNow
  <1>13. /\ RequestInv' /\ ports' \in [Inputs' -> Seq(Request)] /\ bypassed' \subseteq Ids
         /\ answers' \in [Ids -> {0, 1}]
    <2> DEFINE T == {}
    <2>1. HeadIds(T) = {} /\ T \subseteq Inputs \ IOHeads /\ \A p \in T : ports[p] # <<>>
      BY DEF HeadIds
    <2>2. Popped(T) /\ Bypass /\ UNCHANGED <<config, issued>>
      BY <1>1
    <2> HIDE DEF T
    <2>3. D \subseteq MshrIds \cup HeadIds(T) /\ MshrIds' \subseteq (MshrIds \cup HeadIds(T)) \ D
      BY <1>10, <1>11, <2>1
    <2>4. WriteResponse => MshrIds \cup HeadIds(T) \subseteq MshrIds' \cup D
      BY <1>10, <1>11, <2>1 DEF Responds
    <2>5. \A i, j \in Taken' : mshr'[i].req.id = mshr'[j].req.id => i = j
      BY <1>7, <1>8, <1>9
    <2> QED
      BY <1>12, <2>1, <2>2, <2>3, <2>4, <2>5, TickMoves
  <1>14. Ways' = Ways /\ Entry' = Entry
    BY <1>1 DEF Ways, Entry
  <1>15. CacheTypeOK'
    BY <1>1, <1>2, <1>6, <1>13, <1>14 DEF CacheTypeOK
  <1>16. Arrived' = Arrived /\ Filling' = Filling
    BY <1>1 DEF Arrived, Filling
  <1>17. \A j \in SlotsOf("Core") : mshr'[j] = mshr[j]
    BY <1>4, <1>6 DEF SlotsOf
  <1>18. FillInv'
    BY <1>1, <1>7, <1>16, <1>17 DEF CacheInv, TagInv, FillInv
  <1>19. OneWayPerLine'
    BY <1>1, <1>14 DEF CacheInv, TagInv, OneWayPerLine
  <1>20. WaitersMiss' /\ ReadsWait' /\ ReplayHits'
    <2>1. WaitersMiss'
      BY <1>1, <1>7, <1>14, <1>17 DEF CacheInv, TagInv, WaitersMiss, Hits
    <2>2. ReadsWait'
      <3>1. WriteBack' = WriteBack
        BY <1>1 DEF WriteBack
      <3>2. \A j \in Taken : WriteBack \/ mshr[j].req.kind = "read"
        BY DEF CacheInv, TagInv, ReadsWait
      <3> QED
        BY <1>7, <1>8, <3>1, <3>2 DEF ReadsWait
    <2>3. \A j \in SlotsOf("Replay") \ {k} : mshr'[j] = mshr[j]
      BY <1>6 DEF SlotsOf
    <2>4. ReplayHits'
      BY SMTT(30), <1>1, <1>7, <1>14, <2>3 DEF CacheInv, TagInv, ReplayHits, Hits
    <2> QED
      BY <2>1, <2>2, <2>4
  <1> QED
    BY <1>13, <1>15, <1>18, <1>19, <1>20 DEF CacheInv, TagInv

LEMMA TickFillInv ==
    ASSUME CacheInv, TickFill
    PROVE  CacheInv'
  <1> DEFINE k == Head(memRsp)
             l == mshr[k].req.line
             s == SetOf[l]
             i == mshr[k].way
             W == FilledWay(ways[s][i], l)
  <1>1. /\ memRsp # <<>> /\ SlotsOf("Replay") = {} /\ mshr[k].type = "Core"
        /\ mshr' = Replay(k) /\ memRsp' = Tail(memRsp)
        /\ ways' = [ways EXCEPT ![s][i] = W]
        /\ answers' = [id \in Ids |-> answers[id] + (IF id \in BypassAnswers THEN 1 ELSE 0)]
        /\ Popped({}) /\ Bypass
        /\ UNCHANGED <<config, issued, fills, run>>
    BY DEF TickFill, FillMayRun
  <1>2. CacheTypeOK /\ mshr \in [Slots -> Entry] /\ memRsp \in Seq(Slots) /\ ways \in [Sets -> [Ways -> Way]]
    BY DEF CacheInv, CacheTypeOK
  <1>3. k \in Slots /\ k \in Arrived /\ k \in Filling
    <2>1. k \in Slots /\ k \in Elements(memRsp)
      BY <1>1, <1>2, QueueTail
    <2> QED
      BY SMTT(30), <2>1 DEF Arrived, Filling
  <1>4. NoDup(memRsp)
    BY SMTT(30) DEF CacheInv, TagInv, FillInv
  <1>5. memRsp' \in Seq(Slots) /\ NoDup(memRsp') /\ Arrived' = Arrived \ {k}
    BY <1>1, <1>2, <1>4, QueueTail DEF Arrived
  <1> HIDE DEF k
  <1>6. l \in Lines /\ s \in Sets /\ i \in Ways
    BY <1>1, <1>2, <1>3, EntryFacts, RequestFacts
  <1>7. W \in Way /\ W.valid = TRUE /\ W.line = l
    <2>1. ways[s][i] \in Way
      BY <1>2, <1>6
    <2> HIDE DEF l, s, i
    <2> QED
      BY <1>6, <2>1 DEF FilledWay, Way
  <1> HIDE DEF W, i
  <1>8. /\ ways' \in [Sets -> [Ways -> Way]] /\ ways'[s][i] = W
        /\ \A t \in Sets, j \in Ways : (t # s \/ j # i) => ways'[t][j] = ways[t][j]
    BY <1>1, <1>2, <1>6, <1>7
  <1>9. \A j \in Slots : mshr'[j] = IF mshr[j].type = "Core" /\ mshr[j].req.line = l
                                    THEN [mshr[j] EXCEPT !.type = "Replay"] ELSE mshr[j]
    BY <1>1 DEF Replay
  <1> HIDE DEF l, s
  <1>10. ASSUME NEW j \in Slots
         PROVE  /\ mshr'[j] \in Entry /\ mshr'[j].req = mshr[j].req
                /\ mshr'[j].type = IF mshr[j].type = "Core" /\ mshr[j].req.line = l THEN "Replay" ELSE mshr[j].type
    <2>1. CASE mshr[j].type = "Core" /\ mshr[j].req.line = l
      <3>1. mshr'[j] = [mshr[j] EXCEPT !.type = "Replay"]
        BY <1>9, <2>1
      <3>2. mshr[j] \in [type : {"Core", "Replay"}, req : Request, way : Ways]
        BY <1>2, <2>1, EntryFacts
      <3> QED
        BY <2>1, <3>1, <3>2 DEF Entry
    <2>2. CASE ~(mshr[j].type = "Core" /\ mshr[j].req.line = l)
      BY <1>2, <1>9, <2>2
    <2> QED
      BY <2>1, <2>2
  <1>11. mshr' \in [Slots -> Entry]
    <2>1. mshr' = [j \in Slots |-> mshr'[j]]
      BY <1>1 DEF Replay
    <2> QED
      BY <1>10, <2>1
  <1>12. /\ Taken' = Taken /\ MshrIds' = MshrIds
         /\ SlotsOf("Core")' = {j \in SlotsOf("Core") : mshr[j].req.line # l}
         /\ SlotsOf("Replay")' = {j \in SlotsOf("Core") : mshr[j].req.line = l}
    <2>1. Taken' = Taken
      BY <1>10 DEF Taken
    <2>2. \A j \in Taken : j \in Slots
      BY DEF Taken
    <2>3. MshrIds' = MshrIds
      BY <1>10, <2>1, <2>2 DEF MshrIds
    <2>4. SlotsOf("Core")' = {j \in SlotsOf("Core") : mshr[j].req.line # l}
      BY <1>10 DEF SlotsOf
    <2>5. SlotsOf("Replay")' = {j \in SlotsOf("Core") : mshr[j].req.line = l}
      BY <1>1, <1>10 DEF SlotsOf
    <2> QED
      BY <2>1, <2>3, <2>4, <2>5
  <1>13. /\ RequestInv' /\ ports' \in [Inputs' -> Seq(Request)] /\ bypassed' \subseteq Ids
         /\ answers' \in [Ids -> {0, 1}]
    <2> DEFINE T == {}
               D == {}
    <2>1. HeadIds(T) = {} /\ T \subseteq Inputs \ IOHeads /\ (\A p \in T : ports[p] # <<>>)
      BY DEF HeadIds
    <2>2. Popped(T) /\ Bypass /\ UNCHANGED <<config, issued>>
      BY <1>1
    <2>3. AnsweredNow(D)
      <3>1. \A id \in Ids : answers[id] \in {0, 1}
        BY DEF CacheInv, CacheTypeOK
      <3> QED
        BY <1>1, <3>1 DEF AnsweredNow
    <2>4. D = {}
      OBVIOUS
    <2> HIDE DEF T, D
    <2>5. D \subseteq MshrIds \cup HeadIds(T) /\ MshrIds' \subseteq (MshrIds \cup HeadIds(T)) \ D
      BY <1>12, <2>1, <2>4
    <2>6. WriteResponse => MshrIds \cup HeadIds(T) \subseteq MshrIds' \cup D
      BY <1>12, <2>1
    <2>7. \A a, b \in Taken' : mshr'[a].req.id = mshr'[b].req.id => a = b
      BY <1>10, <1>12 DEF CacheInv, RequestInv, EachOnce, Taken
    <2> QED
      BY <2>1, <2>2, <2>3, <2>5, <2>6, <2>7, TickMoves
  <1>14. Ways' = Ways /\ Entry' = Entry /\ WriteBack' = WriteBack
    BY <1>1 DEF Ways, Entry, WriteBack
  <1>15. CacheTypeOK'
    BY <1>1, <1>2, <1>5, <1>8, <1>11, <1>13, <1>14 DEF CacheTypeOK
  <1>16. k \in SlotsOf("Core") /\ mshr[k].req.line = l /\ s = SetOf[l]
    BY <1>1, <1>3 DEF SlotsOf, l, s
  <1>17. \A j \in Ways : ~(ways[s][j].valid /\ ways[s][j].line = l)
    BY <1>16 DEF CacheInv, TagInv, WaitersMiss, Hits
  <1>18. OneWayPerLine'
    <2> SUFFICES ASSUME NEW t \in Sets, NEW a \in Ways, NEW b \in Ways,
                        ways'[t][a].valid, ways'[t][b].valid, ways'[t][a].line = ways'[t][b].line
                 PROVE  a = b
      BY <1>14 DEF OneWayPerLine
    <2>1. CASE t = s /\ (a = i \/ b = i)
      BY <1>7, <1>8, <1>17, <2>1
    <2>2. CASE t # s \/ (a # i /\ b # i)
      <3>1. ways'[t][a] = ways[t][a] /\ ways'[t][b] = ways[t][b]
        BY SMTT(30), <1>8, <2>2
      <3> QED
        BY <3>1 DEF CacheInv, TagInv, OneWayPerLine
    <2> QED
      BY <2>1, <2>2
  <1>19. WaitersMiss'
    <2> SUFFICES ASSUME NEW j \in SlotsOf("Core")'
                 PROVE  Hits(SetOf[mshr[j].req.line], mshr[j].req.line)' = {}
      BY <1>10 DEF WaitersMiss, SlotsOf
    <2> DEFINE m == mshr[j].req.line
    <2>1. j \in SlotsOf("Core") /\ m # l /\ j \in Slots
      BY <1>12 DEF SlotsOf
    <2>2. mshr'[j].req.line = m /\ SetOf[m] \in Sets
      <3>1. mshr[j].type = "Core"
        BY <2>1 DEF SlotsOf
      <3>2. mshr[j].req \in Request
        BY <1>2, <2>1, <3>1, EntryFacts
      <3> QED
        BY <1>10, <2>1, <3>2, RequestFacts
    <2>3. \A a \in Ways : ~(ways[SetOf[m]][a].valid /\ ways[SetOf[m]][a].line = m)
      BY <2>1 DEF CacheInv, TagInv, WaitersMiss, Hits
    <2> HIDE DEF m
    <2>4. \A a \in Ways : ~(ways'[SetOf[m]][a].valid /\ ways'[SetOf[m]][a].line = m)
      <3> SUFFICES ASSUME NEW a \in Ways PROVE ~(ways'[SetOf[m]][a].valid /\ ways'[SetOf[m]][a].line = m)
        OBVIOUS
      <3>1. CASE SetOf[m] = s /\ a = i
        BY <1>7, <1>8, <2>1, <3>1
      <3>2. CASE SetOf[m] # s \/ a # i
        BY <1>8, <2>2, <2>3, <3>2
      <3> QED
        BY <3>1, <3>2
    <2>5. Hits(SetOf[m], m)' = {a \in Ways' : ways'[SetOf[m]'][a].valid /\ ways'[SetOf[m]'][a].line = m'}
      BY DEF Hits
    <2>6. m' = m
      BY <2>2 DEF m
    <2> QED
      BY <1>14, <2>4, <2>5, <2>6 DEF m
  <1>20. ReadsWait'
    <2>1. \A j \in Taken : j \in Slots /\ (WriteBack \/ mshr[j].req.kind = "read")
      BY DEF CacheInv, TagInv, ReadsWait, Taken
    <2> QED
      BY <1>10, <1>12, <1>14, <2>1 DEF ReadsWait
  <1>21. Filling' = Filling \ {k}
    <2>1. fills[k] = 0
      BY <1>3 DEF CacheInv, TagInv, FillInv
    <2> QED
      BY <1>1, <1>5, <2>1 DEF Filling
  <1>22. FillInv'
    <2>1. \A j \in Arrived' : fills'[j] = 0
      BY <1>1, <1>5 DEF CacheInv, TagInv, FillInv
    <2>2. \A a, b \in Filling : mshr[a].req.line = mshr[b].req.line => a = b
      BY DEF CacheInv, TagInv, FillInv
    <2>3. Filling \subseteq SlotsOf("Core")
      BY DEF CacheInv, TagInv, FillInv
    <2>4. \A j \in Filling \ {k} : mshr[j].req.line # l
      BY <1>3, <1>16, <2>2
    <2>5. Filling' \subseteq SlotsOf("Core")'
      BY <1>12, <1>21, <2>3, <2>4
    <2>6. \A j \in SlotsOf("Core") : j \in Slots /\ mshr'[j].req = mshr[j].req
      BY <1>10 DEF SlotsOf
    <2>7. ASSUME NEW j \in SlotsOf("Core")' PROVE \E a \in Filling' : mshr'[a].req.line = mshr'[j].req.line
      <3>1. j \in SlotsOf("Core") /\ mshr[j].req.line # l
        BY <1>12, <2>7
      <3>2. PICK a \in Filling : mshr[a].req.line = mshr[j].req.line
        BY <3>1 DEF CacheInv, TagInv, FillInv
      <3>3. a \in Filling'
        BY <1>16, <1>21, <3>1, <3>2
      <3> QED
        BY <2>3, <2>6, <3>1, <3>2, <3>3
    <2>8. ASSUME NEW a \in Filling', NEW b \in Filling', mshr'[a].req.line = mshr'[b].req.line
          PROVE  a = b
      <3>1. a \in Filling /\ b \in Filling
        BY <1>21
      <3>2. mshr'[a].req = mshr[a].req /\ mshr'[b].req = mshr[b].req
        BY <2>3, <2>6, <3>1
      <3> QED
        BY <2>2, <2>8, <3>1, <3>2
    <2> QED
      BY <1>5, <2>1, <2>5, <2>7, <2>8 DEF FillInv
  <1>23. ReplayHits'
    <2> SUFFICES ASSUME NEW j \in SlotsOf("Replay")', NEW m, m = mshr'[j].req.line
                 PROVE  {a \in Ways' : ways'[SetOf[m]][a].valid /\ ways'[SetOf[m]][a].line = m} # {}
      BY DEF ReplayHits, Hits
    <2>1. m = l
      BY <1>10, <1>12 DEF SlotsOf
    <2>2. i \in Ways' /\ ways'[SetOf[m]][i].valid /\ ways'[SetOf[m]][i].line = m
      BY SMTT(30), <1>6, <1>7, <1>8, <1>14, <1>16, <2>1
    <2>3. i \in {a \in Ways' : ways'[SetOf[m]][a].valid /\ ways'[SetOf[m]][a].line = m}
      BY <2>2
    <2> QED
      BY <2>3
  <1> QED
    BY <1>13, <1>15, <1>18, <1>19, <1>20, <1>22, <1>23 DEF CacheInv, TagInv

(* A lookup changes counters and dirty bits, and no tag.                   *)
SameTags ==
    /\ ways' \in [Sets -> [Ways -> Way]]
    /\ \A s \in Sets, i \in Ways : /\ ways'[s][i].valid = ways[s][i].valid
                                  /\ ways'[s][i].line = ways[s][i].line

LEMMA AgedFacts ==
    ASSUME CacheTypeOK, NEW s \in Sets, NEW l \in Lines, NEW i \in Ways
    PROVE  /\ Aged(s, l)[i] \in Way
           /\ Aged(s, l)[i].valid = ways[s][i].valid /\ Aged(s, l)[i].line = ways[s][i].line
  <1> DEFINE w == ways[s][i]
  <1>1. w \in Way
    BY DEF CacheTypeOK
  <1>2. Aged(s, l)[i] = IF ~w.valid THEN w ELSE [w EXCEPT !.lru = IF w.line = l THEN 0 ELSE w.lru + 1]
    BY DEF Aged
  <1> HIDE DEF w
  <1>3. w.lru \in Nat /\ (IF w.line = l THEN 0 ELSE w.lru + 1) \in Nat
    BY <1>1 DEF Way
  <1>4. Aged(s, l)[i] \in Way /\ Aged(s, l)[i].valid = w.valid /\ Aged(s, l)[i].line = w.line
    BY <1>1, <1>2, <1>3 DEF Way
  <1> QED
    BY <1>4 DEF w

LEMMA LookupKeepsTags ==
    ASSUME CacheTypeOK, NEW r \in Request, NEW s \in Sets,
           CoreHit(r, s) \/ CoreWriteThrough(r, s) \/ CoreMiss(r, s)
    PROVE  SameTags
  <1>1. r.line \in Lines
    BY RequestFacts
  <1>2. \A i \in Ways : /\ Aged(s, r.line)[i] \in Way
                        /\ Aged(s, r.line)[i].valid = ways[s][i].valid /\ Aged(s, r.line)[i].line = ways[s][i].line
    BY <1>1, AgedFacts
  <1>3. ways \in [Sets -> [Ways -> Way]]
    BY DEF CacheTypeOK
  <1>4. CASE CoreHit(r, s)
    <2> DEFINE A == Aged(s, r.line)
               X == [i \in Ways |-> IF i = Last(Hits(s, r.line)) /\ r.kind = "write" /\ WriteBack
                                   THEN [A[i] EXCEPT !.dirty = TRUE] ELSE A[i]]
    <2>1. ways' = [ways EXCEPT ![s] = X]
      BY <1>4 DEF CoreHit
    <2> HIDE DEF A
    <2>2. ASSUME NEW i \in Ways PROVE X[i] \in Way /\ X[i].valid = ways[s][i].valid /\ X[i].line = ways[s][i].line
      <3>1. A[i] \in Way /\ A[i].valid = ways[s][i].valid /\ A[i].line = ways[s][i].line
        BY <1>2 DEF A
      <3>2. X[i] = [A[i] EXCEPT !.dirty = TRUE] \/ X[i] = A[i]
        OBVIOUS
      <3> HIDE DEF X
      <3>3. [A[i] EXCEPT !.dirty = TRUE] \in Way
        BY <3>1 DEF Way
      <3>4. /\ [A[i] EXCEPT !.dirty = TRUE].valid = A[i].valid
            /\ [A[i] EXCEPT !.dirty = TRUE].line = A[i].line
        BY <3>1 DEF Way
      <3> QED
        BY <3>1, <3>2, <3>3, <3>4
    <2>3. X \in [Ways -> Way]
      BY <2>2
    <2> HIDE DEF X
    <2>4. ways' \in [Sets -> [Ways -> Way]] /\ ways'[s] = X /\ \A t \in Sets \ {s} : ways'[t] = ways[t]
      BY <1>3, <2>1, <2>3
    <2> QED
      BY <2>2, <2>4 DEF SameTags
  <1>5. CASE CoreWriteThrough(r, s) \/ CoreMiss(r, s)
    <2>1. ways' = [ways EXCEPT ![s] = Aged(s, r.line)]
      BY <1>5 DEF CoreWriteThrough, CoreMiss
    <2>2. Aged(s, r.line) \in [Ways -> Way]
      <3>1. Aged(s, r.line) = [i \in Ways |-> Aged(s, r.line)[i]]
        BY DEF Aged
      <3> QED
        BY <1>2, <3>1
    <2>3. ways' \in [Sets -> [Ways -> Way]] /\ ways'[s] = Aged(s, r.line) /\ \A t \in Sets \ {s} : ways'[t] = ways[t]
      BY <1>3, <2>1, <2>2
    <2> QED
      BY <1>2, <2>3 DEF SameTags
  <1> QED
    BY <1>4, <1>5

LEMMA TagsKept ==
    ASSUME CacheInv, SameTags, config' = config
    PROVE  /\ OneWayPerLine'
           /\ \A l \in Lines : {i \in Ways' : ways'[SetOf[l]][i].valid /\ ways'[SetOf[l]][i].line = l}
                               = Hits(SetOf[l], l)
  <1>1. Ways' = Ways
    BY DEF Ways
  <1>2. OneWayPerLine'
    <2>1. OneWayPerLine
      BY DEF CacheInv, TagInv
    <2> QED
      BY <1>1, <2>1 DEF OneWayPerLine, SameTags
  <1>3. ASSUME NEW l \in Lines
        PROVE  {i \in Ways' : ways'[SetOf[l]][i].valid /\ ways'[SetOf[l]][i].line = l} = Hits(SetOf[l], l)
    <2>1. SetOf[l] \in Sets
      BY CacheAssumption
    <2> QED
      BY <1>1, <2>1 DEF Hits, SameTags
  <1> QED
    BY <1>2, <1>3

(* A hit, and a write through the cache.                                   *)
LEMMA TagsUntouched ==
    ASSUME CacheInv, SameTags, UNCHANGED <<config, mshr, fills, memRsp>>
    PROVE  TagInv'
  <1>1. OneWayPerLine' /\ \A l \in Lines :
           {i \in Ways' : ways'[SetOf[l]][i].valid /\ ways'[SetOf[l]][i].line = l} = Hits(SetOf[l], l)
    BY TagsKept
  <1>2. /\ SlotsOf("Core")' = SlotsOf("Core") /\ SlotsOf("Replay")' = SlotsOf("Replay") /\ Taken' = Taken
        /\ Filling' = Filling /\ Arrived' = Arrived
    BY DEF SlotsOf, Taken, Filling, Arrived
  <1>3. FillInv' /\ ReadsWait'
    BY <1>2 DEF CacheInv, TagInv, FillInv, ReadsWait, WriteBack
  <1>4. \A k \in SlotsOf("Core") \cup SlotsOf("Replay") : mshr[k].req.line \in Lines
    <2>1. \A k \in SlotsOf("Core") \cup SlotsOf("Replay") : k \in Slots /\ mshr[k].type # "None"
      BY DEF SlotsOf
    <2>2. CacheTypeOK
      BY DEF CacheInv
    <2> QED
      BY <2>1, <2>2, EntryFacts, RequestFacts
  <1>5. WaitersMiss' /\ ReplayHits'
    <2>1. \A k \in SlotsOf("Core") : Hits(SetOf[mshr[k].req.line], mshr[k].req.line) = {}
      BY DEF CacheInv, TagInv, WaitersMiss
    <2>2. \A k \in SlotsOf("Replay") : Hits(SetOf[mshr[k].req.line], mshr[k].req.line) # {}
      BY DEF CacheInv, TagInv, ReplayHits
    <2>3. WaitersMiss'
      <3> SUFFICES ASSUME NEW k \in SlotsOf("Core"), NEW l \in Lines, l = mshr[k].req.line
                   PROVE  {i \in Ways' : ways'[SetOf[l]][i].valid /\ ways'[SetOf[l]][i].line = l} = {}
        BY <1>2, <1>4 DEF WaitersMiss, Hits
      <3> QED
        BY <1>1, <2>1
    <2>4. ReplayHits'
      <3> SUFFICES ASSUME NEW k \in SlotsOf("Replay"), NEW l \in Lines, l = mshr[k].req.line
                   PROVE  {i \in Ways' : ways'[SetOf[l]][i].valid /\ ways'[SetOf[l]][i].line = l} # {}
        BY <1>2, <1>4 DEF ReplayHits, Hits
      <3> QED
        BY <1>1, <2>2
    <2> QED
      BY <2>3, <2>4
  <1> QED
    BY <1>1, <1>3, <1>5 DEF TagInv

(* A miss takes the first free slot, and asks for the line if no slot has. *)
LEMMA MissMoves ==
    ASSUME CacheInv, CoreMayRun, NEW r \in Request, NEW s, s = SetOf[r.line], CoreMiss(r, s), ~Full,
           UNCHANGED <<config, memRsp>>
    PROVE  /\ TagInv' /\ mshr' \in [Slots -> Entry] /\ fills' \in [Slots -> {0, 1}]
           /\ \E n \in Slots \ Taken :
                 /\ Taken' = Taken \cup {n} /\ mshr'[n].req = r
                 /\ \A j \in Taken : mshr'[j] = mshr[j]
  <1> DEFINE n == First(SlotsOf("None"))
             e == [type |-> "Core", req |-> r, way |-> Place(s)]
  <1>1. /\ Hits(s, r.line) = {} /\ (r.kind = "read" \/ WriteBack)
        /\ mshr' = [mshr EXCEPT ![n] = e]
        /\ fills' = IF Lookup(r) THEN fills ELSE [fills EXCEPT ![n] = fills[n] + 1]
    BY DEF CoreMiss, Allocated
  <1>2. CacheTypeOK /\ mshr \in [Slots -> Entry] /\ fills \in [Slots -> {0, 1}]
    BY DEF CacheInv, CacheTypeOK
  <1>3. s \in Sets /\ r.line \in Lines
    BY RequestFacts
  <1>4. n \in SlotsOf("None")
    <2>1. SlotsOf("None") \subseteq Nat /\ SlotsOf("None") # {}
      BY <1>2, ConfigFacts DEF SlotsOf, Full
    <2> QED
      BY <2>1, FirstExists
  <1> HIDE DEF n
  <1>5. n \in Slots /\ mshr[n].type = "None" /\ n \notin Taken
    BY <1>4 DEF SlotsOf, Taken
  <1>6. e \in Entry /\ e.type = "Core" /\ e.req = r
    <2>1. Place(s) \in Ways
      BY <1>2, <1>3, PlaceExists
    <2> QED
      BY <2>1 DEF Entry
  <1> HIDE DEF e
  <1>7. mshr' \in [Slots -> Entry] /\ mshr'[n] = e /\ \A j \in Slots \ {n} : mshr'[j] = mshr[j]
    BY <1>1, <1>2, <1>5, <1>6
  <1>8. SlotsOf("Replay") = {} /\ memRsp = <<>> /\ Arrived = {}
    BY EmptyQueue DEF CoreMayRun, Arrived
  <1>9. /\ Taken' = Taken \cup {n} /\ SlotsOf("Core")' = SlotsOf("Core") \cup {n}
        /\ SlotsOf("Replay")' = {} /\ Arrived' = {}
        /\ Taken = SlotsOf("Core")
    <2>1. Taken' = Taken \cup {n}
      BY <1>5, <1>6, <1>7 DEF Taken
    <2>2. SlotsOf("Core")' = SlotsOf("Core") \cup {n} /\ SlotsOf("Replay")' = {}
      BY <1>5, <1>6, <1>7, <1>8 DEF SlotsOf
    <2>3. Taken = SlotsOf("Core")
      BY <1>2, <1>8, EntryFacts DEF Taken, SlotsOf
    <2> QED
      BY <1>8, <2>1, <2>2, <2>3 DEF Arrived
  <1>10. \A j \in Taken : j \in Slots /\ mshr'[j] = mshr[j]
    BY <1>5, <1>7 DEF Taken
  <1>11. SameTags
    BY <1>2, <1>3, LookupKeepsTags
  <1>12. OneWayPerLine' /\ \A l \in Lines :
            {i \in Ways' : ways'[SetOf[l]][i].valid /\ ways'[SetOf[l]][i].line = l} = Hits(SetOf[l], l)
    BY <1>11, TagsKept
  <1>13. WaitersMiss'
    <2>1. \A k \in SlotsOf("Core") : Hits(SetOf[mshr[k].req.line], mshr[k].req.line) = {}
      BY DEF CacheInv, TagInv, WaitersMiss
    <2>2. \A k \in SlotsOf("Core")' : mshr'[k].req.line \in Lines
                                      /\ Hits(SetOf[mshr'[k].req.line], mshr'[k].req.line) = {}
      <3>1. \A k \in Taken : mshr[k].req.line \in Lines
        BY <1>2, EntryFacts, RequestFacts DEF Taken
      <3> QED
        BY <1>1, <1>3, <1>6, <1>7, <1>9, <1>10, <2>1, <3>1
    <2> SUFFICES ASSUME NEW k \in SlotsOf("Core")', NEW l \in Lines, l = mshr'[k].req.line
                 PROVE  {i \in Ways' : ways'[SetOf[l]][i].valid /\ ways'[SetOf[l]][i].line = l} = {}
      BY <2>2 DEF WaitersMiss, Hits
    <2> QED
      BY <1>12, <2>2
  <1>14. ReadsWait' /\ ReplayHits'
    <2>1. WriteBack' = WriteBack
      BY DEF WriteBack
    <2>2. \A k \in Taken : WriteBack \/ mshr[k].req.kind = "read"
      BY DEF CacheInv, TagInv, ReadsWait
    <2>3. ReadsWait'
      BY <1>1, <1>6, <1>7, <1>9, <1>10, <2>1, <2>2 DEF ReadsWait
    <2> QED
      BY <1>9, <2>3 DEF ReplayHits
  <1>15. /\ Filling \subseteq Taken
         /\ \A k \in Taken : \E j \in Filling : mshr[j].req.line = mshr[k].req.line
         /\ \A j, k \in Filling : mshr[j].req.line = mshr[k].req.line => j = k
    BY <1>9 DEF CacheInv, TagInv, FillInv
  <1>16. fills[n] = 0 /\ n \notin Filling
    <2>1. n \notin Filling
      BY <1>5, <1>15
    <2> QED
      BY <1>2, <1>5, <2>1 DEF Filling
  <1>17. Lookup(r) <=> \E k \in Taken : mshr[k].req.line = r.line
    BY DEF Lookup, SlotOnLine, Taken
  <1>18. /\ fills' \in [Slots -> {0, 1}]
         /\ Filling' = IF Lookup(r) THEN Filling ELSE Filling \cup {n}
    <2>1. CASE Lookup(r)
      BY <1>1, <1>2, <1>8, <1>9, <2>1 DEF Filling
    <2>2. CASE ~Lookup(r)
      <3>1. fills' \in [Slots -> {0, 1}] /\ fills'[n] = 1 /\ \A j \in Slots \ {n} : fills'[j] = fills[j]
        BY <1>1, <1>2, <1>5, <1>16, <2>2
      <3> QED
        BY <1>5, <1>8, <1>9, <2>2, <3>1 DEF Filling
    <2> QED
      BY <2>1, <2>2
  <1>19. FillInv'
    <2>1. NoDup(memRsp') /\ \A k \in Arrived' : fills'[k] = 0
      BY <1>9 DEF CacheInv, TagInv, FillInv
    <2>2. Filling' \subseteq SlotsOf("Core")'
      BY <1>9, <1>15, <1>18
    <2>3. mshr'[n].req.line = r.line
      BY <1>6, <1>7
    <2>4. \A k \in SlotsOf("Core")' : \E j \in Filling' : mshr'[j].req.line = mshr'[k].req.line
      <3> SUFFICES ASSUME NEW k \in SlotsOf("Core")'
                   PROVE  \E j \in Filling' : mshr'[j].req.line = mshr'[k].req.line
        OBVIOUS
      <3>1. CASE k \in Taken
        BY <1>10, <1>15, <1>18, <3>1
      <3>2. CASE k = n /\ ~Lookup(r)
        BY <1>18, <3>2
      <3>3. CASE k = n /\ Lookup(r)
        <4>1. PICK a \in Taken : mshr[a].req.line = r.line
          BY <1>17, <3>3
        <4>2. PICK j \in Filling : mshr[j].req.line = mshr[a].req.line
          BY <1>15, <4>1
        <4> QED
          BY <1>10, <1>15, <1>18, <2>3, <3>3, <4>1, <4>2
      <3> QED
        BY <1>9, <3>1, <3>2, <3>3
    <2>5. \A j, k \in Filling' : mshr'[j].req.line = mshr'[k].req.line => j = k
      <3>1. CASE Lookup(r)
        BY <1>10, <1>15, <1>18, <3>1
      <3>2. CASE ~Lookup(r)
        <4>1. \A k \in Filling : mshr'[k].req.line # r.line /\ mshr'[k] = mshr[k]
          BY <1>10, <1>15, <1>17, <3>2
        <4> QED
          BY <1>15, <1>18, <2>3, <3>2, <4>1
      <3> QED
        BY <3>1, <3>2
    <2> QED
      BY <2>1, <2>2, <2>4, <2>5 DEF FillInv
  <1>20. mshr'[n].req = r
    BY <1>6, <1>7
  <1> QED
    BY <1>5, <1>7, <1>9, <1>10, <1>12, <1>13, <1>14, <1>18, <1>19, <1>20 DEF TagInv

LEMMA TickCoreInv ==
    ASSUME CacheInv, TickCore
    PROVE  CacheInv'
  <1>1. CacheTypeOK /\ ports \in [Inputs -> Seq(Request)] /\ \A id \in Ids : answers[id] \in {0, 1}
    BY DEF CacheInv, CacheTypeOK
  <1>2. CoreMayRun /\ Bypass /\ UNCHANGED <<config, issued, memRsp, run>>
    BY DEF TickCore
  <1>3. Ways' = Ways /\ Entry' = Entry
    BY <1>2 DEF Ways, Entry
  <1>4. CASE Eligible = {}
    <2> DEFINE T == {}
               D == {}
    <2>1. /\ Popped(T) /\ UNCHANGED <<ways, mshr, fills>>
          /\ answers' = [id \in Ids |-> answers[id] + (IF id \in BypassAnswers THEN 1 ELSE 0)]
      BY <1>4 DEF TickCore
    <2>2. HeadIds(T) = {} /\ T \subseteq Inputs \ IOHeads /\ (\A p \in T : ports[p] # <<>>) /\ D = {}
      BY DEF HeadIds
    <2>3. AnsweredNow(D)
      BY <1>1, <2>1 DEF AnsweredNow
    <2> HIDE DEF T, D
    <2>4. MshrIds' = MshrIds /\ Taken' = Taken
      BY <2>1 DEF MshrIds, Taken
    <2>5. D \subseteq MshrIds \cup HeadIds(T) /\ MshrIds' \subseteq (MshrIds \cup HeadIds(T)) \ D
      BY <2>2, <2>4
    <2>6. WriteResponse => MshrIds \cup HeadIds(T) \subseteq MshrIds' \cup D
      BY <2>2, <2>4
    <2>7. \A a, b \in Taken' : mshr'[a].req.id = mshr'[b].req.id => a = b
      BY <2>1, <2>4 DEF CacheInv, RequestInv, EachOnce
    <2>8. UNCHANGED <<config, issued>>
      BY <1>2
    <2>9. /\ RequestInv' /\ ports' \in [Inputs' -> Seq(Request)] /\ bypassed' \subseteq Ids
          /\ answers' \in [Ids -> {0, 1}]
      BY <1>2, <2>1, <2>2, <2>3, <2>5, <2>6, <2>7, <2>8, TickMoves
    <2>10. CacheTypeOK'
      BY <1>1, <1>2, <1>3, <2>1, <2>9 DEF CacheTypeOK
    <2> QED
      BY <1>2, <2>1, <2>9, <2>10, TagSame DEF CacheInv
  <1>5. CASE Eligible # {}
    <2> DEFINE p == First(Eligible)
               r == Head(ports[p])
               s == SetOf[r.line]
               now == \/ Hits(s, r.line) # {} /\ Responds(r)
                      \/ r.kind = "write" /\ ~WriteBack /\ WriteResponse
               D == IF now THEN {r.id} ELSE {}
               T == {p}
    <2>1. /\ CoreHit(r, s) \/ CoreWriteThrough(r, s) \/ CoreMiss(r, s)
          /\ answers' = [id \in Ids |-> answers[id] + (IF id = r.id /\ now THEN 1 ELSE 0)
                                              + (IF id \in BypassAnswers THEN 1 ELSE 0)]
          /\ Popped(T)
      BY <1>5 DEF TickCore
    <2>2. p \in Eligible
      <3>1. Eligible \subseteq Nat
        BY <1>1, ConfigFacts DEF Eligible
      <3> QED
        BY <1>5, <3>1, FirstExists
    <2> HIDE DEF p
    <2>3. p \in Inputs /\ p \notin IOHeads /\ ports[p] # <<>> /\ ~(NeedsSlot(r) /\ Full)
      BY <2>2 DEF Eligible
    <2>4. r \in Request /\ ~IsIO(r)
      <3>1. r \in Request
        BY <1>1, <2>3, QueueTail
      <3> QED
        BY <2>3, <3>1 DEF IOHeads
    <2>5. HeadIds(T) = {r.id} /\ T \subseteq Inputs \ IOHeads /\ \A q \in T : ports[q] # <<>>
      BY <2>3 DEF HeadIds
    <2>6. \A id : id \in D <=> id = r.id /\ now
      OBVIOUS
    <2> HIDE DEF D
    <2>7. AnsweredNow(D)
      BY <2>1, <2>6 DEF AnsweredNow
    <2>8. s \in Sets
      BY <2>4, RequestFacts
    <2>9. SameTags
      BY <1>1, <2>1, <2>4, <2>8, LookupKeepsTags
    <2>10. r.kind \in {"read", "write"}
      BY <2>4, RequestFacts DEF IsIO
    <2>11. WriteResponse => Responds(r)
      BY DEF Responds
    <2> HIDE DEF T
    <2>12. r.id \in PortIds /\ r.id \notin MshrIds
      <3>1. HeadIds(T) \subseteq PortIds
        <4>1. UNCHANGED <<config, issued>>
          BY <1>2
        <4> QED
          BY <1>2, <2>1, <2>5, <4>1, BypassMoves
      <3>2. PortIds \cap MshrIds = {}
        BY DEF CacheInv, RequestInv, IdsApart
      <3> QED
        BY <2>5, <3>1, <3>2
    <2> HIDE DEF r, s, now
    <2>13. CASE CoreHit(r, s) \/ CoreWriteThrough(r, s)
      <3>1. UNCHANGED <<mshr, fills>>
        BY <2>13 DEF CoreHit, CoreWriteThrough
      <3>2. TagInv'
        <4>1. UNCHANGED <<config, mshr, fills, memRsp>>
          BY <1>2, <3>1
        <4> QED
          BY <2>9, <4>1, TagsUntouched
      <3>3. MshrIds' = MshrIds /\ Taken' = Taken
        BY <3>1 DEF MshrIds, Taken
      <3>4. WriteResponse => now
        BY <2>11, <2>13 DEF CoreHit, CoreWriteThrough, now
      <3>5. D \subseteq MshrIds \cup HeadIds(T) /\ MshrIds' \subseteq (MshrIds \cup HeadIds(T)) \ D
        BY <2>5, <2>6, <2>12, <3>3
      <3>6. WriteResponse => MshrIds \cup HeadIds(T) \subseteq MshrIds' \cup D
        BY <2>5, <2>6, <3>3, <3>4
      <3>7. \A a, b \in Taken' : mshr'[a].req.id = mshr'[b].req.id => a = b
        BY <3>1, <3>3 DEF CacheInv, RequestInv, EachOnce
      <3>8. UNCHANGED <<config, issued>>
        BY <1>2
      <3>9. /\ RequestInv' /\ ports' \in [Inputs' -> Seq(Request)] /\ bypassed' \subseteq Ids
            /\ answers' \in [Ids -> {0, 1}]
        BY <1>2, <2>1, <2>5, <2>7, <3>5, <3>6, <3>7, <3>8, TickMoves
      <3>10. CacheTypeOK'
        BY <1>1, <1>2, <1>3, <2>9, <3>1, <3>9 DEF CacheTypeOK, SameTags
      <3> QED
        BY <3>2, <3>9, <3>10 DEF CacheInv
    <2>14. CASE CoreMiss(r, s)
      <3>1. Hits(s, r.line) = {} /\ (r.kind = "read" \/ WriteBack)
        BY <2>14 DEF CoreMiss
      <3>2. ~Full /\ ~now
        <4>1. NeedsSlot(r)
          BY <2>10, <3>1 DEF NeedsSlot, IsWrite
        <4>2. ~now
          BY <3>1 DEF now
        <4> QED
          BY <2>3, <4>1, <4>2 DEF r
      <3>3. s = SetOf[r.line] /\ UNCHANGED <<config, memRsp>>
        BY <1>2 DEF s
      <3>4. TagInv' /\ mshr' \in [Slots -> Entry] /\ fills' \in [Slots -> {0, 1}]
        BY <1>2, <2>4, <2>14, <3>2, <3>3, MissMoves
      <3>5. PICK n \in Slots \ Taken : /\ Taken' = Taken \cup {n} /\ mshr'[n].req = r
                                       /\ \A j \in Taken : mshr'[j] = mshr[j]
        BY <1>2, <2>4, <2>14, <3>2, <3>3, MissMoves
      <3>6. MshrIds' = MshrIds \cup {r.id}
        BY <3>5 DEF MshrIds
      <3>7. D \subseteq MshrIds \cup HeadIds(T) /\ MshrIds' \subseteq (MshrIds \cup HeadIds(T)) \ D
        BY <2>5, <2>6, <3>2, <3>6
      <3>8. WriteResponse => MshrIds \cup HeadIds(T) \subseteq MshrIds' \cup D
        BY <2>5, <3>6
      <3>9. \A a, b \in Taken' : mshr'[a].req.id = mshr'[b].req.id => a = b
        <4>1. \A a, b \in Taken : mshr[a].req.id = mshr[b].req.id => a = b
          BY DEF CacheInv, RequestInv, EachOnce
        <4>2. \A a \in Taken : mshr[a].req.id # r.id
          BY <2>12 DEF MshrIds
        <4> QED
          BY <3>5, <4>1, <4>2
      <3>10. UNCHANGED <<config, issued>>
        BY <1>2
      <3>11. /\ RequestInv' /\ ports' \in [Inputs' -> Seq(Request)] /\ bypassed' \subseteq Ids
             /\ answers' \in [Ids -> {0, 1}]
        BY <1>2, <2>1, <2>5, <2>7, <3>7, <3>8, <3>9, <3>10, TickMoves
      <3>12. CacheTypeOK'
        BY <1>1, <1>2, <1>3, <2>9, <3>4, <3>11 DEF CacheTypeOK, SameTags
      <3> QED
        BY <3>4, <3>11, <3>12 DEF CacheInv
    <2> QED
      BY <2>1, <2>13, <2>14
  <1> QED
    BY <1>4, <1>5

(* At a restart the MSHR is empty, so that no fill is in flight.           *)
LEMMA RerunInv ==
    ASSUME RestartsClean, CacheInv, Rerun
    PROVE  CacheInv'
  <1>1. /\ run < config.runs /\ CoresIdle /\ run' = run + 1
        /\ ways' = [s \in Sets |-> [i \in Ways |-> [ways[s][i] EXCEPT !.valid = FALSE, !.dirty = FALSE]]]
        /\ mshr' = [k \in Slots |-> FreeSlot]
        /\ fills' \in {f \in [Slots -> 0..1] : \A k \in Slots : f[k] <= fills[k]}
        /\ UNCHANGED <<config, issued, ports, memRsp, bypassed, answers>>
    BY DEF Rerun
  <1>2. CacheTypeOK /\ config \in Configs /\ run \in Nat \ {0} /\ config.runs \in Nat
        /\ config.writeBack \in BOOLEAN /\ WriteResponse \in BOOLEAN
    BY ConfigFacts, CacheAssumption DEF CacheInv, CacheTypeOK
  <1>3. ~WriteBack \/ WriteResponse
    <2>1. ~(config.runs <= 1)
      <3>1. run < config.runs
        BY <1>1
      <3> QED
        BY <1>2, <3>1
    <2>2. config.writeBack /\ ~WriteResponse => config.runs <= 1
      BY <1>2 DEF RestartsClean
    <2> QED
      BY <2>1, <2>2 DEF WriteBack
  <1>4. Taken = {}
    <2> SUFFICES ASSUME NEW k \in Taken PROVE FALSE
      OBVIOUS
    <2>1. k \in Slots /\ mshr[k].type # "None" /\ mshr[k].req \in Request
      BY <1>2, EntryFacts DEF Taken
    <2>2. Responds(mshr[k].req)
      BY <1>3 DEF CacheInv, TagInv, ReadsWait, Responds, IsWrite
    <2>3. answers[mshr[k].req.id] = 0
      <3>1. mshr[k].req.id \in Ids /\ mshr[k].req.id \notin Answered
        BY <2>1, RequestFacts DEF CacheInv, RequestInv, IdsApart, MshrIds
      <3> QED
        BY <1>2, <3>1 DEF CacheTypeOK, Answered
    <2>4. mshr[k].req \in InMshr
      BY <2>1 DEF InMshr, SlotsOf
    <2> QED
      BY <1>1, <2>2, <2>3, <2>4 DEF CoresIdle, Outstanding
  <1>5. Filling = {} /\ Arrived = {} /\ \A k \in Slots : fills[k] = 0
    <2>1. SlotsOf("Core") = {}
      BY <1>4 DEF SlotsOf, Taken
    <2>2. Filling = {}
      BY <2>1 DEF CacheInv, TagInv, FillInv
    <2> QED
      BY <1>2, <2>2 DEF Filling, CacheTypeOK
  <1>6. fills' \in [Slots -> {0, 1}] /\ \A k \in Slots : fills'[k] = 0
    <2>1. fills' \in [Slots -> 0..1] /\ \A k \in Slots : fills'[k] <= fills[k]
      BY <1>1
    <2>2. \A k \in Slots : fills'[k] \in {0, 1} /\ fills'[k] = 0
      BY <1>5, <2>1
    <2> QED
      BY <2>1, <2>2
  <1>7. FreeSlot.type = "None" /\ FreeSlot \in Entry
    BY DEF FreeSlot, Entry
  <1>8. /\ mshr' \in [Slots -> Entry] /\ Taken' = {} /\ SlotsOf("Core")' = {} /\ SlotsOf("Replay")' = {}
    BY <1>1, <1>7 DEF Taken, SlotsOf
  <1>9. Arrived' = {} /\ Filling' = {} /\ NoDup(memRsp')
    <2>1. NoDup(memRsp)
      BY DEF CacheInv, TagInv, FillInv
    <2> QED
      BY <1>1, <1>5, <1>6, <2>1 DEF Arrived, Filling
  <1>10. ASSUME NEW s \in Sets, NEW i \in Ways
         PROVE  ways'[s][i] \in Way /\ ways'[s][i].valid = FALSE
    <2> DEFINE w == ways[s][i]
    <2>1. w \in Way /\ ways'[s][i] = [w EXCEPT !.valid = FALSE, !.dirty = FALSE]
      BY <1>1, <1>2 DEF CacheTypeOK
    <2> HIDE DEF w
    <2> QED
      BY <2>1 DEF Way
  <1>11. ways' \in [Sets -> [Ways -> Way]]
    <2>1. ways' = [s \in Sets |-> [i \in Ways |-> ways'[s][i]]]
      BY <1>1
    <2> QED
      BY <1>10, <2>1
  <1>12. Ways' = Ways /\ Entry' = Entry /\ Inputs' = Inputs
    BY <1>1 DEF Ways, Entry, Inputs
  <1>13. CacheTypeOK'
    <2>1. run' \in Nat \ {0}
      <3>1. run' = run + 1
        BY <1>1
      <3> QED
        BY <1>2, <3>1
    <2> QED
      BY <1>1, <1>2, <1>6, <1>8, <1>11, <1>12, <2>1 DEF CacheTypeOK
  <1>14. TagInv'
    <2>1. OneWayPerLine'
      BY <1>10, <1>12 DEF OneWayPerLine
    <2>2. WaitersMiss' /\ ReadsWait' /\ ReplayHits'
      BY <1>8 DEF WaitersMiss, ReadsWait, ReplayHits
    <2>3. FillInv'
      BY <1>8, <1>9 DEF FillInv
    <2> QED
      BY <2>1, <2>2, <2>3 DEF TagInv
  <1>15. RequestInv'
    <2>1. MshrIds = {} /\ MshrIds' = {}
      BY <1>4, <1>8 DEF MshrIds
    <2>2. PortIds' = PortIds /\ Answered' = Answered
      BY <1>1, <1>12 DEF PortIds, Answered
    <2>3. EachOnce'
      BY <1>1, <1>8, <1>12 DEF CacheInv, RequestInv, EachOnce
    <2>4. IdsApart' /\ IdsCounted'
      BY <1>1, <2>1, <2>2 DEF CacheInv, RequestInv, IdsApart, IdsCounted
    <2> QED
      BY <2>3, <2>4 DEF RequestInv
  <1> QED
    BY <1>13, <1>14, <1>15 DEF CacheInv

LEMMA CacheNext ==
    ASSUME RestartsClean, CacheInv, [Next]_vars
    PROVE  CacheInv'
  <1>1. CASE UNCHANGED vars
    <2>1. UNCHANGED <<config, issued, ports, ways, mshr, fills, memRsp, bypassed, answers, run>>
      BY <1>1 DEF vars
    <2>2. Inputs' = Inputs /\ Ways' = Ways /\ Entry' = Entry
      BY <2>1 DEF Inputs, Ways, Entry
    <2>3. CacheTypeOK'
      BY <2>1, <2>2 DEF CacheInv, CacheTypeOK
    <2> QED
      BY <2>1, <2>3, TagSame, RequestSame DEF CacheInv
  <1>2. CASE \E p \in Inputs : CoreRequest(p)
    BY <1>2, CoreRequestInv
  <1>3. CASE \E k \in Slots : MemRespond(k)
    BY <1>3, MemRespondInv
  <1>4. CASE \E id \in Ids : BypassRespond(id)
    BY <1>4, BypassRespondInv
  <1>5. CASE TickReplay
    BY <1>5, TickReplayInv
  <1>6. CASE TickFill
    BY <1>6, TickFillInv
  <1>7. CASE TickCore
    BY <1>7, TickCoreInv
  <1>8. CASE Rerun
    BY <1>8, RerunInv
  <1> QED
    BY <1>1, <1>2, <1>3, <1>4, <1>5, <1>6, <1>7, <1>8 DEF Next

(* The fills of a slot, and the places of a request, counted.              *)
LEMMA FillsCounted ==
    ASSUME CacheTypeOK, FillInv, NEW k \in Slots
    PROVE  FillsOf(k) = IF k \in Filling THEN 1 ELSE 0
  <1> DEFINE S == {n \in DOMAIN memRsp : memRsp[n] = k}
  <1>1. memRsp \in Seq(Slots) /\ DOMAIN memRsp = 1..Len(memRsp) /\ fills[k] \in {0, 1}
    BY DEF CacheTypeOK
  <1>2. CASE k \in Arrived
    <2>1. PICK n \in 1..Len(memRsp) : memRsp[n] = k
      BY <1>2 DEF Arrived, Elements
    <2>2. S = {n}
      BY <1>1, <2>1 DEF FillInv, NoDup
    <2>3. Cardinality(S) = 1
      BY <2>2, FS_Singleton
    <2>4. fills[k] = 0 /\ k \in Filling
      BY <1>2 DEF FillInv, Filling
    <2> QED
      BY <2>3, <2>4 DEF FillsOf
  <1>3. CASE k \notin Arrived
    <2>1. S = {}
      BY <1>1, <1>3 DEF Arrived, Elements
    <2>2. Cardinality(S) = 0
      BY <2>1, FS_EmptySet
    <2>3. k \in Filling <=> fills[k] = 1
      BY <1>3 DEF Filling
    <2> QED
      BY <1>1, <2>2, <2>3 DEF FillsOf
  <1> QED
    BY <1>2, <1>3

LEMMA FillInvMatches ==
    ASSUME CacheTypeOK, FillInv
    PROVE  FillsMatched
  <1>1. \A k \in Slots : FillsOf(k) = IF k \in Filling THEN 1 ELSE 0
    BY FillsCounted
  <1>2. \A k \in SlotsOf("Core") : k \in Slots /\ mshr[k].type = "Core"
    BY DEF SlotsOf
  <1>3. FillFindsOwner
    BY <1>1, <1>2 DEF FillInv, FillFindsOwner
  <1>4. ASSUME NEW k \in SlotsOf("Core"), NEW same,
               same = {j \in SlotsOf("Core") : mshr[j].req.line = mshr[k].req.line}
        PROVE  \E j \in same : FillsOf(j) = 1 /\ \A i \in same \ {j} : FillsOf(i) = 0
    <2>1. PICK j \in Filling : mshr[j].req.line = mshr[k].req.line
      BY DEF FillInv
    <2>2. j \in same /\ FillsOf(j) = 1
      BY <1>1, <1>2, <1>4, <2>1 DEF FillInv
    <2>3. ASSUME NEW i \in same \ {j} PROVE FillsOf(i) = 0
      <3>1. i \notin Filling
        BY <1>4, <2>1, <2>3 DEF FillInv
      <3> QED
        BY <1>1, <1>2, <1>4, <3>1
    <2> QED
      BY <2>2, <2>3
  <1>5. OneFillPerLine
    BY <1>4 DEF OneFillPerLine
  <1> QED
    BY <1>3, <1>5 DEF FillsMatched

LEMMA PlacesCounted ==
    ASSUME CacheTypeOK, EachOnce, NEW id \in Ids
    PROVE  PlacesOf(id) = (IF id \in PortIds THEN 1 ELSE 0) + (IF id \in MshrIds THEN 1 ELSE 0)
                          + (IF id \in bypassed THEN 1 ELSE 0)
  <1> DEFINE P == {x \in Inputs \X (1..MaxReqs) : x[2] \in DOMAIN ports[x[1]] /\ ports[x[1]][x[2]].id = id}
             M == {k \in Slots : mshr[k].type # "None" /\ mshr[k].req.id = id}
             B == bypassed \cap {id}
  <1>1. \A p \in Inputs : /\ ports[p] \in Seq(Request) /\ DOMAIN ports[p] = 1..Len(ports[p])
                          /\ Len(ports[p]) \in Nat /\ Len(ports[p]) <= issued
    BY DEF CacheTypeOK, EachOnce
  <1>2. issued \in Nat /\ MaxReqs \in Nat /\ issued <= MaxReqs
    <2>1. issued <= config.reqs
      BY DEF CacheTypeOK
    <2> QED
      BY <2>1, ConfigFacts
  <1>3. Cardinality(P) = IF id \in PortIds THEN 1 ELSE 0
    <2>1. CASE id \in PortIds
      <3>1. PICK p \in Inputs : id \in IdsOf(ports[p])
        BY <2>1 DEF PortIds
      <3>2. PICK n \in 1..Len(ports[p]) : ports[p][n].id = id
        BY <3>1 DEF IdsOf
      <3>3. <<p, n>> \in P
        <4>1. n \in 1..MaxReqs /\ n \in DOMAIN ports[p]
          BY <1>1, <1>2, <3>2
        <4> QED
          BY <3>2, <4>1
      <3>4. ASSUME NEW x \in P PROVE x = <<p, n>>
        <4>1. PICK q \in Inputs, m \in 1..MaxReqs : x = <<q, m>>
          OBVIOUS
        <4>2. m \in 1..Len(ports[q]) /\ ports[q][m].id = id
          BY <1>1, <3>4, <4>1
        <4>3. id \in IdsOf(ports[q])
          BY <4>2 DEF IdsOf
        <4>4. q = p
          BY <3>1, <4>3 DEF EachOnce
        <4>5. m = n
          BY <3>2, <4>2, <4>4 DEF EachOnce, DistinctIds
        <4> QED
          BY <4>1, <4>4, <4>5
      <3> HIDE DEF P
      <3>5. P = {<<p, n>>}
        BY <3>3, <3>4
      <3> QED
        BY <2>1, <3>5, FS_Singleton
    <2>2. CASE id \notin PortIds
      <3>1. ASSUME NEW x \in P PROVE FALSE
        <4>1. PICK q \in Inputs, m \in 1..MaxReqs : x = <<q, m>>
          OBVIOUS
        <4>2. m \in 1..Len(ports[q]) /\ ports[q][m].id = id
          BY <1>1, <3>1, <4>1
        <4> QED
          BY <2>2, <4>2 DEF PortIds, IdsOf
      <3> HIDE DEF P
      <3>2. P = {}
        BY <3>1
      <3> QED
        BY <2>2, <3>2, FS_EmptySet
    <2> QED
      BY <2>1, <2>2
  <1>4. Cardinality(M) = IF id \in MshrIds THEN 1 ELSE 0
    <2>1. CASE id \in MshrIds
      <3>1. PICK k \in Taken : mshr[k].req.id = id
        BY <2>1 DEF MshrIds
      <3>2. M = {k}
        BY <3>1 DEF EachOnce, Taken
      <3> QED
        BY <2>1, <3>2, FS_Singleton
    <2>2. CASE id \notin MshrIds
      <3>1. M = {}
        BY <2>2 DEF MshrIds, Taken
      <3> QED
        BY <2>2, <3>1, FS_EmptySet
    <2> QED
      BY <2>1, <2>2
  <1>5. Cardinality(B) = IF id \in bypassed THEN 1 ELSE 0
    <2>1. CASE id \in bypassed
      <3>1. B = {id}
        BY <2>1
      <3> QED
        BY <2>1, <3>1, FS_Singleton
    <2>2. CASE id \notin bypassed
      <3>1. B = {}
        BY <2>2
      <3> QED
        BY <2>2, <3>1, FS_EmptySet
    <2> QED
      BY <2>1, <2>2
  <1>6. PlacesOf(id) = Cardinality(P) + Cardinality(M) + Cardinality(B)
    BY DEF PlacesOf
  <1> HIDE DEF P, M, B
  <1> QED
    BY <1>3, <1>4, <1>5, <1>6

LEMMA RequestInvConserves ==
    ASSUME CacheTypeOK, RequestInv
    PROVE  RequestsConserved
  <1> SUFFICES ASSUME NEW id \in Ids
               PROVE  /\ answers[id] + PlacesOf(id) <= 1
                      /\ WriteResponse /\ id <= issued => answers[id] + PlacesOf(id) = 1
    BY DEF RequestsConserved
  <1>1. PlacesOf(id) = (IF id \in PortIds THEN 1 ELSE 0) + (IF id \in MshrIds THEN 1 ELSE 0)
                       + (IF id \in bypassed THEN 1 ELSE 0)
    BY PlacesCounted DEF RequestInv
  <1>2. answers[id] \in {0, 1} /\ (id \in Answered <=> answers[id] = 1)
    BY DEF CacheTypeOK, Answered
  <1>3. /\ ~(id \in PortIds /\ id \in MshrIds) /\ ~(id \in PortIds /\ id \in bypassed)
        /\ ~(id \in PortIds /\ id \in Answered) /\ ~(id \in MshrIds /\ id \in bypassed)
        /\ ~(id \in MshrIds /\ id \in Answered) /\ ~(id \in bypassed /\ id \in Answered)
    BY DEF RequestInv, IdsApart
  <1>4. WriteResponse /\ id <= issued => id \in PortIds \/ id \in MshrIds \/ id \in bypassed \/ id \in Answered
    <2> SUFFICES ASSUME WriteResponse, id <= issued
                 PROVE  id \in PortIds \/ id \in MshrIds \/ id \in bypassed \/ id \in Answered
      OBVIOUS
    <2>1. id \in 1..issued
      BY ConfigFacts DEF Ids
    <2> QED
      BY <2>1 DEF RequestInv, IdsCounted
  <1>5. answers[id] + PlacesOf(id) <= 1
    BY <1>1, <1>2, <1>3
  <1>6. WriteResponse /\ id <= issued => answers[id] + PlacesOf(id) = 1
    BY <1>1, <1>2, <1>3, <1>4
  <1> QED
    BY <1>5, <1>6

----------------------------------------------------------------------------
LEMMA CacheInvariant == ASSUME RestartsClean PROVE Spec => []CacheInv
  <1>1. Init => CacheInv
    BY CacheInit
  <1>2. CacheInv /\ [Next]_vars => CacheInv'
    BY CacheNext
  <1> QED
    BY <1>1, <1>2, PTL DEF Spec

(* The tag lookup of processRequests is unambiguous in a cache of any      *)
(* size: no order of misses, fills, replays and restarts brings a line     *)
(* into two ways of its set.                                               *)
THEOREM TagsUnique == ASSUME RestartsClean PROVE Spec => []OneWayPerLine
  <1>1. CacheInv => OneWayPerLine
    BY DEF CacheInv, TagInv
  <1> QED
    BY <1>1, CacheInvariant, PTL

(* Every fill comes back to a slot of the MSHR that waits for it, as the   *)
(* assert of MSHR::replay demands, and the slots that wait for one line    *)
(* have exactly one fill among them, for every number of slots.            *)
THEOREM FillsComeHome == ASSUME RestartsClean PROVE Spec => []FillsMatched
  <1>1. CacheInv => FillsMatched
    BY FillInvMatches DEF CacheInv, TagInv
  <1> QED
    BY <1>1, CacheInvariant, PTL

(* A replayed request, which processRequests answers without a lookup,     *)
(* has its line in the cache: nothing has evicted it since the fill.       *)
THEOREM ReplayedLineThere == ASSUME RestartsClean PROVE Spec => []ReplayHits
  <1>1. CacheInv => ReplayHits
    BY DEF CacheInv, TagInv
  <1> QED
    BY <1>1, CacheInvariant, PTL

(* Through the ports, the MSHR, the replays and the bypass, a request is   *)
(* in one place and answered once; none is lost where writes are answered. *)
THEOREM NoRequestLost == ASSUME RestartsClean PROVE Spec => []RequestsConserved
  <1>1. CacheInv => RequestsConserved
    BY RequestInvConserves DEF CacheInv, RequestInv
  <1> QED
    BY <1>1, CacheInvariant, PTL
=============================================================================
