----------------------------- MODULE UnitProofs -----------------------------
(***************************************************************************)
(* Theorems about units of the system: about Switch, for every number of   *)
(* inputs and outputs its constructor accepts, every set of tags and both  *)
(* arbiters, the bits in the tag bring an answer back to the input that    *)
(* asked, and round robin serves every input there is a place for and no   *)
(* other; about Rasterizer, for every size and place of the tile, all      *)
(* edges and scissors, the descent stamps exactly the covered pixels;      *)
(* about Spawn, for every device and every grid that shares out evenly,    *)
(* each thread of each block is run exactly once.                          *)
(***************************************************************************)
EXTENDS Switch, Rasterizer, Spawn, SequenceTheorems, FiniteSetTheorems, WellFoundedInduction, TLAPS

NoDup(s) == \A a, b \in DOMAIN s : s[a] = s[b] => a = b

(* Where a tag of input j may be.                                          *)
Place(j) == j % NumReqs
Reached(j) == OutputOf(j) \in Outputs
Asked(j) == Elements(reqIn[j])
Out(j) == {x \in Nat : Reached(j) /\ Tagged(x, Place(j)) \in reqOut[OutputOf(j)]}
Answered(j) == {x \in Nat : Reached(j) /\ Tagged(x, Place(j)) \in Elements(rspOut[OutputOf(j)])}
Back(j) == Elements(rspIn[j])

SwitchTypeOK ==
    /\ shape \in Shapes
    /\ reqIn \in [Inputs -> Seq(Nat)] /\ rspIn \in [Inputs -> Seq(Nat)]
    /\ owed \in [Inputs -> SUBSET Nat]
    /\ reqOut \in [Outputs -> SUBSET Nat] /\ rspOut \in [Outputs -> Seq(Nat)]
    /\ cursor \in [Outputs -> 0..(NumReqs - 1)]
    /\ passed \in [Inputs -> Nat]

(* No queue holds a tag twice.                                             *)
QueuesNoDup ==
    /\ \A j \in Inputs : NoDup(reqIn[j]) /\ NoDup(rspIn[j])
    /\ \A o \in Outputs : NoDup(rspOut[o])

(* Every tag beyond an output has an input to go back to: a place that is  *)
(* no input is never put into a tag.                                       *)
Owners ==
    \A o \in Outputs : \A tag \in reqOut[o] \cup Elements(rspOut[o]) : o * NumReqs + PlaceOf(tag) \in Inputs

(* The tags input j waits for are shared out between the four places.      *)
Balanced(j) ==
    /\ owed[j] = Asked(j) \cup Out(j) \cup Answered(j) \cup Back(j)
    /\ Asked(j) \cap Out(j) = {} /\ Asked(j) \cap Answered(j) = {} /\ Asked(j) \cap Back(j) = {}
    /\ Out(j) \cap Answered(j) = {} /\ Out(j) \cap Back(j) = {} /\ Answered(j) \cap Back(j) = {}

(* How many inputs come before input j in the round.                       *)
Ahead(j) == IF Place(j) >= cursor[OutputOf(j)] THEN Place(j) - cursor[OutputOf(j)]
            ELSE Place(j) - cursor[OutputOf(j)] + Sharing(OutputOf(j))

(* The more requests have passed input j, the fewer can still come first;  *)
(* the cursor is never beyond the first place that is no input.            *)
Served(j) ==
    Reached(j) =>
        /\ cursor[OutputOf(j)] <= Sharing(OutputOf(j))
        /\ reqIn[j] = <<>> => passed[j] = 0
        /\ shape.arbiter = "RoundRobin" => passed[j] + Ahead(j) < Sharing(OutputOf(j))

(* Nothing comes back to an input that no output looks at.                 *)
Unreached(j) == ~Reached(j) => Back(j) = {}

SwitchInv ==
    /\ SwitchTypeOK
    /\ QueuesNoDup
    /\ Owners
    /\ \A j \in Inputs : Balanced(j)
    /\ \A j \in Inputs : Served(j)
    /\ \A j \in Inputs : Unreached(j)

----------------------------------------------------------------------------
(* Packing a place into a tag and unpacking it again.                      *)
LEMMA PackUnpack ==
    ASSUME NEW n \in Nat \ {0}, NEW t \in Nat, NEW i \in 0..(n - 1)
    PROVE  /\ t * n + i \in Nat
           /\ (t * n + i) % n = i
           /\ (t * n + i) \div n = t
  OBVIOUS

LEMMA UnpackPack ==
    ASSUME NEW n \in Nat \ {0}, NEW t \in Nat
    PROVE  /\ t % n \in 0..(n - 1)
           /\ t \div n \in Nat
           /\ t = (t \div n) * n + (t % n)
  OBVIOUS

(* The least number of a set.                                              *)
LEMMA SmallestNat ==
    ASSUME NEW T, T \subseteq Nat, T # {}
    PROVE  \E n \in T : \A m \in T : n <= m
  <1>1. IsWellFoundedOn(OpToRel(<, Nat), Nat)
    BY NatLessThanWellFounded
  <1>2. PICK n \in T : \A m \in T : ~(<<m, n>> \in OpToRel(<, Nat))
    BY <1>1, WFMin
  <1>3. \A m \in T : ~(m < n)
    BY <1>2 DEF OpToRel
  <1>4. \A m \in T : n <= m
    BY <1>3
  <1> QED
    BY <1>4

(* Powers of two, from the number of subsets of 1..n.                      *)
LEMMA PowerOfTwo ==
    ASSUME NEW n \in Nat
    PROVE  2^n \in Nat /\ 2^n = Cardinality(SUBSET (1..n)) /\ IsFiniteSet(SUBSET (1..n))
<1>1. IsFiniteSet(1..n) /\ Cardinality(1..n) = n
    BY FS_Interval
<1>2. IsFiniteSet(SUBSET (1..n)) /\ Cardinality(SUBSET (1..n)) = 2^n
    BY <1>1, FS_SUBSET
<1> QED
    BY <1>2, FS_CardinalityType

(* One more number doubles the subsets: 1..n+1 has those of 1..n, with and *)
(* without n+1.                                                            *)
LEMMA PowerDoubles ==
    ASSUME NEW n \in Nat
    PROVE  2^(n + 1) = 2^n + 2^n /\ 2^n \in Nat /\ 2^(n + 1) \in Nat
<1> DEFINE A == SUBSET (1..n)
           B == {s \cup {n + 1} : s \in A}
           f == [s \in A |-> s \cup {n + 1}]
<1>1. A \cup B = SUBSET (1..(n + 1))
  <2>1. ASSUME NEW s \in SUBSET (1..(n + 1)), n + 1 \in s
        PROVE  s \in B
    <3>1. s \ {n + 1} \in A
        OBVIOUS
    <3>2. s = (s \ {n + 1}) \cup {n + 1}
        BY <2>1
    <3> QED
        BY <3>1, <3>2
  <2>2. ASSUME NEW s \in SUBSET (1..(n + 1)), n + 1 \notin s
        PROVE  s \in A
      BY <2>2
  <2>3. ASSUME NEW s \in A
        PROVE  s \in SUBSET (1..(n + 1)) /\ s \cup {n + 1} \in SUBSET (1..(n + 1))
      OBVIOUS
  <2> HIDE DEF A
  <2> QED
      BY <2>1, <2>2, <2>3
<1>2. A \cap B = {}
    OBVIOUS
<1>3. f \in Bijection(A, B)
  <2>1. f \in [A -> B]
      OBVIOUS
  <2>2. ASSUME NEW s \in A, NEW t \in A, s \cup {n + 1} = t \cup {n + 1}
        PROVE  s = t
      BY <2>2
  <2>3. \A s, t \in A : f[s] = f[t] => s = t
      BY <2>2
  <2>4. \A b \in B : \E s \in A : f[s] = b
      OBVIOUS
  <2> QED
      BY <2>1, <2>3, <2>4 DEF Bijection, Injection, Surjection, IsInjective
<1>4. IsFiniteSet(A) /\ Cardinality(A) = 2^n /\ 2^n \in Nat
    BY PowerOfTwo
<1>5. IsFiniteSet(B) /\ Cardinality(B) = 2^n
  <2> HIDE DEF A, B, f
  <2> QED
      BY <1>3, <1>4, FS_Bijection DEF ExistsBijection
<1>6. Cardinality(A \cup B) = 2^n + 2^n
  <2>1. Cardinality(A \cap B) = 0
      BY <1>2, FS_EmptySet
  <2> HIDE DEF A, B, f
  <2>2. Cardinality(A \cup B) = Cardinality(A) + Cardinality(B) - Cardinality(A \cap B)
      BY <1>4, <1>5, FS_Union
  <2> QED
      BY <2>1, <2>2, <1>4, <1>5
<1>7. n + 1 \in Nat
    OBVIOUS
<1>8. 2^(n + 1) = Cardinality(SUBSET (1..(n + 1))) /\ 2^(n + 1) \in Nat
    BY <1>7, PowerOfTwo
<1> QED
    BY <1>1, <1>4, <1>6, <1>8

(* A sum of two places, reduced.                                           *)
LEMMA AddMod ==
    ASSUME NEW n \in Nat \ {0}, NEW a \in 0..(n - 1), NEW b \in 0..n
    PROVE  (a + b) % n = IF a + b < n THEN a + b ELSE a + b - n
  <1>1. CASE a + b < n
    <2>1. (0 * n + (a + b)) % n = a + b
      BY <1>1, PackUnpack
    <2> QED
      BY <1>1, <2>1
  <1>2. CASE a + b >= n
    <2>1. (1 * n + (a + b - n)) % n = a + b - n
      BY <1>2, PackUnpack
    <2> QED
      BY <1>2, <2>1
  <1> QED
    BY <1>1, <1>2

(* The largest ratio the constructor admits has a power of two above it.   *)
LEMMA ThirtyTwo ==
    2^5 = 32 /\ \A k \in 0..5 : 2^k \in Nat
  <1>1. 2^0 = 1
    <2>1. SUBSET (1..0) = {{}}
      OBVIOUS
    <2>2. 2^0 = Cardinality(SUBSET (1..0))
      BY PowerOfTwo
    <2> QED
      BY <2>1, <2>2, FS_Singleton
  <1>2. /\ 2^(0 + 1) = 2^0 + 2^0 /\ 2^(1 + 1) = 2^1 + 2^1 /\ 2^(2 + 1) = 2^2 + 2^2
        /\ 2^(3 + 1) = 2^3 + 2^3 /\ 2^(4 + 1) = 2^4 + 2^4
    BY PowerDoubles
  <1>3. 0 + 1 = 1 /\ 1 + 1 = 2 /\ 2 + 1 = 3 /\ 3 + 1 = 4 /\ 4 + 1 = 5
    OBVIOUS
  <1>4. 2^1 = 2 /\ 2^2 = 4 /\ 2^3 = 8 /\ 2^4 = 16 /\ 2^5 = 32
    BY <1>1, <1>2, <1>3
  <1>5. \A k \in 0..5 : 2^k \in Nat
    <2> TAKE k \in 0..5
    <2>1. k \in Nat
      OBVIOUS
    <2> QED
      BY <2>1, PowerOfTwo
  <1> QED
    BY <1>4, <1>5

(* The places of an output: at least the ratio, at least one.              *)
LEMMA ShapeNumbers ==
    ASSUME SwitchAssumption, shape \in Shapes
    PROVE  /\ shape.inputs \in Nat \ {0} /\ shape.outputs \in Nat \ {0}
           /\ NumReqs \in Nat \ {0} /\ NumReqs >= PerOutput(shape) /\ PerOutput(shape) \in Nat
  <1>1. shape.inputs \in 1..32 /\ shape.outputs \in 1..shape.inputs
    BY DEF SwitchAssumption
  <1>2. PerOutput(shape) \in 1..32
    BY <1>1 DEF PerOutput
  <1> DEFINE T == {k \in 0..5 : 2^k >= PerOutput(shape)}
  <1>3. 5 \in T
    BY <1>2, ThirtyTwo
  <1>4. PICK k0 \in T : \A m \in T : k0 <= m
    <2>1. T \subseteq Nat
      OBVIOUS
    <2> HIDE DEF T
    <2>2. T # {}
      BY <1>3
    <2> QED
      BY <2>1, <2>2, SmallestNat
  <1>5. k0 \in 0..5 /\ 2^k0 >= PerOutput(shape)
    BY <1>4
  <1>6. ASSUME NEW m \in 0..(k0 - 1) PROVE 2^m < PerOutput(shape)
    <2>1. m \in 0..5 /\ m < k0
      BY <1>5
    <2>2. 2^m \in Nat
      BY <2>1, ThirtyTwo
    <2>3. m \notin T
      BY <1>4, <1>5, <2>1
    <2> QED
      BY <1>2, <2>1, <2>2, <2>3
  <1>7. LgNumReqs(shape) \in 0..5 /\ 2^LgNumReqs(shape) >= PerOutput(shape)
    BY <1>5, <1>6 DEF LgNumReqs
  <1>8. NumReqs = 2^LgNumReqs(shape)
    BY DEF NumReqs, NumReqsOf
  <1>9. 2^LgNumReqs(shape) \in Nat
    BY <1>7, ThirtyTwo
  <1> QED
    BY <1>1, <1>2, <1>7, <1>8, <1>9

(* Inputs are numbered output by output.                                   *)
LEMMA InputNumber ==
    ASSUME SwitchAssumption, shape \in Shapes, NEW o \in Outputs, NEW i \in 0..(NumReqs - 1)
    PROVE  /\ o * NumReqs + i \in Nat
           /\ o * NumReqs + i < shape.inputs => o * NumReqs + i \in Inputs
           /\ Place(o * NumReqs + i) = i
           /\ OutputOf(o * NumReqs + i) = o
  <1>1. shape.inputs \in Nat \ {0} /\ shape.outputs \in Nat \ {0} /\ NumReqs \in Nat \ {0}
    BY ShapeNumbers
  <1>2. o \in Nat
    BY <1>1 DEF Outputs
  <1>3. o * NumReqs + i \in Nat /\ Place(o * NumReqs + i) = i /\ OutputOf(o * NumReqs + i) = o
    BY <1>1, <1>2, PackUnpack DEF Place, OutputOf
  <1>4. \A j \in Nat : j < shape.inputs => j \in Inputs
    BY <1>1 DEF Inputs
  <1> QED
    BY <1>3, <1>4

LEMMA InputSplit ==
    ASSUME SwitchAssumption, shape \in Shapes, NEW j \in Inputs
    PROVE  /\ Place(j) \in 0..(NumReqs - 1)
           /\ OutputOf(j) \in Nat
           /\ j = OutputOf(j) * NumReqs + Place(j)
  <1>1. shape.inputs \in Nat \ {0} /\ NumReqs \in Nat \ {0}
    BY ShapeNumbers
  <1>2. j \in Nat
    BY <1>1 DEF Inputs
  <1> QED
    BY <1>1, <1>2, UnpackPack DEF Place, OutputOf

(* The inputs of an output have its first places.                          *)
LEMMA SharingPlaces ==
    ASSUME SwitchAssumption, shape \in Shapes, NEW j \in Inputs
    PROVE  /\ Sharing(OutputOf(j)) \in 1..NumReqs
           /\ Place(j) < Sharing(OutputOf(j))
  <1>1. shape.inputs \in Nat \ {0} /\ NumReqs \in Nat \ {0} /\ j \in Nat /\ j < shape.inputs
    BY ShapeNumbers DEF Inputs
  <1> DEFINE o == OutputOf(j)
             b == o * NumReqs
  <1>2. Place(j) \in 0..(NumReqs - 1) /\ o \in Nat /\ j = b + Place(j)
    BY InputSplit
  <1>3. b \in Nat /\ (o + 1) * NumReqs = b + NumReqs
    BY <1>1, <1>2
  <1>4. Sharing(o) = IF b + NumReqs <= shape.inputs THEN NumReqs ELSE shape.inputs - b
    BY <1>3 DEF Sharing
  <1> HIDE DEF o, b
  <1>5. Sharing(o) \in 1..NumReqs /\ Place(j) < Sharing(o)
    BY <1>1, <1>2, <1>3, <1>4
  <1> QED
    BY <1>5 DEF o

(* With room for every input, every input has an output.                   *)
LEMMA CoveredReached ==
    ASSUME SwitchAssumption, shape \in Shapes, InputsCovered, NEW j \in Inputs
    PROVE  Reached(j)
  <1>1. /\ shape.inputs \in Nat \ {0} /\ shape.outputs \in Nat \ {0} /\ NumReqs \in Nat \ {0}
        /\ j \in Nat /\ j < shape.outputs * NumReqs
    BY ShapeNumbers DEF Inputs, InputsCovered
  <1>2. Place(j) \in 0..(NumReqs - 1) /\ OutputOf(j) \in Nat /\ j = OutputOf(j) * NumReqs + Place(j)
    BY InputSplit
  <1>3. CASE OutputOf(j) >= shape.outputs
    <2>1. OutputOf(j) * NumReqs >= shape.outputs * NumReqs
      BY <1>1, <1>2, <1>3
    <2> QED
      BY <1>1, <1>2, <2>1
  <1> QED
    BY <1>1, <1>2, <1>3 DEF Reached, Outputs

(* A tag at an output is one tag of one place.                             *)
LEMMA TagOwner ==
    ASSUME SwitchAssumption, shape \in Shapes, NEW o \in Outputs, NEW tag \in Nat
    PROVE  /\ TagOf(tag) \in Nat
           /\ PlaceOf(tag) \in 0..(NumReqs - 1)
           /\ OutputOf(o * NumReqs + PlaceOf(tag)) = o
           /\ \A k \in Inputs, y \in Nat :
                (OutputOf(k) = o /\ Tagged(y, Place(k)) = tag)
                    <=> (k = o * NumReqs + PlaceOf(tag) /\ y = TagOf(tag))
  <1>1. NumReqs \in Nat \ {0}
    BY ShapeNumbers
  <1>2. /\ TagOf(tag) \in Nat /\ PlaceOf(tag) \in 0..(NumReqs - 1)
        /\ tag = Tagged(TagOf(tag), PlaceOf(tag))
    BY <1>1, UnpackPack DEF TagOf, PlaceOf, Tagged
  <1>3. /\ Place(o * NumReqs + PlaceOf(tag)) = PlaceOf(tag)
        /\ OutputOf(o * NumReqs + PlaceOf(tag)) = o
    BY <1>2, InputNumber
  <1>4. ASSUME NEW k \in Inputs, NEW y \in Nat, OutputOf(k) = o, Tagged(y, Place(k)) = tag
        PROVE  k = o * NumReqs + PlaceOf(tag) /\ y = TagOf(tag)
    <2>1. Place(k) \in 0..(NumReqs - 1) /\ k = OutputOf(k) * NumReqs + Place(k)
      BY InputSplit
    <2>2. tag % NumReqs = Place(k) /\ tag \div NumReqs = y
      BY <1>1, <1>4, <2>1, PackUnpack DEF Tagged
    <2> QED
      BY <1>4, <2>1, <2>2 DEF PlaceOf, TagOf
  <1> QED
    BY <1>2, <1>3, <1>4

LEMMA TurnIs ==
    ASSUME NumReqs \in Nat \ {0}, NEW o, cursor[o] \in 0..(NumReqs - 1), NEW r \in 0..(NumReqs - 1)
    PROVE  /\ Turn(o, r) = IF cursor[o] + r < NumReqs THEN cursor[o] + r ELSE cursor[o] + r - NumReqs
           /\ Turn(o, r) \in 0..(NumReqs - 1)
  <1>1. \A n \in Nat \ {0} : \A a, b \in 0..(n - 1) :
           (a + b) % n = IF a + b < n THEN a + b ELSE a + b - n
    <2> TAKE n \in Nat \ {0}
    <2> TAKE a, b \in 0..(n - 1)
    <2>1. b \in 0..n
      OBVIOUS
    <2> QED
      BY <2>1, AddMod
  <1>2. Turn(o, r) = IF cursor[o] + r < NumReqs THEN cursor[o] + r ELSE cursor[o] + r - NumReqs
    BY <1>1 DEF Turn
  <1> QED
    BY <1>2

LEMMA SameShape ==
    ASSUME shape' = shape
    PROVE  /\ NumReqs' = NumReqs /\ Inputs' = Inputs /\ Outputs' = Outputs
           /\ \A j \in Inputs : Place(j)' = Place(j) /\ OutputOf(j)' = OutputOf(j) /\ Reached(j)' = Reached(j)
           /\ \A j \in Inputs : Sharing(OutputOf(j))' = Sharing(OutputOf(j))
           /\ \A x, i \in Nat : Tagged(x, i)' = Tagged(x, i)
           /\ \A x \in Nat : PlaceOf(x)' = PlaceOf(x)
  <1>1. NumReqs' = NumReqs /\ Inputs' = Inputs /\ Outputs' = Outputs
    BY DEF NumReqs, Inputs, Outputs
  <1> QED
    BY <1>1 DEF Place, OutputOf, Reached, Sharing, Tagged, PlaceOf

----------------------------------------------------------------------------
(* Queues.                                                                 *)
LEMMA QueueAppend ==
    ASSUME NEW s \in Seq(Nat), NEW x \in Nat
    PROVE  /\ Append(s, x) \in Seq(Nat)
           /\ Append(s, x) # <<>>
           /\ Elements(Append(s, x)) = Elements(s) \cup {x}
           /\ NoDup(s) /\ x \notin Elements(s) => NoDup(Append(s, x))
  <1> DEFINE t == Append(s, x)
  <1>1. /\ t \in Seq(Nat) /\ Len(t) = Len(s) + 1 /\ t[Len(s) + 1] = x
        /\ \A k \in 1..Len(s) : t[k] = s[k]
        /\ DOMAIN t = 1..(Len(s) + 1) /\ DOMAIN s = 1..Len(s) /\ Len(s) \in Nat
    OBVIOUS
  <1>2. Append(s, x) # <<>>
    BY <1>1
  <1> HIDE DEF t
  <1>3. Elements(t) = Elements(s) \cup {x}
    <2>1. ASSUME NEW v \in Elements(t) PROVE v \in Elements(s) \cup {x}
      BY SMTT(30), <1>1, <2>1 DEF Elements
    <2>2. ASSUME NEW v \in Elements(s) PROVE v \in Elements(t)
      <3>1. PICK k \in DOMAIN s : v = s[k]
        BY <2>2 DEF Elements
      <3>2. k \in DOMAIN t /\ t[k] = v
        BY <1>1, <3>1
      <3> QED
        BY <3>2 DEF Elements
    <2>3. x \in Elements(t)
      <3>1. Len(s) + 1 \in DOMAIN t /\ t[Len(s) + 1] = x
        BY <1>1
      <3> QED
        BY <3>1 DEF Elements
    <2> QED
      BY <2>1, <2>2, <2>3
  <1>4. NoDup(s) /\ x \notin Elements(s) => NoDup(t)
    <2> SUFFICES ASSUME NoDup(s), x \notin Elements(s), NEW a \in DOMAIN t, NEW b \in DOMAIN t, t[a] = t[b]
                 PROVE  a = b
      BY DEF NoDup
    <2>1. \A k \in 1..Len(s) : s[k] # x
      BY <1>1 DEF Elements
    <2>2. /\ a \in 1..Len(s) \/ a = Len(s) + 1
          /\ b \in 1..Len(s) \/ b = Len(s) + 1
      BY <1>1
    <2>3. CASE a \in 1..Len(s) /\ b \in 1..Len(s)
      <3>1. s[a] = s[b] /\ a \in DOMAIN s /\ b \in DOMAIN s
        BY <1>1, <2>3
      <3> QED
        BY <3>1 DEF NoDup
    <2> QED
      BY <1>1, <2>1, <2>2, <2>3
  <1> QED
    BY <1>1, <1>2, <1>3, <1>4 DEF t

LEMMA QueueTail ==
    ASSUME NEW s \in Seq(Nat), s # <<>>, NoDup(s)
    PROVE  /\ Tail(s) \in Seq(Nat)
           /\ Head(s) \in Nat
           /\ Head(s) \in Elements(s)
           /\ Elements(Tail(s)) = Elements(s) \ {Head(s)}
           /\ NoDup(Tail(s))
  <1> DEFINE t == Tail(s)
  <1>1. /\ t \in Seq(Nat) /\ Len(t) = Len(s) - 1 /\ Head(s) = s[1]
        /\ \A k \in 1..(Len(s) - 1) : t[k] = s[k + 1]
        /\ DOMAIN t = 1..(Len(s) - 1) /\ DOMAIN s = 1..Len(s) /\ Len(s) \in Nat \ {0}
        /\ Head(s) \in Nat
    OBVIOUS
  <1> HIDE DEF t
  <1>2. Head(s) \in Elements(s)
    <2>1. 1 \in DOMAIN s
      BY <1>1
    <2> QED
      BY <1>1, <2>1 DEF Elements
  <1>3. Elements(t) = Elements(s) \ {Head(s)}
    <2>1. ASSUME NEW v \in Elements(t) PROVE v \in Elements(s) /\ v # Head(s)
      <3>1. PICK k \in DOMAIN t : v = t[k]
        BY <2>1 DEF Elements
      <3>2. k + 1 \in DOMAIN s /\ 1 \in DOMAIN s /\ v = s[k + 1] /\ k + 1 # 1
        BY SMTT(30), <1>1, <3>1
      <3> QED
        BY <1>1, <3>2 DEF Elements, NoDup
    <2>2. ASSUME NEW v \in Elements(s), v # Head(s) PROVE v \in Elements(t)
      <3>1. PICK k \in DOMAIN s : v = s[k]
        BY <2>2 DEF Elements
      <3>2. k - 1 \in 1..(Len(s) - 1) /\ (k - 1) + 1 = k
        BY SMTT(30), <1>1, <2>2, <3>1
      <3>3. k - 1 \in DOMAIN t /\ t[k - 1] = v
        BY <1>1, <3>1, <3>2
      <3> QED
        BY <3>3 DEF Elements
    <2> QED
      BY <2>1, <2>2
  <1>4. NoDup(t)
    <2> SUFFICES ASSUME NEW a \in DOMAIN t, NEW b \in DOMAIN t, t[a] = t[b]
                 PROVE  a = b
      BY DEF NoDup
    <2>0. DOMAIN t = 1..(Len(s) - 1) /\ Len(s) \in Nat
      BY <1>1
    <2> a \in 1..(Len(s) - 1) /\ b \in 1..(Len(s) - 1)
      BY <2>0
    <2>1. a + 1 \in 1..Len(s) /\ b + 1 \in 1..Len(s)
      BY <2>0
    <2>2. s[a + 1] = s[b + 1]
      BY <1>1, <2>1
    <2>3. a + 1 = b + 1
      BY <1>1, <2>1, <2>2 DEF NoDup
    <2> QED
      BY <2>1, <2>3
  <1> QED
    BY <1>1, <1>2, <1>3, <1>4 DEF t

----------------------------------------------------------------------------
LEMMA InitInv ==
    ASSUME SwitchAssumption, SwitchInit
    PROVE  SwitchInv
  <1>1. shape \in Shapes /\ NumReqs \in Nat \ {0}
    BY ShapeNumbers DEF SwitchInit
  <1>2. SwitchTypeOK
    BY <1>1 DEF SwitchInit, SwitchTypeOK
  <1>3. QueuesNoDup
    BY DEF SwitchInit, QueuesNoDup, NoDup
  <1>4. \A o \in Outputs : reqOut[o] = {} /\ Elements(rspOut[o]) = {} /\ cursor[o] = 0
    BY DEF SwitchInit, Elements
  <1>5. Owners
    BY <1>4 DEF Owners
  <1>6. ASSUME NEW j \in Inputs
        PROVE  Balanced(j) /\ Served(j) /\ Unreached(j)
    <2>1. Place(j) \in 0..(NumReqs - 1) /\ Sharing(OutputOf(j)) \in 1..NumReqs /\ Place(j) < Sharing(OutputOf(j))
      BY <1>1, InputSplit, SharingPlaces
    <2>2. Asked(j) = {} /\ Back(j) = {} /\ owed[j] = {}
      BY DEF SwitchInit, Asked, Back, Elements
    <2>3. Out(j) = {} /\ Answered(j) = {}
      BY <1>4 DEF Out, Answered, Reached
    <2>4. passed[j] = 0 /\ (Reached(j) => cursor[OutputOf(j)] = 0)
      BY <1>4 DEF SwitchInit, Reached
    <2>5. Served(j)
      BY <1>1, <2>1, <2>4 DEF Served, Ahead
    <2> QED
      BY <2>2, <2>3, <2>5 DEF Balanced, Unreached
  <1> QED
    BY <1>2, <1>3, <1>5, <1>6 DEF SwitchInv

(* Balanced is about the four places and what the input waits for, Served  *)
(* about the queue, the cursor and the count.                              *)
LEMMA BalancedSame ==
    ASSUME NEW j, Balanced(j), owed'[j] = owed[j], Asked(j)' = Asked(j), Out(j)' = Out(j),
           Answered(j)' = Answered(j), Back(j)' = Back(j)
    PROVE  Balanced(j)'
  BY DEF Balanced

LEMMA ServedSame ==
    ASSUME NEW j \in Inputs, Served(j), shape' = shape, cursor' = cursor, passed' = passed,
           reqIn'[j] = <<>> => reqIn[j] = <<>>
    PROVE  Served(j)'
  <1>1. Sharing(OutputOf(j))' = Sharing(OutputOf(j)) /\ Reached(j)' = Reached(j) /\ OutputOf(j)' = OutputOf(j)
    BY SameShape
  <1>2. Ahead(j)' = Ahead(j)
    BY <1>1, SameShape DEF Ahead
  <1> QED
    BY <1>1, <1>2 DEF Served

LEMMA UnreachedSame ==
    ASSUME NEW j \in Inputs, Unreached(j), shape' = shape, Back(j)' = Back(j)
    PROVE  Unreached(j)'
  <1>1. Reached(j)' = Reached(j)
    BY SameShape
  <1> QED
    BY <1>1 DEF Unreached

LEMMA OwnersSame ==
    ASSUME SwitchInv, shape' = shape, reqOut' = reqOut, rspOut' = rspOut
    PROVE  Owners'
  <1>1. NumReqs' = NumReqs /\ Inputs' = Inputs /\ Outputs' = Outputs
    BY SameShape
  <1> QED
    BY <1>1 DEF SwitchInv, Owners, PlaceOf, Elements

LEMMA BeyondSame ==
    ASSUME NEW j \in Inputs, shape' = shape, reqOut' = reqOut, rspOut' = rspOut
    PROVE  Out(j)' = Out(j) /\ Answered(j)' = Answered(j)
  <1>1. /\ Reached(j)' = Reached(j) /\ OutputOf(j)' = OutputOf(j) /\ Place(j)' = Place(j)
        /\ NumReqs' = NumReqs
    BY SameShape
  <1> QED
    BY <1>1 DEF Out, Answered, Tagged, Elements

LEMMA StutterInv ==
    ASSUME SwitchInv, UNCHANGED switchVars
    PROVE  SwitchInv'
  <1>1. /\ shape' = shape /\ NumReqs' = NumReqs /\ Inputs' = Inputs /\ Outputs' = Outputs
        /\ reqOut' = reqOut /\ rspOut' = rspOut
    BY SameShape DEF switchVars
  <1>2. SwitchTypeOK'
    BY <1>1 DEF switchVars, SwitchInv, SwitchTypeOK
  <1>3. QueuesNoDup'
    BY <1>1 DEF switchVars, SwitchInv, QueuesNoDup
  <1>4. ASSUME NEW j \in Inputs
        PROVE  Balanced(j)' /\ Served(j)' /\ Unreached(j)'
    <2>1. Asked(j)' = Asked(j) /\ Out(j)' = Out(j) /\ Answered(j)' = Answered(j) /\ Back(j)' = Back(j)
      BY <1>1, BeyondSame DEF switchVars, Asked, Back
    <2> QED
      BY <1>1, <2>1, BalancedSame, ServedSame, UnreachedSame DEF switchVars, SwitchInv
  <1> QED
    BY <1>1, <1>2, <1>3, <1>4, OwnersSame DEF SwitchInv

LEMMA RequestInv ==
    ASSUME SwitchAssumption, SwitchInv, NEW j \in Inputs, NEW tag \in shape.tags, Request(j, tag)
    PROVE  SwitchInv'
  <1>1. /\ shape' = shape /\ NumReqs' = NumReqs /\ Inputs' = Inputs /\ Outputs' = Outputs
        /\ cursor' = cursor /\ passed' = passed /\ reqOut' = reqOut /\ rspOut' = rspOut /\ rspIn' = rspIn
    BY SameShape DEF Request
  <1>2. shape \in Shapes /\ tag \in Nat /\ reqIn[j] \in Seq(Nat) /\ NoDup(reqIn[j])
    BY DEF SwitchInv, SwitchTypeOK, SwitchAssumption, QueuesNoDup
  <1>3. /\ reqIn' = [reqIn EXCEPT ![j] = Append(reqIn[j], tag)]
        /\ owed' = [owed EXCEPT ![j] = owed[j] \cup {tag}] /\ tag \notin owed[j]
    BY DEF Request
  <1>4. tag \notin Asked(j) /\ tag \notin Out(j) /\ tag \notin Answered(j) /\ tag \notin Back(j)
    BY <1>3 DEF SwitchInv, Balanced
  <1>5. /\ Append(reqIn[j], tag) \in Seq(Nat) /\ NoDup(Append(reqIn[j], tag))
        /\ Append(reqIn[j], tag) # <<>>
        /\ Elements(Append(reqIn[j], tag)) = Asked(j) \cup {tag}
    BY <1>2, <1>4, QueueAppend DEF Asked
  <1>6. SwitchTypeOK'
    BY <1>1, <1>2, <1>3, <1>5 DEF SwitchInv, SwitchTypeOK
  <1>7. QueuesNoDup'
    BY <1>1, <1>3, <1>5 DEF SwitchInv, SwitchTypeOK, QueuesNoDup
  <1>8. ASSUME NEW k \in Inputs
        PROVE  Balanced(k)' /\ Served(k)' /\ Unreached(k)'
    <2>1. Out(k)' = Out(k) /\ Answered(k)' = Answered(k) /\ Back(k)' = Back(k)
      BY <1>1, BeyondSame DEF Back
    <2>2. Balanced(k) /\ Served(k) /\ Unreached(k) /\ k \in DOMAIN reqIn /\ k \in DOMAIN owed
      BY DEF SwitchInv, SwitchTypeOK
    <2>3. Served(k)' /\ Unreached(k)'
      <3>1. reqIn'[k] = <<>> => reqIn[k] = <<>>
        BY <1>3, <1>5, <2>2
      <3> QED
        BY <1>1, <2>1, <2>2, <3>1, ServedSame, UnreachedSame
    <2>4. CASE k = j
      <3>1. Asked(j)' = Asked(j) \cup {tag} /\ owed'[j] = owed[j] \cup {tag}
        BY <1>3, <1>5, <2>2, <2>4 DEF Asked
      <3> QED
        BY <1>4, <2>1, <2>2, <2>3, <2>4, <3>1 DEF Balanced
    <2>5. CASE k # j
      <3>1. Asked(k)' = Asked(k) /\ owed'[k] = owed[k]
        BY <1>3, <2>2, <2>5 DEF Asked
      <3> QED
        BY <2>1, <2>2, <2>3, <3>1, BalancedSame
    <2> QED
      BY <2>4, <2>5
  <1> QED
    BY <1>1, <1>6, <1>7, <1>8, OwnersSame DEF SwitchInv

LEMMA ReceiveInv ==
    ASSUME SwitchAssumption, SwitchInv, NEW j \in Inputs, Receive(j)
    PROVE  SwitchInv'
  <1>1. /\ shape' = shape /\ NumReqs' = NumReqs /\ Inputs' = Inputs /\ Outputs' = Outputs
        /\ cursor' = cursor /\ passed' = passed /\ reqOut' = reqOut /\ rspOut' = rspOut /\ reqIn' = reqIn
    BY SameShape DEF Receive
  <1>2. rspIn[j] \in Seq(Nat) /\ NoDup(rspIn[j])
    BY DEF SwitchInv, SwitchTypeOK, QueuesNoDup
  <1> DEFINE x == Head(rspIn[j])
  <1>3. /\ rspIn' = [rspIn EXCEPT ![j] = Tail(rspIn[j])] /\ rspIn[j] # <<>>
        /\ owed' = [owed EXCEPT ![j] = owed[j] \ {x}]
    BY DEF Receive
  <1>4. /\ Tail(rspIn[j]) \in Seq(Nat) /\ NoDup(Tail(rspIn[j])) /\ x \in Back(j)
        /\ Elements(Tail(rspIn[j])) = Back(j) \ {x}
    BY <1>2, <1>3, QueueTail DEF Back
  <1> HIDE DEF x
  <1>5. SwitchTypeOK'
    BY <1>1, <1>3, <1>4 DEF SwitchInv, SwitchTypeOK
  <1>6. QueuesNoDup'
    BY <1>1, <1>3, <1>4 DEF SwitchInv, SwitchTypeOK, QueuesNoDup
  <1>7. ASSUME NEW k \in Inputs
        PROVE  Balanced(k)' /\ Served(k)' /\ Unreached(k)'
    <2>1. Out(k)' = Out(k) /\ Answered(k)' = Answered(k) /\ Asked(k)' = Asked(k)
      BY <1>1, BeyondSame DEF Asked
    <2>2. Balanced(k) /\ Served(k) /\ Unreached(k) /\ k \in DOMAIN rspIn /\ k \in DOMAIN owed
      BY DEF SwitchInv, SwitchTypeOK
    <2>3. Served(k)'
      BY <1>1, <2>2, ServedSame
    <2>4. CASE k = j
      <3>1. Back(j)' = Back(j) \ {x} /\ owed'[j] = owed[j] \ {x}
        BY <1>3, <1>4, <2>2, <2>4 DEF Back
      <3>2. Unreached(k)'
        BY <1>1, <2>2, <2>4, <3>1, SameShape DEF Unreached
      <3> QED
        BY <1>4, <2>1, <2>2, <2>3, <2>4, <3>1, <3>2 DEF Balanced
    <2>5. CASE k # j
      <3>1. Back(k)' = Back(k) /\ owed'[k] = owed[k]
        BY <1>3, <2>2, <2>5 DEF Back
      <3> QED
        BY <1>1, <2>1, <2>2, <2>3, <3>1, BalancedSame, UnreachedSame
    <2> QED
      BY <2>4, <2>5
  <1> QED
    BY <1>1, <1>5, <1>6, <1>7, OwnersSame DEF SwitchInv

(* The memory moves a tag of one input from its requests to its answers.   *)
LEMMA AnswerInv ==
    ASSUME SwitchAssumption, SwitchInv, NEW o \in Outputs, NEW tag \in reqOut[o], Answer(o, tag)
    PROVE  SwitchInv'
  <1>1. /\ shape' = shape /\ NumReqs' = NumReqs /\ Inputs' = Inputs /\ Outputs' = Outputs
        /\ cursor' = cursor /\ passed' = passed /\ reqIn' = reqIn /\ rspIn' = rspIn /\ owed' = owed
    BY SameShape DEF Answer
  <1>2. /\ shape \in Shapes /\ tag \in Nat /\ rspOut[o] \in Seq(Nat) /\ NoDup(rspOut[o])
        /\ reqOut \in [Outputs -> SUBSET Nat] /\ rspOut \in [Outputs -> Seq(Nat)]
    BY DEF SwitchInv, SwitchTypeOK, QueuesNoDup
  <1>3. /\ reqOut' = [reqOut EXCEPT ![o] = reqOut[o] \ {tag}]
        /\ rspOut' = [rspOut EXCEPT ![o] = Append(rspOut[o], tag)]
    BY DEF Answer
  <1> DEFINE j == o * NumReqs + PlaceOf(tag)
             x == TagOf(tag)
  <1>4. /\ j \in Inputs /\ x \in Nat
        /\ \A k \in Inputs, y \in Nat :
              (OutputOf(k) = o /\ Tagged(y, Place(k)) = tag) <=> (k = j /\ y = x)
    BY <1>2, TagOwner DEF SwitchInv, Owners
  <1> HIDE DEF j, x
  <1>5. x \in Out(j) /\ x \notin Answered(j) /\ OutputOf(j) = o /\ Tagged(x, Place(j)) = tag
    <2>1. OutputOf(j) = o /\ Tagged(x, Place(j)) = tag
      BY <1>4
    <2>2. x \in Out(j)
      BY <1>4, <2>1 DEF Out, Reached
    <2> QED
      BY <1>4, <2>1, <2>2 DEF SwitchInv, Balanced
  <1>6. tag \notin Elements(rspOut[o])
    BY <1>4, <1>5 DEF Answered, Reached
  <1>7. /\ Append(rspOut[o], tag) \in Seq(Nat) /\ NoDup(Append(rspOut[o], tag))
        /\ Elements(Append(rspOut[o], tag)) = Elements(rspOut[o]) \cup {tag}
    BY <1>2, <1>6, QueueAppend
  <1>8. SwitchTypeOK'
    BY <1>1, <1>2, <1>3, <1>7 DEF SwitchInv, SwitchTypeOK
  <1>9. QueuesNoDup'
    BY <1>1, <1>2, <1>3, <1>7 DEF SwitchInv, QueuesNoDup
  <1>10. ASSUME NEW k \in Inputs
         PROVE  Balanced(k)' /\ Served(k)' /\ Unreached(k)'
    <2>1. Asked(k)' = Asked(k) /\ Back(k)' = Back(k)
      BY <1>1 DEF Asked, Back
    <2>2. Balanced(k) /\ Served(k) /\ Unreached(k)
      BY DEF SwitchInv
    <2>3. Served(k)' /\ Unreached(k)'
      BY <1>1, <2>1, <2>2, ServedSame, UnreachedSame
    <2>4. /\ \A y \in Nat : Tagged(y, Place(k))' = Tagged(y, Place(k))
          /\ OutputOf(k)' = OutputOf(k) /\ Reached(k)' = Reached(k)
      BY <1>1, SameShape DEF Tagged
    <2>5. \A y \in Nat : y \in Out(k)' <=> y \in Out(k) /\ ~(k = j /\ y = x)
      BY <1>2, <1>3, <1>4, <2>4 DEF Out, Reached
    <2>6. \A y \in Nat : y \in Answered(k)' <=> y \in Answered(k) \/ (k = j /\ y = x)
      BY <1>2, <1>3, <1>4, <1>7, <2>4 DEF Answered, Reached
    <2>7. Out(k) \subseteq Nat /\ Out(k)' \subseteq Nat /\ Answered(k) \subseteq Nat /\ Answered(k)' \subseteq Nat
      BY DEF Out, Answered
    <2>8. CASE k = j
      <3>1. Out(k)' = Out(k) \ {x} /\ Answered(k)' = Answered(k) \cup {x} /\ x \in Out(k)
        BY <1>4, <1>5, <2>5, <2>6, <2>7, <2>8
      <3> QED
        BY <1>1, <2>1, <2>2, <2>3, <3>1 DEF Balanced
    <2>9. CASE k # j
      <3>1. Out(k)' = Out(k) /\ Answered(k)' = Answered(k)
        BY <2>5, <2>6, <2>7, <2>9
      <3> QED
        BY <1>1, <2>1, <2>2, <2>3, <3>1, BalancedSame
    <2> QED
      BY <2>8, <2>9
  <1>11. Owners'
    <2> SUFFICES ASSUME NEW p \in Outputs, NEW t \in reqOut'[p] \cup Elements(rspOut'[p])
                 PROVE  p * NumReqs + PlaceOf(t) \in Inputs
      BY <1>1 DEF Owners, PlaceOf, Elements
    <2>1. t \in reqOut[p] \cup Elements(rspOut[p])
      BY <1>2, <1>3, <1>7
    <2> QED
      BY <2>1 DEF SwitchInv, Owners
  <1> QED
    BY <1>1, <1>8, <1>9, <1>10, <1>11 DEF SwitchInv

----------------------------------------------------------------------------
(* A tick.  The request that goes on is the first at or after the cursor.  *)
LEMMA GrantedFirst ==
    ASSUME SwitchAssumption, SwitchInv, NEW o \in Outputs, Grants(o)
    PROVE  /\ Granted(o) \in 0..(NumReqs - 1)
           /\ Waiting(o, Granted(o))
           /\ \A q \in 0..(Granted(o) - 1) : ~Waiting(o, q)
  <1>1. NumReqs \in Nat \ {0}
    BY ShapeNumbers DEF SwitchInv, SwitchTypeOK
  <1>2. PICK r \in 0..(NumReqs - 1) : Waiting(o, r)
    BY DEF Grants
  <1> DEFINE T == {q \in 0..(NumReqs - 1) : Waiting(o, q)}
  <1>3. T \subseteq Nat /\ T # {}
    BY <1>1, <1>2
  <1>4. PICK r0 \in T : \A q \in T : r0 <= q
    <2> HIDE DEF T
    <2> QED
      BY <1>3, SmallestNat
  <1>5. r0 \in 0..(NumReqs - 1) /\ Waiting(o, r0)
    OBVIOUS
  <1>6. ASSUME NEW q \in 0..(r0 - 1) PROVE ~Waiting(o, q)
    BY <1>1, <1>4, <1>5
  <1> QED
    BY <1>5, <1>6 DEF Granted

(* A request of one input goes from its queue to the output.               *)
LEMMA ForwardMoves ==
    ASSUME SwitchAssumption, SwitchInv, NEW o \in Outputs, Forwarded(o), shape' = shape
    PROVE  /\ reqIn' \in [Inputs -> Seq(Nat)] /\ reqOut' \in [Outputs -> SUBSET Nat]
           /\ \A k \in Inputs : NoDup(reqIn'[k])
           /\ \A p \in Outputs : \A t \in reqOut'[p] : p * NumReqs + PlaceOf(t) \in Inputs
           /\ \A k \in Inputs : \E M \in SUBSET Asked(k) :
                  Asked(k)' = Asked(k) \ M /\ Out(k)' = Out(k) \cup M
  <1>1. /\ shape \in Shapes /\ NumReqs \in Nat \ {0} /\ NumReqs' = NumReqs
        /\ reqIn \in [Inputs -> Seq(Nat)] /\ reqOut \in [Outputs -> SUBSET Nat]
        /\ cursor[o] \in 0..(NumReqs - 1)
        /\ \A k \in Inputs : NoDup(reqIn[k])
        /\ \A p \in Outputs : \A t \in reqOut[p] : p * NumReqs + PlaceOf(t) \in Inputs
    BY ShapeNumbers, SameShape DEF SwitchInv, SwitchTypeOK, QueuesNoDup, Owners
  <1>2. CASE ~Grants(o)
    <2>1. reqIn' = reqIn /\ reqOut' = reqOut
      BY <1>2 DEF Forwarded
    <2>2. \A k \in Inputs : Asked(k)' = Asked(k) \ {} /\ Out(k)' = Out(k) \cup {}
      BY <1>1, <2>1, SameShape DEF Asked, Out, Tagged
    <2>3. \A k \in Inputs : {} \in SUBSET Asked(k)
      OBVIOUS
    <2> QED
      BY <1>1, <2>1, <2>2, <2>3
  <1>3. CASE Grants(o)
    <2> DEFINE i == Turn(o, Granted(o))
               j == o * NumReqs + i
               x == Head(reqIn[j])
    <2>1. Granted(o) \in 0..(NumReqs - 1) /\ j < shape.inputs /\ reqIn[j] # <<>>
      BY <1>3, GrantedFirst DEF Waiting
    <2>2. i \in 0..(NumReqs - 1)
      BY <1>1, <2>1, TurnIs
    <2>3. /\ reqIn' = [reqIn EXCEPT ![j] = Tail(reqIn[j])]
          /\ reqOut' = [reqOut EXCEPT ![o] = reqOut[o] \cup {Tagged(x, i)}]
      BY <1>3 DEF Forwarded
    <2> HIDE DEF i
    <2>4. j \in Inputs /\ Place(j) = i /\ OutputOf(j) = o
      BY <1>1, <2>1, <2>2, InputNumber
    <2> HIDE DEF j
    <2>5. /\ Tail(reqIn[j]) \in Seq(Nat) /\ NoDup(Tail(reqIn[j])) /\ x \in Nat /\ x \in Asked(j)
          /\ Elements(Tail(reqIn[j])) = Asked(j) \ {x}
      BY <1>1, <2>1, <2>4, QueueTail DEF Asked
    <2> HIDE DEF x
    <2>6. Tagged(x, i) \in Nat
      BY <1>1, <2>2, <2>5, PackUnpack DEF Tagged
    <2>7. ASSUME NEW k \in Inputs
          PROVE  \E M \in SUBSET Asked(k) : Asked(k)' = Asked(k) \ M /\ Out(k)' = Out(k) \cup M
      <3>1. Place(k) \in 0..(NumReqs - 1) /\ k = OutputOf(k) * NumReqs + Place(k)
        BY <1>1, InputSplit
      <3>2. /\ \A y \in Nat : Tagged(y, Place(k))' = Tagged(y, Place(k))
            /\ OutputOf(k)' = OutputOf(k) /\ Reached(k)' = Reached(k)
        BY <1>1, SameShape DEF Tagged
      <3>3. ASSUME NEW y \in Nat, OutputOf(k) = o, Tagged(y, Place(k)) = Tagged(x, i)
            PROVE  k = j /\ y = x
        <4>0. y * NumReqs + Place(k) = x * NumReqs + i
          BY <3>3 DEF Tagged
        <4>1. Place(k) = i /\ y = x
          <5>1. (y * NumReqs + Place(k)) % NumReqs = Place(k) /\ (y * NumReqs + Place(k)) \div NumReqs = y
            BY <1>1, <3>1, PackUnpack
          <5>2. (x * NumReqs + i) % NumReqs = i /\ (x * NumReqs + i) \div NumReqs = x
            BY <1>1, <2>2, <2>5, PackUnpack
          <5> QED
            BY <4>0, <5>1, <5>2
        <4> QED
          BY <3>1, <3>3, <4>1 DEF j
      <3>4. \A y \in Nat : y \in Out(k)' <=> y \in Out(k) \/ (k = j /\ y = x)
        <4>1. \A y \in Nat : y \in Out(k)' <=> Reached(k) /\ Tagged(y, Place(k)) \in reqOut'[OutputOf(k)]
          BY <3>2 DEF Out
        <4>2. \A y \in Nat : y \in Out(k) <=> Reached(k) /\ Tagged(y, Place(k)) \in reqOut[OutputOf(k)]
          BY DEF Out
        <4> QED
          BY <1>1, <2>3, <2>4, <3>1, <3>3, <4>1, <4>2 DEF Reached
      <3>5. Out(k) \subseteq Nat /\ Out(k)' \subseteq Nat
        BY DEF Out
      <3>6. CASE k = j
        <4>1. Asked(k)' = Asked(k) \ {x} /\ Out(k)' = Out(k) \cup {x} /\ {x} \in SUBSET Asked(k)
          BY <1>1, <2>3, <2>5, <3>4, <3>5, <3>6 DEF Asked
        <4> QED
          BY <4>1
      <3>7. CASE k # j
        <4>1. Asked(k)' = Asked(k) \ {} /\ Out(k)' = Out(k) \cup {} /\ {} \in SUBSET Asked(k)
          BY <1>1, <2>3, <3>4, <3>5, <3>7 DEF Asked
        <4> QED
          BY <4>1
      <3> QED
        BY <3>6, <3>7
    <2>8. PlaceOf(Tagged(x, i)) = i
      BY <1>1, <2>2, <2>5, PackUnpack DEF Tagged, PlaceOf
    <2>9. \A p \in Outputs : \A t \in reqOut'[p] : p * NumReqs + PlaceOf(t) \in Inputs
      BY <1>1, <2>3, <2>4, <2>8 DEF j
    <2> QED
      BY <1>1, <2>3, <2>4, <2>5, <2>6, <2>7, <2>9
  <1> QED
    BY <1>2, <1>3

(* An answer at an output goes to the queue of the input it belongs to.    *)
LEMMA ReturnMoves ==
    ASSUME SwitchAssumption, SwitchInv, NEW o \in Outputs, Returned(o), shape' = shape
    PROVE  /\ rspIn' \in [Inputs -> Seq(Nat)] /\ rspOut' \in [Outputs -> Seq(Nat)]
           /\ \A k \in Inputs : NoDup(rspIn'[k])
           /\ \A p \in Outputs : NoDup(rspOut'[p]) /\ Elements(rspOut'[p]) \subseteq Elements(rspOut[p])
           /\ \A k \in Inputs : \E M \in SUBSET Answered(k) :
                  Answered(k)' = Answered(k) \ M /\ Back(k)' = Back(k) \cup M
  <1>1. /\ shape \in Shapes /\ NumReqs' = NumReqs
        /\ rspIn \in [Inputs -> Seq(Nat)] /\ rspOut \in [Outputs -> Seq(Nat)]
        /\ \A k \in Inputs : NoDup(rspIn[k])
        /\ \A p \in Outputs : NoDup(rspOut[p])
    BY SameShape DEF SwitchInv, SwitchTypeOK, QueuesNoDup
  <1>2. CASE rspOut[o] = <<>>
    <2>1. rspIn' = rspIn /\ rspOut' = rspOut
      BY <1>2 DEF Returned
    <2>2. \A k \in Inputs : Answered(k)' = Answered(k) \ {} /\ Back(k)' = Back(k) \cup {}
      BY <1>1, <2>1, SameShape DEF Answered, Back, Tagged
    <2>3. \A k \in Inputs : {} \in SUBSET Answered(k)
      OBVIOUS
    <2> QED
      BY <1>1, <2>1, <2>2, <2>3
  <1>3. CASE rspOut[o] # <<>>
    <2> DEFINE rsp == Head(rspOut[o])
               j == o * NumReqs + PlaceOf(rsp)
               x == TagOf(rsp)
    <2>1. /\ rspOut' = [rspOut EXCEPT ![o] = Tail(rspOut[o])]
          /\ rspIn' = [rspIn EXCEPT ![j] = Append(rspIn[j], x)]
      BY <1>3 DEF Returned
    <2>2. /\ Tail(rspOut[o]) \in Seq(Nat) /\ NoDup(Tail(rspOut[o]))
          /\ rsp \in Nat /\ rsp \in Elements(rspOut[o])
          /\ Elements(Tail(rspOut[o])) = Elements(rspOut[o]) \ {rsp}
      BY <1>1, <1>3, QueueTail
    <2> HIDE DEF rsp
    <2>3. /\ j \in Inputs /\ x \in Nat
          /\ \A k \in Inputs, y \in Nat :
                (OutputOf(k) = o /\ Tagged(y, Place(k)) = rsp) <=> (k = j /\ y = x)
      BY <1>1, <2>2, TagOwner DEF SwitchInv, Owners
    <2> HIDE DEF j, x
    <2>4. x \in Answered(j) /\ x \notin Back(j)
      <3>1. OutputOf(j) = o /\ Tagged(x, Place(j)) = rsp
        BY <2>3
      <3>2. x \in Answered(j)
        BY <2>2, <2>3, <3>1 DEF Answered, Reached
      <3> QED
        BY <2>3, <3>2 DEF SwitchInv, Balanced
    <2>5. /\ Append(rspIn[j], x) \in Seq(Nat) /\ NoDup(Append(rspIn[j], x))
          /\ Elements(Append(rspIn[j], x)) = Back(j) \cup {x}
      BY <1>1, <2>3, <2>4, QueueAppend DEF Back
    <2>6. ASSUME NEW k \in Inputs
          PROVE  \E M \in SUBSET Answered(k) : Answered(k)' = Answered(k) \ M /\ Back(k)' = Back(k) \cup M
      <3>2. /\ \A y \in Nat : Tagged(y, Place(k))' = Tagged(y, Place(k))
            /\ OutputOf(k)' = OutputOf(k) /\ Reached(k)' = Reached(k)
        BY <1>1, SameShape DEF Tagged
      <3>3. \A y \in Nat : y \in Answered(k)' <=> y \in Answered(k) /\ ~(k = j /\ y = x)
        <4>1. \A y \in Nat : y \in Answered(k)'
                 <=> Reached(k) /\ Tagged(y, Place(k)) \in Elements(rspOut'[OutputOf(k)])
          BY <3>2 DEF Answered
        <4>2. \A y \in Nat : y \in Answered(k)
                 <=> Reached(k) /\ Tagged(y, Place(k)) \in Elements(rspOut[OutputOf(k)])
          BY DEF Answered
        <4> QED
          BY <1>1, <2>1, <2>2, <2>3, <4>1, <4>2 DEF Reached
      <3>4. Answered(k) \subseteq Nat /\ Answered(k)' \subseteq Nat
        BY DEF Answered
      <3>5. CASE k = j
        <4>1. Answered(k)' = Answered(k) \ {x} /\ Back(k)' = Back(k) \cup {x} /\ {x} \in SUBSET Answered(k)
          BY <1>1, <2>1, <2>4, <2>5, <3>3, <3>4, <3>5 DEF Back
        <4> QED
          BY <4>1
      <3>6. CASE k # j
        <4>1. Answered(k)' = Answered(k) \ {} /\ Back(k)' = Back(k) \cup {} /\ {} \in SUBSET Answered(k)
          BY <1>1, <2>1, <3>3, <3>4, <3>6 DEF Back
        <4> QED
          BY <4>1
      <3> QED
        BY <3>5, <3>6
    <2> QED
      BY <1>1, <2>1, <2>2, <2>3, <2>5, <2>6
  <1> QED
    BY <1>2, <1>3

(* Where place p of S comes in the round that starts at the cursor.        *)
Rank(p, c, S) == IF p >= c THEN p - c ELSE p - c + S

(* A place that is served, at distance r from the cursor among n places,   *)
(* comes before a waiting place p at a larger distance; when the cursor    *)
(* moves past it, p is nearer, although only the first S places are used.  *)
LEMMA RankFalls ==
    ASSUME NEW n \in Nat \ {0}, NEW S \in 1..n, NEW c \in 0..(n - 1), c <= S,
           NEW p \in 0..(S - 1), NEW i \in 0..(S - 1), Rank(i, c, n) < Rank(p, c, n),
           NEW d, d = IF i + 1 < n THEN i + 1 ELSE 0
    PROVE  /\ d \in 0..(n - 1) /\ d <= S
           /\ Rank(p, d, S) < Rank(p, c, S)
  BY DEF Rank

LEMMA RankBounds ==
    ASSUME NEW S \in Nat, NEW c \in 0..S, NEW p \in 0..(S - 1)
    PROVE  Rank(p, c, S) \in 0..(S - 1)
  BY DEF Rank

(* Round robin: a waiting input is farther from the cursor than the one    *)
(* that is served, and the cursor moves past that one.                     *)
LEMMA ForwardServes ==
    ASSUME SwitchAssumption, SwitchInv, NEW o \in Outputs, Forwarded(o), shape' = shape
    PROVE  /\ cursor' \in [Outputs -> 0..(NumReqs - 1)]
           /\ passed' \in [Inputs -> Nat]
           /\ \A k \in Inputs : Served(k)'
  <1>1. /\ shape \in Shapes /\ NumReqs \in Nat \ {0} /\ NumReqs' = NumReqs
        /\ reqIn \in [Inputs -> Seq(Nat)] /\ passed \in [Inputs -> Nat]
        /\ cursor \in [Outputs -> 0..(NumReqs - 1)] /\ cursor[o] \in 0..(NumReqs - 1)
        /\ \A k \in Inputs : Served(k)
    BY ShapeNumbers, SameShape DEF SwitchInv, SwitchTypeOK
  <1>2. CASE ~Grants(o)
    <2>1. reqIn' = reqIn /\ cursor' = cursor /\ passed' = passed
      BY <1>2 DEF Forwarded
    <2> QED
      BY <1>1, <2>1, ServedSame
  <1>3. CASE Grants(o)
    <2> DEFINE r == Granted(o)
               i == Turn(o, r)
               j == o * NumReqs + i
               c == CursorAfter(o, i) % NumReqs
    <2>1. /\ r \in 0..(NumReqs - 1) /\ j < shape.inputs /\ reqIn[j] # <<>>
          /\ \A q \in 0..(r - 1) : ~Waiting(o, q)
      BY <1>3, GrantedFirst DEF Waiting
    <2>2. /\ i \in 0..(NumReqs - 1)
          /\ i = IF cursor[o] + r < NumReqs THEN cursor[o] + r ELSE cursor[o] + r - NumReqs
      BY <1>1, <2>1, TurnIs
    <2>3. /\ reqIn' = [reqIn EXCEPT ![j] = Tail(reqIn[j])]
          /\ cursor' = [cursor EXCEPT ![o] = c]
          /\ passed' = [k \in Inputs |->
                 IF k = j THEN 0
                 ELSE IF GoesPast(o, k) /\ reqIn[k] # <<>> /\ passed[k] < NumReqs THEN passed[k] + 1
                 ELSE passed[k]]
      BY <1>3 DEF Forwarded
    <2> HIDE DEF r
    <2>4. /\ c \in 0..(NumReqs - 1)
          /\ shape.arbiter = "RoundRobin" => c = IF i + 1 < NumReqs THEN i + 1 ELSE 0
          /\ shape.arbiter # "RoundRobin" => c = cursor[o]
      <3>1. CASE shape.arbiter = "RoundRobin"
        <4>1. CursorAfter(o, i) = i + 1
          BY <3>1 DEF CursorAfter
        <4>2. (i + 1) % NumReqs = IF i + 1 < NumReqs THEN i + 1 ELSE i + 1 - NumReqs
          <5> HIDE DEF i
          <5>1. 1 \in 0..NumReqs
            BY <1>1
          <5> QED
            BY <1>1, <2>2, <5>1, AddMod
        <4> QED
          BY <1>1, <2>2, <3>1, <4>1, <4>2
      <3>2. CASE shape.arbiter # "RoundRobin"
        <4>1. CursorAfter(o, i) = cursor[o]
          BY <3>2 DEF CursorAfter
        <4>2. cursor[o] % NumReqs = cursor[o]
          <5>1. (0 * NumReqs + cursor[o]) % NumReqs = cursor[o]
            BY <1>1, PackUnpack
          <5> QED
            BY <1>1, <5>1
        <4> QED
          BY <1>1, <3>2, <4>1, <4>2
      <3> QED
        BY <3>1, <3>2
    <2> HIDE DEF i, c
    <2>5. j \in Inputs /\ Place(j) = i /\ OutputOf(j) = o
      BY <1>1, <2>1, <2>2, InputNumber
    <2>6. cursor' \in [Outputs -> 0..(NumReqs - 1)] /\ cursor'[o] = c
      BY <1>1, <2>3, <2>4
    <2>7. passed' \in [Inputs -> Nat]
      BY <1>1, <2>3
    <2>8. ASSUME NEW k \in Inputs, Reached(k)
          PROVE  Served(k)'
      <3> DEFINE S == Sharing(OutputOf(k))
      <3>1. /\ Place(k) \in 0..(NumReqs - 1) /\ k = OutputOf(k) * NumReqs + Place(k)
            /\ OutputOf(k) \in Outputs /\ OutputOf(k)' = OutputOf(k) /\ Place(k)' = Place(k)
            /\ S \in 1..NumReqs /\ Sharing(OutputOf(k))' = S /\ Place(k) \in 0..(S - 1)
        <4>1. S \in 1..NumReqs /\ Place(k) < S
          BY <1>1, SharingPlaces
        <4> QED
          BY <1>1, <2>8, <4>1, InputSplit, SameShape DEF Reached
      <3>2. S = Sharing(OutputOf(k))
        OBVIOUS
      <3> HIDE DEF S
      <3>3. /\ Ahead(k) = Rank(Place(k), cursor[OutputOf(k)], S)
            /\ Ahead(k)' = Rank(Place(k), cursor'[OutputOf(k)], S)
        BY <3>1, <3>2 DEF Ahead, Rank
      <3>4. /\ cursor[OutputOf(k)] <= S
            /\ reqIn[k] = <<>> => passed[k] = 0
            /\ shape.arbiter = "RoundRobin" => passed[k] + Ahead(k) < S
        BY <1>1, <2>8, <3>2 DEF Served
      <3>5. SUFFICES /\ cursor'[OutputOf(k)] <= S
                     /\ reqIn'[k] = <<>> => passed'[k] = 0
                     /\ shape.arbiter = "RoundRobin" => passed'[k] + Ahead(k)' < S
        BY <3>1, <3>2 DEF Served
      <3>6. CASE OutputOf(k) # o
        <4>1. ~GoesPast(o, k) /\ k # j
          BY <2>5, <2>8, <3>6 DEF GoesPast, Reached
        <4>2. passed'[k] = passed[k] /\ reqIn'[k] = reqIn[k] /\ cursor'[OutputOf(k)] = cursor[OutputOf(k)]
          BY <1>1, <2>3, <3>1, <3>6, <4>1
        <4> QED
          BY <3>3, <3>4, <4>2
      <3>7. CASE OutputOf(k) = o
        <4>1. i \in 0..(S - 1)
          <5>1. Place(j) < Sharing(OutputOf(j))
            BY <1>1, <2>5, SharingPlaces
          <5> QED
            BY <2>2, <2>5, <3>1, <3>2, <3>7, <5>1
        <4>2. c \in 0..(NumReqs - 1) /\ c <= S
          BY <1>1, <2>4, <3>1, <3>4, <3>7, <4>1
        <4>3. cursor'[OutputOf(k)] = c /\ Ahead(k)' \in 0..(S - 1)
          BY <2>6, <3>1, <3>3, <3>7, <4>2, RankBounds
        <4>4. CASE k = j
          BY <2>3, <3>1, <4>2, <4>3, <4>4
        <4>5. CASE k # j /\ reqIn[k] = <<>>
          <5>1. passed'[k] = 0
            BY <2>3, <3>4, <4>5
          <5> QED
            BY <3>1, <4>2, <4>3, <5>1
        <4>6. CASE k # j /\ reqIn[k] # <<>>
          <5> DEFINE a == Rank(Place(k), cursor[o], NumReqs)
          <5>1. reqIn'[k] = reqIn[k] /\ passed[k] \in Nat /\ passed'[k] \in Nat /\ passed'[k] <= passed[k] + 1
            BY <1>1, <2>3, <2>7, <4>6
          <5>2. a \in 0..(NumReqs - 1) /\ Turn(o, a) = Place(k)
            <6>1. a \in 0..(NumReqs - 1)
              BY <1>1, <3>1 DEF Rank
            <6>2. Turn(o, a) = IF cursor[o] + a < NumReqs THEN cursor[o] + a ELSE cursor[o] + a - NumReqs
              <7> HIDE DEF a
              <7> QED
                BY <1>1, <6>1, TurnIs
            <6> QED
              BY <1>1, <3>1, <6>1, <6>2 DEF Rank
          <5> HIDE DEF a
          <5>3. Waiting(o, a)
            <6>1. k < shape.inputs
              BY <1>1, ShapeNumbers DEF Inputs
            <6> QED
              BY <3>1, <3>7, <4>6, <5>2, <6>1 DEF Waiting
          <5>4. r < a
            <6>1. a # r
              BY <3>1, <3>7, <4>6, <5>2 DEF i, j
            <6> QED
              BY <2>1, <5>2, <5>3, <6>1
          <5>5. Rank(i, cursor[o], NumReqs) = r
            BY <1>1, <2>1, <2>2 DEF Rank
          <5>6. shape.arbiter = "RoundRobin" => Rank(Place(k), c, S) < Rank(Place(k), cursor[o], S)
            <6> HIDE DEF j
            <6>1. Rank(i, cursor[o], NumReqs) < Rank(Place(k), cursor[o], NumReqs)
              BY <5>4, <5>5 DEF a
            <6>2. cursor[o] <= S
              BY <3>4, <3>7
            <6> QED
              BY <1>1, <2>4, <3>1, <4>1, <6>1, <6>2, RankFalls
          <5>7. /\ Rank(Place(k), c, S) \in 0..(S - 1) /\ Rank(Place(k), cursor[o], S) \in 0..(S - 1)
            <6>1. S \in Nat /\ c \in 0..S /\ cursor[o] \in 0..S
              BY <1>1, <3>1, <3>4, <3>7, <4>2
            <6> QED
              BY <3>1, <6>1, RankBounds
          <5>8. shape.arbiter = "RoundRobin" => passed'[k] + Ahead(k)' < S
            BY <3>1, <3>3, <3>4, <3>7, <4>3, <5>1, <5>6, <5>7
          <5> QED
            BY <4>2, <4>3, <4>6, <5>1, <5>8
        <4> QED
          BY <4>4, <4>5, <4>6
      <3> QED
        BY <3>6, <3>7
    <2>9. ASSUME NEW k \in Inputs, ~Reached(k)
          PROVE  Served(k)'
      BY <2>9, SameShape DEF Served
    <2> QED
      BY <2>6, <2>7, <2>8, <2>9
  <1> QED
    BY <1>2, <1>3

(* An output sends an answer back and a request on in the same tick.       *)
LEMMA TickInv ==
    ASSUME SwitchAssumption, SwitchInv, NEW o \in Outputs, Tick(o)
    PROVE  SwitchInv'
  <1>1. /\ shape' = shape /\ owed' = owed /\ NumReqs' = NumReqs /\ Inputs' = Inputs /\ Outputs' = Outputs
    BY SameShape DEF Tick
  <1>2. Forwarded(o) /\ Returned(o)
    BY DEF Tick
  <1>3. SwitchTypeOK'
    BY <1>1, <1>2, ForwardMoves, ReturnMoves, ForwardServes DEF SwitchInv, SwitchTypeOK
  <1>4. QueuesNoDup'
    BY <1>1, <1>2, ForwardMoves, ReturnMoves DEF QueuesNoDup
  <1>5. ASSUME NEW k \in Inputs
        PROVE  Balanced(k)'
    <2>1. PICK M \in SUBSET Asked(k) : Asked(k)' = Asked(k) \ M /\ Out(k)' = Out(k) \cup M
      BY <1>1, <1>2, ForwardMoves
    <2>2. PICK N \in SUBSET Answered(k) : Answered(k)' = Answered(k) \ N /\ Back(k)' = Back(k) \cup N
      BY <1>1, <1>2, ReturnMoves
    <2>3. Balanced(k)
      BY DEF SwitchInv
    <2>4. owed'[k] = Asked(k)' \cup Out(k)' \cup Answered(k)' \cup Back(k)'
      BY <1>1, <2>1, <2>2, <2>3 DEF Balanced
    <2>5. /\ Asked(k)' \cap Out(k)' = {} /\ Asked(k)' \cap Answered(k)' = {} /\ Asked(k)' \cap Back(k)' = {}
          /\ Out(k)' \cap Answered(k)' = {} /\ Out(k)' \cap Back(k)' = {} /\ Answered(k)' \cap Back(k)' = {}
      BY <2>1, <2>2, <2>3 DEF Balanced
    <2> QED
      BY <2>4, <2>5 DEF Balanced
  <1>6. ASSUME NEW k \in Inputs
        PROVE  Unreached(k)'
    <2>1. PICK N \in SUBSET Answered(k) : Back(k)' = Back(k) \cup N
      BY <1>1, <1>2, ReturnMoves
    <2>2. Unreached(k) /\ Reached(k)' = Reached(k)
      BY <1>1, SameShape DEF SwitchInv
    <2>3. ~Reached(k) => Answered(k) = {}
      BY DEF Answered
    <2> QED
      BY <2>1, <2>2, <2>3 DEF Unreached
  <1>7. Owners'
    <2> SUFFICES ASSUME NEW p \in Outputs, NEW t \in reqOut'[p] \cup Elements(rspOut'[p])
                 PROVE  p * NumReqs + PlaceOf(t) \in Inputs
      BY <1>1 DEF Owners, PlaceOf, Elements
    <2>1. /\ t \in reqOut'[p] => p * NumReqs + PlaceOf(t) \in Inputs
          /\ Elements(rspOut'[p]) \subseteq Elements(rspOut[p])
      BY <1>1, <1>2, ForwardMoves, ReturnMoves
    <2> QED
      BY <2>1 DEF SwitchInv, Owners
  <1> QED
    BY <1>1, <1>2, <1>3, <1>4, <1>5, <1>6, <1>7, ForwardServes DEF SwitchInv

LEMMA NextInv ==
    ASSUME SwitchAssumption, SwitchInv, [SwitchNext]_switchVars
    PROVE  SwitchInv'
  <1>1. CASE UNCHANGED switchVars
    BY <1>1, StutterInv
  <1>2. CASE \E j \in Inputs, tag \in shape.tags : Request(j, tag)
    BY <1>2, RequestInv
  <1>3. CASE \E o \in Outputs : (\E tag \in reqOut[o] : Answer(o, tag)) \/ Tick(o)
    BY <1>3, AnswerInv, TickInv
  <1>4. CASE \E j \in Inputs : Receive(j)
    BY <1>4, ReceiveInv
  <1> QED
    BY <1>1, <1>2, <1>3, <1>4 DEF SwitchNext

----------------------------------------------------------------------------
(* The four sets of Held are the four places.                              *)
LEMMA HeldPlaces ==
    ASSUME SwitchAssumption, SwitchInv, NEW j \in Inputs
    PROVE  Held(j) = <<Asked(j), Back(j), Out(j), Answered(j)>>
  <1>1. /\ NumReqs \in Nat \ {0} /\ Place(j) \in 0..(NumReqs - 1)
        /\ reqOut \in [Outputs -> SUBSET Nat] /\ rspOut \in [Outputs -> Seq(Nat)]
    BY ShapeNumbers, InputSplit DEF SwitchInv, SwitchTypeOK
  <1>2. ASSUME NEW S \in SUBSET Nat
        PROVE  OfInput(j, S) = {x \in Nat : Tagged(x, Place(j)) \in S}
    <2>1. ASSUME NEW t \in S, PlaceOf(t) = Place(j)
          PROVE  TagOf(t) \in Nat /\ Tagged(TagOf(t), Place(j)) = t
      BY <1>1, <2>1, UnpackPack DEF PlaceOf, TagOf, Tagged
    <2>2. ASSUME NEW x \in Nat, Tagged(x, Place(j)) \in S
          PROVE  PlaceOf(Tagged(x, Place(j))) = Place(j) /\ TagOf(Tagged(x, Place(j))) = x
      BY <1>1, <2>2, PackUnpack DEF PlaceOf, TagOf, Tagged
    <2>3. OfInput(j, S) = {TagOf(t) : t \in {t \in S : PlaceOf(t) = Place(j)}}
      BY DEF OfInput, Place
    <2> QED
      BY <2>1, <2>2, <2>3
  <1>3. CASE Reached(j)
    <2>1. OutputOf(j) \in Outputs
      BY <1>3 DEF Reached
    <2>2. reqOut[OutputOf(j)] \in SUBSET Nat /\ Elements(rspOut[OutputOf(j)]) \in SUBSET Nat
      <3>1. rspOut[OutputOf(j)] \in Seq(Nat)
        BY <1>1, <2>1
      <3> QED
        BY <1>1, <2>1, <3>1 DEF Elements
    <2>3. OfInput(j, reqOut[OutputOf(j)]) = Out(j) /\ OfInput(j, Elements(rspOut[OutputOf(j)])) = Answered(j)
      BY <1>2, <1>3, <2>2 DEF Out, Answered
    <2> QED
      BY <2>1, <2>3 DEF Held, Asked, Back
  <1>4. CASE ~Reached(j)
    <2>1. OutputOf(j) \notin Outputs /\ Out(j) = {} /\ Answered(j) = {}
      BY <1>4 DEF Out, Answered, Reached
    <2> QED
      BY <2>1 DEF Held, Asked, Back
  <1> QED
    BY <1>3, <1>4

LEMMA InvReturns ==
    ASSUME SwitchAssumption, SwitchInv
    PROVE  AnswersReturn
  <1> SUFFICES ASSUME NEW j \in Inputs
               PROVE  /\ UNION Elements(Held(j)) = owed[j]
                      /\ \A k, l \in 1..4 : k # l => Held(j)[k] \cap Held(j)[l] = {}
    BY DEF AnswersReturn
  <1>1. Balanced(j) /\ Held(j) = <<Asked(j), Back(j), Out(j), Answered(j)>>
    BY HeldPlaces DEF SwitchInv
  <1>2. /\ DOMAIN Held(j) = 1..4
        /\ Held(j)[1] = Asked(j) /\ Held(j)[2] = Back(j) /\ Held(j)[3] = Out(j) /\ Held(j)[4] = Answered(j)
    BY <1>1
  <1>3. Elements(Held(j)) = {Asked(j), Back(j), Out(j), Answered(j)}
    BY <1>2 DEF Elements
  <1>4. UNION Elements(Held(j)) = owed[j]
    BY <1>1, <1>3 DEF Balanced
  <1>5. ASSUME NEW k \in 1..4, NEW l \in 1..4, k # l
        PROVE  Held(j)[k] \cap Held(j)[l] = {}
    <2>1. k \in {1, 2, 3, 4} /\ l \in {1, 2, 3, 4}
      OBVIOUS
    <2> QED
      BY <1>1, <1>2, <1>5, <2>1 DEF Balanced
  <1> QED
    BY <1>4, <1>5

LEMMA InvServes ==
    ASSUME SwitchAssumption, SwitchInv, InputsCovered
    PROVE  InputsServed
  <1> SUFFICES ASSUME shape.arbiter = "RoundRobin", NEW j \in Inputs
               PROVE  passed[j] < Sharing(OutputOf(j))
    BY DEF InputsServed
  <1>1. shape \in Shapes /\ Reached(j)
    BY CoveredReached DEF SwitchInv, SwitchTypeOK
  <1>2. /\ NumReqs \in Nat \ {0} /\ passed[j] \in Nat /\ Place(j) \in 0..(NumReqs - 1)
        /\ cursor[OutputOf(j)] \in 0..(NumReqs - 1)
        /\ Sharing(OutputOf(j)) \in 1..NumReqs
    BY <1>1, ShapeNumbers, InputSplit, SharingPlaces DEF SwitchInv, SwitchTypeOK, Reached
  <1>3. passed[j] + Ahead(j) < Sharing(OutputOf(j)) /\ cursor[OutputOf(j)] <= Sharing(OutputOf(j))
    BY <1>1 DEF SwitchInv, Served
  <1> QED
    BY <1>2, <1>3 DEF Ahead

(* In every reachable state of a switch of any shape the constructor       *)
(* accepts, each tag an input waits for is in exactly one of the input's   *)
(* queue, the requests beyond the output, the answers at the output and    *)
(* the input's answers, and nothing else is there: the bits that           *)
(* Switch::tick shifts into the tag and takes out again bring every answer *)
(* to the input that asked, also where places are more than inputs.        *)
THEOREM AnswersReachAsker ==
    ASSUME SwitchAssumption
    PROVE  SwitchSpec => []AnswersReturn
  <1>1. SwitchInit => SwitchInv
    BY InitInv
  <1>2. SwitchInv /\ [SwitchNext]_switchVars => SwitchInv'
    BY NextInv
  <1>3. SwitchInv => AnswersReturn
    BY InvReturns
  <1> QED
    BY <1>1, <1>2, <1>3, PTL DEF SwitchSpec

LEMMA StaysCovered ==
    ASSUME InputsCovered, [SwitchNext]_switchVars
    PROVE  InputsCovered'
  <1>1. shape' = shape
    BY DEF SwitchNext, switchVars, Request, Answer, Tick, Receive
  <1>2. NumReqs' = NumReqs
    BY <1>1, SameShape
  <1> QED
    BY <1>1, <1>2 DEF InputsCovered

(* In every reachable state of a round-robin switch whose outputs have     *)
(* places for all its inputs, fewer requests than inputs share an output   *)
(* have been let past the one that waits at the head of an input, however  *)
(* often the other inputs ask.  The constructor of Switch does not ask for *)
(* the places: LeftOutInputsWait shows what happens without them.          *)
THEOREM NoInputStarves ==
    ASSUME SwitchAssumption
    PROVE  SwitchSpec /\ InputsCovered => []InputsServed
  <1>1. SwitchInit /\ InputsCovered => SwitchInv /\ InputsCovered
    BY InitInv
  <1>2. SwitchInv /\ InputsCovered /\ [SwitchNext]_switchVars => SwitchInv' /\ InputsCovered'
    BY NextInv, StaysCovered
  <1>3. SwitchInv /\ InputsCovered => InputsServed
    BY InvServes
  <1> QED
    BY <1>1, <1>2, <1>3, PTL DEF SwitchSpec

(* An input beyond the places of the last output keeps all it asked for in *)
(* its queue, and nothing comes back to it.                                *)
LeftOutWait ==
    \A j \in Inputs : j >= shape.outputs * NumReqs =>
        owed[j] = Elements(reqIn[j]) /\ rspIn[j] = <<>>

LEMMA InvLeftOut ==
    ASSUME SwitchAssumption, SwitchInv
    PROVE  LeftOutWait
  <1> SUFFICES ASSUME NEW j \in Inputs, j >= shape.outputs * NumReqs
               PROVE  owed[j] = Elements(reqIn[j]) /\ rspIn[j] = <<>>
    BY DEF LeftOutWait
  <1>1. /\ shape.outputs \in Nat \ {0} /\ NumReqs \in Nat \ {0} /\ rspIn[j] \in Seq(Nat)
        /\ Balanced(j) /\ Unreached(j)
    BY ShapeNumbers DEF SwitchInv, SwitchTypeOK
  <1>2. Place(j) \in 0..(NumReqs - 1) /\ OutputOf(j) \in Nat /\ j = OutputOf(j) * NumReqs + Place(j)
    BY InputSplit DEF SwitchInv, SwitchTypeOK
  <1>3. CASE OutputOf(j) + 1 <= shape.outputs
    <2>1. \A a, b, n \in Nat : a + 1 <= b => a * n + n <= b * n
      OBVIOUS
    <2>2. OutputOf(j) * NumReqs + NumReqs <= shape.outputs * NumReqs
      BY <1>1, <1>2, <1>3, <2>1
    <2> QED
      BY <1>1, <1>2, <2>2
  <1>4. CASE ~(OutputOf(j) + 1 <= shape.outputs)
    <2>1. ~Reached(j)
      BY <1>1, <1>2, <1>4 DEF Reached, Outputs
    <2>2. Back(j) = {} /\ Out(j) = {} /\ Answered(j) = {}
      BY <1>1, <2>1 DEF Unreached, Out, Answered
    <2>3. rspIn[j] = <<>>
      <3>1. rspIn[j] # <<>> => 1 \in DOMAIN rspIn[j]
        BY <1>1
      <3> QED
        BY <2>2, <3>1 DEF Back, Elements
    <2> QED
      BY <1>1, <2>2, <2>3 DEF Balanced, Asked
  <1> QED
    BY <1>3, <1>4

(* Without places for all inputs, as with 3 inputs and 2 outputs or 9 and  *)
(* 2, which the constructor of Switch accepts, the inputs beyond the last  *)
(* place are never served, whatever the arbiter: what NoInputStarves asks  *)
(* for is needed.                                                          *)
THEOREM LeftOutInputsWait ==
    ASSUME SwitchAssumption
    PROVE  SwitchSpec => []LeftOutWait
  <1>1. SwitchInit => SwitchInv
    BY InitInv
  <1>2. SwitchInv /\ [SwitchNext]_switchVars => SwitchInv'
    BY NextInv
  <1>3. SwitchInv => LeftOutWait
    BY InvLeftOut
  <1> QED
    BY <1>1, <1>2, <1>3, PTL DEF SwitchSpec

(* Inputs that are a multiple of the outputs always have places.           *)
THEOREM MultiplesCovered ==
    ASSUME SwitchAssumption, shape \in Shapes, shape.inputs % shape.outputs = 0
    PROVE  InputsCovered
  <1>1. /\ shape.inputs \in Nat \ {0} /\ shape.outputs \in Nat \ {0}
        /\ NumReqs \in Nat \ {0} /\ NumReqs >= PerOutput(shape) /\ PerOutput(shape) \in Nat
    BY ShapeNumbers
  <1>2. shape.inputs = PerOutput(shape) * shape.outputs + 0
    BY <1>1, UnpackPack DEF PerOutput
  <1>3. PerOutput(shape) * shape.outputs <= NumReqs * shape.outputs
    BY <1>1
  <1> QED
    BY <1>1, <1>2, <1>3 DEF InputsCovered

----------------------------------------------------------------------------
(* Rasterizer.                                                             *)
(* The size of a tile of log n, half of it and a quarter.                  *)
LEMMA TileSizes ==
    ASSUME NEW n \in Nat, n > 1
    PROVE  /\ 2^n = 2^(n - 1) + 2^(n - 1)
           /\ 2^(n - 1) \in Nat
           /\ \E m \in Nat : 2^(n - 1) = 2 * m
<1>1. n - 1 \in Nat /\ n - 2 \in Nat /\ n = (n - 1) + 1 /\ n - 1 = (n - 2) + 1
    OBVIOUS
<1>2. 2^((n - 1) + 1) = 2^(n - 1) + 2^(n - 1) /\ 2^(n - 1) \in Nat
    BY <1>1, PowerDoubles
<1>3. 2^((n - 2) + 1) = 2^(n - 2) + 2^(n - 2) /\ 2^(n - 2) \in Nat
    BY <1>1, PowerDoubles
<1>4. 2^(n - 1) = 2 * 2^(n - 2)
    BY <1>1, <1>3
<1> QED
    BY <1>1, <1>2, <1>3, <1>4

----------------------------------------------------------------------------
(* The places of the pixels of a quad, and what the state is made of.      *)
Places == (0..1) \X (0..1)
TileType == [log : Nat \ {0}, x : Int, y : Int, value : [Sides -> Int]]
StampType == [x : Int, y : Int, mask : SUBSET Places,
              bcoords : UNION {[m -> [Sides -> Int]] : m \in SUBSET Places}]

TileTypeOK ==
    /\ edges \in [Sides -> Edges]
    /\ origin \in Origins
    /\ scissor \in Scissors
    /\ todo \in Seq(TileType)
    /\ stamps \in Seq(StampType)

(* A tile carries the values of the edge functions at its corner, and is   *)
(* at an even place; the size of a tile is a power of two.                 *)
TileTrue(t) ==
    /\ t.x % 2 = 0 /\ t.y % 2 = 0
    /\ t.value = EdgeValues(<<t.x, t.y>>)

TilesTrue == \A k \in DOMAIN todo : TileTrue(todo[k])

(* A stamp has covered pixels only, with the values there.                 *)
StampTrue(st) ==
    \A q \in st.mask :
        LET p == <<2 * st.x + q[1], 2 * st.y + q[2]>>
        IN Covered(p) /\ st.bcoords[q] = EdgeValues(p)

StampsTrue == \A k \in DOMAIN stamps : StampTrue(stamps[k])

(* The inductive invariant.                                                *)
TileInv ==
    /\ TileTypeOK
    /\ TilesTrue
    /\ StampsTrue
    /\ CoverageExact

(* A pixel under a tile, and in a stamp.                                   *)
Under(p, t) ==
    /\ p[1] \in t.x..(t.x + 2^t.log - 1)
    /\ p[2] \in t.y..(t.y + 2^t.log - 1)
InStamp(p, st) ==
    \E q \in st.mask : p = <<2 * st.x + q[1], 2 * st.y + q[2]>> /\ st.bcoords[q] = EdgeValues(p)

(* Due and Stamped in these words.                                         *)
LEMMA DueIsUnder == \A p : Due(p) = {k \in DOMAIN todo : Under(p, todo[k])}
    BY DEF Due, Under
LEMMA StampedIsInStamp == \A p : Stamped(p) = {k \in DOMAIN stamps : InStamp(p, stamps[k])}
    BY DEF Stamped, InStamp

----------------------------------------------------------------------------
(* CalcEdgeExtents bounds what an edge function gains in a tile.           *)
LEMMA ProductBound ==
    ASSUME NEW a \in Int, NEW i \in Int, NEW size \in Int, 0 <= i, i <= size
    PROVE  /\ a >= 0 => a * i <= a * size
           /\ a < 0 => a * i <= 0
           /\ a * i \in Int /\ a * size \in Int
<1>1. ASSUME a >= 0 PROVE a * (size - i) >= 0
    BY <1>1
<1>2. a * (size - i) = a * size - a * i
    OBVIOUS
<1>3. ASSUME a < 0 PROVE (0 - a) * i >= 0
    BY <1>3
<1>4. (0 - a) * i = 0 - a * i
    OBVIOUS
<1>5. a * i \in Int /\ a * size \in Int
    OBVIOUS
<1> QED
    BY <1>1, <1>2, <1>3, <1>4, <1>5

(* A pixel of a tile gains at most the extents times the tile's size.      *)
LEMMA ExtentsBound ==
    ASSUME NEW e \in [x : Int, y : Int, z : Int], NEW i \in Int, NEW j \in Int, NEW size \in Nat,
           0 <= i, i <= size, 0 <= j, j <= size
    PROVE  e.x * i + e.y * j <= CalcEdgeExtents(e) * size
<1>1. /\ e.x >= 0 => e.x * i <= e.x * size
      /\ e.x < 0 => e.x * i <= 0
      /\ e.x * i \in Int /\ e.x * size \in Int
    BY ProductBound
<1>2. /\ e.y >= 0 => e.y * j <= e.y * size
      /\ e.y < 0 => e.y * j <= 0
      /\ e.y * j \in Int /\ e.y * size \in Int
    BY ProductBound
<1>3. (e.x + e.y) * size = e.x * size + e.y * size
    OBVIOUS
<1>4. 0 * size = 0
    OBVIOUS
<1>5. CASE e.x >= 0 /\ e.y >= 0
    BY <1>1, <1>2, <1>3, <1>5 DEF CalcEdgeExtents
<1>6. CASE e.x < 0 /\ e.y >= 0
    BY <1>1, <1>2, <1>6 DEF CalcEdgeExtents
<1>7. CASE e.x >= 0 /\ e.y < 0
    BY <1>1, <1>2, <1>7 DEF CalcEdgeExtents
<1>8. CASE e.x < 0 /\ e.y < 0
    BY <1>1, <1>2, <1>4, <1>8 DEF CalcEdgeExtents
<1> QED
    BY <1>5, <1>6, <1>7, <1>8

(* Edges are integers, and so is all that is computed from them.           *)
LEMMA EdgeTypes ==
    ASSUME TileTypeOK, NEW s \in Sides
    PROVE  /\ edges[s] \in [x : Int, y : Int, z : Int]
           /\ \A x, y \in Int : EvalEdgeFunction(edges[s], x, y) \in Int
           /\ CalcEdgeExtents(edges[s]) \in Int
<1>1. edges[s] \in [x : Int, y : Int, z : Int]
    BY TileAssumption DEF TileTypeOK
<1> QED
    BY <1>1 DEF EvalEdgeFunction, CalcEdgeExtents

(* Moving by the deltas is evaluating the edge functions there.            *)
LEMMA ValuesMove ==
    ASSUME TileTypeOK, NEW t \in TileType, TileTrue(t), NEW i \in Int, NEW j \in Int
    PROVE  /\ ValueAt(t, i, j) = EdgeValues(<<t.x + i, t.y + j>>)
           /\ ValueAt(t, i, j) \in [Sides -> Int]
<1>1. ASSUME NEW s \in Sides
      PROVE  /\ t.value[s] + edges[s].x * i + edges[s].y * j
                  = EvalEdgeFunction(edges[s], t.x + i, t.y + j)
             /\ EvalEdgeFunction(edges[s], t.x + i, t.y + j) \in Int
  <2>1. edges[s] \in [x : Int, y : Int, z : Int]
      BY EdgeTypes
  <2>2. t.value[s] = EvalEdgeFunction(edges[s], t.x, t.y)
      BY DEF TileTrue, EdgeValues
  <2>3. t.x \in Int /\ t.y \in Int
      BY DEF TileType
  <2> DEFINE a == edges[s].x
             b == edges[s].y
  <2>4. a \in Int /\ b \in Int
      BY <2>1
  <2>5. a * (t.x + i) = a * t.x + a * i /\ b * (t.y + j) = b * t.y + b * j
      BY <2>3, <2>4
  <2>6. a * t.x \in Int /\ a * i \in Int /\ b * t.y \in Int /\ b * j \in Int /\ edges[s].z \in Int
      BY <2>1, <2>3, <2>4
  <2> QED
      BY <2>2, <2>5, <2>6 DEF EvalEdgeFunction
<1> QED
    BY <1>1 DEF ValueAt, EdgeValues

(* A rejected tile has no covered pixel.                                   *)
LEMMA RejectSound ==
    ASSUME TileTypeOK, NEW t \in TileType, TileTrue(t), Outside(t),
           NEW p \in Int \X Int, Under(p, t)
    PROVE  ~Covered(p)
<1>1. PICK s \in Sides : t.value[s] + CalcEdgeExtents(edges[s]) * 2^t.log < 0
    BY DEF Outside
<1> DEFINE i == p[1] - t.x
           j == p[2] - t.y
           size == 2^t.log
<1>2. t.x \in Int /\ t.y \in Int /\ t.log \in Nat /\ t.value[s] \in Int /\ p[1] \in Int /\ p[2] \in Int
    BY DEF TileType
<1>3. size \in Nat
    BY <1>2, PowerOfTwo
<1>4. i \in Int /\ j \in Int /\ 0 <= i /\ i <= size /\ 0 <= j /\ j <= size
    BY <1>2, <1>3 DEF Under
<1>5. edges[s].x * i + edges[s].y * j <= CalcEdgeExtents(edges[s]) * size
    BY <1>3, <1>4, EdgeTypes, ExtentsBound
<1>6. ValueAt(t, i, j)[s] = EdgeValues(<<t.x + i, t.y + j>>)[s]
    BY <1>4, ValuesMove
<1>7. t.x + i = p[1] /\ t.y + j = p[2]
    BY <1>2
<1>8. EdgeValues(p)[s] = EdgeValues(<<t.x + i, t.y + j>>)[s]
    BY <1>7 DEF EdgeValues
<1>9. EdgeValues(p)[s] = t.value[s] + edges[s].x * i + edges[s].y * j
    BY <1>6, <1>8 DEF ValueAt
<1>10. /\ edges[s].x * i \in Int /\ edges[s].y * j \in Int
       /\ CalcEdgeExtents(edges[s]) * size \in Int
  <2>1. edges[s].x \in Int /\ edges[s].y \in Int /\ CalcEdgeExtents(edges[s]) \in Int
      BY EdgeTypes
  <2> HIDE DEF i, j, size
  <2> QED
      BY <2>1, <1>3, <1>4
<1>11. EdgeValues(p)[s] < 0
    BY <1>1, <1>2, <1>5, <1>9, <1>10
<1> HIDE DEF i, j, size
<1> QED
    BY <1>11, <1>9, <1>10, <1>2 DEF Covered

(* The four parts of a tile: a pixel under the tile is under one of them.  *)
Corners == <<<<0, 0>>, <<1, 0>>, <<0, 1>>, <<1, 1>>>>
Part(t, n) == Subtile(t, Corners[n][1], Corners[n][2])

(* The fields of a part: its size is half of the tile's and even.          *)
LEMMA PartFields ==
    ASSUME NEW t \in TileType, t.log > 1, NEW n \in 1..4
    PROVE  LET size == 2^(t.log - 1)
               i == Corners[n][1]
               j == Corners[n][2]
           IN /\ size \in Nat /\ 2^t.log = size + size /\ \E m \in Nat : size = 2 * m
              /\ i \in 0..1 /\ j \in 0..1
              /\ i = (IF n \in {2, 4} THEN 1 ELSE 0)
              /\ j = (IF n \in {3, 4} THEN 1 ELSE 0)
              /\ i * size = (IF n \in {2, 4} THEN size ELSE 0)
              /\ j * size = (IF n \in {3, 4} THEN size ELSE 0)
              /\ Part(t, n).log = t.log - 1
              /\ Part(t, n).x = t.x + i * size
              /\ Part(t, n).y = t.y + j * size
              /\ Part(t, n).value = ValueAt(t, i * size, j * size)
              /\ Part(t, n) = [log |-> t.log - 1, x |-> t.x + i * size, y |-> t.y + j * size,
                               value |-> ValueAt(t, i * size, j * size)]
<1> DEFINE size == 2^(t.log - 1)
<1>1. t.log \in Nat
    BY DEF TileType
<1>2. size \in Nat /\ 2^t.log = size + size /\ \E m \in Nat : size = 2 * m
    BY <1>1, TileSizes
<1> HIDE DEF size
<1>3. 0 * size = 0 /\ 1 * size = size
    BY <1>2
<1>4. /\ Corners[n][1] \in 0..1 /\ Corners[n][2] \in 0..1
      /\ Corners[n][1] = (IF n \in {2, 4} THEN 1 ELSE 0)
      /\ Corners[n][2] = (IF n \in {3, 4} THEN 1 ELSE 0)
  <2>1. CASE n = 1
      BY <2>1 DEF Corners
  <2>2. CASE n = 2
      BY <2>2 DEF Corners
  <2>3. CASE n = 3
      BY <2>3 DEF Corners
  <2>4. CASE n = 4
      BY <2>4 DEF Corners
  <2> QED
      BY <2>1, <2>2, <2>3, <2>4
<1>5. /\ Corners[n][1] * size = (IF n \in {2, 4} THEN size ELSE 0)
      /\ Corners[n][2] * size = (IF n \in {3, 4} THEN size ELSE 0)
    BY <1>3, <1>4
<1>6. Part(t, n) = [log |-> t.log - 1, x |-> t.x + Corners[n][1] * size, y |-> t.y + Corners[n][2] * size,
                    value |-> ValueAt(t, Corners[n][1] * size, Corners[n][2] * size)]
    BY DEF Part, Subtile, size
<1> QED
    BY <1>2, <1>4, <1>5, <1>6 DEF size

(* A part carries the values of the edge functions at its own corner.      *)
LEMMA PartTrue ==
    ASSUME TileTypeOK, NEW t \in TileType, TileTrue(t), t.log > 1, NEW n \in 1..4
    PROVE  Part(t, n) \in TileType /\ TileTrue(Part(t, n))
<1> DEFINE size == 2^(t.log - 1)
           i == Corners[n][1] * size
           j == Corners[n][2] * size
<1>1. /\ size \in Nat /\ \E m \in Nat : size = 2 * m
      /\ i = (IF n \in {2, 4} THEN size ELSE 0)
      /\ j = (IF n \in {3, 4} THEN size ELSE 0)
      /\ Part(t, n) = [log |-> t.log - 1, x |-> t.x + i, y |-> t.y + j, value |-> ValueAt(t, i, j)]
    BY PartFields
<1> HIDE DEF size, i, j
<1>2. t.x \in Int /\ t.y \in Int /\ t.log \in Nat /\ t.x % 2 = 0 /\ t.y % 2 = 0
    BY DEF TileType, TileTrue
<1>3. i \in Int /\ j \in Int /\ t.x + i \in Int /\ t.y + j \in Int /\ (t.x + i) % 2 = 0 /\ (t.y + j) % 2 = 0
    BY <1>1, <1>2
<1>4. ValueAt(t, i, j) = EdgeValues(<<t.x + i, t.y + j>>) /\ ValueAt(t, i, j) \in [Sides -> Int]
    BY <1>3, ValuesMove
<1>5. t.log - 1 \in Nat \ {0}
    BY <1>2
<1> QED
    BY <1>1, <1>3, <1>4, <1>5 DEF TileType, TileTrue

(* A pixel under a tile is under exactly one part, any other under none.   *)
LEMMA PartsDivide ==
    ASSUME NEW t \in TileType, t.log > 1, NEW p \in Int \X Int
    PROVE  /\ Under(p, t) => \E n \in 1..4 : \A m \in 1..4 : Under(p, Part(t, m)) <=> m = n
           /\ ~Under(p, t) => \A n \in 1..4 : ~Under(p, Part(t, n))
<1> DEFINE size == 2^(t.log - 1)
           right(n) == n \in {2, 4}
           low(n) == n \in {3, 4}
<1>1. t.x \in Int /\ t.y \in Int /\ p[1] \in Int /\ p[2] \in Int
    BY DEF TileType
<1>2. size \in Nat /\ 2^t.log = size + size
    BY PartFields, 1 \in 1..4
<1>3. ASSUME NEW n \in 1..4
      PROVE  /\ Part(t, n).x = t.x + (IF right(n) THEN size ELSE 0)
             /\ Part(t, n).y = t.y + (IF low(n) THEN size ELSE 0)
             /\ 2^Part(t, n).log = size
    BY PartFields
<1> HIDE DEF size
<1>4. \A n \in 1..4 : Under(p, Part(t, n)) <=>
          /\ p[1] \in (t.x + (IF right(n) THEN size ELSE 0))..(t.x + (IF right(n) THEN size ELSE 0) + size - 1)
          /\ p[2] \in (t.y + (IF low(n) THEN size ELSE 0))..(t.y + (IF low(n) THEN size ELSE 0) + size - 1)
    BY <1>3 DEF Under
<1>5. Under(p, t) <=> /\ p[1] \in t.x..(t.x + size + size - 1)
                      /\ p[2] \in t.y..(t.y + size + size - 1)
    BY <1>1, <1>2 DEF Under
<1> DEFINE n0 == (IF p[1] >= t.x + size THEN 2 ELSE 1) + (IF p[2] >= t.y + size THEN 2 ELSE 0)
<1>6. n0 \in 1..4
    OBVIOUS
<1>7. ASSUME Under(p, t), NEW m \in 1..4
      PROVE  Under(p, Part(t, m)) <=> m = n0
    BY <1>1, <1>2, <1>4, <1>5, <1>7
<1>8. ASSUME ~Under(p, t), NEW m \in 1..4
      PROVE  ~Under(p, Part(t, m))
    BY <1>1, <1>2, <1>4, <1>5, <1>8
<1> HIDE DEF n0
<1> QED
    BY <1>6, <1>7, <1>8

(* The mask of a quad: the covered pixels of a tile of two by two.         *)
LEMMA MaskExact ==
    ASSUME TileTypeOK, NEW t \in TileType, TileTrue(t), t.log <= 1
    PROVE  /\ Mask(t) \in SUBSET Places
           /\ \A q \in Mask(t) : /\ <<t.x + q[1], t.y + q[2]>> \in Int \X Int
                                 /\ Under(<<t.x + q[1], t.y + q[2]>>, t)
                                 /\ Covered(<<t.x + q[1], t.y + q[2]>>)
                                 /\ ValueAt(t, q[1], q[2]) = EdgeValues(<<t.x + q[1], t.y + q[2]>>)
                                 /\ ValueAt(t, q[1], q[2]) \in [Sides -> Int]
           /\ \A p \in Int \X Int : Under(p, t) /\ Covered(p) =>
                \E q \in Mask(t) : p = <<t.x + q[1], t.y + q[2]>>
<1>1. t.log = 1 /\ t.x \in Int /\ t.y \in Int
    BY DEF TileType
<1>2. 2^t.log = 2
    BY <1>1
<1>3. ASSUME NEW q \in Places
      PROVE  /\ q[1] \in 0..1 /\ q[2] \in 0..1 /\ q = <<q[1], q[2]>>
             /\ <<t.x + q[1], t.y + q[2]>> \in Int \X Int
             /\ Under(<<t.x + q[1], t.y + q[2]>>, t)
             /\ ValueAt(t, q[1], q[2]) = EdgeValues(<<t.x + q[1], t.y + q[2]>>)
             /\ ValueAt(t, q[1], q[2]) \in [Sides -> Int]
             /\ q \in Mask(t) <=> Covered(<<t.x + q[1], t.y + q[2]>>)
  <2>1. q[1] \in 0..1 /\ q[2] \in 0..1 /\ q = <<q[1], q[2]>>
      BY DEF Places
  <2>2. <<t.x + q[1], t.y + q[2]>> \in Int \X Int
      BY <1>1, <2>1
  <2>3. Under(<<t.x + q[1], t.y + q[2]>>, t)
      BY <1>1, <1>2, <2>1 DEF Under
  <2>4. /\ ValueAt(t, q[1], q[2]) = EdgeValues(<<t.x + q[1], t.y + q[2]>>)
        /\ ValueAt(t, q[1], q[2]) \in [Sides -> Int]
    <3>1. q[1] \in Int /\ q[2] \in Int
        BY <2>1
    <3> QED
        BY <3>1, ValuesMove
  <2>5. q \in Mask(t) <=> /\ \A s \in Sides : ValueAt(t, q[1], q[2])[s] >= 0
                          /\ InScissor(t.x + q[1], t.y + q[2])
      BY DEF Mask, Places
  <2>6. Covered(<<t.x + q[1], t.y + q[2]>>) <=>
          /\ \A s \in Sides : EdgeValues(<<t.x + q[1], t.y + q[2]>>)[s] >= 0
          /\ InScissor(t.x + q[1], t.y + q[2])
      BY DEF Covered
  <2> QED
      BY <2>1, <2>2, <2>3, <2>4, <2>5, <2>6
<1>4. Mask(t) \in SUBSET Places
    BY DEF Mask, Places
<1>5. ASSUME NEW p \in Int \X Int, Under(p, t), Covered(p)
      PROVE  \E q \in Mask(t) : p = <<t.x + q[1], t.y + q[2]>>
  <2> DEFINE q == <<p[1] - t.x, p[2] - t.y>>
  <2>1. p[1] \in Int /\ p[2] \in Int /\ p = <<p[1], p[2]>>
      OBVIOUS
  <2>2. p[1] - t.x \in 0..1 /\ p[2] - t.y \in 0..1
      BY <1>1, <1>2, <1>5, <2>1 DEF Under
  <2>3. q \in Places /\ q[1] = p[1] - t.x /\ q[2] = p[2] - t.y
      BY <2>2 DEF Places
  <2>4. t.x + q[1] = p[1] /\ t.y + q[2] = p[2]
      BY <2>1, <2>3, <1>1
  <2>5. p = <<t.x + q[1], t.y + q[2]>>
      BY <2>1, <2>4
  <2> HIDE DEF q
  <2> QED
      BY <2>3, <2>5, <1>3, <1>5
<1> QED
    BY <1>3, <1>4, <1>5

----------------------------------------------------------------------------
(* The stack of tiles: what a pixel is under after one is taken, and after *)
(* it is replaced by its parts.                                            *)
LEMMA PixelTypes == TileTypeOK => \A p \in Pixels : p \in Int \X Int
<1> SUFFICES ASSUME TileTypeOK, NEW p \in Pixels PROVE p \in Int \X Int
    OBVIOUS
<1>1. origin \in [x : Nat, y : Nat]
    BY TileAssumption DEF TileTypeOK
<1>2. TileLogSize \in Nat /\ 2^TileLogSize \in Nat
    BY TileAssumption, PowerOfTwo
<1>3. PICK x \in origin.x..(origin.x + 2^TileLogSize - 1), y \in origin.y..(origin.y + 2^TileLogSize - 1) :
        p = <<x, y>>
    BY DEF Pixels
<1> QED
    BY <1>1, <1>2, <1>3

(* The tile that is rendered next is true, and number 1 of the tiles due.  *)
LEMMA FirstTile ==
    ASSUME TileInv, todo # <<>>
    PROVE  /\ 1 \in DOMAIN todo /\ Tile = todo[1]
           /\ Tile \in TileType /\ TileTrue(Tile)
           /\ \A p : 1 \in Due(p) <=> Under(p, Tile)
           /\ \A p : Due(p) \in SUBSET (Nat \ {0})
<1>1. todo \in Seq(TileType)
    BY DEF TileInv, TileTypeOK
<1>2. 1 \in DOMAIN todo /\ Tile = todo[1] /\ Tile \in TileType
    BY <1>1 DEF Tile
<1>3. TileTrue(Tile)
    BY <1>2 DEF TileInv, TilesTrue
<1>4. \A k \in DOMAIN todo : k \in Nat \ {0}
    BY <1>1
<1> QED
    BY <1>2, <1>3, <1>4, DueIsUnder

(* When it is taken the tiles behind it move up by one.                    *)
LEMMA TakeTile ==
    ASSUME TileInv, todo # <<>>, todo' = Tail(todo)
    PROVE  /\ todo' \in Seq(TileType)
           /\ \A k \in DOMAIN todo' : k + 1 \in DOMAIN todo /\ todo'[k] = todo[k + 1]
           /\ \A p : \A k : k \in Due(p)' <=> k \in Nat \ {0} /\ k + 1 \in Due(p)
<1>1. todo \in Seq(TileType)
    BY DEF TileInv, TileTypeOK
<1>2. /\ todo' \in Seq(TileType)
      /\ Len(todo') = Len(todo) - 1
      /\ \A k \in 1..Len(todo') : todo'[k] = todo[k + 1]
    BY <1>1
<1>3. DOMAIN todo = 1..Len(todo) /\ DOMAIN todo' = 1..Len(todo') /\ Len(todo) \in Nat
    BY <1>1, <1>2
<1>4. ASSUME NEW p, NEW k
      PROVE  k \in Due(p)' <=> k \in Nat \ {0} /\ k + 1 \in Due(p)
  <2>1. k \in Due(p)' <=> k \in DOMAIN todo' /\ Under(p, todo'[k])
      BY DEF Due, Under
  <2>2. k + 1 \in Due(p) <=> k + 1 \in DOMAIN todo /\ Under(p, todo[k + 1])
      BY DueIsUnder
  <2>3. k \in DOMAIN todo' => k \in Nat \ {0} /\ k + 1 \in DOMAIN todo
      BY <1>2, <1>3
  <2>4. k \in Nat \ {0} /\ k + 1 \in DOMAIN todo => k \in DOMAIN todo'
      BY <1>2, <1>3
  <2> QED
      BY <2>1, <2>2, <2>3, <2>4, <1>2, <1>3
<1> QED
    BY <1>2, <1>3, <1>4

(* When it is split its parts come first and the tiles behind move by      *)
(* three.                                                                  *)
LEMMA SplitTile ==
    ASSUME TileInv, Split
    PROVE  /\ todo' \in Seq(TileType)
           /\ \A k \in DOMAIN todo' :
                \/ k \in 1..4 /\ todo'[k] = Part(Tile, k)
                \/ k - 3 \in DOMAIN todo /\ todo'[k] = todo[k - 3]
           /\ \A p : \A k : k \in Due(p)' <=>
                \/ k \in 1..4 /\ Under(p, Part(Tile, k))
                \/ k \in Nat /\ k > 4 /\ k - 3 \in Due(p)
<1> DEFINE parts == <<Subtile(Tile, 0, 0), Subtile(Tile, 1, 0), Subtile(Tile, 0, 1), Subtile(Tile, 1, 1)>>
           rest == Tail(todo)
<1>1. todo \in Seq(TileType) /\ todo # <<>> /\ TileTypeOK /\ Tile.log > 1
    BY DEF TileInv, TileTypeOK, Split
<1>2. Tile \in TileType /\ TileTrue(Tile)
    BY <1>1, FirstTile
<1>3. /\ Part(Tile, 1) = Subtile(Tile, 0, 0) /\ Part(Tile, 2) = Subtile(Tile, 1, 0)
      /\ Part(Tile, 3) = Subtile(Tile, 0, 1) /\ Part(Tile, 4) = Subtile(Tile, 1, 1)
    BY DEF Part, Corners
<1>4. \A n \in 1..4 : Part(Tile, n) \in TileType
    BY <1>1, <1>2, PartTrue
<1>5. parts = <<Part(Tile, 1), Part(Tile, 2), Part(Tile, 3), Part(Tile, 4)>>
    BY <1>3
<1>6. parts \in Seq(TileType) /\ Len(parts) = 4 /\ \A k \in 1..4 : parts[k] = Part(Tile, k)
  <2>1. 1 \in 1..4 /\ 2 \in 1..4 /\ 3 \in 1..4 /\ 4 \in 1..4
      OBVIOUS
  <2>2. /\ Part(Tile, 1) \in TileType /\ Part(Tile, 2) \in TileType
        /\ Part(Tile, 3) \in TileType /\ Part(Tile, 4) \in TileType
      BY <1>4, <2>1
  <2>3. parts \in Seq(TileType) /\ Len(parts) = 4
      BY <1>5, <2>2
  <2>4. parts[1] = Part(Tile, 1) /\ parts[2] = Part(Tile, 2) /\ parts[3] = Part(Tile, 3) /\ parts[4] = Part(Tile, 4)
      BY <1>5
  <2>5. \A k \in 1..4 : k = 1 \/ k = 2 \/ k = 3 \/ k = 4
      OBVIOUS
  <2> HIDE DEF parts
  <2> QED
      BY <2>3, <2>4, <2>5
<1>7. /\ rest \in Seq(TileType) /\ Len(rest) = Len(todo) - 1
      /\ \A k \in 1..Len(rest) : rest[k] = todo[k + 1]
    BY <1>1
<1>8. todo' = parts \o rest
    BY DEF Split
<1> HIDE DEF parts, rest
<1>9. /\ todo' \in Seq(TileType) /\ Len(todo') = Len(todo) + 3
      /\ \A k \in 1..Len(todo') : todo'[k] = IF k <= 4 THEN parts[k] ELSE rest[k - 4]
  <2>1. Len(todo) \in Nat /\ Len(rest) \in Nat
      BY <1>1, <1>7
  <2>2. todo' \in Seq(TileType) /\ Len(todo') = Len(parts) + Len(rest)
      BY <1>6, <1>7, <1>8, ConcatProperties
  <2>3. \A k \in 1..(Len(parts) + Len(rest)) :
           (parts \o rest)[k] = IF k <= Len(parts) THEN parts[k] ELSE rest[k - Len(parts)]
      BY <1>6, <1>7, ConcatProperties
  <2> QED
      BY <2>1, <2>2, <2>3, <1>6, <1>7, <1>8
<1>10. DOMAIN todo = 1..Len(todo) /\ DOMAIN todo' = 1..Len(todo') /\ Len(todo) \in Nat /\ Len(todo) > 0
    BY <1>1, <1>9
<1>11. \A k \in DOMAIN todo' :
         /\ k <= 4 => todo'[k] = Part(Tile, k) /\ k \in 1..4
         /\ k > 4 => k - 3 \in DOMAIN todo /\ todo'[k] = todo[k - 3]
  <2> SUFFICES ASSUME NEW k \in DOMAIN todo'
               PROVE  /\ k <= 4 => todo'[k] = Part(Tile, k) /\ k \in 1..4
                      /\ k > 4 => k - 3 \in DOMAIN todo /\ todo'[k] = todo[k - 3]
      OBVIOUS
  <2>1. k \in 1..(Len(todo) + 3)
      BY <1>9, <1>10
  <2>2. CASE k <= 4
      BY <2>1, <2>2, <1>6, <1>9, <1>10
  <2>3. CASE k > 4
    <3>1. k - 4 \in 1..Len(rest) /\ (k - 4) + 1 = k - 3 /\ k - 3 \in 1..Len(todo)
        BY <2>1, <2>3, <1>7, <1>10
    <3>2. todo'[k] = rest[k - 4]
        BY <2>1, <2>3, <1>9
    <3>3. rest[k - 4] = todo[(k - 4) + 1]
        BY <3>1, <1>7
    <3> QED
        BY <2>3, <3>1, <3>2, <3>3, <1>10, <2>1
  <2> QED
      BY <2>1, <2>2, <2>3, <1>10
<1>12. ASSUME NEW p, NEW k
       PROVE  k \in Due(p)' <=> \/ k \in 1..4 /\ Under(p, Part(Tile, k))
                                \/ k \in Nat /\ k > 4 /\ k - 3 \in Due(p)
  <2>1. k \in Due(p)' <=> k \in DOMAIN todo' /\ Under(p, todo'[k])
      BY DEF Due, Under
  <2>2. k - 3 \in Due(p) <=> k - 3 \in DOMAIN todo /\ Under(p, todo[k - 3])
      BY DueIsUnder
  <2>3. k \in 1..4 => k \in DOMAIN todo'
      BY <1>9, <1>10
  <2>4. k \in Nat /\ k > 4 /\ k - 3 \in DOMAIN todo => k \in DOMAIN todo'
      BY <1>9, <1>10
  <2>5. k \in DOMAIN todo' => k \in Nat /\ (k <= 4 \/ k > 4) /\ ~(k <= 4 /\ k > 4)
      BY <1>10, <1>9
  <2>6. k \in 1..4 => k <= 4 /\ ~(k > 4)
      OBVIOUS
  <2> QED
      BY <2>1, <2>2, <2>3, <2>4, <2>5, <2>6, <1>11
<1>13. \A k \in DOMAIN todo' : k <= 4 \/ k > 4
    BY <1>9, <1>10
<1> QED
    BY <1>9, <1>11, <1>12, <1>13

(* One of S and T has one member: kept by renumbering.                     *)
LEMMA ShiftDown ==
    ASSUME NEW S, NEW D \in SUBSET (Nat \ {0}), NEW E,
           \A k : k \in E <=> k \in Nat \ {0} /\ k + 1 \in D,
           1 \notin D, OneOf(S, D)
    PROVE  OneOf(S, E)
<1>1. CASE D = {}
    BY <1>1 DEF OneOf
<1>2. CASE D # {}
  <2>1. PICK t \in D : D = {t} /\ S = {}
      BY <1>2 DEF OneOf
  <2>2. t \in Nat /\ t > 1 /\ t - 1 \in Nat \ {0} /\ (t - 1) + 1 = t
      BY <2>1
  <2>3. t - 1 \in E
      BY <2>1, <2>2
  <2>4. \A k \in E : k = t - 1
      BY <2>1, <2>2
  <2> QED
      BY <2>1, <2>3, <2>4 DEF OneOf
<1> QED
    BY <1>1, <1>2

----------------------------------------------------------------------------
(* What does not move keeps its meaning.                                   *)
LEMMA SamePixels ==
    ASSUME UNCHANGED <<edges, origin, scissor>>
    PROVE  /\ Pixels' = Pixels
           /\ \A p : EdgeValues(p)' = EdgeValues(p)
           /\ \A p : Covered(p)' <=> Covered(p)
           /\ TilesTrue' <=> \A k \in DOMAIN todo' : TileTrue(todo'[k])
           /\ StampsTrue' <=> \A k \in DOMAIN stamps' : StampTrue(stamps'[k])
<1>1. Pixels' = Pixels
    BY DEF Pixels
<1>2. \A p : EdgeValues(p)' = EdgeValues(p)
    BY DEF EdgeValues, EvalEdgeFunction
<1>3. \A p : Covered(p)' <=> Covered(p)
    BY <1>2 DEF Covered, InScissor
<1>4. TilesTrue' <=> \A k \in DOMAIN todo' : TileTrue(todo'[k])
    BY DEF TilesTrue, TileTrue, EdgeValues, EvalEdgeFunction
<1>5. StampsTrue' <=> \A k \in DOMAIN stamps' : StampTrue(stamps'[k])
    BY DEF StampsTrue, StampTrue, Covered, InScissor, EdgeValues, EvalEdgeFunction
<1> QED
    BY <1>1, <1>2, <1>3, <1>4, <1>5

(* A step that gives no stamp leaves every pixel in its stamps.            *)
LEMMA SameStamps ==
    ASSUME UNCHANGED <<edges, origin, scissor, stamps>>
    PROVE  \A p : Stamped(p)' = Stamped(p)
<1>1. \A p : EdgeValues(p)' = EdgeValues(p)
    BY SamePixels
<1> QED
    BY <1>1 DEF Stamped

(* Reject: the tile that is given up has no covered pixel.                 *)
LEMMA RejectKeeps ==
    ASSUME TileInv, Reject
    PROVE  TileInv'
<1>1. TileTypeOK /\ todo # <<>> /\ Outside(Tile) /\ todo' = Tail(todo) /\ CoverageExact
      /\ UNCHANGED <<edges, origin, scissor, stamps>>
    BY DEF TileInv, Reject
<1>2. TileTypeOK'
    BY <1>1, TakeTile DEF TileTypeOK
<1>3. TilesTrue'
    BY <1>1, TakeTile, SamePixels DEF TileInv, TilesTrue
<1>4. StampsTrue'
    BY <1>1, SamePixels DEF TileInv, StampsTrue
<1>5. CoverageExact'
  <2> SUFFICES ASSUME NEW p \in Pixels
               PROVE  IF Covered(p) THEN OneOf(Stamped(p), Due(p)') ELSE Stamped(p) = {}
      BY <1>1, SamePixels, SameStamps DEF CoverageExact, OneOf
  <2>1. CASE Covered(p)
    <3>1. p \in Int \X Int
        BY <1>1, PixelTypes
    <3>2. 1 \notin Due(p)
        BY <1>1, <2>1, <3>1, FirstTile, RejectSound
    <3>3. OneOf(Stamped(p), Due(p)) /\ Due(p) \in SUBSET (Nat \ {0})
        BY <1>1, <2>1, FirstTile DEF CoverageExact
    <3>4. \A k : k \in Due(p)' <=> k \in Nat \ {0} /\ k + 1 \in Due(p)
        BY <1>1, TakeTile
    <3>5. OneOf(Stamped(p), Due(p)')
        BY <3>2, <3>3, <3>4, ShiftDown
    <3> QED
        BY <2>1, <3>5
  <2> QED
      BY <1>1, <2>1 DEF CoverageExact
<1> QED
    BY <1>2, <1>3, <1>4, <1>5 DEF TileInv

(* Split: the covered pixels under the tile are each under one part.       *)
LEMMA SplitKeeps ==
    ASSUME TileInv, Split
    PROVE  TileInv'
<1>1. TileTypeOK /\ todo # <<>> /\ Tile.log > 1 /\ CoverageExact
      /\ UNCHANGED <<edges, origin, scissor, stamps>>
    BY DEF TileInv, Split
<1>2. TileTypeOK'
    BY <1>1, SplitTile DEF TileTypeOK
<1>3. TilesTrue'
  <2>1. \A k \in DOMAIN todo' : TileTrue(todo'[k])
    <3>1. \A k \in 1..4 : TileTrue(Part(Tile, k))
        BY <1>1, FirstTile, PartTrue
    <3> QED
        BY <1>1, <3>1, SplitTile DEF TileInv, TilesTrue
  <2> QED
      BY <2>1, <1>1, SamePixels
<1>4. StampsTrue'
    BY <1>1, SamePixels DEF TileInv, StampsTrue
<1>5. CoverageExact'
  <2> SUFFICES ASSUME NEW p \in Pixels
               PROVE  IF Covered(p) THEN OneOf(Stamped(p), Due(p)') ELSE Stamped(p) = {}
      BY <1>1, SamePixels, SameStamps DEF CoverageExact, OneOf
  <2>1. CASE Covered(p)
    <3>1. p \in Int \X Int
        BY <1>1, PixelTypes
    <3>2. OneOf(Stamped(p), Due(p)) /\ Due(p) \in SUBSET (Nat \ {0})
        BY <1>1, <2>1, FirstTile DEF CoverageExact
    <3>3. \A k : k \in Due(p)' <=> \/ k \in 1..4 /\ Under(p, Part(Tile, k))
                                   \/ k \in Nat /\ k > 4 /\ k - 3 \in Due(p)
        BY <1>1, SplitTile
    <3>4. /\ Under(p, Tile) => \E n \in 1..4 : \A m \in 1..4 : Under(p, Part(Tile, m)) <=> m = n
          /\ ~Under(p, Tile) => \A n \in 1..4 : ~Under(p, Part(Tile, n))
        BY <1>1, <3>1, FirstTile, PartsDivide
    <3>5. 1 \in Due(p) <=> Under(p, Tile)
        BY <1>1, FirstTile
    <3>6. CASE Under(p, Tile)
      <4>1. Due(p) = {1} /\ Stamped(p) = {}
          BY <3>2, <3>5, <3>6 DEF OneOf
      <4>2. PICK n \in 1..4 : \A m \in 1..4 : Under(p, Part(Tile, m)) <=> m = n
          BY <3>4, <3>6
      <4>3. \A k : k \in Nat /\ k > 4 => k - 3 # 1
          OBVIOUS
      <4>4. \A k : k \in Due(p)' <=> k = n
          BY <3>3, <4>1, <4>2, <4>3
      <4>5. n \in Due(p)' /\ Due(p)' = {n}
          BY <4>4
      <4> QED
          BY <4>1, <4>5 DEF OneOf
    <3>7. CASE ~Under(p, Tile) /\ Due(p) = {}
      <4>1. Due(p)' = {}
          BY <3>3, <3>4, <3>7
      <4> QED
          BY <2>1, <3>2, <3>7, <4>1 DEF OneOf
    <3>8. CASE ~Under(p, Tile) /\ Due(p) # {}
      <4>1. PICK d \in Due(p) : Due(p) = {d} /\ Stamped(p) = {}
          BY <3>2, <3>8 DEF OneOf
      <4>2. d \in Nat /\ d > 1 /\ d + 3 \in Nat /\ d + 3 > 4 /\ (d + 3) - 3 = d
          BY <4>1, <3>2, <3>5, <3>8
      <4>3. \A k \in Nat : k - 3 = d => k = d + 3
          BY <4>2
      <4>4. \A k : k \in Due(p)' <=> k = d + 3
          BY <3>3, <3>4, <3>8, <4>1, <4>2, <4>3
      <4>5. d + 3 \in Due(p)' /\ Due(p)' = {d + 3}
          BY <4>4
      <4> QED
          BY <4>1, <4>5 DEF OneOf
    <3> QED
        BY <2>1, <3>6, <3>7, <3>8
  <2> QED
      BY <1>1, <2>1 DEF CoverageExact
<1> QED
    BY <1>2, <1>3, <1>4, <1>5 DEF TileInv

(* The stamp of a quad has its covered pixels.                             *)
StampOf(t) ==
    [x |-> t.x \div 2, y |-> t.y \div 2, mask |-> Mask(t),
     bcoords |-> [p \in Mask(t) |-> ValueAt(t, p[1], p[2])]]

LEMMA StampExact ==
    ASSUME TileTypeOK, NEW t \in TileType, TileTrue(t), t.log <= 1
    PROVE  /\ StampOf(t) \in StampType /\ StampTrue(StampOf(t))
           /\ \A p \in Int \X Int : InStamp(p, StampOf(t)) <=> Under(p, t) /\ Covered(p)
           /\ \A p \in Int \X Int : Under(p, t) /\ Covered(p) => Mask(t) # {}
<1> DEFINE st == StampOf(t)
<1>1. t.x \in Int /\ t.y \in Int /\ t.x % 2 = 0 /\ t.y % 2 = 0
    BY DEF TileType, TileTrue
<1>2. /\ t.x \div 2 \in Int /\ 2 * (t.x \div 2) = t.x
      /\ t.y \div 2 \in Int /\ 2 * (t.y \div 2) = t.y
    BY <1>1
<1>3. /\ st.x = t.x \div 2 /\ st.y = t.y \div 2 /\ st.mask = Mask(t)
      /\ st.bcoords = [p \in Mask(t) |-> ValueAt(t, p[1], p[2])]
    BY DEF StampOf
<1>4. /\ Mask(t) \in SUBSET Places
      /\ \A q \in Mask(t) : /\ <<t.x + q[1], t.y + q[2]>> \in Int \X Int
                            /\ Under(<<t.x + q[1], t.y + q[2]>>, t)
                            /\ Covered(<<t.x + q[1], t.y + q[2]>>)
                            /\ ValueAt(t, q[1], q[2]) = EdgeValues(<<t.x + q[1], t.y + q[2]>>)
                            /\ ValueAt(t, q[1], q[2]) \in [Sides -> Int]
      /\ \A p \in Int \X Int : Under(p, t) /\ Covered(p) =>
           \E q \in Mask(t) : p = <<t.x + q[1], t.y + q[2]>>
    BY MaskExact
<1>5. st \in StampType
  <2>1. [p \in Mask(t) |-> ValueAt(t, p[1], p[2])] \in [Mask(t) -> [Sides -> Int]]
      BY <1>4
  <2>2. [p \in Mask(t) |-> ValueAt(t, p[1], p[2])] \in UNION {[m -> [Sides -> Int]] : m \in SUBSET Places}
      BY <2>1, <1>4
  <2> QED
      BY <1>2, <1>4, <2>2 DEF StampOf, StampType
<1>6. \A q \in st.mask : 2 * st.x + q[1] = t.x + q[1] /\ 2 * st.y + q[2] = t.y + q[2]
    BY <1>2, <1>3
<1>7. \A q \in st.mask : st.bcoords[q] = EdgeValues(<<t.x + q[1], t.y + q[2]>>)
    BY <1>3, <1>4
<1> HIDE DEF st
<1>8. StampTrue(st)
    BY <1>3, <1>4, <1>6, <1>7 DEF StampTrue
<1>9. ASSUME NEW p \in Int \X Int
      PROVE  InStamp(p, st) <=> Under(p, t) /\ Covered(p)
  <2>1. ASSUME InStamp(p, st) PROVE Under(p, t) /\ Covered(p)
    <3>1. PICK q \in st.mask : p = <<2 * st.x + q[1], 2 * st.y + q[2]>>
        BY <2>1 DEF InStamp
    <3>2. p = <<t.x + q[1], t.y + q[2]>>
        BY <3>1, <1>6
    <3> QED
        BY <3>2, <1>3, <1>4
  <2>2. ASSUME Under(p, t), Covered(p) PROVE InStamp(p, st)
    <3>1. PICK q \in Mask(t) : p = <<t.x + q[1], t.y + q[2]>>
        BY <2>2, <1>4
    <3>2. q \in st.mask /\ p = <<2 * st.x + q[1], 2 * st.y + q[2]>> /\ st.bcoords[q] = EdgeValues(p)
        BY <3>1, <1>3, <1>6, <1>7
    <3> QED
        BY <3>2 DEF InStamp
  <2> QED
      BY <2>1, <2>2
<1> QED
    BY <1>4, <1>5, <1>8, <1>9 DEF st

(* Quad: the covered pixels under the tile go into the new stamp.          *)
LEMMA QuadKeeps ==
    ASSUME TileInv, Quad
    PROVE  TileInv'
<1> DEFINE st == StampOf(Tile)
<1>1. /\ TileTypeOK /\ todo # <<>> /\ Tile.log <= 1 /\ todo' = Tail(todo) /\ CoverageExact
      /\ UNCHANGED <<edges, origin, scissor>>
      /\ stamps' = IF Mask(Tile) = {} THEN stamps ELSE Append(stamps, st)
    BY DEF TileInv, Quad, StampOf
<1>2. Tile \in TileType /\ TileTrue(Tile)
    BY <1>1, FirstTile
<1>3. /\ st \in StampType /\ StampTrue(st)
      /\ \A p \in Int \X Int : InStamp(p, st) <=> Under(p, Tile) /\ Covered(p)
      /\ \A p \in Int \X Int : Under(p, Tile) /\ Covered(p) => Mask(Tile) # {}
    BY <1>1, <1>2, StampExact
<1> HIDE DEF st
<1>4. /\ stamps' \in Seq(StampType)
      /\ \A k \in DOMAIN stamps' :
           \/ k \in DOMAIN stamps /\ stamps'[k] = stamps[k]
           \/ Mask(Tile) # {} /\ k = Len(stamps) + 1 /\ stamps'[k] = st
      /\ \A k \in DOMAIN stamps : k \in DOMAIN stamps' /\ stamps'[k] = stamps[k]
      /\ Mask(Tile) # {} => Len(stamps) + 1 \in DOMAIN stamps' /\ stamps'[Len(stamps) + 1] = st
      /\ Len(stamps) + 1 \notin DOMAIN stamps
  <2>1. stamps \in Seq(StampType)
      BY <1>1 DEF TileTypeOK
  <2>2. CASE Mask(Tile) = {}
      BY <2>1, <2>2, <1>1
  <2>3. CASE Mask(Tile) # {}
    <3>1. stamps' = Append(stamps, st)
        BY <2>3, <1>1
    <3> QED
        BY <2>1, <2>3, <3>1, <1>3
  <2> QED
      BY <2>2, <2>3
<1>5. TileTypeOK'
    BY <1>1, <1>4, TakeTile DEF TileTypeOK
<1>6. TilesTrue'
    BY <1>1, TakeTile, SamePixels DEF TileInv, TilesTrue
<1>7. StampsTrue'
    BY <1>1, <1>3, <1>4, SamePixels DEF TileInv, StampsTrue
<1>8. CoverageExact'
  <2>1. \A p : Stamped(p)' = {k \in DOMAIN stamps' : InStamp(p, stamps'[k])}
    <3>1. \A p : EdgeValues(p)' = EdgeValues(p)
        BY <1>1, SamePixels
    <3> QED
        BY <3>1 DEF Stamped, InStamp
  <2> SUFFICES ASSUME NEW p \in Pixels
               PROVE  IF Covered(p) THEN OneOf(Stamped(p)', Due(p)') ELSE Stamped(p)' = {}
      BY <1>1, SamePixels DEF CoverageExact, OneOf
  <2>2. p \in Int \X Int
      BY <1>1, PixelTypes
  <2>3. /\ Stamped(p) = {k \in DOMAIN stamps : InStamp(p, stamps[k])}
        /\ Due(p) \in SUBSET (Nat \ {0})
        /\ 1 \in Due(p) <=> Under(p, Tile)
      BY <1>1, StampedIsInStamp, FirstTile
  <2>4. IF Covered(p) THEN OneOf(Stamped(p), Due(p)) ELSE Stamped(p) = {}
      BY <1>1 DEF CoverageExact
  <2>5. CASE ~(Under(p, Tile) /\ Covered(p))
    <3>1. ~InStamp(p, st)
        BY <2>2, <2>5, <1>3
    <3>2. Stamped(p)' = Stamped(p)
        BY <2>1, <2>3, <3>1, <1>4
    <3>3. CASE Covered(p)
      <4>1. 1 \notin Due(p) /\ OneOf(Stamped(p), Due(p))
          BY <2>3, <2>4, <2>5, <3>3
      <4>2. \A k : k \in Due(p)' <=> k \in Nat \ {0} /\ k + 1 \in Due(p)
          BY <1>1, TakeTile
      <4>3. OneOf(Stamped(p), Due(p)')
          BY <2>3, <4>1, <4>2, ShiftDown
      <4> QED
          BY <3>2, <3>3, <4>3
    <3> QED
        BY <2>4, <3>2, <3>3
  <2>6. CASE Under(p, Tile) /\ Covered(p)
    <3>1. Mask(Tile) # {} /\ InStamp(p, st)
        BY <2>2, <2>6, <1>3
    <3>2. Due(p) = {1} /\ Stamped(p) = {}
        BY <2>3, <2>4, <2>6 DEF OneOf
    <3>3. \A k : k \in Stamped(p)' <=> k = Len(stamps) + 1
        BY <2>1, <2>3, <3>1, <3>2, <1>4
    <3>4. Due(p)' = {}
      <4>1. \A k : k \in Due(p)' => k \in Nat \ {0} /\ k + 1 \in Due(p)
          BY <1>1, TakeTile
      <4>2. \A k \in Nat \ {0} : k + 1 # 1
          OBVIOUS
      <4> QED
          BY <3>2, <4>1, <4>2
    <3>5. Len(stamps) + 1 \in Stamped(p)' /\ Stamped(p)' = {Len(stamps) + 1}
        BY <3>3
    <3> QED
        BY <2>6, <3>4, <3>5 DEF OneOf
  <2> QED
      BY <2>5, <2>6
<1> QED
    BY <1>5, <1>6, <1>7, <1>8 DEF TileInv

(* renderPrimitive: all pixels are under the one tile to render.           *)
LEMMA TileStart ==
    ASSUME TileInit
    PROVE  TileInv
<1> DEFINE t == [log |-> TileLogSize, x |-> origin.x, y |-> origin.y,
                 value |-> [s \in Sides |-> EvalEdgeFunction(edges[s], origin.x, origin.y)]]
<1>1. edges \in [Sides -> Edges] /\ origin \in Origins /\ scissor \in Scissors /\ todo = <<t>> /\ stamps = <<>>
    BY DEF TileInit
<1>2. /\ TileLogSize \in Nat \ {0} /\ origin.x \in Int /\ origin.y \in Int
      /\ origin.x % 2 = 0 /\ origin.y % 2 = 0
    BY <1>1, TileAssumption
<1>3. \A s \in Sides : EvalEdgeFunction(edges[s], origin.x, origin.y) \in Int
  <2>1. \A s \in Sides : edges[s] \in [x : Int, y : Int, z : Int]
      BY <1>1, TileAssumption
  <2> QED
      BY <2>1, <1>2 DEF EvalEdgeFunction
<1>4. t \in TileType
    BY <1>2, <1>3 DEF TileType
<1>5. TileTrue(t)
    BY <1>2 DEF TileTrue, EdgeValues
<1>6. t.x = origin.x /\ t.y = origin.y /\ t.log = TileLogSize
    OBVIOUS
<1> HIDE DEF t
<1>7. DOMAIN todo = {1} /\ todo[1] = t /\ todo \in Seq(TileType)
    BY <1>1, <1>4
<1>8. DOMAIN stamps = {} /\ stamps \in Seq(StampType)
    BY <1>1
<1>9. TileTypeOK
    BY <1>1, <1>7, <1>8 DEF TileTypeOK
<1>10. TilesTrue /\ StampsTrue
    BY <1>5, <1>7, <1>8 DEF TilesTrue, StampsTrue
<1>11. CoverageExact
  <2> SUFFICES ASSUME NEW p \in Pixels
               PROVE  Stamped(p) = {} /\ Due(p) = {1}
      BY DEF CoverageExact, OneOf
  <2>1. Stamped(p) = {}
      BY <1>8, StampedIsInStamp
  <2>2. PICK x \in origin.x..(origin.x + 2^TileLogSize - 1), y \in origin.y..(origin.y + 2^TileLogSize - 1) :
          p = <<x, y>>
      BY DEF Pixels
  <2>3. p[1] = x /\ p[2] = y
      BY <2>2
  <2>4. Under(p, t)
      BY <2>2, <2>3, <1>6 DEF Under
  <2> QED
      BY <2>1, <2>4, <1>7, DueIsUnder
<1> QED
    BY <1>9, <1>10, <1>11 DEF TileInv

(* Every step of the recursion keeps the invariant.                        *)
LEMMA TileStep ==
    ASSUME TileInv, [TileNext]_tileVars
    PROVE  TileInv'
<1>1. CASE UNCHANGED tileVars
  <2>1. UNCHANGED <<edges, origin, scissor, todo, stamps>>
      BY <1>1 DEF tileVars
  <2>2. TileTypeOK'
      BY <2>1 DEF TileInv, TileTypeOK
  <2>3. TilesTrue' /\ StampsTrue'
      BY <2>1, SamePixels DEF TileInv, TilesTrue, StampsTrue
  <2>4. \A p : Due(p)' = Due(p)
      BY <2>1 DEF Due
  <2>5. CoverageExact'
      BY <2>1, <2>4, SamePixels, SameStamps DEF TileInv, CoverageExact, OneOf
  <2> QED
      BY <2>2, <2>3, <2>5 DEF TileInv
<1>2. CASE Reject
    BY <1>2, RejectKeeps
<1>3. CASE Split
    BY <1>3, SplitKeeps
<1>4. CASE Quad
    BY <1>4, QuadKeeps
<1> QED
    BY <1>1, <1>2, <1>3, <1>4 DEF TileNext

(* Each pixel a primitive covers is, at every point of the recursion of    *)
(* renderTile, in one stamp with its edge values or under one tile still   *)
(* to render, and no other pixel is stamped: the rejection by              *)
(* CalcEdgeExtents loses nothing (graphics.cpp).                           *)
THEOREM CoversExactly == TileSpec => []CoverageExact
<1>1. TileInit => TileInv
    BY TileStart
<1>2. TileInv /\ [TileNext]_tileVars => TileInv'
    BY TileStep
<1>3. TileInv => CoverageExact
    BY DEF TileInv
<1> QED
    BY <1>1, <1>2, <1>3, PTL DEF TileSpec

----------------------------------------------------------------------------
(* Products in order.                                                      *)
LEMMA ProductOrder ==
    ASSUME NEW p \in Nat, NEW q \in Nat, NEW b \in Nat
    PROVE  /\ p <= q => p * b <= q * b
           /\ p < q => p * b + b <= q * b
           /\ p * b \in Nat /\ q * b \in Nat
<1>1. ASSUME p <= q PROVE p * b <= q * b
  <2>1. PICK d \in Nat : q = p + d
      BY <1>1, q - p \in Nat, q = p + (q - p)
  <2>2. q * b = p * b + d * b
      BY <2>1
  <2>3. d * b \in Nat /\ p * b \in Nat
      BY <2>1
  <2> QED
      BY <2>2, <2>3
<1>2. ASSUME p < q PROVE p * b + b <= q * b
  <2>1. PICK d \in Nat : q = (p + 1) + d
      BY <1>2, q - (p + 1) \in Nat, q = (p + 1) + (q - (p + 1))
  <2>2. q * b = p * b + b + d * b
      BY <2>1
  <2>3. d * b \in Nat /\ p * b \in Nat
      BY <2>1
  <2> QED
      BY <2>2, <2>3
<1>3. p * b \in Nat /\ q * b \in Nat
    OBVIOUS
<1> QED
    BY <1>1, <1>2, <1>3

(* Quotient and remainder are unique.                                      *)
LEMMA DivisionUnique ==
    ASSUME NEW b \in Nat \ {0}, NEW p \in Nat, NEW q \in Nat, NEW r \in 0..(b - 1), NEW s \in 0..(b - 1),
           p * b + r = q * b + s
    PROVE  p = q /\ r = s
<1>1. p * b \in Nat /\ q * b \in Nat
    BY ProductOrder
<1>2. ~(p < q)
    BY <1>1, ProductOrder
<1>3. ~(q < p)
    BY <1>1, ProductOrder
<1>4. p = q
    BY <1>2, <1>3
<1> QED
    BY <1>1, <1>4

(* Slices of b, the first r of them one longer: where slice x begins and   *)
(* how long it is.  The parts of the cores and the batches of the warps    *)
(* are such slices.                                                        *)
SliceStart(b, r, x) == x * b + SMin(x, r)
SliceSize(b, r, x) == b + (IF x < r THEN 1 ELSE 0)

(* A slice ends where the next one starts.                                 *)
LEMMA SlicesAdjoin ==
    ASSUME NEW b \in Nat, NEW r \in Nat, NEW x \in Nat
    PROVE  /\ SliceStart(b, r, x) \in Nat /\ SliceSize(b, r, x) \in Nat
           /\ SliceStart(b, r, x) + SliceSize(b, r, x) = SliceStart(b, r, x + 1)
<1>1. x * b \in Nat /\ (x + 1) * b = x * b + b
    BY ProductOrder
<1> QED
    BY <1>1 DEF SliceStart, SliceSize, SMin

(* A later slice starts no earlier.                                        *)
LEMMA SlicesOrdered ==
    ASSUME NEW b \in Nat, NEW r \in Nat, NEW x \in Nat, NEW y \in Nat, x <= y
    PROVE  SliceStart(b, r, x) <= SliceStart(b, r, y)
<1>1. x * b \in Nat /\ y * b \in Nat /\ x * b <= y * b
    BY ProductOrder
<1> QED
    BY <1>1 DEF SliceStart, SMin

(* Every number below the end of the last slice is in one slice.           *)
LEMMA SlicesCover ==
    ASSUME NEW b \in Nat, NEW r \in Nat, NEW n \in Nat, NEW i \in Nat, i < SliceStart(b, r, n)
    PROVE  \E x \in 0..(n - 1) : \E k \in Nat : k < SliceSize(b, r, x) /\ i = SliceStart(b, r, x) + k
<1> DEFINE T == {y \in Nat : i < SliceStart(b, r, y)}
<1>1. PICK y \in T : \A z \in T : y <= z
  <2>1. T \subseteq Nat /\ T # {}
      OBVIOUS
  <2> HIDE DEF T
  <2> QED
      BY <2>1, SmallestNat
<1>2. y \in Nat /\ i < SliceStart(b, r, y) /\ y <= n
    BY <1>1
<1>3. y # 0
  <2>1. 0 * b = 0
      OBVIOUS
  <2>2. SliceStart(b, r, 0) = 0
      BY <2>1 DEF SliceStart, SMin
  <2> QED
      BY <1>2, <2>2
<1> DEFINE x == y - 1
<1>4. x \in Nat /\ x \in 0..(n - 1) /\ x + 1 = y /\ ~(y <= x)
    BY <1>2, <1>3
<1>5. ~(i < SliceStart(b, r, x))
    BY <1>1, <1>4
<1> HIDE DEF x, T
<1>6. /\ SliceStart(b, r, x) \in Nat /\ SliceSize(b, r, x) \in Nat
      /\ SliceStart(b, r, x) + SliceSize(b, r, x) = SliceStart(b, r, y)
    BY <1>4, SlicesAdjoin
<1>7. /\ i - SliceStart(b, r, x) \in Nat /\ i - SliceStart(b, r, x) < SliceSize(b, r, x)
      /\ i = SliceStart(b, r, x) + (i - SliceStart(b, r, x))
    BY <1>2, <1>5, <1>6
<1> QED
    BY <1>4, <1>7

(* No two slices share a number.                                           *)
LEMMA SlicesApart ==
    ASSUME NEW b \in Nat, NEW r \in Nat,
           NEW x \in Nat, NEW k \in Nat, k < SliceSize(b, r, x),
           NEW y \in Nat, NEW l \in Nat, l < SliceSize(b, r, y),
           SliceStart(b, r, x) + k = SliceStart(b, r, y) + l
    PROVE  x = y /\ k = l
<1>1. /\ SliceStart(b, r, x) \in Nat /\ SliceSize(b, r, x) \in Nat
      /\ SliceStart(b, r, x) + SliceSize(b, r, x) = SliceStart(b, r, x + 1)
      /\ SliceStart(b, r, y) \in Nat /\ SliceSize(b, r, y) \in Nat
      /\ SliceStart(b, r, y) + SliceSize(b, r, y) = SliceStart(b, r, y + 1)
    BY SlicesAdjoin
<1>2. ~(x < y)
  <2> SUFFICES ASSUME x < y PROVE FALSE
      OBVIOUS
  <2>1. SliceStart(b, r, x + 1) <= SliceStart(b, r, y)
      BY SlicesOrdered, x + 1 \in Nat, x + 1 <= y
  <2> QED
      BY <1>1, <2>1
<1>3. ~(y < x)
  <2> SUFFICES ASSUME y < x PROVE FALSE
      OBVIOUS
  <2>1. SliceStart(b, r, y + 1) <= SliceStart(b, r, x)
      BY SlicesOrdered, y + 1 \in Nat, y + 1 <= x
  <2> QED
      BY <1>1, <2>1
<1>4. x = y
    BY <1>2, <1>3
<1> QED
    BY <1>1, <1>4

(* A slice ends before any later one starts.                               *)
LEMMA SlicesEnd ==
    ASSUME NEW b \in Nat, NEW r \in Nat, NEW n \in Nat,
           NEW x \in Nat, x < n, NEW k \in Nat, k < SliceSize(b, r, x)
    PROVE  SliceStart(b, r, x) + k < SliceStart(b, r, n)
<1>1. /\ SliceStart(b, r, x) \in Nat /\ SliceSize(b, r, x) \in Nat
      /\ SliceStart(b, r, x) + SliceSize(b, r, x) = SliceStart(b, r, x + 1)
    BY SlicesAdjoin
<1>2. SliceStart(b, r, x + 1) <= SliceStart(b, r, n)
    BY SlicesOrdered, x + 1 \in Nat, x + 1 <= n
<1>3. SliceStart(b, r, n) \in Nat
    BY SlicesAdjoin
<1> QED
    BY <1>1, <1>2, <1>3

----------------------------------------------------------------------------
(* The launches that vx_spawn_threads gets right: at most one core has one *)
(* block more than the others, and no core has tasks that do not fill a    *)
(* warp.                                                                   *)
EvenLaunch ==
    /\ Left <= 1
    /\ \A c \in Cores : c < ActiveCores => RemainingTasks(c) = 0

(* A block fits into a core.                                               *)
Fits == launch.size <= launch.warps * launch.threads

(* The numbers of a launch are positive.                                   *)
LEMMA LaunchTypes ==
    ASSUME launch \in Launches
    PROVE  /\ launch.cores \in Nat \ {0} /\ launch.warps \in Nat \ {0} /\ launch.threads \in Nat \ {0}
           /\ launch.groups \in Nat \ {0} /\ launch.size \in Nat \ {0}
    BY LaunchAssumption DEF Count

(* Rounded up, a quotient of positive numbers is positive.                 *)
LEMMA CeilDivPositive ==
    ASSUME NEW a \in Nat \ {0}, NEW b \in Nat \ {0}
    PROVE  CeilDiv(a, b) \in Nat \ {0}
<1> DEFINE n == a + b - 1
<1>1. n \in Nat /\ n >= b
    OBVIOUS
<1> HIDE DEF n
<1>2. n \div b \in Nat /\ n % b \in 0..(b - 1) /\ n = (n \div b) * b + (n % b)
    BY <1>1, UnpackPack
<1>3. n \div b # 0
  <2> SUFFICES ASSUME n \div b = 0 PROVE FALSE
      OBVIOUS
  <2>1. 0 * b = 0
      OBVIOUS
  <2>2. n = n % b
      BY <1>2, <2>1
  <2> QED
      BY <1>1, <1>2, <2>2
<1> QED
    BY <1>2, <1>3 DEF CeilDiv, n

(* The sizes vx_spawn_threads computes from a launch are positive.         *)
LEMMA Sizes ==
    ASSUME launch \in Launches
    PROVE  /\ WarpsPerGroup \in Nat \ {0}
           /\ ActiveCores \in Nat \ {0} /\ ActiveCores <= launch.cores
           /\ launch.groups \div ActiveCores \in Nat
           /\ Left \in 0..(ActiveCores - 1)
           /\ launch.groups = (launch.groups \div ActiveCores) * ActiveCores + Left
           /\ \A c \in Nat : Share(c) \in Nat
<1>1. WarpsPerGroup \in Nat \ {0}
    BY LaunchTypes, CeilDivPositive DEF WarpsPerGroup
<1>2. launch.groups * WarpsPerGroup \in Nat \ {0} /\ launch.warps * launch.threads \in Nat \ {0}
    BY <1>1, LaunchTypes
<1>3. NeededCores \in Nat \ {0}
    BY <1>2, LaunchTypes, CeilDivPositive DEF NeededCores
<1>4. ActiveCores \in Nat \ {0} /\ ActiveCores <= launch.cores
    BY <1>3, LaunchTypes DEF ActiveCores, SMin
<1>5. launch.groups \in Nat
    BY LaunchTypes
<1>6. /\ launch.groups \div ActiveCores \in Nat
      /\ launch.groups % ActiveCores \in 0..(ActiveCores - 1)
      /\ launch.groups = (launch.groups \div ActiveCores) * ActiveCores + (launch.groups % ActiveCores)
    BY <1>4, <1>5, UnpackPack
<1>7. \A c \in Nat : Share(c) \in Nat
    BY <1>6 DEF Share
<1> QED
    BY <1>1, <1>4, <1>6, <1>7 DEF Left

(* The parts of the cores are slices of the grid.                          *)
LEMMA CoreSlices ==
    ASSUME launch \in Launches, Left <= 1
    PROVE  LET q == launch.groups \div ActiveCores
           IN /\ \A c \in Nat : Share(c) = SliceSize(q, Left, c) /\ Offset(c) = SliceStart(q, Left, c)
              /\ SliceStart(q, Left, ActiveCores) = launch.groups
<1> DEFINE q == launch.groups \div ActiveCores
<1>1. /\ q \in Nat /\ Left \in Nat /\ ActiveCores \in Nat \ {0} /\ Left < ActiveCores
      /\ launch.groups = q * ActiveCores + Left
    BY Sizes
<1>2. \A c \in Nat : Share(c) = SliceSize(q, Left, c)
    BY DEF Share, SliceSize
<1> HIDE DEF q
<1>3. ASSUME NEW c \in Nat
      PROVE  Offset(c) = SliceStart(q, Left, c)
  <2>1. CASE c < Left
    <3>1. c = 0
        BY <1>1, <2>1
    <3>2. 0 * q = 0 /\ 0 * Share(0) = 0
        BY <1>1, Sizes
    <3> QED
        BY <3>1, <3>2 DEF Offset, SliceStart
  <2>2. CASE ~(c < Left)
    <3>1. Share(c) = q
        BY <1>1, <1>2, <2>2 DEF SliceSize
    <3> QED
        BY <3>1 DEF Offset, SliceStart
  <2> QED
      BY <2>1, <2>2
<1>4. SliceStart(q, Left, ActiveCores) = launch.groups
  <2>1. ActiveCores * q = q * ActiveCores
      BY <1>1
  <2> QED
      BY <1>1, <2>1 DEF SliceStart, SMin
<1> QED
    BY <1>2, <1>3, <1>4 DEF q

----------------------------------------------------------------------------
(* A batch k that a thread t of a warp w of a core c has to run, and which *)
(* piece of the core's part it runs.                                       *)
Valid(c, w, t, k) ==
    /\ c \in Cores /\ c < ActiveCores
    /\ w \in Warps /\ w < ActiveWarps(c)
    /\ t \in MaskOf(w)
    /\ k \in Nat /\ k < Iterations(c, w)
Piece(c, w, t, k) ==
    IF Grouped THEN w \div WarpsPerGroup + k * GroupsPerCore
    ELSE (StartWarp(c, w) + k) * launch.threads + t

(* The batches of the warps are slices of the core's warps.                *)
LEMMA TaskWarps ==
    ASSUME launch \in Launches, ~Grouped, NEW c \in Cores, c < ActiveCores, RemainingTasks(c) = 0
    PROVE  /\ TotalWarps(c) \in Nat /\ Share(c) = TotalWarps(c) * launch.threads
           /\ ActiveWarps(c) \in Nat /\ ActiveWarps(c) <= launch.warps
           /\ WarpBatches(c) \in Nat /\ RemainingWarps(c) \in Nat
           /\ \A w \in Nat : /\ StartWarp(c, w) = SliceStart(WarpBatches(c), RemainingWarps(c), w)
                             /\ Iterations(c, w) = SliceSize(WarpBatches(c), RemainingWarps(c), w)
           /\ SliceStart(WarpBatches(c), RemainingWarps(c), ActiveWarps(c)) = TotalWarps(c)
<1>1. c \in Nat /\ launch.threads \in Nat \ {0} /\ launch.warps \in Nat \ {0} /\ Share(c) \in Nat
    BY LaunchTypes, Sizes DEF Cores
<1>2. /\ Share(c) \div launch.threads \in Nat
      /\ Share(c) = (Share(c) \div launch.threads) * launch.threads + (Share(c) % launch.threads)
    BY <1>1, UnpackPack
<1>3. TotalWarps(c) \in Nat /\ Share(c) = TotalWarps(c) * launch.threads
  <2>1. Share(c) % launch.threads = 0
      BY DEF RemainingTasks
  <2>2. TotalWarps(c) = Share(c) \div launch.threads
      BY DEF TotalWarps
  <2>3. TotalWarps(c) * launch.threads \in Nat
      BY <1>1, <1>2, <2>2
  <2> QED
      BY <1>2, <2>1, <2>2, <2>3
<1>4. \A w \in Nat : /\ StartWarp(c, w) = SliceStart(WarpBatches(c), RemainingWarps(c), w)
                     /\ Iterations(c, w) = SliceSize(WarpBatches(c), RemainingWarps(c), w)
    BY DEF StartWarp, Iterations, SliceStart, SliceSize
<1>5. CASE Batched(c)
  <2> DEFINE b == TotalWarps(c) \div launch.warps
  <2>1. ActiveWarps(c) = launch.warps /\ WarpBatches(c) = b
        /\ RemainingWarps(c) = TotalWarps(c) - b * launch.warps
      BY <1>5 DEF ActiveWarps, WarpBatches, RemainingWarps, Capacity
  <2>2. b \in Nat /\ TotalWarps(c) % launch.warps \in 0..(launch.warps - 1)
        /\ TotalWarps(c) = b * launch.warps + (TotalWarps(c) % launch.warps)
      BY <1>1, <1>3, UnpackPack
  <2> HIDE DEF b
  <2>3. b * launch.warps \in Nat /\ launch.warps * b = b * launch.warps
      BY <1>1, <2>2
  <2>4. RemainingWarps(c) = TotalWarps(c) % launch.warps
      BY <2>1, <2>2, <2>3
  <2>5. SliceStart(b, RemainingWarps(c), launch.warps) = TotalWarps(c)
      BY <1>1, <2>2, <2>3, <2>4 DEF SliceStart, SMin
  <2> QED
      BY <1>1, <1>3, <1>4, <2>1, <2>2, <2>4, <2>5
<1>6. CASE ~Batched(c)
  <2>1. ActiveWarps(c) = TotalWarps(c) /\ WarpBatches(c) = 1 /\ RemainingWarps(c) = 0
      BY <1>6 DEF ActiveWarps, WarpBatches, RemainingWarps
  <2>2. TotalWarps(c) <= launch.warps
      BY <1>1, <1>3, <1>6 DEF Batched
  <2>3. SliceStart(1, 0, TotalWarps(c)) = TotalWarps(c)
      BY <1>3 DEF SliceStart, SMin
  <2> QED
      BY <1>3, <1>4, <2>1, <2>2, <2>3
<1> QED
    BY <1>5, <1>6

(* The mask of a group's last warp leaves out what is past the block.      *)
LEMMA MaskFits ==
    ASSUME launch \in Launches, Grouped, NEW w \in Warps, NEW t \in Threads
    PROVE  /\ w % WarpsPerGroup \in 0..(WarpsPerGroup - 1)
           /\ t \in MaskOf(w) <=> (w % WarpsPerGroup) * launch.threads + t < launch.size
<1> DEFINE n == launch.threads
           d == launch.size \div n
           e == launch.size % n
           v == w % WarpsPerGroup
<1>1. /\ n \in Nat \ {0} /\ launch.size \in Nat \ {0} /\ w \in Nat /\ t \in 0..(n - 1)
      /\ WarpsPerGroup \in Nat \ {0}
    BY LaunchTypes, Sizes DEF Warps, Threads
<1>2. d \in Nat /\ e \in 0..(n - 1) /\ launch.size = d * n + e
    BY <1>1, UnpackPack
<1>3. v \in 0..(WarpsPerGroup - 1)
    BY <1>1, UnpackPack
<1>4. t \in MaskOf(w) <=> (v = WarpsPerGroup - 1 /\ e # 0 => t < e)
    BY <1>1, <1>2 DEF MaskOf, Threads
<1>5. WarpsPerGroup = CeilDiv(launch.size, n)
    BY DEF WarpsPerGroup
<1> HIDE DEF d, e, v, n
<1>6. d * n \in Nat /\ v \in Nat /\ v * n \in Nat
    BY <1>1, <1>2, <1>3, ProductOrder
<1>7. CASE e = 0
  <2>1. launch.size + n - 1 = d * n + (n - 1) /\ n - 1 \in 0..(n - 1)
      BY <1>1, <1>2, <1>6, <1>7
  <2>2. WarpsPerGroup = d
      BY <1>1, <1>2, <1>5, <2>1, PackUnpack DEF CeilDiv
  <2>3. v < d
      BY <1>2, <1>3, <2>2
  <2>4. v * n + n <= d * n
      BY <1>1, <1>2, <1>6, <2>3, ProductOrder
  <2>5. v * n + t < launch.size
      BY <1>1, <1>2, <1>6, <1>7, <2>4
  <2> QED
      BY <1>3, <1>4, <1>7, <2>5 DEF v, n
<1>8. CASE e # 0
  <2>1. launch.size + n - 1 = (d + 1) * n + (e - 1) /\ e - 1 \in 0..(n - 1) /\ d + 1 \in Nat
    <3>1. (d + 1) * n = d * n + n
        BY <1>1, <1>2
    <3> QED
        BY <1>1, <1>2, <1>6, <1>8, <3>1
  <2>2. WarpsPerGroup = d + 1
      BY <1>1, <1>5, <2>1, PackUnpack DEF CeilDiv
  <2>3. CASE v = d
      BY <1>1, <1>2, <1>3, <1>4, <1>6, <1>8, <2>2, <2>3 DEF v, n
  <2>4. CASE v < d
    <3>1. v * n + n <= d * n
        BY <1>1, <1>2, <1>6, <2>4, ProductOrder
    <3>2. v * n + t < launch.size
        BY <1>1, <1>2, <1>6, <3>1
    <3>3. v # WarpsPerGroup - 1
        BY <1>2, <1>6, <2>2, <2>4
    <3> QED
        BY <1>3, <1>4, <3>2, <3>3 DEF v, n
  <2>5. v = d \/ v < d
      BY <1>2, <1>3, <2>2
  <2> QED
      BY <2>3, <2>4, <2>5
<1> QED
    BY <1>7, <1>8

(* The warps of a group hold a block, and a core holds a group.            *)
LEMMA GroupSizes ==
    ASSUME launch \in Launches, Grouped, Fits
    PROVE  /\ GroupsPerCore \in Nat \ {0}
           /\ GroupsPerCore * WarpsPerGroup <= launch.warps
           /\ \A g \in Nat : g * WarpsPerGroup <= launch.warps => g <= GroupsPerCore
           /\ \A l \in Nat : l < launch.size => l \div launch.threads < WarpsPerGroup
<1> DEFINE n == launch.threads
           v == WarpsPerGroup
           W == launch.warps
<1>1. n \in Nat \ {0} /\ v \in Nat \ {0} /\ W \in Nat \ {0} /\ launch.size \in Nat \ {0} /\ launch.size <= W * n
    BY LaunchTypes, Sizes DEF Fits
<1>2. launch.size + n - 1 \in Nat /\ v = (launch.size + n - 1) \div n
    BY <1>1 DEF WarpsPerGroup, CeilDiv
<1> HIDE DEF n, v, W
<1>3. (launch.size + n - 1) % n \in 0..(n - 1) /\ launch.size + n - 1 = v * n + ((launch.size + n - 1) % n)
    BY <1>1, <1>2, UnpackPack
<1>4. v * n \in Nat /\ W * n \in Nat
    BY <1>1
<1>5. launch.size <= v * n /\ v * n < launch.size + n
    BY <1>1, <1>3, <1>4
<1>6. v <= W
  <2>1. ~(W < v)
      BY <1>1, <1>4, <1>5, ProductOrder
  <2> QED
      BY <1>1, <2>1
<1>7. W \div v \in Nat /\ W % v \in 0..(v - 1) /\ W = (W \div v) * v + (W % v)
    BY <1>1, UnpackPack
<1>8. (W \div v) * v \in Nat
    BY <1>1, <1>7
<1>9. W \div v # 0
  <2>1. 0 * v = 0
      BY <1>1
  <2> QED
      BY <1>1, <1>6, <1>7, <2>1
<1>10. ASSUME NEW g \in Nat, g * v <= W
       PROVE  g <= W \div v
  <2>1. g * v \in Nat
      BY <1>1
  <2>2. ~(W \div v < g)
      BY <1>1, <1>7, <1>8, <1>10, <2>1, ProductOrder
  <2> QED
      BY <1>7, <2>2
<1>11. ASSUME NEW l \in Nat, l < launch.size
       PROVE  l \div n < v
  <2>1. l \div n \in Nat /\ l % n \in 0..(n - 1) /\ l = (l \div n) * n + (l % n)
      BY <1>1, UnpackPack
  <2>2. (l \div n) * n \in Nat
      BY <1>1, <2>1
  <2>3. ~(v <= l \div n)
      BY <1>1, <1>4, <1>5, <1>11, <2>1, <2>2, ProductOrder
  <2> QED
      BY <1>1, <2>1, <2>3
<1>12. GroupsPerCore = W \div v
    BY DEF GroupsPerCore, W, v
<1> QED
    BY <1>7, <1>8, <1>9, <1>10, <1>11, <1>12 DEF n, v, W

(* Which batches a warp has, whether they are one or several: it runs      *)
(* every GroupsPerCore-th of the core's blocks, from that of its group.    *)
LEMMA GroupWarps ==
    ASSUME launch \in Launches, Grouped, Fits, NEW c \in Cores, NEW w \in Nat, NEW k \in Nat
    PROVE  /\ ActiveWarps(c) \in Nat /\ ActiveWarps(c) <= launch.warps
           /\ w < ActiveWarps(c) /\ k < Iterations(c, w) <=>
                /\ w \div WarpsPerGroup < GroupsPerCore
                /\ w \div WarpsPerGroup + k * GroupsPerCore < Share(c)
<1> DEFINE S == Share(c)
           V == WarpsPerGroup
           G == GroupsPerCore
           W == launch.warps
           u == w \div V
<1>1. S \in Nat /\ V \in Nat \ {0} /\ G \in Nat \ {0} /\ W \in Nat \ {0} /\ G * V <= W
      /\ \A g \in Nat : g * V <= W => g <= G
  <2>1. c \in Nat
      BY LaunchTypes DEF Cores
  <2> QED
      BY <2>1, LaunchTypes, Sizes, GroupSizes
<1>2. u \in Nat /\ w % V \in 0..(V - 1) /\ w = u * V + (w % V)
    BY <1>1, UnpackPack
<1>3. TotalWarps(c) = S * V /\ Capacity = G * V
    BY DEF TotalWarps, Capacity
<1> HIDE DEF S, V, G, W, u
<1>4. u * V \in Nat /\ S * V \in Nat /\ G * V \in Nat /\ k * G \in Nat
    BY <1>1, <1>2
<1>5. ASSUME NEW m \in Nat
      PROVE  w < m * V <=> u < m
  <2>1. m * V \in Nat
      BY <1>1
  <2>2. u < m => u * V + V <= m * V
      BY <1>1, <1>2, ProductOrder
  <2>3. m <= u => m * V <= u * V
      BY <1>1, <1>2, ProductOrder
  <2> QED
      BY <1>1, <1>2, <1>4, <2>1, <2>2, <2>3
<1>6. CASE ~Batched(c)
  <2>1. ActiveWarps(c) = S * V /\ Iterations(c, w) = 1
    <3>1. ~(w < 0)
        OBVIOUS
    <3> QED
        BY <1>3, <1>6, <3>1 DEF ActiveWarps, Iterations, WarpBatches, RemainingWarps
  <2>2. S * V <= W
      BY <1>1, <1>3, <1>4, <1>6 DEF Batched, W
  <2>3. S <= G
      BY <1>1, <2>2
  <2>4. k < 1 <=> k = 0
      OBVIOUS
  <2>5. k # 0 => G <= k * G
    <3>1. 1 * G = G
        BY <1>1
    <3>2. k # 0 => 1 <= k
        OBVIOUS
    <3> QED
        BY <1>1, <3>1, <3>2, ProductOrder
  <2>6. 0 * G = 0
      BY <1>1
  <2>7. w < S * V <=> u < S
      BY <1>1, <1>5
  <2>8. w < S * V /\ k < 1 <=> u < G /\ u + k * G < S
    <3>1. ASSUME k = 0 PROVE u + k * G = u
        BY <3>1, <2>6, <1>2
    <3>2. ASSUME k # 0 PROVE ~(u + k * G < S)
        BY <3>2, <2>3, <2>5, <1>1, <1>2, <1>4
    <3> QED
        BY <2>3, <2>4, <2>7, <3>1, <3>2, <1>1, <1>2
  <2> QED
      BY <1>4, <2>1, <2>2, <2>8 DEF S, V, G, W, u
<1>7. CASE Batched(c)
  <2> DEFINE b == S \div G
             r == S % G
  <2>1. b \in Nat /\ r \in 0..(G - 1) /\ S = b * G + r
      BY <1>1, UnpackPack
  <2> HIDE DEF b, r
  <2>2. r * V \in Nat /\ r * V < G * V
    <3>1. r \in Nat /\ r < G
        BY <1>1, <2>1
    <3>2. r * V + V <= G * V
        BY <1>1, <3>1, ProductOrder
    <3>3. r * V \in Nat
        BY <1>1, <3>1
    <3> QED
        BY <1>1, <1>4, <3>2, <3>3
  <2>3. S * V = b * (G * V) + r * V
    <3>1. (b * G + r) * V = b * (G * V) + r * V
        BY <1>1, <2>1
    <3> QED
        BY <2>1, <3>1
  <2>4. (S * V) \div (G * V) = b
    <3>1. G * V \in Nat \ {0} /\ r * V \in 0..(G * V - 1)
        BY <1>4, <2>2
    <3> DEFINE m == G * V
               z == r * V
    <3>2. m \in Nat \ {0} /\ z \in 0..(m - 1) /\ S * V = b * m + z
        BY <3>1, <2>3
    <3> HIDE DEF m, z
    <3>3. (b * m + z) \div m = b
        BY <2>1, <3>2, PackUnpack
    <3> QED
        BY <3>2, <3>3 DEF m
  <2>5. ActiveWarps(c) = G * V /\ WarpBatches(c) = b
      BY <1>3, <1>7, <2>4 DEF ActiveWarps, WarpBatches
  <2>6. RemainingWarps(c) = r * V
    <3>1. b * (G * V) \in Nat
        BY <1>4, <2>1
    <3>2. RemainingWarps(c) = S * V - b * (G * V)
        BY <1>3, <1>7, <2>5 DEF RemainingWarps
    <3> QED
        BY <2>2, <2>3, <3>1, <3>2
  <2>7. Iterations(c, w) = b + (IF u < r THEN 1 ELSE 0)
    <3>1. w < r * V <=> u < r
        BY <1>5, <2>1
    <3> QED
        BY <2>5, <2>6, <3>1 DEF Iterations
  <2>8. w < G * V <=> u < G
      BY <1>1, <1>5
  <2>9. ASSUME u < G
        PROVE  k < b + (IF u < r THEN 1 ELSE 0) <=> u + k * G < S
    <3>1. b * G \in Nat
        BY <1>1, <2>1
    <3>2. CASE k < b
      <4>1. k * G + G <= b * G
          BY <1>1, <2>1, <3>2, ProductOrder
      <4>2. u + k * G < S
          BY <1>1, <1>2, <1>4, <2>1, <2>9, <3>1, <4>1
      <4> QED
          BY <2>1, <3>2, <4>2
    <3>3. CASE k = b
        BY <1>2, <2>1, <3>1, <3>3
    <3>4. CASE b < k
      <4>1. b * G + G <= k * G
          BY <1>1, <2>1, <3>4, ProductOrder
      <4>2. ~(u + k * G < S)
          BY <1>1, <1>2, <1>4, <2>1, <3>1, <4>1
      <4> QED
          BY <2>1, <3>4, <4>2
    <3> QED
        BY <2>1, <3>2, <3>3, <3>4
  <2> QED
      BY <1>1, <1>4, <2>5, <2>7, <2>8, <2>9 DEF S, V, G, W, u
<1> QED
    BY <1>6, <1>7

(* The types of a batch.                                                   *)
LEMMA SpawnTypes ==
    ASSUME launch \in Launches, NEW c, NEW w, NEW t, NEW k, Valid(c, w, t, k)
    PROVE  /\ c \in Nat /\ w \in Nat /\ t \in Nat /\ k \in Nat
           /\ t \in Threads /\ t \in 0..(launch.threads - 1)
<1>1. c \in Nat /\ w \in Nat /\ k \in Nat
    BY LaunchTypes DEF Valid, Cores, Warps
<1>2. t \in Threads
  <2>1. launch.size % launch.threads \in 0..(launch.threads - 1)
      BY LaunchTypes, UnpackPack
  <2> QED
      BY <2>1, LaunchTypes DEF Valid, MaskOf, Threads
<1> QED
    BY <1>1, <1>2, LaunchTypes DEF Threads

(* Within a core: the pieces of the batches are those of its part, each    *)
(* once, and the places in the block are those of a block.                 *)
LEMMA GroupPieces ==
    ASSUME launch \in Launches, Grouped, Fits, NEW c \in Cores, c < ActiveCores
    PROVE  /\ \A w, t, k : Valid(c, w, t, k) =>
                Piece(c, w, t, k) \in Nat /\ Piece(c, w, t, k) < Share(c) /\ LocalOf(w, t) \in Locals
           /\ \A w, t, k, x, s, l :
                /\ Valid(c, w, t, k) /\ Valid(c, x, s, l)
                /\ Piece(c, w, t, k) = Piece(c, x, s, l) /\ LocalOf(w, t) = LocalOf(x, s)
                => w = x /\ t = s /\ k = l
           /\ \A a \in Nat, i \in Locals : a < Share(c) =>
                \E w, t, k : Valid(c, w, t, k) /\ Piece(c, w, t, k) = a /\ LocalOf(w, t) = i
<1> DEFINE n == launch.threads
           V == WarpsPerGroup
           G == GroupsPerCore
<1>1. /\ n \in Nat \ {0} /\ V \in Nat \ {0} /\ G \in Nat \ {0} /\ launch.warps \in Nat \ {0}
      /\ launch.size \in Nat \ {0} /\ Share(c) \in Nat /\ G * V <= launch.warps
  <2>1. c \in Nat
      BY LaunchTypes DEF Cores
  <2> QED
      BY <2>1, LaunchTypes, Sizes, GroupSizes
<1>2. ASSUME NEW w, NEW t, NEW k, Valid(c, w, t, k)
      PROVE  /\ w \in Nat /\ k \in Nat /\ t \in 0..(n - 1)
             /\ w \div V \in 0..(G - 1) /\ w % V \in 0..(V - 1) /\ w = (w \div V) * V + (w % V)
             /\ Piece(c, w, t, k) = k * G + w \div V
             /\ Piece(c, w, t, k) \in Nat /\ Piece(c, w, t, k) < Share(c)
             /\ LocalOf(w, t) = (w % V) * n + t /\ LocalOf(w, t) \in Locals
  <2>1. w \in Nat /\ k \in Nat /\ t \in Threads /\ t \in 0..(n - 1)
      BY <1>2, SpawnTypes
  <2>2. w \div V \in Nat /\ w % V \in 0..(V - 1) /\ w = (w \div V) * V + (w % V)
      BY <1>1, <2>1, UnpackPack
  <2>3. w \div V < G /\ w \div V + k * G < Share(c)
      BY <1>2, <2>1, GroupWarps DEF Valid
  <2>4. k * G \in Nat
      BY <1>1, <2>1
  <2>5. Piece(c, w, t, k) = w \div V + k * G
      BY DEF Piece
  <2>6. LocalOf(w, t) = (w % V) * n + t
      BY DEF LocalOf
  <2>7. (w % V) * n + t < launch.size
      BY <1>2, <2>1, MaskFits DEF Valid
  <2>8. (w % V) * n \in Nat
      BY <1>1, <2>2
  <2> HIDE DEF n, V, G
  <2>9. (w % V) * n + t \in 0..(launch.size - 1)
      BY <1>1, <2>1, <2>7, <2>8
  <2> QED
      BY <1>1, <2>1, <2>2, <2>3, <2>4, <2>5, <2>6, <2>9 DEF Locals
<1>3. ASSUME NEW w, NEW t, NEW k, NEW x, NEW s, NEW l,
             Valid(c, w, t, k), Valid(c, x, s, l),
             Piece(c, w, t, k) = Piece(c, x, s, l), LocalOf(w, t) = LocalOf(x, s)
      PROVE  w = x /\ t = s /\ k = l
  <2>1. /\ w \in Nat /\ k \in Nat /\ t \in 0..(n - 1)
        /\ w \div V \in 0..(G - 1) /\ w % V \in 0..(V - 1) /\ w = (w \div V) * V + (w % V)
        /\ Piece(c, w, t, k) = k * G + w \div V
        /\ LocalOf(w, t) = (w % V) * n + t
      BY <1>2, <1>3
  <2>2. /\ x \in Nat /\ l \in Nat /\ s \in 0..(n - 1)
        /\ x \div V \in 0..(G - 1) /\ x % V \in 0..(V - 1) /\ x = (x \div V) * V + (x % V)
        /\ Piece(c, x, s, l) = l * G + x \div V
        /\ LocalOf(x, s) = (x % V) * n + s
      BY <1>2, <1>3
  <2> HIDE DEF n, V, G
  <2> DEFINE u == w \div V
             y == x \div V
             v == w % V
             z == x % V
  <2>3. k = l /\ u = y
    <3>1. u \in 0..(G - 1) /\ y \in 0..(G - 1) /\ k \in Nat /\ l \in Nat /\ G \in Nat \ {0}
        BY <1>1, <2>1, <2>2
    <3>2. k * G + u = l * G + y
        BY <1>3, <2>1, <2>2
    <3> HIDE DEF u, y
    <3> QED
        BY <3>1, <3>2, DivisionUnique
  <2>4. v = z /\ t = s
    <3>1. v \in Nat /\ z \in Nat /\ t \in 0..(n - 1) /\ s \in 0..(n - 1) /\ n \in Nat \ {0}
        BY <1>1, <2>1, <2>2
    <3>2. v * n + t = z * n + s
        BY <1>3, <2>1, <2>2
    <3> HIDE DEF v, z
    <3> QED
        BY <3>1, <3>2, DivisionUnique
  <2> QED
      BY <2>1, <2>2, <2>3, <2>4
<1>4. ASSUME NEW a \in Nat, NEW i \in Locals, a < Share(c)
      PROVE  \E w, t, k : Valid(c, w, t, k) /\ Piece(c, w, t, k) = a /\ LocalOf(w, t) = i
  <2> DEFINE u == a % G
             k == a \div G
             v == i \div n
             t == i % n
             w == u * V + v
  <2>1. i \in Nat /\ i < launch.size
      BY <1>1 DEF Locals
  <2>2. k \in Nat /\ u \in 0..(G - 1) /\ a = k * G + u
      BY <1>1, UnpackPack
  <2>3. v \in Nat /\ t \in 0..(n - 1) /\ i = v * n + t
      BY <1>1, <2>1, UnpackPack
  <2>4. v \in 0..(V - 1)
    <3>1. v < V
        BY <2>1, GroupSizes
    <3> QED
        BY <1>1, <2>3, <3>1
  <2> HIDE DEF u, k, v, t
  <2>5. w \in Nat /\ w \div V = u /\ w % V = v
    <3>1. u \in Nat
        BY <1>1, <2>2
    <3> QED
        BY <1>1, <2>4, <3>1, PackUnpack
  <2>6. w < launch.warps
    <3>1. u \in Nat /\ u < G
        BY <1>1, <2>2
    <3>2. u * V + V <= G * V /\ u * V \in Nat /\ G * V \in Nat
        BY <1>1, <3>1, ProductOrder
    <3> HIDE DEF n, V, G
    <3> QED
        BY <1>1, <2>4, <3>2
  <2> HIDE DEF w
  <2>7. w \in Warps /\ t \in Threads
      BY <1>1, <2>3, <2>5, <2>6 DEF Warps, Threads
  <2>8. w < ActiveWarps(c) /\ k < Iterations(c, w)
    <3>1. k * G \in Nat
        BY <1>1, <2>2
    <3>2. w \div V < G /\ w \div V + k * G < Share(c)
        BY <1>1, <1>4, <2>2, <2>5, <3>1
    <3> QED
        BY <2>2, <2>5, <3>2, GroupWarps
  <2>9. t \in MaskOf(w)
      BY <2>1, <2>3, <2>5, <2>7, MaskFits
  <2>10. Valid(c, w, t, k)
      BY <2>2, <2>7, <2>8, <2>9 DEF Valid
  <2>11. Piece(c, w, t, k) = a
    <3>1. k * G \in Nat
        BY <1>1, <2>2
    <3> QED
        BY <2>2, <2>5, <3>1 DEF Piece
  <2>12. LocalOf(w, t) = i
      BY <2>3, <2>5 DEF LocalOf
  <2> QED
      BY <2>10, <2>11, <2>12
<1> QED
    BY <1>2, <1>3, <1>4

(* The same for tasks, whose warps take their batches one after another.   *)
LEMMA TaskPieces ==
    ASSUME launch \in Launches, ~Grouped, NEW c \in Cores, c < ActiveCores, RemainingTasks(c) = 0
    PROVE  /\ \A w, t, k : Valid(c, w, t, k) =>
                Piece(c, w, t, k) \in Nat /\ Piece(c, w, t, k) < Share(c) /\ LocalOf(w, t) \in Locals
           /\ \A w, t, k, x, s, l :
                /\ Valid(c, w, t, k) /\ Valid(c, x, s, l)
                /\ Piece(c, w, t, k) = Piece(c, x, s, l) /\ LocalOf(w, t) = LocalOf(x, s)
                => w = x /\ t = s /\ k = l
           /\ \A a \in Nat, i \in Locals : a < Share(c) =>
                \E w, t, k : Valid(c, w, t, k) /\ Piece(c, w, t, k) = a /\ LocalOf(w, t) = i
<1> DEFINE n == launch.threads
           T == TotalWarps(c)
           b == WarpBatches(c)
           r == RemainingWarps(c)
           A == ActiveWarps(c)
<1>1. n \in Nat \ {0} /\ launch.warps \in Nat \ {0} /\ launch.size = 1
    BY LaunchTypes DEF Grouped
<1>2. /\ T \in Nat /\ Share(c) = T * n /\ A \in Nat /\ A <= launch.warps /\ b \in Nat /\ r \in Nat
      /\ \A w \in Nat : StartWarp(c, w) = SliceStart(b, r, w) /\ Iterations(c, w) = SliceSize(b, r, w)
      /\ SliceStart(b, r, A) = T
    BY TaskWarps
<1>3. Locals = {0}
    BY <1>1 DEF Locals
<1> HIDE DEF T, b, r, A
<1>4. ASSUME NEW w, NEW t, NEW k, Valid(c, w, t, k)
      PROVE  /\ w \in Nat /\ k \in Nat /\ t \in 0..(n - 1)
             /\ k < SliceSize(b, r, w)
             /\ SliceStart(b, r, w) + k \in Nat /\ SliceStart(b, r, w) + k < T
             /\ Piece(c, w, t, k) = (SliceStart(b, r, w) + k) * n + t
             /\ Piece(c, w, t, k) \in Nat /\ Piece(c, w, t, k) < Share(c)
             /\ LocalOf(w, t) \in Locals
  <2>1. w \in Nat /\ k \in Nat /\ t \in 0..(n - 1)
      BY <1>4, SpawnTypes
  <2>2. w < A /\ k < SliceSize(b, r, w)
      BY <1>2, <1>4, <2>1 DEF Valid, A
  <2> DEFINE m == SliceStart(b, r, w) + k
  <2>3. m \in Nat /\ m < T
    <3>1. SliceStart(b, r, w) \in Nat
        BY <1>2, <2>1, SlicesAdjoin
    <3>2. m < SliceStart(b, r, A)
        BY <1>2, <2>1, <2>2, SlicesEnd
    <3> QED
        BY <1>2, <2>1, <3>1, <3>2
  <2>4. Piece(c, w, t, k) = m * n + t
      BY <1>2, <2>1 DEF Piece
  <2> HIDE DEF m, n
  <2>5. m * n + n <= T * n /\ m * n \in Nat /\ T * n \in Nat
      BY <1>1, <1>2, <2>3, ProductOrder
  <2>6. Piece(c, w, t, k) \in Nat /\ Piece(c, w, t, k) < Share(c)
      BY <1>1, <1>2, <2>1, <2>4, <2>5
  <2>7. LocalOf(w, t) \in Locals
      BY <1>3 DEF LocalOf
  <2> QED
      BY <2>1, <2>2, <2>3, <2>4, <2>6, <2>7 DEF m
<1>5. ASSUME NEW w, NEW t, NEW k, NEW x, NEW s, NEW l,
             Valid(c, w, t, k), Valid(c, x, s, l), Piece(c, w, t, k) = Piece(c, x, s, l)
      PROVE  w = x /\ t = s /\ k = l
  <2>1. /\ w \in Nat /\ k \in Nat /\ t \in 0..(n - 1) /\ k < SliceSize(b, r, w)
        /\ SliceStart(b, r, w) + k \in Nat
        /\ Piece(c, w, t, k) = (SliceStart(b, r, w) + k) * n + t
      BY <1>4, <1>5
  <2>2. /\ x \in Nat /\ l \in Nat /\ s \in 0..(n - 1) /\ l < SliceSize(b, r, x)
        /\ SliceStart(b, r, x) + l \in Nat
        /\ Piece(c, x, s, l) = (SliceStart(b, r, x) + l) * n + s
      BY <1>4, <1>5
  <2> HIDE DEF n
  <2>3. SliceStart(b, r, w) + k = SliceStart(b, r, x) + l /\ t = s
    <3> DEFINE p == SliceStart(b, r, w) + k
               q == SliceStart(b, r, x) + l
    <3>1. p \in Nat /\ q \in Nat /\ t \in 0..(n - 1) /\ s \in 0..(n - 1) /\ n \in Nat \ {0}
        BY <1>1, <2>1, <2>2
    <3>2. p * n + t = q * n + s
        BY <1>5, <2>1, <2>2
    <3> HIDE DEF p, q
    <3>3. p = q /\ t = s
        BY <3>1, <3>2, DivisionUnique
    <3> QED
        BY <3>3 DEF p, q
  <2> QED
      BY <1>2, <2>1, <2>2, <2>3, SlicesApart
<1>6. ASSUME NEW a \in Nat, NEW i \in Locals, a < Share(c)
      PROVE  \E w, t, k : Valid(c, w, t, k) /\ Piece(c, w, t, k) = a /\ LocalOf(w, t) = i
  <2> DEFINE m == a \div n
             t == a % n
  <2>1. m \in Nat /\ t \in 0..(n - 1) /\ a = m * n + t
      BY <1>1, UnpackPack
  <2> HIDE DEF m, t
  <2>2. m < T
    <3>1. m * n \in Nat /\ T * n \in Nat
        BY <1>1, <1>2, <2>1
    <3>2. ~(T <= m)
        BY <1>1, <1>2, <1>6, <2>1, <3>1, ProductOrder
    <3> QED
        BY <1>2, <2>1, <3>2
  <2>3. PICK w \in 0..(A - 1) : \E k \in Nat : k < SliceSize(b, r, w) /\ m = SliceStart(b, r, w) + k
    <3>1. m \in Nat /\ m < SliceStart(b, r, A) /\ A \in Nat /\ b \in Nat /\ r \in Nat
        BY <1>2, <2>1, <2>2
    <3> QED
        BY <3>1, SlicesCover
  <2>4. PICK k \in Nat : k < SliceSize(b, r, w) /\ m = SliceStart(b, r, w) + k
      BY <2>3
  <2>5. w \in Nat /\ w < A /\ w \in Warps
      BY <1>1, <1>2, <2>3 DEF Warps
  <2>6. t \in MaskOf(w)
      BY <1>1, <2>1 DEF MaskOf, Threads
  <2>7. Valid(c, w, t, k)
      BY <1>2, <2>4, <2>5, <2>6 DEF Valid, A
  <2>8. Piece(c, w, t, k) = a
      BY <1>2, <2>1, <2>4, <2>5 DEF Piece
  <2>9. LocalOf(w, t) = i
      BY <1>3 DEF LocalOf
  <2> QED
      BY <2>7, <2>8, <2>9
<1> QED
    BY <1>4, <1>5, <1>6

(* Over all cores: every thread of every block is run in one batch.        *)
LEMMA Distribution ==
    ASSUME launch \in Launches, EvenLaunch, Fits
    PROVE  /\ \A c, w, t, k : Valid(c, w, t, k) =>
                BlockOf(c, w, t, k) \in Blocks /\ LocalOf(w, t) \in Locals
           /\ \A c, w, t, k, d, x, s, l :
                /\ Valid(c, w, t, k) /\ Valid(d, x, s, l)
                /\ BlockOf(c, w, t, k) = BlockOf(d, x, s, l) /\ LocalOf(w, t) = LocalOf(x, s)
                => c = d /\ w = x /\ t = s /\ k = l
           /\ \A g \in Blocks, i \in Locals :
                \E c, w, t, k : Valid(c, w, t, k) /\ BlockOf(c, w, t, k) = g /\ LocalOf(w, t) = i
<1> DEFINE q == launch.groups \div ActiveCores
<1>1. /\ q \in Nat /\ Left \in Nat /\ ActiveCores \in Nat \ {0} /\ ActiveCores <= launch.cores
      /\ launch.cores \in Nat /\ launch.groups \in Nat \ {0}
    BY Sizes, LaunchTypes
<1>2. /\ \A c \in Nat : Share(c) = SliceSize(q, Left, c) /\ Offset(c) = SliceStart(q, Left, c)
      /\ SliceStart(q, Left, ActiveCores) = launch.groups
    BY CoreSlices DEF EvenLaunch
<1> HIDE DEF q
<1>3. ASSUME NEW c \in Cores, c < ActiveCores
      PROVE  /\ \A w, t, k : Valid(c, w, t, k) =>
                  Piece(c, w, t, k) \in Nat /\ Piece(c, w, t, k) < Share(c) /\ LocalOf(w, t) \in Locals
             /\ \A w, t, k, x, s, l :
                  /\ Valid(c, w, t, k) /\ Valid(c, x, s, l)
                  /\ Piece(c, w, t, k) = Piece(c, x, s, l) /\ LocalOf(w, t) = LocalOf(x, s)
                  => w = x /\ t = s /\ k = l
             /\ \A a \in Nat, i \in Locals : a < Share(c) =>
                  \E w, t, k : Valid(c, w, t, k) /\ Piece(c, w, t, k) = a /\ LocalOf(w, t) = i
  <2>1. CASE Grouped
      BY <1>3, <2>1, GroupPieces
  <2>2. CASE ~Grouped
    <3>1. RemainingTasks(c) = 0
        BY <1>3 DEF EvenLaunch
    <3> QED
        BY <1>3, <2>2, <3>1, TaskPieces
  <2> QED
      BY <2>1, <2>2
<1>4. ASSUME NEW c, NEW w, NEW t, NEW k, Valid(c, w, t, k)
      PROVE  /\ c \in Nat /\ c < ActiveCores /\ c \in Cores
             /\ Piece(c, w, t, k) \in Nat /\ Piece(c, w, t, k) < SliceSize(q, Left, c)
             /\ LocalOf(w, t) \in Locals
             /\ BlockOf(c, w, t, k) = SliceStart(q, Left, c) + Piece(c, w, t, k)
  <2>1. c \in Nat /\ w \in Nat /\ t \in Nat /\ k \in Nat /\ c \in Cores /\ c < ActiveCores
      BY <1>4, SpawnTypes DEF Valid
  <2>2. Piece(c, w, t, k) \in Nat /\ Piece(c, w, t, k) < Share(c) /\ LocalOf(w, t) \in Locals
      BY <1>3, <1>4, <2>1
  <2>3. Offset(c) \in Nat /\ Offset(c) = SliceStart(q, Left, c) /\ Share(c) = SliceSize(q, Left, c)
      BY <1>1, <1>2, <2>1, SlicesAdjoin
  <2>4. BlockOf(c, w, t, k) = Offset(c) + Piece(c, w, t, k)
    <3>1. CASE Grouped
      <4>1. w \div WarpsPerGroup \in Nat
          BY <2>1, Sizes, UnpackPack
      <4>2. k * GroupsPerCore \in Nat
          BY <2>1, <3>1, GroupSizes
      <4> DEFINE a == w \div WarpsPerGroup
                 b == k * GroupsPerCore
      <4>3. BlockOf(c, w, t, k) = Offset(c) + a + b /\ Piece(c, w, t, k) = a + b
          BY <3>1 DEF BlockOf, Piece
      <4>4. a \in Nat /\ b \in Nat
          BY <4>1, <4>2
      <4> HIDE DEF a, b
      <4> QED
          BY <2>3, <4>3, <4>4
    <3>2. CASE ~Grouped
      <4> DEFINE a == (StartWarp(c, w) + k) * launch.threads
      <4>1. a \in Nat
        <5>1. RemainingTasks(c) = 0
            BY <2>1 DEF EvenLaunch
        <5>2. /\ WarpBatches(c) \in Nat /\ RemainingWarps(c) \in Nat
              /\ StartWarp(c, w) = SliceStart(WarpBatches(c), RemainingWarps(c), w)
            BY <2>1, <3>2, <5>1, TaskWarps
        <5>3. StartWarp(c, w) \in Nat
            BY <2>1, <5>2, SlicesAdjoin
        <5> QED
            BY <2>1, <5>3, LaunchTypes
      <4>2. BlockOf(c, w, t, k) = Offset(c) + a + t /\ Piece(c, w, t, k) = a + t
          BY <3>2 DEF BlockOf, Piece
      <4> HIDE DEF a
      <4> QED
          BY <2>1, <2>3, <4>1, <4>2
    <3> QED
        BY <3>1, <3>2
  <2> QED
      BY <2>1, <2>2, <2>3, <2>4
<1>5. ASSUME NEW c, NEW w, NEW t, NEW k, Valid(c, w, t, k)
      PROVE  BlockOf(c, w, t, k) \in Blocks /\ LocalOf(w, t) \in Locals
  <2> DEFINE a == Piece(c, w, t, k)
  <2>1. /\ c \in Nat /\ c < ActiveCores /\ a \in Nat /\ a < SliceSize(q, Left, c) /\ LocalOf(w, t) \in Locals
        /\ BlockOf(c, w, t, k) = SliceStart(q, Left, c) + a
      BY <1>4, <1>5
  <2> HIDE DEF a
  <2>2. SliceStart(q, Left, c) + a < SliceStart(q, Left, ActiveCores)
      BY <1>1, <2>1, SlicesEnd
  <2>3. SliceStart(q, Left, c) \in Nat
      BY <1>1, <2>1, SlicesAdjoin
  <2> QED
      BY <1>1, <1>2, <2>1, <2>2, <2>3 DEF Blocks
<1>6. ASSUME NEW c, NEW w, NEW t, NEW k, NEW d, NEW x, NEW s, NEW l,
             Valid(c, w, t, k), Valid(d, x, s, l),
             BlockOf(c, w, t, k) = BlockOf(d, x, s, l), LocalOf(w, t) = LocalOf(x, s)
      PROVE  c = d /\ w = x /\ t = s /\ k = l
  <2> DEFINE a == Piece(c, w, t, k)
             b == Piece(d, x, s, l)
  <2>1. /\ c \in Nat /\ c < ActiveCores /\ c \in Cores /\ a \in Nat /\ a < SliceSize(q, Left, c)
        /\ BlockOf(c, w, t, k) = SliceStart(q, Left, c) + a
      BY <1>4, <1>6
  <2>2. /\ d \in Nat /\ d < ActiveCores /\ b \in Nat /\ b < SliceSize(q, Left, d)
        /\ BlockOf(d, x, s, l) = SliceStart(q, Left, d) + b
      BY <1>4, <1>6
  <2>3. SliceStart(q, Left, c) + a = SliceStart(q, Left, d) + b
      BY <1>6, <2>1, <2>2
  <2>4. c = d /\ a = b
    <3> HIDE DEF a, b
    <3> QED
        BY <1>1, <2>1, <2>2, <2>3, SlicesApart
  <2>5. Valid(c, x, s, l) /\ Piece(c, w, t, k) = Piece(c, x, s, l)
      BY <1>6, <2>4
  <2> QED
      BY <1>3, <1>6, <2>1, <2>4, <2>5
<1>7. ASSUME NEW g \in Blocks, NEW i \in Locals
      PROVE  \E c, w, t, k : Valid(c, w, t, k) /\ BlockOf(c, w, t, k) = g /\ LocalOf(w, t) = i
  <2>1. g \in Nat /\ g < SliceStart(q, Left, ActiveCores)
      BY <1>1, <1>2 DEF Blocks
  <2>2. PICK c \in 0..(ActiveCores - 1) :
          \E a \in Nat : a < SliceSize(q, Left, c) /\ g = SliceStart(q, Left, c) + a
      BY <1>1, <2>1, SlicesCover
  <2>3. PICK a \in Nat : a < SliceSize(q, Left, c) /\ g = SliceStart(q, Left, c) + a
      BY <2>2
  <2>4. c \in Nat /\ c < ActiveCores /\ c \in Cores
      BY <1>1, <2>2 DEF Cores
  <2>5. PICK w, t, k : Valid(c, w, t, k) /\ Piece(c, w, t, k) = a /\ LocalOf(w, t) = i
      BY <1>2, <1>3, <2>3, <2>4
  <2>6. BlockOf(c, w, t, k) = g
      BY <1>4, <2>3, <2>5
  <2> QED
      BY <2>5, <2>6
<1> QED
    BY <1>5, <1>6, <1>7

----------------------------------------------------------------------------
SpawnTypeOK ==
    /\ launch \in Launches
    /\ stage \in [Cores -> {"begin", "run", "wait", "done"}]
    /\ iter \in [Cores -> [Warps -> Nat]]
    /\ blockIdx \in [Cores -> [Warps -> [Threads -> Nat]]]
    /\ ran \in [(0..MaxBlock) \X Locals -> Nat]

(* Where a core is tells what its warps have done.                         *)
StagesTrue ==
    \A c \in Cores :
        /\ stage[c] \in {"run", "wait"} => Fits /\ c < ActiveCores
        /\ stage[c] = "done" /\ Fits /\ c < ActiveCores => \A w \in Warps : WarpDone(c, w)

(* A task was run in a batch that is behind its warp.                      *)
Did(g, i) ==
    \E c \in Cores, w \in Warps, t \in Threads : \E k \in 0..(iter[c][w] - 1) :
        Valid(c, w, t, k) /\ BlockOf(c, w, t, k) = g /\ LocalOf(w, t) = i

(* A task was run once if its batch is behind its warp, and else not.      *)
Counted ==
    Fits => \A g \in 0..MaxBlock, i \in Locals : ran[<<g, i>>] = IF Did(g, i) THEN 1 ELSE 0

(* The inductive invariant.                                                *)
SpawnInv == SpawnTypeOK /\ EvenLaunch /\ StagesTrue /\ Counted

(* The launch stays, and so does all that is computed from it.             *)
LEMMA SameLaunch ==
    ASSUME launch' = launch
    PROVE  /\ Cores' = Cores /\ Warps' = Warps /\ Threads' = Threads /\ Locals' = Locals /\ Blocks' = Blocks
           /\ MaxBlock' = MaxBlock /\ Fits' = Fits /\ ActiveCores' = ActiveCores /\ EvenLaunch' = EvenLaunch
           /\ \A c : ActiveWarps(c)' = ActiveWarps(c)
           /\ \A c, w : Iterations(c, w)' = Iterations(c, w)
           /\ \A c, w, t, k : /\ Valid(c, w, t, k)' <=> Valid(c, w, t, k)
                              /\ BlockOf(c, w, t, k)' = BlockOf(c, w, t, k)
                              /\ LocalOf(w, t)' = LocalOf(w, t)
<1>1. /\ Cores' = Cores /\ Warps' = Warps /\ Threads' = Threads /\ Locals' = Locals /\ Blocks' = Blocks
      /\ MaxBlock' = MaxBlock /\ Fits' = Fits
    BY DEF Cores, Warps, Threads, Locals, Blocks, MaxBlock, Fits
<1>2. /\ Grouped' = Grouped /\ WarpsPerGroup' = WarpsPerGroup
    BY DEF Grouped, WarpsPerGroup, CeilDiv
<1>3. GroupsPerCore' = GroupsPerCore /\ NeededCores' = NeededCores
    BY <1>2 DEF GroupsPerCore, NeededCores, CeilDiv
<1>4. ActiveCores' = ActiveCores
    BY <1>3 DEF ActiveCores, SMin
<1>5. Left' = Left /\ Capacity' = Capacity
    BY <1>2, <1>3, <1>4 DEF Left, Capacity
<1>6. \A c : Share(c)' = Share(c)
    BY <1>4, <1>5 DEF Share
<1>7. \A c : Offset(c)' = Offset(c)
    BY <1>5, <1>6 DEF Offset, SMin
<1>8. \A c : TotalWarps(c)' = TotalWarps(c) /\ RemainingTasks(c)' = RemainingTasks(c)
    BY <1>2, <1>6 DEF TotalWarps, RemainingTasks
<1>9. \A c : Batched(c)' = Batched(c)
    BY <1>8 DEF Batched
<1>10. \A c : ActiveWarps(c)' = ActiveWarps(c) /\ WarpBatches(c)' = WarpBatches(c)
    BY <1>5, <1>8, <1>9 DEF ActiveWarps, WarpBatches
<1>11. \A c : RemainingWarps(c)' = RemainingWarps(c)
    BY <1>5, <1>8, <1>9, <1>10 DEF RemainingWarps
<1>12. \A c, w : Iterations(c, w)' = Iterations(c, w) /\ StartWarp(c, w)' = StartWarp(c, w)
    BY <1>10, <1>11 DEF Iterations, StartWarp, SMin
<1>13. \A w : MaskOf(w)' = MaskOf(w)
    BY <1>1, <1>2 DEF MaskOf
<1>14. \A c, w, t, k : Valid(c, w, t, k)' <=> Valid(c, w, t, k)
    BY <1>1, <1>4, <1>10, <1>12, <1>13 DEF Valid
<1>15. \A c, w, t, k : BlockOf(c, w, t, k)' = BlockOf(c, w, t, k)
    BY <1>2, <1>3, <1>7, <1>12 DEF BlockOf
<1>16. \A w, t : LocalOf(w, t)' = LocalOf(w, t)
    BY <1>2 DEF LocalOf
<1>17. EvenLaunch' = EvenLaunch
    BY <1>1, <1>4, <1>5, <1>8 DEF EvenLaunch
<1> QED
    BY <1>1, <1>4, <1>10, <1>12, <1>14, <1>15, <1>16, <1>17

(* RunBatch: the tasks of a batch were not run before, and are two by two  *)
(* different.                                                              *)
LEMMA BatchCounts ==
    ASSUME SpawnInv, NEW c \in Cores, NEW w \in Warps, RunBatch(c, w)
    PROVE  SpawnTypeOK' /\ Counted'
<1> DEFINE k0 == iter[c][w]
<1>1. /\ launch \in Launches /\ EvenLaunch /\ launch' = launch /\ stage' = stage
      /\ stage[c] = "run" /\ w < ActiveWarps(c) /\ k0 < Iterations(c, w)
      /\ iter' = [iter EXCEPT ![c][w] = @ + 1]
      /\ Called(c, w, MaskOf(w))
    BY DEF SpawnInv, SpawnTypeOK, RunBatch
<1>2. Fits /\ c < ActiveCores
    BY <1>1 DEF SpawnInv, StagesTrue
<1>3. k0 \in Nat /\ iter \in [Cores -> [Warps -> Nat]]
    BY DEF SpawnInv, SpawnTypeOK
<1>4. \A t \in MaskOf(w) : Valid(c, w, t, k0)
    BY <1>1, <1>2, <1>3 DEF Valid
<1>5. \A t \in MaskOf(w) : t \in Threads
    BY <1>1, <1>4, SpawnTypes
<1>6. /\ \A x, y, t, k : Valid(x, y, t, k) => BlockOf(x, y, t, k) \in Blocks /\ LocalOf(y, t) \in Locals
      /\ \A x, y, t, k, d, z, s, l :
           /\ Valid(x, y, t, k) /\ Valid(d, z, s, l)
           /\ BlockOf(x, y, t, k) = BlockOf(d, z, s, l) /\ LocalOf(y, t) = LocalOf(z, s)
           => x = d /\ y = z /\ t = s /\ k = l
    BY <1>1, <1>2, Distribution
<1>7. \A g \in Blocks : g \in Nat
    BY <1>1, LaunchTypes DEF Blocks
<1>8. /\ blockIdx' \in [Cores -> [Warps -> [Threads -> Nat]]]
      /\ \A t \in MaskOf(w) : blockIdx'[c][w][t] = BlockOf(c, w, t, k0)
  <2>1. blockIdx \in [Cores -> [Warps -> [Threads -> Nat]]]
      BY DEF SpawnInv, SpawnTypeOK
  <2>2. blockIdx' = [blockIdx EXCEPT ![c][w] =
          [t \in Threads |-> IF t \in MaskOf(w) THEN BlockOf(c, w, t, k0) ELSE @[t]]]
      BY DEF RunBatch
  <2>3. blockIdx[c][w] \in [Threads -> Nat]
      BY <2>1
  <2>4. \A t \in MaskOf(w) : BlockOf(c, w, t, k0) \in Nat
      BY <1>4, <1>6, <1>7
  <2> DEFINE f == [t \in Threads |-> IF t \in MaskOf(w) THEN BlockOf(c, w, t, k0) ELSE blockIdx[c][w][t]]
  <2>5. f \in [Threads -> Nat] /\ \A t \in MaskOf(w) : f[t] = BlockOf(c, w, t, k0)
      BY <1>5, <2>3, <2>4
  <2>6. blockIdx' = [blockIdx EXCEPT ![c][w] = f]
      BY <2>2
  <2> HIDE DEF f, k0
  <2>7. blockIdx' \in [Cores -> [Warps -> [Threads -> Nat]]] /\ blockIdx'[c][w] = f
      BY <2>1, <2>5, <2>6
  <2> QED
      BY <2>5, <2>7
<1>9. /\ iter' \in [Cores -> [Warps -> Nat]] /\ iter'[c][w] = k0 + 1
      /\ \A d \in Cores, x \in Warps : ~(d = c /\ x = w) => iter'[d][x] = iter[d][x]
    BY <1>1, <1>3
<1> DEFINE Z(g, i) == {t \in MaskOf(w) : BlockOf(c, w, t, k0) = g /\ LocalOf(w, t) = i}
<1>10. ran \in [(0..MaxBlock) \X Locals -> Nat]
    BY DEF SpawnInv, SpawnTypeOK
<1>11. \A g \in 0..MaxBlock, i \in Locals : ran'[<<g, i>>] = ran[<<g, i>>] + Cardinality(Z(g, i))
  <2> SUFFICES ASSUME NEW g \in 0..MaxBlock, NEW i \in Locals
               PROVE  ran'[<<g, i>>] = ran[<<g, i>>] + Cardinality(Z(g, i))
      OBVIOUS
  <2>1. <<g, i>> \in DOMAIN ran
      BY <1>10
  <2>2. ran'[<<g, i>>] = ran[<<g, i>>] + Cardinality({t \in MaskOf(w) :
                            blockIdx'[c][w][t] = <<g, i>>[1] /\ LocalOf(w, t) = <<g, i>>[2]})
      BY <1>1, <2>1 DEF Called
  <2>3. {t \in MaskOf(w) : blockIdx'[c][w][t] = <<g, i>>[1] /\ LocalOf(w, t) = <<g, i>>[2]} = Z(g, i)
      BY <1>8
  <2> HIDE DEF Z
  <2> QED
      BY <2>2, <2>3
<1>12. \A g, i : Did(g, i)' <=>
         \E d \in Cores, x \in Warps, t \in Threads : \E k \in 0..(iter'[d][x] - 1) :
             Valid(d, x, t, k) /\ BlockOf(d, x, t, k) = g /\ LocalOf(x, t) = i
    BY <1>1, SameLaunch DEF Did
<1> HIDE DEF k0
<1>13. ASSUME NEW g \in 0..MaxBlock, NEW i \in Locals
       PROVE  /\ Cardinality(Z(g, i)) \in {0, 1}
              /\ Cardinality(Z(g, i)) = 1 => ~Did(g, i) /\ Did(g, i)'
              /\ Cardinality(Z(g, i)) = 0 => (Did(g, i)' <=> Did(g, i))
  <2>1. CASE Z(g, i) = {}
    <3>1. Cardinality(Z(g, i)) = 0
        BY <2>1, FS_EmptySet
    <3>2. ASSUME Did(g, i) PROVE Did(g, i)'
      <4>1. PICK d \in Cores, x \in Warps, t \in Threads : \E k \in 0..(iter[d][x] - 1) :
              Valid(d, x, t, k) /\ BlockOf(d, x, t, k) = g /\ LocalOf(x, t) = i
          BY <3>2 DEF Did
      <4>2. PICK k \in 0..(iter[d][x] - 1) :
              Valid(d, x, t, k) /\ BlockOf(d, x, t, k) = g /\ LocalOf(x, t) = i
          BY <4>1
      <4>3. iter[d][x] \in Nat /\ iter'[d][x] \in Nat /\ iter[d][x] <= iter'[d][x]
          BY <1>3, <1>9 DEF k0
      <4>4. k \in 0..(iter'[d][x] - 1)
          BY <4>3
      <4> QED
          BY <1>12, <4>2, <4>4
    <3>3. ASSUME Did(g, i)' PROVE Did(g, i)
      <4>1. PICK d \in Cores, x \in Warps, t \in Threads : \E k \in 0..(iter'[d][x] - 1) :
              Valid(d, x, t, k) /\ BlockOf(d, x, t, k) = g /\ LocalOf(x, t) = i
          BY <3>3, <1>12
      <4>2. PICK k \in 0..(iter'[d][x] - 1) :
              Valid(d, x, t, k) /\ BlockOf(d, x, t, k) = g /\ LocalOf(x, t) = i
          BY <4>1
      <4>3. ~(d = c /\ x = w /\ k = k0)
          BY <2>1, <4>2 DEF Valid
      <4>4. k \in 0..(iter[d][x] - 1)
          BY <1>3, <1>9, <4>3 DEF k0
      <4> QED
          BY <4>2, <4>4 DEF Did
    <3> QED
        BY <3>1, <3>2, <3>3
  <2>2. CASE Z(g, i) # {}
    <3>1. PICK t \in MaskOf(w) : BlockOf(c, w, t, k0) = g /\ LocalOf(w, t) = i
        BY <2>2
    <3>2. Valid(c, w, t, k0) /\ t \in Threads
        BY <1>4, <1>5, <3>1
    <3>3. Z(g, i) = {t}
        BY <1>4, <1>6, <3>1, <3>2
    <3>4. Cardinality(Z(g, i)) = 1
        BY <3>3, FS_Singleton
    <3>5. ~Did(g, i)
      <4> SUFFICES ASSUME Did(g, i) PROVE FALSE
          OBVIOUS
      <4>1. PICK d \in Cores, x \in Warps, s \in Threads : \E k \in 0..(iter[d][x] - 1) :
              Valid(d, x, s, k) /\ BlockOf(d, x, s, k) = g /\ LocalOf(x, s) = i
          BY DEF Did
      <4>2. PICK k \in 0..(iter[d][x] - 1) :
              Valid(d, x, s, k) /\ BlockOf(d, x, s, k) = g /\ LocalOf(x, s) = i
          BY <4>1
      <4>3. d = c /\ x = w /\ k = k0
          BY <1>6, <3>1, <3>2, <4>2
      <4> QED
          BY <1>3, <4>2, <4>3 DEF k0
    <3>6. Did(g, i)'
      <4>1. k0 \in 0..(iter'[c][w] - 1)
          BY <1>3, <1>9
      <4> QED
          BY <1>12, <3>1, <3>2, <4>1
    <3> QED
        BY <3>4, <3>5, <3>6
  <2> QED
      BY <2>1, <2>2
<1> HIDE DEF Z
<1>14. \A g \in 0..MaxBlock, i \in Locals : ran[<<g, i>>] = IF Did(g, i) THEN 1 ELSE 0
    BY <1>2 DEF SpawnInv, Counted
<1>15. \A g \in 0..MaxBlock, i \in Locals : ran'[<<g, i>>] = IF Did(g, i)' THEN 1 ELSE 0
  <2> SUFFICES ASSUME NEW g \in 0..MaxBlock, NEW i \in Locals
               PROVE  ran'[<<g, i>>] = IF Did(g, i)' THEN 1 ELSE 0
      OBVIOUS
  <2>1. ran'[<<g, i>>] = ran[<<g, i>>] + Cardinality(Z(g, i)) /\ Cardinality(Z(g, i)) \in {0, 1}
      BY <1>11, <1>13
  <2>2. CASE Cardinality(Z(g, i)) = 1
    <3>1. ran[<<g, i>>] = 0 /\ Did(g, i)'
        BY <1>13, <1>14, <2>2
    <3> QED
        BY <2>1, <2>2, <3>1
  <2>3. CASE Cardinality(Z(g, i)) = 0 /\ Did(g, i)
    <3>1. ran[<<g, i>>] = 1 /\ Did(g, i)'
        BY <1>13, <1>14, <2>3
    <3> QED
        BY <2>1, <2>3, <3>1
  <2>4. CASE Cardinality(Z(g, i)) = 0 /\ ~Did(g, i)
    <3>1. ran[<<g, i>>] = 0 /\ ~Did(g, i)'
        BY <1>13, <1>14, <2>4
    <3> QED
        BY <2>1, <2>4, <3>1
  <2> QED
      BY <2>1, <2>2, <2>3, <2>4
<1>16. ran' \in [(0..MaxBlock) \X Locals -> Nat]
  <2>1. DOMAIN ran' = (0..MaxBlock) \X Locals /\ ran' = [p \in DOMAIN ran' |-> ran'[p]]
      BY <1>1, <1>10 DEF Called
  <2>2. \A p \in (0..MaxBlock) \X Locals : ran'[p] \in Nat
    <3> SUFFICES ASSUME NEW p \in (0..MaxBlock) \X Locals PROVE ran'[p] \in Nat
        OBVIOUS
    <3>1. p = <<p[1], p[2]>> /\ p[1] \in 0..MaxBlock /\ p[2] \in Locals
        OBVIOUS
    <3>2. ran'[<<p[1], p[2]>>] = IF Did(p[1], p[2])' THEN 1 ELSE 0
        BY <1>15, <3>1
    <3> QED
        BY <3>1, <3>2
  <2> QED
      BY <2>1, <2>2
<1>17. /\ Cores' = Cores /\ Warps' = Warps /\ Threads' = Threads /\ Locals' = Locals
       /\ MaxBlock' = MaxBlock /\ Fits' = Fits
    BY <1>1 DEF Cores, Warps, Threads, Locals, MaxBlock, Fits
<1>18. SpawnTypeOK'
    BY <1>1, <1>8, <1>9, <1>16, <1>17 DEF SpawnInv, SpawnTypeOK
<1>19. Counted'
    BY <1>15, <1>17 DEF Counted
<1> QED
    BY <1>18, <1>19

(* A step that runs no task and keeps the batches keeps the count.         *)
LEMMA SameCount ==
    ASSUME SpawnInv, UNCHANGED <<launch, iter, ran>>
    PROVE  Counted' /\ EvenLaunch'
<1>1. \A g, i : Did(g, i)' <=> Did(g, i)
    BY SameLaunch DEF Did
<1>2. Fits' = Fits /\ MaxBlock' = MaxBlock /\ Locals' = Locals /\ EvenLaunch'
    BY SameLaunch DEF SpawnInv
<1>3. Counted'
  <2> SUFFICES ASSUME Fits, NEW g \in 0..MaxBlock, NEW i \in Locals
               PROVE  ran[<<g, i>>] = IF Did(g, i)' THEN 1 ELSE 0
      BY <1>2 DEF Counted
  <2>1. ran[<<g, i>>] = IF Did(g, i) THEN 1 ELSE 0
      BY DEF SpawnInv, Counted
  <2> QED
      BY <1>1, <2>1
<1> QED
    BY <1>2, <1>3

(* A warp is done as before when its batches are.                          *)
LEMMA SameDone ==
    ASSUME UNCHANGED <<launch, iter>>
    PROVE  \A c, w : WarpDone(c, w)' <=> WarpDone(c, w)
    BY SameLaunch DEF WarpDone

(* RunBatch keeps the invariant.                                           *)
LEMMA BatchKeeps ==
    ASSUME SpawnInv, NEW c \in Cores, NEW w \in Warps, RunBatch(c, w)
    PROVE  SpawnInv'
<1>1. SpawnTypeOK' /\ Counted'
    BY BatchCounts
<1>2. launch' = launch /\ stage' = stage /\ stage[c] = "run" /\ iter' = [iter EXCEPT ![c][w] = @ + 1]
    BY DEF RunBatch
<1>3. EvenLaunch'
    BY <1>2, SameLaunch DEF SpawnInv
<1>4. StagesTrue'
  <2> SUFFICES ASSUME NEW d \in Cores
               PROVE  /\ stage[d] \in {"run", "wait"} => Fits /\ d < ActiveCores
                      /\ stage[d] = "done" /\ Fits /\ d < ActiveCores => \A x \in Warps : WarpDone(d, x)'
      BY <1>2, SameLaunch DEF StagesTrue
  <2>1. /\ stage[d] \in {"run", "wait"} => Fits /\ d < ActiveCores
        /\ stage[d] = "done" /\ Fits /\ d < ActiveCores => \A x \in Warps : WarpDone(d, x)
      BY DEF SpawnInv, StagesTrue
  <2>2. iter \in [Cores -> [Warps -> Nat]]
      BY DEF SpawnInv, SpawnTypeOK
  <2>3. ASSUME stage[d] = "done" PROVE iter'[d] = iter[d]
      BY <1>2, <2>2, <2>3
  <2>4. ASSUME stage[d] = "done" PROVE \A x : WarpDone(d, x)' <=> WarpDone(d, x)
      BY <1>2, <2>3, <2>4, SameLaunch DEF WarpDone
  <2> QED
      BY <2>1, <2>4
<1> QED
    BY <1>1, <1>3, <1>4 DEF SpawnInv

(* SpawnBegin keeps the invariant.                                         *)
LEMMA BeginKeeps ==
    ASSUME SpawnInv, NEW c \in Cores, SpawnBegin(c)
    PROVE  SpawnInv'
<1>1. /\ UNCHANGED <<launch, iter, blockIdx, ran>>
      /\ stage' = [stage EXCEPT ![c] =
           IF launch.warps * launch.threads < launch.size \/ c >= ActiveCores THEN "done" ELSE "run"]
    BY DEF SpawnBegin
<1>2. SpawnTypeOK /\ StagesTrue /\ launch \in Launches
    BY DEF SpawnInv, SpawnTypeOK
<1>3. Counted' /\ EvenLaunch'
    BY <1>1, SameCount
<1>4. SpawnTypeOK'
    BY <1>1, <1>2, SameLaunch DEF SpawnTypeOK
<1>5. ~(launch.warps * launch.threads < launch.size) <=> Fits
  <2>1. launch.warps * launch.threads \in Nat /\ launch.size \in Nat
      BY <1>2, LaunchTypes
  <2> QED
      BY <2>1 DEF Fits
<1>6. c >= ActiveCores <=> ~(c < ActiveCores)
  <2>1. c \in Nat /\ ActiveCores \in Nat
      BY <1>2, LaunchTypes, Sizes DEF Cores
  <2> QED
      BY <2>1
<1>7. StagesTrue'
  <2> SUFFICES ASSUME NEW d \in Cores
               PROVE  /\ stage'[d] \in {"run", "wait"} => Fits /\ d < ActiveCores
                      /\ stage'[d] = "done" /\ Fits /\ d < ActiveCores => \A x \in Warps : WarpDone(d, x)
      BY <1>1, SameLaunch, SameDone DEF StagesTrue
  <2>1. CASE d = c
    <3>1. stage'[c] = IF Fits /\ c < ActiveCores THEN "run" ELSE "done"
        BY <1>1, <1>2, <1>5, <1>6 DEF SpawnTypeOK
    <3> QED
        BY <2>1, <3>1
  <2>2. CASE d # c
    <3>1. stage'[d] = stage[d]
        BY <1>1, <1>2, <2>2 DEF SpawnTypeOK
    <3> QED
        BY <1>2, <3>1 DEF StagesTrue
  <2> QED
      BY <2>1, <2>2
<1> QED
    BY <1>3, <1>4, <1>7 DEF SpawnInv

(* RunRemaining: an even launch leaves it nothing to run.                  *)
LEMMA RemainingKeeps ==
    ASSUME SpawnInv, NEW c \in Cores, RunRemaining(c)
    PROVE  SpawnInv'
<1>1. /\ UNCHANGED <<launch, iter, blockIdx>> /\ stage' = [stage EXCEPT ![c] = "wait"] /\ stage[c] = "run"
      /\ Called(c, 0, {t \in Threads : t < RemainingTasks(c)})
    BY DEF RunRemaining
<1>2. SpawnTypeOK /\ StagesTrue /\ EvenLaunch /\ launch \in Launches
    BY DEF SpawnInv, SpawnTypeOK
<1>3. c < ActiveCores /\ Fits
    BY <1>1, <1>2 DEF StagesTrue
<1>4. {t \in Threads : t < RemainingTasks(c)} = {}
  <2>1. RemainingTasks(c) = 0
      BY <1>2, <1>3 DEF EvenLaunch
  <2>2. \A t \in Threads : t \in Nat
      BY <1>2, LaunchTypes DEF Threads
  <2> QED
      BY <2>1, <2>2
<1>5. ran' = ran
  <2>1. ran \in [(0..MaxBlock) \X Locals -> Nat]
      BY <1>2 DEF SpawnTypeOK
  <2>2. \A p : {t \in {t \in Threads : t < RemainingTasks(c)} :
                   blockIdx'[c][0][t] = p[1] /\ LocalOf(0, t) = p[2]} = {}
      BY <1>4
  <2>3. Cardinality({}) = 0
      BY FS_EmptySet
  <2>4. ran' = [p \in DOMAIN ran |-> ran[p] + 0]
      BY <1>1, <2>2, <2>3 DEF Called
  <2>5. \A p \in DOMAIN ran : ran[p] + 0 = ran[p]
      BY <2>1
  <2> QED
      BY <2>1, <2>4, <2>5
<1>6. Counted' /\ EvenLaunch'
    BY <1>1, <1>5, SameCount
<1>7. SpawnTypeOK'
    BY <1>1, <1>2, <1>5, SameLaunch DEF SpawnTypeOK
<1>8. StagesTrue'
  <2> SUFFICES ASSUME NEW d \in Cores
               PROVE  /\ stage'[d] \in {"run", "wait"} => Fits /\ d < ActiveCores
                      /\ stage'[d] = "done" /\ Fits /\ d < ActiveCores => \A x \in Warps : WarpDone(d, x)
      BY <1>1, SameLaunch, SameDone DEF StagesTrue
  <2>1. CASE d = c
      BY <1>1, <1>2, <1>3, <2>1 DEF SpawnTypeOK
  <2>2. CASE d # c
    <3>1. stage'[d] = stage[d]
        BY <1>1, <1>2, <2>2 DEF SpawnTypeOK
    <3> QED
        BY <1>2, <3>1 DEF StagesTrue
  <2> QED
      BY <2>1, <2>2
<1> QED
    BY <1>6, <1>7, <1>8 DEF SpawnInv

(* Finish keeps the invariant.                                             *)
LEMMA FinishKeeps ==
    ASSUME SpawnInv, NEW c \in Cores, Finish(c)
    PROVE  SpawnInv'
<1>1. /\ UNCHANGED <<launch, iter, blockIdx, ran>> /\ stage' = [stage EXCEPT ![c] = "done"]
      /\ \A w \in Warps : WarpDone(c, w)
    BY DEF Finish
<1>2. SpawnTypeOK /\ StagesTrue
    BY DEF SpawnInv
<1>3. Counted' /\ EvenLaunch'
    BY <1>1, SameCount
<1>4. SpawnTypeOK'
    BY <1>1, <1>2, SameLaunch DEF SpawnTypeOK
<1>5. StagesTrue'
  <2> SUFFICES ASSUME NEW d \in Cores
               PROVE  /\ stage'[d] \in {"run", "wait"} => Fits /\ d < ActiveCores
                      /\ stage'[d] = "done" /\ Fits /\ d < ActiveCores => \A x \in Warps : WarpDone(d, x)
      BY <1>1, SameLaunch, SameDone DEF StagesTrue
  <2>1. CASE d = c
      BY <1>1, <1>2, <2>1 DEF SpawnTypeOK
  <2>2. CASE d # c
    <3>1. stage'[d] = stage[d]
        BY <1>1, <1>2, <2>2 DEF SpawnTypeOK
    <3> QED
        BY <1>2, <3>1 DEF StagesTrue
  <2> QED
      BY <2>1, <2>2
<1> QED
    BY <1>3, <1>4, <1>5 DEF SpawnInv

(* The initial states.                                                     *)
LEMMA SpawnStart ==
    ASSUME SpawnInit, EvenLaunch
    PROVE  SpawnInv
<1>1. /\ launch \in Launches
      /\ stage = [c \in Cores |-> "begin"] /\ iter = [c \in Cores |-> [w \in Warps |-> 0]]
      /\ blockIdx = [c \in Cores |-> [w \in Warps |-> [t \in Threads |-> 0]]]
      /\ ran = [task \in (0..MaxBlock) \X Locals |-> 0]
    BY DEF SpawnInit
<1>2. SpawnTypeOK
    BY <1>1 DEF SpawnTypeOK
<1>3. StagesTrue
    BY <1>1 DEF StagesTrue
<1>4. Counted
  <2> SUFFICES ASSUME NEW g \in 0..MaxBlock, NEW i \in Locals
               PROVE  ran[<<g, i>>] = 0 /\ ~Did(g, i)
      BY DEF Counted
  <2>1. \A c \in Cores, w \in Warps : iter[c][w] = 0 /\ 0..(iter[c][w] - 1) = {}
      BY <1>1
  <2> QED
      BY <1>1, <2>1 DEF Did
<1> QED
    BY <1>2, <1>3, <1>4 DEF SpawnInv

(* Every step.                                                             *)
LEMMA SpawnStep ==
    ASSUME SpawnInv, [SpawnNext]_spawnVars
    PROVE  SpawnInv'
<1>1. CASE UNCHANGED spawnVars
  <2>1. UNCHANGED <<launch, stage, iter, blockIdx, ran>>
      BY <1>1 DEF spawnVars
  <2>2. Counted' /\ EvenLaunch'
      BY <2>1, SameCount
  <2>3. SpawnTypeOK'
      BY <2>1, SameLaunch DEF SpawnInv, SpawnTypeOK
  <2>4. StagesTrue'
      BY <2>1, SameLaunch, SameDone DEF SpawnInv, StagesTrue
  <2> QED
      BY <2>2, <2>3, <2>4 DEF SpawnInv
<1>2. ASSUME NEW c \in Cores,
             SpawnBegin(c) \/ (\E w \in Warps : RunBatch(c, w)) \/ RunRemaining(c) \/ Finish(c)
      PROVE  SpawnInv'
    BY <1>2, BeginKeeps, BatchKeeps, RemainingKeeps, FinishKeeps
<1> QED
    BY <1>1, <1>2 DEF SpawnNext

(* When all cores are done, what was to be run was run.                    *)
LEMMA AllWereRun ==
    ASSUME SpawnInv
    PROVE  EachTaskOnce
<1> SUFFICES ASSUME \A c \in Cores : stage[c] = "done", Fits, NEW p \in DOMAIN ran
             PROVE  ran[p] = IF p[1] \in Blocks THEN 1 ELSE 0
    BY DEF EachTaskOnce, Fits
<1>1. launch \in Launches /\ EvenLaunch /\ ran \in [(0..MaxBlock) \X Locals -> Nat]
      /\ iter \in [Cores -> [Warps -> Nat]]
    BY DEF SpawnInv, SpawnTypeOK
<1> DEFINE g == p[1]
           i == p[2]
<1>2. g \in 0..MaxBlock /\ i \in Locals /\ p = <<g, i>>
    BY <1>1
<1>3. ran[p] = IF Did(g, i) THEN 1 ELSE 0
    BY <1>2 DEF SpawnInv, Counted
<1> HIDE DEF g, i
<1>4. ASSUME g \in Blocks PROVE Did(g, i)
  <2>1. PICK c, w, t, k : Valid(c, w, t, k) /\ BlockOf(c, w, t, k) = g /\ LocalOf(w, t) = i
      BY <1>1, <1>2, <1>4, Distribution
  <2>2. c \in Cores /\ w \in Warps /\ t \in Threads /\ k \in Nat /\ c < ActiveCores
        /\ w \in Nat /\ w < ActiveWarps(c) /\ k < Iterations(c, w)
      BY <1>1, <2>1, SpawnTypes DEF Valid
  <2>3. WarpDone(c, w)
      BY <2>2 DEF SpawnInv, StagesTrue
  <2>4. ActiveWarps(c) \in Nat
    <3>1. CASE Grouped
        BY <1>1, <2>2, <3>1, GroupWarps
    <3>2. CASE ~Grouped
      <4>1. RemainingTasks(c) = 0
          BY <1>1, <2>2 DEF EvenLaunch
      <4> QED
          BY <1>1, <2>2, <3>2, <4>1, TaskWarps
    <3> QED
        BY <3>1, <3>2
  <2>5. iter[c][w] = Iterations(c, w)
      BY <2>2, <2>3, <2>4 DEF WarpDone
  <2>6. iter[c][w] \in Nat
      BY <1>1, <2>2
  <2>7. k \in 0..(iter[c][w] - 1)
      BY <2>2, <2>5, <2>6
  <2> QED
      BY <2>1, <2>2, <2>7 DEF Did
<1>5. ASSUME Did(g, i) PROVE g \in Blocks
    BY <1>1, <1>5, Distribution DEF Did
<1> QED
    BY <1>3, <1>4, <1>5 DEF g

(* vx_spawn_threads with a launch of any size on a device of any size: if  *)
(* it shares out evenly, then when all cores have returned each thread of  *)
(* each block was run exactly once, and no thread outside the grid.  The   *)
(* hypothesis is on the initial state, where the launch is chosen.         *)
THEOREM GridRunsOnce == SpawnSpec /\ EvenLaunch => []EachTaskOnce
<1>1. SpawnInit /\ EvenLaunch => SpawnInv
    BY SpawnStart
<1>2. SpawnInv /\ [SpawnNext]_spawnVars => SpawnInv'
    BY SpawnStep
<1>3. SpawnInv => EachTaskOnce
    BY AllWereRun
<1> QED
    BY <1>1, <1>2, <1>3, PTL DEF SpawnSpec
=============================================================================
