------------------------------- MODULE Switch -------------------------------
(***************************************************************************)
(* Switch (src/sim/simx/types.h): joins the request ports of several cores *)
(* or caches into fewer, with a round-robin cursor per output, and sends   *)
(* the answers back by the bits it put into the tag.  Mux is its request   *)
(* side alone, with a ratio that is not rounded: it agrees for the powers  *)
(* of two it is created with.                                              *)
(*                                                                         *)
(* The requests that a requester has in flight differ in their tags, as    *)
(* the tags of a cache bank or an LSU do; it asks again for ever.          *)
(***************************************************************************)
EXTENDS Integers, Sequences

CONSTANT
    Shapes  \* inputs, outputs, the arbiter type, and the tags that the requesters use

(* What the constructor asserts.                                           *)
SwitchAssumption ==
    \A s \in Shapes : /\ s.inputs \in 1..32 /\ s.outputs \in 1..s.inputs
                      /\ s.tags \subseteq Nat
                      /\ s.arbiter \in {"RoundRobin", "Priority"}

VARIABLES
    shape,   \* this switch
    reqIn,   \* reqIn[j]: ReqIn, tags
    owed,    \* observer: the tags input j waits for
    cursor,  \* cursors_
    reqOut,  \* reqOut[o]: ReqOut, requests on the way or in the memory
    rspOut,  \* rspOut[o]: answers of the memory
    rspIn,   \* rspIn[j]: RspIn, answers to input j
    passed   \* observer: requests let past the one at the head of input j

switchVars == <<shape, reqIn, owed, cursor, reqOut, rspOut, rspIn, passed>>

Inputs == 0..(shape.inputs - 1)
Outputs == 0..(shape.outputs - 1)

(* lg_num_reqs_, which the constructor computes: the ratio is rounded down *)
(* and then up to a power of two.                                          *)
PerOutput(s) == s.inputs \div s.outputs
LgNumReqs(s) == CHOOSE k \in 0..5 : 2^k >= PerOutput(s) /\ \A m \in 0..(k - 1) : 2^m < PerOutput(s)
NumReqsOf == [s \in Shapes |-> 2^LgNumReqs(s)]
NumReqs == NumReqsOf[shape]     \* R

(* The output that looks at an input, if there is one, and how many inputs *)
(* share it.                                                               *)
OutputOf(j) == j \div NumReqs
Sharing(o) == IF (o + 1) * NumReqs <= shape.inputs THEN NumReqs ELSE shape.inputs - o * NumReqs

SwitchInit ==
    /\ shape \in Shapes
    /\ reqIn = [j \in Inputs |-> <<>>] /\ owed = [j \in Inputs |-> {}]
    /\ passed = [j \in Inputs |-> 0]
    /\ rspIn = [j \in Inputs |-> <<>>]
    /\ cursor = [o \in Outputs |-> 0]
    /\ reqOut = [o \in Outputs |-> {}] /\ rspOut = [o \in Outputs |-> <<>>]

(* The requesters and the memory behind the switch.                        *)
Request(j, tag) ==
    /\ tag \notin owed[j]
    /\ owed' = [owed EXCEPT ![j] = @ \cup {tag}]
    /\ reqIn' = [reqIn EXCEPT ![j] = Append(@, tag)]
    /\ UNCHANGED <<shape, cursor, reqOut, rspOut, rspIn, passed>>

Answer(o, tag) ==
    /\ tag \in reqOut[o]
    /\ reqOut' = [reqOut EXCEPT ![o] = @ \ {tag}]
    /\ rspOut' = [rspOut EXCEPT ![o] = Append(@, tag)]
    /\ UNCHANGED <<shape, reqIn, owed, cursor, rspIn, passed>>

Receive(j) ==
    /\ rspIn[j] # <<>>
    /\ rspIn' = [rspIn EXCEPT ![j] = Tail(@)]
    /\ owed' = [owed EXCEPT ![j] = @ \ {Head(rspIn[j])}]
    /\ UNCHANGED <<shape, reqIn, cursor, reqOut, rspOut, passed>>

----------------------------------------------------------------------------
(* Where an input's request goes, in the low bits of the tag.              *)
Tagged(tag, i) == tag * NumReqs + i
PlaceOf(tag) == tag % NumReqs
TagUnshifted(tag) == tag
TagOf(tag) == tag \div NumReqs

(* The first request at or after the cursor; there may be fewer inputs     *)
(* than places.                                                            *)
Turn(o, r) == (cursor[o] + r) % NumReqs
Waiting(o, r) ==
    LET j == o * NumReqs + Turn(o, r)
    IN  j < shape.inputs /\ reqIn[j] # <<>>
Granted(o) == CHOOSE r \in 0..(NumReqs - 1) : Waiting(o, r) /\ \A q \in 0..(r - 1) : ~Waiting(o, q)
Grants(o) == \E r \in 0..(NumReqs - 1) : Waiting(o, r)

CursorKept(o, i) == cursor[o]
CursorAfter(o, i) == IF shape.arbiter = "RoundRobin" THEN i + 1 ELSE cursor[o]

(* A request at output o goes past the inputs of o, and past those that no *)
(* output looks at.                                                        *)
GoesPast(o, k) == OutputOf(k) = o \/ OutputOf(k) \notin Outputs

(* One output in a tick: an answer goes back, a request goes on.           *)
Forwarded(o) ==
    IF Grants(o)
    THEN LET i == Turn(o, Granted(o))
             j == o * NumReqs + i
         IN /\ reqIn' = [reqIn EXCEPT ![j] = Tail(@)]
            /\ reqOut' = [reqOut EXCEPT ![o] = @ \cup {Tagged(Head(reqIn[j]), i)}]
            /\ cursor' = [cursor EXCEPT ![o] = CursorAfter(o, i) % NumReqs]
            /\ passed' = [k \in Inputs |->
                 IF k = j THEN 0
                 ELSE IF GoesPast(o, k) /\ reqIn[k] # <<>> /\ passed[k] < NumReqs THEN passed[k] + 1
                 ELSE passed[k]]
    ELSE UNCHANGED <<reqIn, reqOut, cursor, passed>>

Returned(o) ==
    IF rspOut[o] # <<>>
    THEN LET rsp == Head(rspOut[o])
         IN /\ rspOut' = [rspOut EXCEPT ![o] = Tail(@)]
            /\ rspIn' = [rspIn EXCEPT ![o * NumReqs + PlaceOf(rsp)] = Append(@, TagOf(rsp))]
    ELSE UNCHANGED <<rspOut, rspIn>>

Tick(o) ==
    /\ rspOut[o] # <<>> \/ Grants(o)
    /\ Forwarded(o)
    /\ Returned(o)
    /\ UNCHANGED <<shape, owed>>

SwitchNext ==
    \/ \E j \in Inputs, tag \in shape.tags : Request(j, tag)
    \/ \E o \in Outputs : (\E tag \in reqOut[o] : Answer(o, tag)) \/ Tick(o)
    \/ \E j \in Inputs : Receive(j)

SwitchSpec == SwitchInit /\ [][SwitchNext]_switchVars

----------------------------------------------------------------------------
Elements(s) == {s[k] : k \in DOMAIN s}
OfInput(j, tags) == {TagOf(t) : t \in {t \in tags : PlaceOf(t) = j % NumReqs}}
Held(j) ==
    LET o == OutputOf(j)
    IN <<Elements(reqIn[j]), Elements(rspIn[j]),
         IF o \in Outputs THEN OfInput(j, reqOut[o]) ELSE {},
         IF o \in Outputs THEN OfInput(j, Elements(rspOut[o])) ELSE {}>>

(* Every tag an input waits for is in exactly one place on its way out or  *)
(* back, and what comes back to an input is what it asked for: no answer   *)
(* goes to another input, none is lost or doubled.                         *)
AnswersReturn ==
    \A j \in Inputs :
        LET held == Held(j)
        IN  /\ UNION Elements(held) = owed[j]
            /\ \A k, l \in 1..4 : k < l => held[k] \cap held[l] = {}

(* No input of a round-robin switch starves, although the others ask again *)
(* without end: before its turn a request sees each of the inputs that     *)
(* share its output served at most once.  An input no output looks at      *)
(* would see every request go first.                                       *)
InputsServed ==
    shape.arbiter = "RoundRobin" => \A j \in Inputs : passed[j] < Sharing(OutputOf(j))

(* Every input has an output that looks at it.  So it is when the inputs   *)
(* are a multiple of the outputs, and when rounding up makes room for the  *)
(* rest, as for 7 inputs and 2 outputs; 3 and 2, or 9 and 2, the           *)
(* constructor accepts too.                                                *)
InputsCovered == shape.inputs <= shape.outputs * NumReqs
=============================================================================
