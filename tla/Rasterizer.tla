----------------------------- MODULE Rasterizer -----------------------------
(***************************************************************************)
(* graphics::Rasterizer (src/sim/common/graphics.cpp): how a primitive is  *)
(* rendered in a tile.  A tile that lies outside an edge is rejected by a  *)
(* bound on the edge function, others are split in four down to quads of   *)
(* two by two pixels, whose covered pixels make a stamp.                   *)
(*                                                                         *)
(* The recursion of renderTile is a stack of the tiles still to render,    *)
(* the next one first.  Fixed-point numbers are integers here: the code    *)
(* adds, shifts left and compares them only.                               *)
(***************************************************************************)
EXTENDS Integers, Sequences

CONSTANTS
    Edges,        \* edge functions: records x, y, z
    TileLogSize,  \* tile_logsize_
    Origins,      \* places of the tile
    Scissors      \* records left, right, top, bottom

(* A tile has at least one quad and is at a multiple of its size, so quads *)
(* are at even places.                                                     *)
ASSUME TileAssumption ==
    /\ TileLogSize \in Nat \ {0}
    /\ Edges \subseteq [x : Int, y : Int, z : Int]
    /\ Origins \subseteq [x : Nat, y : Nat]
    /\ \A o \in Origins : o.x % 2 = 0 /\ o.y % 2 = 0

VARIABLES
    edges,   \* the three edges of the primitive
    origin,  \* the tile
    scissor,
    todo,    \* calls of renderTile not yet made
    stamps   \* what the shader callback was given

tileVars == <<edges, origin, scissor, todo, stamps>>

Sides == 1..3
EvalEdgeFunction(e, x, y) == e.x * x + e.y * y + e.z
ExtentsOfY(e) == IF e.y >= 0 THEN e.y ELSE IF e.x >= 0 THEN e.x ELSE 0
CalcEdgeExtents(e) ==
    IF e.y >= 0 THEN (IF e.x >= 0 THEN e.x + e.y ELSE e.y)
    ELSE IF e.x >= 0 THEN e.x ELSE 0

(* renderPrimitive: the values of the edge functions at the tile's corner. *)
TileInit ==
    /\ edges \in [Sides -> Edges]
    /\ origin \in Origins
    /\ scissor \in Scissors
    /\ todo = <<[log |-> TileLogSize, x |-> origin.x, y |-> origin.y,
                 value |-> [s \in Sides |-> EvalEdgeFunction(edges[s], origin.x, origin.y)]]>>
    /\ stamps = <<>>

Tile == Head(todo)
Outside(t) == \E s \in Sides : t.value[s] + CalcEdgeExtents(edges[s]) * 2^t.log < 0

(* The values i pixels right and j pixels down, by the deltas.             *)
ValueAt(t, i, j) == [s \in Sides |-> t.value[s] + edges[s].x * i + edges[s].y * j]
Subtile(t, i, j) ==
    LET size == 2^(t.log - 1)
    IN [log |-> t.log - 1, x |-> t.x + i * size, y |-> t.y + j * size,
        value |-> ValueAt(t, i * size, j * size)]

Reject ==
    /\ todo # <<>> /\ Outside(Tile)
    /\ todo' = Tail(todo)
    /\ UNCHANGED <<edges, origin, scissor, stamps>>

Split ==
    /\ todo # <<>> /\ ~Outside(Tile) /\ Tile.log > 1
    /\ todo' = <<Subtile(Tile, 0, 0), Subtile(Tile, 1, 0),
                 Subtile(Tile, 0, 1), Subtile(Tile, 1, 1)>> \o Tail(todo)
    /\ UNCHANGED <<edges, origin, scissor, stamps>>

(* renderQuad                                                              *)
InScissor(x, y) ==
    x >= scissor.left /\ x < scissor.right /\ y >= scissor.top /\ y < scissor.bottom
Mask(t) ==
    {p \in (0..1) \X (0..1) :
        /\ \A s \in Sides : ValueAt(t, p[1], p[2])[s] >= 0
        /\ InScissor(t.x + p[1], t.y + p[2])}

Quad ==
    /\ todo # <<>> /\ ~Outside(Tile) /\ Tile.log <= 1
    /\ todo' = Tail(todo)
    /\ stamps' = IF Mask(Tile) = {} THEN stamps
                 ELSE Append(stamps, [x |-> Tile.x \div 2, y |-> Tile.y \div 2, mask |-> Mask(Tile),
                                      bcoords |-> [p \in Mask(Tile) |-> ValueAt(Tile, p[1], p[2])]])
    /\ UNCHANGED <<edges, origin, scissor>>

TileNext == Reject \/ Split \/ Quad

TileSpec == TileInit /\ [][TileNext]_tileVars

----------------------------------------------------------------------------
(* The pixels of the tile, and what is known of one.                       *)
Pixels == {<<x, y>> : x \in origin.x..(origin.x + 2^TileLogSize - 1),
                      y \in origin.y..(origin.y + 2^TileLogSize - 1)}
EdgeValues(p) == [s \in Sides |-> EvalEdgeFunction(edges[s], p[1], p[2])]
Covered(p) == InScissor(p[1], p[2]) /\ \A s \in Sides : EdgeValues(p)[s] >= 0
Stamped(p) ==
    {k \in DOMAIN stamps : \E q \in stamps[k].mask :
        p = <<2 * stamps[k].x + q[1], 2 * stamps[k].y + q[2]>> /\ stamps[k].bcoords[q] = EdgeValues(p)}
Due(p) ==
    {k \in DOMAIN todo : p[1] \in todo[k].x..(todo[k].x + 2^todo[k].log - 1)
                         /\ p[2] \in todo[k].y..(todo[k].y + 2^todo[k].log - 1)}
OneOf(S, T) == (\E s \in S : S = {s} /\ T = {}) \/ (\E t \in T : T = {t} /\ S = {})

(* The rejection of tiles is exact: at every point of the recursion, each  *)
(* pixel that the primitive covers is in one stamp, with the values of the *)
(* edge functions there, or under one tile still to render; and a stamp    *)
(* has no other pixels.                                                    *)
CoverageExact ==
    \A p \in Pixels : IF Covered(p) THEN OneOf(Stamped(p), Due(p)) ELSE Stamped(p) = {}
=============================================================================
