----------------------------- MODULE MeshSplit -----------------------------
(***************************************************************************)
(* The simple mesh of a primitive becomes a mesh of nodes                  *)
(* (zs/world/scene/PrimitiveTransform.cpp).  The vertices at a point may   *)
(* differ in their properties, which nodes cannot: each point is split     *)
(* into as many nodes as it has variants.  The prims are visited in        *)
(* parallel, one property after the other and one kind of prim after the   *)
(* other, and a lock of each point guards its list of variants.            *)
(*                                                                         *)
(* The parallel loops are those of OpenMP: any prim may be ahead of any    *)
(* other of its kind, and a loop ends before the next one begins.          *)
(***************************************************************************)
EXTENDS PrimitiveForms

VARIABLES
  prim,    \* the primitive that is split
  target,  \* "zsmesh" for assign_simple_mesh_to_zsmesh, "visual" for .._to_visual_mesh
  todo,    \* the loops to run, as pairs of a property and a kind of prim
  next,    \* the corner that each prim of the current loop visits next
  known,   \* vertIdsPerPoint
  props    \* pvdProps

splitVars == <<prim, target, todo, next, known, props>>

KindSeq == <<"Point_", "Line_", "Tri_">>

\* The properties in the order the points are split by them; a visual mesh has no texture ids.
ZsAttribs     == <<"uv", "nrm", "clr", "tan", "texid">>
VisualAttribs == <<"uv", "nrm", "clr", "tan">>
AttribsOf(tg) == IF tg = "zsmesh" THEN ZsAttribs ELSE VisualAttribs

\* Those that prims hand to their vertices first.
ZsTags     == {"uv", "nrm", "clr", "tan", "texid"}
VisualTags == {"nrm", "clr", "tan"}

\* One loop for each property of the vertices and each kind of prim; if there is no such
\* property, the points are split by the vertices themselves.
Loops(p, tg) ==
  LET Of(a) == [k \in 1 .. 3 |-> <<a, KindSeq[k]>>]
      own == FlattenSeq([i \in 1 .. Len(AttribsOf(tg)) |->
                           IF Has(p, "verts", AttribsOf(tg)[i]) THEN Of(AttribsOf(tg)[i])
                           ELSE <<>>])
  IN IF own = <<>> THEN Of("vertex") ELSE own

AtFirst(p, loops) == IF loops = <<>> THEN <<>>
                     ELSE [e \in 1 .. Len(p.simple[loops[1][2]]) |-> 1]

\* A loop that begins a property starts from the variants that are known.
Props(p, loops, ids) ==
  IF loops = <<>> \/ loops[1][1] = "vertex" THEN [i \in 1 .. Len(p.pos) |-> <<>>]
  ELSE [i \in 1 .. Len(p.pos) |->
          [j \in 1 .. Len(ids[i]) |-> p.at["verts"][loops[1][1]][ids[i][j]]]]

\* The call up to its first loop.
BeginSplit(p, tg) ==
  LET q == ToVerts(p, IF tg = "zsmesh" THEN ZsTags ELSE VisualTags)
  IN /\ prim' = q
     /\ target' = tg
     /\ todo' = Loops(q, tg)
     /\ next' = AtFirst(q, Loops(q, tg))
     /\ known' = [i \in 1 .. Len(q.pos) |-> <<>>]
     /\ props' = Props(q, Loops(q, tg), [i \in 1 .. Len(q.pos) |-> <<>>])

Corners(e) == prim.simple[todo[1][2]][e].v

\* Only the first variant is compared.
HasLike_First(pid, v) == props[pid] # <<>> /\ props[pid][1] = prim.at["verts"][todo[1][1]][v]

\* Any variant of the point will do.
HasLike_Any(pid, v) == props[pid] # <<>>

\* Whether the point already has a variant like the vertex: one with its property or, when
\* no property tells them apart, any at all.
HasLike(pid, v) == \E j \in 1 .. Len(props[pid]) : props[pid][j] = prim.at["verts"][todo[1][1]][v]
HasSame(pid, v) == \E j \in 1 .. Len(known[pid]) :
                     known[pid][j] = v \/ prim.vert[known[pid][j]] = pid
IsKnown(pid, v) == IF todo[1][1] = "vertex" THEN HasSame(pid, v) ELSE HasLike(pid, v)

\* One corner, under the lock of its point.
Compare(e) ==
  LET v == Corners(e)[next[e]]
      pid == prim.vert[v]
  IN /\ next[e] <= Len(Corners(e))
     /\ next' = [next EXCEPT ![e] = @ + 1]
     /\ IF IsKnown(pid, v)
        THEN UNCHANGED <<known, props>>
        ELSE /\ known' = [known EXCEPT ![pid] = Append(@, v)]
             /\ props' = IF todo[1][1] = "vertex" THEN props
                         ELSE [props EXCEPT ![pid] =
                                 Append(@, prim.at["verts"][todo[1][1]][v])]
     /\ UNCHANGED <<prim, target, todo>>

VisitZs(e)     == target = "zsmesh" /\ Compare(e)
VisitVisual(e) == target = "visual" /\ Compare(e)

\* Every prim of the loop was visited: the next loop begins.
NextLoop ==
  /\ \A e \in DOMAIN next : next[e] > Len(Corners(e))
  /\ todo' = Tail(todo)
  /\ next' = AtFirst(prim, todo')
  /\ props' = IF todo' # <<>> /\ todo'[1][1] # todo[1][1] THEN Props(prim, todo', known)
              ELSE props
  /\ UNCHANGED <<prim, target, known>>

SplitNext ==
  /\ todo # <<>>
  /\ \/ \E e \in DOMAIN next : VisitZs(e) \/ VisitVisual(e)
     \/ NextLoop

-----------------------------------------------------------------------------
(* What the loops are followed by.                                         *)

\* The scanned counts of variants: where the nodes of a point begin.
Offset(pid) == SumTo([q \in DOMAIN known |-> Len(known[q])], pid - 1)

\* The nodes, as pairs of a point and a vertex.
Nodes == FlattenSeq([i \in 1 .. Len(prim.pos) |->
                       [j \in 1 .. Len(known[i]) |-> <<i, known[i][j]>>]])

\* The position that a skeleton gave to a point comes first.
Position(pid) == IF Has(prim, "points", "skin") THEN prim.at["points"]["skin"][pid]
                 ELSE prim.pos[pid]

NodeAttribs ==
  [a \in {x \in ToSet(AttribsOf(target)) : Has(prim, "verts", x) \/ Has(prim, "points", x)} |->
     [n \in 1 .. Len(Nodes) |-> IF Has(prim, "verts", a) THEN prim.at["verts"][a][Nodes[n][2]]
                                ELSE prim.at["points"][a][Nodes[n][1]]]]

\* The node of a corner: the first variant of its point that is its vertex, or another vertex
\* of the point.
NodeOf(v) ==
  LET pid == prim.vert[v]
      Fits(j) == known[pid][j] = v \/ prim.vert[known[pid][j]] = pid
  IN Offset(pid) + CHOOSE j \in 1 .. Len(known[pid]) : Fits(j) /\ \A i \in 1 .. j - 1 : ~Fits(i)

Remapped(k) == [e \in 1 .. Len(prim.simple[k]) |->
                  [d \in 1 .. Len(prim.simple[k][e].v) |-> NodeOf(prim.simple[k][e].v[d])]]

ZsMeshes ==
  [k \in Kinds |->
     [nodes |-> [n \in 1 .. Len(Nodes) |-> Position(Nodes[n][1])],
      vids  |-> [n \in 1 .. Len(Nodes) |-> Nodes[n][2]],
      attr  |-> NodeAttribs,
      elems |-> Remapped(k)]]

\* The points of the visual mesh are the nodes, and its vertices are its points.
VisualMesh ==
  [Blank EXCEPT
     !.pos = [n \in 1 .. Len(Nodes) |-> Position(Nodes[n][1])],
     !.vert = [n \in 1 .. Len(Nodes) |-> n],
     !.at["points"] = NodeAttribs,
     !.simple = [k \in Kinds |-> [e \in 1 .. Len(prim.simple[k]) |->
                                    [v |-> Remapped(k)[e], of |-> 0]]]]
=============================================================================
