--------------------------- MODULE PrimitiveForms ---------------------------
(***************************************************************************)
(* A primitive and the forms its mesh takes: polygons, the simple mesh of  *)
(* points, lines and triangles made of them, triangle meshes, and the      *)
(* faces of a USD mesh (zs/world/scene/PrimitiveTransform.cpp,             *)
(* PrimitiveToOtherForms.cpp, PrimitiveFromOtherForms.cpp).                *)
(*                                                                         *)
(* A point has a position; a vertex, the corner of a polygon, names its    *)
(* point; a polygon is a range of vertices.  Indices count from 1 and the  *)
(* arrays of a property are sequences.                                     *)
(***************************************************************************)
EXTENDS Integers, Sequences, SequencesExt, FiniteSetsExt

CONSTANTS Zero,     \* what a property holds that was appended and never assigned
          Default   \* the color, or the computed normal, of a mesh that has none

Kinds  == {"Point_", "Line_", "Tri_"}
Owners == Kinds \cup {"Poly_", "points", "verts"}
NoAttr == [a \in {} |-> <<>>]

\* at[o][a] holds property a of the elements of owner o; global lists the prims in order.
Blank ==
  [pos    |-> <<>>,
   vert   |-> <<>>,
   poly   |-> <<>>,
   simple |-> [k \in Kinds |-> <<>>],
   at     |-> [o \in Owners |-> NoAttr],
   global |-> <<>>]

\* The sum of the first numbers of a sequence.
SumTo(s, i) == MapThenSumSet(LAMBDA j : s[j], 1 .. i)

Has(p, o, a)   == a \in DOMAIN p.at[o]
Resized(s, n)  == [i \in 1 .. n |-> IF i <= Len(s) THEN s[i] ELSE Zero]

\* Appends the property where it is missing, then assigns as much as both sides hold.
Assign(p, o, a, n, src) ==
  LET old == IF Has(p, o, a) THEN p.at[o][a] ELSE <<>>
      new == [i \in 1 .. n |-> IF i <= Len(src) THEN src[i] ELSE Resized(old, n)[i]]
  IN [p EXCEPT !.at[o] = [b \in DOMAIN @ \cup {a} |-> IF b = a THEN new ELSE @[b]]]

-----------------------------------------------------------------------------
(* The simple mesh.                                                        *)

\* The prims of a polygon, as tuples of vertices: a point, a line, or a fan of triangles.
Fan(f) == CASE f.size = 1 -> << <<f.off + 1>> >>
            [] f.size = 2 -> << <<f.off + 1, f.off + 2>> >>
            [] OTHER -> [j \in 1 .. f.size - 2 |-> <<f.off + 1, f.off + j + 1, f.off + j + 2>>]

KindOf(f) == IF f.size = 1 THEN "Point_" ELSE IF f.size = 2 THEN "Line_" ELSE "Tri_"

\* Each simple prim takes the properties of its polygon.
CopyAttribs(p) ==
  [p EXCEPT !.at = [o \in Owners |->
     IF o \notin Kinds THEN @[o]
     ELSE [a \in DOMAIN @["Poly_"] |->
             [e \in 1 .. Len(p.simple[o]) |-> @["Poly_"][a][p.simple[o][e].of]]]]]

\* The scanned offsets lay the prims of a kind out in the order of the polygons.
Setup(p) ==
  IF p.poly = <<>> THEN p
  ELSE LET Of(k) == [i \in 1 .. Len(p.poly) |->
                       IF KindOf(p.poly[i]) # k THEN <<>>
                       ELSE [j \in 1 .. Len(Fan(p.poly[i])) |->
                               [v |-> Fan(p.poly[i])[j], of |-> i]]]
       IN CopyAttribs([p EXCEPT !.simple = [k \in Kinds |-> FlattenSeq(Of(k))]])

\* A simple prim that was not made of a polygon names none.
IsEstablished(p) == \E k \in Kinds : p.simple[k] # <<>> /\ p.simple[k][1].of # 0

\* The sum of a property over the simple prims of each polygon, divided once for each list
\* of properties that names it.
WriteBack(p) ==
  LET names == UNION {DOMAIN p.at[k] : k \in Kinds}
      Sum(a, i) == MapThenSumSet(LAMBDA ke : p.at[ke[1]][a][ke[2]],
                                 {ke \in UNION {{k} \X (1 .. Len(p.simple[k])) :
                                                k \in {x \in Kinds : Has(p, x, a)}} :
                                    p.simple[ke[1]][ke[2]].of = i})
      Parts(f) == IF f.size > 2 THEN f.size - 2 ELSE 1
      Lists(a) == Cardinality({k \in Kinds : Has(p, k, a)})
  IN [p EXCEPT !.at["Poly_"] = [a \in DOMAIN @ \cup names |->
        IF a \notin names THEN @[a]
        ELSE [i \in 1 .. Len(p.poly) |-> Sum(a, i) \div (Parts(p.poly[i]) ^ Lists(a))]]]

\* A property of the prims goes to their vertices; the polygons write last.
ToVerts(p, tags) ==
  LET names == tags \cap UNION {DOMAIN p.at[o] : o \in Kinds \cup {"Poly_"}}
      Given(a, v) == {p.at[ke[1]][a][ke[2]] :
                        ke \in {x \in UNION {{k} \X (1 .. Len(p.simple[k])) :
                                             k \in {y \in Kinds : Has(p, y, a)}} :
                                  v \in ToSet(p.simple[x[1]][x[2]].v)}}
      Own(a, v)   == {p.at["Poly_"][a][i] : i \in
                        {j \in 1 .. Len(p.poly) :
                           /\ Has(p, "Poly_", a)
                           /\ p.poly[j].off < v /\ v <= p.poly[j].off + p.poly[j].size}}
      Old(a, v)   == IF Has(p, "verts", a) THEN p.at["verts"][a][v] ELSE Zero
      New(a, v)   == IF Own(a, v) # {} THEN CHOOSE x \in Own(a, v) : TRUE
                     ELSE IF Given(a, v) # {} THEN CHOOSE x \in Given(a, v) : TRUE
                     ELSE Old(a, v)
  IN [p EXCEPT !.at["verts"] = [a \in DOMAIN @ \cup names |->
        IF a \in names THEN [v \in 1 .. Len(p.vert) |-> New(a, v)] ELSE @[a]]]

-----------------------------------------------------------------------------
(* Meshes of points, lines or triangles: nodes, the vertices they stand    *)
(* for, properties of the nodes, elements.                                 *)

NoMesh == [nodes |-> <<>>, vids |-> <<>>, attr |-> NoAttr, elems |-> <<>>]

\* The points of a visual mesh are its vertices.
VisualTo(p, k, names) ==
  [nodes |-> p.pos,
   vids  |-> <<>>,
   attr  |-> [a \in names \cap DOMAIN p.at["points"] |-> p.at["points"][a]],
   elems |-> [e \in 1 .. Len(p.simple[k]) |-> p.simple[k][e].v]]

PointMeshOf(p) == VisualTo(p, "Point_", {"nrm", "clr"})
LineMeshOf(p)  == VisualTo(p, "Line_", {"nrm", "clr"})
TriMeshOf(p)   == VisualTo(p, "Tri_", {"uv", "nrm", "clr"})

\* Nodes are taken for vertices.
ZsToVerts_ByIndex(p, m) ==
  IF m.nodes = <<>> \/ Len(m.vids) # Len(m.nodes) THEN p
  ELSE [p EXCEPT !.at["verts"] = [a \in DOMAIN @ \cup DOMAIN m.attr |->
          IF a \notin DOMAIN m.attr THEN @[a]
          ELSE [v \in 1 .. Len(p.vert) |->
                  IF v <= Len(m.nodes) THEN m.attr[a][v]
                  ELSE IF Has(p, "verts", a) THEN p.at["verts"][a][v] ELSE Zero]]]

\* What the nodes hold goes to the vertices they stand for.
ZsToVerts(p, m) ==
  IF m.nodes = <<>> \/ Len(m.vids) # Len(m.nodes) THEN p
  ELSE LET Node(v) == {n \in 1 .. Len(m.vids) : m.vids[n] = v}
           Old(a, v) == IF Has(p, "verts", a) THEN p.at["verts"][a][v] ELSE Zero
       IN [p EXCEPT !.at["verts"] = [a \in DOMAIN @ \cup DOMAIN m.attr |->
             IF a \notin DOMAIN m.attr THEN @[a]
             ELSE [v \in 1 .. Len(p.vert) |->
                     IF Node(v) = {} THEN Old(a, v) ELSE m.attr[a][CHOOSE n \in Node(v) : TRUE]]]]

\* Nodes are painted in each mesh that has colors, then all the meshes are written back.
Paint(p, ms, nodes, color) ==
  LET CanPaint(m) == m.nodes # <<>> /\ "clr" \in DOMAIN m.attr /\ Len(m.vids) = Len(m.nodes)
      painted == [k \in Kinds |->
                    IF ~CanPaint(ms[k]) THEN ms[k]
                    ELSE [ms[k] EXCEPT !.attr["clr"] =
                            [n \in DOMAIN @ |-> IF n \in nodes THEN color ELSE @[n]]]]
      Back(q, k) == ZsToVerts(q, painted[k])
  IN [mesh |-> painted,
      prim |-> IF \E k \in Kinds : CanPaint(ms[k])
               THEN Back(Back(Back(p, "Tri_"), "Line_"), "Point_") ELSE p]

-----------------------------------------------------------------------------
(* Triangle meshes in and out.                                             *)

AssignTriMesh(m) ==
  LET n == Len(m.nodes)
      Shade == [i \in 1 .. n |-> Default]
  IN [Blank EXCEPT
        !.pos = m.nodes,
        !.vert = [i \in 1 .. n |-> i],
        !.simple["Tri_"] = [e \in 1 .. Len(m.elems) |-> [v |-> m.elems[e], of |-> 0]],
        !.at["points"] = [a \in {"clr", "nrm"} \cup (DOMAIN m.attr \cap {"uv"}) |->
                            IF a \in DOMAIN m.attr THEN m.attr[a] ELSE Shade],
        !.global = [e \in 1 .. Len(m.elems) |-> <<"Tri_", e>>]]

\* Triangles of a polygon name points, those of a triangle name its vertices as they are.
ToTriMesh(p) ==
  LET Tris(g) == CASE g[1] = "Tri_" -> << p.simple["Tri_"][g[2]].v >>
                   [] g[1] = "Poly_" /\ p.poly[g[2]].size >= 3 ->
                        [j \in 1 .. Len(Fan(p.poly[g[2]])) |->
                           [d \in 1 .. 3 |-> p.vert[Fan(p.poly[g[2]])[j][d]]]]
                   [] OTHER -> <<>>
  IN [nodes |-> p.pos,
      vids  |-> <<>>,
      attr  |-> [a \in DOMAIN p.at["points"] \cap {"uv", "nrm", "clr"} |-> p.at["points"][a]],
      elems |-> FlattenSeq([i \in 1 .. Len(p.global) |-> Tris(p.global[i])])]

\* The corners of the face that a prim becomes in USD: points for a polygon, the vertices as
\* they are for a simple prim.
FaceOf(p, g) ==
  IF g[1] = "Poly_" THEN [d \in 1 .. p.poly[g[2]].size |-> p.vert[p.poly[g[2]].off + d]]
                    ELSE p.simple[g[1]][g[2]].v

\* assign_primitive_to_usdprim: only texture coordinates have the time; what belongs to
\* vertices or polygons is left out, and so is the orientation.
ToUsd(p, u, t, default) ==
  LET faces == [i \in 1 .. Len(p.global) |-> FaceOf(p, p.global[i])]
      Kept(a, time) == IF Has(p, "points", a) THEN [x \in {time} |-> p.at["points"][a]] ELSE u[a]
  IN [u EXCEPT !.points  = [x \in {default} |-> p.pos],
               !.counts  = [x \in {default} |-> [i \in 1 .. Len(faces) |-> Len(faces[i])]],
               !.indices = [x \in {default} |-> FlattenSeq(faces)],
               !.nrm     = Kept("nrm", default),
               !.clr     = Kept("clr", default),
               !.uv      = Kept("uv", t),
               !.uvIdx   = IF Has(p, "points", "uv") THEN [x \in {} |-> <<>>] ELSE @]
=============================================================================
