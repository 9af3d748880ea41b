----------------------------- MODULE SimpleGeom -----------------------------
(***************************************************************************)
(* Triangle meshes of simple shapes (zs/world/geometry/SimpleGeom.cpp).    *)
(* The faces are kept; positions, normals and texture coordinates are only *)
(* counted.  As in the code, the vertices of a face count from 0 until the *)
(* mesh is made.                                                           *)
(***************************************************************************)
EXTENDS PrimitiveForms

AtLeast(n, least) == IF n < least THEN least ELSE n

\* Faces made in a loop.
Each(n, Faces(_)) == FlattenSeq([i \in 1 .. n |-> Faces(i - 1)])
Grid(n, m, Faces(_, _)) == Each(n, LAMBDA i : Each(m, LAMBDA j : Faces(i, j)))

MeshOf(nodes, attribs, faces) ==
  [nodes |-> nodes,
   vids  |-> <<>>,
   attr  |-> [a \in attribs |-> [i \in DOMAIN nodes |-> Default]],
   elems |-> [e \in DOMAIN faces |-> [d \in 1 .. 3 |-> faces[e][d] + 1]]]
Numbered(n) == [i \in 1 .. n |-> i]

\* The last column is not joined to the first.
Poles_Open(rows, cols) ==
  LET Ring(r, c) == r * cols + c + 1
      Apex == (rows - 1) * cols + 1
      Top(c)     == << <<0, Ring(0, c), Ring(0, c + 1)>> >>
      Body(r, c) == << <<Ring(r, c + 1), Ring(r, c), Ring(r + 1, c)>>,
                       <<Ring(r, c + 1), Ring(r + 1, c), Ring(r + 1, c + 1)>> >>
      Tail_(c)   == << <<Ring(rows - 2, c + 1), Ring(rows - 2, c), Apex>> >>
  IN Each(cols, Top) \o Grid(rows - 2, cols, Body) \o Each(cols, Tail_)

\* A pole, rings of vertices, a pole.
Poles(rows, cols) ==
  LET Ring(r, c) == r * cols + (c % cols) + 1
      Apex == (rows - 1) * cols + 1
      Top(c)     == << <<0, Ring(0, c), Ring(0, c + 1)>> >>
      Body(r, c) == << <<Ring(r, c + 1), Ring(r, c), Ring(r + 1, c)>>,
                       <<Ring(r, c + 1), Ring(r + 1, c), Ring(r + 1, c + 1)>> >>
      Tail_(c)   == << <<Ring(rows - 2, c + 1), Ring(rows - 2, c), Apex>> >>
  IN Each(cols, Top) \o Grid(rows - 2, cols, Body) \o Each(cols, Tail_)

createSphere(rows, cols, flip) ==
  LET r == AtLeast(rows, 2)
      c == AtLeast(cols, 3)
      faces == Poles(r, c)
  IN MeshOf(Numbered((r - 1) * c + 2), {"nrm", "uv"},
            [e \in DOMAIN faces |-> IF flip THEN <<faces[e][1], faces[e][3], faces[e][2]>>
                                            ELSE faces[e]])

\* The number of columns is taken as it is.
createCapsule(halfRows, cols) ==
  MeshOf(Numbered((2 * halfRows - 1) * cols + 2), {"nrm", "uv"}, Poles(2 * halfRows, cols))

\* The vertices of a box are those of a lattice that are on its sides, in order, and the
\* faces are found by their distances in that order.
createCube(divX, divY, divZ) ==
  LET x == AtLeast(divX, 2)
      y == AtLeast(divY, 2)
      z == AtLeast(divZ, 2)
      Outer(i, j, k) == i \in {0, x - 1} \/ j \in {0, y - 1} \/ k \in {0, z - 1}
      n == Cardinality({v \in (0 .. x - 1) \X (0 .. y - 1) \X (0 .. z - 1) :
                          Outer(v[1], v[2], v[3])})
      side  == y * z
      slice == side - (y - 2) * (z - 2)
      Pair(a, b, c, d) == << <<a, b, c>>, <<d, c, b>> >>
      LeftRight(j, k) ==
        LET i == k + j * z
            m == i + n - side
        IN Pair(i, i + 1, i + z, i + z + 1) \o Pair(m, m + z, m + 1, m + z + 1)
      BottomTop(j, i) ==
        LET b2 == i + side + j * slice
            b1 == IF j = 0 THEN i ELSE b2 - slice
            t1 == side - z + i + j * slice
            t2 == IF j = x - 2 THEN n - z + i ELSE t1 + slice
        IN Pair(b1, b2, b1 + 1, b2 + 1) \o Pair(t1, t1 + 1, t2, t2 + 1)
      BackFront(j, i) ==
        LET base == side + z + j * slice
            last == j = x - 2
            i1 == base + i * (IF last THEN z ELSE 2)
            i2 == i1 - (IF i = 0 \/ last THEN z ELSE 2)
            i3 == IF j = 0 THEN z * (i + 1) ELSE base + i * 2 - slice
            i4 == i3 - (IF i = 0 \/ j = 0 THEN z ELSE 2)
            Across(v, wide) == IF wide THEN v + z - 1 ELSE v + 1
        IN Pair(i1, i2, i3, i4)
           \o Pair(Across(i1, i = y - 2 \/ last), Across(i3, i = y - 2 \/ j = 0),
                   Across(i2, i = 0 \/ last), Across(i4, i = 0 \/ j = 0))
  IN MeshOf(Numbered(n), {"nrm"}, Grid(y - 1, z - 1, LeftRight) \o Grid(x - 1, z - 1, BottomTop)
                            \o Grid(x - 1, y - 1, BackFront))

createPlane(rows, cols) ==
  LET r == AtLeast(rows, 1)
      c == AtLeast(cols, 1)
      Cell(i, j) == LET a == i * (c + 1) + j
                    IN << <<a, a + 1, a + c + 2>>, <<a + c + 1, a, a + c + 2>> >>
  IN MeshOf(Numbered((r + 1) * (c + 1)), {"nrm", "uv"}, Grid(r, c, Cell))

createDisk(divisions) ==
  LET n == AtLeast(divisions, 3)
  IN MeshOf(Numbered(n + 1), {"nrm", "uv"},
            Each(n, LAMBDA i : << <<i + 1, ((i + 1) % n) + 1, 0>> >>))

\* The rings turn the other way round than those of a sphere.
createTube(rows, cols) ==
  LET r == AtLeast(rows, 3)
      c == AtLeast(cols, 3)
      Ring(row, i) == row * c + (i % c) + 1
      Centre == r * c + 1
      Top(i)       == << <<0, Ring(0, i + 1), Ring(0, i)>> >>
      Middle(m, i) == << <<Ring(m + 1, i), Ring(m, i), Ring(m, i + 1)>>,
                         <<Ring(m + 1, i), Ring(m, i + 1), Ring(m + 1, i + 1)>> >>
      Bottom(i)    == << <<Centre, Ring(r - 1, i), Ring(r - 1, i + 1)>> >>
  IN MeshOf(Numbered(r * c + 2), {"nrm"}, Each(c, Top) \o Grid(r - 1, c, Middle) \o Each(c, Bottom))

createTorus(outSegments, inSegments) ==
  LET out == AtLeast(outSegments, 3)
      in_ == AtLeast(inSegments, 3)
      On(j, i) == (j % in_) * out + (i % out)
      Cell(j, i) == << <<On(j, i), On(j + 1, i), On(j + 1, i + 1)>>,
                       <<On(j, i), On(j + 1, i + 1), On(j, i + 1)>> >>
  IN MeshOf(Numbered(out * in_), {"nrm"}, Grid(in_, out, Cell))

createCone(cols) ==
  LET Side(i) == << <<cols, i, (i + 1) % cols>>, <<i, cols + 1, (i + 1) % cols>> >>
  IN MeshOf(Numbered(cols + 2), {"nrm"}, Each(cols, Side))

createCylinder(cols) ==
  LET Up(i) == i % cols
      Down(i) == (i % cols) + cols
      Side(i) == << <<Up(i + 1), Up(i), Down(i + 1)>>, <<Down(i + 1), Up(i), Down(i)>> >>
  IN MeshOf(Numbered(2 * cols + 2), {"nrm"},
            Each(cols, LAMBDA i : << <<2 * cols, Up(i), Up(i + 1)>> >>)
            \o Each(cols, LAMBDA i : << <<Down(i), 2 * cols + 1, Down(i + 1)>> >>)
            \o Each(cols, Side))
=============================================================================
