--------------------------- MODULE MCMeshPipeline ---------------------------
(* Small meshes for MeshPipeline. *)
EXTENDS MeshPipeline

At1(v) == [t \in {NaN} |-> v]
Unset  == [t \in {} |-> <<>>]

Usd == [form |-> "usd", points |-> Unset, counts |-> Unset, indices |-> Unset, uv |-> Unset,
        uvIdx |-> Unset, nrm |-> Unset, clr |-> Unset, vis |-> Unset, left |-> FALSE,
        moves |-> {}, pose |-> Unset]

\* A triangle and a square that share an edge, with a seam in the texture along it and a
\* color for each face.
Seam == [Usd EXCEPT
  !.points  = At1(<<11, 12, 13, 14, 15>>),
  !.counts  = At1(<<3, 4>>),
  !.indices = At1(<<1, 2, 3, 3, 2, 4, 5>>),
  !.uv      = At1(<<1, 2, 3>>),
  !.uvIdx   = At1(<<1, 1, 2, 3, 1, 3, 3>>),
  !.nrm     = At1(<<4, 5, 6, 5, 4>>),
  !.clr     = At1(<<7, 8>>)]

\* Left-handed: a square, a line and a point that move, with colors that have time codes of
\* their own and texture coordinates for each face.
Moving == [Usd EXCEPT
  !.points  = 1 :> <<11, 12, 13, 14>> @@ 2 :> <<21, 22, 23, 24>>,
  !.counts  = At1(<<4, 2, 1>>),
  !.indices = At1(<<1, 2, 3, 4, 2, 1, 4>>),
  !.uv      = At1(<<1, 2>>),
  !.uvIdx   = At1(<<2, 1, 2>>),
  !.clr     = 2 :> <<5>> @@ 3 :> <<4, 5, 6, 7>>,
  !.left    = TRUE,
  !.vis     = 1 :> TRUE @@ 2 :> FALSE]

\* The faces change, a triangle and then two, and a skeleton moves them.  The colors belong to
\* the faces first and then to the points.
Growing == [Usd EXCEPT
  !.points  = At1(<<11, 12, 13, 14, 15>>),
  !.counts  = 1 :> <<3>> @@ 2 :> <<3, 3>>,
  !.indices = 1 :> <<1, 2, 3>> @@ 2 :> <<1, 2, 3, 3, 2, 4>>,
  !.nrm     = 1 :> <<4>> @@ 2 :> <<4, 5>>,
  !.clr     = 1 :> <<7>> @@ 2 :> <<5, 6, 7, 6, 5>>,
  !.pose    = 2 :> 0 @@ 4 :> 100]

Corner == [form |-> "trimesh", nodes |-> <<11, 12, 13, 14>>, elems |-> << <<1, 2, 3>>, <<3, 2, 4>> >>,
           attr |-> [a \in {"uv"} |-> <<1, 2, 3, 4>>]]
Loose  == [Corner EXCEPT !.form = "tris"]

Round  == [form |-> "tris"] @@ Shape("Disk", 3, 2)

MCSources == {Seam, Moving, Growing, Corner, Loose, Round}
MCSolids  == {createSphere(r, 3, f) : r \in 2 .. 4, f \in BOOLEAN}
             \cup {createCapsule(h, 3) : h \in 1 .. 2}
             \cup {createCube(x, y, z) : x, y, z \in 2 .. 4}
             \cup {createTube(r, c) : r, c \in 3 .. 4}
             \cup {createTorus(o, i) : o, i \in 3 .. 4}
             \cup {createCone(c) : c \in 3 .. 4} \cup {createCylinder(c) : c \in 3 .. 4}
MCSheets  == {createPlane(r, c) : r, c \in 1 .. 3} \cup {createDisk(n) : n \in 3 .. 5}
MCTimes   == {NaN, 1, 2, 3}
=============================================================================
