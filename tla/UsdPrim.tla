------------------------------ MODULE UsdPrim ------------------------------
(***************************************************************************)
(* What a prim of a USD scene does with its attributes by itself           *)
(* (zs/world/usd/USDScenePrim.cpp): the triangle mesh of a shape or of a   *)
(* mesh and back, and the copy of another prim.                            *)
(***************************************************************************)
EXTENDS UsdImport, SimpleGeom

\* The shape of a type, with numbers of rows, columns and divisions that default to 32 and 2.
Shape(type, n, div) ==
  CASE type = "Sphere"   -> createSphere(n, n, FALSE)
    [] type = "Capsule"  -> createCapsule(n \div 2, n)
    [] type = "Cube"     -> createCube(div, div, div)
    [] type = "Cylinder" -> createCylinder(n)
    [] type = "Cone"     -> createCone(n)
    [] type = "Plane"    -> createPlane(div - 1, div - 1)
    [] type = "Disk"     -> createDisk(n)

\* The points of a mesh that has a skeleton are passed for its normals, too: what comes back
\* is a direction.
Direction(x) == [towards |-> x]
SkinnedTwice(u, t) ==
  [i \in DOMAIN Positions(u, t) |-> IF Pose(u, t) = None THEN Positions(u, t)[i]
                                    ELSE Direction(Positions(u, t)[i] + Pose(u, t))]

\* Faces of three corners or more become fans, in reverse if the mesh is left-handed.
ToVisMesh(u, t) ==
  LET polys == Polys(Held(u.counts, t))
      ids == Held(u.indices, t)
      n == Len(Positions(u, t))
      FanOf(f) == [j \in 1 .. f.size - 2 |->
                     LET a == At(ids, f.off + j + 1)
                         b == At(ids, f.off + j + 2)
                     IN IF u.left THEN <<At(ids, f.off + 1), b, a>> ELSE <<At(ids, f.off + 1), a, b>>]
      colors == Held(u.clr, t)
      ColorOf(i) == IF Len(colors) = n THEN colors[i] ELSE colors[1]
  IN [nodes |-> SkinnedTwice(u, t),
      vids  |-> <<>>,
      attr  |-> [a \in {x \in {"clr", "nrm"} : Held(u[x], t) # <<>>} |->
                   IF a = "nrm" THEN Held(u.nrm, t) ELSE [i \in 1 .. n |-> ColorOf(i)]],
      elems |-> FlattenSeq([f \in DOMAIN polys |->
                              IF polys[f].size <= 2 THEN <<>> ELSE FanOf(polys[f])])]

\* The faces of the mesh are not cleared.
FromVisMesh_KeepFaces(u, m) ==
  LET Only(v) == [x \in {NaN} |-> v]
      Kept(a) == IF a \in DOMAIN m.attr THEN Only(m.attr[a]) ELSE u[a]
  IN [u EXCEPT !.points  = Only(m.nodes),
               !.indices = Only(FlattenSeq(m.elems)),
               !.clr     = Kept("clr"),
               !.nrm     = Kept("nrm")]

\* Attributes that the mesh has are cleared and set; the others, and the orientation, stay.
FromVisMesh(u, m) ==
  LET Only(v) == [x \in {NaN} |-> v]
      Kept(a) == IF a \in DOMAIN m.attr THEN Only(m.attr[a]) ELSE u[a]
  IN [u EXCEPT !.points  = Only(m.nodes),
               !.indices = Only(FlattenSeq(m.elems)),
               !.counts  = Only([e \in DOMAIN m.elems |-> 3]),
               !.clr     = Kept("clr"),
               !.nrm     = Kept("nrm")]

\* Each attribute of the other prim is set at its samples or, if there are none, at the default
\* time code; what the prim had at other time codes stays.
CopyAttrib(mine, other) ==
  LET ts == IF TimeSamples(other) # {} THEN TimeSamples(other) ELSE DOMAIN other
  IN [t \in DOMAIN mine \cup ts |-> IF t \in ts THEN other[t] ELSE mine[t]]

UsdAttribs == {"points", "counts", "indices", "uv", "uvIdx", "nrm", "clr", "vis"}
CopyPrim(u, other) ==
  [f \in DOMAIN u |-> IF f \in UsdAttribs THEN CopyAttrib(u[f], other[f])
                      ELSE IF f = "left" THEN other.left ELSE u[f]]
=============================================================================
