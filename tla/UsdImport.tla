----------------------------- MODULE UsdImport -----------------------------
(***************************************************************************)
(* Primitives made of USD meshes and of triangle meshes                    *)
(* (zs/world/scene/PrimitiveFromOtherForms.cpp), as of one time code or as *)
(* key frames, and what a primitive with key frames holds at a time code   *)
(* (zs/world/scene/Primitive.hpp, Primitive.cpp).                          *)
(*                                                                         *)
(* A USD attribute is a function of the time codes it was sampled at, or   *)
(* of NaN, the default time code: USD is not in the repository, and its    *)
(* value resolution is modelled for attributes that are not interpolated.  *)
(* Every value of a key frame is read at one of its own samples.           *)
(***************************************************************************)
EXTENDS PrimitiveForms

CONSTANTS NaN,      \* the default time code
          None,     \* no value
          Garbage   \* what is read beyond the end of an array

At(s, i)  == IF i \in 1 .. Len(s) THEN s[i] ELSE Garbage

TimeSamples(a) == DOMAIN a \ {NaN}
HasValue(a)    == DOMAIN a # {}
Held(a, t) ==
  LET ts == TimeSamples(a)
  IN IF t = NaN \/ ts = {} THEN IF NaN \in DOMAIN a THEN a[NaN] ELSE <<>>
     ELSE IF \E s \in ts : s <= t THEN a[Max({s \in ts : s <= t})] ELSE a[Min(ts)]

-----------------------------------------------------------------------------
(* Attributes of a USD mesh at a time code.                                *)

Positions(u, t) == Held(u.points, t)

\* The skeleton that a mesh hangs on moves its points: the poses between two samples are
\* interpolated, and there is none to be computed without a value.
Skel(u) == IF TimeSamples(u.pose) = {} THEN None
           ELSE <<Min(TimeSamples(u.pose)), Max(TimeSamples(u.pose))>>
Pose(u, t) ==
  LET ts == TimeSamples(u.pose)
      a == Max({s \in ts : s <= t})
      b == Min({s \in ts : s > t})
  IN CASE t = NaN \/ ts = {} -> None
       [] t # NaN /\ ts # {} /\ \A s \in ts : s <= t -> u.pose[Max(ts)]
       [] t # NaN /\ ts # {} /\ \A s \in ts : s > t -> u.pose[Min(ts)]
       [] OTHER -> u.pose[a] + ((u.pose[b] - u.pose[a]) * (t - a)) \div (b - a)

\* Sizes and indices of the faces.  Arrays of their lengths hold nothing if one is empty.
Sizes(u, t)   == IF Held(u.indices, t) = <<>> THEN [i \in DOMAIN Held(u.counts, t) |-> 0]
                 ELSE Held(u.counts, t)
Indices(u, t) == IF Held(u.counts, t) = <<>> THEN [i \in DOMAIN Held(u.indices, t) |-> 1]
                 ELSE Held(u.indices, t)

\* The scan is inclusive.
Polys_Inclusive(sizes) == [i \in DOMAIN sizes |-> [off |-> SumTo(sizes, i), size |-> sizes[i]]]

\* Polygons of some sizes, one after the other.
Polys(sizes) == [i \in DOMAIN sizes |-> [off |-> SumTo(sizes, i - 1), size |-> sizes[i]]]

\* The corners of a left-handed face are taken in reverse, but for the first.
Oriented(polys, ids, left) ==
  LET Src(f, i) == IF left /\ i > 1 THEN f.off + f.size + 2 - i ELSE f.off + i
  IN FlattenSeq([f \in DOMAIN polys |->
                   [i \in 1 .. polys[f].size |-> At(ids, Src(polys[f], i))]])

\* What a retrieved property belongs to, by the numbers of points, vertices and faces, and
\* its values; "none" when there is nothing to retrieve.
Nothing == [owner |-> "none", vals |-> <<>>]

\* Texture coordinates of the faces are left to the points.
RetrieveUv_NoFaces(u, t, n) ==
  LET uvs == Held(u.uv, t)
      idx == Held(u.uvIdx, t)
      onVert == HasValue(u.uvIdx) /\ idx # <<>> /\ Len(idx) = n.verts
  IN CASE onVert -> [owner |-> "verts", vals |-> [i \in 1 .. n.verts |-> At(uvs, At(idx, i))]]
       [] ~onVert /\ uvs # <<>> /\ Len(uvs) \in {1, n.points} ->
            [owner |-> "points",
             vals  |-> [i \in 1 .. n.points |-> At(uvs, IF Len(uvs) = 1 THEN 1 ELSE i)]]
       [] OTHER -> Nothing

RetrieveUv(u, t, n) ==
  LET uvs == Held(u.uv, t)
      idx == Held(u.uvIdx, t)
      byIdx == HasValue(u.uvIdx) /\ idx # <<>>
      onVert == byIdx /\ Len(idx) = n.verts
      onFace == byIdx /\ Len(idx) = n.faces
      Through(m) == [i \in 1 .. m |-> At(uvs, At(idx, i))]
  IN CASE onVert -> [owner |-> "verts", vals |-> Through(n.verts)]
       [] onFace /\ ~onVert -> [owner |-> "Poly_", vals |-> Through(n.faces)]
       [] ~onVert /\ ~onFace /\ uvs # <<>> /\ Len(uvs) \in {1, n.points} ->
            [owner |-> "points",
             vals  |-> [i \in 1 .. n.points |-> At(uvs, IF Len(uvs) = 1 THEN 1 ELSE i)]]
       [] OTHER -> Nothing

\* Normals and colors; those that match no number are taken for properties of the faces.
RetrieveBySize(a, t, n) ==
  LET vals == Held(a, t)
      sz == Len(vals)
      owner == IF sz = n.verts THEN "verts"
               ELSE IF sz # n.faces /\ sz \in {1, n.points} THEN "points" ELSE "Poly_"
      num == CASE owner = "verts" -> n.verts [] owner = "points" -> n.points
               [] OTHER -> n.faces
  IN IF ~HasValue(a) THEN Nothing
     ELSE [owner |-> owner, vals |-> [i \in 1 .. num |-> At(vals, IF sz = 1 THEN 1 ELSE i)]]

RetrieveNormal(u, t, n) == RetrieveBySize(u.nrm, t, n)
RetrieveColor(u, t, n)  == RetrieveBySize(u.clr, t, n)

-----------------------------------------------------------------------------
(* assign_usdmesh_to_primitive: the mesh as it is at one time code.        *)

\* The points are left where they were bound to the skeleton.
Hanging_Bound(u, t) == Positions(u, t)

\* _applySkinning: the points are moved in place, and the normals stay as they are.
Hanging(u, t) ==
  IF Skel(u) = None \/ Pose(u, t) = None THEN Positions(u, t)
  ELSE [i \in DOMAIN Positions(u, t) |-> Positions(u, t)[i] + Pose(u, t)]

\* Positions, and the properties of the points.
PointsAt(u, t) ==
  LET pos == Hanging(u, t)
      n == Len(pos)
      faces == Len(Held(u.counts, t))
      byIdx == HasValue(u.uvIdx) /\ Held(u.uvIdx, t) # <<>>
      uvs == Held(u.uv, t)
      OnPoint(a) == CASE a = "uv" -> /\ HasValue(u.uv)
                                     /\ ~(byIdx /\ Len(Held(u.uvIdx, t)) \in
                                            {faces, Len(Held(u.indices, t))})
                                     /\ Len(uvs) \in {1, n}
                      [] OTHER -> HasValue(u[a]) /\ Len(Held(u[a], t)) # faces
      Value(a, i) == At(Held(u[a], t), IF Len(Held(u[a], t)) = 1 THEN 1 ELSE i)
  IN [Blank EXCEPT
        !.pos = pos,
        !.at["points"] = [a \in {x \in {"uv", "nrm", "clr"} : OnPoint(x)} |->
                            [i \in 1 .. n |-> Value(a, i)]]]

\* Polygons and vertices; texture coordinates of the faces go to the vertices.
FacesAt(p, u, t) ==
  LET sizes == Held(u.counts, t)
      ids == Held(u.indices, t)
      idx == Held(u.uvIdx, t)
      polys == Polys(sizes)
      byIdx == HasValue(u.uv) /\ HasValue(u.uvIdx) /\ idx # <<>>
      onVert == byIdx /\ Len(idx) = Len(ids)
      onFace == byIdx /\ Len(idx) = Len(sizes)
      UvOf(f, i) == At(Held(u.uv, t), At(idx, IF onVert THEN polys[f].off + i ELSE f))
      names == {a \in {"nrm", "clr"} : HasValue(u[a]) /\ ~Has(p, "points", a)}
  IN [p EXCEPT
        !.vert = Oriented(polys, ids, u.left),
        !.poly = polys,
        !.at["Poly_"] = [a \in names |-> [f \in 1 .. Len(sizes) |-> At(Held(u[a], t), f)]],
        !.at["verts"] = [a \in {x \in {"uv"} : onVert \/ onFace} |->
                           FlattenSeq([f \in 1 .. Len(sizes) |->
                                         [i \in 1 .. sizes[f] |-> UvOf(f, i)]])],
        !.global = [f \in 1 .. Len(sizes) |-> <<"Poly_", f>>]]

ImportAt(u, t) ==
  IF <<>> \in {Positions(u, t), Held(u.counts, t), Held(u.indices, t)} THEN Blank
  ELSE FacesAt(PointsAt(u, t), u, t)

-----------------------------------------------------------------------------
(* Key frames: a channel has a value at each key, or a default value.      *)

Channel(keys, Value(_)) == [at |-> [k \in keys |-> Value(k)], default |-> None]
Constant(v)             == [at |-> [k \in {} |-> None], default |-> v]

\* Numbers in ascending order: each one stands at the place that counting up to it gives.
InOrder(S) == [i \in 1 .. Cardinality(S) |-> CHOOSE x \in S : Cardinality({y \in S : y <= x}) = i]

\* No key is later than NaN, nor is NaN, as a key, later than anything.
Later(k, t) == NaN \notin {k, t} /\ k > t

\* getTimeCodeSegmentIndex: how many keys are not later, 0 if all are.
SegmentOf(c, t) == Cardinality({k \in DOMAIN c.at : ~Later(k, t)})

\* The key after the time code is taken.
Frame_Next(c, t) ==
  LET keys == IF NaN \in DOMAIN c.at THEN <<NaN>> ELSE InOrder(DOMAIN c.at)
  IN IF keys = <<>> THEN c.default
     ELSE c.at[keys[IF SegmentOf(c, t) < Len(keys) THEN SegmentOf(c, t) + 1 ELSE Len(keys)]]

\* getSegmentFrame: before the first key, its value holds.
Frame(c, t) ==
  LET keys == IF NaN \in DOMAIN c.at THEN <<NaN>> ELSE InOrder(DOMAIN c.at)
  IN IF keys = <<>> THEN c.default
     ELSE c.at[keys[IF SegmentOf(c, t) = 0 THEN 1 ELSE SegmentOf(c, t)]]

PosFrames(u) == IF TimeSamples(u.points) = {} THEN Constant(Positions(u, NaN))
                ELSE Channel(TimeSamples(u.points), LAMBDA t : Positions(u, t))

\* Faces and their vertices are sampled together.
TopoTcs(u) == TimeSamples(u.counts) \cup TimeSamples(u.indices)
TopoOf(u, t) == LET polys == Polys(Sizes(u, t))
                IN [face |-> polys, index |-> Oriented(polys, Indices(u, t), u.left)]
TopoFrames(u) == IF TopoTcs(u) = {} THEN Constant(TopoOf(u, NaN))
                 ELSE Channel(TopoTcs(u), LAMBDA t : TopoOf(u, t))

\* A property is a key frame at each of its samples, or at the default time code, if it can
\* be retrieved for the points, vertices and faces of that time.
AttribFrames(a, pos, topo, Retrieve(_, _)) ==
  LET Got(t) == Retrieve(t, [points |-> Len(Frame(pos, t)),
                             verts  |-> Len(Frame(topo, t).index),
                             faces  |-> Len(Frame(topo, t).face)])
      keys == IF TimeSamples(a) # {} THEN TimeSamples(a)
              ELSE IF HasValue(a) THEN {NaN} ELSE {}
  IN Channel({t \in keys : Got(t) # Nothing}, Got)

UvFrames(u, pos, topo)     == AttribFrames(u.uv, pos, topo, LAMBDA t, n : RetrieveUv(u, t, n))
NormalFrames(u, pos, topo) == AttribFrames(u.nrm, pos, topo, LAMBDA t, n : RetrieveNormal(u, t, n))
ColorFrames(u, pos, topo)  == AttribFrames(u.clr, pos, topo, LAMBDA t, n : RetrieveColor(u, t, n))

Visibility(u) == IF TimeSamples(u.vis) = {} THEN Constant(FALSE)
                 ELSE Channel(TimeSamples(u.vis), LAMBDA t : Held(u.vis, t))

\* The time codes of a matrix operation are asked for, and not among those that are merged.
TransformTcs(u) == u.moves

\* merge_timecodes
Merged(tcs) == InOrder(UNION tcs)

\* The colors are forgotten.
TotalTcs_NoColor(u) == Merged({TimeSamples(u.points), TopoTcs(u), TimeSamples(u.uv),
                               TimeSamples(u.nrm), TimeSamples(u.vis), TransformTcs(u)})

TotalTcs(u) == Merged({TimeSamples(u.points), TopoTcs(u), TimeSamples(u.uv), TimeSamples(u.nrm),
                       TimeSamples(u.clr), TimeSamples(u.vis), TransformTcs(u)})

\* apply_usd_skinning: points that hang on a skeleton have a second position.
Skinned(p, u, t) ==
  IF p.pos = <<>> \/ Skel(u) = None \/ Pose(u, t) = None THEN p
  ELSE Assign(p, "points", "skin", Len(p.pos), [i \in DOMAIN p.pos |-> p.pos[i] + Pose(u, t)])

\* setGlobalTimeCodes: the interval of the skeleton extends them.
GlobalTcs(tcs, skel) ==
  CASE skel = None -> tcs
    [] skel # None /\ tcs = <<>> -> skel
    [] OTHER -> (IF skel[1] < tcs[1] THEN <<skel[1]>> ELSE <<>>) \o tcs
                \o (IF skel[2] > Last(tcs) THEN <<skel[2]>> ELSE <<>>)

KeyFrames(u) ==
  LET pos == PosFrames(u)
      topo == TopoFrames(u)
  IN [pos |-> pos, topo |-> topo,
      uv  |-> UvFrames(u, pos, topo),
      nrm |-> NormalFrames(u, pos, topo),
      clr |-> ColorFrames(u, pos, topo),
      vis |-> Visibility(u),
      transform |-> TransformTcs(u),
      global |-> GlobalTcs(TotalTcs(u), Skel(u))]

\* The time code that a primitive is built at.
InitialTc(u) == IF TotalTcs(u) # <<>> THEN TotalTcs(u)[1]
                ELSE IF Skel(u) # None THEN Skel(u)[1] ELSE NaN

\* build_primitive_from_trimesh: three vertices to a triangle, and no time codes.
TriMeshFrames(m) ==
  LET OfPoints(vals) == Constant([owner |-> "points", vals |-> vals])
      Given(a) == a \in DOMAIN m.attr /\ Len(m.attr[a]) = Len(m.nodes)
      Optional(a) == IF Given(a) THEN OfPoints(m.attr[a]) ELSE Constant(None)
  IN [pos |-> Constant(m.nodes),
      topo |-> Constant([face  |-> Polys([i \in 1 .. Len(m.elems) |-> 3]),
                         index |-> FlattenSeq(m.elems)]),
      uv  |-> Optional("uv"),
      nrm |-> Optional("nrm"),
      clr |-> OfPoints(IF Given("clr") THEN m.attr["clr"]
                       ELSE [i \in 1 .. Len(m.nodes) |-> Default]),
      vis |-> Constant(None), transform |-> {}, global |-> <<>>]

\* Two time codes on one side of the beginning are taken for the same pose.
meshRequireUpdate_Side(kf, skel, old, t) ==
  LET needed == /\ skel # None
                /\ \/ (old = NaN) # (t = NaN)
                   \/ Later(skel[1], old) # Later(skel[1], t)
      Differs(c) == DOMAIN c.at # {} /\ SegmentOf(c, old) # SegmentOf(c, t)
  IN IF old = t THEN [needed |-> FALSE, dirty |-> {}]
     ELSE [needed |-> needed,
           dirty  |-> {a \in {"pos", "topo", "uv", "nrm", "clr"} :
                         (a = "pos" /\ needed) \/ Differs(kf[a])}]

\* What going to another time code marks: whether the mesh needs an update, which only a
\* skeleton asks for, and the properties that have another key frame.
meshRequireUpdate(kf, skel, old, t) ==
  LET needed == /\ skel # None
                /\ \/ (old = NaN) # (t = NaN)
                   \/ /\ ~(Later(skel[1], old) /\ Later(skel[1], t))
                      /\ ~(Later(old, skel[2]) /\ Later(t, skel[2]))
      Differs(c) == DOMAIN c.at # {} /\ SegmentOf(c, old) # SegmentOf(c, t)
  IN IF old = t THEN [needed |-> FALSE, dirty |-> {}]
     ELSE [needed |-> needed,
           dirty  |-> {a \in {"pos", "topo", "uv", "nrm", "clr"} :
                         (a = "pos" /\ needed) \/ Differs(kf[a])}]

-----------------------------------------------------------------------------
(* updatePrimFromKeyFrames: what a primitive holds at a time code.         *)

UpdateShape(p, kf, t) ==
  LET pos == Frame(kf.pos, t)
      topo == Frame(kf.topo, t)
      Fit(o, n) == [a \in DOMAIN p.at[o] |-> Resized(p.at[o][a], n)]
  IN [p EXCEPT !.pos = pos, !.vert = topo.index, !.poly = topo.face,
               !.at["points"] = Fit("points", Len(pos)),
               !.at["verts"] = Fit("verts", Len(topo.index)),
               !.at["Poly_"] = Fit("Poly_", Len(topo.face))]

\* A property that the primitive has is kept.
UpdateAttrib_Once(p, kf, a, t) ==
  IF (DOMAIN kf[a].at = {} /\ kf[a].default = None) \/ \E o \in Owners : Has(p, o, a) THEN p
  ELSE LET f == Frame(kf[a], t)
           n == CASE f.owner = "points" -> Len(p.pos) [] f.owner = "verts" -> Len(p.vert)
                  [] OTHER -> Len(p.poly)
       IN Assign(p, f.owner, a, n, f.vals)

UpdateAttrib(p, kf, a, t) ==
  IF DOMAIN kf[a].at = {} /\ kf[a].default = None THEN p
  ELSE LET f == Frame(kf[a], t)
           n == CASE f.owner = "points" -> Len(p.pos) [] f.owner = "verts" -> Len(p.vert)
                  [] OTHER -> Len(p.poly)
       IN Assign(p, f.owner, a, n, f.vals)

Update(p, kf, t) ==
  UpdateAttrib(UpdateAttrib(UpdateAttrib(UpdateShape(p, kf, t), kf, "uv", t),
                            kf, "nrm", t), kf, "clr", t)
=============================================================================
