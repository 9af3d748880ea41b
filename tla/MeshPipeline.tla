---------------------------- MODULE MeshPipeline ----------------------------
(***************************************************************************)
(* The way of a mesh from its source to the meshes that are shown          *)
(* (zs/world/scene/Primitive.cpp): a primitive is built once, then brought *)
(* to one time code after the other, made into a simple mesh, and split.   *)
(* Its processing flag keeps the coroutines of a primitive apart (module   *)
(* PrimVis), so the concurrency here is that of the loops of MeshSplit.    *)
(* Nodes are painted between two meshes: the flag does not hold painting   *)
(* back, but what it does to the arrays of a mesh being made is undefined. *)
(***************************************************************************)
EXTENDS MeshSplit, UsdPrim

CONSTANTS Sources,   \* USD and triangle meshes: records with the field form
          Times,     \* the time codes that are shown
          Solids,    \* shapes with an inside
          Sheets,    \* shapes with a border
          MaxShows,  \* bound: how often meshes are made
          Color      \* what nodes are painted with

\* Time codes are numbers, but for the default one.
ASSUME TimesAreNumbers ==
  /\ NaN \notin Int /\ Times \subseteq Int \cup {NaN}
  /\ None \notin Int /\ None \notin Int \X Int
  /\ MaxShows \in Nat

\* The attributes of a USD mesh that key frames are made of have finitely many samples.
ASSUME SamplesAreNumbers ==
  \A s \in Sources : s.form = "usd" =>
    /\ \A f \in {"points", "counts", "indices", "uv", "nrm", "clr", "vis", "pose"} :
         IsFiniteSet(TimeSamples(s[f])) /\ TimeSamples(s[f]) \subseteq Int
    /\ IsFiniteSet(s.moves) /\ s.moves \subseteq Int
    /\ \A t \in TimeSamples(s.pose) : s.pose[t] \in Int

VARIABLES
  src,     \* where the primitive comes from
  frames,  \* its key frames, if it has any
  phase,   \* "new", "idle", "split" or "painted"
  shown,   \* the time code that the primitive was brought to
  open,    \* whether the scene of its source is still there
  painted, \* whether its nodes were ever painted
  zs,      \* its point, line and triangle meshes
  visual,  \* its visual mesh
  shows    \* how many meshes were made

vars == <<splitVars, src, frames, phase, shown, open, painted, zs, visual, shows>>

TypeOK ==
  /\ src \in Sources
  /\ phase \in {"new", "idle", "split", "painted"}
  /\ shown \in Times \cup {NaN} \cup DOMAIN [t \in ToSet(frames.global) |-> t]
  /\ open \in BOOLEAN /\ painted \in BOOLEAN
  /\ target \in {"zsmesh", "visual"}
  /\ \A i \in DOMAIN prim.vert : prim.vert[i] \in 1 .. Len(prim.pos)
  /\ \A o \in {"points", "verts", "Poly_"} : \A a \in DOMAIN prim.at[o] :
       Len(prim.at[o][a]) = CASE o = "points" -> Len(prim.pos) [] o = "verts" -> Len(prim.vert)
                              [] o = "Poly_" -> Len(prim.poly)
  /\ shows \in 0 .. MaxShows

NoFrames == [pos |-> Constant(None), global |-> <<>>]
NoZs == [k \in Kinds |-> NoMesh]

Init ==
  /\ src \in Sources
  /\ prim = Blank /\ target = "zsmesh" /\ todo = <<>> /\ next = <<>>
  /\ known = <<>> /\ props = <<>>
  /\ frames = NoFrames
  /\ phase = "new"
  /\ shown = NaN
  /\ open = TRUE
  /\ painted = FALSE
  /\ zs = NoZs
  /\ visual = Blank
  /\ shows = 0

HasSkel(s) == s.form = "usd" /\ Skel(s) # None

\* applySkinning: nothing happens, and what was applied before stays, when the scene is gone.
Hung(p, t) == IF open /\ HasSkel(src) THEN Skinned(p, src, t) ELSE p

Build ==
  /\ phase = "new"
  /\ phase' = "idle"
  /\ CASE src.form = "usd" ->
            /\ frames' = KeyFrames(src)
            /\ shown' = InitialTc(src)
            /\ prim' = Hung(Update(Blank, frames', shown'), shown')
       [] src.form = "trimesh" ->
            /\ frames' = TriMeshFrames(src)
            /\ shown' = NaN
            /\ prim' = Update([Blank EXCEPT !.global = [e \in DOMAIN src.elems |-> <<"Tri_", e>>]],
                              frames', NaN)
       [] src.form = "tris" ->
            /\ prim' = AssignTriMesh(src)
            /\ UNCHANGED <<frames, shown>>
  /\ UNCHANGED <<target, todo, next, known, props, src, open, painted, zs, visual, shows>>

\* zsMeshAsync and visualMeshAsync, which take the primitive to a time code.
ShowAt(t, tg) ==
  /\ phase \in {"idle", "painted"}
  /\ frames # NoFrames
  /\ shows < MaxShows
  /\ BeginSplit(Setup(Hung(Update(prim, frames, t), t)), tg)
  /\ shown' = t
  /\ phase' = "split"
  /\ shows' = shows + 1
  /\ UNCHANGED <<src, frames, open, painted, zs, visual>>

\* visualMesh, which makes the visual mesh once and takes the primitive as it is.
ShowAsIs ==
  /\ phase \in {"idle", "painted"}
  /\ visual = Blank
  /\ shows < MaxShows
  /\ BeginSplit(IF IsEstablished(prim) THEN CopyAttribs(prim) ELSE Setup(prim), "visual")
  /\ phase' = "split"
  /\ shows' = shows + 1
  /\ UNCHANGED <<src, frames, shown, open, painted, zs, visual>>

Split ==
  /\ phase = "split"
  /\ SplitNext
  /\ UNCHANGED <<src, frames, phase, shown, open, painted, zs, visual, shows>>

EndSplit ==
  /\ phase = "split"
  /\ todo = <<>>
  /\ IF target = "zsmesh" THEN zs' = ZsMeshes /\ UNCHANGED visual
                          ELSE visual' = VisualMesh /\ UNCHANGED zs
  /\ phase' = "idle"
  /\ UNCHANGED <<splitVars, src, frames, shown, open, painted, shows>>

PaintNode(n) ==
  /\ phase = "idle"
  /\ target = "zsmesh"
  /\ n \in DOMAIN zs["Tri_"].nodes
  /\ zs' = Paint(prim, zs, {n}, Color).mesh
  /\ prim' = Paint(prim, zs, {n}, Color).prim
  /\ phase' = "painted"
  /\ painted' = TRUE
  /\ UNCHANGED <<target, todo, next, known, props, src, frames, shown, open, visual, shows>>

\* The scene is removed from the scene manager; the primitive stays.
CloseScene ==
  /\ phase = "idle" /\ open /\ HasSkel(src)
  /\ open' = FALSE
  /\ UNCHANGED <<splitVars, src, frames, phase, shown, painted, zs, visual, shows>>

Next ==
  \/ Build
  \/ \E t \in Times : ShowAt(t, "zsmesh") \/ ShowAt(t, "visual")
  \/ ShowAsIs
  \/ Split
  \/ EndSplit
  \/ \E n \in {1, 2} : PaintNode(n)
  \/ CloseScene

Spec == Init /\ [][Next]_vars

-----------------------------------------------------------------------------
(* A reference for what a source shows at a time code, made of its         *)
(* attributes alone.  The default time code shows the last samples.        *)

AsOf(a, t) == IF t = NaN /\ TimeSamples(a) # {} THEN a[Max(TimeSamples(a))] ELSE Held(a, t)

\* At each time code that it is brought to, a source is a mesh: it has faces, whose corners
\* are some of its points.  (Without corners setup_simple_mesh_for_poly_mesh returns early,
\* and the simple mesh of the time code before stays.)
StartOf(s) == IF s.form = "usd" THEN InitialTc(s) ELSE NaN

ASSUME SourcesAreMeshes ==
  \A s \in Sources :
    \/ /\ s.form = "usd" /\ s.left \in BOOLEAN
       /\ \A t \in Times \cup {StartOf(s)} :
            LET pos == AsOf(s.points, t)
                sizes == AsOf(s.counts, t)
                ids == AsOf(s.indices, t)
            IN /\ pos \in Seq(Int) /\ sizes \in Seq(Nat)
               /\ ids \in Seq(1 .. Len(pos)) /\ ids # <<>>
               /\ Len(ids) = SumTo(sizes, Len(sizes))
    \/ /\ s.form \in {"trimesh", "tris"}
       /\ s.nodes \in Seq(Int)
       /\ s.elems \in Seq([1 .. 3 -> 1 .. Len(s.nodes)]) /\ s.elems # <<>>
       /\ s.form = "tris" => \A a \in DOMAIN s.attr : Len(s.attr[a]) = Len(s.nodes)

FaceStart(sizes, f) == SumTo(sizes, f - 1)

\* The points of the corners of each face, counter-clockwise.
RefFaces(s, t) ==
  IF s.form # "usd" THEN s.elems
  ELSE LET sizes == AsOf(s.counts, t)
           ids == AsOf(s.indices, t)
           Face(f) == SubSeq(ids, FaceStart(sizes, f) + 1, FaceStart(sizes, f) + sizes[f])
           Turned(f) == <<Head(Face(f))>> \o Reverse(Tail(Face(f)))
       IN [f \in DOMAIN sizes |-> IF s.left /\ sizes[f] > 0 THEN Turned(f) ELSE Face(f)]

RefNodes(s, t) ==
  IF s.form # "usd" THEN s.nodes
  ELSE LET pos == AsOf(s.points, t)
       IN IF HasSkel(s) /\ t # NaN THEN [i \in DOMAIN pos |-> pos[i] + Pose(s, t)] ELSE pos

\* The triangles of the faces with three corners or more, as positions.
RefTriangles(s, t) ==
  LET pos == RefNodes(s, t)
      Of(face) == [j \in 1 .. Len(face) - 2 |->
                     <<pos[face[1]], pos[face[j + 1]], pos[face[j + 2]]>>]
      faces == RefFaces(s, t)
  IN FlattenSeq([f \in DOMAIN faces |-> IF Len(faces[f]) < 3 THEN <<>> ELSE Of(faces[f])])

Drawn(m) == [e \in DOMAIN m.elems |-> [d \in DOMAIN m.elems[e] |-> m.nodes[m.elems[e][d]]]]

-----------------------------------------------------------------------------
(* Properties.                                                             *)

\* Whatever was shown before and however the loops were interleaved, the triangles of a mesh
\* are those of the source at the time code it was made for, moved by its skeleton.  No pose
\* can be computed at NaN or without the scene: those of an earlier one stay.
ShownIsCurrent ==
  (phase = "idle" /\ shows > 0 /\ (HasSkel(src) => open /\ shown # NaN)) =>
    Drawn(IF target = "zsmesh" THEN zs["Tri_"] ELSE TriMeshOf(visual)) = RefTriangles(src, shown)

\* While prims are compared in parallel, and until a node is painted, the variants of a point
\* are different vertices of that point, and differ in the property if only one tells them apart.
VariantsDiffer ==
  phase # "painted" =>
    \A i \in DOMAIN known :
      /\ IsInjective(known[i])
      /\ \A j \in DOMAIN known[i] : prim.vert[known[i][j]] = i
      /\ \A a \in DOMAIN prim.at["verts"] :
           DOMAIN prim.at["verts"] \cap ToSet(AttribsOf(target)) = {a} =>
             IsInjective([j \in DOMAIN known[i] |-> prim.at["verts"][a][known[i][j]]])

\* The value of a property at a vertex of the simple mesh.
AtVertex(a, v) == IF Has(prim, "verts", a) THEN prim.at["verts"][a][v]
                  ELSE prim.at["points"][a][prim.vert[v]]

UsedVerts ==
  UNION {UNION {ToSet(prim.simple[k][e].v) : e \in DOMAIN prim.simple[k]} : k \in Kinds}

\* Each value that a property has at a corner is carried by a node of the corner's point.
NothingIsLost ==
  (phase = "idle" /\ shows > 0) =>
    \A a \in DOMAIN NodeAttribs : \A v \in UsedVerts :
      \E n \in DOMAIN Nodes : Nodes[n][1] = prim.vert[v] /\ NodeAttribs[a][n] = AtVertex(a, v)

\* A painted node and the vertex it stands for have the same color.
PaintReachesVerts ==
  phase = "painted" =>
    \A k \in Kinds : \A n \in DOMAIN zs[k].vids :
      "clr" \in DOMAIN zs[k].attr => prim.at["verts"]["clr"][zs[k].vids[n]] = zs[k].attr["clr"][n]

\* What is seen of a property at a vertex, through the polygon, the vertex or the point.
Seen(p, a, v) ==
  CASE Has(p, "Poly_", a) ->
         p.at["Poly_"][a][CHOOSE f \in DOMAIN p.poly :
                            p.poly[f].off < v /\ v <= p.poly[f].off + p.poly[f].size]
    [] ~Has(p, "Poly_", a) /\ Has(p, "verts", a) -> p.at["verts"][a][v]
    [] ~Has(p, "Poly_", a) /\ ~Has(p, "verts", a) /\ Has(p, "points", a) ->
         p.at["points"][a][p.vert[v]]
    [] OTHER -> None

\* Where the points of a primitive are: with a skeleton, at their second positions.
Places(p) == IF Has(p, "points", "skin") THEN p.at["points"]["skin"] ELSE p.pos

\* Read at one time code, which moves the points by the skeleton, or taken from key frames, which
\* does not, and then moved, a USD mesh is the same primitive.  Two things are left out: at the
\* default time code key frames show the last sample; and of the normals and colors, a primitive
\* has the same where its numbers of points, vertices and faces differ and no value of its own is
\* given for each vertex, which only key frames know.
ImportsAgree ==
  (phase = "new" /\ src.form = "usd") =>
    \A t \in (Times \cup ToSet(TotalTcs(src)) \cup {InitialTc(src)})
             \ {x \in {NaN} : TotalTcs(src) # <<>>} :
      LET once == ImportAt(src, t)
          keyed == Skinned(Update(Blank, KeyFrames(src), t), src, t)
      IN /\ once.pos = Places(keyed) /\ once.vert = keyed.vert /\ once.poly = keyed.poly
         /\ \A v \in DOMAIN once.vert :
              /\ Seen(once, "uv", v) = Seen(keyed, "uv", v)
              /\ Cardinality({Len(once.pos), Len(once.vert), Len(once.poly)}) = 3 =>
                   \A a \in {"nrm", "clr"} :
                     Len(Held(src[a], t)) # Len(once.vert) => Seen(once, a, v) = Seen(keyed, a, v)

\* The time code that counts at another one: the last that is not later, or the first.
BaseOf(G, t) == IF \E s \in G : s <= t THEN Max({s \in G : s <= t}) ELSE Min(G)

\* The numbers from just before to just after some time codes.
Around(tcs) == UNION {s - 1 .. s + 1 : s \in tcs}

\* What a primitive takes from its key frames, its shape and its properties, changes only at its
\* global time codes.  Its pose also changes between them, but not before the first or after the
\* last.  Its transform is no part of this: the codes of a matrix operation are not merged.
KeyFramesChangeAtGlobals ==
  (phase = "new" /\ src.form = "usd") =>
    LET kf == KeyFrames(src)
        tcs == ToSet(kf.global)
    IN \A t \in (Times \ {NaN}) \cup Around(tcs) :
         /\ tcs # {} => Update(Blank, kf, t) = Update(Blank, kf, BaseOf(tcs, t))
         /\ tcs = {} => Update(Blank, kf, t) = Update(Blank, kf, NaN)
         /\ tcs # {} /\ ((\A s \in tcs : s < t) \/ (\A s \in tcs : t < s)) =>
              Pose(src, t) = Pose(src, BaseOf(tcs, t))

\* Whether a property belongs to the points, the vertices or the polygons all the time.
KeepsOwner(a) ==
  Cardinality({frames[a].at[k].owner : k \in DOMAIN frames[a].at}) <= 1

\* Whatever was shown before, a property at the corners of a mesh is that of the time it was made
\* for: as long as nothing was painted, the property always belongs to the same elements (those
\* that it does not belong to any more keep what they had), and what belongs to the polygons is
\* handed to the corners.
AttribsAreCurrent ==
  (phase = "idle" /\ shows > 0 /\ frames # NoFrames /\ ~painted) =>
    LET fresh == Update(Blank, frames, shown)
    IN \A a \in {x \in DOMAIN NodeAttribs \cap {"uv", "nrm", "clr"} : KeepsOwner(x)} :
         \A v \in UsedVerts :
           (target = "visual" /\ a = "uv" => ~Has(fresh, "Poly_", a)) =>
             AtVertex(a, v) = Seen(fresh, a, v)

\* What is not flagged when a primitive goes to another time code does not change.
FlagsAreEnough ==
  (phase = "new" /\ src.form = "usd") =>
    LET kf == KeyFrames(src)
    IN \A old, t \in Times :
         LET r == meshRequireUpdate(kf, Skel(src), old, t)
         IN /\ \A a \in {"pos", "topo", "uv", "nrm", "clr"} \ r.dirty : Frame(kf[a], old) = Frame(kf[a], t)
            /\ ~r.needed => Pose(src, old) = Pose(src, t)

\* Taken to another form, a mesh has the faces it came from: exported to a new USD mesh, which
\* hangs on no skeleton and would not move the points again, or to a triangle mesh, asked of USD
\* as a triangle mesh and set again, or copied to another prim.  The polygons have what their
\* simple prims write back, where no polygon makes more than one.
FormsAgree ==
  phase = "new" =>
    CASE src.form = "usd" ->
           \A t \in (Times \ {NaN}) \cup {InitialTc(src)} :
             LET p == ImportAt(src, t)
                 new == [src EXCEPT !.left = FALSE, !.pose = [x \in {} |-> <<>>]]
                 back == ImportAt(ToUsd(p, new, t, NaN), t)
                 simple == Setup(p)
                 vis == ToVisMesh(src, t)
                 set == FromVisMesh(new, vis)
                 copy == CopyPrim([f \in DOMAIN src |-> IF f \in UsdAttribs THEN [x \in {} |-> <<>>]
                                                        ELSE src[f]], src)
             IN /\ <<back.pos, back.vert, back.poly>> = <<p.pos, p.vert, p.poly>>
                /\ Drawn(ToTriMesh(p)) = RefTriangles(src, t)
                /\ ~HasSkel(src) =>
                     /\ ToSet(Drawn(vis)) = ToSet(RefTriangles(src, t))
                     /\ Drawn(ToVisMesh(set, t)) = Drawn(vis)
                /\ \A a \in DOMAIN p.at["Poly_"] : \A f \in DOMAIN p.poly :
                     p.poly[f].size <= 3 =>
                       WriteBack(simple).at["Poly_"][a][f] = p.at["Poly_"][a][f]
                /\ \A f \in UsdAttribs : \A x \in Times : Held(copy[f], x) = Held(src[f], x)
      [] src.form # "usd" -> Drawn(ToTriMesh(AssignTriMesh(src))) = RefTriangles(src, NaN)

\* The sides of the triangles of a shape, as pairs of nodes, and its Euler characteristic.
Sides(m) == {<<e, d>> : e \in DOMAIN m.elems, d \in 1 .. 3}
Side(m, s) == <<m.elems[s[1]][s[2]], m.elems[s[1]][(s[2] % 3) + 1]>>
Directed(m) == {Side(m, s) : s \in Sides(m)}
Euler(m) == Len(m.nodes) + Len(m.elems) - Cardinality({{d[1], d[2]} : d \in Directed(m)})

\* Each solid has an inside: every side of a triangle is the side, in reverse, of one other.  A
\* sheet may have borders.  All triangles face the same way and all nodes are used.
ShapesAreClosed ==
  phase = "new" =>
    \A m \in Solids \cup Sheets :
      /\ Cardinality(Directed(m)) = Cardinality(Sides(m))
      /\ UNION {{d[1], d[2]} : d \in Directed(m)} = DOMAIN m.nodes
      /\ m \in Solids => /\ \A d \in Directed(m) : <<d[2], d[1]>> \in Directed(m)
                         /\ Euler(m) \in {0, 2}
      /\ m \in Sheets => Euler(m) = 1

\* The corners of a simple mesh keep their own properties, as points are "split by divergent
\* [nrm, clr, uv, tan] attributes".
SeamsAreKept ==
  (phase = "idle" /\ shows > 0) =>
    \A a \in DOMAIN NodeAttribs : \A v \in UsedVerts : NodeAttribs[a][NodeOf(v)] = AtVertex(a, v)
=============================================================================
