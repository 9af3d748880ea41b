---------------------------- MODULE PrimVisProofs ----------------------------
(***************************************************************************)
(* Proofs about module PrimVis, for any primitives and time codes: one     *)
(* owner per busy primitive, no frame freed under a worker, an exact count *)
(* of primitives in flight and of its emissions, and a device that shows   *)
(* what the flags say.                                                     *)
(***************************************************************************)
EXTENDS PrimVis, SetFacts, TLAPS

(* The inductive invariant, part by part.                                  *)

\* The coroutines that inc_inflight_prim_cnt has counted and dec_inflight_prim_cnt has not.
Flying == {p \in Prims : Preparing(p) \/ co[p].at \in {"posted", "failed"}}

CountInv == inFlight = Cardinality(Flying)

\* A coroutine on the GUI thread, inside the call of queryVkTriMesh that has launched it.
OnGui(p) == \/ co[p].at = "start"
            \/ co[p].kind = "attrib" /\ co[p].at \in {"body", "posted", "counted"}

\* The GUI thread is in one call at a time, and a call in progress is where it is.
GuiInv ==
  /\ \A p, q \in Prims : OnGui(p) /\ OnGui(q) => p = q
  /\ \A p \in Prims : OnGui(p) => gui = "call"

\* A queued command is the one that its primitive's coroutine has posted.
CmdInv ==
  \A c \in BagToSet(cmds) :
    /\ c = [prim |-> c.prim, kind |-> co[c.prim].kind, tc |-> co[c.prim].tc]
    /\ co[c.prim].at \in {"posted", "counted", "event", "done"}

HasCmd(p) == \E c \in BagToSet(cmds) : c.prim = p

\* The flag is set from the launch to the command, which is there as soon as the coroutine
\* has posted it.
FlagInv ==
  \A p \in Prims :
    /\ processing[p] <=> Preparing(p) \/ co[p].at = "failed" \/ HasCmd(p)
    /\ co[p].at = "posted" => HasCmd(p)

\* Only a coroutine that has left its worker makes the worker return.
ReturnInv == \A p \in returning : co[p].at \in {"event", "done"} /\ co[p].kind = "mesh"

\* What flush() waits for stays away until the GUI queries again.
FlushInv ==
  /\ gui = "flushEvents" => TaskJobs = {}
  /\ gui \in {"query", "call"} =>
       \A p \in Prims : ~processing[p] => co[p].at \in {"none", "done"} /\ p \notin returning

\* An emission is owed only right after the counter was changed.
SignalInv == \A p \in Prims : signal[p] # 0 => co[p].at \in {"start", "counted"}

\* The emissions add up.
HeardInv == heard + Total(signal, Prims) = IF inFlight > 0 THEN 1 ELSE 0

\* The mesh of p is not being rebuilt: p is idle, or its attributes are on the way.
Settled(p) == co[p].at # "none" /\ (~processing[p] \/ co[p].kind = "attrib")

\* The device between two rebuilds, ...
SettledInv ==
  \A p \in Prims : Settled(p) =>
    /\ vk[p].pose = mesh[p].pose
    /\ vk[p].pose = Pose(p, curTc[p])
    /\ "Color" \notin dirty[p] => SameColor(p)
    /\ curTc[p] \in TimeCodes

\* ... and during one: the flags make the command upload what the rebuild changes.
RebuildInv ==
  \A p \in Prims : processing[p] /\ co[p].kind = "mesh" =>
    /\ "TimeCode" \in dirty[p]
    /\ p \in Keyed => "Color" \in dirty[p]
    /\ "Topo" \notin dirty[p] =>
         /\ "Pos" \in dirty[p] /\ p \in Skel
         /\ vk[p].pose # None /\ mesh[p].pose # None
         /\ "Color" \notin dirty[p] => SameColor(p)

\* The coroutine before the first query, and the mesh after the last rebuild.
MeshInv ==
  \A p \in Prims :
    /\ co[p].at = "none" => dirty[p] = Flags
    /\ co[p].at # "none" => co[p].tc \in TimeCodes
    /\ co[p].at \in {"queued", "building", "failed"} => co[p].kind = "mesh"
    /\ co[p].kind = "mesh" /\ co[p].at \in {"body", "posted", "counted", "event", "done"} =>
         mesh[p].pose = Pose(p, co[p].tc)

\* The color of the mesh and that of the vertices it is built from: a color that is not
\* animated has one key frame, one that belongs to no vertex is painted in both, and one that
\* was painted since the key frame was copied is flagged.
ColorInv ==
  \A p \in Prims :
    /\ p \notin Keyed => mesh[p].key = NaN /\ (verts[p] = NoColor \/ verts[p].key = NaN)
    /\ p \notin VertColored \cup FaceColored => verts[p].paint = mesh[p].paint
    /\ p \in VertColored /\ co[p].at = "building" /\ "Color" \notin dirty[p] =>
         verts[p].paint = 0

IInv ==
  /\ TypeOK /\ GuiInv /\ CmdInv /\ FlagInv /\ ReturnInv /\ FlushInv
  /\ CountInv /\ SignalInv /\ HeardInv
  /\ SettledInv /\ RebuildInv /\ MeshInv /\ ColorInv

-----------------------------------------------------------------------------
(* The operators of the model.                                             *)

Kinds == {"mesh", "attrib"}
CoType == [kind : Kinds, at : Stages, tc : AllTcs]

\* One coroutine goes from a stage to the next one.
LEMMA AtEffect ==
  ASSUME TypeOK, NEW p \in Prims, NEW stage \in Stages, At(p, stage)
  PROVE  /\ co' \in [Prims -> CoType]
         /\ co'[p].at = stage /\ co'[p].kind = co[p].kind /\ co'[p].tc = co[p].tc
         /\ \A q \in Prims : q # p => co'[q] = co[q]
  BY DEF TypeOK, At, CoType, Kinds

\* A new coroutine takes the place of the one before.
LEMMA LaunchEffect ==
  ASSUME TypeOK, NEW p \in Prims, NEW kind \in Kinds, NEW tc \in TimeCodes, Launch(p, kind, tc)
  PROVE  /\ co' \in [Prims -> CoType]
         /\ co'[p].at = "start" /\ co'[p].kind = kind /\ co'[p].tc = tc
         /\ \A q \in Prims : q # p => co'[q] = co[q]
         /\ processing' \in [Prims -> BOOLEAN] /\ processing'[p]
         /\ \A q \in Prims : q # p => processing'[q] = processing[q]
  BY DEF TypeOK, Launch, CoType, Kinds, Stages, AllTcs

\* The segment of a time code is a time code.
LEMMA SegmentType ==
  ASSUME PrimVisAssumption, NEW tc \in AllTcs
  PROVE  Segment(tc) \in TimeCodes
  BY MaxExists DEF PrimVisAssumption, Segment, AllTcs

\* The poses that a mesh can show.
LEMMA PoseType ==
  ASSUME PrimVisAssumption, NEW p, NEW tc \in AllTcs
  PROVE  Pose(p, tc) \in AllTcs \cup {First, Final} /\ Pose(p, tc) # None
  BY DEF PrimVisAssumption, Pose, AllTcs

\* What a mesh shows is told by three things, and one that shows no pose was never built.
LEMMA ShownFields ==
  ASSUME PrimVisAssumption, NEW m \in Shown, NEW n \in Shown
  PROVE  /\ m.pose = n.pose /\ m.key = n.key /\ m.paint = n.paint => m = n
         /\ m = Empty <=> m.pose = None
         /\ m = [pose |-> m.pose, key |-> m.key, paint |-> m.paint]
         /\ m.key \in AllTcs /\ m.paint \in 0 .. MaxPaint
         /\ m.pose \in AllTcs \cup {First, Final, None}
  <1>1. ASSUME NEW x \in Shown
        PROVE  /\ x = [pose |-> x.pose, key |-> x.key, paint |-> x.paint]
               /\ x.key \in AllTcs /\ x.paint \in 0 .. MaxPaint
               /\ x.pose \in AllTcs \cup {First, Final, None}
               /\ x = Empty <=> x.pose = None
    <2>1. CASE x = Empty
      BY <2>1 DEF PrimVisAssumption, Empty, AllTcs
    <2>2. CASE x \in [pose : AllTcs \cup {First, Final}, key : AllTcs, paint : 0 .. MaxPaint]
      <3>1. None \notin AllTcs \cup {First, Final}
        BY DEF PrimVisAssumption, AllTcs
      <3> QED  BY <2>2, <3>1 DEF Empty
    <2> QED  BY <2>1, <2>2 DEF Shown
  <1> QED  BY <1>1

\* A mesh built for a time code is a mesh.
LEMMA ShownMember ==
  ASSUME PrimVisAssumption, NEW x \in AllTcs \cup {First, Final}, NEW k \in AllTcs,
         NEW n \in 0 .. MaxPaint
  PROVE  [pose |-> x, key |-> k, paint |-> n] \in Shown
  BY DEF Shown

\* A command is added to the queue, ...
LEMMA AddCmd ==
  ASSUME IsABag(cmds), NEW c, c \notin BagToSet(cmds), NEW new, new = cmds (+) SetToBag({c})
  PROVE  /\ IsABag(new) /\ BagToSet(new) = BagToSet(cmds) \cup {c}
         /\ new[c] = 1 /\ \A d \in BagToSet(cmds) : new[d] = cmds[d]
  BY DEF (+), SetToBag, IsABag, BagToSet

\* ... or leaves it.
LEMMA RemoveCmd ==
  ASSUME IsABag(cmds), NEW c, c \in BagToSet(cmds), cmds[c] = 1, NEW new,
         new = cmds (-) SetToBag({c})
  PROVE  /\ IsABag(new) /\ BagToSet(new) = BagToSet(cmds) \ {c}
         /\ \A d \in BagToSet(new) : new[d] = cmds[d]
  BY DEF (-), SetToBag, IsABag, BagToSet

-----------------------------------------------------------------------------
(* What the invariant says about one primitive or one command.             *)

\* There are no more coroutines in flight than primitives, ...
LEMMA FlyingBound ==
  ASSUME PrimVisAssumption, NEW F \in SUBSET Prims
  PROVE  /\ IsFiniteSet(F) /\ Cardinality(F) \in 0 .. Cardinality(Prims)
         /\ Cardinality(F) = 0 <=> F = {}
  <1>1. IsFiniteSet(Prims)
    BY DEF PrimVisAssumption
  <1>2. IsFiniteSet(F) /\ Cardinality(F) <= Cardinality(Prims)
    BY <1>1, FS_Subset
  <1>3. Cardinality(F) \in Nat /\ Cardinality(Prims) \in Nat
    BY <1>1, <1>2, FS_CardinalityType
  <1> QED  BY <1>2, <1>3, FS_EmptySet

\* ... so that they can be counted.
LEMMA FlyingFinite ==
  ASSUME PrimVisAssumption
  PROVE  /\ IsFiniteSet(Flying) /\ Cardinality(Flying) \in 0 .. Cardinality(Prims)
         /\ Cardinality(Flying) = 0 <=> Flying = {}
  <1>1. Flying \in SUBSET Prims
    BY DEF Flying
  <1> QED  BY <1>1, FlyingBound

\* A query launches the coroutine of an idle primitive, which nobody is concerned with.
LEMMA QueryFacts ==
  ASSUME PrimVisAssumption, IInv, NEW p \in Prims, NEW tc \in TimeCodes,
         QueryMesh(p, tc) \/ QueryAttrib(p, tc)
  PROVE  /\ gui = "query" /\ ~processing[p] /\ \E kind \in Kinds : Launch(p, kind, tc)
         /\ co[p].at \in {"none", "done"} /\ p \notin returning /\ ~HasCmd(p) /\ p \notin Flying
         /\ \A q \in Prims : ~OnGui(q)
  <1>1. gui = "query" /\ ~processing[p] /\ \E kind \in Kinds : Launch(p, kind, tc)
    BY DEF QueryMesh, QueryAttrib, Kinds
  <1>2. co[p].at \in {"none", "done"} /\ p \notin returning
    BY <1>1 DEF IInv, FlushInv
  <1>3. p \notin Flying
    BY <1>2 DEF Flying, Preparing
  <1>4. ~HasCmd(p) /\ \A q \in Prims : ~OnGui(q)
    BY <1>1 DEF IInv, FlagInv, GuiInv
  <1> QED  BY <1>1, <1>2, <1>3, <1>4

\* A command is run when its coroutine has landed, and it is the only one of its primitive.
LEMMA RunFacts ==
  ASSUME PrimVisAssumption, IInv, NEW c \in BagToSet(cmds), Take(c)
  PROVE  /\ c.prim \in Prims /\ processing[c.prim]
         /\ co[c.prim].at \in {"counted", "event", "done"}
         /\ co[c.prim].kind = c.kind /\ co[c.prim].tc = c.tc
         /\ IsABag(cmds') /\ BagToSet(cmds') = BagToSet(cmds) \ {c}
         /\ \A d \in BagToSet(cmds') : cmds'[d] = cmds[d]
         /\ \A d \in BagToSet(cmds') : d.prim # c.prim
         /\ gui = "drain"
  <1>1. c.prim \in Prims /\ cmds[c] = 1 /\ gui = "drain" /\ inFlight = 0
    BY DEF IInv, TypeOK, Take
  <1>2. /\ IsABag(cmds') /\ BagToSet(cmds') = BagToSet(cmds) \ {c}
        /\ \A d \in BagToSet(cmds') : cmds'[d] = cmds[d]
    BY <1>1, RemoveCmd DEF IInv, TypeOK, Take
  <1>3. HasCmd(c.prim)
    BY DEF HasCmd
  <1>4. processing[c.prim]
    BY <1>1, <1>3 DEF IInv, FlagInv
  <1>5. c.prim \notin Flying
    BY <1>1, FlyingFinite DEF IInv, CountInv
  <1>6. co[c.prim].at \in {"posted", "counted", "event", "done"} /\ co[c.prim].at # "posted"
    BY <1>1, <1>5 DEF IInv, CmdInv, Flying
  <1>7. \A d \in BagToSet(cmds) : d = [prim |-> d.prim, kind |-> co[d.prim].kind,
                                       tc |-> co[d.prim].tc]
    BY DEF IInv, CmdInv
  <1>8. ASSUME NEW d \in BagToSet(cmds), d.prim = c.prim
        PROVE  d = c
    BY <1>7, <1>8
  <1>9. co[c.prim].kind = c.kind /\ co[c.prim].tc = c.tc
    BY <1>7
  <1> QED  BY <1>1, <1>2, <1>4, <1>6, <1>8, <1>9

\* Nothing but the end of coroutines is left to happen while the event scheduler is waited for.
LEMMA FlushFacts ==
  ASSUME IInv, gui = "flushEvents", NEW p \in Prims
  PROVE  co[p].at \in {"none", "event", "done", "failed"} /\ p \notin returning
  <1>1. p \notin TaskJobs /\ ~OnGui(p)
    BY DEF IInv, FlushInv, GuiInv
  <1>2. co[p].kind \in {"mesh", "attrib"} /\ co[p].at \in Stages
    BY DEF IInv, TypeOK
  <1>3. co[p].at \in {"queued", "building", "failed"} => co[p].kind = "mesh"
    BY DEF IInv, MeshInv
  <1> QED  BY <1>1, <1>2, <1>3 DEF TaskJobs, OnGui, Stages

-----------------------------------------------------------------------------
(* What the steps do to the mesh and to what the device has of it.         *)

\* The colors that vertices hold.
LEMMA ColorFields ==
  ASSUME PrimVisAssumption, NEW k \in AllTcs, NEW n \in 0 .. MaxPaint
  PROVE  /\ Color(k, n) \in Colors /\ Color(k, n).key = k /\ Color(k, n).paint = n
         /\ NoColor.paint = 0 /\ 0 \in 0 .. MaxPaint
  BY DEF PrimVisAssumption, Color, NoColor, Colors

\* Painting changes one mesh and the vertices it was built from, and flags it.
LEMMA PaintEffect ==
  ASSUME PrimVisAssumption, TypeOK, NEW p \in Prims, Paint(p)
  PROVE  /\ mesh' \in [Prims -> Shown] /\ dirty' \in [Prims -> SUBSET Flags]
         /\ verts' \in [Prims -> {NoColor} \cup Colors]
         /\ mesh'[p].pose = mesh[p].pose /\ mesh'[p].key = mesh[p].key
         /\ mesh[p].pose # None /\ dirty'[p] = dirty[p] \cup {"Color"}
         /\ IF p \in Colored THEN verts'[p].key = mesh[p].key /\ verts'[p].paint = mesh'[p].paint
                             ELSE verts'[p] = verts[p] /\ mesh'[p] = mesh[p]
         /\ \A q \in Prims : q # p =>
              mesh'[q] = mesh[q] /\ dirty'[q] = dirty[q] /\ verts'[q] = verts[q]
  <1> DEFINE n == mesh[p].paint + 1
             m == [pose |-> mesh[p].pose, key |-> mesh[p].key, paint |-> n]
  <1>1. /\ mesh[p] \in Shown /\ mesh \in [Prims -> Shown] /\ mesh[p].pose # None
        /\ verts \in [Prims -> {NoColor} \cup Colors]
    BY DEF TypeOK, Paint
  <1>2. /\ mesh[p] = [pose |-> mesh[p].pose, key |-> mesh[p].key, paint |-> mesh[p].paint]
        /\ mesh[p].key \in AllTcs /\ mesh[p].paint \in 0 .. MaxPaint
        /\ mesh[p].pose \in AllTcs \cup {First, Final}
    BY <1>1, ShownFields
  <1>3. /\ dirty' \in [Prims -> SUBSET Flags] /\ dirty'[p] = dirty[p] \cup {"Color"}
        /\ \A q \in Prims : q # p => dirty'[q] = dirty[q]
    BY DEF TypeOK, Paint, Flags
  <1>4. CASE p \in Colored
    <2>1. /\ n <= MaxPaint /\ verts' = [verts EXCEPT ![p] = Color(mesh[p].key, n)]
          /\ mesh' = [mesh EXCEPT ![p] = [mesh[p] EXCEPT !.paint = n]]
      BY <1>4 DEF Paint
    <2>2. [mesh[p] EXCEPT !.paint = n] = m
      BY <1>2
    <2>3. n \in 0 .. MaxPaint
      BY <1>2, <2>1 DEF PrimVisAssumption
    <2>4. m \in Shown /\ m.pose = mesh[p].pose /\ m.key = mesh[p].key /\ m.paint = n
      BY <1>2, <2>3, ShownMember
    <2> HIDE DEF m
    <2>5. mesh' \in [Prims -> Shown] /\ mesh'[p] = m
          /\ \A q \in Prims : q # p => mesh'[q] = mesh[q]
      BY <1>1, <2>1, <2>2, <2>4
    <2> HIDE DEF n
    <2>6. /\ Color(mesh[p].key, n) \in Colors /\ Color(mesh[p].key, n).key = mesh[p].key
          /\ Color(mesh[p].key, n).paint = n
      BY <1>2, <2>3, ColorFields
    <2>7. /\ verts' \in [Prims -> {NoColor} \cup Colors] /\ verts'[p] = Color(mesh[p].key, n)
          /\ \A q \in Prims : q # p => verts'[q] = verts[q]
      BY <1>1, <2>1, <2>6
    <2> QED  BY <1>1, <1>3, <1>4, <2>4, <2>5, <2>6, <2>7
  <1>5. CASE p \notin Colored
    <2>1. mesh' = mesh /\ verts' = verts
      BY <1>5 DEF Paint
    <2> QED  BY <1>1, <1>3, <1>5, <2>1
  <1> QED  BY <1>4, <1>5

\* A worker takes the key frame of the color over to the vertices it belongs to.
LEMMA BeginEffect ==
  ASSUME PrimVisAssumption, TypeOK, NEW p \in Prims, BeginBuild(p)
  PROVE  /\ verts' \in [Prims -> {NoColor} \cup Colors]
         /\ IF p \in VertColored
              THEN verts'[p].key = Key(p, co[p].tc) /\ verts'[p].paint = 0
              ELSE verts'[p] = verts[p]
         /\ \A q \in Prims : q # p => verts'[q] = verts[q]
  <1>1. verts \in [Prims -> {NoColor} \cup Colors] /\ co[p].tc \in AllTcs
    BY DEF TypeOK
  <1>2. Key(p, co[p].tc) \in AllTcs
    BY <1>1, SegmentType DEF Key, AllTcs
  <1> DEFINE c == Color(Key(p, co[p].tc), 0)
  <1>3. c \in Colors /\ c.key = Key(p, co[p].tc) /\ c.paint = 0
    BY <1>2, ColorFields
  <1>4. verts' = IF p \in VertColored THEN [verts EXCEPT ![p] = c] ELSE verts
    BY DEF BeginBuild
  <1> HIDE DEF c
  <1> QED  BY <1>1, <1>3, <1>4

\* What the color of a mesh is built from.
LEMMA BuiltFields ==
  ASSUME PrimVisAssumption, TypeOK, NEW p \in Prims
  PROVE  /\ Built(p) \in Colors /\ Built(p).key \in AllTcs /\ Built(p).paint \in 0 .. MaxPaint
         /\ Built(p).paint = IF p \in FaceColored THEN 0 ELSE verts[p].paint
         /\ \/ Built(p).key = Key(p, co[p].tc)
            \/ verts[p] # NoColor /\ Built(p).key = verts[p].key
  <1>1. verts[p] \in {NoColor} \cup Colors /\ co[p].tc \in AllTcs
    BY DEF TypeOK
  <1>2. Key(p, co[p].tc) \in AllTcs
    BY <1>1, SegmentType DEF Key, AllTcs
  <1> DEFINE c == Color(Key(p, co[p].tc), 0)
  <1>3. c \in Colors /\ c.key = Key(p, co[p].tc) /\ c.paint = 0 /\ NoColor.paint = 0
    BY <1>2, ColorFields
  <1>4. Built(p) = IF p \in FaceColored \/ verts[p] = NoColor THEN c ELSE verts[p]
    BY DEF Built
  <1>5. \A d \in Colors : d.key \in AllTcs /\ d.paint \in 0 .. MaxPaint
    BY DEF Colors
  <1> HIDE DEF c
  <1> QED  BY <1>1, <1>3, <1>4, <1>5

\* The end of a rebuild changes one mesh, and the vertices to which faces give their color.
LEMMA BuildEffect ==
  ASSUME PrimVisAssumption, TypeOK, NEW p \in Prims, EndBuild(p)
  PROVE  /\ mesh' \in [Prims -> Shown] /\ verts' \in [Prims -> {NoColor} \cup Colors]
         /\ mesh'[p].pose = Pose(p, co[p].tc) /\ mesh'[p].pose # None
         /\ mesh'[p].key = Built(p).key /\ mesh'[p].paint = Built(p).paint
         /\ verts'[p] = IF p \in FaceColored THEN Built(p) ELSE verts[p]
         /\ \A q \in Prims : q # p => mesh'[q] = mesh[q] /\ verts'[q] = verts[q]
  <1> DEFINE m == [pose |-> Pose(p, co[p].tc), key |-> Built(p).key, paint |-> Built(p).paint]
  <1>1. /\ mesh' = [mesh EXCEPT ![p] = m] /\ mesh \in [Prims -> Shown] /\ co[p].tc \in AllTcs
        /\ verts' = IF p \in FaceColored THEN [verts EXCEPT ![p] = Built(p)] ELSE verts
        /\ verts \in [Prims -> {NoColor} \cup Colors]
    BY DEF TypeOK, EndBuild
  <1>2. Pose(p, co[p].tc) \in AllTcs \cup {First, Final} /\ Pose(p, co[p].tc) # None
    BY <1>1, PoseType
  <1>3. Built(p) \in Colors /\ Built(p).key \in AllTcs /\ Built(p).paint \in 0 .. MaxPaint
    BY BuiltFields
  <1>4. m \in Shown
    BY <1>2, <1>3, ShownMember
  <1>5. m.pose = Pose(p, co[p].tc) /\ m.key = Built(p).key /\ m.paint = Built(p).paint
    OBVIOUS
  <1> HIDE DEF m
  <1>6. mesh' \in [Prims -> Shown] /\ mesh'[p] = m /\ \A q \in Prims : q # p => mesh'[q] = mesh[q]
    BY <1>1, <1>4
  <1>7. /\ verts' \in [Prims -> {NoColor} \cup Colors]
        /\ verts'[p] = IF p \in FaceColored THEN Built(p) ELSE verts[p]
        /\ \A q \in Prims : q # p => verts'[q] = verts[q]
    BY <1>1, <1>3
  <1> QED  BY <1>2, <1>5, <1>6, <1>7

\* What an upload of attributes leaves the device with.
LEMMA UpdatedFields ==
  ASSUME PrimVisAssumption, TypeOK, NEW p \in Prims, mesh[p].pose # None, vk[p].pose # None
  PROVE  /\ Updated(p) \in Shown
         /\ Updated(p).pose = IF "Pos" \in dirty[p] THEN mesh[p].pose ELSE vk[p].pose
         /\ Updated(p).key = IF "Color" \in dirty[p] THEN mesh[p].key ELSE vk[p].key
         /\ Updated(p).paint = IF "Color" \in dirty[p] THEN mesh[p].paint ELSE vk[p].paint
  <1>1. mesh[p] \in Shown /\ vk[p] \in Shown
    BY DEF TypeOK
  <1>2. /\ mesh[p].pose \in AllTcs \cup {First, Final} /\ vk[p].pose \in AllTcs \cup {First, Final}
        /\ mesh[p].key \in AllTcs /\ vk[p].key \in AllTcs
        /\ mesh[p].paint \in 0 .. MaxPaint /\ vk[p].paint \in 0 .. MaxPaint
    BY <1>1, ShownFields
  <1> QED  BY <1>2, ShownMember DEF Updated

\* The command of a rebuild leaves the device with the pose and the color of the mesh.
LEMMA MeshCmdEffect ==
  ASSUME PrimVisAssumption, IInv, NEW c \in BagToSet(cmds), RunMeshCmd(c)
  PROVE  /\ vk' \in [Prims -> Shown] /\ vk'[c.prim].pose = mesh[c.prim].pose
         /\ vk'[c.prim].key = mesh[c.prim].key
         /\ vk'[c.prim].paint = mesh[c.prim].paint \/ Overpainted(c.prim)
         /\ dirty' \in [Prims -> SUBSET Flags] /\ curTc' \in [Prims -> AllTcs]
         /\ curTc'[c.prim] = c.tc
         /\ mesh[c.prim].pose = Pose(c.prim, c.tc) /\ c.tc \in TimeCodes
         /\ \A q \in Prims : q # c.prim =>
              vk'[q] = vk[q] /\ dirty'[q] = dirty[q] /\ curTc'[q] = curTc[q]
  <1> DEFINE p == c.prim
             new == IF "Topo" \in dirty[p] THEN mesh[p]
                    ELSE IF dirty[p] \cap MaskAttrib # {} THEN Updated(p) ELSE vk[p]
  <1>1. /\ Take(c) /\ c.kind = "mesh"
        /\ vk' = [vk EXCEPT ![p] = new] /\ dirty' = [dirty EXCEPT ![p] = {}]
        /\ curTc' = IF "TimeCode" \in dirty[p] THEN [curTc EXCEPT ![p] = c.tc] ELSE curTc
    BY DEF RunMeshCmd
  <1>2. /\ p \in Prims /\ processing[p] /\ co[p].kind = "mesh" /\ co[p].tc = c.tc
        /\ co[p].at \in {"counted", "event", "done"}
    BY <1>1, RunFacts
  <1>3. mesh[p].pose = Pose(p, c.tc) /\ c.tc \in TimeCodes
    BY <1>2 DEF IInv, MeshInv
  <1>4. /\ mesh \in [Prims -> Shown] /\ vk \in [Prims -> Shown]
        /\ dirty \in [Prims -> SUBSET Flags] /\ curTc \in [Prims -> AllTcs]
        /\ c.tc \in AllTcs
    BY DEF IInv, TypeOK
  <1>5. /\ "TimeCode" \in dirty[p]
        /\ "Topo" \notin dirty[p] =>
             /\ "Pos" \in dirty[p] /\ vk[p].pose # None /\ mesh[p].pose # None
             /\ "Color" \notin dirty[p] =>
                  vk[p].key = mesh[p].key /\ (vk[p].paint = mesh[p].paint \/ Overpainted(p))
    BY <1>2 DEF IInv, RebuildInv, SameColor
  <1>6. /\ new \in Shown /\ new.pose = mesh[p].pose /\ new.key = mesh[p].key
        /\ new.paint = mesh[p].paint \/ Overpainted(p)
    <2>1. CASE "Topo" \in dirty[p]
      BY <1>2, <1>4, <2>1
    <2>2. CASE "Topo" \notin dirty[p]
      <3>1. new = Updated(p)
        BY <1>5, <2>2 DEF MaskAttrib
      <3>2. /\ Updated(p) \in Shown /\ Updated(p).pose = mesh[p].pose
            /\ Updated(p).key = mesh[p].key
            /\ Updated(p).paint = mesh[p].paint \/ Overpainted(p)
        BY <1>2, <1>5, <2>2, UpdatedFields DEF IInv
      <3> QED  BY <3>1, <3>2
    <2> QED  BY <2>1, <2>2
  <1> HIDE DEF new
  <1>7. vk'[p] = new
    BY <1>1, <1>2, <1>4
  <1> QED  BY <1>1, <1>2, <1>3, <1>4, <1>5, <1>6, <1>7

\* So does the command of an upload of attributes.
LEMMA AttribCmdEffect ==
  ASSUME PrimVisAssumption, IInv, NEW c \in BagToSet(cmds), RunAttribCmd(c)
  PROVE  /\ vk' \in [Prims -> Shown] /\ vk'[c.prim].pose = mesh[c.prim].pose
         /\ vk'[c.prim].key = mesh[c.prim].key
         /\ vk'[c.prim].paint = mesh[c.prim].paint \/ Overpainted(c.prim)
         /\ dirty' \in [Prims -> SUBSET Flags] /\ curTc' = curTc
         /\ mesh[c.prim].pose = Pose(c.prim, curTc[c.prim]) /\ curTc[c.prim] \in TimeCodes
         /\ \A q \in Prims : q # c.prim => vk'[q] = vk[q] /\ dirty'[q] = dirty[q]
  <1> DEFINE p == c.prim
  <1>1. /\ Take(c) /\ c.kind = "attrib" /\ curTc' = curTc
        /\ vk' = [vk EXCEPT ![p] = Updated(p)] /\ dirty' = [dirty EXCEPT ![p] = @ \ MaskAttrib]
    BY DEF RunAttribCmd
  <1>2. p \in Prims /\ co[p].kind = "attrib" /\ co[p].at \in {"counted", "event", "done"}
    BY <1>1, RunFacts
  <1>3. /\ mesh \in [Prims -> Shown] /\ vk \in [Prims -> Shown] /\ curTc \in [Prims -> AllTcs]
        /\ dirty \in [Prims -> SUBSET Flags]
    BY DEF IInv, TypeOK
  <1>4. /\ vk[p].pose = mesh[p].pose /\ vk[p].pose = Pose(p, curTc[p]) /\ curTc[p] \in TimeCodes
        /\ "Color" \notin dirty[p] =>
             vk[p].key = mesh[p].key /\ (vk[p].paint = mesh[p].paint \/ Overpainted(p))
    BY <1>2 DEF IInv, SettledInv, Settled, SameColor
  <1>5. vk[p].pose # None
    BY <1>2, <1>3, <1>4, PoseType
  <1>6. /\ Updated(p) \in Shown /\ Updated(p).pose = mesh[p].pose
        /\ Updated(p).key = mesh[p].key
        /\ Updated(p).paint = mesh[p].paint \/ Overpainted(p)
    BY <1>2, <1>4, <1>5, UpdatedFields DEF IInv
  <1>7. vk'[p] = Updated(p)
    BY <1>1, <1>2, <1>3
  <1> QED  BY <1>1, <1>2, <1>3, <1>4, <1>6, <1>7

\* What a query marks dirty: a rebuild has all the flags that its command needs.
LEMMA QueryEffect ==
  ASSUME PrimVisAssumption, IInv, NEW p \in Prims, NEW tc \in TimeCodes,
         QueryMesh(p, tc) \/ QueryAttrib(p, tc)
  PROVE  /\ dirty' \in [Prims -> SUBSET Flags] /\ dirty[p] \subseteq dirty'[p]
         /\ \A q \in Prims : q # p => dirty'[q] = dirty[q]
         /\ mesh' = mesh /\ vk' = vk /\ curTc' = curTc /\ verts' = verts
  <1>1. PICK new \in SUBSET Flags : dirty' = [dirty EXCEPT ![p] = dirty[p] \cup new]
    <2>1. Flagged(p, tc) \in SUBSET Flags /\ {f \in {"TimeCode"} : Moves(p, tc)} \in SUBSET Flags
      BY DEF Flagged, Flags
    <2>2. CASE QueryMesh(p, tc)
      <3>1. dirty' = [dirty EXCEPT ![p] = dirty[p]
                        \cup (Flagged(p, tc) \cup {f \in {"TimeCode"} : Moves(p, tc)})]
        BY <2>2, Zenon DEF QueryMesh
      <3> QED  BY <2>1, <3>1
    <2>3. CASE QueryAttrib(p, tc)
      BY <2>1, <2>3 DEF QueryAttrib
    <2> QED  BY <2>2, <2>3
  <1>2. dirty \in [Prims -> SUBSET Flags]
    BY DEF IInv, TypeOK
  <1>3. mesh' = mesh /\ vk' = vk /\ curTc' = curTc /\ verts' = verts
    BY DEF QueryMesh, QueryAttrib, Launch
  <1> QED  BY <1>1, <1>2, <1>3

\* A query that has a mesh rebuilt flags all that the rebuild changes.
LEMMA RebuildEffect ==
  ASSUME PrimVisAssumption, IInv, NEW p \in Prims, NEW tc \in TimeCodes,
         QueryMesh(p, tc), co[p].at # "none"
  PROVE  /\ "Pos" \in dirty'[p] /\ "TimeCode" \in dirty'[p]
         /\ p \in Keyed => "Color" \in dirty'[p]
         /\ Settled(p) /\ p \in Skel
  <1>1. Moves(p, tc) /\ p \in Skel
    BY DEF QueryMesh, Moves
  <1>2. Settled(p)
    BY DEF QueryMesh, Settled
  <1>3. curTc[p] \in TimeCodes /\ curTc[p] # tc
    BY <1>1, <1>2 DEF IInv, SettledInv, Moves
  <1>4. Segment(curTc[p]) = curTc[p] /\ Segment(tc) = tc
    BY <1>3 DEF Segment, PrimVisAssumption
  <1>5. "Pos" \in Flagged(p, tc) /\ (p \in Keyed => "Color" \in Flagged(p, tc))
    BY <1>1, <1>3, <1>4 DEF Flagged
  <1>6. dirty'[p] = (dirty[p] \cup Flagged(p, tc)) \cup {f \in {"TimeCode"} : Moves(p, tc)}
    BY DEF QueryMesh, IInv, TypeOK
  <1> QED  BY <1>1, <1>2, <1>5, <1>6

-----------------------------------------------------------------------------
(* What each step preserves.                                               *)

\* A call of queryVkTriMesh begins when the GUI thread is in none.
LEMMA GuiStep ==
  ASSUME PrimVisAssumption, IInv, Next
  PROVE  GuiInv'
  <1>1. ASSUME NEW p \in Prims, NEW tc \in TimeCodes, QueryMesh(p, tc) \/ QueryAttrib(p, tc)
        PROVE  GuiInv'
    <2>1. (\E kind \in Kinds : Launch(p, kind, tc)) /\ \A q \in Prims : ~OnGui(q)
      BY <1>1, QueryFacts
    <2>2. gui' = "call"
      BY <2>1 DEF Launch
    <2> QED  BY <2>1, <2>2, LaunchEffect DEF IInv, GuiInv, OnGui
  <1>2. ASSUME NEW p \in Prims, Paint(p) \/ Return(p)
        PROVE  GuiInv'
    BY <1>2 DEF IInv, GuiInv, OnGui, Paint, Return
  <1>3. ASSUME EndQueries \/ EndDrain \/ FlushTasks \/ FlushEvents
        PROVE  GuiInv'
    BY <1>3 DEF IInv, GuiInv, OnGui, EndQueries, EndDrain, FlushTasks, FlushEvents
  <1>4. ASSUME NEW c \in BagToSet(cmds), RunMeshCmd(c) \/ RunAttribCmd(c)
        PROVE  GuiInv'
    BY <1>4 DEF IInv, GuiInv, OnGui, RunMeshCmd, RunAttribCmd, Take
  <1>5. ASSUME NEW p \in Prims, Depart(p)
        PROVE  GuiInv'
    BY <1>5, AtEffect DEF IInv, GuiInv, OnGui, Depart, Stages
  <1>6. ASSUME NEW p \in Prims, Stay(p) \/ BeginBuild(p) \/ EndBuild(p) \/ FailBuild(p) \/
              Post(p) \/ Land(p) \/ Finish(p)
        PROVE  GuiInv'
    <2>1. gui' = gui /\ \E stage \in Stages :
            /\ At(p, stage)
            /\ stage # "start"
            /\ stage \in {"body", "posted", "counted"} /\ co[p].kind = "attrib" => OnGui(p)
      BY <1>6 DEF Stay, BeginBuild, EndBuild, FailBuild, Post, Land, Finish, Stages, OnGui, IInv,
                 MeshInv
    <2>2. \A q \in Prims : OnGui(q)' => OnGui(q)
      BY <2>1, AtEffect DEF IInv, OnGui
    <2> QED  BY <2>1, <2>2 DEF IInv, GuiInv
  <1>7. ASSUME NEW p \in Prims, Leave(p)
        PROVE  GuiInv'
    <2>1. At(p, "event") /\ "event" \in Stages
      BY <1>7 DEF Leave, Stages
    <2>2. ~OnGui(p)' /\ \A q \in Prims : q # p => OnGui(q)' = OnGui(q)
      BY <2>1, AtEffect DEF IInv, OnGui
    <2>3. co[p].kind # "mesh" => OnGui(p)
      BY <1>7 DEF Leave, OnGui, IInv, TypeOK
    <2>4. co[p].kind = "mesh" => gui' = gui
      BY <1>7 DEF Leave
    <2> QED  BY <2>2, <2>3, <2>4 DEF IInv, GuiInv
  <1> QED  BY <1>1, <1>2, <1>3, <1>4, <1>5, <1>6, <1>7
     DEF Next, Coroutine, Iteration

\* The coroutine of a queued command is not replaced, since its primitive is busy.
LEMMA CmdStep ==
  ASSUME PrimVisAssumption, IInv, Next
  PROVE  CmdInv'
  <1>1. ASSUME NEW p \in Prims, NEW tc \in TimeCodes, QueryMesh(p, tc) \/ QueryAttrib(p, tc)
        PROVE  CmdInv'
    <2>1. cmds' = cmds /\ \E kind \in Kinds : Launch(p, kind, tc)
      BY <1>1 DEF QueryMesh, QueryAttrib, Kinds, Launch
    <2>2. \A c \in BagToSet(cmds) : c.prim # p
      BY <1>1, QueryFacts DEF HasCmd
    <2>3. \A c \in BagToSet(cmds) : co'[c.prim] = co[c.prim]
      <3>1. \A q \in Prims : q # p => co'[q] = co[q]
        BY <2>1, LaunchEffect DEF IInv
      <3>2. \A c \in BagToSet(cmds) : c.prim \in Prims
        BY DEF IInv, TypeOK
      <3> QED  BY <2>2, <3>1, <3>2
    <2> QED  BY <2>1, <2>3 DEF IInv, CmdInv
  <1>2. ASSUME NEW p \in Prims, Paint(p) \/ Return(p)
        PROVE  CmdInv'
    BY <1>2 DEF IInv, CmdInv, Paint, Return
  <1>3. ASSUME EndQueries \/ EndDrain \/ FlushTasks \/ FlushEvents
        PROVE  CmdInv'
    BY <1>3 DEF IInv, CmdInv, EndQueries, EndDrain, FlushTasks, FlushEvents
  <1>4. ASSUME NEW c \in BagToSet(cmds), RunMeshCmd(c) \/ RunAttribCmd(c)
        PROVE  CmdInv'
    <2>1. BagToSet(cmds') \subseteq BagToSet(cmds) /\ co' = co
      BY <1>4, RunFacts DEF RunMeshCmd, RunAttribCmd, Take
    <2> QED  BY <2>1 DEF IInv, CmdInv
  <1>5. ASSUME NEW p \in Prims, Depart(p) \/ Stay(p) \/ BeginBuild(p) \/ EndBuild(p) \/
              FailBuild(p) \/ Land(p) \/ Leave(p) \/ Finish(p)
        PROVE  CmdInv'
    <2>1. cmds' = cmds /\ \E stage \in Stages :
            /\ At(p, stage)
            /\ co[p].at \in {"posted", "counted", "event", "done"} =>
                 stage \in {"posted", "counted", "event", "done"}
      BY <1>5 DEF Depart, Stay, BeginBuild, EndBuild, FailBuild, Land, Leave, Finish, Stages
    <2>2. \A q \in Prims : /\ co'[q].kind = co[q].kind /\ co'[q].tc = co[q].tc
                           /\ co[q].at \in {"posted", "counted", "event", "done"} =>
                                co'[q].at \in {"posted", "counted", "event", "done"}
      BY <2>1, AtEffect DEF IInv
    <2>3. \A c \in BagToSet(cmds) : c.prim \in Prims
      BY DEF IInv, TypeOK
    <2> QED  BY <2>1, <2>2, <2>3 DEF IInv, CmdInv
  <1>6. ASSUME NEW p \in Prims, Post(p)
        PROVE  CmdInv'
    <2> DEFINE new == [prim |-> p, kind |-> co[p].kind, tc |-> co[p].tc]
    <2>1. /\ \A q \in Prims : co'[q].kind = co[q].kind /\ co'[q].tc = co[q].tc
          /\ co'[p].at = "posted" /\ \A q \in Prims : q # p => co'[q].at = co[q].at
      BY <1>6, AtEffect DEF IInv, Post, Stages
    <2>2. \A c \in BagToSet(cmds) : c.prim # p /\ c.prim \in Prims
      BY <1>6 DEF IInv, CmdInv, TypeOK, Post
    <2>3. BagToSet(cmds') = BagToSet(cmds) \cup {new}
      <3>1. new \notin BagToSet(cmds)
        BY <2>2
      <3>2. IsABag(cmds) /\ cmds' = cmds (+) SetToBag({new})
        BY <1>6 DEF IInv, TypeOK, Post
      <3> HIDE DEF new
      <3> QED  BY <3>1, <3>2, AddCmd
    <2>4. \A c \in BagToSet(cmds) : co'[c.prim].at = co[c.prim].at
      BY <2>1, <2>2
    <2>5. new.prim = p /\ new = [prim |-> p, kind |-> co'[p].kind, tc |-> co'[p].tc]
      BY <2>1
    <2> HIDE DEF new
    <2>6. ASSUME NEW c \in BagToSet(cmds)
          PROVE  /\ c = [prim |-> c.prim, kind |-> co'[c.prim].kind, tc |-> co'[c.prim].tc]
                 /\ co'[c.prim].at \in {"posted", "counted", "event", "done"}
      BY <2>1, <2>2, <2>4 DEF IInv, CmdInv
    <2> QED  BY <2>1, <2>3, <2>5, <2>6 DEF CmdInv
  <1> QED  BY <1>1, <1>2, <1>3, <1>4, <1>5, <1>6
     DEF Next, Coroutine, Iteration

\* The flag rises with the coroutine and falls with its command.
LEMMA FlagStep ==
  ASSUME PrimVisAssumption, IInv, Next
  PROVE  FlagInv'
  <1>1. ASSUME NEW p \in Prims, NEW tc \in TimeCodes, QueryMesh(p, tc) \/ QueryAttrib(p, tc)
        PROVE  FlagInv'
    <2>1. cmds' = cmds /\ \E kind \in Kinds : Launch(p, kind, tc)
      BY <1>1, QueryFacts DEF Launch
    <2>2. \A q \in Prims : HasCmd(q)' = HasCmd(q)
      BY <2>1 DEF HasCmd
    <2>3. /\ co'[p].at = "start" /\ processing'[p]
          /\ \A q \in Prims : q # p => co'[q] = co[q] /\ processing'[q] = processing[q]
      BY <2>1, LaunchEffect DEF IInv
    <2> QED  BY <2>2, <2>3 DEF IInv, FlagInv, Preparing
  <1>2. ASSUME NEW p \in Prims, Paint(p) \/ Return(p)
        PROVE  FlagInv'
    BY <1>2 DEF IInv, FlagInv, Preparing, HasCmd, Paint, Return
  <1>3. ASSUME EndQueries \/ EndDrain \/ FlushTasks \/ FlushEvents
        PROVE  FlagInv'
    BY <1>3 DEF IInv, FlagInv, Preparing, HasCmd, EndQueries, EndDrain, FlushTasks, FlushEvents
  <1>4. ASSUME NEW c \in BagToSet(cmds), RunMeshCmd(c) \/ RunAttribCmd(c)
        PROVE  FlagInv'
    <2>1. Take(c) /\ co' = co
      BY <1>4 DEF RunMeshCmd, RunAttribCmd, Take
    <2>2. /\ processing'[c.prim] = FALSE /\ c.prim \in Prims
          /\ \A q \in Prims : q # c.prim => processing'[q] = processing[q]
      BY <2>1, RunFacts DEF Take, IInv, TypeOK
    <2>3. ~HasCmd(c.prim)' /\ \A q \in Prims : q # c.prim => HasCmd(q)' = HasCmd(q)
      BY <2>1, RunFacts DEF HasCmd
    <2>4. co[c.prim].at \in {"counted", "event", "done"}
      BY <2>1, RunFacts
    <2> QED  BY <2>1, <2>2, <2>3, <2>4 DEF IInv, FlagInv, Preparing
  <1>5. ASSUME NEW p \in Prims, Depart(p) \/ Stay(p) \/ BeginBuild(p) \/ EndBuild(p) \/
              FailBuild(p) \/ Land(p) \/ Leave(p) \/ Finish(p)
        PROVE  FlagInv'
    <2> DEFINE Before(at) == at \in {"start", "queued", "building", "body", "failed"}
    <2>1. processing' = processing /\ cmds' = cmds /\ \E stage \in Stages :
            At(p, stage) /\ stage # "posted" /\ (Before(stage) <=> Before(co[p].at))
      BY <1>5 DEF Depart, Stay, BeginBuild, EndBuild, FailBuild, Land, Leave, Finish, Stages
    <2>2. \A q \in Prims : /\ Before(co'[q].at) <=> Before(co[q].at)
                           /\ co'[q].at = "posted" => co[q].at = "posted"
      BY <2>1, AtEffect DEF IInv
    <2>3. \A q \in Prims : HasCmd(q)' = HasCmd(q)
      BY <2>1 DEF HasCmd
    <2> QED  BY <2>1, <2>2, <2>3 DEF IInv, FlagInv, Preparing
  <1>6. ASSUME NEW p \in Prims, Post(p)
        PROVE  FlagInv'
    <2> DEFINE new == [prim |-> p, kind |-> co[p].kind, tc |-> co[p].tc]
    <2>1. processing' = processing /\ co[p].at = "body" /\ co'[p].at = "posted"
          /\ \A q \in Prims : q # p => co'[q] = co[q]
      BY <1>6, AtEffect DEF IInv, Post, Stages
    <2>2. \A c \in BagToSet(cmds) : c.prim # p
      BY <2>1 DEF IInv, CmdInv
    <2>3. BagToSet(cmds') = BagToSet(cmds) \cup {new} /\ new.prim = p
      BY <1>6, <2>2, AddCmd DEF IInv, TypeOK, Post
    <2> HIDE DEF new
    <2>4. HasCmd(p)' /\ \A q \in Prims : q # p => HasCmd(q)' = HasCmd(q)
      BY <2>3 DEF HasCmd
    <2> QED  BY <2>1, <2>4 DEF IInv, FlagInv, Preparing
  <1> QED  BY <1>1, <1>2, <1>3, <1>4, <1>5, <1>6
     DEF Next, Coroutine, Iteration

\* A coroutine is not replaced before its worker has returned.
LEMMA ReturnStep ==
  ASSUME PrimVisAssumption, IInv, Next
  PROVE  ReturnInv'
  <1>1. ASSUME NEW p \in Prims, NEW tc \in TimeCodes, QueryMesh(p, tc) \/ QueryAttrib(p, tc)
        PROVE  ReturnInv'
    <2>1. returning' = returning /\ p \notin returning /\ \E kind \in Kinds : Launch(p, kind, tc)
      BY <1>1, QueryFacts DEF Launch
    <2>2. \A q \in Prims : q # p => co'[q] = co[q]
      BY <2>1, LaunchEffect DEF IInv
    <2> QED  BY <2>1, <2>2 DEF IInv, TypeOK, ReturnInv
  <1>2. ASSUME NEW p \in Prims, Paint(p) \/ Return(p)
        PROVE  ReturnInv'
    BY <1>2 DEF IInv, ReturnInv, Paint, Return
  <1>3. ASSUME EndQueries \/ EndDrain \/ FlushTasks \/ FlushEvents
        PROVE  ReturnInv'
    BY <1>3 DEF IInv, ReturnInv, EndQueries, EndDrain, FlushTasks, FlushEvents
  <1>4. ASSUME NEW c \in BagToSet(cmds), RunMeshCmd(c) \/ RunAttribCmd(c)
        PROVE  ReturnInv'
    BY <1>4 DEF IInv, ReturnInv, RunMeshCmd, RunAttribCmd, Take
  <1>5. ASSUME NEW p \in Prims, Depart(p) \/ Stay(p) \/ BeginBuild(p) \/ EndBuild(p) \/
              FailBuild(p) \/ Post(p) \/ Land(p) \/ Finish(p)
        PROVE  ReturnInv'
    <2>1. returning' = returning /\ \E stage \in Stages :
            At(p, stage) /\ (co[p].at \in {"event", "done"} => stage \in {"event", "done"})
      BY <1>5 DEF Depart, Stay, BeginBuild, EndBuild, FailBuild, Post, Land, Finish, Stages
    <2>2. \A q \in Prims : /\ co'[q].kind = co[q].kind
                           /\ co[q].at \in {"event", "done"} => co'[q].at \in {"event", "done"}
      BY <2>1, AtEffect DEF IInv
    <2> QED  BY <2>1, <2>2 DEF IInv, TypeOK, ReturnInv
  <1>6. ASSUME NEW p \in Prims, Leave(p)
        PROVE  ReturnInv'
    <2>1. /\ co'[p].at = "event" /\ co'[p].kind = co[p].kind
          /\ \A q \in Prims : q # p => co'[q] = co[q]
      BY <1>6, AtEffect DEF IInv, Leave, Stages
    <2>2. /\ co[p].kind = "mesh" => returning' = returning \cup {p}
          /\ co[p].kind # "mesh" => returning' = returning
      BY <1>6 DEF Leave
    <2> QED  BY <2>1, <2>2 DEF IInv, TypeOK, ReturnInv
  <1> QED  BY <1>1, <1>2, <1>3, <1>4, <1>5, <1>6
     DEF Next, Coroutine, Iteration

\* Only waits for both schedulers let the GUI query again.
LEMMA FlushStep ==
  ASSUME PrimVisAssumption, IInv, Next
  PROVE  FlushInv'
  <1>1. ASSUME NEW p \in Prims, NEW tc \in TimeCodes, QueryMesh(p, tc) \/ QueryAttrib(p, tc)
        PROVE  FlushInv'
    <2>1. /\ \E kind \in Kinds : Launch(p, kind, tc)
          /\ gui = "query" /\ gui' = "call" /\ returning' = returning
      BY <1>1, QueryFacts DEF Launch
    <2>2. /\ processing'[p]
          /\ \A q \in Prims : q # p => co'[q] = co[q] /\ processing'[q] = processing[q]
      BY <2>1, LaunchEffect DEF IInv
    <2> QED  BY <2>1, <2>2 DEF IInv, FlushInv
  <1>2. ASSUME NEW p \in Prims, Paint(p) \/ Return(p)
        PROVE  FlushInv'
    BY <1>2 DEF IInv, FlushInv, TaskJobs, Paint, Return
  <1>3. ASSUME NEW p \in Prims, Depart(p) \/ Stay(p) \/ BeginBuild(p) \/ EndBuild(p) \/
              FailBuild(p) \/ Post(p) \/ Land(p) \/ Leave(p)
        PROVE  FlushInv'
    <2>1. /\ processing' = processing
          /\ co[p].at \notin {"none", "event", "done", "failed"}
          /\ returning' = returning \/ returning' = returning \cup {p}
          /\ \A q \in Prims : q # p => co'[q] = co[q]
      BY <1>3, AtEffect DEF Depart, Stay, BeginBuild, EndBuild, FailBuild, Post, Land, Leave,
                           Stages, IInv
    <2>2. gui # "flushEvents"
      BY <2>1, FlushFacts
    <2>3. OnGui(p) => gui = "call"
      BY DEF IInv, GuiInv
    <2>4. co[p].at = "start" => OnGui(p)
      BY DEF OnGui
    <2>5. co[p].at = "counted" /\ co[p].kind # "mesh" => OnGui(p)
      BY DEF OnGui, IInv, TypeOK
    <2>6. gui' # gui => gui = "call" /\ gui' = "query"
      BY <1>3, <2>3, <2>4, <2>5 DEF Depart, Stay, BeginBuild, EndBuild, FailBuild, Post, Land,
                                   Leave
    <2> QED  BY <2>1, <2>2, <2>6 DEF IInv, FlushInv
  <1>4. ASSUME NEW p \in Prims, Finish(p)
        PROVE  FlushInv'
    <2>1. /\ processing' = processing /\ gui' = gui /\ returning' = returning
          /\ co[p].at = "event" /\ co'[p].at = "done"
          /\ \A q \in Prims : q # p => co'[q] = co[q]
      BY <1>4, AtEffect DEF Finish, Stages, IInv
    <2>2. TaskJobs' \subseteq TaskJobs
      BY <2>1 DEF TaskJobs
    <2> QED  BY <2>1, <2>2 DEF IInv, FlushInv
  <1>5. ASSUME EndQueries \/ EndDrain
        PROVE  FlushInv'
    BY <1>5 DEF FlushInv, EndQueries, EndDrain
  <1>6. ASSUME FlushTasks
        PROVE  FlushInv'
    BY <1>6 DEF FlushInv, TaskJobs, FlushTasks
  <1>7. ASSUME FlushEvents
        PROVE  FlushInv'
    <2>1. ASSUME NEW q \in Prims, ~processing[q]
          PROVE  co[q].at \in {"none", "done"} /\ q \notin returning
      <3>1. co[q].at # "failed"
        BY <2>1 DEF IInv, FlagInv
      <3>2. co[q].at # "event"
        BY <1>7 DEF FlushEvents, EventJobs
      <3> QED  BY <1>7, <3>1, <3>2, FlushFacts DEF FlushEvents
    <2> QED  BY <1>7, <2>1 DEF FlushEvents, FlushInv
  <1>8. ASSUME NEW c \in BagToSet(cmds), RunMeshCmd(c) \/ RunAttribCmd(c)
        PROVE  FlushInv'
    BY <1>8 DEF FlushInv, RunMeshCmd, RunAttribCmd, Take
  <1> QED  BY <1>1, <1>2, <1>3, <1>4, <1>5, <1>6, <1>7, <1>8
     DEF Next, Coroutine, Iteration

\* The count changes as coroutines take off and land.
LEMMA CountStep ==
  ASSUME PrimVisAssumption, IInv, Next
  PROVE  CountInv'
  <1>1. ASSUME NEW p \in Prims, NEW tc \in TimeCodes, QueryMesh(p, tc) \/ QueryAttrib(p, tc)
        PROVE  CountInv'
    <2>1. inFlight' = inFlight + 1 /\ p \notin Flying /\ \E kind \in Kinds : Launch(p, kind, tc)
      BY <1>1, QueryFacts DEF Launch
    <2>2. co'[p].at = "start" /\ \A q \in Prims : q # p => co'[q] = co[q]
      BY <2>1, LaunchEffect DEF IInv
    <2>3. Flying' = Flying \cup {p}
      BY <2>2 DEF Flying, Preparing
    <2>4. Cardinality(Flying \cup {p}) = Cardinality(Flying) + 1
      BY <2>1, FlyingFinite, FS_AddElement
    <2> QED  BY <2>1, <2>3, <2>4 DEF IInv, CountInv
  <1>2. ASSUME NEW p \in Prims, Land(p)
        PROVE  CountInv'
    <2>1. inFlight' = inFlight - 1 /\ co[p].at = "posted" /\ co'[p].at = "counted"
          /\ \A q \in Prims : q # p => co'[q] = co[q]
      BY <1>2, AtEffect DEF IInv, Land, Stages
    <2>2. p \in Flying /\ Flying' = Flying \ {p}
      BY <2>1 DEF Flying, Preparing
    <2>3. Cardinality(Flying \ {p}) = Cardinality(Flying) - 1
      BY <2>2, FlyingFinite, FS_RemoveElement
    <2> QED  BY <2>1, <2>2, <2>3 DEF IInv, CountInv
  <1>3. ASSUME NEW p \in Prims, Depart(p) \/ Stay(p) \/ BeginBuild(p) \/ EndBuild(p) \/
              FailBuild(p) \/ Post(p) \/ Leave(p) \/ Finish(p)
        PROVE  CountInv'
    <2> DEFINE Before(at) ==
                 at \in {"start", "queued", "building", "body", "posted", "failed"}
    <2>1. inFlight' = inFlight /\ \E stage \in Stages :
            At(p, stage) /\ (Before(stage) <=> Before(co[p].at))
      BY <1>3 DEF Depart, Stay, BeginBuild, EndBuild, FailBuild, Post, Leave, Finish, Stages
    <2>2. \A q \in Prims : Before(co'[q].at) <=> Before(co[q].at)
      BY <2>1, AtEffect DEF IInv
    <2>3. Flying' = Flying
      BY <2>2 DEF Flying, Preparing
    <2> QED  BY <2>1, <2>3 DEF IInv, CountInv
  <1>4. ASSUME NEW p \in Prims, Paint(p) \/ Return(p)
        PROVE  CountInv'
    BY <1>4 DEF IInv, CountInv, Flying, Preparing, Paint, Return
  <1>5. ASSUME EndQueries \/ EndDrain \/ FlushTasks \/ FlushEvents
        PROVE  CountInv'
    BY <1>5 DEF IInv, CountInv, Flying, Preparing, EndQueries, EndDrain, FlushTasks, FlushEvents
  <1>6. ASSUME NEW c \in BagToSet(cmds), RunMeshCmd(c) \/ RunAttribCmd(c)
        PROVE  CountInv'
    BY <1>6 DEF IInv, CountInv, Flying, Preparing, RunMeshCmd, RunAttribCmd, Take
  <1> QED  BY <1>1, <1>2, <1>3, <1>4, <1>5, <1>6
     DEF Next, Coroutine, Iteration

\* The change of the count and the emission of it are two steps of a coroutine.
LEMMA SignalStep ==
  ASSUME PrimVisAssumption, IInv, Next
  PROVE  SignalInv'
  <1>1. ASSUME NEW p \in Prims, NEW tc \in TimeCodes, QueryMesh(p, tc) \/ QueryAttrib(p, tc)
        PROVE  SignalInv'
    <2>1. /\ \E kind \in Kinds : Launch(p, kind, tc)
          /\ \A q \in Prims : q # p => signal'[q] = signal[q]
      BY <1>1, QueryFacts DEF Launch, IInv, TypeOK
    <2>2. co'[p].at = "start" /\ \A q \in Prims : q # p => co'[q] = co[q]
      BY <2>1, LaunchEffect DEF IInv
    <2> QED  BY <2>1, <2>2 DEF IInv, SignalInv
  <1>2. ASSUME NEW p \in Prims, Land(p)
        PROVE  SignalInv'
    <2>1. /\ co'[p].at = "counted"
          /\ \A q \in Prims : q # p => co'[q] = co[q] /\ signal'[q] = signal[q]
      BY <1>2, AtEffect DEF IInv, TypeOK, Land, Stages
    <2> QED  BY <2>1 DEF IInv, SignalInv
  <1>3. ASSUME NEW p \in Prims, Depart(p) \/ Stay(p) \/ Leave(p)
        PROVE  SignalInv'
    <2>1. signal'[p] = 0 /\ \A q \in Prims : q # p => signal'[q] = signal[q]
      BY <1>3 DEF Depart, Stay, Leave, Emit, IInv, TypeOK
    <2>2. \A q \in Prims : q # p => co'[q] = co[q]
      BY <1>3, AtEffect DEF Depart, Stay, Leave, IInv, Stages
    <2> QED  BY <2>1, <2>2 DEF IInv, SignalInv
  <1>4. ASSUME NEW p \in Prims, BeginBuild(p) \/ EndBuild(p) \/ FailBuild(p) \/ Post(p) \/
              Finish(p)
        PROVE  SignalInv'
    <2>1. signal' = signal /\ co[p].at \notin {"start", "counted"}
      BY <1>4 DEF BeginBuild, EndBuild, FailBuild, Post, Finish
    <2>2. \A q \in Prims : q # p => co'[q] = co[q]
      BY <1>4, AtEffect DEF BeginBuild, EndBuild, FailBuild, Post, Finish, IInv, Stages
    <2> QED  BY <2>1, <2>2 DEF IInv, SignalInv
  <1>5. ASSUME NEW p \in Prims, Paint(p) \/ Return(p)
        PROVE  SignalInv'
    BY <1>5 DEF IInv, SignalInv, Paint, Return
  <1>6. ASSUME EndQueries \/ EndDrain \/ FlushTasks \/ FlushEvents
        PROVE  SignalInv'
    BY <1>6 DEF IInv, SignalInv, EndQueries, EndDrain, FlushTasks, FlushEvents
  <1>7. ASSUME NEW c \in BagToSet(cmds), RunMeshCmd(c) \/ RunAttribCmd(c)
        PROVE  SignalInv'
    BY <1>7 DEF IInv, SignalInv, RunMeshCmd, RunAttribCmd, Take
  <1> QED  BY <1>1, <1>2, <1>3, <1>4, <1>5, <1>6, <1>7
     DEF Next, Coroutine, Iteration

\* The sum of the owed emissions after the one of p has changed.
LEMMA SignalSum ==
  ASSUME PrimVisAssumption, NEW p \in Prims, NEW v \in {-1, 0, 1},
         \A q \in Prims : signal[q] \in {-1, 0, 1}, signal'[p] = v,
         \A q \in Prims \ {p} : signal[q] = signal'[q]
  PROVE  Total(signal', Prims) = Total(signal, Prims) - signal[p] + v
         /\ Total(signal, Prims) \in Int
  <1>1. \A q \in Prims : signal[q] \in Int /\ signal'[q] \in Int
    OBVIOUS
  <1>2. IsFiniteSet(Prims)
    BY DEF PrimVisAssumption
  <1>3. Total(signal', Prims) = Total(signal, Prims) - signal[p] + signal'[p]
        /\ Total(signal, Prims) \in Int
    BY <1>1, <1>2, SumChange
  <1> QED  BY <1>1, <1>3

\* An emission moves what is owed to what was received.
LEMMA HeardStep ==
  ASSUME PrimVisAssumption, IInv, Next
  PROVE  HeardInv'
  <1>1. ASSUME NEW p \in Prims, NEW tc \in TimeCodes, QueryMesh(p, tc) \/ QueryAttrib(p, tc)
        PROVE  HeardInv'
    <2>1. /\ \E kind \in Kinds : Launch(p, kind, tc)
          /\ co[p].at \in {"none", "done"}
      BY <1>1, QueryFacts
    <2>2. signal[p] = 0 /\ inFlight \in Nat /\ heard \in Int
      BY <2>1, FlyingFinite DEF IInv, SignalInv, TypeOK, CountInv
    <2>3. /\ inFlight' = inFlight + 1 /\ heard' = heard
          /\ signal'[p] = IF inFlight = 0 THEN 1 ELSE 0
          /\ \A q \in Prims : q # p => signal[q] = signal'[q]
      BY <2>1 DEF Launch, IInv, TypeOK
    <2>4. /\ Total(signal', Prims) = Total(signal, Prims) + (IF inFlight = 0 THEN 1 ELSE 0)
          /\ Total(signal, Prims) \in Int
      BY <2>2, <2>3, SignalSum DEF IInv, TypeOK
    <2> QED  BY <2>2, <2>3, <2>4 DEF IInv, HeardInv
  <1>2. ASSUME NEW p \in Prims, Land(p)
        PROVE  HeardInv'
    <2>1. signal[p] = 0 /\ p \in Flying
      BY <1>2 DEF IInv, SignalInv, Land, Flying
    <2>2. inFlight \in Nat /\ inFlight # 0 /\ heard \in Int
      BY <2>1, FlyingFinite DEF IInv, TypeOK, CountInv
    <2>3. /\ inFlight' = inFlight - 1 /\ heard' = heard
          /\ signal'[p] = IF inFlight = 1 THEN -1 ELSE 0
          /\ \A q \in Prims : q # p => signal[q] = signal'[q]
      BY <1>2 DEF Land, IInv, TypeOK
    <2>4. /\ Total(signal', Prims) = Total(signal, Prims) + (IF inFlight = 1 THEN -1 ELSE 0)
          /\ Total(signal, Prims) \in Int
      BY <2>1, <2>3, SignalSum DEF IInv, TypeOK
    <2> QED  BY <2>2, <2>3, <2>4 DEF IInv, HeardInv
  <1>3. ASSUME NEW p \in Prims, Depart(p) \/ Stay(p) \/ Leave(p)
        PROVE  HeardInv'
    <2>1. /\ inFlight' = inFlight /\ heard' = heard + signal[p]
          /\ signal'[p] = 0 /\ \A q \in Prims : q # p => signal[q] = signal'[q]
      BY <1>3 DEF Depart, Stay, Leave, Emit, IInv, TypeOK
    <2>2. heard \in Int /\ signal[p] \in Int /\ signal \in [Prims -> {-1, 0, 1}]
      BY DEF IInv, TypeOK
    <2>3. Total(signal', Prims) = Total(signal, Prims) - signal[p] /\ Total(signal, Prims) \in Int
      BY <2>1, <2>2, SignalSum
    <2> QED  BY <2>1, <2>2, <2>3 DEF IInv, HeardInv
  <1>4. ASSUME NEW p \in Prims, BeginBuild(p) \/ EndBuild(p) \/ FailBuild(p) \/ Post(p) \/
              Finish(p)
        PROVE  HeardInv'
    BY <1>4 DEF IInv, HeardInv, BeginBuild, EndBuild, FailBuild, Post, Finish
  <1>5. ASSUME NEW p \in Prims, Paint(p) \/ Return(p)
        PROVE  HeardInv'
    BY <1>5 DEF IInv, HeardInv, Paint, Return
  <1>6. ASSUME EndQueries \/ EndDrain \/ FlushTasks \/ FlushEvents
        PROVE  HeardInv'
    BY <1>6 DEF IInv, HeardInv, EndQueries, EndDrain, FlushTasks, FlushEvents
  <1>7. ASSUME NEW c \in BagToSet(cmds), RunMeshCmd(c) \/ RunAttribCmd(c)
        PROVE  HeardInv'
    BY <1>7 DEF IInv, HeardInv, RunMeshCmd, RunAttribCmd, Take
  <1> QED  BY <1>1, <1>2, <1>3, <1>4, <1>5, <1>6, <1>7
     DEF Next, Coroutine, Iteration

\* A rebuild leaves the mesh in the pose that was asked for.
LEMMA MeshStep ==
  ASSUME PrimVisAssumption, IInv, Next
  PROVE  MeshInv'
  <1>1. ASSUME NEW p \in Prims, NEW tc \in TimeCodes, QueryMesh(p, tc) \/ QueryAttrib(p, tc)
        PROVE  MeshInv'
    <2>1. \E kind \in Kinds : Launch(p, kind, tc)
      BY <1>1, QueryFacts
    <2>2. /\ co'[p].at = "start" /\ co'[p].tc = tc
          /\ \A q \in Prims : q # p => co'[q] = co[q]
      BY <2>1, LaunchEffect DEF IInv
    <2> QED  BY <1>1, <2>2, QueryEffect DEF IInv, MeshInv
  <1>2. ASSUME NEW p \in Prims, Paint(p)
        PROVE  MeshInv'
    <2>1. co' = co /\ \A q \in Prims : dirty[q] \subseteq Flags
      BY <1>2 DEF Paint, IInv, TypeOK
    <2>2. dirty[p] = Flags => dirty[p] \cup {"Color"} = Flags
      BY DEF Flags
    <2>3. \A q \in Prims : dirty[q] = Flags => dirty'[q] = Flags
      BY <1>2, <2>2, PaintEffect DEF IInv
    <2>4. \A q \in Prims : mesh'[q].pose = mesh[q].pose
      BY <1>2, PaintEffect DEF IInv
    <2> QED  BY <2>1, <2>3, <2>4 DEF IInv, MeshInv
  <1>3. ASSUME NEW p \in Prims, Depart(p) \/ Stay(p) \/ BeginBuild(p) \/ FailBuild(p) \/
              Post(p) \/ Land(p) \/ Leave(p) \/ Finish(p)
        PROVE  MeshInv'
    <2>1. dirty' = dirty /\ mesh' = mesh /\ co[p].at # "none" /\ \E stage \in Stages :
            /\ At(p, stage) /\ stage # "none"
            /\ stage \in {"queued", "building", "failed"} => co[p].kind = "mesh"
            /\ co[p].kind = "mesh" /\ stage \in {"body", "posted", "counted", "event", "done"} =>
                 co[p].at \in {"body", "posted", "counted", "event", "done"}
      BY <1>3 DEF Depart, Stay, BeginBuild, FailBuild, Post, Land, Leave, Finish, Stages, IInv,
                 MeshInv
    <2> QED  BY <2>1, AtEffect DEF IInv, MeshInv
  <1>4. ASSUME NEW p \in Prims, EndBuild(p)
        PROVE  MeshInv'
    <2>1. /\ dirty' = dirty /\ co[p].at = "building" /\ co'[p].at = "body"
          /\ co'[p].kind = co[p].kind /\ co'[p].tc = co[p].tc
          /\ \A q \in Prims : q # p => co'[q] = co[q]
      BY <1>4, AtEffect DEF EndBuild, Stages, IInv
    <2> QED  BY <1>4, <2>1, BuildEffect DEF IInv, MeshInv
  <1>5. ASSUME NEW p \in Prims, Return(p)
        PROVE  MeshInv'
    BY <1>5 DEF IInv, MeshInv, Return
  <1>6. ASSUME EndQueries \/ EndDrain \/ FlushTasks \/ FlushEvents
        PROVE  MeshInv'
    BY <1>6 DEF IInv, MeshInv, EndQueries, EndDrain, FlushTasks, FlushEvents
  <1>7. ASSUME NEW c \in BagToSet(cmds), RunMeshCmd(c) \/ RunAttribCmd(c)
        PROVE  MeshInv'
    <2>1. Take(c) /\ co' = co /\ mesh' = mesh
      BY <1>7 DEF RunMeshCmd, RunAttribCmd, Take
    <2>2. co[c.prim].at \in {"counted", "event", "done"} /\ c.prim \in Prims
      BY <2>1, RunFacts
    <2>3. \A q \in Prims : q # c.prim => dirty'[q] = dirty[q]
      BY <1>7, MeshCmdEffect, AttribCmdEffect
    <2> QED  BY <2>1, <2>2, <2>3 DEF IInv, MeshInv
  <1> QED  BY <1>1, <1>2, <1>3, <1>4, <1>5, <1>6, <1>7
     DEF Next, Coroutine, Iteration

\* Between two rebuilds the device and the mesh differ by what the flags say.
LEMMA SettledStep ==
  ASSUME PrimVisAssumption, IInv, Next
  PROVE  SettledInv'
  <1>1. ASSUME NEW p \in Prims, NEW tc \in TimeCodes, QueryMesh(p, tc)
        PROVE  SettledInv'
    <2>1. Launch(p, "mesh", tc) /\ "mesh" \in Kinds
      BY <1>1 DEF QueryMesh, Kinds
    <2>2. /\ co'[p].kind = "mesh" /\ processing'[p]
          /\ \A q \in Prims : q # p => co'[q] = co[q] /\ processing'[q] = processing[q]
      BY <2>1, LaunchEffect DEF IInv
    <2>3. ~Settled(p)' /\ \A q \in Prims : q # p => Settled(q)' = Settled(q)
      BY <2>2 DEF Settled
    <2> QED  BY <1>1, <2>3, QueryEffect DEF IInv, SettledInv, SameColor, Overpainted
  <1>2. ASSUME NEW p \in Prims, NEW tc \in TimeCodes, QueryAttrib(p, tc)
        PROVE  SettledInv'
    <2>1. /\ Launch(p, "attrib", tc) /\ "attrib" \in Kinds
          /\ co[p].at # "none" /\ ~processing[p]
      BY <1>2 DEF QueryAttrib, Kinds
    <2>2. \A q \in Prims : q # p => co'[q] = co[q] /\ processing'[q] = processing[q]
      BY <2>1, LaunchEffect DEF IInv
    <2>3. Settled(p) /\ \A q \in Prims : q # p => Settled(q)' = Settled(q)
      BY <2>1, <2>2 DEF Settled
    <2>4. "Color" \notin dirty'[p] => "Color" \notin dirty[p]
      BY <1>2, QueryEffect
    <2> QED  BY <1>2, <2>3, <2>4, QueryEffect DEF IInv, SettledInv, SameColor, Overpainted
  <1>3. ASSUME NEW p \in Prims, Paint(p)
        PROVE  SettledInv'
    <2>1. co' = co /\ processing' = processing /\ vk' = vk /\ curTc' = curTc
      BY <1>3 DEF Paint
    <2>2. \A q \in Prims : Settled(q)' = Settled(q)
      BY <2>1 DEF Settled
    <2> QED  BY <1>3, <2>1, <2>2, PaintEffect DEF IInv, SettledInv, SameColor, Overpainted
  <1>4. ASSUME NEW p \in Prims, Depart(p) \/ Stay(p) \/ BeginBuild(p) \/ FailBuild(p) \/
              Post(p) \/ Land(p) \/ Leave(p) \/ Finish(p)
        PROVE  SettledInv'
    <2>1. /\ processing' = processing /\ dirty' = dirty /\ mesh' = mesh /\ vk' = vk
          /\ curTc' = curTc /\ co[p].at # "none" /\ \E stage \in Stages : At(p, stage)
      BY <1>4 DEF Depart, Stay, BeginBuild, FailBuild, Post, Land, Leave, Finish, Stages
    <2>2. \A q \in Prims : Settled(q)' => Settled(q)
      BY <2>1, AtEffect DEF IInv, Settled
    <2> QED  BY <2>1, <2>2 DEF IInv, SettledInv, SameColor, Overpainted
  <1>5. ASSUME NEW p \in Prims, EndBuild(p)
        PROVE  SettledInv'
    <2>1. /\ processing' = processing /\ dirty' = dirty /\ vk' = vk /\ curTc' = curTc
          /\ co[p].at = "building" /\ co'[p].kind = co[p].kind
          /\ \A q \in Prims : q # p => co'[q] = co[q]
      BY <1>5, AtEffect DEF EndBuild, Stages, IInv
    <2>2. processing[p] /\ co[p].kind = "mesh"
      BY <2>1 DEF IInv, FlagInv, Preparing, MeshInv
    <2>3. ~Settled(p)' /\ \A q \in Prims : q # p => Settled(q)' = Settled(q)
      BY <2>1, <2>2 DEF Settled
    <2> QED  BY <1>5, <2>1, <2>3, BuildEffect DEF IInv, SettledInv, SameColor, Overpainted
  <1>6. ASSUME NEW p \in Prims, Return(p)
        PROVE  SettledInv'
    BY <1>6 DEF IInv, SettledInv, SameColor, Overpainted, Settled, Return
  <1>7. ASSUME EndQueries \/ EndDrain \/ FlushTasks \/ FlushEvents
        PROVE  SettledInv'
    BY <1>7 DEF IInv, SettledInv, SameColor, Overpainted, Settled, EndQueries,
                   EndDrain, FlushTasks, FlushEvents
  <1>8. ASSUME NEW c \in BagToSet(cmds), RunMeshCmd(c)
        PROVE  SettledInv'
    <2>1. Take(c) /\ co' = co /\ mesh' = mesh
      BY <1>8 DEF RunMeshCmd, Take
    <2>2. /\ c.prim \in Prims
          /\ \A q \in Prims : q # c.prim => processing'[q] = processing[q]
      BY <2>1, RunFacts DEF Take, IInv, TypeOK
    <2>3. \A q \in Prims : q # c.prim => Settled(q)' = Settled(q)
      BY <2>1, <2>2 DEF Settled
    <2> QED  BY <1>8, <2>1, <2>2, <2>3, MeshCmdEffect DEF IInv, SettledInv, SameColor, Overpainted
  <1>9. ASSUME NEW c \in BagToSet(cmds), RunAttribCmd(c)
        PROVE  SettledInv'
    <2>1. Take(c) /\ co' = co /\ mesh' = mesh
      BY <1>9 DEF RunAttribCmd, Take
    <2>2. /\ c.prim \in Prims
          /\ \A q \in Prims : q # c.prim => processing'[q] = processing[q]
      BY <2>1, RunFacts DEF Take, IInv, TypeOK
    <2>3. \A q \in Prims : q # c.prim => Settled(q)' = Settled(q)
      BY <2>1, <2>2 DEF Settled
    <2> QED  BY <1>9, <2>1, <2>2, <2>3, AttribCmdEffect DEF IInv, SettledInv, SameColor, Overpainted
  <1> QED  BY <1>1, <1>2, <1>3, <1>4, <1>5, <1>6, <1>7, <1>8, <1>9
     DEF Next, Coroutine, Iteration

\* During a rebuild the flags cover what it changes.
LEMMA RebuildStep ==
  ASSUME PrimVisAssumption, IInv, Next
  PROVE  RebuildInv'
  <1>1. ASSUME NEW p \in Prims, NEW tc \in TimeCodes, QueryMesh(p, tc)
        PROVE  RebuildInv'
    <2>1. Launch(p, "mesh", tc) /\ "mesh" \in Kinds
      BY <1>1 DEF QueryMesh, Kinds
    <2>2. \A q \in Prims : q # p => co'[q] = co[q] /\ processing'[q] = processing[q]
      BY <2>1, LaunchEffect DEF IInv
    <2>3. CASE co[p].at = "none"
      <3>1. {"Topo", "TimeCode", "Color"} \subseteq dirty'[p]
        BY <1>1, <2>3, QueryEffect DEF IInv, MeshInv, Flags
      <3> QED  BY <1>1, <2>2, <3>1, QueryEffect DEF IInv, RebuildInv, SameColor, Overpainted
    <2>4. CASE co[p].at # "none"
      <3>1. vk[p].pose = mesh[p].pose /\ vk[p].pose # None
            /\ ("Color" \notin dirty[p] => SameColor(p))
        <4>1. /\ vk[p].pose = mesh[p].pose /\ vk[p].pose = Pose(p, curTc[p])
              /\ ("Color" \notin dirty[p] => SameColor(p))
          BY <1>1, <2>4, RebuildEffect DEF IInv, SettledInv
        <4> QED  BY <4>1, PoseType DEF IInv, TypeOK
      <3> QED  BY <1>1, <2>2, <2>4, <3>1, QueryEffect, RebuildEffect
               DEF IInv, RebuildInv, SameColor, Overpainted
    <2> QED  BY <2>3, <2>4
  <1>2. ASSUME NEW p \in Prims, NEW tc \in TimeCodes, QueryAttrib(p, tc)
        PROVE  RebuildInv'
    <2>1. Launch(p, "attrib", tc) /\ "attrib" \in Kinds
      BY <1>2 DEF QueryAttrib, Kinds
    <2>2. /\ co'[p].kind = "attrib"
          /\ \A q \in Prims : q # p => co'[q] = co[q] /\ processing'[q] = processing[q]
      BY <2>1, LaunchEffect DEF IInv
    <2> QED  BY <1>2, <2>2, QueryEffect DEF IInv, RebuildInv, SameColor, Overpainted
  <1>3. ASSUME NEW p \in Prims, Paint(p)
        PROVE  RebuildInv'
    <2>1. co' = co /\ processing' = processing /\ vk' = vk
      BY <1>3 DEF Paint
    <2> QED  BY <1>3, <2>1, PaintEffect DEF IInv, RebuildInv, SameColor, Overpainted
  <1>4. ASSUME NEW p \in Prims, Depart(p) \/ Stay(p) \/ BeginBuild(p) \/ FailBuild(p) \/
              Post(p) \/ Land(p) \/ Leave(p) \/ Finish(p)
        PROVE  RebuildInv'
    <2>1. /\ processing' = processing /\ dirty' = dirty /\ mesh' = mesh /\ vk' = vk
          /\ \E stage \in Stages : At(p, stage)
      BY <1>4 DEF Depart, Stay, BeginBuild, FailBuild, Post, Land, Leave, Finish, Stages
    <2>2. \A q \in Prims : co'[q].kind = co[q].kind
      BY <2>1, AtEffect DEF IInv
    <2> QED  BY <2>1, <2>2 DEF IInv, RebuildInv, SameColor, Overpainted
  <1>5. ASSUME NEW p \in Prims, EndBuild(p)
        PROVE  RebuildInv'
    <2>1. /\ processing' = processing /\ dirty' = dirty /\ vk' = vk
          /\ \A q \in Prims : co'[q].kind = co[q].kind
      BY <1>5, AtEffect DEF EndBuild, Stages, IInv
    <2>2. co[p].at = "building" /\ mesh'[p].pose # None
          /\ mesh'[p].key = Built(p).key /\ mesh'[p].paint = Built(p).paint
          /\ \A q \in Prims : q # p => mesh'[q] = mesh[q]
      BY <1>5, BuildEffect DEF IInv, EndBuild
    <2>3. ASSUME p \notin Keyed, p \in Skel, "Color" \notin dirty[p], SameColor(p)
          PROVE  SameColor(p)'
      <3>1. /\ mesh[p].key = NaN /\ (verts[p] = NoColor \/ verts[p].key = NaN)
            /\ p \notin VertColored \cup FaceColored => verts[p].paint = mesh[p].paint
            /\ p \in VertColored => verts[p].paint = 0
        BY <2>2, <2>3 DEF IInv, ColorInv
      <3>2. Built(p).key = NaN
        BY <2>3, <3>1, BuiltFields DEF IInv, Key
      <3>3. Built(p).paint = IF p \in FaceColored THEN 0 ELSE verts[p].paint
        BY BuiltFields DEF IInv
      <3>4. vk'[p].key = NaN /\ mesh'[p].key = NaN
        BY <2>1, <2>2, <2>3, <3>1, <3>2 DEF SameColor
      <3>5. CASE p \in VertColored \cup FaceColored
        BY <2>2, <2>3, <3>1, <3>3, <3>4, <3>5 DEF SameColor, Overpainted
      <3>6. CASE p \notin VertColored \cup FaceColored
        BY <2>1, <2>2, <2>3, <3>1, <3>3, <3>4, <3>6 DEF SameColor, Overpainted
      <3> QED  BY <3>5, <3>6
    <2>4. \A q \in Prims : q # p => SameColor(q)' = SameColor(q)
      BY <2>1, <2>2 DEF SameColor, Overpainted
    <2> QED  BY <2>1, <2>2, <2>3, <2>4 DEF IInv, RebuildInv
  <1>6. ASSUME NEW p \in Prims, Return(p)
        PROVE  RebuildInv'
    BY <1>6 DEF IInv, RebuildInv, SameColor, Overpainted, Return
  <1>7. ASSUME EndQueries \/ EndDrain \/ FlushTasks \/ FlushEvents
        PROVE  RebuildInv'
    BY <1>7 DEF IInv, RebuildInv, SameColor, Overpainted, EndQueries, EndDrain,
                   FlushTasks, FlushEvents
  <1>8. ASSUME NEW c \in BagToSet(cmds), RunMeshCmd(c) \/ RunAttribCmd(c)
        PROVE  RebuildInv'
    <2>1. Take(c) /\ co' = co /\ mesh' = mesh
      BY <1>8 DEF RunMeshCmd, RunAttribCmd, Take
    <2>2. /\ c.prim \in Prims /\ processing'[c.prim] = FALSE
          /\ \A q \in Prims : q # c.prim => processing'[q] = processing[q]
      BY <2>1, RunFacts DEF Take, IInv, TypeOK
    <2>3. \A q \in Prims : q # c.prim => dirty'[q] = dirty[q] /\ vk'[q] = vk[q]
      BY <1>8, MeshCmdEffect, AttribCmdEffect
    <2> QED  BY <2>1, <2>2, <2>3 DEF IInv, RebuildInv, SameColor, Overpainted
  <1> QED  BY <1>1, <1>2, <1>3, <1>4, <1>5, <1>6, <1>7, <1>8
     DEF Next, Coroutine, Iteration

\* Whoever colors the mesh colors the vertices it is built from, or flags it.
LEMMA ColorStep ==
  ASSUME PrimVisAssumption, IInv, Next
  PROVE  ColorInv'
  <1>1. ASSUME NEW p \in Prims, NEW tc \in TimeCodes, QueryMesh(p, tc) \/ QueryAttrib(p, tc)
        PROVE  ColorInv'
    <2>1. \E kind \in Kinds : Launch(p, kind, tc)
      BY <1>1, QueryFacts
    <2>2. co'[p].at = "start" /\ \A q \in Prims : q # p => co'[q] = co[q]
      BY <2>1, LaunchEffect DEF IInv
    <2> QED  BY <1>1, <2>2, QueryEffect DEF IInv, ColorInv
  <1>2. ASSUME NEW p \in Prims, Paint(p)
        PROVE  ColorInv'
    <2>1. co' = co
      BY <1>2 DEF Paint
    <2>2. /\ mesh'[p].key = mesh[p].key /\ dirty'[p] = dirty[p] \cup {"Color"}
          /\ IF p \in Colored
               THEN verts'[p].key = mesh[p].key /\ verts'[p].paint = mesh'[p].paint
               ELSE verts'[p] = verts[p] /\ mesh'[p] = mesh[p]
          /\ \A q \in Prims : q # p =>
               mesh'[q] = mesh[q] /\ dirty'[q] = dirty[q] /\ verts'[q] = verts[q]
      BY <1>2, PaintEffect DEF IInv
    <2> QED  BY <2>1, <2>2 DEF IInv, ColorInv
  <1>3. ASSUME NEW p \in Prims, Depart(p) \/ Stay(p) \/ FailBuild(p) \/ Post(p) \/ Land(p) \/
              Leave(p) \/ Finish(p)
        PROVE  ColorInv'
    <2>1. /\ dirty' = dirty /\ mesh' = mesh /\ verts' = verts
          /\ \E stage \in Stages \ {"building"} : At(p, stage)
      BY <1>3 DEF Depart, Stay, FailBuild, Post, Land, Leave, Finish, Stages
    <2>2. co'[p].at # "building" /\ \A q \in Prims : q # p => co'[q] = co[q]
      BY <2>1, AtEffect DEF IInv
    <2> QED  BY <2>1, <2>2 DEF IInv, ColorInv
  <1>4. ASSUME NEW p \in Prims, BeginBuild(p)
        PROVE  ColorInv'
    <2>1. dirty' = dirty /\ mesh' = mesh /\ \A q \in Prims : q # p => co'[q] = co[q]
      BY <1>4, AtEffect DEF BeginBuild, Stages, IInv
    <2>2. /\ IF p \in VertColored
               THEN verts'[p].key = Key(p, co[p].tc) /\ verts'[p].paint = 0
               ELSE verts'[p] = verts[p]
          /\ \A q \in Prims : q # p => verts'[q] = verts[q]
      BY <1>4, BeginEffect DEF IInv
    <2>3. p \notin Keyed => Key(p, co[p].tc) = NaN
      BY DEF Key
    <2> QED  BY <2>1, <2>2, <2>3 DEF IInv, ColorInv
  <1>5. ASSUME NEW p \in Prims, EndBuild(p)
        PROVE  ColorInv'
    <2>1. dirty' = dirty /\ co'[p].at = "body" /\ \A q \in Prims : q # p => co'[q] = co[q]
      BY <1>5, AtEffect DEF EndBuild, Stages, IInv
    <2>2. /\ mesh'[p].key = Built(p).key /\ mesh'[p].paint = Built(p).paint
          /\ verts'[p] = IF p \in FaceColored THEN Built(p) ELSE verts[p]
          /\ \A q \in Prims : q # p => mesh'[q] = mesh[q] /\ verts'[q] = verts[q]
      BY <1>5, BuildEffect DEF IInv
    <2>3. p \notin Keyed => Built(p).key = NaN
      BY BuiltFields DEF IInv, ColorInv, Key
    <2>4. p \notin FaceColored => Built(p).paint = verts[p].paint
      BY BuiltFields DEF IInv
    <2> QED  BY <2>1, <2>2, <2>3, <2>4 DEF IInv, ColorInv
  <1>6. ASSUME NEW p \in Prims, Return(p)
        PROVE  ColorInv'
    BY <1>6 DEF IInv, ColorInv, Return
  <1>7. ASSUME EndQueries \/ EndDrain \/ FlushTasks \/ FlushEvents
        PROVE  ColorInv'
    BY <1>7 DEF IInv, ColorInv, EndQueries, EndDrain, FlushTasks, FlushEvents
  <1>8. ASSUME NEW c \in BagToSet(cmds), RunMeshCmd(c) \/ RunAttribCmd(c)
        PROVE  ColorInv'
    <2>1. Take(c) /\ co' = co /\ mesh' = mesh /\ verts' = verts
      BY <1>8 DEF RunMeshCmd, RunAttribCmd, Take
    <2>2. co[c.prim].at \in {"counted", "event", "done"} /\ c.prim \in Prims
      BY <2>1, RunFacts
    <2>3. \A q \in Prims : q # c.prim => dirty'[q] = dirty[q]
      BY <1>8, MeshCmdEffect, AttribCmdEffect
    <2> QED  BY <2>1, <2>2, <2>3 DEF IInv, ColorInv
  <1> QED  BY <1>1, <1>2, <1>3, <1>4, <1>5, <1>6, <1>7, <1>8
     DEF Next, Coroutine, Iteration

\* The bound of the count follows from what it counts.
LEMMA CountType ==
  ASSUME PrimVisAssumption, CountInv'
  PROVE  inFlight' \in 0 .. Cardinality(Prims)
  <1>1. Flying' \in SUBSET Prims
    BY DEF Flying
  <1> QED  BY <1>1, FlyingBound DEF CountInv

\* Each action keeps the types, given the bound of the count.
LEMMA TypeStep ==
  ASSUME PrimVisAssumption, IInv, Next, inFlight' \in 0 .. Cardinality(Prims)
  PROVE  TypeOK'
  <1>1. ASSUME NEW p \in Prims, NEW tc \in TimeCodes, QueryMesh(p, tc) \/ QueryAttrib(p, tc)
        PROVE  TypeOK'
    <2>1. \E kind \in Kinds : Launch(p, kind, tc)
      BY <1>1, QueryFacts
    <2>2. co' \in [Prims -> CoType] /\ processing' \in [Prims -> BOOLEAN]
      BY <2>1, LaunchEffect DEF IInv
    <2>3. /\ signal' \in [Prims -> {-1, 0, 1}] /\ heard' = heard /\ returning' = returning
          /\ gui' = "call" /\ cmds' = cmds
      BY <2>1 DEF Launch, IInv, TypeOK
    <2> QED  BY <1>1, <2>2, <2>3, QueryEffect DEF IInv, TypeOK, CoType, Kinds
  <1>2. ASSUME NEW p \in Prims, Paint(p)
        PROVE  TypeOK'
    <2>1. UNCHANGED <<processing, curTc, co, vk, cmds, signal, heard, returning, gui>>
      BY <1>2 DEF Paint
    <2> QED  BY <1>2, <2>1, PaintEffect DEF IInv, TypeOK
  <1>3. ASSUME NEW p \in Prims, Depart(p) \/ Stay(p) \/ Leave(p)
        PROVE  TypeOK'
    <2>1. co' \in [Prims -> CoType]
      BY <1>3, AtEffect DEF Depart, Stay, Leave, IInv, Stages
    <2>2. /\ signal \in [Prims -> {-1, 0, 1}] /\ heard \in Int
          /\ signal' = [signal EXCEPT ![p] = 0] /\ heard' = heard + signal[p]
      BY <1>3 DEF Depart, Stay, Leave, Emit, IInv, TypeOK
    <2>6. signal' \in [Prims -> {-1, 0, 1}] /\ heard' \in Int
      BY <2>2
    <2>3. returning' \subseteq Prims
      BY <1>3 DEF Depart, Stay, Leave, IInv, TypeOK
    <2>4. gui' \in {"query", "call", "drain", "flushTasks", "flushEvents"}
      BY <1>3 DEF Depart, Stay, Leave, IInv, TypeOK
    <2>5. UNCHANGED <<processing, dirty, curTc, verts, mesh, vk, cmds>>
      BY <1>3 DEF Depart, Stay, Leave
    <2> QED  BY <2>1, <2>3, <2>4, <2>5, <2>6 DEF IInv, TypeOK, CoType, Kinds
  <1>4. ASSUME NEW p \in Prims, BeginBuild(p) \/ FailBuild(p) \/ Finish(p)
        PROVE  TypeOK'
    <2>1. co' \in [Prims -> CoType]
      BY <1>4, AtEffect DEF BeginBuild, FailBuild, Finish, IInv, Stages
    <2>2. UNCHANGED <<processing, dirty, curTc, mesh, vk, cmds, signal, heard, returning, gui>>
      BY <1>4 DEF BeginBuild, FailBuild, Finish
    <2>3. verts' \in [Prims -> {NoColor} \cup Colors]
      BY <1>4, BeginEffect DEF FailBuild, Finish, IInv, TypeOK
    <2> QED  BY <2>1, <2>2, <2>3 DEF IInv, TypeOK, CoType, Kinds
  <1>5. ASSUME NEW p \in Prims, EndBuild(p)
        PROVE  TypeOK'
    <2>1. /\ co' \in [Prims -> CoType] /\ mesh' \in [Prims -> Shown]
          /\ verts' \in [Prims -> {NoColor} \cup Colors]
      BY <1>5, AtEffect, BuildEffect DEF EndBuild, IInv, Stages
    <2>2. UNCHANGED <<processing, dirty, curTc, vk, cmds, signal, heard, returning, gui>>
      BY <1>5 DEF EndBuild
    <2> QED  BY <2>1, <2>2 DEF IInv, TypeOK, CoType, Kinds
  <1>6. ASSUME NEW p \in Prims, Post(p)
        PROVE  TypeOK'
    <2> DEFINE new == [prim |-> p, kind |-> co[p].kind, tc |-> co[p].tc]
    <2>1. co' \in [Prims -> CoType]
      BY <1>6, AtEffect DEF Post, IInv, Stages
    <2>2. new \notin BagToSet(cmds)
      BY <1>6 DEF IInv, CmdInv, Post
    <2>3. new \in [prim : Prims, kind : {"mesh", "attrib"}, tc : AllTcs]
      BY DEF IInv, TypeOK
    <2>4. IsABag(cmds) /\ cmds' = cmds (+) SetToBag({new})
      BY <1>6 DEF Post, IInv, TypeOK
    <2> HIDE DEF new
    <2>5. /\ IsABag(cmds') /\ BagToSet(cmds') = BagToSet(cmds) \cup {new}
          /\ cmds'[new] = 1 /\ \A d \in BagToSet(cmds) : cmds'[d] = cmds[d]
      BY <2>2, <2>4, AddCmd
    <2>6. \A c \in BagToSet(cmds') :
            c \in [prim : Prims, kind : {"mesh", "attrib"}, tc : AllTcs] /\ cmds'[c] = 1
      BY <2>3, <2>5 DEF IInv, TypeOK
    <2>7. UNCHANGED <<processing, dirty, curTc, verts, mesh, vk, signal, heard, returning, gui>>
      BY <1>6 DEF Post
    <2> QED  BY <2>1, <2>5, <2>6, <2>7 DEF IInv, TypeOK, CoType, Kinds
  <1>7. ASSUME NEW p \in Prims, Land(p)
        PROVE  TypeOK'
    <2>1. co' \in [Prims -> CoType] /\ signal' \in [Prims -> {-1, 0, 1}]
      BY <1>7, AtEffect DEF Land, IInv, TypeOK, Stages
    <2>2. UNCHANGED <<processing, dirty, curTc, verts, mesh, vk, cmds, heard, returning, gui>>
      BY <1>7 DEF Land
    <2> QED  BY <2>1, <2>2 DEF IInv, TypeOK, CoType, Kinds
  <1>8. ASSUME NEW p \in Prims, Return(p)
        PROVE  TypeOK'
    BY <1>8 DEF IInv, TypeOK, Return
  <1>9. ASSUME EndQueries \/ EndDrain \/ FlushTasks \/ FlushEvents
        PROVE  TypeOK'
    BY <1>9 DEF IInv, TypeOK, EndQueries, EndDrain, FlushTasks, FlushEvents
  <1>10. ASSUME NEW c \in BagToSet(cmds), RunMeshCmd(c) \/ RunAttribCmd(c)
        PROVE  TypeOK'
    <2>1. Take(c)
      BY <1>10 DEF RunMeshCmd, RunAttribCmd
    <2>2. vk' \in [Prims -> Shown] /\ dirty' \in [Prims -> SUBSET Flags]
      BY <1>10, MeshCmdEffect, AttribCmdEffect
    <2>3. curTc' \in [Prims -> AllTcs]
      BY <1>10, MeshCmdEffect, AttribCmdEffect DEF IInv, TypeOK
    <2>4. /\ IsABag(cmds')
          /\ \A d \in BagToSet(cmds') :
               d \in [prim : Prims, kind : {"mesh", "attrib"}, tc : AllTcs] /\ cmds'[d] = 1
      BY <2>1, RunFacts DEF IInv, TypeOK
    <2>5. /\ processing' \in [Prims -> BOOLEAN]
          /\ UNCHANGED <<co, verts, mesh, signal, heard, returning, gui>>
      BY <2>1 DEF Take, IInv, TypeOK
    <2> QED  BY <2>2, <2>3, <2>4, <2>5 DEF IInv, TypeOK
  <1> QED  BY <1>1, <1>2, <1>3, <1>4, <1>5, <1>6, <1>7, <1>8, <1>9, <1>10
     DEF Next, Coroutine, Iteration

-----------------------------------------------------------------------------
(* The theorems.                                                           *)

\* The invariant holds at first, ...
LEMMA InitInv ==
  ASSUME PrimVisAssumption, Init
  PROVE  IInv
  <1>1. Flying = {} /\ Cardinality(Flying) = 0
    BY FS_EmptySet DEF Init, Flying, Preparing
  <1>2. BagToSet(cmds) = {} /\ IsABag(cmds)
    BY DEF Init, EmptyBag, SetToBag, BagToSet, IsABag
  <1>3. Cardinality(Prims) \in Nat
    BY FS_CardinalityType DEF PrimVisAssumption
  <1>4. TypeOK
    BY <1>2, <1>3 DEF Init, TypeOK, Stages, AllTcs, Flags, Shown
  <1>5. GuiInv /\ CmdInv /\ FlagInv /\ ReturnInv
    BY <1>2 DEF Init, GuiInv, OnGui, CmdInv, FlagInv, HasCmd, Preparing, ReturnInv
  <1>6. FlushInv /\ CountInv /\ SignalInv
    BY <1>1 DEF Init, FlushInv, CountInv, SignalInv
  <1>7. HeardInv
    <2>1. IsFiniteSet(Prims) /\ \A p \in Prims : signal[p] = 0
      BY DEF PrimVisAssumption, Init
    <2>2. Total(signal, Prims) = 0
      BY <2>1, SumOfZeros
    <2> QED  BY <2>2 DEF Init, HeardInv
  <1>8. SettledInv /\ RebuildInv
    BY DEF Init, SettledInv, Settled, RebuildInv
  <1>9. MeshInv /\ ColorInv
    BY DEF Init, MeshInv, ColorInv, Empty, NoColor, Color
  <1> QED  BY <1>4, <1>5, <1>6, <1>7, <1>8, <1>9 DEF IInv

\* ... and of a step that changes nothing.
LEMMA StutterInv ==
  ASSUME IInv, UNCHANGED vars
  PROVE  IInv'
  <1>1. /\ TypeOK' = TypeOK /\ GuiInv' = GuiInv /\ CmdInv' = CmdInv /\ FlagInv' = FlagInv
        /\ ReturnInv' = ReturnInv /\ FlushInv' = FlushInv
    BY DEF vars, TypeOK, GuiInv, OnGui, CmdInv, FlagInv, HasCmd, Preparing, ReturnInv, FlushInv,
           TaskJobs
  <1>2. CountInv' = CountInv /\ SignalInv' = SignalInv /\ HeardInv' = HeardInv
    BY DEF vars, CountInv, Flying, Preparing, SignalInv, HeardInv
  <1>3. /\ SettledInv' = SettledInv /\ RebuildInv' = RebuildInv /\ MeshInv' = MeshInv
        /\ ColorInv' = ColorInv
    BY DEF vars, SettledInv, Settled, RebuildInv, MeshInv, SameColor, Overpainted, ColorInv
  <1> QED  BY <1>1, <1>2, <1>3 DEF IInv

\* The invariant holds of every behaviour.
LEMMA Invariance == Spec => []IInv
  <1>1. Init => IInv
    BY PrimVisAssumption, InitInv
  <1>2. IInv /\ [Next]_vars => IInv'
    <2> SUFFICES ASSUME IInv, [Next]_vars  PROVE IInv'
      OBVIOUS
    <2>1. CASE Next
      <3>1. GuiInv' /\ CmdInv' /\ FlagInv' /\ ReturnInv' /\ FlushInv'
        BY <2>1, PrimVisAssumption, GuiStep, CmdStep, FlagStep, ReturnStep, FlushStep
      <3>2. CountInv' /\ SignalInv' /\ HeardInv'
        BY <2>1, PrimVisAssumption, CountStep, SignalStep, HeardStep
      <3>3. SettledInv' /\ RebuildInv' /\ MeshInv' /\ ColorInv'
        BY <2>1, PrimVisAssumption, SettledStep, RebuildStep, MeshStep, ColorStep
      <3>4. TypeOK'
        BY <2>1, <3>2, PrimVisAssumption, CountType, TypeStep
      <3> QED  BY <3>1, <3>2, <3>3, <3>4 DEF IInv
    <2>2. CASE UNCHANGED vars
      BY <2>2, StutterInv
    <2> QED  BY <2>1, <2>2
  <1> QED  BY <1>1, <1>2, PTL DEF Spec

\* Each variable keeps its type: no command is queued twice, the count stays between zero and
\* the number of primitives, and each coroutine owes one emission at most.
THEOREM PrimTypes == Spec => []TypeOK
  BY Invariance, PTL DEF IInv

\* A busy primitive has one owner, its coroutine or its command: the one that writes the mesh
\* and the one that uploads it never act on a primitive at a time.
THEOREM OneOwner == Spec => []ProcessingIsOwned
  <1>1. IInv => ProcessingIsOwned
    <2> SUFFICES ASSUME IInv, NEW p \in Prims
                 PROVE  LET queued == MapThenSumSet(LAMBDA c : cmds[c],
                                                    {c \in BagToSet(cmds) : c.prim = p})
                            owners == queued + (IF Preparing(p) \/ co[p].at = "failed"
                                                THEN 1 ELSE 0) IN
                        owners = (IF processing[p] THEN 1 ELSE 0)
      BY DEF ProcessingIsOwned
    <2> DEFINE Mine == {c \in BagToSet(cmds) : c.prim = p}
    <2>1. Total(cmds, Mine) = MapThenSumSet(LAMBDA c : cmds[c], Mine)
      BY DEF Total, MapThenSumSet, MapThenFoldSet
    <2>2. processing[p] \in BOOLEAN /\ \A c \in BagToSet(cmds) : cmds[c] = 1
      BY DEF IInv, TypeOK
    <2>3. CASE HasCmd(p)
      <3>1. PICK c \in BagToSet(cmds) : c.prim = p
        BY <2>3 DEF HasCmd
      <3>2. Mine = {c}
        BY <3>1 DEF IInv, CmdInv
      <3>3. Total(cmds, Mine) = 1
        <4>1. Total(cmds, {c}) = cmds[c]
          BY <2>2, <3>1, SumOne
        <4> QED  BY <2>2, <3>1, <3>2, <4>1
      <3>4. processing[p] /\ ~Preparing(p) /\ co[p].at # "failed"
        BY <2>3, <3>1 DEF IInv, FlagInv, CmdInv, Preparing
      <3> QED  BY <2>1, <3>3, <3>4
    <2>4. CASE ~HasCmd(p)
      <3>1. Mine = {}
        BY <2>4 DEF HasCmd
      <3>2. Total(cmds, Mine) = 0
        BY <3>1, SumEmpty
      <3>3. processing[p] <=> Preparing(p) \/ co[p].at = "failed"
        BY <2>4 DEF IInv, FlagInv
      <3> QED  BY <2>1, <2>2, <3>2, <3>3
    <2> QED  BY <2>3, <2>4
  <1> QED  BY <1>1, Invariance, PTL

\* A query that replaces a coroutine finds it done and its worker gone: no frame is freed
\* that somebody resumes or returns to.
THEOREM FramesOutliveTheirUse == Spec => []FrameIsDone
  <1>1. IInv => FrameIsDone
    BY DEF IInv, FlushInv, FrameIsDone
  <1> QED  BY <1>1, Invariance, PTL

\* The count is the number of primitives in flight, and the emissions that were received or
\* are owed add up to whether there is one.
THEOREM InFlightCounts == Spec => []InFlightIsExact
  <1>1. IInv => InFlightIsExact
    <2> SUFFICES ASSUME IInv  PROVE InFlightIsExact
      OBVIOUS
    <2>1. Total(signal, Prims) = MapThenSumSet(LAMBDA p : signal[p], Prims)
      BY DEF Total, MapThenSumSet, MapThenFoldSet
    <2> QED  BY <2>1 DEF IInv, CountInv, Flying, HeardInv, InFlightIsExact
  <1> QED  BY <1>1, Invariance, PTL

\* When a primitive is idle the device shows its mesh in the pose of the current time code, and
\* in the color of the mesh unless that is flagged to be uploaded or a rebuild has replaced the
\* paint by the key frame, whatever was painted at whatever moment.
THEOREM DeviceFollows == Spec => []DeviceIsCurrent
  <1>1. IInv => DeviceIsCurrent
    BY DEF IInv, SettledInv, Settled, DeviceIsCurrent
  <1> QED  BY <1>1, Invariance, PTL

=============================================================================
