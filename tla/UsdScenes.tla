----------------------------- MODULE UsdScenes -----------------------------
(***************************************************************************)
(* USD scenes and who uses them: the scene manager and the stage of a      *)
(* scene (zs/world/usd/USDSceneManager.cpp, USDSceneDesc.cpp), the calls   *)
(* of Python scripts (zs/world/SceneInterface.cpp, World.cpp), the files   *)
(* of the resource system (zs/world/system/ResourceSystem.cpp), and the    *)
(* default scene context with its timeline (zs/world/scene/SceneContext    *)
(* .cpp).  All of them run on the main thread, one call after the other.   *)
(*                                                                         *)
(* USD is not in the repository: stages that are open on the same file     *)
(* share its layer, a layer lives as long as a stage has it, and exporting *)
(* writes a file without reading it again.  References and sublayers,      *)
(* which keep further layers alive, are left out.                          *)
(***************************************************************************)
EXTENDS Integers, Sequences, SequencesExt, FiniteSetsExt, Functions

CONSTANTS Labels,   \* names of scenes
          Files,    \* names of files
          OnDisk,   \* what the files hold at first: layers, or None
          Paths,    \* paths of prims
          MaxCalls, \* bound: the number of calls
          Times,    \* time codes that the sequencer is moved to
          NaN,      \* no time code
          None      \* no layer, no stage, no interval

VARIABLES
  stage,    \* mSceneMap: the layer that the stage of each scene is open on
  edited,   \* mZpcTransformEdit of each scene
  layer,    \* the layers in memory: those of files, and one of its own for each scene
  disk,     \* the files
  entries,  \* _usdEntries: the file of each label
  prims,    \* SceneContext::_primitives
  order,    \* SceneContext::_orderedPrims and _idToPrim
  timeline, \* SceneContext::_timeline
  calls     \* number of calls so far

sceneVars == <<stage, edited, layer, disk>>
ctxVars   == <<prims, order, timeline>>
vars      == <<sceneVars, entries, ctxVars, calls>>

Scenes == DOMAIN stage
Call   == calls < MaxCalls /\ calls' = calls + 1

\* prims and ops, by the path of a prim and a number, are those of the layer; count is its
\* ZpcTransformCount; tcps its time codes per second; own and childs the time codes of the
\* primitives that are made of it.  A layer is shared once two scenes had it at a time.
Layer == [prims : SUBSET Paths, ops : SUBSET (Paths \X Nat), count : Nat, tcps : Nat,
          own : Seq(Nat), childs : Seq(Seq(Nat)), shared : BOOLEAN]
Empty == [prims |-> {}, ops |-> {}, count |-> 0, tcps |-> 24, own |-> <<>>, childs |-> <<>>,
          shared |-> FALSE]

ASSUME UsdScenesAssumption ==
  /\ Files \cap Labels = {} /\ None \notin Files \cup Labels \cup Layer \cup Nat \cup (Nat \X Nat)
  /\ NaN \notin Int \cup {None} /\ Times \subseteq Int /\ MaxCalls \in Nat
  /\ OnDisk \in [Files -> Layer \cup {None}]
  /\ \A f \in Files : OnDisk[f] # None => \A o \in OnDisk[f].ops : o[2] < OnDisk[f].count

TypeOK ==
  /\ Scenes \subseteq Labels /\ DOMAIN edited = Scenes
  /\ \A l \in Scenes : stage[l] \in Files \cup {l, None} /\ edited[l] \in BOOLEAN
  /\ \A k \in Files \cup Labels : layer[k] # None <=> \E l \in Scenes : stage[l] = k
  /\ \A k \in Files \cup Labels : layer[k] # None => layer[k] \in Layer
  /\ \A f \in Files : disk[f] # None => disk[f] \in Layer
  /\ DOMAIN entries \subseteq Labels /\ Range(entries) \subseteq Files
  /\ DOMAIN prims \subseteq Labels /\ calls \in 0 .. MaxCalls

Without(f, ks) == [k \in DOMAIN f \ ks |-> f[k]]
With(f, k, v)  == [x \in DOMAIN f \cup {k} |-> IF x = k THEN v ELSE f[x]]

Init ==
  /\ stage = [l \in {} |-> None]
  /\ edited = [l \in {} |-> FALSE]
  /\ layer = [k \in Files \cup Labels |-> None]
  /\ disk = OnDisk
  /\ entries = [l \in {} |-> None]
  /\ prims = [l \in {} |-> None]
  /\ order = <<>>
  /\ timeline = [start |-> NaN, end |-> NaN, cur |-> NaN, tcps |-> NaN]
  /\ calls = 0

-----------------------------------------------------------------------------
(* Scenes and their stages.                                                *)

\* Layers that no stage has are gone.
Held(stages, layers) ==
  [k \in DOMAIN layers |-> IF \E l \in DOMAIN stages : stages[l] = k THEN layers[k] ELSE None]

\* Scenes with no stage.
Created(l) == stage' = With(stage, l, None) /\ edited' = With(edited, l, FALSE)

\* The stage of a removed scene is leaked.
Removed_Leak(ls) ==
  /\ stage' = Without(stage, ls)
  /\ edited' = Without(edited, ls)
  /\ UNCHANGED <<layer, disk>>

Removed(ls) ==
  /\ stage' = Without(stage, ls)
  /\ edited' = Without(edited, ls)
  /\ layer' = Held(stage', layer)
  /\ UNCHANGED disk

\* A layer is loaded from its file, or becomes shared by the scene that opens it.
LayerOpened(l, f, stages) ==
  IF layer[f] = None THEN disk[f]
  ELSE [layer[f] EXCEPT !.shared = @ \/ \E m \in DOMAIN stages \ {l} : stages[m] = f]

\* UsdStage::Open on behalf of a scene of which the stages know.
Opened(l, f, stages) ==
  /\ stage' = [stages EXCEPT ![l] = f]
  /\ layer' = Held(stage', [layer EXCEPT ![f] = LayerOpened(l, f, stages)])

\* _getOrCreateRootStage
StageOf(l)  == IF stage[l] = None THEN l ELSE stage[l]
LayerOf(l)  == IF stage[l] = None THEN Empty ELSE layer[stage[l]]
Author(l, content) ==
  /\ stage' = [stage EXCEPT ![l] = StageOf(l)]
  /\ layer' = [layer EXCEPT ![StageOf(l)] = content]

\* exportScene: the operations that were edited get a number of their own, whether or not the
\* file can be written.
Sealed(l) == IF edited[l] THEN [LayerOf(l) EXCEPT !.count = @ + 1] ELSE LayerOf(l)
\* The file is written before the operations get their number.
Exported_First(l, f, written) ==
  /\ IF stage[l] = None THEN UNCHANGED <<stage, layer, edited>>
     ELSE Author(l, Sealed(l)) /\ edited' = [edited EXCEPT ![l] = FALSE]
  /\ disk' = IF written THEN [disk EXCEPT ![f] = LayerOf(l)] ELSE disk

Exported(l, f, written) ==
  /\ IF stage[l] = None THEN UNCHANGED <<stage, layer, edited>>
     ELSE Author(l, Sealed(l)) /\ edited' = [edited EXCEPT ![l] = FALSE]
  /\ disk' = IF written THEN [disk EXCEPT ![f] = Sealed(l)] ELSE disk

-----------------------------------------------------------------------------
(* What Python scripts do to the scenes.                                   *)

CreateScene(l) == Call /\ l \notin Scenes /\ Created(l) /\ UNCHANGED <<layer, disk, entries, ctxVars>>
RemoveScene(l) == Call /\ l \in Scenes /\ Removed({l}) /\ UNCHANGED <<entries, ctxVars>>
ClearScenes    == Call /\ Scenes # {} /\ Removed(Scenes) /\ UNCHANGED <<entries, ctxVars>>

\* The edit flag stays what it was.
OpenScene(l, f) ==
  /\ Call
  /\ l \in Scenes /\ disk[f] # None
  /\ Opened(l, f, stage)
  /\ UNCHANGED <<edited, disk, entries, ctxVars>>

ExportScene(l, f, written) ==
  Call /\ l \in Scenes /\ Exported(l, f, written) /\ UNCHANGED <<entries, ctxVars>>

CreatePrim(l, p) ==
  /\ Call
  /\ l \in Scenes /\ p \notin LayerOf(l).prims
  /\ Author(l, [LayerOf(l) EXCEPT !.prims = @ \cup {p}])
  /\ UNCHANGED <<edited, disk, entries, ctxVars>>

RemovePrim(l, p) ==
  /\ Call
  /\ l \in Scenes /\ p \in LayerOf(l).prims
  /\ Author(l, [LayerOf(l) EXCEPT !.prims = @ \ {p}, !.ops = {o \in @ : o[1] # p}])
  /\ UNCHANGED <<edited, disk, entries, ctxVars>>

\* setLocalMatrixOpValue, for the operation that getZpcTransformSuffix names.
SetTransform(l, p) ==
  /\ Call
  /\ l \in Scenes /\ stage[l] # None
  /\ p \in LayerOf(l).prims
  /\ Author(l, [LayerOf(l) EXCEPT !.ops = @ \cup {<<p, LayerOf(l).count>>}])
  /\ edited' = [edited EXCEPT ![l] = TRUE]
  /\ UNCHANGED <<disk, entries, ctxVars>>

-----------------------------------------------------------------------------
(* The scene context.                                                      *)

\* The children are asked only for what the primitive has not.
queryStartEndTimeCodes_Own(p) ==
  LET all == {i \in IF p.own # <<>> THEN {p.own} ELSE ToSet(p.childs) : i # <<>>}
  IN IF all = {} THEN None ELSE <<Min({Head(i) : i \in all}), Max({Last(i) : i \in all})>>

\* The time codes of a primitive and of its children, or None.
queryStartEndTimeCodes(p) ==
  LET all == {i \in {p.own} \cup ToSet(p.childs) : i # <<>>}
  IN IF all = {} THEN None ELSE <<Min({Head(i) : i \in all}), Max({Last(i) : i \in all})>>

\* The current time code is kept within the interval of the primitive that joins.
Covering_Cur(tl, ival) ==
  LET start == IF tl.start = NaN \/ ival[1] < tl.start THEN ival[1] ELSE tl.start
      end   == IF tl.end = NaN \/ ival[2] > tl.end THEN ival[2] ELSE tl.end
      cur   == CASE tl.cur = NaN -> ival[1]
                 [] tl.cur # NaN /\ tl.cur < ival[1] -> ival[1]
                 [] tl.cur # NaN /\ tl.cur >= ival[1] /\ tl.cur > ival[2] -> ival[2]
                 [] OTHER -> tl.cur
  IN [tl EXCEPT !.start = start, !.end = end, !.cur = cur]

Covering(tl, ival) ==
  LET start == IF tl.start = NaN \/ ival[1] < tl.start THEN ival[1] ELSE tl.start
      end   == IF tl.end = NaN \/ ival[2] > tl.end THEN ival[2] ELSE tl.end
      cur   == CASE tl.cur = NaN -> ival[1]
                 [] tl.cur # NaN /\ tl.cur < start -> start
                 [] tl.cur # NaN /\ tl.cur >= start /\ tl.cur > end -> end
                 [] OTHER -> tl.cur
  IN [tl EXCEPT !.start = start, !.end = end, !.cur = cur]

\* The time codes per second are looked at last.
Register_Late(l, p) ==
  IF l \in DOMAIN prims THEN UNCHANGED ctxVars
  ELSE LET ival == queryStartEndTimeCodes(p)
           tl == IF ival = None THEN timeline ELSE Covering(timeline, ival)
       IN /\ prims' = With(prims, l, p)
          /\ timeline' = IF p.tcps # None /\ tl.tcps = NaN THEN [tl EXCEPT !.tcps = p.tcps] ELSE tl
          /\ order' = Append(order, l)

\* registerPrimitive: one whose scene has other time codes per second is thrown out after it was
\* put under its label and on the timeline.  A primitive of no scene has no tcps.
Register(l, p) ==
  IF l \in DOMAIN prims THEN UNCHANGED ctxVars
  ELSE LET ival == queryStartEndTimeCodes(p)
           tl == IF ival = None THEN timeline ELSE Covering(timeline, ival)
       IN /\ prims' = With(prims, l, p)
          /\ timeline' = IF p.tcps # None /\ tl.tcps = NaN THEN [tl EXCEPT !.tcps = p.tcps] ELSE tl
          /\ order' = IF p.tcps \in {None, timeline'.tcps} THEN Append(order, l) ELSE order

\* A primitive that was not made of a scene.
RegisterMesh(l) ==
  /\ Call
  /\ l \notin DOMAIN prims
  /\ Register(l, [own |-> <<>>, childs |-> <<>>, tcps |-> None])
  /\ UNCHANGED <<sceneVars, entries>>

\* The sequencer.
SetCurrentTimeCode(t) ==
  /\ Call
  /\ timeline.cur # NaN /\ timeline.cur # t
  /\ timeline' = [timeline EXCEPT !.cur = t]
  /\ UNCHANGED <<sceneVars, entries, prims, order>>

-----------------------------------------------------------------------------
(* The files of the resource system.                                       *)

\* A scene that cannot be opened is kept, with no stage.
load_usd(f, l) ==
  /\ Call
  /\ l \notin Scenes
  /\ edited' = With(edited, l, FALSE)
  /\ entries' = With(entries, l, f)
  /\ IF disk[f] = None THEN stage' = With(stage, l, None) /\ UNCHANGED <<layer, ctxVars>>
     ELSE /\ Opened(l, f, With(stage, l, None))
          /\ Register(l, [own |-> layer'[f].own, childs |-> layer'[f].childs,
                          tcps |-> layer'[f].tcps])
  /\ UNCHANGED disk

\* An entry with no scene, which a script may have removed, cannot be saved.
SaveTo(l, f, written) ==
  /\ Call
  /\ l \in DOMAIN entries \cap Scenes
  /\ Exported(l, f, written)
  /\ entries' = [entries EXCEPT ![l] = f]
  /\ UNCHANGED ctxVars

save_usd_as(f, l, written) == SaveTo(l, f, written)
save_usd(l, written)       == l \in DOMAIN entries /\ SaveTo(l, entries[l], written)

\* The primitive stays in the context.
close_usd(l) ==
  /\ Call
  /\ l \in Scenes \cup DOMAIN entries
  /\ entries' = Without(entries, {l})
  /\ Removed({l})
  /\ UNCHANGED ctxVars

-----------------------------------------------------------------------------
Python ==
  \E l \in Labels :
    \/ CreateScene(l) \/ RemoveScene(l)
    \/ \E f \in Files : \/ OpenScene(l, f)
                        \/ \E w \in BOOLEAN : ExportScene(l, f, w)
    \/ \E p \in Paths : CreatePrim(l, p) \/ RemovePrim(l, p) \/ SetTransform(l, p)

Editor ==
  \E l \in Labels :
    \/ RegisterMesh(l) \/ close_usd(l)
    \/ \E f \in Files : load_usd(f, l) \/ \E w \in BOOLEAN : save_usd_as(f, l, w)
    \/ \E w \in BOOLEAN : save_usd(l, w)

Next == Python \/ ClearScenes \/ Editor \/ \E t \in Times : SetCurrentTimeCode(t)

Spec == Init /\ [][Next]_vars

-----------------------------------------------------------------------------
(* Properties.                                                             *)

\* Primitives are in the order of the context once, and all of them are, but those whose time
\* codes pass at another rate than those of the first.
ContextAgrees ==
  /\ IsInjective(order)
  /\ ToSet(order) = {l \in DOMAIN prims : prims[l].tcps \in {None, timeline.tcps}}

\* Scenes are loaded, closed and loaded again under their labels, and the timeline covers each
\* primitive of the context with its children.
TimelineCovers ==
  \A l \in DOMAIN prims : \A i \in {prims[l].own} \cup ToSet(prims[l].childs) :
    i # <<>> => /\ timeline.start # NaN /\ timeline.start <= Head(i)
                /\ timeline.end # NaN /\ timeline.end >= Last(i)

\* A primitive that joins moves the current time code no further than to an end of the timeline,
\* and nothing shortens the timeline.
TimelineOnlyGrows ==
  [][/\ timeline.start # NaN => timeline'.start <= timeline.start /\ timeline'.end >= timeline.end
     /\ (prims' # prims /\ timeline'.cur # timeline.cur /\ timeline.cur # NaN) =>
          /\ timeline'.cur \in {timeline'.start, timeline'.end}
          /\ ~(timeline'.start <= timeline.cur /\ timeline.cur <= timeline'.end)]_vars

\* A file never holds a transform operation that a later edit of it would overwrite, unless two
\* scenes had the file at a time: the edit flag belongs to a scene, and the operations to a file.
EditsAreSealed ==
  \A f \in Files : (disk[f] # None /\ ~disk[f].shared) => \A o \in disk[f].ops : o[2] < disk[f].count
=============================================================================
