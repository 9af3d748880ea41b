------------------------------ MODULE PrimVis ------------------------------
(***************************************************************************)
(* How the mesh of a primitive reaches the graphics device                 *)
(* (zs/world/scene/Primitive.cpp): queryVkTriMesh on the GUI thread starts *)
(* a coroutine that goes on on the task scheduler, rebuilds the mesh       *)
(* there, posts a command for the GUI thread and ends on the event         *)
(* scheduler.  The processing flag, the dirty flags, the time code, the    *)
(* count of primitives in flight (zs/world/system/ResourceSystem.hpp) and  *)
(* ZsExecSystem::flush() tie them together.                                *)
(*                                                                         *)
(* The loop of the GUI is not in the repository.  What the repository says *)
(* of it is modelled: the commands are "processed at the end of each       *)
(* iteration" once no primitive is in flight, and flush() comes last.      *)
(*                                                                         *)
(* A wait() of a scheduler returns when it holds no job, which is what     *)
(* theorem CountersExact of module SchedulerProofs is about.               *)
(***************************************************************************)
EXTENDS Integers, FiniteSets, Bags, FiniteSetsExt

CONSTANTS Prims,
          Skel,       \* those with a skeletal animation
          VertColored, FaceColored, PointColored,
                      \* those with a color, by what the color belongs to
          Keyed,      \* those whose color has a key frame at each time code
          Broken,     \* those whose mesh build throws, having no key frames
          TimeCodes,  \* a set of integers
          First,      \* the interval of the skeletal animations
          Final,
          NaN,        \* the default time code
          None,       \* the pose of a mesh that was never built
          MaxPaint    \* bound: how often a primitive is painted

Colored == VertColored \cup FaceColored \cup PointColored

ASSUME PrimVisAssumption ==
  /\ IsFiniteSet(Prims)
  /\ Skel \subseteq Prims /\ Colored \subseteq Prims /\ Broken \subseteq Prims
  /\ Keyed \subseteq Colored /\ Broken \cap Colored = {}
  /\ VertColored \cap FaceColored = {} /\ VertColored \cap PointColored = {}
  /\ FaceColored \cap PointColored = {}
  /\ TimeCodes \subseteq Int /\ TimeCodes # {} /\ IsFiniteSet(TimeCodes)
  /\ First \in Int /\ Final \in Int /\ First <= Final
  /\ NaN \notin Int /\ None \notin Int \cup {NaN}
  /\ MaxPaint \in Nat

VARIABLES
  processing,  \* _processingFlag
  dirty,       \* _dirtyFlag; Color stands for the attributes that are no shape
  curTc,       \* _curTimeCode
  co,          \* _vkTriMeshAsync: the flavour of the coroutine, where it is, its argument
  verts,       \* the color of the vertices of the primitive, from which the mesh is built
  mesh,        \* what _triMesh shows
  vk,          \* what _vkTriMesh shows
  cmds,        \* _visBufferTaskQueue
  inFlight,    \* _primInFlight
  signal,      \* the emission of onPrimInFlightChanged that each coroutine owes
  heard,       \* the sum of the values its observers have received
  returning,   \* the primitives whose worker is yet to return to its loop
  gui          \* where the GUI thread is in its loop

vars == <<processing, dirty, curTc, co, verts, mesh, vk, cmds, inFlight, signal, heard, returning,
          gui>>

AllTcs      == TimeCodes \cup {NaN}
Flags       == {"Topo", "Pos", "Color", "TimeCode"}
MaskShape   == {"Topo"}
MaskAttrib  == {"Topo", "Pos", "Color"}
NoneShape   == MaskAttrib \ MaskShape

\* getTimeCodeSegmentIndex: no key frame is later than NaN, which is thus in the last one.
Segment(tc) == IF tc = NaN THEN Max(TimeCodes) ELSE tc

\* What a mesh built for a time code shows: the pose of the skeleton, the key frame of the
\* color, and how often it was painted.
Pose(p, tc) == IF p \notin Skel \/ tc = NaN THEN NaN
               ELSE IF tc < First THEN First ELSE IF tc > Final THEN Final ELSE tc
Key(p, tc)  == IF p \in Keyed THEN Segment(tc) ELSE NaN
Empty       == [pose |-> None, key |-> NaN, paint |-> 0]
Shown       == {Empty}
               \cup [pose : AllTcs \cup {First, Final}, key : AllTcs, paint : 0 .. MaxPaint]

\* The color of the vertices or nodes: that of one that painting reaches.
Color(k, n) == [key |-> k, paint |-> n]
NoColor     == Color(None, 0)
Colors      == [key : AllTcs, paint : 0 .. MaxPaint]

Stages == {"none", "start", "queued", "building", "body", "posted", "counted", "event", "done",
           "failed"}

TypeOK ==
  /\ processing \in [Prims -> BOOLEAN]
  /\ dirty \in [Prims -> SUBSET Flags]
  /\ curTc \in [Prims -> AllTcs]
  /\ co \in [Prims -> [kind : {"mesh", "attrib"}, at : Stages, tc : AllTcs]]
  /\ verts \in [Prims -> {NoColor} \cup Colors]
  /\ mesh \in [Prims -> Shown]
  /\ vk \in [Prims -> Shown]
  /\ IsABag(cmds)
  /\ \A c \in BagToSet(cmds) :
       c \in [prim : Prims, kind : {"mesh", "attrib"}, tc : AllTcs] /\ cmds[c] = 1
  /\ inFlight \in 0 .. Cardinality(Prims)
  /\ signal \in [Prims -> {-1, 0, 1}]
  /\ heard \in Int
  /\ returning \subseteq Prims
  /\ gui \in {"query", "call", "drain", "flushTasks", "flushEvents"}

Init ==
  /\ processing = [p \in Prims |-> FALSE]
  /\ dirty = [p \in Prims |-> Flags]
  /\ curTc = [p \in Prims |-> NaN]
  /\ co = [p \in Prims |-> [kind |-> "mesh", at |-> "none", tc |-> NaN]]
  /\ verts = [p \in Prims |-> NoColor]
  /\ mesh = [p \in Prims |-> Empty]
  /\ vk = [p \in Prims |-> Empty]
  /\ cmds = EmptyBag
  /\ inFlight = 0
  /\ signal = [p \in Prims |-> 0]
  /\ heard = 0
  /\ returning = {}
  /\ gui = "query"

-----------------------------------------------------------------------------
(* queryVkTriMesh, on the GUI thread.                                      *)

\* meshRequireUpdate, the part about the skeleton: what it returns.
Moves(p, tc) ==
  /\ curTc[p] # tc
  /\ p \in Skel
  /\ NaN \notin {curTc[p], tc} =>
       ~((curTc[p] < First /\ tc < First) \/ (curTc[p] > Final /\ tc > Final))

\* The flags that it sets besides.
Flagged(p, tc) ==
  {f \in {"Pos"} : Moves(p, tc)}
  \cup {f \in {"Color"} : curTc[p] # tc /\ p \in Keyed /\ Segment(curTc[p]) # Segment(tc)}

\* The coroutine is assigned to the future, which destroys the one before, and runs up to
\* inc_inflight_prim_cnt.
Launch(p, kind, tc) ==
  /\ processing' = [processing EXCEPT ![p] = TRUE]
  /\ co' = [co EXCEPT ![p] = [kind |-> kind, at |-> "start", tc |-> tc]]
  /\ inFlight' = inFlight + 1
  /\ signal' = [signal EXCEPT ![p] = IF inFlight = 0 THEN 1 ELSE 0]
  /\ gui' = "call"
  /\ UNCHANGED <<curTc, verts, mesh, vk, cmds, heard, returning>>

\* The processing flag is not looked at.
QueryMesh_Always(p, tc) ==
  /\ gui = "query"
  /\ co[p].at = "none" \/ Moves(p, tc)
  /\ dirty' = [dirty EXCEPT ![p] = @ \cup Flagged(p, tc)
                                     \cup {f \in {"TimeCode"} : Moves(p, tc)}]
  /\ Launch(p, "mesh", tc)

\* The mesh is to be rebuilt: there is none, or the skeleton has moved.
QueryMesh(p, tc) ==
  /\ gui = "query"
  /\ ~processing[p]
  /\ co[p].at = "none" \/ Moves(p, tc)
  /\ dirty' = [dirty EXCEPT ![p] = @ \cup Flagged(p, tc)
                                     \cup {f \in {"TimeCode"} : Moves(p, tc)}]
  /\ Launch(p, "mesh", tc)

\* Only attributes are dirty.
QueryAttrib(p, tc) ==
  /\ gui = "query"
  /\ ~processing[p]
  /\ co[p].at # "none" /\ ~Moves(p, tc)
  /\ (dirty[p] \cup Flagged(p, tc)) \cap NoneShape # {}
  /\ dirty' = [dirty EXCEPT ![p] = @ \cup Flagged(p, tc)]
  /\ Launch(p, "attrib", tc)

\* assign_zsmesh_colors, by the GUI, whatever the coroutine of the primitive is doing.  A mesh
\* with a color is painted, and write_zs_mesh_points_to_simple_mesh_verts copies its color to
\* the vertices it was built from; the flag is set in any case.
Paint(p) ==
  /\ gui = "query"
  /\ mesh[p].pose # None
  /\ IF p \in Colored
       THEN LET n == mesh[p].paint + 1 IN
            /\ n <= MaxPaint
            /\ mesh' = [mesh EXCEPT ![p].paint = n]
            /\ verts' = [verts EXCEPT ![p] = Color(mesh[p].key, n)]
       ELSE UNCHANGED <<mesh, verts>>
  /\ dirty' = [dirty EXCEPT ![p] = @ \cup {"Color"}]
  /\ UNCHANGED <<processing, curTc, co, vk, cmds, inFlight, signal, heard, returning, gui>>

-----------------------------------------------------------------------------
(* vkTriMeshAsync and vkTriMeshAttribAsync.  The former goes on on a       *)
(* worker of the task scheduler, the latter runs on the GUI thread until   *)
(* it is handed to the event scheduler.                                    *)

At(p, stage) == co' = [co EXCEPT ![p].at = stage]

\* The owed emission of onPrimInFlightChanged.
Emit(p) ==
  /\ heard' = heard + signal[p]
  /\ signal' = [signal EXCEPT ![p] = 0]

\* The GUI thread returns from resume() once the coroutine is queued, ...
Depart(p) ==
  /\ co[p].at = "start" /\ co[p].kind = "mesh"
  /\ Emit(p)
  /\ At(p, "queued")
  /\ gui' = "query"
  /\ UNCHANGED <<processing, dirty, curTc, verts, mesh, vk, cmds, inFlight, returning>>

\* ... or goes on with the coroutine itself.
Stay(p) ==
  /\ co[p].at = "start" /\ co[p].kind = "attrib"
  /\ Emit(p)
  /\ At(p, "body")
  /\ UNCHANGED <<processing, dirty, curTc, verts, mesh, vk, cmds, inFlight, returning, gui>>

\* A worker resumes the coroutine, and updatePrimFromKeyFrames copies the color, flagged or
\* not, to what it belongs to.
BeginBuild(p) ==
  /\ co[p].at = "queued"
  /\ verts' = IF p \in VertColored THEN [verts EXCEPT ![p] = Color(Key(p, co[p].tc), 0)]
                                   ELSE verts
  /\ At(p, "building")
  /\ UNCHANGED <<processing, dirty, curTc, mesh, vk, cmds, inFlight, signal, heard, returning,
                 gui>>

\* assign_simple_mesh_to_zsmesh: the color of the faces goes to the vertices, whose color
\* hides that of the points.
Built(p) == IF p \in FaceColored \/ verts[p] = NoColor THEN Color(Key(p, co[p].tc), 0)
                                                      ELSE verts[p]

EndBuild(p) ==
  /\ co[p].at = "building"
  /\ p \notin Broken
  /\ mesh' = [mesh EXCEPT ![p] = [pose |-> Pose(p, co[p].tc), key |-> Built(p).key,
                                  paint |-> Built(p).paint]]
  /\ verts' = IF p \in FaceColored THEN [verts EXCEPT ![p] = Built(p)] ELSE verts
  /\ At(p, "body")
  /\ UNCHANGED <<processing, dirty, curTc, vk, cmds, inFlight, signal, heard, returning, gui>>

\* zsMeshAsync throws, and the exception ends vkTriMeshAsync.
FailBuild(p) ==
  /\ co[p].at = "building"
  /\ p \in Broken
  /\ At(p, "failed")
  /\ UNCHANGED <<processing, dirty, curTc, verts, mesh, vk, cmds, inFlight, signal, heard,
                 returning, gui>>

\* The command is posted.
Post(p) ==
  /\ co[p].at = "body"
  /\ cmds' = cmds (+) SetToBag({[prim |-> p, kind |-> co[p].kind, tc |-> co[p].tc]})
  /\ At(p, "posted")
  /\ UNCHANGED <<processing, dirty, curTc, verts, mesh, vk, inFlight, signal, heard, returning,
                 gui>>

\* The last one is the one that leaves 1, not 0.
Land_OffByOne(p) ==
  /\ co[p].at = "posted"
  /\ inFlight' = inFlight - 1
  /\ signal' = [signal EXCEPT ![p] = IF inFlight' = 1 THEN -1 ELSE 0]
  /\ At(p, "counted")
  /\ UNCHANGED <<processing, dirty, curTc, verts, mesh, vk, cmds, heard, returning, gui>>

\* dec_inflight_prim_cnt.
Land(p) ==
  /\ co[p].at = "posted"
  /\ inFlight' = inFlight - 1
  /\ signal' = [signal EXCEPT ![p] = IF inFlight = 1 THEN -1 ELSE 0]
  /\ At(p, "counted")
  /\ UNCHANGED <<processing, dirty, curTc, verts, mesh, vk, cmds, heard, returning, gui>>

\* The coroutine is handed to the event scheduler.
Leave(p) ==
  /\ co[p].at = "counted"
  /\ Emit(p)
  /\ At(p, "event")
  /\ IF co[p].kind = "mesh"
       THEN returning' = returning \cup {p} /\ UNCHANGED gui
       ELSE gui' = "query" /\ UNCHANGED returning
  /\ UNCHANGED <<processing, dirty, curTc, verts, mesh, vk, cmds, inFlight>>

\* The worker of the task scheduler is back in its loop; decNumJob.
Return(p) ==
  /\ p \in returning
  /\ returning' = returning \ {p}
  /\ UNCHANGED <<processing, dirty, curTc, co, verts, mesh, vk, cmds, inFlight, signal, heard,
                 gui>>

\* The worker of the event scheduler resumes the coroutine, which returns; decNumJob.
Finish(p) ==
  /\ co[p].at = "event"
  /\ At(p, "done")
  /\ UNCHANGED <<processing, dirty, curTc, verts, mesh, vk, cmds, inFlight, signal, heard,
                 returning, gui>>

-----------------------------------------------------------------------------
(* The GUI thread at the end of an iteration.                              *)

EndQueries ==
  /\ gui = "query"
  /\ gui' = "drain"
  /\ UNCHANGED <<processing, dirty, curTc, co, verts, mesh, vk, cmds, inFlight, signal, heard,
                 returning>>

\* updateAttribsFromMesh uploads the attributes that are dirty.
Updated(p) ==
  [pose  |-> IF "Pos" \in dirty[p] THEN mesh[p].pose ELSE vk[p].pose,
   key   |-> IF "Color" \in dirty[p] THEN mesh[p].key ELSE vk[p].key,
   paint |-> IF "Color" \in dirty[p] THEN mesh[p].paint ELSE vk[p].paint]

\* The command leaves the queue, and the primitive is idle again.
Take(c) ==
  /\ gui = "drain"
  /\ inFlight = 0
  /\ BagIn(c, cmds)
  /\ cmds' = cmds (-) SetToBag({c})
  /\ processing' = [processing EXCEPT ![c.prim] = FALSE]
  /\ UNCHANGED <<co, verts, mesh, inFlight, signal, heard, returning, gui>>

\* The command takes the attributes for uploaded although it has not looked at them.
RunMeshCmd_TopoOnly(c) ==
  /\ c.kind = "mesh"
  /\ Take(c)
  /\ LET p == c.prim IN
     /\ vk' = IF "Topo" \in dirty[p] THEN [vk EXCEPT ![p] = mesh[p]] ELSE vk
     /\ dirty' = [dirty EXCEPT ![p] = {}]
     /\ curTc' = IF "TimeCode" \in dirty[p] THEN [curTc EXCEPT ![p] = c.tc] ELSE curTc

\* The command does not mark the primitive idle.
RunMeshCmd_Busy(c) ==
  /\ c.kind = "mesh"
  /\ gui = "drain"
  /\ inFlight = 0
  /\ BagIn(c, cmds)
  /\ cmds' = cmds (-) SetToBag({c})
  /\ LET p == c.prim IN
     /\ vk' = [vk EXCEPT ![p] = IF "Topo" \in dirty[p] THEN mesh[p]
                                ELSE IF dirty[p] \cap MaskAttrib # {} THEN Updated(p) ELSE @]
     /\ dirty' = [dirty EXCEPT ![p] = {}]
     /\ curTc' = IF "TimeCode" \in dirty[p] THEN [curTc EXCEPT ![p] = c.tc] ELSE curTc
  /\ UNCHANGED <<processing, co, verts, mesh, inFlight, signal, heard, returning, gui>>

\* The command of vkTriMeshAsync.
RunMeshCmd(c) ==
  /\ c.kind = "mesh"
  /\ Take(c)
  /\ LET p == c.prim IN
     /\ vk' = [vk EXCEPT ![p] = IF "Topo" \in dirty[p] THEN mesh[p]
                                ELSE IF dirty[p] \cap MaskAttrib # {} THEN Updated(p) ELSE @]
     /\ dirty' = [dirty EXCEPT ![p] = {}]
     /\ curTc' = IF "TimeCode" \in dirty[p] THEN [curTc EXCEPT ![p] = c.tc] ELSE curTc

\* The command of vkTriMeshAttribAsync.
RunAttribCmd(c) ==
  /\ c.kind = "attrib"
  /\ Take(c)
  /\ vk' = [vk EXCEPT ![c.prim] = Updated(c.prim)]
  /\ dirty' = [dirty EXCEPT ![c.prim] = @ \ MaskAttrib]
  /\ UNCHANGED curTc

\* The queue is empty, or the commands are left for a later iteration.
EndDrain ==
  /\ gui = "drain"
  /\ inFlight # 0 \/ cmds = EmptyBag
  /\ gui' = "flushTasks"
  /\ UNCHANGED <<processing, dirty, curTc, co, verts, mesh, vk, cmds, inFlight, signal, heard,
                 returning>>

\* The coroutines that the task scheduler and the event scheduler hold.
TaskJobs  == {p \in Prims : co[p].kind = "mesh"
                            /\ co[p].at \in {"queued", "building", "body", "posted", "counted"}}
             \cup returning
EventJobs == {p \in Prims : co[p].at = "event"}

\* Only the event scheduler is waited for.
FlushTasks_Skip ==
  /\ gui = "flushTasks"
  /\ gui' = "flushEvents"
  /\ UNCHANGED <<processing, dirty, curTc, co, verts, mesh, vk, cmds, inFlight, signal, heard,
                 returning>>

\* flush(): wait() of the task scheduler returns, ...
FlushTasks ==
  /\ gui = "flushTasks"
  /\ TaskJobs = {}
  /\ gui' = "flushEvents"
  /\ UNCHANGED <<processing, dirty, curTc, co, verts, mesh, vk, cmds, inFlight, signal, heard,
                 returning>>

\* ... and that of the event scheduler.  (The dedicated one has no jobs here.)
FlushEvents ==
  /\ gui = "flushEvents"
  /\ EventJobs = {}
  /\ gui' = "query"
  /\ UNCHANGED <<processing, dirty, curTc, co, verts, mesh, vk, cmds, inFlight, signal, heard,
                 returning>>

-----------------------------------------------------------------------------
Coroutine(p) ==
  \/ Depart(p) \/ Stay(p) \/ BeginBuild(p) \/ EndBuild(p) \/ FailBuild(p) \/ Post(p)
  \/ Land(p) \/ Leave(p) \/ Return(p) \/ Finish(p)

Iteration ==
  \/ EndQueries \/ EndDrain \/ FlushTasks \/ FlushEvents
  \/ \E c \in BagToSet(cmds) : RunMeshCmd(c) \/ RunAttribCmd(c)

Next ==
  \/ \E p \in Prims, tc \in TimeCodes : QueryMesh(p, tc) \/ QueryAttrib(p, tc)
  \/ \E p \in Prims : Paint(p) \/ Coroutine(p)
  \/ Iteration

Spec == Init /\ [][Next]_vars

\* Threads are scheduled, a mesh build ends, and the GUI keeps iterating.  Nobody has to
\* query or to paint.
Fairness == (\A p \in Prims : WF_vars(Coroutine(p))) /\ WF_vars(Iteration)

FairSpec == Spec /\ Fairness

-----------------------------------------------------------------------------
\* The coroutine of p is before the posting of its command.
Preparing(p) == co[p].at \in {"start", "queued", "building", "body"}

\* A primitive is processing exactly while one coroutine prepares its command, one command
\* is queued, or the build has failed: no mesh is rebuilt under a command that reads it
\* (the lambdas of Primitive.cpp:519 and 564 hold references), no command is lost.
ProcessingIsOwned ==
  \A p \in Prims :
    LET queued == MapThenSumSet(LAMBDA c : cmds[c], {c \in BagToSet(cmds) : c.prim = p})
        owners == queued + (IF Preparing(p) \/ co[p].at = "failed" THEN 1 ELSE 0) IN
    owners = (IF processing[p] THEN 1 ELSE 0)

\* A query that may launch a coroutine finds the one it destroys done, and its worker gone:
\* nobody resumes or returns to a frame that was freed (Primitive.cpp:624 and 628).  It is
\* flush() that makes it so, although the processing flag falls much earlier.
FrameIsDone ==
  \A p \in Prims : gui = "query" /\ ~processing[p] =>
    co[p].at \in {"none", "done"} /\ p \notin returning

\* _primInFlight is the number of coroutines between inc_inflight_prim_cnt and
\* dec_inflight_prim_cnt, and the emissions, received or owed, add up to whether there is
\* one, in whatever order the GUI and the workers emit them (ResourceSystem.hpp:191-198).
InFlightIsExact ==
  /\ inFlight = Cardinality({p \in Prims : Preparing(p) \/ co[p].at \in {"posted", "failed"}})
  /\ heard + MapThenSumSet(LAMBDA p : signal[p], Prims) = (IF inFlight > 0 THEN 1 ELSE 0)

\* The rebuild for another pose has put the key frame in the place of the paint, and no flag
\* says so: the color has no other key frame (Primitive.cpp:92 and 390).
Overpainted(p) ==
  p \in Skel \ Keyed /\ p \in VertColored \cup FaceColored /\ mesh[p].paint = 0

SameColor(p) == /\ vk[p].key = mesh[p].key
                /\ vk[p].paint = mesh[p].paint \/ Overpainted(p)

\* An idle primitive is shown in the pose of its mesh, which is that of the current time code
\* ("only update timecode after all other prim states are done updated", Primitive.cpp:541),
\* and in the color of its mesh unless a flag says that it is to be uploaded: wherever the GUI
\* has painted between the steps of a rebuild, and except for paint that a rebuild has
\* replaced unseen.
DeviceIsCurrent ==
  \A p \in Prims : ~processing[p] /\ co[p].at # "none" =>
    /\ vk[p].pose = mesh[p].pose
    /\ vk[p].pose = Pose(p, curTc[p])
    /\ "Color" \notin dirty[p] => SameColor(p)

\* A primitive does not stay busy, unless a mesh build has thrown: then the count never
\* falls to 0 again and every command is left in the queue.
ProcessingEnds ==
  \A p \in Prims :
    processing[p] ~> (~processing[p] \/ \E b \in Prims : co[b].at = "failed")

\* "zsmesh is already updated" (Primitive.cpp:556): the mesh whose attributes
\* vkTriMeshAttribAsync uploads shows the color of the time code that was asked for.
ZsMeshIsUpdated ==
  \A p \in Prims :
    co[p].kind = "attrib" /\ co[p].at \notin {"none", "done"} =>
      mesh[p].key = Key(p, co[p].tc)
=============================================================================
