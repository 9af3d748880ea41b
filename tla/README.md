# zs-world, modelled in TLA+

zs-world is the core of a 3D content tool: scene primitives and their key frames, meshes
that are rebuilt asynchronously and uploaded to the graphics device, a coroutine library
with thread pools, resources (scripts, shaders, USD files), undo, a node graph, a Python
interpreter, and a C interface. This directory holds the models of the parts of it that are
protocols, the algorithms that take meshes from one form to another, the TLC runs that check
them and the TLAPS proofs about the central ones.

Paths below are relative to `src/zs/world/` unless they start with `src/`.

## 1. Inventory

| part | state | operations | hard behaviour | what makes it correct | module |
|---|---|---|---|---|---|
| **Scheduler** `async/Executor.hpp`, `.cpp` | a staging queue, a shared queue, one queue and one status word per worker, two counters, stop tokens | `enqueue`, `emplace`/`start`, `schedule`, `persistent_schedule`, `wait`, `tick`, `request_stop`, destructor; worker loop | sleeping and waking without a lock; signals to workers in any state; counters read by `wait()`; shutdown | no lost wake-up; exact counters; a job runs once; `wait()`, destructor return, and not too early | Scheduler, JobPool |
| **Task graphs** (same files) | `_numDeps`, `_state`, the coroutine of each node | `to`, `schedule(CoroTaskNode*)`, `process(CoroTaskNode*)` | the walk from a node to its predecessors against the workers' countdown | a node runs once, after its predecessors, and all run | TaskGraph |
| **when_all, sync_wait** `async/Awaitables.hpp`, `async/Event.cpp` | the counter, the root coroutine, the futex word | start, completion of a task, `set`, `wait` | last decrement by task or root; set between load and sleep | the root goes on once, after all; the waiting thread wakes | WhenAll |
| **AsyncFlag** `async/Awaitables.hpp` | one word: nothing, the flag, or a list of awaiters | `co_await`, `set`, `reset` | lock-free push against push and set | whoever suspends is in the list | AsyncFlag |
| **Coroutine types** `async/Coro.hpp`, `Generator.hpp`, `StateMachine.hpp` | result, suspension flag, continuation | `resume`, `co_await`, `get`, `onEvent` | use after the end; the suspension flag | a done coroutine is seen done, and not resumed | not modelled |
| **Primitive meshes** `scene/Primitive.*` | processing flag, dirty flags, time code, mesh, device mesh, coroutine | `queryVkTriMesh`, the two coroutines, `assign_zsmesh_colors` | GUI thread, task worker and event worker share one primitive; commands run an iteration later; a build may throw | one owner at a time; frames are not freed under a worker; device shows what flags say | PrimVis |
| **Execution system** `system/ZsExecSystem.*` | three schedulers, the command queue | `flush`, `schedule_as_*` | coroutines change schedulers | flush leaves nothing behind | PrimVis |
| **Key frames** `scene/Primitive.hpp` | ordered map, its cached sequence, a dirty flag | `emplace`, segment lookup, serialise | stale cache; boundaries of the binary search | lookup = last key not after the time code; what is not flagged does not change | UsdImport, MeshPipeline |
| **Scene contexts** `scene/SceneContext.*`, `Timeline.hpp` | primitives by label, by id, in order; timeline | register, remove, set time code | registration that throws half way | the three indices agree; the timeline covers what was registered | UsdScenes |
| **Resource system** `system/ResourceSystem.*` | scripts, USD entries, shaders, textures, widget and primitive ids, in-flight count, notifications | load, save, close, register, recycle | calls in unusual orders; observers told of what did not happen | entries agree with scenes; an id has one owner | UsdScenes (USD files), PrimVis (in-flight count) |
| **Python execution** `system/PyExecSystem.*` | one coroutine, thread state | `assignTask`, `tryFinish`, `reset` | GUI thread polls while the dedicated worker returns | the frame outlives the worker's use of it | not modelled |
| **Signals** `core/Signal.hpp` | plain and tagged slots, connections | connect, assign, remove, emit | slots that change the signal while it is emitted | a snapshot is called, nothing freed is | not modelled |
| **Undo, redo** `core/Command.cpp` | list of commands, iterator, two sizes | execute, undo, redo | long mixed sequences | the sizes are the distances from the iterator to the ends | not modelled |
| **Archives** `core/Archive.*` | buffer, file name, modified flag | load, save, assign | failing I/O, mode of the file | what was saved is loaded | not modelled |
| **USD scenes** `usd/*`, `World.cpp`, `SceneInterface.cpp` | scenes by name, their stages, the edit flag, layers shared through USD | create, open, export, remove; create, remove and move prims; meshes of prims | a flag of a scene guards the operations of a file | saved edits are not overwritten; a mesh survives the way to USD and back | UsdScenes, UsdPrim |
| **Node graph** `node/*`, `src/zs/plugins/` | libraries, factories | load plugins, create nodes | reloads and duplicates | a factory outlives its nodes | not modelled |
| **Mesh conversion** `scene/Primitive*Forms.cpp`, `PrimitiveTransform.cpp`, `PrimitiveOperation.cpp` | points, vertices, polygons, simple prims and their properties | import, update to a time code, triangulate, split points, paint, write back | index arithmetic, parallel loops with locks, arrays reused from one time code to the next | what is shown is the source at its time code, whatever was shown before | PrimitiveForms, UsdImport, MeshSplit, MeshPipeline |
| **Simple shapes** `geometry/SimpleGeom.cpp` | none | spheres, boxes, ... | faces found by distances between vertices | solids are closed and oriented | SimpleGeom |
| **Shader runtime** `render/shader_runtime/` | virtual files, cached libraries | load, map a directory, add a file | documentation promises a cache | | not modelled |
| Camera, the rest of the C interface, Python and zpc bindings | | | | | not modelled: floating-point geometry, forwarding, bindings |

How they interact. Every asynchronous activity is a coroutine that hands itself to one of
the three schedulers of the execution system: four workers for tasks, one for events, one
dedicated. A primitive's coroutine goes from the GUI thread to a task worker and ends on the
event worker; it talks back through the command queue and through the in-flight count, whose
changes are emitted as a signal. The GUI thread calls `flush()`, which is three `wait()`s,
at the end of each iteration. So the counters of the scheduler carry the memory safety of
the coroutines: that is why the scheduler comes first, and why its proofs do.

Scripts and the editor reach scenes on the GUI thread, call after call: a scene that
is loaded is read into a primitive once, which the scene context keeps with its key frames,
and every later time code is served from those.

`PROJECT.json` lists the hazards with their lines, and which property guards each.

## 2. Plan

1. *(done)* `Scheduler` with its abstract specification `JobPool`; `SchedulerProofs`.
2. *(done)* `TaskGraph`, `WhenAll`, `AsyncFlag`: the other synchronisation of `async/`.
3. *(done)* `PrimVis`: the composition of primitives, in-flight count, command queue and
   flush.
4. *(done)* Meshes: `PrimitiveForms`, `UsdImport`, `SimpleGeom` and `UsdPrim` as operators,
   `MeshSplit` for the parallel loops, and `MeshPipeline`, which takes a source through all
   of them and compares the result with a reference made of the source alone.
5. *(done)* `UsdScenes`: scenes, stages and layers, the USD files of the resource system,
   the default scene context and its timeline, in any order of calls; `UsdScenesProofs`.
6. *(done)* Theorems for every value of the constants: `WhenAllProofs`, `TaskGraphProofs`,
   `PrimVisProofs`, `MeshProofs`, and the timeline in `UsdScenesProofs`, on the lemmas of
   `SetFacts`.
7. *(done)* `FrameProofs`, about key frames and the mesh that a source is at a time code,
   and on it the rest of `MeshProofs`: the way of a mesh as a whole.
8. Theorems still to be stated: `ImportsAgree` with the conditions on properties under which
   it holds, the parts of `FormsAgree` about visual meshes and written-back properties, and
   sources that lose their last face.

Modules to be proved about declare their parameters as CONSTANTS with a named assumption,
have one action per operation and no RECURSIVE operator.

## 3. Modules and how they correspond to the code

The file `PROJECT.json` maps each definition to the lines it stands for.

**JobPool** is what the users of a scheduler rely on: a job is *new*, *accepted* or *done*;
a `wait()` that returns has seen no accepted finite job; after the destructor's `wait()`
only a pool that was given a persistent task may still take jobs.

**Scheduler** is `Scheduler` with its workers. `place[j]` says which queue a job is in, or
whether it is staged by `emplace()`, in the hands of `enqueue_`, in `process()`, or
finished. Queues are sets: moodycamel's queue orders only what one producer enqueues.
`status[w]` is `Worker::_status`; `pc[w]` is the place of the worker in its loop with one
value between any two accesses to shared state: `exchange(1)`, the stop test after it, the
drain loops (`loop` says which), `process()`, the gap between `decNumTask()` and the
re-enqueue of a persistent task, `exchange(0)`, `wait(0)`, the loop's condition,
`store(-1)`. `call[t]` is the call of `enqueue_`, `signalOne` or `signalAll` that a thread
is in: count, push and signal are separate steps, and the workers of a `signalAll` are
signaled in any order. `act[c]` is what a client does: `start()`, the loop of `wait()` and
`tick()`, and the destructor (`dwait`, `stop`, `join`, `gone`). A job that runs may enqueue
other jobs, on any queue; this is how `co_await scheduler.schedule()` acts.
`compare_exchange_weak` failing spuriously in `notifyAll` is a tick that does nothing.

**TaskGraph** adds `CoroTaskNode`s. `stack` holds the calls of the recursive `schedule()`,
each with the predecessors it has yet to visit, so that workers can act between two visits.
`enqueue_` is one step here, its detail being Scheduler's.

**WhenAll** is `sync_wait(when_all_ready(...))` down to `FUTEX_WAIT` and `FUTEX_WAKE`, which
are modelled from their use: compare and sleep are one step, a sleep may end spuriously.

**AsyncFlag** is the push loop of `await_suspend` and `set()`, one access to the word per
step.

**PrimVis** composes `Primitive.cpp`, the in-flight count, the command queue and `flush()`.
`co[p]` is the coroutine in `_vkTriMeshAsync`: its flavour (mesh or attributes), its time
code, and where it is, with one value between any two accesses to state it shares. A mesh is
the pose of the skeleton, the key frame of the colour and the number of times it was
painted: enough to tell whether the device shows what it should. Color stands for all
attributes that are not shape and not position, and it is that of one node that painting
reaches: `verts` is the colour of the vertices, from which the next mesh is built. Whether
paint gets there and what a rebuild writes over it depends on what the colour belongs to
(`VertColored`, `FaceColored`, `PointColored`): vertices and faces have their key frame
copied back to the vertices whenever the mesh is rebuilt, also when the colour has but one
and is not flagged. `assign_zsmesh_colors` looks at no flag, so `Paint` is possible wherever
the primitive's coroutine is, between any two of its steps. What a data race with
a rebuild may leave in one array, some nodes painted and others not, or nodes of a mesh that
has changed its size meanwhile, is not modelled. A scheduler's `wait()` appears as the
condition that it holds no job, which is the theorem `CountersExact`. The loop of the GUI is
not in this repository; what is taken from the comments is that commands are run "at the end
of each iteration" when no primitive is in flight (`vis_prims_ready`) and that `flush()`
comes last. These two are the external definitions `EndQueries`, `EndDrain`.

The next six modules are about what PrimVis takes for granted: the meshes.

**PrimitiveForms** has no variables. A primitive is a record: positions, vertices (the point
of each corner), polygons (ranges of vertices), the simple points, lines and triangles made
of them, and the properties of each of these owners as functions from names to sequences.
`Setup` is `setup_simple_mesh_for_poly_mesh` with its scans; `WriteBack`, `ToVerts`,
`ZsToVerts` are the copies between owners with their precedence (polygons write last);
`ToUsd`, `ToTriMesh`, `AssignTriMesh`, `VisualTo` the ways out and in. A coordinate, a color
or a normal is a number that only has to be told apart from others, so the loops over
channels are gone; an index stays an index. `Zero` is what an appended property holds,
`Default` a color nobody gave.

**UsdImport** reads USD meshes. An attribute is a function from its time samples, or from
`NaN`, the default time code; `Held` is USD's value resolution without interpolation, and
external. `ImportAt` is `assign_usdmesh_to_primitive`; `KeyFrames` is
`build_primitive_from_usdprim`, with one retrieval per property (`RetrieveUv`,
`RetrieveBySize`); `SegmentOf` and `Frame` are the search in `KeyFrames<T>`;
`meshRequireUpdate` says what a new time code flags; `Update` is `updatePrimFromKeyFrames`,
which writes into the arrays that earlier time codes left behind. `Garbage` is what a read
beyond an array gives; no property may depend on it.

The two ways differ in skinning. `ImportAt` hangs the points on their skeleton at once
(`Hanging`, `_applySkinning`; normals keep their rest pose, "TODO: normals"). The retrieval of
key frames has that call commented out (`scene/PrimitiveFromOtherForms.cpp:290`): the
positions that it keeps are those of the rest pose, and `Skinned` in MeshPipeline moves them
when the primitive is brought to a time code.

**MeshSplit** is the loop nest of `assign_simple_mesh_to_zsmesh` and
`assign_simple_mesh_to_visual_mesh`. The prims of one kind are visited by threads, in any
order, one property after the other; `Compare` is one corner under the lock of its point.
`known` is `vertIdsPerPoint`, `props` is `pvdProps`; a loop is made for each property that
the vertices have, or one for the vertices themselves. What follows the loops (`Offset`,
`Nodes`, `NodeOf`) is sequential.

**SimpleGeom** gives the faces of each shape; `createCube` keeps the arithmetic of the code,
in which vertices inside the box do not count. **UsdPrim** has the two conversions of
`USDScenePrim` between USD and triangle meshes, and the copy of a prim.

**MeshPipeline** puts them together: a primitive is built, brought to a time code, made
simple, split, and shown, and again for the next time code; nodes may be painted and the
scene closed in between. The steps of one rebuild are one coroutine, and PrimVis shows that
a primitive has one at a time, so each is one action here and only the loops interleave.
Painting is not kept apart from them by anything in the code. Here a mesh is painted between
two rebuilds only; painting while one goes on is in PrimVis, for a single node.
MCMeshPipeline has the sources.

**UsdScenes** is sequential: all of its callers are on the main thread, in any order.
`stage` maps the scenes of the scene manager to the layer their stage is open on, `layer`
holds the layers in memory (two stages on one file share one, which is what USD does),
`disk` the files. An operation is a prim with the number that `getZpcTransformSuffix`
appends. `entries` is `_usdEntries`, `prims`, `order` and `timeline` are the default
`SceneContext`. The actions under `Python` are the calls of scripts, those under `Editor`
the calls of `ResourceSystem`. A write may fail (`written`), a file may be missing, and
`Register` throws half way when the rate of a scene differs from the first one's.

MCScheduler, MCTaskGraph and MCUsdScenes give symmetry sets, graphs and files to the runs.
SchedulerProofs, TaskGraphProofs, WhenAllProofs, PrimVisProofs and UsdScenesProofs extend
the modules they are named for. FrameProofs extends MeshPipeline and proves what concerns
sources and key frames; MeshProofs extends FrameProofs by what the actions do. SetFacts has
the facts about finite sets that all of them share.

## 4. Runs

| run | instance | shows |
|---|---|---|
| `scheduler` | 2 workers, 1 client (the owner), 2 finite jobs, 1 persistent, single workers may be stopped; 1.9 million states | `TypeOK`, `JobAccounting`, `NoLostWakeup`, and the refinement `ImplementsPool` |
| `scheduler_live` | 2 workers, 1 finite and 1 persistent job, fairness | `JobsRun`, `WaitReturns`, `DestructorReturns` |
| `task_graph` | 7 nodes, 2 targets: the walk from one stops at a node that it meets a second time, and leaves nodes to the walk from the other; 2 workers, fairness; 47 thousand states | nodes run once and in order, counts are exact, `GraphCompletes` |
| `task_graph_walk` | a triangle scheduled from its last node | **violated**: a node is enqueued twice |
| `task_graph_idle` | one edge | **violated**: `wait()` may return between a node and its successor |
| `when_all` | 3 tasks, 2 pool threads, fairness | `CountExact`, `RootResumesOnce`, `NoSleepOnSetEvent`, `SyncWaitReturns` |
| `async_flag` | 2 awaiters | **violated**: an awaiter sleeps that nobody knows |
| `prim_vis` | 3 primitives (skinned, key-framed, failing; the skinned one has its colour on the vertices, the key-framed one on the points), 2 time codes, 1 paint, fairness; 351 thousand states | ownership, frames, in-flight count and its signal, device state, `ProcessingEnds` |
| `prim_vis_attrib` | 1 key-framed primitive | **violated**: the attribute upload sends the old colours |
| `mesh_pipeline` | 6 sources, 4 time codes (NaN, 1, 2, 3), 2 meshes in a row, 59 shapes; 81 thousand states | what is shown is the source at its time code (`ShownIsCurrent`, `AttribsAreCurrent`), no value is lost by the split (`VariantsDiffer`, `NothingIsLost`), paint comes back, the two imports and the flags agree, nothing changes between global time codes, forms agree, shapes are closed |
| `mesh_seams` | the same | **violated**: every corner of a split point gets the first node |
| `usd_scenes` | 2 scenes, 3 files, 1 prim, 6 calls; 298 thousand states | context, order and timeline agree; saved edits stay; the timeline only grows |

Why the bounds are enough. Two workers and one other thread give every pairing of the
scheduler's threads: worker with worker, worker with signaling worker, worker with client;
two finite jobs and a persistent one let a queue hold a job while another runs and a third
is pushed; SYMMETRY is used in the safety run only. What does not depend on the numbers is
proved (section 6). The graph of `task_graph` has two walks that share the node at which the
longer one has to stop: it meets `x` directly and then again behind `z`, and whether what it
leaves out runs depends on the other walk, which may come before, after, or find nodes that
have run. Three joins let two workers finish predecessors of one node at once. Walks that
stop twice, and targets that are scheduled twice, are not in it. Three tasks on two threads
let two tasks finish at the same time while the root is registering. Two time codes give
every change between the default, the first and the last; three primitives are a skinned, an
animated and a broken one, and the count passes through 0, 1, 2, 3. A paint comes between
any two steps of a rebuild; colours on faces, and colours on points with one key frame, are
not in the run, but in the proof. The caps on counters are `MaxPaint`, `MaxShows` and
`MaxCalls`.

The six sources are a triangle and a square with a seam in the texture and a color per face;
a left-handed square, line and point that move; a mesh whose faces change, that hangs on a
skeleton, and whose colors belong to its faces first and then to its points; a triangle mesh
with key frames and without; and a disk. Each owner of a property (points, vertices, faces)
and each kind of prim occurs, and points are shared by two prims of one kind, which is what
the loops race for. Two meshes in a row let every time code follow every other one, and both
kinds of mesh; a third would find arrays no other than those a second one leaves. Boxes have
two to four vertices along each side: with two there is no middle layer, with three one,
with four two that follow each other. Six calls suffice for a scene to be opened, edited,
saved, closed and opened again, or for two scenes to share a file and one to leave it; what
does not depend on the number is proved.

**Deadlock** is checked in every run but `async_flag`, in which the awaiters that the flag
has forgotten are left asleep, and `mesh_pipeline`, `mesh_seams` and `usd_scenes`, which
stop when their calls are used up. SYMMETRY is used in `usd_scenes`, too, which has no
liveness.

The five violations are disagreements of the code with a sentence of its own; each is a
finding in `PROJECT.json`. The shape of task graphs in `task_graph` avoids the first: there
the walk meets no node that a worker can enqueue behind it. `task_graph` checks
`JobsCounted`, which says exactly how far the counter falls short.

## 5. Fairness

`Scheduler!Fairness`: every thread is scheduled (weak fairness for its calls and for its
worker loop), and a job returns. `FinishPersistent` is strongly fair: a persistent task is
done after finitely many resumptions. Without that the code does not promise anything, since
a worker leaves its drain loops only through an empty queue. `Tick` is not fair: no progress
depends on it, which is a stronger result than the code needs. Nobody is obliged to submit,
wait or destroy. The liveness run stops no single worker: `request_stop(workerId)` strands
the jobs in that worker's own queue, which is listed as a hazard.

`TaskGraph!Fairness`, `WhenAll!Fairness`: threads are scheduled and a coroutine is done
after finitely many suspensions; spurious wake-ups are not fair. `PrimVis!Fairness`:
coroutines and the GUI's iteration go on; queries and paints do not have to happen.

MeshPipeline and UsdScenes state no fairness: their calls are made by somebody else, and
each of them ends.

## 6. Proofs

`SchedulerProofs` proves, for all sets of workers and clients, every finite set of jobs and
every choice of persistent ones (`SchedulerAssumption`):

- `SchedulerTypes`: `Spec => []TypeOK`;
- `CountersExact`: `Spec => []JobAccounting`;
- `NoWakeupIsLost`: `Spec => []NoLostWakeup`;
- `SchedulerImplementsPool`: `Spec => ImplementsPool`, the refinement of JobPool.

The last three are not inductive. The invariant `IInv` is `TypeOK`, `JobAccounting` and five
more parts:

- `HoldInv`: the job that a call of `enqueue_` is about to push is held by that call alone
  (otherwise two pushes could count once);
- `RunInv`: a worker inside `process()` has a job of its own, and no other worker has one
  (otherwise a job could be uncounted twice);
- `ClientInv`: a client in `wait()` is in no call of `enqueue_`, and once the owner destroys
  the scheduler no other client is active;
- `WakeInv`: `NoLostWakeup` for every place of the worker's loop. A job in a queue that a
  worker drains will not be overlooked: the worker is before the loop that drains this
  queue, or its status holds a signal, or the pusher's signal is due. `NoLostWakeup` is the
  case of a worker that is past both loops;
- `CloseInv`: once the destructor's `wait()` has returned nothing finite is owed, unless a
  persistent task was ever handed over.

The proof that a step preserves `IInv` has one lemma per part, and in each one step per
action, except that the actions which touch no job and no call are treated together
(`WorkerMove`, `ClientMove`). The counting part rests on lemmas about the cardinality of a
set of jobs when one enters or leaves, from `FiniteSetTheorems`.

`WhenAllProofs` proves, for every number of tasks and every set of threads, that the counter
is exact (`CounterExact`), that the root goes on once and not too early (`RootOnce`) and
that the waiting thread does not sleep through `set()` (`SetIsSeen`). Its invariant adds
`ThreadInv`, a task is in the hands of one thread, and a reporting thread's task is done
(otherwise a task could report twice); `MainInv`, the root is registered exactly when its
thread is through with starting tasks; `RootInv`, the root has gone on, or one thread is
about to let it, exactly if the counter is below zero; `EventInv`, only the root's end sets
the event. The heart of it is `BelowZero`: if the counter is below zero then every task has
reported and the root is registered, so no decrement is left to happen.

`UsdScenesProofs` proves, for any scenes, files, prims, time codes and numbers of calls and
any files to begin with that satisfy `UsdScenesAssumption`, the types (`ScenesTypes`), that
saved transform operations are not overwritten (`SavedEditsStay`) and that the scene context
agrees with itself (`ContextStaysWhole`). `EditsAreSealed` speaks of files alone, and a file
is written from a layer that another scene may have edited. The invariant adds:

- `Stages`: a layer is in memory exactly if a stage is open on it, so a closed file is read
  again and not found as it was;
- `Apart`: two scenes have the same layer only if it is known to be shared, so the layer of
  any other file has one scene, and one edit flag speaks for it;
- `Edits`: an operation that could still be overwritten was edited by a scene that has its
  layer and still has its flag set. With `Apart`, the scene that exports the layer is that
  scene, and the export gives the operation its number.

These parts are stated of values instead of variables (`Good`), since `load_usd` creates a
scene and opens its stage in one call: `GoodCreated` and `GoodOpened` follow each other in
one step. `ContextInv` adds to `ContextAgrees` that as long as the timeline has no rate, no
primitive has one; otherwise the first that brings a rate would leave the others behind.

The timeline widens to the least and the greatest of a primitive's time codes, which
`TimelineCoversAll` and `TimelineNeverShrinks` are about. The invariant `TimeInv` adds to
`TimelineCovers` that the timeline is unset at both ends or at none, and that primitives are
labelled and have lists of numbers. `StaysCovered`: a wider timeline covers what
was covered. So each call has to be shown to widen the timeline only, and the rest follows.

`SetFacts` is where sums, least and greatest elements come from. They are folds, so a fact
about them is an induction over the set, and induction principles that take the property as
a parameter are of no use to the provers installed. It is replaced by a least
counterexample: among the subsets of a finite set for which a formula fails, if there are
any, one contains no other (`SmallestSubset`, from the well-foundedness of strict inclusion).
Stated for the one formula at hand, this is first-order. From it follow that
`MapThenSumSet` adds (`SumTakeOut`, `SumAdd`, `SumAgree`), and that `Min` and `Max` exist
(`MinExists`, `MaxExists`). `FrameProofs` proves the recursion of `FlattenSeq` the same way.

`TaskGraphProofs` proves of every finite graph, any targets and any finite set of workers
the types (`GraphTypes`), and in particular that `_remainingJobs` stays a natural number: it
is the sum of the handles in the queues plus the coroutines being resumed (`JobsInv`),
duplicates included. The other invariants fail on some graphs, which is the finding of run
`task_graph_walk`; so `TasksAreValid`, `DependenciesHold`, `CountdownIsExact` and
`JobsAreExact` are proved of the graphs that satisfy `WalkIsPrivate`: each node that
`schedule()` may visit and that has predecessors has one which is no target, and from which
the walk leads back to no other visited node. It keeps the workers behind the walk: as long
as the walk has not reached a node, its private predecessor was not scheduled either, so the
node's countdown cannot reach zero. Graphs scheduled from nodes without predecessors satisfy
it (lemma `SourcesArePrivate`), and so do trees in which each node has at most one
successor, scheduled from the last; the graph of run `task_graph` does, the triangle of
`task_graph_walk` does not. The condition is sufficient, and it is about the graph and its
targets alone, which a caller knows. The invariant adds to the four:

- `CoroInv`, `PlaceInv`: a node is in one queue or with one worker, and its coroutine is in
  the state that goes with the place;
- `ReadyInv`: a node that was ever enqueued has had all its predecessors counted down;
- `WalkInv`: a node the walk has not reached was never enqueued, and neither were its
  private predecessors reached;
- `StackInv`: a call in progress has planned its node.

`PrimVisProofs` proves, for any primitives of each kind and any time codes
(`PrimVisAssumption`), all five invariants: `PrimTypes`, `OneOwner`,
`FramesOutliveTheirUse`, `InFlightCounts`, `DeviceFollows`. None but the types is inductive:

- `FlagInv`, `CmdInv`: a busy primitive is prepared by its coroutine, or its command is
  queued, and a queued command is the one its coroutine posted;
- `GuiInv`: the GUI thread is inside one call of `queryVkTriMesh` at a time;
- `FlushInv`: what `flush()` waits for stays away until the next query, which is why the
  frame of an idle primitive is done although the flag falls much earlier;
- `CountInv`, `SignalInv`, `HeardInv`: the count is the number of coroutines between its two
  updates, and each of those owes one emission at most;
- `SettledInv`, `RebuildInv`, `MeshInv`: `DeviceIsCurrent` holds while attributes are on
  their way, and during a rebuild the dirty flags suffice for the command to upload
  everything that changes, up to the exception below;
- `ColorInv`: how the colour of the mesh and that of the vertices are related. A paint
  that comes after the key frame was copied to the vertices is flagged, and one that came
  before is gone from them.

`DeviceIsCurrent` has the exception that the code has (`Overpainted`): a skinned primitive
whose colour has a single key frame and belongs to vertices or faces is painted, shown, and
then moved. `updatePrimFromKeyFrames` writes the key frame over the paint
(`scene/Primitive.cpp:390`), but the colour is flagged at a change of its key frame only
(`:92`), so positions are uploaded and the device keeps the paint. `DeviceFollows` proves that
this is the only way for the two to differ: all others, a paint between any two steps
of a rebuild included, leave the flag behind.

The proof of `PrimTypes` corrected the model's `TypeOK`: it had the poses of a mesh among
the time codes, while `Pose` clamps them to the first and the last key of the skeleton,
which need not be among those shown. The run could not tell.

`FrameProofs` proves, for all sources whose attributes have finitely many samples:

- `UnflaggedIsSame`: `Spec => []FlagsAreEnough`;
- `GlobalsAreAll`: `Spec => []KeyFramesChangeAtGlobals`.

The source never changes, so neither needs an invariant; what they need is arithmetic of key
frames. Numbers are put in order by counting (`InOrderIs`), and a frame is that of the last
key which is not later, or of the first key (`FrameIs`). Two time codes that take the same
place among the keys have the same frame (`FrameByPlace`), and since `merge_timecodes`
takes in the keys of every channel (`GlobalsAre`, `KeysAre`), no key lies between two
neighbours of the merged ones (`FrameBetween`). `KeyFramesChangeAtGlobals` is about what a
primitive takes from its key frames, the rest positions included. Its pose changes between
the codes, too, as USD interpolates it, but not outside them: the first and the last sample
of the skeleton are merged (`SkelWithin`), and a pose outside is that at the nearer end
(`PoseOutside`, `PoseAtEnds`). Transforms are no part of it: the time codes of a matrix
operation (`matOpTcs`) are not merged (`scene/PrimitiveFromOtherForms.cpp:1193`), so a
primitive that only such an operation moves changes between its global time codes. The
module then derives what the key frames of a source hold at a time code (`PosAt`, `TopoAt`,
`SimpleAt`, in terms of the source alone), and that bringing any primitive of the source to
a time code makes it that, whatever it was before (`BringIs`).

Two theorems about single meshes follow, which no action is needed for. Read at a time code,
where the skeleton moves its points at once, or through key frames and moved afterwards, a
USD mesh has its points at the same places, and the same corners and polygons
(`ImportsHaveOneShape`). With the pose it was read in, written to a right-handed prim without
a skeleton, it is read again as it was (`ExportsComeBack`); a skeleton of that prim
would move it a second time. Both rest on `HangingIs`, which says what `_applySkinning` makes
of the points. They leave out the default time code of a mesh with samples, where the
key frames show the last sample instead of the default value. In `MeshProofs`,
`TrianglesAreExported` says the like of the triangle mesh that a mesh is exported to: these
are the triangles of the source in its pose.

`MeshProofs` takes the primitive through the actions, and proves for all such sources that
are meshes at each time code, and for every interleaving of the parallel loops:

- `ArraysFit`: `Spec => []TypeOK`;
- `PointsAreSplit`: `Spec => []VariantsDiffer`;
- `CornersAreCarried`: `Spec => []NothingIsLost`;
- `PaintIsHandedOn`: `Spec => []PaintReachesVerts`;
- `CurrentIsShown`: `Spec => []ShownIsCurrent`.

The second and the fourth are parts of the invariant, `WayInv`, and the others follow from
it. Its further parts:

- `IInv`: the loops that are left are those of the mesh's own properties (`LoopInv`, from
  `LoopsAre`), `pvdProps` holds the property of the current loop at each variant
  (`PropsInv`);
- `MeshInv`: the primitive is what its source is at the shown time code, and its simple mesh
  is that of the same time code. This is where earlier times could show through: the arrays
  are reused, and `Brought` says that everything but the properties is written anew;
- `SplitInv`: each corner that the loops have visited finds its value in a variant of its
  point, whatever was appended by the others meanwhile, and the loops that are neither
  running nor left have visited all corners. `CornersAreCarried` is the case of no loop left;
- `MadeInv`: between two calls the meshes are those of the last call's variants, and no
  primitive was moved under them.

`CurrentIsShown` then compares two computations: the triangles of the polygons' fans,
remapped to nodes, and the fans of the source's faces. Fans are flattened in both, and
`FlattenAt` says where an entry of a part comes to lie, so the two are equal entry by entry.
Two nodes of one mesh never stand for the same vertex, since the variants of a point are
different and those of two points are at different points: that is why painting in any
order gives each vertex the color of its node.

`VariantsDiffer` ends where a node is painted, since two variants may get the same color
there. The proof led to this restriction, which the run does not need: none of its sources
has corners that differ in color alone. It also led to the assumption that a source has
faces at each time code (`SourcesAreMeshes`): `setup_simple_mesh_for_poly_mesh` returns when
there is no polygon (`PrimitiveTransform.cpp:1065`), so that the simple prims of an earlier
time code stay and refer to vertices that are gone. The model has the early return too:
splitting such a primitive reads beyond its vertices, which has no outcome that a property
could speak of.

Assumptions on constants that proofs have added: the nodes and workers of a graph are
finite (vectors in the code), time codes are integers apart from `NaN` (only their order
matters), `None` and `NaN` are values of their own, attributes have finitely many samples
(`SamplesAreNumbers`), and sources are meshes (`SourcesAreMeshes`). TLC evaluates them for
the instances of the runs.

Model-checked only:

- liveness: `JobsRun`, `WaitReturns`, `DestructorReturns`, `GraphCompletes`,
  `SyncWaitReturns`, `ProcessingEnds`. Fairness is beyond the prover;
- `AttribsAreCurrent`: unlike the shape, properties are not written anew at each time code.
  Its condition `KeepsOwner` is about numbers of samples, which USD does not restrict, and a
  proof would have to carry each owner's array through all time codes;
- `ImportsAgree`: of arbitrary sources it needs properties that are sampled together with the
  topology, which the sources of the run are. What it says of the shape is
  `ImportsHaveOneShape`;
- `FormsAgree`: the copy of a prim loses the default value of an attribute that has samples
  too, so it holds of sources that have one or the other, as those of the run. Of its parts
  `ExportsComeBack` and `TrianglesAreExported` are proved;
- `ShapesAreClosed`: it is about given shapes; for all of them it would be an induction over
  the numbers of rows and columns;
- the properties that are violated.

## 7. Not modelled

Of the modelled parts: relaxed memory orders (the atomics of the scheduler are sequentially
consistent by default; the release and acquire pairs of WhenAll are treated as such), the
order of one producer's elements within a queue, exceptions thrown by a job into a worker's
loop (they end the process), the creation of the threads, `StopTask` (never enqueued), the
Win32 and condition-variable variants of the event. Of meshes: coordinates, computed normals
and tangents, transforms between two keys, materials, serialisation, bounding volumes, and
meshes of points alone. Of USD: composition (references, sublayers), observers
(`addObserver` has no caller), the wrappers of single attributes. Of contexts and resources:
frames per second, notifications, the dirty flag of entries (nothing sets it), and scripts,
shaders, textures and widgets, which are tables. The lives of Python objects that wrap
scenes and prims are the interpreter's.

Of the other parts: the command manager has no caller, and its sizes are already known to be
wrong after an undo (a hazard in `PROJECT.json`); a signal that is changed by its own slots
iterates over a changed container, of which no property can be stated; archives are file
input and output; futures, generators and state machines are single-threaded handles,
modelled where PrimVis waits for one; the Python task is a thin layer over the dedicated
scheduler, whose hazard lies in what a compiler does after `resume()`; the node graph loads
shared libraries into a table; the shader runtime wraps a compiler; the camera is
floating-point geometry; the bindings forward.

Where the code does something a property has to leave out, the property says so:

- `ShownIsCurrent` leaves out a closed scene and NaN: skinning then fails without a message,
  and the positions of an earlier pose stay (`Hung`).
- `AttribsAreCurrent` leaves out painted primitives: paint that went to the vertices of a mesh
  with key frames on its points hides the later key frames. And it leaves out properties that
  change their owner (`KeepsOwner`): if there are as many values as faces at one time code and
  as many as points at another, `processAttrib` (`scene/Primitive.cpp:357`) writes the new
  owner's array and leaves the old one, whose values may then hide the new ones. The
  source `Growing` does this with its colors, and without the condition the run fails.
- `DeviceIsCurrent` leaves out paint that a rebuild replaced without a flag (`Overpainted`).
- `GraphCompletes`: a walk ends with all its callers at the first node that was visited before
  (`async/Executor.hpp:206`), so a node may be planned and never run, because predecessors
  behind that node were not reached. It runs if all nodes it depends on that wait for nobody
  are visited by some walk, or if it is scheduled and the graph above it is a tree.
- `KeyFramesChangeAtGlobals` leaves out the pose between two time codes and transforms.
- At NaN the last key frame shows, in contrast to USD, where it is the default value:
  the binary search finds no key that is later (`SegmentOf`).
- `ImportsAgree` compares normals and colors where the numbers of points, vertices and faces
  differ, since their owner is guessed from them, in another order by each of the two imports,
  and where there is not one value per vertex, which only key frames know as an owner. It
  leaves out NaN when anything has samples. The normals of both are those of the rest pose.
- `FormsAgree` exports to a mesh without a skeleton: import has moved the points, and if the
  mesh that they are written to hangs on the same skeleton, they are moved again when read.
- `FormsAgree` compares what simple prims write back for polygons of up to three corners:
  `PrimitiveTransform.cpp:1285` divides once per kind of prim that has the property, so the
  values of larger ones come back too small. It exports to a right-handed
  mesh, since the export does not set the orientation. Left-handed faces are reversed on
  import, and the texture coordinates of their corners are not.
- `ToVisMesh` is compared for meshes without a skeleton: `SkinnedTwice` shows that with one,
  the points that come back were transformed as normals.
- `EditsAreSealed` leaves out files that two scenes had at a time: each has an edit flag of
  its own, and one may export the edits of the other without giving them their number.
- `ContextAgrees` describes what registration leaves behind when it throws: the primitive is
  in the map and on the timeline, but not in the order.
- `load_usd` and the two saves are guarded by what the code takes for granted: a label with
  a scene but no entry trips the assertion at `system/ResourceSystem.cpp:264`, and saving an
  entry whose scene a script removed dereferences null. A file that could not be opened
  leaves a scene and an entry, which the next load takes for the file. `close_usd` keeps the
  primitive, and loading the label again does not replace it.
- `getAllScenes` and `getAllSceneNames` return addresses within the loop's own copies
  (`usd/USDSceneManager.cpp:155` and `169`); the models enumerate scenes instead.

