--------------------------- MODULE TaskGraphProofs ---------------------------
(***************************************************************************)
(* Proofs about module TaskGraph.  The types hold of every graph.  The     *)
(* rest holds when no worker can reach a node before the walk of           *)
(* schedule() does, which WalkIsPrivate says of the graph and its targets; *)
(* without it a node may be enqueued twice (run task_graph_walk).          *)
(***************************************************************************)
EXTENDS TaskGraph, SetFacts, SequenceTheorems, TLAPS

\* The nodes that schedule() may visit: the targets, their predecessors, theirs, and so on.
Closed(V) == Targets \subseteq V /\ \A n \in V : PredSet(n) \subseteq V
Walk == {n \in Nodes : \A V \in SUBSET Nodes : Closed(V) => n \in V}

\* m is a predecessor of n that schedule() visits on its way from n only.
PrivatePred(m, n) ==
  m \in PredSet(n) /\ m \notin Targets /\ SuccSet(m) \cap Walk = {n}

\* Each node that is visited and has predecessors has a private one, as when the nodes
\* without predecessors are scheduled, or the root of a tree.
WalkIsPrivate ==
  \A n \in Walk : PredSet(n) # {} => \E m \in PredSet(n) : PrivatePred(m, n)

-----------------------------------------------------------------------------
(* The inductive invariant of every graph.                                 *)

\* A worker holds a node unless it is in its loop.
NodeInv == \A w \in Workers : pc[w] = "loop" <=> node[w] = NoNode

\* Every handle in a queue and every coroutine being resumed is counted.
Cells == Queues \X Nodes
Load == [c \in Cells |-> queue[c[1]][c[2]]]
Bodies == {w \in Workers : pc[w] = "body"}
JobsInv == remainingJobs = Total(Load, Cells) + Cardinality(Bodies)

GraphInv == TypeOK /\ NodeInv /\ JobsInv

-----------------------------------------------------------------------------
(* The inductive invariant of a graph whose walk is private.               *)

\* The state of a node goes with the workers that hold it.
CoroInv ==
  \A w \in Workers :
    /\ pc[w] = "body" => coro[node[w]] = "running"
    /\ pc[w] = "resumed" => coro[node[w]] \in {"suspended", "done"}
    /\ pc[w] = "succs" => coro[node[w]] = "done" /\ todo[w] \subseteq SuccSet(node[w])

\* A node is in one place at a time.
PlaceInv ==
  /\ \A v, w \in Workers : node[v] = node[w] /\ node[v] # NoNode => v = w
  /\ \A n \in Nodes, q \in Queues : queue[q][n] > 0 =>
       /\ queue[q][n] = 1
       /\ \A r \in Queues : queue[r][n] > 0 => r = q
       /\ coro[n] \in {"created", "suspended"}
       /\ \A w \in Workers : node[w] # n

\* n has not been enqueued.
Fresh(n) == coro[n] = "created" /\ \A q \in Queues : queue[q][n] = 0

\* A node is enqueued when its last predecessor is counted down, and not before.
ReadyInv == \A n \in Nodes : Fresh(n) \/ \A p \in PredSet(n) : CountedDown(p, n)

\* What the walk has not reached, nobody has; the private predecessors see to it.
WalkInv ==
  \A n \in Walk : state[n] = "idle" =>
    Fresh(n) /\ \A m \in PredSet(n) : PrivatePred(m, n) => state[m] = "idle"

\* A call of schedule() in progress has planned its node before it visits the predecessors.
StackInv ==
  \A i \in 1 .. Len(stack) :
    \E n \in Walk : state[n] = "planned" /\ ToSet(stack[i]) \subseteq PredSet(n)

IInv == /\ GraphInv /\ CoroInv /\ PlaceInv /\ DepsCounted
        /\ ReadyInv /\ WalkInv /\ StackInv

-----------------------------------------------------------------------------
(* The operators of the model.                                             *)

NodeType  == Nodes \cup {NoNode}
QueueType == [Queues -> [Nodes -> Nat]]

\* to() links two nodes once, so that _preds has each predecessor once.
LEMMA PredsFinite ==
  ASSUME TaskGraphAssumption, NEW n \in Nodes
  PROVE  /\ PredSet(n) \subseteq Nodes
         /\ IsFiniteSet(PredSet(n)) /\ Cardinality(PredSet(n)) = Len(Preds[n])
  <1>1. Preds[n] \in Seq(Nodes) /\ IsInjective(Preds[n])
    BY DEF TaskGraphAssumption
  <1>2. Len(Preds[n]) \in Nat /\ DOMAIN Preds[n] = 1 .. Len(Preds[n])
    BY <1>1
  <1>3. PredSet(n) \subseteq Nodes
    BY <1>1, <1>2 DEF PredSet, ToSet
  <1>4. /\ IsFiniteSet(1 .. Len(Preds[n]))
        /\ Cardinality(1 .. Len(Preds[n])) = Len(Preds[n])
    <2> DEFINE k == Len(Preds[n])
    <2>1. 1 \in Int /\ k \in Int /\ k >= 0
      BY <1>2
    <2> HIDE DEF k
    <2>2. IsFiniteSet(1 .. k) /\ Cardinality(1 .. k) = IF 1 > k THEN 0 ELSE k - 1 + 1
      BY <2>1, FS_Interval
    <2>3. IsFiniteSet(1 .. k) /\ Cardinality(1 .. k) = k
      BY <2>1, <2>2
    <2> QED  BY <2>3 DEF k
  <1> DEFINE s == Preds[n]
  <1>5. s \in Bijection(1 .. Len(s), PredSet(n))
    <2>1. s \in [1 .. Len(s) -> PredSet(n)]
      BY <1>1, <1>2 DEF PredSet, ToSet
    <2>2. \A i, j \in 1 .. Len(s) : s[i] = s[j] => i = j
      BY <1>1, <1>2 DEF IsInjective
    <2>3. \A m \in PredSet(n) : \E i \in 1 .. Len(s) : s[i] = m
      BY <1>2 DEF PredSet, ToSet
    <2> QED  BY <2>1, <2>2, <2>3 DEF Bijection, Injection, Surjection, IsInjective
  <1>6. ExistsBijection(1 .. Len(s), PredSet(n))
    BY <1>5 DEF ExistsBijection
  <1> QED  BY <1>3, <1>4, <1>6, FS_Bijection

\* There are finitely many places for a handle.
LEMMA CellsFinite ==
  ASSUME TaskGraphAssumption
  PROVE  IsFiniteSet(Cells)
  <1>1. IsFiniteSet(Queues) /\ IsFiniteSet(Nodes)
    BY FS_AddElement DEF TaskGraphAssumption, Queues
  <1> QED  BY <1>1, FS_Product DEF Cells

\* A queue gets or loses one handle; the sum of the loads follows.
LEMMA LoadChange ==
  ASSUME TaskGraphAssumption, queue \in QueueType, queue' \in QueueType,
         NEW q \in Queues, NEW n \in Nodes,
         \A r \in Queues, m \in Nodes : r # q \/ m # n => queue'[r][m] = queue[r][m]
  PROVE  /\ Total(Load, Cells) \in Nat
         /\ Total(Load', Cells) = Total(Load, Cells) - queue[q][n] + queue'[q][n]
  <1> DEFINE f == Load
             g == Load'
             x == <<q, n>>
  <1>1. <<q, n>> \in Cells /\ IsFiniteSet(Cells)
    BY CellsFinite DEF Cells
  <1>2. \A c \in Cells : f[c] = queue[c[1]][c[2]] /\ g[c] = queue'[c[1]][c[2]]
    BY DEF Load, Cells
  <1>3. \A c \in Cells : /\ c[1] \in Queues /\ c[2] \in Nodes
                         /\ c # <<q, n>> => c[1] # q \/ c[2] # n
    BY DEF Cells
  <1>0. \A r \in Queues, m \in Nodes : queue[r][m] \in Nat /\ queue'[r][m] \in Nat
    BY DEF QueueType
  <1>6. f[x] = queue[q][n] /\ g[x] = queue'[q][n]
    BY <1>1, <1>2
  <1> HIDE DEF f, g
  <1>4. \A c \in Cells : f[c] \in Nat /\ g[c] \in Nat
    BY <1>0, <1>2, <1>3
  <1>5. \A c \in Cells \ {x} : f[c] = g[c]
    BY <1>2, <1>3
  <1>10. x \in Cells /\ IsFiniteSet(Cells)
    BY <1>1
  <1> HIDE DEF x
  <1>7. Total(f, Cells) \in Nat
    BY <1>4, <1>10, SumNonNegative
  <1>8. \A c \in Cells : f[c] \in Int /\ g[c] \in Int
    BY <1>4
  <1>9. Total(g, Cells) = Total(f, Cells) - f[x] + g[x]
    BY <1>5, <1>8, <1>10, SumChange
  <1> QED  BY <1>6, <1>7, <1>9 DEF f, g

\* A worker begins or ends the resumption of a coroutine.
LEMMA BodiesChange ==
  ASSUME TaskGraphAssumption, NEW w \in Workers, NEW at, pc'[w] = at,
         \A v \in Workers : v # w => pc'[v] = pc[v]
  PROVE  /\ Cardinality(Bodies) \in Nat /\ (pc[w] = "body" => Cardinality(Bodies) > 0)
         /\ Cardinality(Bodies') = Cardinality(Bodies) - (IF pc[w] = "body" THEN 1 ELSE 0)
                                                       + (IF at = "body" THEN 1 ELSE 0)
  <1>1. IsFiniteSet(Bodies) /\ Cardinality(Bodies) \in Nat
    BY FS_Subset, FS_CardinalityType DEF TaskGraphAssumption, Bodies
  <1>2. Bodies' = IF at = "body" THEN Bodies \cup {w} ELSE Bodies \ {w}
    BY DEF Bodies
  <1>3. w \in Bodies <=> pc[w] = "body"
    BY DEF Bodies
  <1>4. pc[w] = "body" => Cardinality(Bodies) > 0
    BY <1>1, <1>3, FS_EmptySet
  <1> DEFINE k == Cardinality(Bodies)
  <1>5. /\ Cardinality(Bodies \cup {w}) = IF w \in Bodies THEN k ELSE k + 1
        /\ Cardinality(Bodies \ {w}) = IF w \in Bodies THEN k - 1 ELSE k
    BY <1>1, FS_AddElement, FS_RemoveElement
  <1> HIDE DEF k
  <1>6. k \in Nat
    BY <1>1 DEF k
  <1>7. CASE at = "body"
    <2>1. Cardinality(Bodies') = Cardinality(Bodies \cup {w})
      BY <1>2, <1>7
    <2> QED  BY <1>3, <1>4, <1>5, <1>6, <1>7, <2>1 DEF k
  <1>8. CASE at # "body"
    <2>1. Cardinality(Bodies') = Cardinality(Bodies \ {w})
      BY <1>2, <1>8
    <2> QED  BY <1>3, <1>4, <1>5, <1>6, <1>8, <2>1 DEF k
  <1> QED  BY <1>7, <1>8

\* The last call of schedule() in progress and those that called it.
LEMMA LastFront ==
  ASSUME NEW S, NEW s \in Seq(S), s # <<>>
  PROVE  /\ Len(s) \in Nat \ {0} /\ Last(s) = s[Len(s)] /\ Last(s) \in S
         /\ Front(s) \in Seq(S) /\ Len(Front(s)) = Len(s) - 1
         /\ \A i \in 1 .. Len(s) - 1 : Front(s)[i] = s[i]
  <1>1. Len(s) \in Nat \ {0} /\ \A i \in 1 .. Len(s) : s[i] \in S
    OBVIOUS
  <1>2. Last(s) = s[Len(s)] /\ Front(s) = SubSeq(s, 1, Len(s) - 1)
    BY DEF Last, Front
  <1>3. 1 \in 1 .. Len(s) + 1 /\ Len(s) - 1 \in 1 - 1 .. Len(s)
    BY <1>1
  <1> DEFINE k == Len(s) - 1
  <1>4. k \in Nat /\ k \in 1 - 1 .. Len(s)
    BY <1>1
  <1> HIDE DEF k
  <1>5. /\ SubSeq(s, 1, k) \in Seq(S)
        /\ Len(SubSeq(s, 1, k)) = IF 1 <= k THEN k - 1 + 1 ELSE 0
        /\ \A i \in 1 .. k - 1 + 1 : SubSeq(s, 1, k)[i] = s[1 + i - 1]
    BY <1>3, <1>4, SubSeqProperties
  <1>6. Len(SubSeq(s, 1, k)) = k /\ \A i \in 1 .. k : SubSeq(s, 1, k)[i] = s[i]
    BY <1>4, <1>5
  <1>7. Last(s) \in S
    BY <1>1, <1>2
  <1> QED  BY <1>1, <1>2, <1>5, <1>6, <1>7 DEF k

\* The next predecessor to visit, and what is left of the call.
LEMMA NextCall ==
  ASSUME TypeOK, stack # <<>>, Last(stack) # <<>>
  PROVE  /\ Head(Last(stack)) \in Nodes
         /\ Tail(Last(stack)) \in Seq(Nodes)
         /\ Append(Front(stack), Tail(Last(stack))) \in Seq(Seq(Nodes))
  <1>1. Last(stack) \in Seq(Nodes) /\ Front(stack) \in Seq(Seq(Nodes))
    BY LastFront DEF TypeOK
  <1> QED  BY <1>1

\* What a call of schedule() does before it goes on to the predecessors.
LEMMA VisitEffect ==
  ASSUME TaskGraphAssumption, TypeOK,
         NEW n \in Nodes, NEW callers \in Seq(Seq(Nodes)), Visit(n, callers)
  PROVE  /\ state' \in [Nodes -> {"idle", "planned"}] /\ stack' \in Seq(Seq(Nodes))
         /\ state'[n] = "planned" /\ \A m \in Nodes : m # n => state'[m] = state[m]
         /\ NoEnqueue \/ (state[n] = "idle" /\ numDeps[n] = 0 /\ Enqueue(n, "global"))
         /\ UNCHANGED <<numDeps, coro, pc, node, todo>>
  <1>1. Preds[n] \in Seq(Nodes) /\ Append(callers, Preds[n]) \in Seq(Seq(Nodes))
    BY DEF TaskGraphAssumption
  <1>2. stack' \in {<<>>, callers, Append(callers, Preds[n])}
    BY DEF Visit
  <1>3. stack' \in Seq(Seq(Nodes))
    <2>1. <<>> \in Seq(Seq(Nodes))
      OBVIOUS
    <2> QED  BY <1>1, <1>2, <2>1
  <1>4. NoEnqueue \/ (state[n] = "idle" /\ numDeps[n] = 0 /\ Enqueue(n, "global"))
    <2>1. CASE state[n] = "planned"
      BY <2>1 DEF Visit
    <2>2. CASE state[n] = "idle" /\ numDeps[n] # 0
      BY <2>2 DEF Visit
    <2>3. CASE state[n] = "idle" /\ numDeps[n] = 0
      BY <2>3 DEF Visit
    <2> QED  BY <2>1, <2>2, <2>3 DEF TypeOK
  <1>5. /\ state' \in [Nodes -> {"idle", "planned"}]
        /\ state'[n] = "planned" /\ \A m \in Nodes : m # n => state'[m] = state[m]
    BY DEF Visit, TypeOK
  <1> QED  BY <1>3, <1>4, <1>5 DEF Visit

\* enqueue_ adds one handle.
LEMMA EnqueueEffect ==
  ASSUME TypeOK, NEW n \in Nodes, NEW q \in Queues, Enqueue(n, q)
  PROVE  /\ queue' \in QueueType /\ remainingJobs' = remainingJobs + 1
         /\ queue'[q][n] = queue[q][n] + 1
         /\ \A r \in Queues, m \in Nodes : r # q \/ m # n => queue'[r][m] = queue[r][m]
  <1>1. queue \in QueueType
    BY DEF TypeOK, QueueType
  <1>2. queue[q][n] + 1 \in Nat
    BY <1>1 DEF QueueType
  <1> DEFINE k == queue[q][n] + 1
  <1>3. queue' = [queue EXCEPT ![q][n] = k] /\ remainingJobs' = remainingJobs + 1
    BY DEF Enqueue
  <1> HIDE DEF k
  <1>4. k \in Nat
    BY <1>2 DEF k
  <1>5. /\ queue' \in QueueType
        /\ queue'[q][n] = k
        /\ \A r \in Queues, m \in Nodes : r # q \/ m # n => queue'[r][m] = queue[r][m]
    BY <1>1, <1>3, <1>4 DEF QueueType
  <1> QED  BY <1>3, <1>5 DEF k

\* A handle is counted as it is enqueued.
LEMMA EnqueueJobs ==
  ASSUME TaskGraphAssumption, TypeOK, JobsInv, NEW n \in Nodes, NEW q \in Queues, Enqueue(n, q)
  PROVE  remainingJobs' \in Nat
         /\ remainingJobs' = Total(Load', Cells) + Cardinality(Bodies)
  <1>1. queue \in QueueType /\ queue[q][n] \in Nat /\ remainingJobs \in Nat
    BY DEF TypeOK, QueueType
  <1>2. /\ queue' \in QueueType /\ remainingJobs' = remainingJobs + 1
        /\ queue'[q][n] = queue[q][n] + 1
        /\ \A r \in Queues, m \in Nodes : r # q \/ m # n => queue'[r][m] = queue[r][m]
    BY EnqueueEffect
  <1>3. Total(Load, Cells) \in Nat
        /\ Total(Load', Cells) = Total(Load, Cells) - queue[q][n] + queue'[q][n]
    BY <1>1, <1>2, LoadChange
  <1>4. Cardinality(Bodies) \in Nat
    BY FS_Subset, FS_CardinalityType DEF TaskGraphAssumption, Bodies
  <1> QED  BY <1>1, <1>2, <1>3, <1>4 DEF JobsInv

\* A worker takes a handle from a queue and begins to resume the coroutine.
LEMMA ResumeEffect ==
  ASSUME TypeOK, NEW w \in Workers, Resume(w)
  PROVE  \E q \in {w, "global"}, n \in Nodes :
           /\ q \in Queues /\ queue[q][n] > 0
           /\ queue' \in QueueType /\ queue'[q][n] = queue[q][n] - 1
           /\ \A r \in Queues, m \in Nodes : r # q \/ m # n => queue'[r][m] = queue[r][m]
           /\ node' = [node EXCEPT ![w] = n]
           /\ coro' = [coro EXCEPT ![n] = "running"]
  <1>1. PICK q \in {w, "global"}, n \in Nodes :
          /\ queue[q][n] > 0
          /\ queue' = [queue EXCEPT ![q][n] = queue[q][n] - 1]
          /\ node' = [node EXCEPT ![w] = n]
          /\ coro' = [coro EXCEPT ![n] = "running"]
    BY DEF Resume
  <1>2. queue \in QueueType /\ q \in Queues
    BY DEF TypeOK, QueueType, Queues
  <1> DEFINE k == queue[q][n] - 1
  <1>3. k \in Nat
    BY <1>1, <1>2 DEF QueueType
  <1>4. queue' = [queue EXCEPT ![q][n] = k]
    BY <1>1
  <1> HIDE DEF k
  <1>5. /\ queue' \in QueueType
        /\ queue'[q][n] = k
        /\ \A r \in Queues, m \in Nodes : r # q \/ m # n => queue'[r][m] = queue[r][m]
    BY <1>2, <1>3, <1>4 DEF QueueType
  <1> QED  BY <1>1, <1>2, <1>5 DEF k

\* A successor is counted down, and enqueued if it is the last predecessor.
LEMMA CountDownEffect ==
  ASSUME TypeOK, NEW w \in Workers, CountDown(w)
  PROVE  \E s \in todo[w] :
           /\ s \in Nodes
           /\ numDeps' \in [Nodes -> Int] /\ numDeps'[s] = numDeps[s] - 1
           /\ \A m \in Nodes : m # s => numDeps'[m] = numDeps[m]
           /\ todo' = [todo EXCEPT ![w] = todo[w] \ {s}]
           /\ IF numDeps[s] = 1 THEN Enqueue(s, "global") ELSE NoEnqueue
  <1>1. PICK s \in todo[w] :
          /\ numDeps' = [numDeps EXCEPT ![s] = @ - 1]
          /\ todo' = [todo EXCEPT ![w] = @ \ {s}]
          /\ IF numDeps[s] = 1 THEN Enqueue(s, "global") ELSE NoEnqueue
    BY DEF CountDown
  <1>2. s \in Nodes
    <2>1. todo[w] \subseteq Nodes
      BY DEF TypeOK
    <2> QED  BY <2>1
  <1>3. /\ numDeps' \in [Nodes -> Int] /\ numDeps'[s] = numDeps[s] - 1
        /\ \A m \in Nodes : m # s => numDeps'[m] = numDeps[m]
    BY <1>1, <1>2 DEF TypeOK
  <1>4. todo' = [todo EXCEPT ![w] = todo[w] \ {s}]
    BY <1>1
  <1> QED  BY <1>1, <1>2, <1>3, <1>4

-----------------------------------------------------------------------------
(* The invariant of every graph.                                           *)

PcType == {"loop", "body", "resumed", "succs"}

\* The invariant of every graph holds at first, ...
LEMMA GraphInit ==
  ASSUME TaskGraphAssumption, Init
  PROVE  GraphInv
  <1>1. \A n \in Nodes : Len(Preds[n]) \in Int
    BY DEF TaskGraphAssumption
  <1>2. <<>> \in Seq(Seq(Nodes))
    OBVIOUS
  <1>3. TypeOK
    BY <1>1, <1>2 DEF Init, TypeOK
  <1>4. NodeInv
    BY DEF Init, NodeInv
  <1>5. Total(Load, Cells) = 0
    <2>1. \A c \in Cells : Load[c] = 0
      BY DEF Init, Load, Cells
    <2> QED  BY <2>1, CellsFinite, SumOfZeros
  <1>6. Bodies = {}
    BY DEF Init, Bodies
  <1>7. remainingJobs = 0
    BY DEF Init
  <1>8. JobsInv
    BY <1>5, <1>6, <1>7, FS_EmptySet DEF JobsInv
  <1> QED  BY <1>3, <1>4, <1>8 DEF GraphInv

\* schedule() visits a node.
LEMMA GraphVisit ==
  ASSUME TaskGraphAssumption, GraphInv,
         NEW n \in Nodes, NEW callers \in Seq(Seq(Nodes)), Visit(n, callers)
  PROVE  GraphInv'
  <1>1. /\ state' \in [Nodes -> {"idle", "planned"}] /\ stack' \in Seq(Seq(Nodes))
        /\ NoEnqueue \/ Enqueue(n, "global")
        /\ UNCHANGED <<numDeps, coro, pc, node, todo>>
    BY VisitEffect DEF GraphInv
  <1>2. Bodies' = Bodies
    BY <1>1 DEF Bodies
  <1>3. queue' \in QueueType /\ remainingJobs' \in Nat /\ JobsInv'
    <2>1. CASE NoEnqueue
      <3>1. Load' = Load
        BY <2>1 DEF NoEnqueue, Load
      <3> QED  BY <1>2, <2>1, <3>1 DEF NoEnqueue, GraphInv, TypeOK, QueueType, JobsInv
    <2>2. CASE Enqueue(n, "global")
      <3>1. "global" \in Queues
        BY DEF Queues
      <3>2. queue' \in QueueType
        BY <2>2, <3>1, EnqueueEffect DEF GraphInv
      <3>3. /\ remainingJobs' \in Nat
            /\ remainingJobs' = Total(Load', Cells) + Cardinality(Bodies)
        BY <2>2, <3>1, EnqueueJobs DEF GraphInv
      <3> QED  BY <1>2, <3>2, <3>3 DEF JobsInv
    <2> QED  BY <1>1, <2>1, <2>2
  <1>4. TypeOK'
    BY <1>1, <1>3 DEF GraphInv, TypeOK, QueueType
  <1>5. NodeInv'
    BY <1>1 DEF GraphInv, NodeInv
  <1> QED  BY <1>3, <1>4, <1>5 DEF GraphInv

\* A step of a worker.
LEMMA GraphWorker ==
  ASSUME TaskGraphAssumption, GraphInv, NEW w \in Workers, Worker(w)
  PROVE  GraphInv'
  <1>0. TypeOK /\ NodeInv /\ JobsInv /\ queue \in QueueType
    BY DEF GraphInv, TypeOK, QueueType
  <1>1. /\ pc \in [Workers -> PcType] /\ Cardinality(Bodies) \in Nat
        /\ Total(Load, Cells) \in Nat
    <2>1. Cardinality(Bodies) \in Nat
      BY FS_Subset, FS_CardinalityType DEF TaskGraphAssumption, Bodies
    <2>2. \A c \in Cells : Load[c] \in Nat
      BY <1>0 DEF Load, Cells, QueueType
    <2> QED  BY <1>0, <2>1, <2>2, CellsFinite, SumNonNegative DEF TypeOK, PcType
  <1>2. CASE Resume(w)
    <2>1. PICK q \in {w, "global"}, n \in Nodes :
            /\ q \in Queues /\ queue[q][n] > 0
            /\ queue' \in QueueType /\ queue'[q][n] = queue[q][n] - 1
            /\ \A r \in Queues, m \in Nodes : r # q \/ m # n => queue'[r][m] = queue[r][m]
            /\ node' = [node EXCEPT ![w] = n]
            /\ coro' = [coro EXCEPT ![n] = "running"]
      BY <1>0, <1>2, ResumeEffect
    <2>2. /\ pc[w] = "loop" /\ pc' = [pc EXCEPT ![w] = "body"]
          /\ UNCHANGED <<state, numDeps, remainingJobs, todo, stack>>
      BY <1>2 DEF Resume
    <2>3. Total(Load', Cells) = Total(Load, Cells) - 1
      <3>1. queue[q][n] \in Nat
        BY <1>0, <2>1 DEF QueueType
      <3>2. Total(Load', Cells) = Total(Load, Cells) - queue[q][n] + queue'[q][n]
        BY <1>0, <2>1, LoadChange
      <3> QED  BY <1>1, <2>1, <3>1, <3>2
    <2>4. Cardinality(Bodies') = Cardinality(Bodies) + 1
      <3>1. pc'[w] = "body" /\ \A v \in Workers : v # w => pc'[v] = pc[v]
        BY <1>1, <2>2
      <3>2. pc[w] # "body"
        BY <2>2
      <3>3. Cardinality(Bodies') = Cardinality(Bodies) - (IF pc[w] = "body" THEN 1 ELSE 0)
                                                       + (IF "body" = "body" THEN 1 ELSE 0)
        BY <3>1, BodiesChange
      <3> QED  BY <1>1, <3>2, <3>3
    <2>5. JobsInv'
      BY <1>0, <1>1, <2>2, <2>3, <2>4 DEF JobsInv
    <2>6. TypeOK'
      BY <1>0, <2>1, <2>2 DEF TypeOK, QueueType
    <2>7. NodeInv'
      BY <1>0, <2>1, <2>2 DEF NodeInv, TypeOK, TaskGraphAssumption
    <2> QED  BY <2>5, <2>6, <2>7 DEF GraphInv
  <1>3. ASSUME NEW how \in {"suspended", "done"}, Return(w, how)
        PROVE  GraphInv'
    <2>1. /\ pc[w] = "body" /\ pc' = [pc EXCEPT ![w] = "resumed"]
          /\ coro' = [coro EXCEPT ![node[w]] = how]
          /\ remainingJobs' = remainingJobs - 1
          /\ UNCHANGED <<state, numDeps, queue, node, todo, stack>>
      BY <1>3 DEF Return
    <2>2. Cardinality(Bodies') = Cardinality(Bodies) - 1 /\ Cardinality(Bodies) > 0
      <3>1. pc'[w] = "resumed" /\ \A v \in Workers : v # w => pc'[v] = pc[v]
        BY <1>1, <2>1
      <3> QED  BY <2>1, <3>1, <1>1, BodiesChange
    <2>3. Load' = Load
      BY <2>1 DEF Load
    <2>4. JobsInv' /\ remainingJobs' \in Nat
      BY <1>0, <1>1, <2>1, <2>2, <2>3 DEF JobsInv, TypeOK
    <2>5. TypeOK'
      BY <1>0, <2>1, <2>4 DEF TypeOK
    <2>6. NodeInv'
      BY <1>0, <2>1 DEF NodeInv, TypeOK
    <2> QED  BY <2>4, <2>5, <2>6 DEF GraphInv
  <1>4. CASE Rethrow(w)
    <2>1. /\ pc[w] = "resumed" /\ pc' = [pc EXCEPT ![w] = "loop"]
          /\ Enqueue(node[w], w) /\ node' = [node EXCEPT ![w] = NoNode]
          /\ UNCHANGED <<state, numDeps, coro, todo, stack>>
      BY <1>4 DEF Rethrow
    <2>2. node[w] \in Nodes /\ w \in Queues
      BY <1>0, <2>1 DEF NodeInv, TypeOK, Queues
    <2>3. queue' \in QueueType
      BY <1>0, <2>1, <2>2, EnqueueEffect
    <2>4. remainingJobs' \in Nat
          /\ remainingJobs' = Total(Load', Cells) + Cardinality(Bodies)
      BY <1>0, <2>1, <2>2, EnqueueJobs
    <2>5. Bodies' = Bodies
      BY <1>1, <2>1 DEF Bodies, PcType
    <2>6. TypeOK'
      BY <1>0, <2>1, <2>3, <2>4 DEF TypeOK, QueueType
    <2>7. NodeInv'
      BY <1>0, <2>1 DEF NodeInv, TypeOK
    <2> QED  BY <2>4, <2>5, <2>6, <2>7 DEF GraphInv, JobsInv
  <1>5. CASE Complete(w)
    <2>1. /\ pc[w] = "resumed" /\ pc' = [pc EXCEPT ![w] = "succs"]
          /\ todo' = [todo EXCEPT ![w] = SuccSet(node[w])]
          /\ UNCHANGED <<state, numDeps, coro, queue, remainingJobs, node, stack>>
      BY <1>5 DEF Complete
    <2>2. Bodies' = Bodies /\ Load' = Load /\ SuccSet(node[w]) \subseteq Nodes
      BY <1>1, <2>1 DEF Bodies, PcType, Load, SuccSet
    <2>3. TypeOK' /\ NodeInv'
      BY <1>0, <2>1, <2>2 DEF TypeOK, NodeInv
    <2> QED  BY <1>0, <2>1, <2>2, <2>3 DEF GraphInv, JobsInv
  <1>6. CASE CountDown(w)
    <2>1. PICK s \in todo[w] :
            /\ s \in Nodes
            /\ numDeps' \in [Nodes -> Int]
            /\ todo' = [todo EXCEPT ![w] = todo[w] \ {s}]
            /\ IF numDeps[s] = 1 THEN Enqueue(s, "global") ELSE NoEnqueue
      BY <1>0, <1>6, CountDownEffect
    <2>2. UNCHANGED <<state, coro, pc, node, stack>>
      BY <1>6 DEF CountDown
    <2>3. Bodies' = Bodies
      BY <2>2 DEF Bodies
    <2>4. queue' \in QueueType /\ remainingJobs' \in Nat /\ JobsInv'
      <3>1. CASE numDeps[s] = 1
        <4>1. "global" \in Queues /\ Enqueue(s, "global")
          BY <2>1, <3>1 DEF Queues
        <4>2. queue' \in QueueType
          BY <1>0, <2>1, <4>1, EnqueueEffect
        <4>3. /\ remainingJobs' \in Nat
              /\ remainingJobs' = Total(Load', Cells) + Cardinality(Bodies)
          BY <1>0, <2>1, <4>1, EnqueueJobs
        <4> QED  BY <2>3, <4>2, <4>3 DEF JobsInv
      <3>2. CASE numDeps[s] # 1
        <4>1. UNCHANGED <<queue, remainingJobs>>
          BY <2>1, <3>2 DEF NoEnqueue
        <4>2. Load' = Load
          BY <4>1 DEF Load
        <4> QED  BY <1>0, <2>3, <4>1, <4>2 DEF JobsInv, TypeOK
      <3> QED  BY <3>1, <3>2
    <2>5. TypeOK' /\ NodeInv'
      BY <1>0, <2>1, <2>2, <2>4 DEF TypeOK, NodeInv, QueueType
    <2> QED  BY <2>4, <2>5 DEF GraphInv
  <1>7. CASE Processed(w)
    <2>1. /\ pc[w] = "succs" /\ pc' = [pc EXCEPT ![w] = "loop"]
          /\ node' = [node EXCEPT ![w] = NoNode]
          /\ UNCHANGED <<state, numDeps, coro, queue, remainingJobs, todo, stack>>
      BY <1>7 DEF Processed
    <2>2. Bodies' = Bodies /\ Load' = Load
      BY <1>1, <2>1 DEF Bodies, PcType, Load
    <2>3. TypeOK' /\ NodeInv'
      BY <1>0, <2>1 DEF TypeOK, NodeInv
    <2> QED  BY <1>0, <2>1, <2>2, <2>3 DEF GraphInv, JobsInv
  <1> QED
    BY <1>2, <1>3, <1>4, <1>5, <1>6, <1>7 DEF Worker, Suspended, Finished

\* ... is kept by each step, ...
LEMMA GraphStep ==
  ASSUME TaskGraphAssumption, GraphInv, Next
  PROVE  GraphInv'
  <1>1. ASSUME NEW n \in Targets, Schedule(n)
        PROVE  GraphInv'
    <2>1. n \in Nodes /\ <<>> \in Seq(Seq(Nodes)) /\ Visit(n, <<>>)
      BY <1>1 DEF TaskGraphAssumption, Schedule
    <2> QED  BY <2>1, GraphVisit
  <1>2. CASE Descend
    <2> DEFINE n == Head(Last(stack))
               callers == Append(Front(stack), Tail(Last(stack)))
    <2>1. n \in Nodes /\ callers \in Seq(Seq(Nodes)) /\ Visit(n, callers)
      BY <1>2, NextCall DEF GraphInv, Descend
    <2> HIDE DEF n, callers
    <2> QED  BY <2>1, GraphVisit
  <1>3. CASE Ascend
    <2>1. stack' \in Seq(Seq(Nodes))
      BY <1>3, LastFront DEF Ascend, GraphInv, TypeOK
    <2>2. UNCHANGED <<state, numDeps, coro, queue, remainingJobs, pc, node, todo>>
      BY <1>3 DEF Ascend
    <2>3. Load' = Load /\ Bodies' = Bodies
      BY <2>2 DEF Load, Bodies
    <2> QED  BY <2>1, <2>2, <2>3 DEF GraphInv, TypeOK, NodeInv, JobsInv
  <1> QED  BY <1>1, <1>2, <1>3, GraphWorker DEF Next

\* ... and by none.
LEMMA GraphStutter ==
  ASSUME GraphInv, UNCHANGED vars
  PROVE  GraphInv'
  <1>1. Load' = Load /\ Bodies' = Bodies
    BY DEF vars, Load, Bodies
  <1> QED  BY <1>1 DEF vars, GraphInv, TypeOK, NodeInv, JobsInv

\* Each variable keeps its type, whatever the graph and its targets: _remainingJobs never
\* goes below zero, for it counts the handles in the queues and the coroutines being resumed.
THEOREM GraphTypes == Spec => []TypeOK
  <1>1. Init => GraphInv
    BY TaskGraphAssumption, GraphInit
  <1>2. GraphInv /\ [Next]_vars => GraphInv'
    BY TaskGraphAssumption, GraphStep, GraphStutter
  <1>3. GraphInv => TypeOK
    BY DEF GraphInv
  <1> QED  BY <1>1, <1>2, <1>3, PTL DEF Spec

-----------------------------------------------------------------------------
(* The invariant of a graph whose walk is private.                         *)

\* The walk visits the targets and the predecessors of what it visits.
LEMMA WalkClosed ==
  ASSUME TaskGraphAssumption
  PROVE  /\ Walk \subseteq Nodes /\ Targets \subseteq Walk
         /\ \A n \in Walk : PredSet(n) \subseteq Walk
  <1>1. Targets \subseteq Walk
    BY DEF TaskGraphAssumption, Walk, Closed
  <1>2. ASSUME NEW n \in Walk, NEW m \in PredSet(n)
        PROVE  m \in Walk
    <2>1. n \in Nodes /\ m \in Nodes
      BY PredsFinite DEF Walk
    <2>2. \A V \in SUBSET Nodes : Closed(V) => m \in V
      BY DEF Walk, Closed
    <2> QED  BY <2>1, <2>2 DEF Walk
  <1> QED  BY <1>1, <1>2 DEF Walk

\* Scheduling nodes that have no predecessors is a private walk: the hypothesis of the
\* theorems below does not only hold of trees.
LEMMA SourcesArePrivate ==
  ASSUME TaskGraphAssumption, \A n \in Targets : PredSet(n) = {}
  PROVE  WalkIsPrivate
  <1>1. Closed(Targets) /\ Targets \in SUBSET Nodes
    BY DEF Closed, TaskGraphAssumption
  <1>2. Walk \subseteq Targets
    BY <1>1 DEF Walk
  <1> QED  BY <1>2 DEF WalkIsPrivate

\* A node that was enqueued is not fresh, and neither is one that a worker holds.
LEMMA FreshFacts ==
  ASSUME TaskGraphAssumption, GraphInv, CoroInv, NEW n \in Nodes, Fresh(n)
  PROVE  /\ \A w \in Workers : node[w] # n
         /\ \A m : ~CountedDown(n, m)
  <1>1. \A w \in Workers : node[w] = n => pc[w] # "loop"
    BY DEF GraphInv, NodeInv, TaskGraphAssumption
  <1>2. \A w \in Workers : pc[w] \in {"loop", "body", "resumed", "succs"}
    BY DEF GraphInv, TypeOK
  <1> QED  BY <1>1, <1>2 DEF CoroInv, Fresh, CountedDown

\* The predecessors of n that are yet to be counted down.
Waiting(n) == {p \in PredSet(n) : ~CountedDown(p, n)}

\* They can be counted.
LEMMA WaitingFinite ==
  ASSUME TaskGraphAssumption, NEW n \in Nodes
  PROVE  IsFiniteSet(Waiting(n)) /\ Waiting(n) \subseteq Nodes
  BY PredsFinite, FS_Subset DEF Waiting

\* A step that counts nothing down and leaves the walk alone.
LEMMA OtherParts ==
  ASSUME IInv, UNCHANGED <<state, numDeps, stack>>,
         \A n \in Nodes : Fresh(n) => Fresh(n)',
         \A n \in Nodes : \A p \in PredSet(n) : CountedDown(p, n)' <=> CountedDown(p, n),
         TaskGraphAssumption
  PROVE  DepsCounted' /\ ReadyInv' /\ WalkInv' /\ StackInv'
  <1>1. DepsCounted'
    <2>1. \A n \in Nodes : {p \in PredSet(n) : ~CountedDown(p, n)'}
                           = {p \in PredSet(n) : ~CountedDown(p, n)}
      OBVIOUS
    <2> QED  BY <2>1 DEF IInv, DepsCounted
  <1>2. ReadyInv'
    BY DEF IInv, ReadyInv
  <1>3. WalkInv'
    BY WalkClosed DEF IInv, WalkInv
  <1>4. StackInv'
    BY DEF IInv, StackInv
  <1> QED  BY <1>1, <1>2, <1>3, <1>4

\* A worker takes a node that nobody else holds.
LEMMA ResumeKeeps ==
  ASSUME TaskGraphAssumption, IInv, NEW w \in Workers, Resume(w)
  PROVE  CoroInv' /\ PlaceInv' /\ DepsCounted' /\ ReadyInv' /\ WalkInv' /\ StackInv'
  <1>0. TypeOK /\ NodeInv /\ CoroInv /\ PlaceInv
    BY DEF IInv, GraphInv
  <1>1. PICK q \in {w, "global"}, n \in Nodes :
          /\ q \in Queues /\ queue[q][n] > 0
          /\ queue' \in QueueType /\ queue'[q][n] = queue[q][n] - 1
          /\ \A r \in Queues, m \in Nodes : r # q \/ m # n => queue'[r][m] = queue[r][m]
          /\ node' = [node EXCEPT ![w] = n]
          /\ coro' = [coro EXCEPT ![n] = "running"]
    BY <1>0, ResumeEffect
  <1>2. /\ pc[w] = "loop" /\ pc' = [pc EXCEPT ![w] = "body"]
        /\ UNCHANGED <<state, numDeps, todo, stack>>
    BY DEF Resume
  <1>3. /\ node'[w] = n /\ pc'[w] = "body" /\ coro'[n] = "running"
        /\ \A v \in Workers : v # w => node'[v] = node[v] /\ pc'[v] = pc[v]
        /\ \A m \in Nodes : m # n => coro'[m] = coro[m]
    BY <1>0, <1>1, <1>2 DEF TypeOK
  <1>4. /\ queue[q][n] = 1 /\ coro[n] \in {"created", "suspended"}
        /\ \A v \in Workers : node[v] # n
        /\ \A r \in Queues : queue[r][n] > 0 => r = q
    BY <1>0, <1>1 DEF PlaceInv
  <1>5. \A r \in Queues, m \in Nodes : queue[r][m] \in Nat /\ queue'[r][m] \in Nat
    BY <1>0, <1>1 DEF TypeOK, QueueType
  <1>6. node[w] = NoNode /\ \A v \in Workers : pc[v] # "loop" => node[v] \in Nodes
    BY <1>0, <1>2 DEF NodeInv, TypeOK
  <1>7. CoroInv'
    <2>1. ASSUME NEW v \in Workers, v # w, pc[v] # "loop"
          PROVE  coro'[node[v]] = coro[node[v]]
      BY <1>3, <1>4, <1>6, <2>1
    <2> QED  BY <1>0, <1>2, <1>3, <2>1 DEF CoroInv
  <1>8. PlaceInv'
    <2>1. \A u, v \in Workers : node'[u] = node'[v] /\ node'[u] # NoNode => u = v
      BY <1>0, <1>3, <1>4 DEF PlaceInv
    <2>2. \A r \in Queues : queue'[r][n] = 0
      BY <1>1, <1>4, <1>5
    <2>3. \A m \in Nodes, r \in Queues : m # n /\ queue'[r][m] > 0 =>
             /\ queue[r][m] > 0 /\ queue'[r][m] = queue[r][m] /\ coro'[m] = coro[m]
             /\ \A v \in Workers : node'[v] = m => node[v] = m
      BY <1>1, <1>3
    <2>4. ASSUME NEW m \in Nodes, NEW r \in Queues, queue'[r][m] > 0
          PROVE  /\ queue'[r][m] = 1
                 /\ \A s \in Queues : queue'[s][m] > 0 => s = r
                 /\ coro'[m] \in {"created", "suspended"}
                 /\ \A v \in Workers : node'[v] # m
      <3>1. m # n
        BY <2>2, <2>4
      <3> QED  BY <1>0, <2>3, <2>4, <3>1 DEF PlaceInv
    <2> QED  BY <2>1, <2>4 DEF PlaceInv
  <1>9. \A m \in Nodes : Fresh(m) => Fresh(m)'
    <2>1. ~Fresh(n)
      BY <1>1, <1>4 DEF Fresh
    <2> QED  BY <1>1, <1>3, <2>1 DEF Fresh
  <1>10. ASSUME NEW m \in Nodes, NEW p \in PredSet(m)
         PROVE  CountedDown(p, m)' <=> CountedDown(p, m)
    <2>1. p \in Nodes
      BY PredsFinite
    <2>2. CASE p = n
      BY <1>3, <1>4, <2>2 DEF CountedDown
    <2>3. CASE p # n
      <3>1. \A v \in Workers : /\ node'[v] = p <=> node[v] = p
                               /\ node[v] = p => pc'[v] = pc[v]
        BY <1>3, <1>6, <2>1, <2>3 DEF TaskGraphAssumption
      <3> QED  BY <1>2, <1>3, <2>1, <2>3, <3>1 DEF CountedDown
    <2> QED  BY <2>2, <2>3
  <1>11. DepsCounted' /\ ReadyInv' /\ WalkInv' /\ StackInv'
    BY <1>2, <1>9, <1>10, OtherParts
  <1> QED  BY <1>7, <1>8, <1>11

\* The coroutine of a worker suspends or ends.
LEMMA ReturnKeeps ==
  ASSUME TaskGraphAssumption, IInv, NEW w \in Workers,
         NEW how \in {"suspended", "done"}, Return(w, how)
  PROVE  CoroInv' /\ PlaceInv' /\ DepsCounted' /\ ReadyInv' /\ WalkInv' /\ StackInv'
  <1>0. TypeOK /\ NodeInv /\ CoroInv /\ PlaceInv
    BY DEF IInv, GraphInv
  <1>1. /\ pc[w] = "body" /\ pc' = [pc EXCEPT ![w] = "resumed"]
        /\ coro' = [coro EXCEPT ![node[w]] = how]
        /\ UNCHANGED <<state, numDeps, queue, node, todo, stack>>
    BY DEF Return
  <1> DEFINE n == node[w]
  <1>2. n \in Nodes /\ \A v \in Workers : pc[v] # "loop" => node[v] \in Nodes
    BY <1>0, <1>1 DEF NodeInv, TypeOK
  <1>3. /\ pc'[w] = "resumed" /\ coro'[n] = how /\ coro[n] = "running"
        /\ \A v \in Workers : v # w => pc'[v] = pc[v]
        /\ \A m \in Nodes : m # n => coro'[m] = coro[m]
    BY <1>0, <1>1, <1>2 DEF TypeOK, CoroInv
  <1>4. \A v \in Workers : v # w => node[v] # n
    BY <1>0, <1>2 DEF PlaceInv, TaskGraphAssumption
  <1>5. node[w] = n
    OBVIOUS
  <1> HIDE DEF n
  <1>6. CoroInv'
    <2>1. ASSUME NEW v \in Workers, v # w, pc[v] # "loop"
          PROVE  coro'[node[v]] = coro[node[v]]
      BY <1>2, <1>3, <1>4, <2>1
    <2> QED  BY <1>0, <1>1, <1>3, <1>5, <2>1 DEF CoroInv
  <1>7. PlaceInv'
    <2>1. \A r \in Queues : ~(queue[r][n] > 0)
      BY <1>0, <1>2, <1>3 DEF PlaceInv
    <2> QED  BY <1>0, <1>1, <1>3, <2>1 DEF PlaceInv
  <1>8. \A m \in Nodes : Fresh(m) => Fresh(m)'
    BY <1>1, <1>3 DEF Fresh
  <1>9. ASSUME NEW m \in Nodes, NEW p \in PredSet(m)
        PROVE  CountedDown(p, m)' <=> CountedDown(p, m)
    <2>1. p \in Nodes
      BY PredsFinite
    <2>2. CASE p = n
      BY <1>1, <1>3, <1>5, <2>2 DEF CountedDown
    <2>3. CASE p # n
      BY <1>1, <1>3, <1>5, <2>1, <2>3 DEF CountedDown
    <2> QED  BY <2>2, <2>3
  <1>10. DepsCounted' /\ ReadyInv' /\ WalkInv' /\ StackInv'
    BY <1>1, <1>8, <1>9, OtherParts
  <1> QED  BY <1>6, <1>7, <1>10

\* A node that was fresh, or is suspended in the hands of one worker, is enqueued.
LEMMA EnqueuePlaces ==
  ASSUME TaskGraphAssumption, TypeOK, PlaceInv, NEW n \in Nodes, NEW q \in Queues, Enqueue(n, q),
         coro' = coro, coro[n] \in {"created", "suspended"},
         \A r \in Queues : queue[r][n] = 0,
         \A v \in Workers : node'[v] # n,
         \A v \in Workers : node'[v] \in {node[v], NoNode}
  PROVE  PlaceInv' /\ ~Fresh(n)' /\ \A m \in Nodes : m # n => (Fresh(m)' <=> Fresh(m))
  <1>1. /\ queue' \in QueueType /\ queue'[q][n] = queue[q][n] + 1
        /\ \A r \in Queues, m \in Nodes : r # q \/ m # n => queue'[r][m] = queue[r][m]
    BY EnqueueEffect
  <1>2. queue'[q][n] = 1 /\ \A r \in Queues : r # q => queue'[r][n] = 0
    BY <1>1
  <1>3. \A u, v \in Workers : node'[u] = node'[v] /\ node'[u] # NoNode => u = v
    BY DEF PlaceInv
  <1>4. ASSUME NEW m \in Nodes, NEW r \in Queues, queue'[r][m] > 0
        PROVE  /\ queue'[r][m] = 1
               /\ \A s \in Queues : queue'[s][m] > 0 => s = r
               /\ coro'[m] \in {"created", "suspended"}
               /\ \A v \in Workers : node'[v] # m
    <2>1. CASE m = n
      <3>1. r = q
        BY <1>2, <1>4, <2>1
      <3> QED  BY <1>2, <2>1, <3>1
    <2>2. CASE m # n
      <3>1. \A s \in Queues : queue'[s][m] = queue[s][m]
        BY <1>1, <2>2
      <3>2. /\ queue[r][m] = 1 /\ coro[m] \in {"created", "suspended"}
            /\ \A s \in Queues : queue[s][m] > 0 => s = r
            /\ \A v \in Workers : node[v] # m
        BY <1>4, <3>1 DEF PlaceInv
      <3> QED  BY <3>1, <3>2 DEF TaskGraphAssumption
    <2> QED  BY <2>1, <2>2
  <1>5. ~Fresh(n)' /\ \A m \in Nodes : m # n => (Fresh(m)' <=> Fresh(m))
    <2>1. coro' = coro /\ queue'[q][n] # 0
      BY <1>2
    <2>2. \A m \in Nodes : m # n => \A r \in Queues : queue'[r][m] = queue[r][m]
      BY <1>1
    <2> QED  BY <2>1, <2>2 DEF Fresh
  <1> QED  BY <1>3, <1>4, <1>5 DEF PlaceInv

\* A suspended coroutine goes back to its worker's queue.
LEMMA RethrowKeeps ==
  ASSUME TaskGraphAssumption, IInv, NEW w \in Workers, Rethrow(w)
  PROVE  CoroInv' /\ PlaceInv' /\ DepsCounted' /\ ReadyInv' /\ WalkInv' /\ StackInv'
  <1>0. TypeOK /\ NodeInv /\ CoroInv /\ PlaceInv
    BY DEF IInv, GraphInv
  <1>5. PICK n \in Nodes : node[w] = n
    BY <1>0 DEF Rethrow, NodeInv, TypeOK
  <1>1. /\ pc[w] = "resumed" /\ coro[n] # "done" /\ pc' = [pc EXCEPT ![w] = "loop"]
        /\ Enqueue(n, w) /\ node' = [node EXCEPT ![w] = NoNode]
        /\ UNCHANGED <<state, numDeps, coro, todo, stack>>
    BY <1>5 DEF Rethrow
  <1>2. n \in Nodes /\ w \in Queues
    BY DEF Queues
  <1>3. /\ pc'[w] = "loop" /\ node'[w] = NoNode /\ coro[n] = "suspended"
        /\ \A v \in Workers : v # w => pc'[v] = pc[v] /\ node'[v] = node[v]
    BY <1>0, <1>1, <1>5 DEF TypeOK, CoroInv
  <1>4. \A v \in Workers : v # w => node[v] # n
    BY <1>0, <1>5 DEF PlaceInv, TaskGraphAssumption
  <1>6. CoroInv'
    BY <1>0, <1>1, <1>3 DEF CoroInv
  <1>7. \A r \in Queues : queue[r][n] = 0
    <2>1. \A r \in Queues : queue[r][n] \in Nat /\ ~(queue[r][n] > 0)
      BY <1>0, <1>2, <1>5 DEF PlaceInv, TypeOK
    <2> QED  BY <2>1
  <1>8. \A v \in Workers : node'[v] # n /\ node'[v] \in {node[v], NoNode}
    BY <1>2, <1>3, <1>4 DEF TaskGraphAssumption
  <1>9. PlaceInv' /\ ~Fresh(n)' /\ \A m \in Nodes : m # n => (Fresh(m)' <=> Fresh(m))
    <2>1. coro' = coro /\ coro[n] \in {"created", "suspended"}
      BY <1>1, <1>3
    <2>4. Enqueue(n, w) /\ n \in Nodes /\ w \in Queues /\ TypeOK /\ PlaceInv
      BY <1>0, <1>1, <1>2
    <2>2. \A v \in Workers : node'[v] # n
      BY <1>8
    <2>3. \A v \in Workers : node'[v] \in {node[v], NoNode}
      BY <1>8
    <2> QED  BY <1>7, <2>1, <2>2, <2>3, <2>4, EnqueuePlaces
  <1>10. \A m \in Nodes : Fresh(m) => Fresh(m)'
    <2>1. ~Fresh(n)
      BY <1>3 DEF Fresh
    <2> QED  BY <1>9, <2>1
  <1>11. ASSUME NEW m \in Nodes, NEW p \in PredSet(m)
         PROVE  CountedDown(p, m)' <=> CountedDown(p, m)
    <2>1. p \in Nodes
      BY PredsFinite
    <2>2. CASE p = n
      BY <1>1, <2>2 DEF CountedDown
    <2>3. CASE p # n
      <3>1. \A v \in Workers : /\ node'[v] = p <=> node[v] = p
                               /\ node[v] = p => pc'[v] = pc[v]
        BY <1>3, <1>5, <2>1, <2>3 DEF TaskGraphAssumption
      <3> QED  BY <1>1, <3>1 DEF CountedDown
    <2> QED  BY <2>2, <2>3
  <1>12. DepsCounted' /\ ReadyInv' /\ WalkInv' /\ StackInv'
    BY <1>1, <1>10, <1>11, OtherParts
  <1> QED  BY <1>6, <1>9, <1>12

\* A worker finds its coroutine done.
LEMMA CompleteKeeps ==
  ASSUME TaskGraphAssumption, IInv, NEW w \in Workers, Complete(w)
  PROVE  CoroInv' /\ PlaceInv' /\ DepsCounted' /\ ReadyInv' /\ WalkInv' /\ StackInv'
  <1>0. TypeOK /\ NodeInv /\ CoroInv /\ PlaceInv
    BY DEF IInv, GraphInv
  <1>1. /\ pc[w] = "resumed" /\ coro[node[w]] = "done"
        /\ pc' = [pc EXCEPT ![w] = "succs"]
        /\ todo' = [todo EXCEPT ![w] = SuccSet(node[w])]
        /\ UNCHANGED <<state, numDeps, coro, queue, remainingJobs, node, stack>>
    BY DEF Complete
  <1>2. /\ pc'[w] = "succs" /\ todo'[w] = SuccSet(node[w])
        /\ \A v \in Workers : v # w => pc'[v] = pc[v] /\ todo'[v] = todo[v]
    BY <1>0, <1>1 DEF TypeOK
  <1>3. CoroInv'
    BY <1>0, <1>1, <1>2 DEF CoroInv
  <1>4. PlaceInv'
    BY <1>0, <1>1 DEF PlaceInv
  <1>5. \A m \in Nodes : Fresh(m) => Fresh(m)'
    BY <1>1 DEF Fresh
  <1>6. ASSUME NEW m \in Nodes, NEW p \in PredSet(m)
        PROVE  CountedDown(p, m)' <=> CountedDown(p, m)
    <2>1. CASE node[w] = p
      <3>1. m \in todo'[w]
        BY <1>2, <2>1 DEF SuccSet
      <3> QED  BY <1>1, <1>2, <2>1, <3>1 DEF CountedDown
    <2>2. CASE node[w] # p
      BY <1>1, <1>2, <2>2 DEF CountedDown
    <2> QED  BY <2>1, <2>2
  <1>7. DepsCounted' /\ ReadyInv' /\ WalkInv' /\ StackInv'
    BY <1>1, <1>5, <1>6, OtherParts
  <1> QED  BY <1>3, <1>4, <1>7

\* A worker has counted every successor down.
LEMMA ProcessedKeeps ==
  ASSUME TaskGraphAssumption, IInv, NEW w \in Workers, Processed(w)
  PROVE  CoroInv' /\ PlaceInv' /\ DepsCounted' /\ ReadyInv' /\ WalkInv' /\ StackInv'
  <1>0. TypeOK /\ NodeInv /\ CoroInv /\ PlaceInv
    BY DEF IInv, GraphInv
  <1>1. /\ pc[w] = "succs" /\ todo[w] = {} /\ pc' = [pc EXCEPT ![w] = "loop"]
        /\ node' = [node EXCEPT ![w] = NoNode]
        /\ UNCHANGED <<state, numDeps, coro, queue, remainingJobs, todo, stack>>
    BY DEF Processed
  <1>2. /\ pc'[w] = "loop" /\ node'[w] = NoNode
        /\ \A v \in Workers : v # w => pc'[v] = pc[v] /\ node'[v] = node[v]
    BY <1>0, <1>1 DEF TypeOK
  <1>3. CoroInv'
    BY <1>0, <1>1, <1>2 DEF CoroInv
  <1>4. PlaceInv'
    BY <1>0, <1>1, <1>2 DEF PlaceInv, TaskGraphAssumption
  <1>5. \A m \in Nodes : Fresh(m) => Fresh(m)'
    BY <1>1 DEF Fresh
  <1>6. ASSUME NEW m \in Nodes, NEW p \in PredSet(m)
        PROVE  CountedDown(p, m)' <=> CountedDown(p, m)
    <2>1. p # NoNode
      BY PredsFinite DEF TaskGraphAssumption
    <2>2. \A v \in Workers : node'[v] = p => node[v] = p /\ pc'[v] = pc[v]
      BY <1>2, <2>1
    <2>3. \A v \in Workers : node[v] = p => v = w \/ (node'[v] = p /\ pc'[v] = pc[v])
      BY <1>2
    <2> QED  BY <1>1, <2>2, <2>3 DEF CountedDown
  <1>7. DepsCounted' /\ ReadyInv' /\ WalkInv' /\ StackInv'
    BY <1>1, <1>5, <1>6, OtherParts
  <1> QED  BY <1>3, <1>4, <1>7

\* A worker counts a successor down.  If that makes it ready it was fresh; and the walk has
\* been there, or its private predecessor would have to be done before anybody visited it.
LEMMA CountDownKeeps ==
  ASSUME TaskGraphAssumption, WalkIsPrivate, IInv, NEW w \in Workers, CountDown(w)
  PROVE  CoroInv' /\ PlaceInv' /\ DepsCounted' /\ ReadyInv' /\ WalkInv' /\ StackInv'
  <1>0. /\ GraphInv /\ TypeOK /\ NodeInv /\ CoroInv /\ PlaceInv /\ DepsCounted
        /\ ReadyInv /\ WalkInv /\ StackInv
    BY DEF IInv, GraphInv
  <1>1. PICK s \in todo[w] :
          /\ s \in Nodes
          /\ numDeps' \in [Nodes -> Int] /\ numDeps'[s] = numDeps[s] - 1
          /\ \A m \in Nodes : m # s => numDeps'[m] = numDeps[m]
          /\ todo' = [todo EXCEPT ![w] = todo[w] \ {s}]
          /\ IF numDeps[s] = 1 THEN Enqueue(s, "global") ELSE NoEnqueue
    BY <1>0, CountDownEffect
  <1>2. pc[w] = "succs" /\ UNCHANGED <<state, coro, pc, node, stack>>
    BY DEF CountDown
  <1>3. PICK n \in Nodes : node[w] = n
    BY <1>0, <1>2 DEF NodeInv, TypeOK
  <1>4. coro[n] = "done" /\ n \in PredSet(s)
    BY <1>0, <1>2, <1>3 DEF CoroInv, SuccSet
  <1>5. /\ todo'[w] = todo[w] \ {s} /\ \A v \in Workers : v # w => todo'[v] = todo[v]
        /\ \A v \in Workers : todo'[v] \subseteq todo[v]
    BY <1>0, <1>1 DEF TypeOK
  <1>6. \A v \in Workers : node[v] = n => v = w
    BY <1>0, <1>3 DEF PlaceInv, TaskGraphAssumption
  <1>7. ~CountedDown(n, s) /\ CountedDown(n, s)'
    BY <1>1, <1>2, <1>3, <1>4, <1>5, <1>6 DEF CountedDown
  <1>8. ASSUME NEW m \in Nodes, NEW p \in PredSet(m), p # n \/ m # s
        PROVE  CountedDown(p, m)' <=> CountedDown(p, m)
    <2>1. \A v \in Workers : node[v] = p => (m \in todo'[v] <=> m \in todo[v])
      BY <1>3, <1>5, <1>8
    <2> QED  BY <1>2, <2>1 DEF CountedDown
  <1>9. CoroInv'
    <2>1. ASSUME NEW v \in Workers, pc[v] = "succs"
          PROVE  todo'[v] \subseteq SuccSet(node[v])
      BY <1>0, <1>5, <2>1 DEF CoroInv
    <2> QED  BY <1>0, <1>2, <2>1 DEF CoroInv
  <1> DEFINE D == Waiting(s)
  <1>10. IsFiniteSet(D) /\ Cardinality(D) = numDeps[s] /\ Cardinality(D) \in Nat /\ n \in D
    BY <1>0, <1>1, <1>4, <1>7, WaitingFinite, FS_CardinalityType DEF DepsCounted, Waiting
  <1>11. Waiting(s)' = D \ {n}
    BY <1>1, <1>4, <1>7, <1>8 DEF Waiting
  <1>12. numDeps[s] = 1 => D = {n}
    <2>1. ASSUME numDeps[s] = 1  PROVE D = {n}
      <3>1. Cardinality(D \ {n}) = 0 /\ IsFiniteSet(D \ {n})
        BY <1>10, <2>1, FS_RemoveElement
      <3>2. D \ {n} = {}
        BY <3>1, FS_EmptySet
      <3> QED  BY <1>10, <3>2
    <2> QED  BY <2>1
  <1>13. DepsCounted'
    <2>1. Cardinality(D \ {n}) = Cardinality(D) - 1
      BY <1>10, FS_RemoveElement
    <2>2. numDeps'[s] = Cardinality(Waiting(s)')
      BY <1>1, <1>10, <1>11, <2>1
    <2>3. ASSUME NEW m \in Nodes, m # s
          PROVE  numDeps'[m] = Cardinality(Waiting(m)')
      <3>1. Waiting(m)' = Waiting(m)
        BY <1>8, <2>3 DEF Waiting
      <3> QED  BY <1>0, <1>1, <2>3, <3>1 DEF DepsCounted, Waiting
    <2>4. \A m \in Nodes : numDeps'[m] = Cardinality(Waiting(m)')
      BY <2>2, <2>3
    <2> QED  BY <2>4 DEF DepsCounted, Waiting
  <1>14. \A m \in Nodes : (\A p \in PredSet(m) : CountedDown(p, m))
                          => \A p \in PredSet(m) : CountedDown(p, m)'
    BY <1>7, <1>8
  <1>15. StackInv'
    BY <1>0, <1>2 DEF StackInv
  <1>16. CASE numDeps[s] = 1
    <2>1. Fresh(s)
      BY <1>0, <1>1, <1>4, <1>7 DEF ReadyInv
    <2>2. \A v \in Workers : node'[v] # s /\ node'[v] \in {node[v], NoNode}
      BY <1>0, <1>1, <1>2, <2>1, FreshFacts
    <2>3. PlaceInv' /\ ~Fresh(s)' /\ \A m \in Nodes : m # s => (Fresh(m)' <=> Fresh(m))
      <3>1. coro' = coro /\ coro[s] \in {"created", "suspended"}
            /\ \A r \in Queues : queue[r][s] = 0
        BY <1>2, <2>1 DEF Fresh
      <3>2. Enqueue(s, "global") /\ s \in Nodes /\ "global" \in Queues
        BY <1>1, <1>16 DEF Queues
      <3>3. /\ \A v \in Workers : node'[v] # s
            /\ \A v \in Workers : node'[v] \in {node[v], NoNode}
        BY <2>2
      <3> QED  BY <1>0, <3>1, <3>2, <3>3, EnqueuePlaces
    <2>4. \A p \in PredSet(s) : CountedDown(p, s)'
      <3>1. Waiting(s)' = {}
        BY <1>11, <1>12, <1>16
      <3> QED  BY <3>1 DEF Waiting
    <2>5. ReadyInv'
      BY <1>0, <1>14, <2>3, <2>4 DEF ReadyInv
    <2>6. s \in Walk => state[s] # "idle"
      <3>1. ASSUME s \in Walk, state[s] = "idle"  PROVE FALSE
        <4>1. PICK m \in PredSet(s) : PrivatePred(m, s)
          BY <1>4, <3>1 DEF WalkIsPrivate
        <4>2. m \in Walk /\ m \in Nodes /\ state[m] = "idle"
          BY <1>0, <3>1, <4>1, WalkClosed DEF WalkInv
        <4>3. Fresh(m)
          BY <1>0, <4>2 DEF WalkInv
        <4>4. m \in D
          BY <1>0, <4>1, <4>2, <4>3, FreshFacts DEF Waiting
        <4>5. m = n
          BY <1>12, <1>16, <4>4
        <4> QED  BY <1>4, <4>3, <4>5 DEF Fresh
      <3> QED  BY <3>1
    <2>7. WalkInv'
      BY <1>0, <1>2, <2>3, <2>6, WalkClosed DEF WalkInv
    <2> QED  BY <1>9, <1>13, <1>15, <2>3, <2>5, <2>7
  <1>17. CASE numDeps[s] # 1
    <2>1. UNCHANGED <<queue, coro, node, state>>
      BY <1>1, <1>2, <1>17 DEF NoEnqueue
    <2>2. PlaceInv'
      BY <1>0, <2>1 DEF PlaceInv
    <2>3. \A m \in Nodes : Fresh(m)' <=> Fresh(m)
      BY <2>1 DEF Fresh
    <2>4. ReadyInv'
      BY <1>0, <1>14, <2>3 DEF ReadyInv
    <2>5. WalkInv'
      BY <1>0, <2>1, <2>3, WalkClosed DEF WalkInv
    <2> QED  BY <1>9, <1>13, <1>15, <2>2, <2>4, <2>5
  <1> QED  BY <1>16, <1>17

\* schedule() visits a node of the walk, from a node it has planned if it is private to one.
LEMMA VisitKeeps ==
  ASSUME TaskGraphAssumption, IInv, NEW n \in Walk, NEW callers \in Seq(Seq(Nodes)),
         Visit(n, callers),
         \A i \in 1 .. Len(callers) :
           \E k \in Walk : state[k] = "planned" /\ ToSet(callers[i]) \subseteq PredSet(k),
         \A k \in Walk : PrivatePred(n, k) => state[k] = "planned"
  PROVE  CoroInv' /\ PlaceInv' /\ DepsCounted' /\ ReadyInv' /\ WalkInv' /\ StackInv'
  <1>0. /\ GraphInv /\ TypeOK /\ NodeInv /\ CoroInv /\ PlaceInv /\ DepsCounted
        /\ ReadyInv /\ WalkInv /\ StackInv /\ n \in Nodes
    BY WalkClosed DEF IInv, GraphInv
  <1>1. /\ state' \in [Nodes -> {"idle", "planned"}] /\ stack' \in Seq(Seq(Nodes))
        /\ state'[n] = "planned" /\ \A m \in Nodes : m # n => state'[m] = state[m]
        /\ NoEnqueue \/ (state[n] = "idle" /\ numDeps[n] = 0 /\ Enqueue(n, "global"))
        /\ UNCHANGED <<numDeps, coro, pc, node, todo>>
    BY <1>0, VisitEffect
  <1>2. CoroInv'
    BY <1>0, <1>1 DEF CoroInv
  <1>3. \A m \in Nodes : \A p \in PredSet(m) : CountedDown(p, m)' <=> CountedDown(p, m)
    BY <1>1 DEF CountedDown
  <1>4. DepsCounted'
    <2>1. \A m \in Nodes : {p \in PredSet(m) : ~CountedDown(p, m)'}
                           = {p \in PredSet(m) : ~CountedDown(p, m)}
      BY <1>3
    <2> QED  BY <1>0, <1>1, <2>1 DEF DepsCounted
  <1>5. PlaceInv' /\ ReadyInv' /\ \A m \in Nodes : m # n => (Fresh(m)' <=> Fresh(m))
    <2>1. CASE NoEnqueue
      <3>1. UNCHANGED <<queue, coro, node>>
        BY <1>1, <2>1 DEF NoEnqueue
      <3>2. \A m \in Nodes : Fresh(m)' <=> Fresh(m)
        BY <3>1 DEF Fresh
      <3>3. PlaceInv'
        BY <1>0, <3>1 DEF PlaceInv
      <3>4. ReadyInv'
        BY <1>0, <1>3, <3>2 DEF ReadyInv
      <3> QED  BY <3>2, <3>3, <3>4
    <2>2. CASE state[n] = "idle" /\ numDeps[n] = 0 /\ Enqueue(n, "global")
      <3>1. Fresh(n)
        BY <1>0, <2>2 DEF WalkInv
      <3>2. /\ coro' = coro /\ coro[n] \in {"created", "suspended"}
            /\ \A r \in Queues : queue[r][n] = 0
        BY <1>1, <3>1 DEF Fresh
      <3>3. /\ \A v \in Workers : node'[v] # n
            /\ \A v \in Workers : node'[v] \in {node[v], NoNode}
        BY <1>0, <1>1, <3>1, FreshFacts
      <3>4. Enqueue(n, "global") /\ "global" \in Queues
        BY <2>2 DEF Queues
      <3>5. PlaceInv' /\ \A m \in Nodes : m # n => (Fresh(m)' <=> Fresh(m))
        BY <1>0, <3>2, <3>3, <3>4, EnqueuePlaces
      <3>6. Waiting(n) = {}
        <4>1. Cardinality(Waiting(n)) = 0 /\ IsFiniteSet(Waiting(n))
          BY <1>0, <2>2, WaitingFinite DEF DepsCounted, Waiting
        <4> QED  BY <4>1, FS_EmptySet
      <3>7. \A p \in PredSet(n) : CountedDown(p, n)
        BY <3>6 DEF Waiting
      <3>8. ReadyInv'
        BY <1>0, <1>3, <3>5, <3>7 DEF ReadyInv
      <3> QED  BY <3>5, <3>8
    <2> QED  BY <1>1, <2>1, <2>2
  <1>6. WalkInv'
    <2>1. ASSUME NEW k \in Walk, state'[k] = "idle"
          PROVE  Fresh(k)' /\ \A m \in PredSet(k) : PrivatePred(m, k) => state'[m] = "idle"
      <3>1. k \in Nodes /\ k # n /\ state[k] = "idle"
        BY <1>1, <2>1, WalkClosed
      <3>2. Fresh(k) /\ \A m \in PredSet(k) : PrivatePred(m, k) => state[m] = "idle"
        BY <1>0, <3>1 DEF WalkInv
      <3>3. ~PrivatePred(n, k)
        BY <3>1
      <3>4. PredSet(k) \subseteq Nodes
        BY <3>1, PredsFinite
      <3> QED  BY <1>1, <1>5, <3>1, <3>2, <3>3, <3>4
    <2> QED  BY <2>1 DEF WalkInv
  <1>7. StackInv'
    <2>1. stack' \in {<<>>, callers, Append(callers, Preds[n])}
      BY DEF Visit
    <2>2. ASSUME NEW i \in 1 .. Len(callers)
          PROVE  \E k \in Walk : state'[k] = "planned" /\ ToSet(callers[i]) \subseteq PredSet(k)
      <3>1. PICK k \in Walk : state[k] = "planned" /\ ToSet(callers[i]) \subseteq PredSet(k)
        OBVIOUS
      <3>2. state'[k] = "planned"
        BY <1>1, <3>1, WalkClosed
      <3> QED  BY <3>1, <3>2
    <2>3. ASSUME NEW i \in 1 .. Len(stack')
          PROVE  \E k \in Walk : state'[k] = "planned" /\ ToSet(stack'[i]) \subseteq PredSet(k)
      <3>1. CASE stack' = <<>>
        BY <2>3, <3>1
      <3>2. CASE stack' = callers
        BY <2>2, <2>3, <3>2
      <3>3. CASE stack' = Append(callers, Preds[n])
        <4>1. Preds[n] \in Seq(Nodes) /\ ToSet(Preds[n]) = PredSet(n)
          BY <1>0 DEF TaskGraphAssumption, PredSet
        <4>2. \/ i = Len(callers) + 1 /\ stack'[i] = Preds[n]
              \/ i \in 1 .. Len(callers) /\ stack'[i] = callers[i]
          BY <2>3, <3>3, <4>1
        <4>3. CASE i = Len(callers) + 1 /\ stack'[i] = Preds[n]
          <5>1. state'[n] = "planned" /\ ToSet(stack'[i]) = PredSet(n)
            BY <1>1, <4>1, <4>3
          <5> QED  BY <5>1
        <4>4. CASE i \in 1 .. Len(callers) /\ stack'[i] = callers[i]
          BY <2>2, <4>4
        <4> QED  BY <4>2, <4>3, <4>4
      <3> QED  BY <2>1, <3>1, <3>2, <3>3
    <2> QED  BY <2>3 DEF StackInv
  <1> QED  BY <1>2, <1>4, <1>5, <1>6, <1>7

\* A call of schedule() returns.
LEMMA AscendKeeps ==
  ASSUME TaskGraphAssumption, IInv, Ascend
  PROVE  CoroInv' /\ PlaceInv' /\ DepsCounted' /\ ReadyInv' /\ WalkInv' /\ StackInv'
  <1>1. /\ stack # <<>> /\ stack' = Front(stack)
        /\ UNCHANGED <<state, numDeps, coro, queue, remainingJobs, pc, node, todo>>
    BY DEF Ascend
  <1>2. CoroInv' /\ PlaceInv' /\ ReadyInv' /\ WalkInv'
    BY <1>1 DEF IInv, CoroInv, PlaceInv, ReadyInv, WalkInv, Fresh, CountedDown
  <1>3. DepsCounted'
    BY <1>1 DEF IInv, DepsCounted, CountedDown
  <1>4. /\ Len(stack') = Len(stack) - 1 /\ Len(stack) \in Nat
        /\ \A i \in 1 .. Len(stack) - 1 : stack'[i] = stack[i]
    BY <1>1, LastFront DEF IInv, GraphInv, TypeOK
  <1>5. StackInv'
    <2>1. ASSUME NEW i \in 1 .. Len(stack')
          PROVE  \E n \in Walk : state'[n] = "planned" /\ ToSet(stack'[i]) \subseteq PredSet(n)
      <3>1. i \in 1 .. Len(stack) /\ stack'[i] = stack[i]
        BY <1>4, <2>1
      <3> QED  BY <1>1, <3>1 DEF IInv, StackInv
    <2> QED  BY <2>1 DEF StackInv
  <1> QED  BY <1>2, <1>3, <1>5

\* The client calls schedule() with a target, which is private to no node.
LEMMA ScheduleKeeps ==
  ASSUME TaskGraphAssumption, IInv, NEW n \in Targets, Schedule(n)
  PROVE  CoroInv' /\ PlaceInv' /\ DepsCounted' /\ ReadyInv' /\ WalkInv' /\ StackInv'
  <1>1. n \in Walk /\ <<>> \in Seq(Seq(Nodes)) /\ Visit(n, <<>>)
    BY WalkClosed DEF Schedule
  <1>2. \A i \in 1 .. Len(<<>>) :
          \E k \in Walk : state[k] = "planned" /\ ToSet(<<>>[i]) \subseteq PredSet(k)
    OBVIOUS
  <1>3. \A k \in Walk : PrivatePred(n, k) => state[k] = "planned"
    BY DEF PrivatePred
  <1> QED  BY <1>1, <1>2, <1>3, VisitKeeps

\* A call goes on to a predecessor: of a node that it has planned.
LEMMA DescendKeeps ==
  ASSUME TaskGraphAssumption, IInv, Descend
  PROVE  CoroInv' /\ PlaceInv' /\ DepsCounted' /\ ReadyInv' /\ WalkInv' /\ StackInv'
  <1>0. TypeOK /\ StackInv
    BY DEF IInv, GraphInv
  <1>1. stack # <<>> /\ Last(stack) # <<>>
    BY DEF Descend
  <1>2. PICK n \in Nodes : n = Head(Last(stack))
    BY <1>0, <1>1, NextCall
  <1>3. PICK rest \in Seq(Nodes) : rest = Tail(Last(stack))
    BY <1>0, <1>1, NextCall
  <1>4. PICK callers \in Seq(Seq(Nodes)) : callers = Append(Front(stack), rest)
    BY <1>0, <1>1, <1>3, NextCall
  <1>5. Visit(n, callers)
    BY <1>2, <1>3, <1>4 DEF Descend
  <1>6. /\ Len(stack) \in Nat \ {0} /\ Last(stack) = stack[Len(stack)]
        /\ Last(stack) \in Seq(Nodes)
        /\ Front(stack) \in Seq(Seq(Nodes)) /\ Len(Front(stack)) = Len(stack) - 1
        /\ \A i \in 1 .. Len(stack) - 1 : Front(stack)[i] = stack[i]
    BY <1>0, <1>1, LastFront DEF TypeOK
  <1>7. PICK k \in Walk : state[k] = "planned" /\ ToSet(Last(stack)) \subseteq PredSet(k)
    <2>1. Len(stack) \in 1 .. Len(stack)
      BY <1>6
    <2>2. \E k \in Walk : state[k] = "planned" /\ ToSet(stack[Len(stack)]) \subseteq PredSet(k)
      BY <1>0, <2>1 DEF StackInv
    <2> QED  BY <1>6, <2>2
  <1>8. n \in ToSet(Last(stack)) /\ ToSet(rest) \subseteq ToSet(Last(stack))
    <2>1. Len(Last(stack)) \in Nat \ {0} /\ n = Last(stack)[1]
      BY <1>1, <1>2, <1>6
    <2>2. /\ Len(rest) = Len(Last(stack)) - 1
          /\ \A i \in 1 .. Len(rest) : rest[i] = Last(stack)[i + 1]
      BY <1>1, <1>3, <1>6
    <2>3. DOMAIN Last(stack) = 1 .. Len(Last(stack)) /\ DOMAIN rest = 1 .. Len(rest)
      BY <1>6
    <2>4. \A i \in 1 .. Len(rest) : i + 1 \in 1 .. Len(Last(stack))
      BY <2>1, <2>2
    <2>5. 1 \in 1 .. Len(Last(stack))
      BY <2>1
    <2> QED  BY <2>1, <2>2, <2>3, <2>4, <2>5 DEF ToSet
  <1>9. n \in PredSet(k) /\ n \in Walk
    BY <1>7, <1>8, WalkClosed
  <1>10. ASSUME NEW i \in 1 .. Len(callers)
         PROVE  \E m \in Walk : state[m] = "planned" /\ ToSet(callers[i]) \subseteq PredSet(m)
    <2>0. /\ Len(callers) = Len(stack) /\ callers[Len(stack)] = rest
          /\ \A j \in 1 .. Len(stack) - 1 : callers[j] = stack[j]
      <3> DEFINE g == Front(stack)
      <3>1. g \in Seq(Seq(Nodes)) /\ Len(g) \in Nat /\ callers = Append(g, rest)
        BY <1>4, <1>6
      <3> HIDE DEF g
      <3>2. /\ Len(callers) = Len(g) + 1 /\ callers[Len(g) + 1] = rest
            /\ \A j \in 1 .. Len(g) : callers[j] = g[j]
        BY <3>1
      <3>3. Len(g) = Len(stack) - 1 /\ \A j \in 1 .. Len(stack) - 1 : g[j] = stack[j]
        BY <1>6 DEF g
      <3>4. Len(g) + 1 = Len(stack)
        BY <1>6, <3>3
      <3> QED  BY <3>2, <3>3, <3>4
    <2>1. CASE i = Len(stack)
      <3>1. callers[i] = rest
        BY <2>0, <2>1
      <3> QED  BY <1>7, <1>8, <3>1
    <2>2. CASE i # Len(stack)
      <3>1. i \in 1 .. Len(stack) - 1 /\ callers[i] = stack[i]
        BY <1>6, <1>10, <2>0, <2>2
      <3>2. i \in 1 .. Len(stack)
        BY <1>6, <3>1
      <3> QED  BY <1>0, <3>1, <3>2 DEF StackInv
    <2> QED  BY <2>1, <2>2
  <1>11. \A j \in Walk : PrivatePred(n, j) => state[j] = "planned"
    <2>1. ASSUME NEW j \in Walk, PrivatePred(n, j)  PROVE j = k
      <3>1. k \in SuccSet(n) \cap Walk
        BY <1>7, <1>9, WalkClosed DEF SuccSet
      <3> QED  BY <2>1, <3>1 DEF PrivatePred
    <2> QED  BY <1>7, <2>1
  <1> QED  BY <1>5, <1>9, <1>10, <1>11, VisitKeeps

\* The invariant holds at first: nothing was enqueued or counted down.
LEMMA IInvInit ==
  ASSUME TaskGraphAssumption, Init
  PROVE  IInv
  <1>1. GraphInv
    BY GraphInit
  <1>2. CoroInv /\ PlaceInv
    BY DEF Init, CoroInv, PlaceInv
  <1>3. \A n \in Nodes : Fresh(n) /\ state[n] = "idle"
    BY DEF Init, Fresh
  <1>4. DepsCounted
    <2>1. ASSUME NEW n \in Nodes
          PROVE  numDeps[n] = Cardinality({p \in PredSet(n) : ~CountedDown(p, n)})
      <3>1. \A p \in PredSet(n) : ~CountedDown(p, n)
        BY PredsFinite DEF Init, CountedDown
      <3>2. {p \in PredSet(n) : ~CountedDown(p, n)} = PredSet(n)
        BY <3>1
      <3> QED  BY <3>2, PredsFinite DEF Init
    <2> QED  BY <2>1 DEF DepsCounted
  <1>5. ReadyInv
    BY <1>3 DEF ReadyInv
  <1>6. WalkInv
    BY <1>3, WalkClosed DEF WalkInv
  <1>7. StackInv
    BY DEF Init, StackInv
  <1> QED  BY <1>1, <1>2, <1>4, <1>5, <1>6, <1>7 DEF IInv

\* Each step keeps it.
LEMMA IInvStep ==
  ASSUME TaskGraphAssumption, WalkIsPrivate, IInv, Next
  PROVE  IInv'
  <1>1. GraphInv'
    BY GraphStep DEF IInv
  <1>2. CoroInv' /\ PlaceInv' /\ DepsCounted' /\ ReadyInv' /\ WalkInv' /\ StackInv'
    <2>1. CASE \E n \in Targets : Schedule(n)
      BY <2>1, ScheduleKeeps
    <2>2. CASE Descend
      BY <2>2, DescendKeeps
    <2>3. CASE Ascend
      BY <2>3, AscendKeeps
    <2>4. ASSUME NEW w \in Workers, Worker(w)
          PROVE  CoroInv' /\ PlaceInv' /\ DepsCounted' /\ ReadyInv' /\ WalkInv' /\ StackInv'
      <3>1. CASE Resume(w)
        BY <3>1, ResumeKeeps
      <3>2. CASE Suspended(w) \/ Finished(w)
        BY <3>2, ReturnKeeps DEF Suspended, Finished
      <3>3. CASE Rethrow(w)
        BY <3>3, RethrowKeeps
      <3>4. CASE Complete(w)
        BY <3>4, CompleteKeeps
      <3>5. CASE CountDown(w)
        BY <3>5, CountDownKeeps
      <3>6. CASE Processed(w)
        BY <3>6, ProcessedKeeps
      <3> QED  BY <2>4, <3>1, <3>2, <3>3, <3>4, <3>5, <3>6 DEF Worker
    <2> QED  BY <2>1, <2>2, <2>3, <2>4 DEF Next
  <1> QED  BY <1>1, <1>2 DEF IInv

\* So does a step that changes nothing.
LEMMA IInvStutter ==
  ASSUME IInv, UNCHANGED vars
  PROVE  IInv'
  <1>1. GraphInv'
    BY GraphStutter DEF IInv
  <1>2. CoroInv' /\ PlaceInv' /\ ReadyInv' /\ WalkInv' /\ StackInv'
    BY DEF vars, IInv, CoroInv, PlaceInv, ReadyInv, WalkInv, StackInv, Fresh, CountedDown
  <1>3. DepsCounted'
    BY DEF vars, IInv, DepsCounted, CountedDown
  <1> QED  BY <1>1, <1>2, <1>3 DEF IInv

\* The invariant holds of every behaviour when the walk is private.
LEMMA Invariance ==
  ASSUME WalkIsPrivate
  PROVE  Spec => []IInv
  <1>1. Init => IInv
    BY TaskGraphAssumption, IInvInit
  <1>2. IInv /\ [Next]_vars => IInv'
    BY TaskGraphAssumption, WalkIsPrivate, IInvStep, IInvStutter
  <1> QED  BY <1>1, <1>2, PTL DEF Spec

\* A node's handle is in one place at most, and a queued one is that of a coroutine that may
\* be resumed: process() is never handed a task that is not valid.
THEOREM TasksAreValid ==
  ASSUME WalkIsPrivate
  PROVE  Spec => []TaskIsValid
  <1>1. IInv => TaskIsValid
    <2> SUFFICES ASSUME IInv, NEW n \in Nodes
                 PROVE  /\ \A q \in Queues : queue[q][n] <= 1
                        /\ Cardinality(Queued(n)) + Cardinality(HandledBy(n)) <= 1
                        /\ Queued(n) # {} => coro[n] \in {"created", "suspended"}
      BY DEF TaskIsValid
    <2>0. PlaceInv /\ TypeOK
      BY DEF IInv, GraphInv
    <2>1. \A q \in Queues : queue[q][n] <= 1
      <3>1. \A q \in Queues : queue[q][n] \in Nat /\ (queue[q][n] > 0 => queue[q][n] = 1)
        BY <2>0 DEF PlaceInv, TypeOK
      <3> QED  BY <3>1
    <2>2. Queued(n) # {} => coro[n] \in {"created", "suspended"}
      BY <2>0 DEF PlaceInv, Queued
    <2>3. Cardinality(Queued(n)) + Cardinality(HandledBy(n)) <= 1
      <3>1. CASE Queued(n) # {}
        <4>1. PICK q \in Queues : queue[q][n] > 0
          BY <3>1 DEF Queued
        <4>2. Queued(n) = {q} /\ HandledBy(n) = {}
          BY <2>0, <4>1 DEF PlaceInv, Queued, HandledBy
        <4> QED  BY <4>2, FS_EmptySet, FS_Singleton
      <3>2. CASE Queued(n) = {} /\ HandledBy(n) # {}
        <4>1. PICK w \in Workers : node[w] = n
          BY <3>2 DEF HandledBy
        <4>2. HandledBy(n) = {w}
          BY <2>0, <3>2, <4>1, TaskGraphAssumption DEF PlaceInv, HandledBy, TaskGraphAssumption
        <4> QED  BY <3>2, <4>2, FS_EmptySet, FS_Singleton
      <3>3. CASE Queued(n) = {} /\ HandledBy(n) = {}
        BY <3>3, FS_EmptySet
      <3> QED  BY <3>1, <3>2, <3>3
    <2> QED  BY <2>1, <2>2, <2>3
  <1> QED  BY <1>1, Invariance, PTL

\* A node is neither queued nor started before each of its predecessors is done.
THEOREM DependenciesHold ==
  ASSUME WalkIsPrivate
  PROVE  Spec => []DepsRespected
  <1>1. IInv => DepsRespected
    <2> SUFFICES ASSUME IInv, NEW n \in Nodes, Queued(n) # {} \/ coro[n] # "created",
                        NEW p \in PredSet(n)
                 PROVE  coro[p] = "done"
      BY DEF DepsRespected
    <2>1. ~Fresh(n)
      BY DEF Queued, Fresh
    <2> QED  BY <2>1 DEF IInv, ReadyInv, CountedDown
  <1> QED  BY <1>1, Invariance, PTL

\* _numDeps is the number of predecessors that are yet to be counted down.
THEOREM CountdownIsExact ==
  ASSUME WalkIsPrivate
  PROVE  Spec => []DepsCounted
  <1>1. IInv => DepsCounted
    BY DEF IInv
  <1> QED  BY <1>1, Invariance, PTL

\* _remainingJobs counts each node that is queued or being resumed, once.
THEOREM JobsAreExact ==
  ASSUME WalkIsPrivate
  PROVE  Spec => []JobsCounted
  <1>1. IInv => JobsCounted
    <2> SUFFICES ASSUME IInv  PROVE JobsCounted
      OBVIOUS
    <2>0. PlaceInv /\ TypeOK /\ JobsInv
      BY DEF IInv, GraphInv
    <2> DEFINE Full == {c \in Cells : Load[c] = 1}
               Busy == {n \in Nodes : Queued(n) # {}}
    <2>1. \A c \in Cells : Load[c] \in {0, 1}
      <3>1. \A q \in Queues, n \in Nodes : queue[q][n] \in {0, 1}
        <4>1. \A q \in Queues, n \in Nodes :
                 queue[q][n] \in Nat /\ (queue[q][n] > 0 => queue[q][n] = 1)
          BY <2>0 DEF PlaceInv, TypeOK
        <4> QED  BY <4>1
      <3> QED  BY <3>1 DEF Load, Cells
    <2>2. Total(Load, Cells) = Cardinality(Full)
      BY <2>1, CellsFinite, TaskGraphAssumption, SumCounts
    <2>3. IsFiniteSet(Full)
      BY CellsFinite, TaskGraphAssumption, FS_Subset
    <2>4. \A q \in Queues, n \in Nodes : <<q, n>> \in Full <=> queue[q][n] = 1
      BY DEF Load, Cells
    <2>5. \A c \in Full : c[1] \in Queues /\ c[2] \in Nodes /\ c = <<c[1], c[2]>>
      BY DEF Cells
    <2> HIDE DEF Full
    <2> DEFINE f == [c \in Full |-> c[2]]
    <2>6. f \in Bijection(Full, Busy)
      <3>1. ASSUME NEW c \in Full  PROVE c[2] \in Busy
        <4>1. queue[c[1]][c[2]] = 1
          BY <2>4, <2>5
        <4> QED  BY <2>5, <4>1 DEF Queued
      <3>2. ASSUME NEW c \in Full, NEW d \in Full, c[2] = d[2]  PROVE c = d
        <4>1. queue[c[1]][c[2]] = 1 /\ queue[d[1]][c[2]] = 1
          BY <2>4, <2>5, <3>2
        <4>2. c[1] = d[1]
          BY <2>0, <2>5, <4>1 DEF PlaceInv
        <4> QED  BY <2>5, <3>2, <4>2
      <3>3. ASSUME NEW n \in Busy  PROVE \E c \in Full : c[2] = n
        <4>1. PICK q \in Queues : queue[q][n] > 0
          BY DEF Queued
        <4>2. <<q, n>> \in Full
          BY <2>0, <2>4, <4>1 DEF PlaceInv
        <4> QED  BY <4>2
      <3>4. f \in [Full -> Busy]
        BY <3>1
      <3> HIDE DEF Busy
      <3> QED  BY <3>2, <3>3, <3>4 DEF Bijection, Injection, Surjection, IsInjective
    <2>7. Cardinality(Busy) = Cardinality(Full)
      <3>1. ExistsBijection(Full, Busy)
        BY <2>6 DEF ExistsBijection
      <3> QED  BY <2>3, <3>1, FS_Bijection
    <2> QED  BY <2>0, <2>2, <2>7 DEF JobsInv, JobsCounted, Bodies
  <1> QED  BY <1>1, Invariance, PTL

=============================================================================
