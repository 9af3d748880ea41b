----------------------------- MODULE TaskGraph -----------------------------
(***************************************************************************)
(* Task graphs (zs/world/async/Executor.hpp): CoroTaskNodes linked by      *)
(* to(), handed to the scheduler by schedule(), which walks from a node to *)
(* its predecessors, while the workers that finish a node count down its   *)
(* successors and enqueue those that have become ready.                    *)
(*                                                                         *)
(* How workers sleep and are woken, and the steps of enqueue_, are in      *)
(* module Scheduler; here enqueue_ is one step.                            *)
(***************************************************************************)
EXTENDS Integers, Sequences, FiniteSets, SequencesExt

CONSTANTS Nodes,    \* the CoroTaskNodes
          Preds,    \* Preds[n]: n's _preds, in the order of the calls of to()
          Targets,  \* the nodes the client calls schedule() with
          Workers,
          NoNode

ASSUME TaskGraphAssumption ==
  /\ IsFiniteSet(Nodes) /\ IsFiniteSet(Workers)
  /\ Preds \in [Nodes -> Seq(Nodes)]
  /\ \A n \in Nodes : IsInjective(Preds[n])
  /\ Targets \subseteq Nodes
  /\ NoNode \notin Nodes
  /\ "global" \notin Workers

PredSet(n) == ToSet(Preds[n])
SuccSet(n) == {m \in Nodes : n \in PredSet(m)}
Queues     == Workers \cup {"global"}

VARIABLES
  state,          \* _state, of which only idle and planned are ever stored
  numDeps,        \* _numDeps
  coro,           \* the coroutine of _task
  queue,          \* queue[q][n]: how often n is in the queue q
  remainingJobs,  \* _remainingJobs
  pc,             \* where each worker is in process()
  node,           \* the node it processes
  todo,           \* the _succs it has yet to count down
  stack           \* the calls of schedule() in progress: the _preds each has yet to visit

vars == <<state, numDeps, coro, queue, remainingJobs, pc, node, todo, stack>>

TypeOK ==
  /\ state \in [Nodes -> {"idle", "planned"}]
  /\ numDeps \in [Nodes -> Int]
  /\ coro \in [Nodes -> {"created", "running", "suspended", "done"}]
  /\ queue \in [Queues -> [Nodes -> Nat]]
  /\ remainingJobs \in Nat
  /\ pc \in [Workers -> {"loop", "body", "resumed", "succs"}]
  /\ node \in [Workers -> Nodes \cup {NoNode}]
  /\ todo \in [Workers -> SUBSET Nodes]
  /\ stack \in Seq(Seq(Nodes))

\* The graph as to_task_node() and to() have built it.
Init ==
  /\ state = [n \in Nodes |-> "idle"]
  /\ numDeps = [n \in Nodes |-> Len(Preds[n])]
  /\ coro = [n \in Nodes |-> "created"]
  /\ queue = [q \in Queues |-> [n \in Nodes |-> 0]]
  /\ remainingJobs = 0
  /\ pc = [w \in Workers |-> "loop"]
  /\ node = [w \in Workers |-> NoNode]
  /\ todo = [w \in Workers |-> {}]
  /\ stack = <<>>

-----------------------------------------------------------------------------
\* A node is enqueued without being counted.
Enqueue_NoCount(n, q) ==
  /\ queue' = [queue EXCEPT ![q][n] = @ + 1]
  /\ UNCHANGED remainingJobs

\* enqueue_ of a node.
Enqueue(n, q) ==
  /\ queue' = [queue EXCEPT ![q][n] = @ + 1]
  /\ remainingJobs' = remainingJobs + 1

NoEnqueue == UNCHANGED <<queue, remainingJobs>>

\* A node visited before is visited again.
Visit_Again(n, callers) ==
  /\ state' = [state EXCEPT ![n] = "planned"]
  /\ IF numDeps[n] # 0
       THEN stack' = Append(callers, Preds[n]) /\ NoEnqueue
       ELSE stack' = callers /\ Enqueue(n, "global")
  /\ UNCHANGED <<numDeps, coro, pc, node, todo>>

\* The dependencies are not looked at.
Visit_Eager(n, callers) ==
  /\ IF state[n] = "planned"
       THEN stack' = <<>> /\ NoEnqueue /\ UNCHANGED state
       ELSE /\ state' = [state EXCEPT ![n] = "planned"]
            /\ stack' = callers
            /\ Enqueue(n, "global")
  /\ UNCHANGED <<numDeps, coro, pc, node, todo>>

\* The walk also ends at the first node that is ready.
Visit_Once(n, callers) ==
  /\ IF state[n] = "planned"
       THEN stack' = <<>> /\ NoEnqueue /\ UNCHANGED state
       ELSE /\ state' = [state EXCEPT ![n] = "planned"]
            /\ IF numDeps[n] # 0
                 THEN stack' = Append(callers, Preds[n]) /\ NoEnqueue
                 ELSE stack' = <<>> /\ Enqueue(n, "global")
  /\ UNCHANGED <<numDeps, coro, pc, node, todo>>

\* schedule(n): a node visited before makes this call and all its callers return false.
Visit(n, callers) ==
  /\ IF state[n] = "planned"
       THEN stack' = <<>> /\ NoEnqueue /\ UNCHANGED state
       ELSE /\ state' = [state EXCEPT ![n] = "planned"]
            /\ IF numDeps[n] # 0
                 THEN stack' = Append(callers, Preds[n]) /\ NoEnqueue
                 ELSE stack' = callers /\ Enqueue(n, "global")
  /\ UNCHANGED <<numDeps, coro, pc, node, todo>>

\* The client calls schedule().
Schedule(n) == stack = <<>> /\ Visit(n, <<>>)

\* The loop over _preds: the next one, ...
Descend ==
  /\ stack # <<>>
  /\ Last(stack) # <<>>
  /\ Visit(Head(Last(stack)), Append(Front(stack), Tail(Last(stack))))

\* ... or none is left and the call returns true.
Ascend ==
  /\ stack # <<>>
  /\ Last(stack) = <<>>
  /\ stack' = Front(stack)
  /\ UNCHANGED <<state, numDeps, coro, queue, remainingJobs, pc, node, todo>>

-----------------------------------------------------------------------------
(* A worker processes a node.                                              *)

\* try_dequeue, in either of the two loops, then h.resume().
Resume(w) ==
  /\ pc[w] = "loop"
  /\ \E q \in {w, "global"}, n \in Nodes :
       /\ queue[q][n] > 0
       /\ queue' = [queue EXCEPT ![q][n] = @ - 1]
       /\ node' = [node EXCEPT ![w] = n]
       /\ coro' = [coro EXCEPT ![n] = "running"]
  /\ pc' = [pc EXCEPT ![w] = "body"]
  /\ UNCHANGED <<state, numDeps, remainingJobs, todo, stack>>

\* The job is not uncounted.
Return_Leak(w, how) ==
  /\ pc[w] = "body"
  /\ coro' = [coro EXCEPT ![node[w]] = how]
  /\ pc' = [pc EXCEPT ![w] = "resumed"]
  /\ UNCHANGED <<state, numDeps, queue, remainingJobs, node, todo, stack>>

\* h.resume() returns, the coroutine suspended or done; decNumJob().
Return(w, how) ==
  /\ pc[w] = "body"
  /\ coro' = [coro EXCEPT ![node[w]] = how]
  /\ remainingJobs' = remainingJobs - 1
  /\ pc' = [pc EXCEPT ![w] = "resumed"]
  /\ UNCHANGED <<state, numDeps, queue, node, todo, stack>>

Suspended(w) == Return(w, "suspended")
Finished(w)  == Return(w, "done")

\* Not done: back to the worker's own queue.
Rethrow(w) ==
  /\ pc[w] = "resumed"
  /\ coro[node[w]] # "done"
  /\ Enqueue(node[w], w)
  /\ pc' = [pc EXCEPT ![w] = "loop"]
  /\ node' = [node EXCEPT ![w] = NoNode]
  /\ UNCHANGED <<state, numDeps, coro, todo, stack>>

\* Done: the successors are counted down.
Complete(w) ==
  /\ pc[w] = "resumed"
  /\ coro[node[w]] = "done"
  /\ pc' = [pc EXCEPT ![w] = "succs"]
  /\ todo' = [todo EXCEPT ![w] = SuccSet(node[w])]
  /\ UNCHANGED <<state, numDeps, coro, queue, remainingJobs, node, stack>>

\* A successor that becomes ready keeps its count.
CountDown_KeepLast(w) ==
  /\ pc[w] = "succs"
  /\ \E s \in todo[w] :
       /\ todo' = [todo EXCEPT ![w] = @ \ {s}]
       /\ IF numDeps[s] = 1
            THEN Enqueue(s, "global") /\ UNCHANGED numDeps
            ELSE NoEnqueue /\ numDeps' = [numDeps EXCEPT ![s] = @ - 1]
  /\ UNCHANGED <<state, coro, pc, node, stack>>

\* fetch_sub's result is taken for the new count.
CountDown_OffByOne(w) ==
  /\ pc[w] = "succs"
  /\ \E s \in todo[w] :
       /\ numDeps' = [numDeps EXCEPT ![s] = @ - 1]
       /\ todo' = [todo EXCEPT ![w] = @ \ {s}]
       /\ IF numDeps[s] = 0 THEN Enqueue(s, "global") ELSE NoEnqueue
  /\ UNCHANGED <<state, coro, pc, node, stack>>

\* _numDeps.fetch_sub(1) == 1: that successor is ready.
CountDown(w) ==
  /\ pc[w] = "succs"
  /\ \E s \in todo[w] :
       /\ numDeps' = [numDeps EXCEPT ![s] = @ - 1]
       /\ todo' = [todo EXCEPT ![w] = @ \ {s}]
       /\ IF numDeps[s] = 1 THEN Enqueue(s, "global") ELSE NoEnqueue
  /\ UNCHANGED <<state, coro, pc, node, stack>>

\* Back to the loop of the worker.
Processed(w) ==
  /\ pc[w] = "succs"
  /\ todo[w] = {}
  /\ pc' = [pc EXCEPT ![w] = "loop"]
  /\ node' = [node EXCEPT ![w] = NoNode]
  /\ UNCHANGED <<state, numDeps, coro, queue, remainingJobs, todo, stack>>

-----------------------------------------------------------------------------
Worker(w) ==
  \/ Resume(w) \/ Suspended(w) \/ Finished(w) \/ Rethrow(w) \/ Complete(w) \/ CountDown(w)
  \/ Processed(w)

Next ==
  \/ \E n \in Targets : Schedule(n)
  \/ Descend \/ Ascend
  \/ \E w \in Workers : Worker(w)

Spec == Init /\ [][Next]_vars

\* Threads are scheduled, and a coroutine is done after finitely many resumptions.
Fairness ==
  /\ WF_vars(Descend) /\ WF_vars(Ascend)
  /\ \A w \in Workers : WF_vars(Worker(w)) /\ SF_vars(Finished(w))

FairSpec == Spec /\ Fairness

-----------------------------------------------------------------------------
\* The handles of n the scheduler holds: queued ones and one in a worker's hands.
Queued(n)    == {q \in Queues : queue[q][n] > 0}
HandledBy(n) == {w \in Workers : node[w] = n /\ pc[w] \in {"body", "resumed"}}

\* "task is guaranteed to be valid" (Executor.hpp:226 and 347): process() is handed a
\* coroutine that may be resumed, so a node has one handle in the scheduler at most, and
\* while it is queued its coroutine is suspended.  It takes a walk of schedule() and a
\* worker's countdown at the same time to break it.
TaskIsValid ==
  \A n \in Nodes :
    /\ \A q \in Queues : queue[q][n] <= 1
    /\ Cardinality(Queued(n)) + Cardinality(HandledBy(n)) <= 1
    /\ Queued(n) # {} => coro[n] \in {"created", "suspended"}

\* A node is queued or started only when each of its predecessors is done.
DepsRespected ==
  \A n \in Nodes :
    Queued(n) # {} \/ coro[n] # "created" => \A p \in PredSet(n) : coro[p] = "done"

\* p has been counted down from n's _numDeps.
CountedDown(p, n) ==
  /\ coro[p] = "done"
  /\ \A w \in Workers : node[w] = p => pc[w] = "succs" /\ n \notin todo[w]

\* _numDeps is the number of predecessors that are yet to be counted down, whichever
\* workers finish them (Executor.hpp:33-38 and 374-379).
DepsCounted ==
  \A n \in Nodes : numDeps[n] = Cardinality({p \in PredSet(n) : ~CountedDown(p, n)})

\* _remainingJobs counts the nodes that are queued or being resumed; a node between
\* decNumJob() and the enqueue_ of itself or of its successors is not counted.
JobsCounted ==
  remainingJobs = Cardinality({n \in Nodes : Queued(n) # {}})
                  + Cardinality({w \in Workers : pc[w] = "body"})

\* The nodes that n depends on, and those of them that wait for nobody.
HoldsPreds(N) == \A m \in N : PredSet(m) \subseteq N
Above == [n \in Nodes |-> {m \in Nodes :
            \A N \in SUBSET Nodes : PredSet(n) \subseteq N /\ HoldsPreds(N) => m \in N}]
Roots(n) == {m \in Above[n] \cup {n} : Preds[m] = <<>>}

\* Nothing that n depends on is reached but through n: the walk from n meets no node twice.
IsTree(n) == \A m \in Above[n] : m \notin Targets /\ Cardinality(SuccSet(m)) = 1

\* A walk ends, with all its callers, at the first node that was visited before
\* (Executor.hpp:206-210), and leaves out what comes behind it.  Even so a node is eventually
\* done once each node it depends on that waits for nobody was visited, by whichever walk;
\* and when it is the root of a tree, once it was visited itself.
GraphCompletes ==
  \A n \in Nodes :
    (\/ \A r \in Roots(n) : state[r] = "planned"
     \/ IsTree(n) /\ state[n] = "planned") ~> coro[n] = "done"

\* "remaining jobs that could be finished in finite times" (Executor.hpp:245): when
\* _remainingJobs is 0, idle() holds and wait() returns, nothing that was scheduled is
\* left to do.
IdleMeansDone ==
  stack = <<>> /\ remainingJobs = 0 =>
    \A n \in Nodes : state[n] = "planned" => coro[n] = "done"
=============================================================================
