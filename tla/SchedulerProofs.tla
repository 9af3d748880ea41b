-------------------------- MODULE SchedulerProofs --------------------------
(***************************************************************************)
(* Proofs about module Scheduler, for any set of workers, any clients and  *)
(* any finite set of jobs: its types, the accounting of the jobs, the      *)
(* absence of lost wake-ups, and that it implements module JobPool.        *)
(***************************************************************************)
EXTENDS Scheduler, FiniteSetTheorems, TLAPS

(* The inductive invariant, part by part.                                  *)

\* A job is held by one call of enqueue_ at most, and the call knows it.
HoldInv ==
  /\ \A t \in Threads : call[t].at = "push" =>
       call[t].job \in Jobs /\ place[call[t].job] = "held"
  /\ \A t, u \in Threads :
       call[t].at = "push" /\ call[u].at = "push" /\ call[t].job = call[u].job => t = u

\* A worker inside process() has a job of its own, and no other worker has one.
RunInv ==
  /\ \A w \in Workers : pc[w] \in {"body", "again"} =>
       task[w] \in Jobs /\ place[task[w]] = "run"
  /\ \A w \in Workers : pc[w] \notin {"body", "again"} => task[w] = NoJob
  /\ \A w, v \in Workers : task[w] = task[v] /\ task[w] # NoJob => w = v
  /\ \A w \in Workers : pc[w] = "again" => task[w] \in Persistent /\ Returned(w)
  /\ \A w \in Workers : pc[w] = "checkStop" => loop[w] = "local"

\* Only a client that is free, inside start() or joining the workers can be inside
\* enqueue_ or signalOne, and once the owner destroys the scheduler it is alone.
ClientInv ==
  /\ \A c \in Clients \ {Owner} : act[c] \in {"free", "start", "wait", "tick"}
  /\ \A c \in Clients : act[c] \notin {"free", "start", "join", "gone"} => Returned(c)
  /\ act[Owner] \notin {"free", "start", "wait", "tick"} =>
       \A c \in Clients \ {Owner} : act[c] = "free" /\ Returned(c)

\* Why a job in a queue that w drains will not be overlooked by w.
Heeded(w, j) ==
  \/ pc[w] \in {"exchange", "checkStop", "test", "exit", "gone"}
  \/ pc[w] \in {"drain", "body", "again"} /\ (loop[w] = "local" \/ place[j] = "global")
  \/ status[w] = 2
  \/ SignalDue(j, w)

WakeInv ==
  \A w \in Workers, j \in Jobs : place[j] \in {w, "global"} => Heeded(w, j)

\* Once the destructor's wait() has returned nothing finite is owed, unless the scheduler
\* was ever given a persistent task.
CloseInv ==
  act[Owner] \in {"stop", "join", "gone"} =>
    \/ \A j \in Once : ~InFlight(j)
    \/ \E p \in Persistent : place[p] \notin {"fresh", "staged"}

IInv ==
  /\ TypeOK /\ HoldInv /\ RunInv /\ ClientInv
  /\ JobAccounting /\ WakeInv /\ CloseInv

-----------------------------------------------------------------------------
(* The steps, grouped by what they change.                                 *)

\* A worker's move that touches no job and no call.
WorkerMove(w) ==
  \/ Wake(w) \/ CheckStop(w) \/ Drained(w) \/ FallAsleep(w) \/ Unpark(w) \/ LoopTest(w)
  \/ Exit(w)

\* A client's move from one activity to another.
ClientMove(c) ==
  \/ Start(c) \/ Wait(c) \/ StartEnd(c) \/ Idle(c) \/ NotIdle(c) \/ Ticked(c)
  \/ c = Owner /\ (Destroy \/ Join)

LEMMA StepCases ==
  ASSUME SchedulerAssumption, Next
  PROVE  \/ \E t \in Threads : Push(t) \/ Signal(t)
         \/ \E w \in Workers : \/ WorkerMove(w) \/ Take(w) \/ FinishOnce(w) \/ FinishPersistent(w)
                              \/ UncountPersistent(w) \/ Rethrow(w) \/ Spawn(w)
         \/ \E c \in Clients : \/ Submit(c) \/ StartNext(c) \/ Emplace(c) \/ StopOne(c)
                              \/ Tick(c) \/ ClientMove(c)
         \/ AllStopped \/ RequestStop \/ UNCHANGED vars
  <1>1. CASE \E t \in Threads : Thread(t)
    BY <1>1 DEF Thread
  <1>2. CASE \E w \in Workers : Worker(w) \/ Spawn(w)
    BY <1>2 DEF Worker, WorkerMove
  <1>3. CASE \E c \in Clients : Client(c)
    BY <1>3 DEF Client, Calling, ClientMove
  <1>4. CASE Destroy \/ RequestStop \/ AllStopped \/ Join \/ Destroyed
    BY <1>4 DEF ClientMove, Destroyed, SchedulerAssumption
  <1> QED  BY <1>1, <1>2, <1>3, <1>4 DEF Next

LEMMA MoveFrame ==
  /\ \A w : WorkerMove(w) => UNCHANGED <<place, remainingJobs, remainingTasks, task, call, act>>
  /\ \A c : ClientMove(c) => UNCHANGED <<place, remainingJobs, remainingTasks, status, stop, pc,
                                         loop, task, call>>
  <1>1. ASSUME NEW w, WorkerMove(w)
        PROVE  UNCHANGED <<place, remainingJobs, remainingTasks, task, call, act>>
    BY <1>1 DEF WorkerMove, Wake, CheckStop, Drained, FallAsleep, Unpark, LoopTest, Exit
  <1>2. ASSUME NEW c, ClientMove(c)
        PROVE  UNCHANGED <<place, remainingJobs, remainingTasks, status, stop, pc, loop, task, call>>
    BY <1>2 DEF ClientMove, Start, Wait, StartEnd, Idle, NotIdle, Ticked, Destroy, Join, Become
  <1> QED  BY <1>1, <1>2

-----------------------------------------------------------------------------
(* Types.                                                                  *)

LEMMA NoCallType == NoCall \in Calls
  BY DEF NoCall, Calls, Dests

LEMMA EnqueueType ==
  ASSUME TypeOK, NEW t \in Threads, NEW j \in Jobs, NEW dest \in Dests, Enqueue(t, j, dest)
  PROVE  /\ place' \in [Jobs -> Places]
         /\ remainingJobs' \in Nat
         /\ remainingTasks' \in Nat
         /\ call' \in [Threads -> Calls]
  BY DEF TypeOK, Enqueue, CountUp, Places, Calls

\* What enqueue_ and signalOne leave in a thread's call stays a call.
LEMMA CallType ==
  ASSUME TypeOK, NEW t \in Threads
  PROVE  /\ Push(t) => call' \in [Threads -> Calls]
         /\ Signal(t) => call' \in [Threads -> Calls]
         /\ \A ws \in SUBSET Workers : SignalAll(t, ws) => call' \in [Threads -> Calls]
  <1>1. Push(t) => call' \in [Threads -> Calls]
    BY DEF TypeOK, Push, SignalCall, Calls, Targets, Dests
  <1>2. Signal(t) => call' \in [Threads -> Calls]
    BY NoCallType DEF TypeOK, Signal, SignalCall, Calls, Dests
  <1>3. ASSUME NEW ws \in SUBSET Workers, SignalAll(t, ws)
        PROVE  call' \in [Threads -> Calls]
    BY <1>3 DEF TypeOK, SignalAll, SignalCall, Calls, Dests
  <1> QED  BY <1>1, <1>2, <1>3

LEMMA TypeInit == Init => TypeOK
  BY NoCallType DEF Init, TypeOK, Places

LEMMA OwedFinite ==
  ASSUME SchedulerAssumption
  PROVE  IsFiniteSet(OwedJobs) /\ IsFiniteSet(OwedTasks)
  <1>1. OwedJobs \subseteq Jobs /\ OwedTasks \subseteq Jobs
    BY DEF OwedJobs, OwedTasks, Once, SchedulerAssumption
  <1> QED  BY <1>1, FS_Subset DEF SchedulerAssumption

\* What is owed is counted.
LEMMA CountPositive ==
  ASSUME SchedulerAssumption, TypeOK, JobAccounting, NEW j
  PROVE  /\ j \in OwedJobs => remainingJobs \in Nat \ {0}
         /\ j \in OwedTasks => remainingTasks \in Nat \ {0}
  BY OwedFinite, FS_EmptySet DEF JobAccounting, TypeOK

LEMMA TypeNext ==
  ASSUME SchedulerAssumption, TypeOK, RunInv, JobAccounting, [Next]_vars
  PROVE  TypeOK'
  <1>1. ASSUME NEW t \in Threads, Push(t)  PROVE TypeOK'
    <2>1. call' \in [Threads -> Calls]
      BY <1>1, CallType
    <2>2. place' \in [Jobs -> Places]
      BY <1>1 DEF TypeOK, Push, Calls, Places
    <2> QED  BY <1>1, <2>1, <2>2 DEF TypeOK, Push
  <1>2. ASSUME NEW t \in Threads, Signal(t)  PROVE TypeOK'
    <2>1. call' \in [Threads -> Calls]
      BY <1>2, CallType
    <2> QED  BY <1>2, <2>1 DEF TypeOK, Signal
  <1>3. ASSUME NEW w \in Workers, WorkerMove(w)  PROVE TypeOK'
    BY <1>3 DEF TypeOK, WorkerMove, Wake, CheckStop, Drained, FallAsleep, Unpark, LoopTest, Exit
  <1>4. ASSUME NEW w \in Workers, Take(w)  PROVE TypeOK'
    BY <1>4 DEF TypeOK, Take, Places
  <1>5. ASSUME NEW w \in Workers, FinishOnce(w)  PROVE TypeOK'
    <2>1. task[w] \in OwedJobs
      BY <1>5 DEF FinishOnce, RunInv, Once, InFlight, OwedJobs
    <2>2. remainingJobs - 1 \in Nat
      BY <2>1, CountPositive
    <2> QED  BY <1>5, <2>1, <2>2 DEF TypeOK, FinishOnce, Places, OwedJobs, Once
  <1>6. ASSUME NEW w \in Workers, UncountPersistent(w)  PROVE TypeOK'
    <2>1. task[w] \in OwedTasks
      BY <1>6 DEF UncountPersistent, RunInv, InFlight, Uncounted, OwedTasks
    <2>2. remainingTasks - 1 \in Nat
      BY <2>1, CountPositive
    <2> QED  BY <1>6, <2>2 DEF TypeOK, UncountPersistent
  <1>7. ASSUME NEW w \in Workers, FinishPersistent(w)  PROVE TypeOK'
    BY <1>7 DEF TypeOK, FinishPersistent, Places
  <1>8. ASSUME NEW w \in Workers, Rethrow(w)  PROVE TypeOK'
    <2>1. task[w] \in Jobs /\ w \in Threads /\ w \in Dests
      BY <1>8 DEF Rethrow, RunInv, Threads, Dests
    <2> QED  BY <1>8, <2>1, EnqueueType DEF TypeOK, Rethrow
  <1>9. ASSUME NEW w \in Workers, Spawn(w)  PROVE TypeOK'
    <2>1. w \in Threads
      BY DEF Threads
    <2> QED  BY <1>9, <2>1, EnqueueType DEF TypeOK, Spawn
  <1>11. ASSUME NEW c \in Clients, Submit(c) \/ StartNext(c)  PROVE TypeOK'
    <2>1. c \in Threads /\ "global" \in Dests
      BY DEF Threads, Dests
    <2> QED  BY <1>11, <2>1, EnqueueType DEF TypeOK, Submit, StartNext
  <1>12. ASSUME NEW c \in Clients, Emplace(c) \/ Tick(c)  PROVE TypeOK'
    BY <1>12 DEF TypeOK, Emplace, Tick, Places
  <1>13. ASSUME NEW c \in Clients, ClientMove(c)  PROVE TypeOK'
    BY <1>13 DEF TypeOK, ClientMove, Start, Wait, StartEnd, Idle, NotIdle, Ticked, Destroy, Join, Become
  <1>14. ASSUME NEW c \in Clients, StopOne(c)  PROVE TypeOK'
    <2>1. c \in Threads /\ Stoppable \subseteq Workers
      BY DEF Threads, SchedulerAssumption
    <2>2. call' \in [Threads -> Calls]
      BY <1>14, <2>1, CallType DEF StopOne
    <2> QED  BY <1>14, <2>1, <2>2 DEF TypeOK, StopOne
  <1>15. CASE AllStopped
    <2>1. Owner \in Threads
      BY DEF Threads, SchedulerAssumption
    <2>2. call' \in [Threads -> Calls]
      BY <1>15, <2>1, CallType DEF AllStopped
    <2> QED  BY <1>15, <2>2 DEF TypeOK, AllStopped
  <1>16. CASE RequestStop
    BY <1>16 DEF TypeOK, RequestStop
  <1>17. CASE UNCHANGED vars
    BY <1>17 DEF TypeOK, vars
  <1> QED
    BY StepCases, <1>1, <1>2, <1>3, <1>4, <1>5, <1>6, <1>7, <1>8, <1>9, <1>11, <1>12, <1>13,
       <1>14, <1>15, <1>16, <1>17

-----------------------------------------------------------------------------
(* Who holds a job, who runs one, who is inside a call.                    *)

\* The jobs enqueue_ is entered with are held by nobody.
LEMMA EnqueueHold ==
  ASSUME TypeOK, HoldInv, NEW t \in Threads, NEW j \in Jobs, NEW dest \in Dests,
         place[j] # "held", Enqueue(t, j, dest)
  PROVE  HoldInv'
  <1>1. call' = [call EXCEPT ![t] = [at |-> "push", job |-> j, dest |-> dest, left |-> {}]]
        /\ place' = [place EXCEPT ![j] = "held"]
    BY DEF Enqueue
  <1>2. \A u \in Threads \ {t} : call[u].at = "push" => call[u].job # j
    BY DEF HoldInv
  <1>3. call'[t].at = "push" /\ call'[t].job = j /\ \A u \in Threads \ {t} : call'[u] = call[u]
    BY <1>1 DEF TypeOK
  <1> QED  BY <1>1, <1>2, <1>3 DEF HoldInv, TypeOK

\* Moving a job that nobody holds to where nobody holds it keeps HoldInv.
LEMMA MoveHold ==
  ASSUME TypeOK, HoldInv, NEW j \in Jobs, NEW p, p # "held",
         place[j] # "held", place' = [place EXCEPT ![j] = p], UNCHANGED call
  PROVE  HoldInv'
  BY DEF HoldInv, TypeOK

\* A call that becomes a signal, or ends, keeps HoldInv.
LEMMA SignalHold ==
  ASSUME TypeOK, HoldInv, NEW t \in Threads, NEW k, k.at # "push",
         call' = [call EXCEPT ![t] = k], UNCHANGED place
  PROVE  HoldInv'
  BY DEF HoldInv, TypeOK

LEMMA HoldNext ==
  ASSUME SchedulerAssumption, TypeOK, HoldInv, RunInv, [Next]_vars
  PROVE  HoldInv'
  <1>1. ASSUME NEW t \in Threads, Push(t)  PROVE HoldInv'
    <2>1. call'[t].at = "signal" /\ \A u \in Threads \ {t} : call'[u] = call[u]
      BY <1>1 DEF Push, SignalCall, TypeOK
    <2>2. \A u \in Threads \ {t} : call[u].at = "push" => call[u].job # call[t].job
      BY <1>1 DEF HoldInv, Push
    <2>3. \A j \in Jobs : j # call[t].job => place'[j] = place[j]
      BY <1>1 DEF Push, TypeOK
    <2> QED  BY <2>1, <2>2, <2>3 DEF HoldInv
  <1>2. ASSUME NEW t \in Threads, Signal(t)  PROVE HoldInv'
    BY <1>2, SignalHold DEF Signal, NoCall, SignalCall
  <1>3. ASSUME NEW w \in Workers, Take(w)  PROVE HoldInv'
    BY <1>3, MoveHold DEF Take, Queue, SchedulerAssumption
  <1>4. ASSUME NEW w \in Workers, FinishOnce(w) \/ FinishPersistent(w)  PROVE HoldInv'
    BY <1>4, MoveHold DEF FinishOnce, FinishPersistent, RunInv
  <1>5. ASSUME NEW w \in Workers, Rethrow(w)  PROVE HoldInv'
    BY <1>5, EnqueueHold DEF Rethrow, RunInv, Threads, Dests
  <1>6. ASSUME NEW w \in Workers, Spawn(w)  PROVE HoldInv'
    BY <1>6, EnqueueHold DEF Spawn, Threads
  <1>7. ASSUME NEW c \in Clients, Submit(c) \/ StartNext(c)  PROVE HoldInv'
    BY <1>7, EnqueueHold DEF Submit, StartNext, Threads, Dests
  <1>8. ASSUME NEW c \in Clients, Emplace(c)  PROVE HoldInv'
    BY <1>8, MoveHold DEF Emplace
  <1>9. ASSUME NEW c \in Clients, StopOne(c)  PROVE HoldInv'
    BY <1>9, SignalHold DEF StopOne, SignalAll, SignalCall, Threads
  <1>10. ASSUME UNCHANGED <<place, call>>  PROVE HoldInv'
    BY <1>10 DEF HoldInv
  <1>11. ASSUME NEW w \in Workers, WorkerMove(w) \/ UncountPersistent(w)  PROVE HoldInv'
    BY <1>10, <1>11, MoveFrame DEF UncountPersistent
  <1>12. ASSUME NEW c \in Clients, ClientMove(c) \/ Tick(c)  PROVE HoldInv'
    BY <1>10, <1>12, MoveFrame DEF Tick
  <1>13. CASE RequestStop \/ UNCHANGED vars
    BY <1>10, <1>13 DEF RequestStop, vars
  <1>14. CASE AllStopped
    BY <1>14, SignalHold DEF AllStopped, SignalAll, SignalCall, Threads, SchedulerAssumption
  <1> QED
    BY StepCases, <1>1, <1>2, <1>3, <1>4, <1>5, <1>6, <1>7, <1>8, <1>9, <1>11, <1>12, <1>13,
       <1>14

LEMMA RunNext ==
  ASSUME SchedulerAssumption, TypeOK, HoldInv, RunInv, [Next]_vars
  PROVE  RunInv'
  <1>1. ASSUME NEW t \in Threads, Push(t)  PROVE RunInv'
    <2>1. \A j \in Jobs : place[j] = "run" => place'[j] = "run"
      BY <1>1 DEF Push, HoldInv, TypeOK
    <2>2. \A w \in Workers : Returned(w) => Returned(w)'
      BY <1>1 DEF Push, Returned, Threads, TypeOK
    <2> QED  BY <1>1, <2>1, <2>2 DEF Push, RunInv
  <1>2. ASSUME NEW t \in Threads, Signal(t)  PROVE RunInv'
    <2>1. \A w \in Workers : Returned(w) => Returned(w)'
      BY <1>2 DEF Signal, Returned, Threads, TypeOK
    <2> QED  BY <1>2, <2>1 DEF Signal, RunInv
  <1>3. ASSUME NEW w \in Workers, WorkerMove(w)  PROVE RunInv'
    BY <1>3 DEF WorkerMove, Wake, CheckStop, Drained, FallAsleep, Unpark, LoopTest, Exit,
                RunInv, Returned, TypeOK
  <1>4. ASSUME NEW w \in Workers, Take(w)  PROVE RunInv'
    <2>1. PICK j \in Jobs : /\ place[j] = Queue(w)
                            /\ place' = [place EXCEPT ![j] = "run"]
                            /\ task' = [task EXCEPT ![w] = j]
      BY <1>4 DEF Take
    <2>2. place[j] # "run"
      BY <2>1 DEF Queue, SchedulerAssumption
    <2>3. \A v \in Workers : task[v] # NoJob => place[task[v]] = "run"
      BY DEF RunInv
    <2>4. \A v \in Workers : task[v] # j
      BY <2>2, <2>3 DEF SchedulerAssumption
    <2>5. pc' = [pc EXCEPT ![w] = "body"] /\ UNCHANGED <<loop, call>>
      BY <1>4 DEF Take
    <2> QED  BY <2>1, <2>3, <2>4, <2>5 DEF RunInv, Returned, TypeOK, SchedulerAssumption
  <1>5. ASSUME NEW w \in Workers, FinishOnce(w) \/ FinishPersistent(w)  PROVE RunInv'
    BY <1>5 DEF FinishOnce, FinishPersistent, RunInv, Returned, TypeOK
  <1>6. ASSUME NEW w \in Workers, UncountPersistent(w)  PROVE RunInv'
    BY <1>6 DEF UncountPersistent, RunInv, Returned, TypeOK
  <1>7. ASSUME NEW w \in Workers, Rethrow(w)  PROVE RunInv'
    <2>1. \A v \in Workers \ {w} : pc'[v] = pc[v] /\ task'[v] = task[v] /\ call'[v] = call[v]
      BY <1>7 DEF Rethrow, Enqueue, Threads, TypeOK
    <2>2. \A j \in Jobs \ {task[w]} : place'[j] = place[j]
      BY <1>7 DEF Rethrow, Enqueue, TypeOK
    <2>3. pc'[w] = "drain" /\ task'[w] = NoJob /\ UNCHANGED loop
      BY <1>7 DEF Rethrow, TypeOK
    <2>4. \A v \in Workers \ {w} : task[v] # NoJob => task[v] # task[w]
      BY DEF RunInv
    <2> QED  BY <2>1, <2>2, <2>3, <2>4 DEF RunInv, Returned, SchedulerAssumption
  <1>8. ASSUME NEW t \in Threads, NEW j \in Jobs, NEW dest \in Dests, Enqueue(t, j, dest),
               place[j] \in {"fresh", "staged"}, UNCHANGED <<pc, loop, task>>,
               \A w \in Workers : w = t => pc[w] # "again"
        PROVE  RunInv'
    <2>1. \A i \in Jobs : place[i] = "run" => place'[i] = "run"
      BY <1>8 DEF Enqueue, TypeOK
    <2>2. \A w \in Workers \ {t} : Returned(w) => Returned(w)'
      BY <1>8 DEF Enqueue, Returned, TypeOK, Threads
    <2> QED  BY <1>8, <2>1, <2>2 DEF RunInv
  <1>9. ASSUME NEW w \in Workers, Spawn(w)  PROVE RunInv'
    BY <1>8, <1>9 DEF Spawn, Threads
  <1>10. ASSUME NEW c \in Clients, Submit(c) \/ StartNext(c)  PROVE RunInv'
    BY <1>8, <1>10 DEF Submit, StartNext, Threads, Dests, SchedulerAssumption
  <1>11. ASSUME NEW c \in Clients, Emplace(c)  PROVE RunInv'
    BY <1>11 DEF Emplace, RunInv, Returned, TypeOK
  <1>12. ASSUME NEW c \in Clients, StopOne(c) \/ AllStopped  PROVE RunInv'
    <2>1. PICK d \in Clients, ws \in SUBSET Workers : SignalAll(d, ws)
      BY <1>12 DEF StopOne, AllStopped, SchedulerAssumption
    <2>2. \A w \in Workers : call'[w] = call[w]
      BY <2>1 DEF SignalAll, Threads, TypeOK, SchedulerAssumption
    <2> QED  BY <1>12, <2>2 DEF StopOne, AllStopped, RunInv, Returned
  <1>13. ASSUME UNCHANGED <<place, pc, loop, task, call>>  PROVE RunInv'
    BY <1>13 DEF RunInv, Returned
  <1>14. ASSUME NEW c \in Clients, ClientMove(c) \/ Tick(c)  PROVE RunInv'
    BY <1>13, <1>14, MoveFrame DEF Tick
  <1>15. CASE RequestStop \/ UNCHANGED vars
    BY <1>13, <1>15 DEF RequestStop, vars
  <1>16. Owner \in Clients
    BY DEF SchedulerAssumption
  <1> QED
    BY StepCases, <1>1, <1>2, <1>3, <1>4, <1>5, <1>6, <1>7, <1>9, <1>10, <1>11, <1>12, <1>14,
       <1>15, <1>16

\* Inside a call, or not: what the calls of the clients depend on.
LEMMA ClientNext ==
  ASSUME SchedulerAssumption, TypeOK, ClientInv, [Next]_vars
  PROVE  ClientInv'
  <1>1. ASSUME NEW t \in Threads, UNCHANGED act,
               \A u \in Threads \ {t} : call'[u] = call[u],
               t \in Workers \/ Returned(t)' \/ ~Returned(t)
        PROVE  ClientInv'
    BY <1>1 DEF ClientInv, Threads, SchedulerAssumption, Returned
  <1>2. ASSUME NEW t \in Threads, Push(t) \/ Signal(t)  PROVE ClientInv'
    BY <1>1, <1>2 DEF Push, Signal, Returned, TypeOK
  <1>3. ASSUME NEW w \in Workers, Rethrow(w) \/ Spawn(w)  PROVE ClientInv'
    <2>1. w \in Threads /\ UNCHANGED act /\ \A u \in Threads \ {w} : call'[u] = call[u]
      BY <1>3 DEF Rethrow, Spawn, Enqueue, TypeOK, Threads
    <2> QED  BY <1>1, <2>1
  <1>4. ASSUME NEW c \in Clients, Submit(c) \/ StartNext(c) \/ StopOne(c)
        PROVE  ClientInv'
    <2>1. UNCHANGED act /\ \A u \in Threads \ {c} : call'[u] = call[u]
      BY <1>4 DEF Submit, StartNext, StopOne, Enqueue, SignalAll, TypeOK, Threads
    <2>2. act[c] \in {"free", "start"}
      BY <1>4 DEF Submit, StartNext, StopOne, Free
    <2>3. act[Owner] \in {"free", "start", "wait", "tick"}
      BY <1>4, <2>2 DEF Submit, StartNext, StopOne, Free, ClientInv
    <2> QED  BY <2>1, <2>2, <2>3 DEF ClientInv, Returned, Threads, SchedulerAssumption
  <1>6. ASSUME NEW c \in Clients, NEW what, Become(c, what), Returned(c),
               \/ act[Owner] \in {"free", "start", "wait", "tick"} /\ what \in {"free", "start", "wait", "tick"}
               \/ c = Owner /\ \A d \in Clients \ {Owner} : act[d] = "free" /\ Returned(d)
        PROVE  ClientInv'
    <2>1. act' = [act EXCEPT ![c] = what] /\ UNCHANGED call
      BY <1>6 DEF Become
    <2> QED  BY <1>6, <2>1 DEF ClientInv, Returned, TypeOK, SchedulerAssumption
  <1>7. ASSUME NEW c \in Clients, ClientMove(c)  PROVE ClientInv'
    <2> DEFINE Owned == Idle(c) \/ NotIdle(c) \/ Ticked(c)
    <2>1. CASE c = Owner /\ (Destroy \/ Join)
      <3>1. Returned(c) /\ \A d \in Clients \ {Owner} : act[d] = "free" /\ Returned(d)
        BY <2>1 DEF Destroy, Join, Free, ClientInv
      <3> QED  BY <1>6, <2>1, <3>1 DEF Destroy, Join
    <2>2. CASE Owned /\ act[c] \in {"dwait", "dtick"}
      <3>1. c = Owner /\ Returned(c)
        BY <2>2 DEF ClientInv
      <3>2. \A d \in Clients \ {Owner} : act[d] = "free" /\ Returned(d)
        BY <2>2, <3>1 DEF ClientInv
      <3> QED  BY <1>6, <2>2, <3>1, <3>2 DEF Idle, NotIdle, Ticked
    <2>3. CASE Owned /\ act[c] \notin {"dwait", "dtick"}
      <3>1. act[c] \in {"wait", "tick"} /\ Returned(c)
        BY <2>3 DEF Idle, NotIdle, Ticked, ClientInv
      <3>2. act[Owner] \in {"free", "start", "wait", "tick"}
        BY <3>1 DEF ClientInv
      <3> QED  BY <1>6, <2>3, <3>1, <3>2 DEF Idle, NotIdle, Ticked
    <2>4. CASE Start(c) \/ Wait(c) \/ StartEnd(c)
      <3>1. Returned(c) /\ act[c] \in {"free", "start"}
        BY <2>4 DEF Start, Wait, StartEnd, Free
      <3>2. act[Owner] \in {"free", "start", "wait", "tick"}
        BY <2>4, <3>1 DEF Start, Wait, StartEnd, Free, ClientInv
      <3> QED  BY <1>6, <2>4, <3>1, <3>2 DEF Start, Wait, StartEnd
    <2> QED  BY <1>7, <2>1, <2>2, <2>3, <2>4 DEF ClientMove
  <1>8. ASSUME UNCHANGED <<call, act>>  PROVE ClientInv'
    BY <1>8 DEF ClientInv, Returned
  <1>9. ASSUME NEW w \in Workers, \/ WorkerMove(w) \/ Take(w) \/ FinishOnce(w)
                                  \/ FinishPersistent(w) \/ UncountPersistent(w)
        PROVE  ClientInv'
    BY <1>8, <1>9, MoveFrame DEF Take, FinishOnce, FinishPersistent, UncountPersistent
  <1>10. CASE AllStopped
    <2>1. act' = [act EXCEPT ![Owner] = "join"] /\ act[Owner] = "stop"
      BY <1>10 DEF AllStopped
    <2>2. \A u \in Threads \ {Owner} : call'[u] = call[u]
      BY <1>10 DEF AllStopped, SignalAll, TypeOK
    <2> QED  BY <2>1, <2>2 DEF ClientInv, Returned, TypeOK, Threads, SchedulerAssumption
  <1>11. CASE RequestStop \/ UNCHANGED vars
    BY <1>8, <1>11 DEF RequestStop, vars
  <1>12. ASSUME NEW c \in Clients, Emplace(c) \/ Tick(c)  PROVE ClientInv'
    BY <1>8, <1>12 DEF Emplace, Tick
  <1> QED
    BY StepCases, <1>2, <1>3, <1>4, <1>7, <1>9, <1>10, <1>11, <1>12

-----------------------------------------------------------------------------
(* The counters.                                                           *)

\* The same jobs are owed, and the counters stay.
LEMMA SameCount ==
  ASSUME JobAccounting, UNCHANGED <<remainingJobs, remainingTasks>>,
         OwedJobs' = OwedJobs, OwedTasks' = OwedTasks
  PROVE  JobAccounting'
  BY DEF JobAccounting

\* One more finite job.
LEMMA AddJob ==
  ASSUME SchedulerAssumption, JobAccounting, NEW j, j \notin OwedJobs,
         OwedJobs' = OwedJobs \cup {j}, remainingJobs' = remainingJobs + 1,
         OwedTasks' = OwedTasks, remainingTasks' = remainingTasks
  PROVE  JobAccounting'
  BY OwedFinite, FS_AddElement DEF JobAccounting

\* One more persistent task.
LEMMA AddTask ==
  ASSUME SchedulerAssumption, JobAccounting, NEW j, j \notin OwedTasks,
         OwedTasks' = OwedTasks \cup {j}, remainingTasks' = remainingTasks + 1,
         OwedJobs' = OwedJobs, remainingJobs' = remainingJobs
  PROVE  JobAccounting'
  BY OwedFinite, FS_AddElement DEF JobAccounting

LEMMA RemoveJob ==
  ASSUME SchedulerAssumption, JobAccounting, NEW j, j \in OwedJobs,
         OwedJobs' = OwedJobs \ {j}, remainingJobs' = remainingJobs - 1,
         OwedTasks' = OwedTasks, remainingTasks' = remainingTasks
  PROVE  JobAccounting'
  BY OwedFinite, FS_RemoveElement DEF JobAccounting

LEMMA RemoveTask ==
  ASSUME SchedulerAssumption, JobAccounting, NEW j, j \in OwedTasks,
         OwedTasks' = OwedTasks \ {j}, remainingTasks' = remainingTasks - 1,
         OwedJobs' = OwedJobs, remainingJobs' = remainingJobs
  PROVE  JobAccounting'
  BY OwedFinite, FS_RemoveElement DEF JobAccounting

\* enqueue_ of a job that is not in flight.
LEMMA EnqueueCount ==
  ASSUME SchedulerAssumption, TypeOK, RunInv, JobAccounting,
         NEW t \in Threads, NEW j \in Jobs, NEW dest \in Dests,
         place[j] \in {"fresh", "staged"}, Enqueue(t, j, dest), UNCHANGED <<pc, task>>
  PROVE  JobAccounting'
  <1>1. \A i \in Jobs : InFlight(i)' <=> InFlight(i) \/ i = j
    BY DEF Enqueue, InFlight, Dests, TypeOK, SchedulerAssumption
  <1>2. ~InFlight(j) /\ ~Uncounted(j) /\ \A i : Uncounted(i)' = Uncounted(i)
    BY DEF InFlight, Dests, SchedulerAssumption, Uncounted, RunInv
  <1>3. CASE j \in Once
    <2>1. OwedJobs' = OwedJobs \cup {j} /\ OwedTasks' = OwedTasks
      BY <1>1, <1>2, <1>3 DEF OwedJobs, OwedTasks, Once, SchedulerAssumption
    <2> QED  BY <1>2, <1>3, <2>1, AddJob DEF OwedJobs, Once, Enqueue, CountUp, TypeOK
  <1>4. CASE j \in Persistent
    <2>1. OwedTasks' = OwedTasks \cup {j} /\ OwedJobs' = OwedJobs
      BY <1>1, <1>2, <1>4 DEF OwedJobs, OwedTasks, Once, SchedulerAssumption
    <2> QED  BY <1>2, <1>4, <2>1, AddTask DEF OwedTasks, Enqueue, CountUp, TypeOK
  <1> QED  BY <1>3, <1>4 DEF Once

\* A job moves from one place to another without leaving the scheduler's hands.
LEMMA MoveCount ==
  ASSUME SchedulerAssumption, JobAccounting, UNCHANGED <<remainingJobs, remainingTasks>>,
         \A i \in Jobs : InFlight(i)' = InFlight(i) /\ Uncounted(i)' = Uncounted(i)
  PROVE  JobAccounting'
  BY SameCount DEF OwedJobs, OwedTasks, Once, SchedulerAssumption

LEMMA AccountNext ==
  ASSUME SchedulerAssumption, TypeOK, HoldInv, RunInv, JobAccounting, [Next]_vars
  PROVE  JobAccounting'
  <1>1. ASSUME NEW t \in Threads, Push(t)  PROVE JobAccounting'
    <2>1. \A i \in Jobs : InFlight(i)' = InFlight(i)
      BY <1>1 DEF Push, InFlight, HoldInv, TypeOK, Calls
    <2> QED  BY <1>1, <2>1, MoveCount DEF Push, Uncounted
  <1>2. ASSUME NEW t \in Threads, Signal(t)  PROVE JobAccounting'
    BY <1>2, MoveCount DEF Signal, InFlight, Uncounted
  <1>3. ASSUME NEW w \in Workers, WorkerMove(w)  PROVE JobAccounting'
    <2>1. \A i : Uncounted(i)' = Uncounted(i)
      BY <1>3 DEF WorkerMove, Wake, CheckStop, Drained, FallAsleep, Unpark, LoopTest, Exit,
                  Uncounted, TypeOK
    <2> QED  BY <1>3, <2>1, MoveFrame, MoveCount DEF InFlight
  <1>4. ASSUME NEW w \in Workers, Take(w)  PROVE JobAccounting'
    <2>1. \A i \in Jobs : InFlight(i)' = InFlight(i)
      BY <1>4 DEF Take, Queue, InFlight, Dests, TypeOK
    <2>2. \A i \in Jobs : Uncounted(i)' = Uncounted(i)
      BY <1>4 DEF Take, Uncounted, TypeOK
    <2> QED  BY <1>4, <2>1, <2>2, MoveCount DEF Take
  <1>5. ASSUME NEW w \in Workers, FinishOnce(w)  PROVE JobAccounting'
    <2>1. task[w] \in Once /\ InFlight(task[w])
      BY <1>5 DEF FinishOnce, RunInv, Once, InFlight
    <2>2. \A i \in Jobs : InFlight(i)' <=> InFlight(i) /\ i # task[w]
      BY <1>5, <2>1 DEF FinishOnce, InFlight, Dests, TypeOK, Once, SchedulerAssumption
    <2>3. \A i : Uncounted(i)' = Uncounted(i)
      BY <1>5 DEF FinishOnce, Uncounted, TypeOK, SchedulerAssumption
    <2>4. OwedJobs' = OwedJobs \ {task[w]} /\ OwedTasks' = OwedTasks
      BY <2>1, <2>2, <2>3 DEF OwedJobs, OwedTasks, Once, SchedulerAssumption
    <2> QED  BY <1>5, <2>1, <2>4, RemoveJob DEF FinishOnce, OwedJobs
  <1>6. ASSUME NEW w \in Workers, UncountPersistent(w)  PROVE JobAccounting'
    <2>1. task[w] \in Persistent /\ InFlight(task[w]) /\ ~Uncounted(task[w])
      BY <1>6 DEF UncountPersistent, RunInv, InFlight, Uncounted
    <2>2. \A i : Uncounted(i)' <=> Uncounted(i) \/ i = task[w]
      BY <1>6 DEF UncountPersistent, Uncounted, TypeOK
    <2>3. \A i : InFlight(i)' = InFlight(i)
      BY <1>6 DEF UncountPersistent, InFlight
    <2>4. OwedTasks' = OwedTasks \ {task[w]} /\ OwedJobs' = OwedJobs
      BY <2>1, <2>2, <2>3 DEF OwedJobs, OwedTasks
    <2> QED  BY <1>6, <2>1, <2>4, RemoveTask DEF UncountPersistent, OwedTasks
  <1>7. ASSUME NEW w \in Workers, FinishPersistent(w)  PROVE JobAccounting'
    <2>1. PICK j \in Persistent : j = task[w] /\ Uncounted(j)
      BY <1>7 DEF FinishPersistent, RunInv, Uncounted
    <2>2. place' = [place EXCEPT ![j] = "done"] /\ j \in Jobs
      BY <1>7, <2>1 DEF FinishPersistent, SchedulerAssumption
    <2>3. \A i \in Jobs : InFlight(i)' <=> InFlight(i) /\ i # j
      BY <2>2 DEF InFlight, Dests, TypeOK, SchedulerAssumption
    <2>4. \A i \in Jobs \ {j} : Uncounted(i)' <=> Uncounted(i)
      BY <1>7, <2>1 DEF FinishPersistent, Uncounted, TypeOK, SchedulerAssumption
    <2>5. OwedJobs' = OwedJobs /\ OwedTasks' = OwedTasks
      BY <2>1, <2>3, <2>4 DEF OwedJobs, OwedTasks, Once, SchedulerAssumption
    <2> QED  BY <1>7, <2>5, SameCount DEF FinishPersistent
  <1>8. ASSUME NEW w \in Workers, Rethrow(w)  PROVE JobAccounting'
    <2>1. task[w] \in Persistent /\ Uncounted(task[w]) /\ InFlight(task[w])
      BY <1>8 DEF Rethrow, RunInv, Uncounted, InFlight
    <2>2. \A i \in Jobs : InFlight(i)' = InFlight(i)
      BY <1>8, <2>1 DEF Rethrow, Enqueue, InFlight, TypeOK
    <2>3. \A i \in Jobs : Uncounted(i)' <=> Uncounted(i) /\ i # task[w]
      BY <1>8 DEF Rethrow, Uncounted, RunInv, TypeOK, SchedulerAssumption
    <2>4. OwedTasks' = OwedTasks \cup {task[w]} /\ OwedJobs' = OwedJobs
      BY <2>1, <2>2, <2>3 DEF OwedJobs, OwedTasks, Once, SchedulerAssumption
    <2> QED  BY <1>8, <2>1, <2>4, AddTask DEF Rethrow, Enqueue, CountUp, OwedTasks, TypeOK
  <1>9. ASSUME NEW w \in Workers, Spawn(w)  PROVE JobAccounting'
    BY <1>9, EnqueueCount DEF Spawn, Threads
  <1>10. ASSUME NEW c \in Clients, Submit(c) \/ StartNext(c)  PROVE JobAccounting'
    BY <1>10, EnqueueCount DEF Submit, StartNext, Threads, Dests
  <1>11. ASSUME NEW c \in Clients, Emplace(c)  PROVE JobAccounting'
    <2>1. \A i \in Jobs : InFlight(i)' = InFlight(i)
      BY <1>11 DEF Emplace, InFlight, Dests, TypeOK, SchedulerAssumption
    <2> QED  BY <1>11, <2>1, MoveCount DEF Emplace, Uncounted
  <1>12. ASSUME UNCHANGED <<place, remainingJobs, remainingTasks, pc, task>>
         PROVE  JobAccounting'
    BY <1>12, MoveCount DEF InFlight, Uncounted
  <1>13. ASSUME NEW c \in Clients, StopOne(c) \/ ClientMove(c) \/ Tick(c)
         PROVE  JobAccounting'
    BY <1>12, <1>13, MoveFrame DEF StopOne, Tick
  <1>14. CASE AllStopped \/ RequestStop \/ UNCHANGED vars
    BY <1>12, <1>14 DEF AllStopped, RequestStop, vars
  <1> QED
    BY StepCases, <1>1, <1>2, <1>3, <1>4, <1>5, <1>6, <1>7, <1>8, <1>9, <1>10, <1>11, <1>13,
       <1>14

-----------------------------------------------------------------------------
(* Wake-ups.                                                               *)

\* A thread that was not signaling changes nobody's due signals.
LEMMA DueKept ==
  ASSUME NEW t, t \in Threads => call[t].at # "signal",
         \A u \in Threads \ {t} : call'[u] = call[u]
  PROVE  \A j, w : SignalDue(j, w) => SignalDue(j, w)'
  BY DEF SignalDue

\* Steps that leave status and loops alone, and put no job into a queue.
LEMMA WakeFrame ==
  ASSUME WakeInv, UNCHANGED <<status, loop>>,
         \A w \in Workers : \/ pc'[w] = pc[w]
                            \/ pc'[w] \in {"drain", "body", "again"} /\ pc[w] \in {"drain", "body", "again"},
         \A j \in Jobs : place'[j] = place[j] \/ place'[j] \notin Dests,
         \A j, w : SignalDue(j, w) => SignalDue(j, w)'
  PROVE  WakeInv'
  <1> SUFFICES ASSUME NEW w \in Workers, NEW j \in Jobs, place'[j] \in {w, "global"}
               PROVE  Heeded(w, j)'
    BY DEF WakeInv
  <1>1. place'[j] = place[j]
    BY DEF Dests
  <1>2. Heeded(w, j)
    BY <1>1 DEF WakeInv
  <1> QED  BY <1>1, <1>2 DEF Heeded

\* The moves of a worker through its loop.
LEMMA WakeMove ==
  ASSUME SchedulerAssumption, TypeOK, RunInv, WakeInv, NEW v \in Workers, WorkerMove(v)
  PROVE  WakeInv'
  <1> SUFFICES ASSUME NEW w \in Workers, NEW j \in Jobs, place'[j] \in {w, "global"}
               PROVE  Heeded(w, j)'
    BY DEF WakeInv
  <1>1. place' = place /\ call' = call
    BY MoveFrame
  <1>2. Heeded(w, j)
    BY <1>1 DEF WakeInv
  <1>3. SignalDue(j, w) => SignalDue(j, w)'
    BY <1>1 DEF SignalDue
  <1>4. CASE w # v
    <2>1. pc'[w] = pc[w] /\ loop'[w] = loop[w] /\ status'[w] = status[w]
      BY <1>4 DEF WorkerMove, Wake, CheckStop, Drained, FallAsleep, Unpark, LoopTest, Exit, TypeOK
    <2> QED  BY <1>1, <1>2, <1>3, <2>1 DEF Heeded
  <1>5. CASE w = v
    <2>1. CASE Wake(w) \/ CheckStop(w)
      BY <2>1 DEF Wake, CheckStop, RunInv, Heeded, TypeOK
    <2>2. CASE Unpark(w) \/ LoopTest(w) \/ Exit(w)
      BY <2>2 DEF Unpark, LoopTest, Exit, Heeded, TypeOK
    <2>3. CASE FallAsleep(w)
      BY <1>2, <1>3, <2>3 DEF FallAsleep, Heeded, TypeOK
    <2>4. CASE Drained(w) /\ loop[w] = "local"
      <3>1. place[j] = "global" /\ pc'[w] = "drain"
        BY <1>1, <2>4 DEF Drained, Queue
      <3> QED  BY <1>1, <3>1 DEF Heeded
    <2>5. CASE Drained(w) /\ loop[w] # "local"
      <3>1. place[j] # "global" /\ status' = status /\ pc[w] = "drain"
        BY <2>5 DEF Drained, Queue
      <3> QED  BY <1>2, <1>3, <2>5, <3>1 DEF Heeded
    <2> QED  BY <1>5, <2>1, <2>2, <2>3, <2>4, <2>5 DEF WorkerMove
  <1> QED  BY <1>4, <1>5

LEMMA WakeNext ==
  ASSUME SchedulerAssumption, TypeOK, HoldInv, RunInv, ClientInv, WakeInv, [Next]_vars
  PROVE  WakeInv'
  <1>1. ASSUME NEW t \in Threads, Push(t)  PROVE WakeInv'
    <2> SUFFICES ASSUME NEW w \in Workers, NEW j \in Jobs, place'[j] \in {w, "global"}
                 PROVE  Heeded(w, j)'
      BY DEF WakeInv
    <2>1. CASE j = call[t].job
      <3>1. call[t].dest \in {w, "global"}
        BY <1>1, <2>1 DEF Push, TypeOK
      <3>2. call'[t].at = "signal" /\ call'[t].job = j /\ w \in call'[t].left
        BY <1>1, <2>1, <3>1 DEF Push, SignalCall, Targets, TypeOK
      <3> QED  BY <3>2 DEF Heeded, SignalDue
    <2>2. CASE j # call[t].job
      <3>1. place'[j] = place[j] /\ UNCHANGED <<pc, loop, status>>
        BY <1>1, <2>2 DEF Push, TypeOK
      <3>2. Heeded(w, j)
        BY <3>1 DEF WakeInv
      <3>3. SignalDue(j, w) => SignalDue(j, w)'
        BY <1>1, DueKept DEF Push, TypeOK
      <3> QED  BY <3>1, <3>2, <3>3 DEF Heeded
    <2> QED  BY <2>1, <2>2
  <1>2. ASSUME NEW t \in Threads, Signal(t)  PROVE WakeInv'
    <2> SUFFICES ASSUME NEW w \in Workers, NEW j \in Jobs, place'[j] \in {w, "global"}
                 PROVE  Heeded(w, j)'
      BY DEF WakeInv
    <2>1. PICK v \in call[t].left :
            /\ status' = [status EXCEPT ![v] = 2]
            /\ call' = [call EXCEPT ![t] = IF call[t].left = {v} THEN NoCall
                                           ELSE SignalCall(call[t].job, call[t].left \ {v})]
      BY <1>2 DEF Signal
    <2>2. UNCHANGED <<place, pc, loop>>
      BY <1>2 DEF Signal
    <2>3. Heeded(w, j)
      BY <2>2 DEF WakeInv
    <2>4. CASE w = v
      BY <2>1, <2>4 DEF Heeded, TypeOK
    <2>5. CASE w # v
      <3>1. SignalDue(j, w) => SignalDue(j, w)'
        <4> SUFFICES ASSUME NEW u \in Threads, call[u].at = "signal", call[u].job = j, w \in call[u].left
                     PROVE  call'[u].at = "signal" /\ call'[u].job = j /\ w \in call'[u].left
          BY DEF SignalDue
        <4>1. CASE u = t
          BY <2>1, <2>5, <4>1 DEF SignalCall, TypeOK
        <4>2. CASE u # t
          BY <2>1, <4>2 DEF TypeOK
        <4> QED  BY <4>1, <4>2
      <3>2. status'[w] = status[w]
        BY <2>1, <2>5 DEF TypeOK
      <3> QED  BY <2>2, <2>3, <3>1, <3>2 DEF Heeded
    <2> QED  BY <2>4, <2>5
  <1>3. ASSUME UNCHANGED call  PROVE \A j, w : SignalDue(j, w) => SignalDue(j, w)'
    BY <1>3 DEF SignalDue
  <1>4. ASSUME NEW w \in Workers, \/ Take(w) \/ FinishOnce(w) \/ FinishPersistent(w)
                                  \/ UncountPersistent(w)
        PROVE  WakeInv'
    <2>1. UNCHANGED <<status, loop, call>>
      BY <1>4 DEF Take, FinishOnce, FinishPersistent, UncountPersistent
    <2>2. \A j \in Jobs : place'[j] = place[j] \/ place'[j] \notin Dests
      BY <1>4 DEF Take, FinishOnce, FinishPersistent, UncountPersistent, Dests, TypeOK, SchedulerAssumption
    <2>3. \A v \in Workers : \/ pc'[v] = pc[v]
                             \/ pc'[v] \in {"drain", "body", "again"} /\ pc[v] \in {"drain", "body", "again"}
      BY <1>4 DEF Take, FinishOnce, FinishPersistent, UncountPersistent, TypeOK
    <2> QED  BY <1>3, <2>1, <2>2, <2>3, WakeFrame
  <1>5. ASSUME NEW t \in Threads, NEW j \in Jobs, NEW dest \in Dests, Enqueue(t, j, dest),
               UNCHANGED <<status, loop>>,
               \A v \in Workers : \/ pc'[v] = pc[v]
                                  \/ pc'[v] \in {"drain", "body", "again"} /\ pc[v] \in {"drain", "body", "again"}
        PROVE  WakeInv'
    <2>1. \A i \in Jobs : place'[i] = place[i] \/ place'[i] \notin Dests
      BY <1>5 DEF Enqueue, Dests, TypeOK, SchedulerAssumption
    <2>2. \A i, w : SignalDue(i, w) => SignalDue(i, w)'
      BY <1>5, DueKept DEF Enqueue, Returned, TypeOK
    <2> QED  BY <1>5, <2>1, <2>2, WakeFrame
  <1>6. ASSUME NEW w \in Workers, Rethrow(w)  PROVE WakeInv'
    <2>1. w \in Threads /\ w \in Dests /\ task[w] \in Jobs
      BY <1>6 DEF Rethrow, RunInv, Threads, Dests
    <2>2. \A v \in Workers : \/ pc'[v] = pc[v]
                             \/ pc'[v] \in {"drain", "body", "again"} /\ pc[v] \in {"drain", "body", "again"}
      BY <1>6 DEF Rethrow, TypeOK
    <2> QED  BY <1>5, <1>6, <2>1, <2>2 DEF Rethrow
  <1>7. ASSUME NEW w \in Workers, Spawn(w)  PROVE WakeInv'
    BY <1>5, <1>7 DEF Spawn, Threads
  <1>8. ASSUME NEW c \in Clients, Submit(c) \/ StartNext(c)  PROVE WakeInv'
    BY <1>5, <1>8 DEF Submit, StartNext, Threads, Dests
  <1>9. ASSUME NEW c \in Clients, StopOne(c)  PROVE WakeInv'
    <2>1. c \in Threads /\ call[c].at # "signal" /\ \A u \in Threads \ {c} : call'[u] = call[u]
      BY <1>9 DEF StopOne, SignalAll, Free, Returned, Threads, TypeOK
    <2>2. \A i, w : SignalDue(i, w) => SignalDue(i, w)'
      BY <2>1, DueKept
    <2> QED  BY <1>9, <2>2, WakeFrame DEF StopOne
  <1>10. CASE AllStopped
    <2>1. call[Owner].at # "signal" /\ \A u \in Threads \ {Owner} : call'[u] = call[u]
      BY <1>10 DEF AllStopped, SignalAll, ClientInv, Returned, TypeOK, SchedulerAssumption
    <2>2. \A i, w : SignalDue(i, w) => SignalDue(i, w)'
      BY <2>1, DueKept
    <2> QED  BY <1>10, <2>2, WakeFrame DEF AllStopped
  <1>11. ASSUME NEW c \in Clients, Tick(c)  PROVE WakeInv'
    <2>1. UNCHANGED <<place, pc, loop, call>> /\ \A w \in Workers : status'[w] \in {status[w], 2}
      BY <1>11 DEF Tick, TypeOK
    <2> QED  BY <1>3, <2>1 DEF WakeInv, Heeded
  <1>12. ASSUME NEW c \in Clients, Emplace(c)  PROVE WakeInv'
    <2>1. \A j \in Jobs : place'[j] = place[j] \/ place'[j] \notin Dests
      BY <1>12 DEF Emplace, Dests, TypeOK, SchedulerAssumption
    <2> QED  BY <1>3, <1>12, <2>1, WakeFrame DEF Emplace
  <1>13. ASSUME UNCHANGED <<place, status, pc, loop, call>>  PROVE WakeInv'
    BY <1>3, <1>13, WakeFrame
  <1>14. ASSUME NEW c \in Clients, ClientMove(c)  PROVE WakeInv'
    BY <1>13, <1>14, MoveFrame
  <1>15. CASE RequestStop \/ UNCHANGED vars
    BY <1>13, <1>15 DEF RequestStop, vars
  <1> QED
    BY StepCases, WakeMove, <1>1, <1>2, <1>4, <1>6, <1>7, <1>8, <1>9, <1>10, <1>11, <1>12, <1>14,
       <1>15
-----------------------------------------------------------------------------
(* After the destructor's wait().                                          *)

\* Nothing finite is owed.
NoneOwed == \A j \in Once : ~InFlight(j)

\* The scheduler was given a persistent task.
HadPersistent == \E p \in Persistent : place[p] \notin {"fresh", "staged"}

\* What wait() learns from _remainingJobs = 0.
LEMMA ZeroOwed ==
  ASSUME SchedulerAssumption, JobAccounting, remainingJobs = 0
  PROVE  NoneOwed
  <1>1. OwedJobs = {}
    BY OwedFinite, FS_EmptySet DEF JobAccounting
  <1> QED  BY <1>1 DEF OwedJobs, NoneOwed

\* No step takes a job back.
LEMMA HadPersistentKept ==
  ASSUME SchedulerAssumption, TypeOK, HoldInv, RunInv, [Next]_vars, HadPersistent
  PROVE  HadPersistent'
  <1>1. PICK p \in Persistent : place[p] \notin {"fresh", "staged"}
    BY DEF HadPersistent
  <1>2. p \in Jobs
    BY DEF SchedulerAssumption
  <1>3. ASSUME NEW j \in Jobs, NEW q, q \notin {"fresh", "staged"} \/ place[j] = "fresh",
               place' = [place EXCEPT ![j] = q]
        PROVE  HadPersistent'
    BY <1>1, <1>2, <1>3 DEF HadPersistent, TypeOK
  <1>4. ASSUME UNCHANGED place  PROVE HadPersistent'
    BY <1>1, <1>4 DEF HadPersistent
  <1>5. ASSUME NEW t \in Threads, Push(t)  PROVE HadPersistent'
    <2>1. call[t].job \in Jobs /\ call[t].dest \notin {"fresh", "staged"}
      BY <1>5 DEF Push, HoldInv, TypeOK, Calls, Dests, SchedulerAssumption
    <2> QED  BY <1>3, <1>5, <2>1 DEF Push
  <1>6. ASSUME NEW w \in Workers, Take(w) \/ FinishOnce(w) \/ FinishPersistent(w)
        PROVE  HadPersistent'
    <2>1. Take(w) => HadPersistent'
      BY <1>3 DEF Take
    <2>2. FinishOnce(w) \/ FinishPersistent(w) => HadPersistent'
      BY <1>3 DEF FinishOnce, FinishPersistent, RunInv
    <2> QED  BY <1>6, <2>1, <2>2
  <1>7. ASSUME NEW w \in Workers, Rethrow(w) \/ Spawn(w)  PROVE HadPersistent'
    BY <1>3, <1>7 DEF Rethrow, Spawn, Enqueue, RunInv
  <1>8. ASSUME NEW c \in Clients, Submit(c) \/ StartNext(c) \/ Emplace(c)  PROVE HadPersistent'
    BY <1>3, <1>8 DEF Submit, StartNext, Emplace, Enqueue
  <1>9. ASSUME NEW c \in Clients, StopOne(c) \/ Tick(c) \/ ClientMove(c)  PROVE HadPersistent'
    BY <1>4, <1>9, MoveFrame DEF StopOne, Tick
  <1>10. ASSUME NEW w \in Workers, WorkerMove(w) \/ UncountPersistent(w)  PROVE HadPersistent'
    BY <1>4, <1>10, MoveFrame DEF UncountPersistent
  <1>11. ASSUME NEW t \in Threads, Signal(t)  PROVE HadPersistent'
    BY <1>4, <1>11 DEF Signal
  <1>12. CASE AllStopped \/ RequestStop \/ UNCHANGED vars
    BY <1>4, <1>12 DEF AllStopped, RequestStop, vars
  <1> QED
    BY StepCases, <1>5, <1>6, <1>7, <1>8, <1>9, <1>10, <1>11, <1>12

\* A worker that runs a job while nothing finite is owed runs a persistent task.
LEMMA RunsPersistent ==
  ASSUME RunInv, NoneOwed \/ HadPersistent, NEW w \in Workers, pc[w] \in {"body", "again"}
  PROVE  HadPersistent
  <1>1. task[w] \in Jobs /\ place[task[w]] = "run"
    BY DEF RunInv
  <1>2. task[w] \in Once => InFlight(task[w])
    BY <1>1 DEF InFlight
  <1> QED  BY <1>1, <1>2 DEF NoneOwed, HadPersistent, Once

LEMMA CloseNext ==
  ASSUME SchedulerAssumption, TypeOK, HoldInv, RunInv, ClientInv, JobAccounting, CloseInv,
         [Next]_vars
  PROVE  CloseInv'
  <1> DEFINE Closed == act[Owner] \in {"stop", "join", "gone"}
  <1> SUFFICES ASSUME Closed'  PROVE NoneOwed' \/ HadPersistent'
    BY DEF CloseInv, NoneOwed, HadPersistent
  <1>1. ASSUME Closed  PROVE NoneOwed \/ HadPersistent
    BY <1>1 DEF CloseInv, NoneOwed, HadPersistent
  <1>2. CASE HadPersistent
    BY <1>2, HadPersistentKept
  <1>3. ASSUME UNCHANGED act, NoneOwed \/ HadPersistent => NoneOwed' \/ HadPersistent'
        PROVE  NoneOwed' \/ HadPersistent'
    BY <1>1, <1>3
  <1>4. ASSUME UNCHANGED act, \A j \in Once : InFlight(j)' => InFlight(j)
        PROVE  NoneOwed' \/ HadPersistent'
    BY <1>1, <1>2, <1>4 DEF NoneOwed
  <1>5. ASSUME NEW t \in Threads, Push(t)  PROVE NoneOwed' \/ HadPersistent'
    <2>1. \A j \in Once : InFlight(j)' => InFlight(j)
      BY <1>5 DEF Push, HoldInv, InFlight, Once, TypeOK
    <2> QED  BY <1>4, <1>5, <2>1 DEF Push
  <1>6. ASSUME NEW w \in Workers, Take(w) \/ FinishOnce(w) \/ FinishPersistent(w)
        PROVE  NoneOwed' \/ HadPersistent'
    <2>1. \A j \in Once : InFlight(j)' => InFlight(j)
      BY <1>6 DEF Take, FinishOnce, FinishPersistent, Queue, InFlight, Once, Dests, TypeOK,
                  SchedulerAssumption
    <2> QED  BY <1>4, <1>6, <2>1 DEF Take, FinishOnce, FinishPersistent
  <1>7. ASSUME NEW w \in Workers, Rethrow(w) \/ Spawn(w)  PROVE NoneOwed' \/ HadPersistent'
    <2>1. UNCHANGED act /\ pc[w] \in {"body", "again"}
      BY <1>7 DEF Rethrow, Spawn
    <2> QED  BY <1>1, <1>2, <2>1, RunsPersistent
  <1>8. ASSUME NEW c \in Clients, Submit(c) \/ StartNext(c)  PROVE NoneOwed' \/ HadPersistent'
    <2>1. ~Closed
      BY <1>8 DEF Submit, StartNext, Free, ClientInv
    <2> QED  BY <1>8, <2>1 DEF Submit, StartNext
  <1>9. ASSUME NEW c \in Clients, Emplace(c)  PROVE NoneOwed' \/ HadPersistent'
    <2>1. \A j \in Once : InFlight(j)' => InFlight(j)
      BY <1>9 DEF Emplace, InFlight, Once, Dests, TypeOK, SchedulerAssumption
    <2> QED  BY <1>4, <1>9, <2>1 DEF Emplace
  <1>10. ASSUME NEW c \in Clients, ClientMove(c)  PROVE NoneOwed' \/ HadPersistent'
    <2>1. UNCHANGED place
      BY <1>10, MoveFrame
    <2>2. CASE Closed
      BY <1>1, <2>1, <2>2 DEF NoneOwed, HadPersistent, InFlight
    <2>3. CASE ~Closed
      <3>1. c = Owner /\ Idle(c)
        BY <1>10, <2>3 DEF ClientMove, Start, Wait, StartEnd, Idle, NotIdle, Ticked, Destroy, Join,
                           Become, TypeOK, SchedulerAssumption
      <3>2. NoneOwed
        BY <3>1, ZeroOwed DEF Idle
      <3> QED  BY <2>1, <3>2 DEF NoneOwed, InFlight
    <2> QED  BY <2>2, <2>3
  <1>11. ASSUME NEW c \in Clients, StopOne(c) \/ Tick(c)  PROVE NoneOwed' \/ HadPersistent'
    BY <1>4, <1>11 DEF StopOne, Tick, InFlight
  <1>12. ASSUME NEW w \in Workers, WorkerMove(w) \/ UncountPersistent(w)
         PROVE  NoneOwed' \/ HadPersistent'
    BY <1>4, <1>12, MoveFrame DEF UncountPersistent, InFlight
  <1>13. ASSUME NEW t \in Threads, Signal(t)  PROVE NoneOwed' \/ HadPersistent'
    BY <1>4, <1>13 DEF Signal, InFlight
  <1>14. CASE AllStopped
    BY <1>1, <1>14 DEF AllStopped, NoneOwed, HadPersistent, InFlight
  <1>15. CASE RequestStop \/ UNCHANGED vars
    BY <1>4, <1>15 DEF RequestStop, vars, InFlight
  <1> QED
    BY StepCases, <1>5, <1>6, <1>7, <1>8, <1>9, <1>10, <1>11, <1>12, <1>13, <1>14, <1>15

-----------------------------------------------------------------------------
(* The invariant holds of every behavior.                                  *)

LEMMA InvInit == SchedulerAssumption /\ Init => IInv
  <1> SUFFICES ASSUME SchedulerAssumption, Init  PROVE IInv
    OBVIOUS
  <1>1. TypeOK
    BY TypeInit
  <1>2. HoldInv /\ RunInv
    BY DEF Init, HoldInv, RunInv, NoCall
  <1>3. ClientInv /\ CloseInv
    BY DEF Init, ClientInv, CloseInv, Returned, NoCall, Threads, SchedulerAssumption
  <1>4. WakeInv
    BY DEF Init, WakeInv, Heeded, SchedulerAssumption
  <1>5. \A j \in Jobs : ~InFlight(j)
    BY DEF Init, InFlight, Dests, SchedulerAssumption
  <1>6. OwedJobs = {} /\ OwedTasks = {}
    BY <1>5 DEF OwedJobs, OwedTasks, Once, SchedulerAssumption
  <1>7. JobAccounting
    BY <1>6, FS_EmptySet DEF JobAccounting, Init
  <1> QED  BY <1>1, <1>2, <1>3, <1>4, <1>7 DEF IInv

LEMMA InvNext == SchedulerAssumption /\ IInv /\ [Next]_vars => IInv'
  <1> SUFFICES ASSUME SchedulerAssumption, IInv, [Next]_vars  PROVE IInv'
    OBVIOUS
  <1> USE DEF IInv
  <1>1. TypeOK'
    BY TypeNext
  <1>2. HoldInv' /\ RunInv'
    BY HoldNext, RunNext
  <1>3. ClientInv' /\ CloseInv'
    BY ClientNext, CloseNext
  <1>4. JobAccounting' /\ WakeInv'
    BY AccountNext, WakeNext
  <1> QED  BY <1>1, <1>2, <1>3, <1>4

LEMMA InvAlways == Spec => []IInv
  BY SchedulerAssumption, InvInit, InvNext, PTL DEF Spec

\* The variables of the scheduler keep their types; in particular the two counters never
\* go below zero (Executor.hpp:245-246).
THEOREM SchedulerTypes == Spec => []TypeOK
  <1>1. IInv => TypeOK
    BY DEF IInv
  <1> QED  BY <1>1, InvAlways, PTL

\* _remainingJobs and _remainingTasks count the jobs in flight exactly, for any number of
\* threads and jobs.
THEOREM CountersExact == Spec => []JobAccounting
  <1>1. IInv => JobAccounting
    BY DEF IInv
  <1> QED  BY <1>1, InvAlways, PTL

\* No worker sleeps over a job in a queue it drains unless its signal is still due.
THEOREM NoWakeupIsLost == Spec => []NoLostWakeup
  <1>1. ASSUME IInv  PROVE NoLostWakeup
    <2> SUFFICES ASSUME NEW w \in Workers, NEW j \in Jobs, pc[w] \in {"sleep", "parked"},
                        status[w] # 2, place[j] \in {w, "global"}
                 PROVE  SignalDue(j, w)
      BY DEF NoLostWakeup
    <2>1. Heeded(w, j)
      BY <1>1 DEF IInv, WakeInv
    <2> QED  BY <2>1 DEF Heeded
  <1> QED  BY <1>1, InvAlways, PTL
-----------------------------------------------------------------------------
(* The scheduler implements the pool.                                      *)

LEMMA PoolInit == SchedulerAssumption /\ Init => Pool!Init
  BY DEF Init, Pool!Init, poolState, poolWaiting, poolOpen, SchedulerAssumption

\* How enqueue_, and the end of a job, look to the pool.
LEMMA PoolStates ==
  ASSUME SchedulerAssumption, TypeOK, NEW i \in Jobs, NEW p, place' = [place EXCEPT ![i] = p]
  PROVE  /\ p \in Dests \cup {"held", "run"} =>
              poolState' = [poolState EXCEPT ![i] = "accepted"]
         /\ p = "done" => poolState' = [poolState EXCEPT ![i] = "done"]
         /\ p \in {"fresh", "staged"} => poolState' = [poolState EXCEPT ![i] = "new"]
  <1>1. \A j \in Jobs : place'[j] = IF j = i THEN p ELSE place[j]
    BY DEF TypeOK
  <1>2. \A w \in Workers : w \notin {"fresh", "staged", "done"}
    BY DEF SchedulerAssumption
  <1> QED  BY <1>1, <1>2 DEF poolState, InFlight, Dests

LEMMA PoolStateNow ==
  ASSUME SchedulerAssumption, NEW j \in Jobs
  PROVE  /\ place[j] \in {"fresh", "staged"} => poolState[j] = "new"
         /\ InFlight(j) => poolState[j] = "accepted"
  BY DEF poolState, InFlight, Dests, SchedulerAssumption

\* A step that moves a job in flight to another place in flight is invisible.
LEMMA PoolStutter ==
  ASSUME SchedulerAssumption, TypeOK, NEW i \in Jobs, InFlight(i),
         NEW p \in Dests \cup {"held", "run"}, place' = [place EXCEPT ![i] = p]
  PROVE  poolState' = poolState
  <1>1. poolState' = [poolState EXCEPT ![i] = "accepted"]
    BY PoolStates
  <1> QED  BY <1>1, PoolStateNow DEF poolState

LEMMA PoolNext ==
  ASSUME SchedulerAssumption, IInv, [Next]_vars
  PROVE  [Pool!Next]_(Pool!poolVars)
  <1> USE DEF IInv
  <1>1. ASSUME UNCHANGED poolState, UNCHANGED act
        PROVE  UNCHANGED Pool!poolVars
    BY <1>1 DEF Pool!poolVars, poolWaiting, poolOpen
  <1>2. ASSUME UNCHANGED place  PROVE UNCHANGED poolState
    BY <1>2 DEF poolState, InFlight
  <1>3. ASSUME NEW t \in Threads, Push(t)  PROVE UNCHANGED Pool!poolVars
    <2>1. call[t].job \in Jobs /\ InFlight(call[t].job) /\ call[t].dest \in Dests
      BY <1>3 DEF Push, HoldInv, InFlight, TypeOK, Calls
    <2> QED  BY <1>1, <1>3, <2>1, PoolStutter DEF Push
  <1>4. ASSUME NEW w \in Workers, Take(w)  PROVE UNCHANGED Pool!poolVars
    <2>1. Queue(w) \in Dests
      BY DEF Queue, Dests
    <2> QED  BY <1>1, <1>4, <2>1, PoolStutter DEF Take, InFlight
  <1>5. ASSUME NEW w \in Workers, Rethrow(w)  PROVE UNCHANGED Pool!poolVars
    <2>1. task[w] \in Jobs /\ InFlight(task[w])
      BY <1>5 DEF Rethrow, RunInv, InFlight
    <2> QED  BY <1>1, <1>5, <2>1, PoolStutter DEF Rethrow, Enqueue
  <1>6. ASSUME NEW w \in Workers, FinishOnce(w) \/ FinishPersistent(w)  PROVE Pool!Next
    <2>1. task[w] \in Jobs /\ InFlight(task[w])
      BY <1>6 DEF FinishOnce, FinishPersistent, RunInv, InFlight
    <2>2. poolState' = [poolState EXCEPT ![task[w]] = "done"] /\ poolState[task[w]] = "accepted"
      BY <1>6, <2>1, PoolStates, PoolStateNow DEF FinishOnce, FinishPersistent
    <2>3. UNCHANGED <<poolWaiting, poolOpen>>
      BY <1>6 DEF FinishOnce, FinishPersistent, poolWaiting, poolOpen
    <2> QED  BY <2>1, <2>2, <2>3 DEF Pool!Next, Pool!Finish
  <1>7. ASSUME NEW t \in Threads, NEW j \in Jobs, NEW dest \in Dests, Enqueue(t, j, dest),
               place[j] \in {"fresh", "staged"}, UNCHANGED act, poolOpen \/ HadPersistent
        PROVE  Pool!Next
    <2>1. poolState' = [poolState EXCEPT ![j] = "accepted"] /\ poolState[j] = "new"
      BY <1>7, PoolStates, PoolStateNow DEF Enqueue
    <2>2. HadPersistent => Pool!HasPersistent
      BY DEF HadPersistent, Pool!HasPersistent, poolState, InFlight, SchedulerAssumption
    <2>3. UNCHANGED <<poolWaiting, poolOpen>>
      BY <1>7 DEF poolWaiting, poolOpen
    <2> QED  BY <1>7, <2>1, <2>2, <2>3 DEF Pool!Next, Pool!Accept
  <1>8. ASSUME NEW w \in Workers, Spawn(w)  PROVE Pool!Next
    <2>1. ~poolOpen => HadPersistent
      BY <1>8, RunsPersistent DEF Spawn, CloseInv, poolOpen, NoneOwed, HadPersistent
    <2> QED  BY <1>7, <1>8, <2>1 DEF Spawn, Threads
  <1>9. ASSUME NEW c \in Clients, Submit(c) \/ StartNext(c)  PROVE Pool!Next
    <2>1. poolOpen
      BY <1>9 DEF Submit, StartNext, Free, ClientInv, poolOpen
    <2> QED  BY <1>7, <1>9, <2>1 DEF Submit, StartNext, Threads, Dests
  <1>10. ASSUME NEW c \in Clients, Emplace(c)  PROVE UNCHANGED Pool!poolVars
    <2>1. PICK j \in Jobs : place[j] = "fresh" /\ place' = [place EXCEPT ![j] = "staged"]
      BY <1>10 DEF Emplace
    <2>2. poolState' = [poolState EXCEPT ![j] = "new"] /\ poolState[j] = "new"
      BY <2>1, PoolStates, PoolStateNow
    <2>3. UNCHANGED poolState
      BY <2>2 DEF poolState
    <2> QED  BY <1>1, <1>10, <2>3 DEF Emplace
  <1>11. ASSUME NEW c \in Clients, Wait(c) \/ (c = Owner /\ Destroy)  PROVE Pool!Next
    <2>1. UNCHANGED poolState /\ act[c] = "free" /\ poolOpen
      BY <1>2, <1>11 DEF Wait, Destroy, Free, Become, poolOpen
    <2>2. PICK what \in {"wait", "dwait"} : act' = [act EXCEPT ![c] = what]
      BY <1>11 DEF Wait, Destroy, Become
    <2>3. c \notin poolWaiting /\ poolWaiting' = poolWaiting \cup {c}
      BY <2>1, <2>2 DEF poolWaiting, TypeOK
    <2>4. poolOpen' = poolOpen
      BY <2>1, <2>2 DEF poolOpen, TypeOK, SchedulerAssumption
    <2> QED  BY <2>1, <2>3, <2>4 DEF Pool!Next, Pool!BeginWait
  <1>12. ASSUME NEW c \in Clients, Idle(c)  PROVE Pool!Next
    <2>1. UNCHANGED poolState
      BY <1>2, <1>12 DEF Idle, Become
    <2>2. PICK what \in {"free", "stop"} : act' = [act EXCEPT ![c] = what]
      BY <1>12 DEF Idle, Become
    <2>3. c \in poolWaiting /\ poolWaiting' = poolWaiting \ {c}
      BY <1>12, <2>2 DEF Idle, poolWaiting, TypeOK
    <2>4. poolOpen' \in {poolOpen, FALSE}
      BY <1>12, <2>2 DEF Idle, poolOpen, TypeOK, SchedulerAssumption
    <2>5. NoneOwed
      BY <1>12, ZeroOwed DEF Idle
    <2>6. Pool!Quiescent
      BY <2>5 DEF Pool!Quiescent, NoneOwed, poolState, Once
    <2> QED  BY <2>1, <2>3, <2>4, <2>6 DEF Pool!Next, Pool!EndWait
  <1>13. ASSUME NEW c \in Clients, Start(c) \/ StartEnd(c) \/ NotIdle(c) \/ Ticked(c)
                                   \/ (c = Owner /\ Join)
         PROVE  UNCHANGED Pool!poolVars
    <2>1. UNCHANGED poolState
      BY <1>2, <1>13 DEF Start, StartEnd, NotIdle, Ticked, Join, Become
    <2>2. PICK what : act' = [act EXCEPT ![c] = what]
      BY <1>13 DEF Start, StartEnd, NotIdle, Ticked, Join, Become
    <2>3. poolWaiting' = poolWaiting
      BY <1>13 DEF Start, StartEnd, NotIdle, Ticked, Join, Become, Free, poolWaiting, TypeOK
    <2>4. poolOpen' = poolOpen
      BY <1>13 DEF Start, StartEnd, NotIdle, Ticked, Join, Become, Free, poolOpen, TypeOK,
                   SchedulerAssumption
    <2> QED  BY <2>1, <2>3, <2>4 DEF Pool!poolVars
  <1>14. ASSUME UNCHANGED <<place, act>>  PROVE UNCHANGED Pool!poolVars
    BY <1>1, <1>2, <1>14
  <1>15. ASSUME NEW w \in Workers, WorkerMove(w) \/ UncountPersistent(w)
         PROVE  UNCHANGED Pool!poolVars
    BY <1>14, <1>15, MoveFrame DEF UncountPersistent
  <1>16. ASSUME NEW t \in Threads, Signal(t)  PROVE UNCHANGED Pool!poolVars
    BY <1>14, <1>16 DEF Signal
  <1>17. ASSUME NEW c \in Clients, StopOne(c) \/ Tick(c)  PROVE UNCHANGED Pool!poolVars
    BY <1>14, <1>17 DEF StopOne, Tick
  <1>18. CASE AllStopped
    <2>1. UNCHANGED poolState
      BY <1>2, <1>18 DEF AllStopped
    <2>2. UNCHANGED <<poolWaiting, poolOpen>>
      BY <1>18 DEF AllStopped, poolWaiting, poolOpen, TypeOK, SchedulerAssumption
    <2> QED  BY <2>1, <2>2 DEF Pool!poolVars
  <1>19. CASE RequestStop \/ UNCHANGED vars
    BY <1>14, <1>19 DEF RequestStop, vars
  <1>20. ASSUME NEW c \in Clients, ClientMove(c)  PROVE [Pool!Next]_(Pool!poolVars)
    <2>1. CASE Wait(c) \/ (c = Owner /\ Destroy)
      BY <1>11, <2>1
    <2>2. CASE Idle(c)
      BY <1>12, <2>2
    <2>3. CASE Start(c) \/ StartEnd(c) \/ NotIdle(c) \/ Ticked(c) \/ (c = Owner /\ Join)
      BY <1>13, <2>3
    <2> QED  BY <1>20, <2>1, <2>2, <2>3 DEF ClientMove
  <1> QED
    BY StepCases, <1>3, <1>4, <1>5, <1>6, <1>8, <1>9, <1>10, <1>15, <1>16, <1>17, <1>18, <1>19,
       <1>20

\* Queues, workers, wake-ups and counters together do what the pool of module JobPool
\* does: a job runs once, and wait() and the destructor wait for every finite one.
THEOREM SchedulerImplementsPool == Spec => ImplementsPool
  <1>1. SchedulerAssumption /\ IInv /\ [Next]_vars => [Pool!Next]_(Pool!poolVars)
    BY PoolNext
  <1> QED
    BY SchedulerAssumption, PoolInit, InvAlways, <1>1, PTL DEF Spec, ImplementsPool, Pool!Spec
=============================================================================
