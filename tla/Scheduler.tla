----------------------------- MODULE Scheduler -----------------------------
(***************************************************************************)
(* zs::Scheduler, the thread pool under every asynchronous activity of     *)
(* zs-world (zs/world/async/Executor.hpp, Executor.cpp): worker threads    *)
(* that drain a queue of their own and a shared one, the status word by    *)
(* which they sleep and are woken, the counters that wait() reads, and     *)
(* the destructor.                                                         *)
(*                                                                         *)
(* A queue is an unordered collection (moodycamel::ConcurrentQueue orders  *)
(* only the elements of one producer): the queue a job is in is place[j].  *)
(* "Once" jobs are the NormalFunctions and OnceCoroHandles, which the      *)
(* scheduler treats alike; Persistent ones are PersistentCoroHandles.      *)
(* CoroTaskNodes are the subject of module TaskGraph.                      *)
(***************************************************************************)
EXTENDS Integers, FiniteSets

CONSTANTS Workers,     \* the worker threads
          Clients,     \* the other threads that use the scheduler
          Owner,       \* the client that destroys it
          Jobs,        \* the handles ever enqueued, one for each enqueue
          Persistent,  \* those that are PersistentCoroHandles
          Stoppable,   \* the workers a client may stop one by one
          NoJob

ASSUME SchedulerAssumption ==
  /\ IsFiniteSet(Jobs)
  /\ NoJob \notin Jobs
  /\ Persistent \subseteq Jobs
  /\ Owner \in Clients
  /\ Workers \cap Clients = {}
  /\ Stoppable \subseteq Workers
  /\ {"fresh", "staged", "held", "global", "run", "done"} \cap Workers = {}

Once    == Jobs \ Persistent
Threads == Workers \cup Clients
Dests   == Workers \cup {"global"}  \* workerId, "global" being -1
Places  == Dests \cup {"fresh", "staged", "held", "run", "done"}

VARIABLES
  place,           \* where each job is: not handed over, in _tasks, held by enqueue_,
                   \* in _pendingTasks, in a worker's queue, in process(), finished
  remainingJobs,   \* _remainingJobs
  remainingTasks,  \* _remainingTasks
  status,          \* Worker::_status: 0 asleep, 1 busy, 2 signaled, -1 exited
  stop,            \* _stopSources: stop requested of the worker
  pc,              \* where each worker is in its loop
  loop,            \* which of the two queues the worker is draining
  task,            \* the job the worker processes
  call,            \* each thread's call of enqueue_ or signalOne in progress
  act              \* what each client is doing with the scheduler

vars == <<place, remainingJobs, remainingTasks, status, stop, pc, loop, task, call, act>>

NoCall == [at |-> "none", job |-> NoJob, dest |-> "global", left |-> {}]
SignalCall(j, ws) == [at |-> "signal", job |-> j, dest |-> "global", left |-> ws]
Calls  == [at : {"none", "push", "signal"}, job : Jobs \cup {NoJob},
           dest : Dests, left : SUBSET Workers]

TypeOK ==
  /\ place \in [Jobs -> Places]
  /\ remainingJobs \in Nat
  /\ remainingTasks \in Nat
  /\ status \in [Workers -> {-1, 0, 1, 2}]
  /\ stop \in [Workers -> BOOLEAN]
  /\ pc \in [Workers -> {"exchange", "checkStop", "drain", "body", "again", "sleep",
                         "parked", "test", "exit", "gone"}]
  /\ loop \in [Workers -> {"local", "global"}]
  /\ task \in [Workers -> Jobs \cup {NoJob}]
  /\ call \in [Threads -> Calls]
  /\ act \in [Clients -> {"free", "start", "wait", "tick", "dwait", "dtick",
                          "stop", "join", "gone"}]

Init ==
  /\ place = [j \in Jobs |-> "fresh"]
  /\ remainingJobs = 0
  /\ remainingTasks = 0
  /\ status = [w \in Workers |-> 2]
  /\ stop = [w \in Workers |-> FALSE]
  /\ pc = [w \in Workers |-> "exchange"]
  /\ loop = [w \in Workers |-> "local"]
  /\ task = [w \in Workers |-> NoJob]
  /\ call = [t \in Threads |-> NoCall]
  /\ act = [c \in Clients |-> "free"]

-----------------------------------------------------------------------------
(* enqueue_ and signalOne, on whatever thread calls them.                  *)

Returned(t) == call[t].at = "none"

\* The workers signalOne(dest) stores 2 to.
Targets(dest) == IF dest = "global" THEN Workers ELSE {dest}

CountUp_NoCount(j) ==
  /\ remainingJobs' = remainingJobs
  /\ remainingTasks' = remainingTasks + IF j \in Persistent THEN 1 ELSE 0

\* incCountByTask.
CountUp(j) ==
  /\ remainingJobs' = remainingJobs + IF j \in Persistent THEN 0 ELSE 1
  /\ remainingTasks' = remainingTasks + IF j \in Persistent THEN 1 ELSE 0

\* enqueue_ up to the count: from here the thread holds the job.
Enqueue(t, j, dest) ==
  /\ Returned(t)
  /\ CountUp(j)
  /\ place' = [place EXCEPT ![j] = "held"]
  /\ call' = [call EXCEPT ![t] = [at |-> "push", job |-> j, dest |-> dest, left |-> {}]]

\* The job goes into the queue; signalOne follows.
Push(t) ==
  /\ call[t].at = "push"
  /\ place' = [place EXCEPT ![call[t].job] = call[t].dest]
  /\ call' = [call EXCEPT ![t] = SignalCall(call[t].job, Targets(call[t].dest))]
  /\ UNCHANGED <<remainingJobs, remainingTasks, status, stop, pc, loop, task, act>>

\* signalOne is a compare-and-swap that spares a busy worker, as notifyOne does.
Signal_OnlySleeping(t) ==
  /\ call[t].at = "signal"
  /\ \E w \in call[t].left :
       /\ status' = [status EXCEPT ![w] = IF @ = 0 THEN 2 ELSE @]
       /\ call' = [call EXCEPT ![t] = IF call[t].left = {w} THEN NoCall
                                      ELSE SignalCall(call[t].job, call[t].left \ {w})]
  /\ UNCHANGED <<place, remainingJobs, remainingTasks, stop, pc, loop, task, act>>

\* One worker of signalOne or signalAll: store 2 and notify.
Signal(t) ==
  /\ call[t].at = "signal"
  /\ \E w \in call[t].left :
       /\ status' = [status EXCEPT ![w] = 2]
       /\ call' = [call EXCEPT ![t] = IF call[t].left = {w} THEN NoCall
                                      ELSE SignalCall(call[t].job, call[t].left \ {w})]
  /\ UNCHANGED <<place, remainingJobs, remainingTasks, stop, pc, loop, task, act>>

-----------------------------------------------------------------------------
(* The worker threads: one action per access to shared state of the loop   *)
(* in Scheduler::Scheduler.                                                *)

\* _status.exchange(1) at the head of the loop.
Wake(w) ==
  /\ pc[w] = "exchange"
  /\ status' = [status EXCEPT ![w] = 1]
  /\ pc' = [pc EXCEPT ![w] = IF status[w] = 2 THEN "checkStop" ELSE "drain"]
  /\ loop' = [loop EXCEPT ![w] = "local"]
  /\ UNCHANGED <<place, remainingJobs, remainingTasks, stop, task, call, act>>

\* A signaled worker leaves at once when it was asked to stop.
CheckStop(w) ==
  /\ pc[w] = "checkStop"
  /\ pc' = [pc EXCEPT ![w] = IF stop[w] THEN "exit" ELSE "drain"]
  /\ UNCHANGED <<place, remainingJobs, remainingTasks, status, stop, loop, task, call, act>>

\* The queue the worker is draining.
Queue(w) == IF loop[w] = "local" THEN w ELSE "global"

\* try_dequeue finds a task.
Take(w) ==
  /\ pc[w] = "drain"
  /\ Returned(w)
  /\ \E j \in Jobs :
       /\ place[j] = Queue(w)
       /\ place' = [place EXCEPT ![j] = "run"]
       /\ task' = [task EXCEPT ![w] = j]
  /\ pc' = [pc EXCEPT ![w] = "body"]
  /\ UNCHANGED <<remainingJobs, remainingTasks, status, stop, loop, call, act>>

\* try_dequeue finds nothing: on to the shared queue, and from there to sleep.
Drained(w) ==
  /\ pc[w] = "drain"
  /\ Returned(w)
  /\ \A j \in Jobs : place[j] # Queue(w)
  /\ IF loop[w] = "local"
       THEN loop' = [loop EXCEPT ![w] = "global"] /\ UNCHANGED pc
       ELSE pc' = [pc EXCEPT ![w] = "sleep"] /\ UNCHANGED loop
  /\ UNCHANGED <<place, remainingJobs, remainingTasks, status, stop, task, call, act>>

\* The running job enqueues another one (schedule() hands over its own coroutine).
Spawn(w) ==
  /\ pc[w] = "body"
  /\ \E j \in Jobs, dest \in Dests : place[j] = "fresh" /\ Enqueue(w, j, dest)
  /\ UNCHANGED <<status, stop, pc, loop, task, act>>

FinishOnce_Leak(w) ==
  /\ pc[w] = "body"
  /\ Returned(w)
  /\ task[w] \notin Persistent
  /\ place' = [place EXCEPT ![task[w]] = "done"]
  /\ task' = [task EXCEPT ![w] = NoJob]
  /\ pc' = [pc EXCEPT ![w] = "drain"]
  /\ UNCHANGED <<remainingJobs, remainingTasks, status, stop, loop, call, act>>

\* task() or resume() returns; decNumJob.
FinishOnce(w) ==
  /\ pc[w] = "body"
  /\ Returned(w)
  /\ task[w] \notin Persistent
  /\ remainingJobs' = remainingJobs - 1
  /\ place' = [place EXCEPT ![task[w]] = "done"]
  /\ task' = [task EXCEPT ![w] = NoJob]
  /\ pc' = [pc EXCEPT ![w] = "drain"]
  /\ UNCHANGED <<remainingTasks, status, stop, loop, call, act>>

UncountPersistent_Leak(w) ==
  /\ pc[w] = "body"
  /\ Returned(w)
  /\ task[w] \in Persistent
  /\ pc' = [pc EXCEPT ![w] = "again"]
  /\ UNCHANGED <<place, remainingJobs, remainingTasks, status, stop, loop, task, call, act>>

\* A persistent task's resume() returns; decNumTask, before it is known to be done.
UncountPersistent(w) ==
  /\ pc[w] = "body"
  /\ Returned(w)
  /\ task[w] \in Persistent
  /\ remainingTasks' = remainingTasks - 1
  /\ pc' = [pc EXCEPT ![w] = "again"]
  /\ UNCHANGED <<place, remainingJobs, status, stop, loop, task, call, act>>

\* h.done(): the persistent task is not enqueued again.
FinishPersistent(w) ==
  /\ pc[w] = "again"
  /\ place' = [place EXCEPT ![task[w]] = "done"]
  /\ task' = [task EXCEPT ![w] = NoJob]
  /\ pc' = [pc EXCEPT ![w] = "drain"]
  /\ UNCHANGED <<remainingJobs, remainingTasks, status, stop, loop, call, act>>

\* Otherwise it goes back to the worker's own queue.
Rethrow(w) ==
  /\ pc[w] = "again"
  /\ Enqueue(w, task[w], w)
  /\ task' = [task EXCEPT ![w] = NoJob]
  /\ pc' = [pc EXCEPT ![w] = "drain"]
  /\ UNCHANGED <<status, stop, loop, act>>

FallAsleep_Plain(w) ==
  /\ pc[w] = "sleep"
  /\ status' = [status EXCEPT ![w] = 0]
  /\ pc' = [pc EXCEPT ![w] = "parked"]
  /\ UNCHANGED <<place, remainingJobs, remainingTasks, stop, loop, task, call, act>>

\* _status.exchange(0): a signal that came meanwhile is seen in the old value.
FallAsleep(w) ==
  /\ pc[w] = "sleep"
  /\ status' = [status EXCEPT ![w] = 0]
  /\ pc' = [pc EXCEPT ![w] = IF status[w] = 2 THEN "test" ELSE "parked"]
  /\ UNCHANGED <<place, remainingJobs, remainingTasks, stop, loop, task, call, act>>

\* _status.wait(0) returns.
Unpark(w) ==
  /\ pc[w] = "parked"
  /\ status[w] # 0
  /\ pc' = [pc EXCEPT ![w] = "test"]
  /\ UNCHANGED <<place, remainingJobs, remainingTasks, status, stop, loop, task, call, act>>

\* while (!token.stop_requested()).
LoopTest(w) ==
  /\ pc[w] = "test"
  /\ pc' = [pc EXCEPT ![w] = IF stop[w] THEN "exit" ELSE "exchange"]
  /\ UNCHANGED <<place, remainingJobs, remainingTasks, status, stop, loop, task, call, act>>

\* _status.store(-1); the thread ends.
Exit(w) ==
  /\ pc[w] = "exit"
  /\ status' = [status EXCEPT ![w] = -1]
  /\ pc' = [pc EXCEPT ![w] = "gone"]
  /\ UNCHANGED <<place, remainingJobs, remainingTasks, stop, loop, task, call, act>>

-----------------------------------------------------------------------------
(* The clients.                                                            *)

\* Between two calls, and the scheduler not being destroyed.
Free(c) ==
  /\ act[c] = "free"
  /\ Returned(c)
  /\ act[Owner] \in {"free", "start", "wait", "tick"}

\* enqueue(), or schedule() awaited on this thread.
Submit(c) ==
  /\ Free(c)
  /\ \E j \in Jobs, dest \in Dests : place[j] = "fresh" /\ Enqueue(c, j, dest)
  /\ UNCHANGED <<status, stop, pc, loop, task, act>>

\* emplace(): neither counted nor signaled until start().
Emplace(c) ==
  /\ Free(c)
  /\ \E j \in Jobs : place[j] = "fresh" /\ place' = [place EXCEPT ![j] = "staged"]
  /\ UNCHANGED <<remainingJobs, remainingTasks, status, stop, pc, loop, task, call, act>>

Become(c, what) ==
  /\ act' = [act EXCEPT ![c] = what]
  /\ UNCHANGED <<place, remainingJobs, remainingTasks, status, stop, pc, loop, task, call>>

Start(c) == Free(c) /\ Become(c, "start")
Wait(c)  == Free(c) /\ Become(c, "wait")

\* start(): each job of _tasks in turn.
StartNext(c) ==
  /\ act[c] = "start"
  /\ \E j \in Jobs : place[j] = "staged" /\ Enqueue(c, j, "global")
  /\ UNCHANGED <<status, stop, pc, loop, task, act>>

StartEnd(c) ==
  /\ act[c] = "start"
  /\ Returned(c)
  /\ \A j \in Jobs : place[j] # "staged"
  /\ Become(c, "free")

\* The destructor: nobody else is using the scheduler any more.
Destroy ==
  /\ Free(Owner)
  /\ \A c \in Clients \ {Owner} : act[c] = "free" /\ Returned(c)
  /\ Become(Owner, "dwait")

\* wait() returns although one job is still counted.
Idle_OffByOne(c) ==
  /\ act[c] \in {"wait", "dwait"}
  /\ remainingJobs <= 1
  /\ Become(c, IF act[c] = "wait" THEN "free" ELSE "stop")

\* wait(): idle() holds.  The destructor goes on to terminate().
Idle(c) ==
  /\ act[c] \in {"wait", "dwait"}
  /\ remainingJobs = 0
  /\ Become(c, IF act[c] = "wait" THEN "free" ELSE "stop")

\* wait(): idle() does not hold, so tick().
NotIdle(c) ==
  /\ act[c] \in {"wait", "dwait"}
  /\ remainingJobs # 0
  /\ Become(c, IF act[c] = "wait" THEN "tick" ELSE "dtick")

\* notifyAll: the compare-and-swap wakes a worker that sleeps and spares the others.
\* (Here it may try them in any order, and more than once.)
Tick(c) ==
  /\ act[c] \in {"tick", "dtick"}
  /\ \E w \in Workers : status[w] = 0 /\ status' = [status EXCEPT ![w] = 2]
  /\ UNCHANGED <<place, remainingJobs, remainingTasks, stop, pc, loop, task, call, act>>

\* Back to the loop's condition.
Ticked(c) ==
  /\ act[c] \in {"tick", "dtick"}
  /\ Become(c, IF act[c] = "tick" THEN "wait" ELSE "dwait")

SignalAll(c, ws) ==
  call' = [call EXCEPT ![c] = SignalCall(NoJob, ws)]

\* request_stop(workerId) by a client.
StopOne(c) ==
  /\ Free(c)
  /\ \E w \in Stoppable :
       /\ ~stop[w]
       /\ stop' = [stop EXCEPT ![w] = TRUE]
       /\ SignalAll(c, {w})
  /\ UNCHANGED <<place, remainingJobs, remainingTasks, status, pc, loop, task, act>>

\* terminate(): stop is requested of the workers one after the other...
RequestStop ==
  /\ act[Owner] = "stop"
  /\ \E w \in Workers : ~stop[w] /\ stop' = [stop EXCEPT ![w] = TRUE]
  /\ UNCHANGED <<place, remainingJobs, remainingTasks, status, pc, loop, task, call, act>>

AllStopped_NoSignal ==
  /\ act[Owner] = "stop"
  /\ \A w \in Workers : stop[w]
  /\ Become(Owner, "join")

\* ... and then all are signaled.
AllStopped ==
  /\ act[Owner] = "stop"
  /\ \A w \in Workers : stop[w]
  /\ SignalAll(Owner, Workers)
  /\ act' = [act EXCEPT ![Owner] = "join"]
  /\ UNCHANGED <<place, remainingJobs, remainingTasks, status, stop, pc, loop, task>>

\* _workers.clear() joins the threads.
Join ==
  /\ act[Owner] = "join"
  /\ Returned(Owner)
  /\ \A w \in Workers : pc[w] = "gone"
  /\ Become(Owner, "gone")

\* The scheduler is gone; nothing is left to happen.
Destroyed == act[Owner] = "gone" /\ UNCHANGED vars

-----------------------------------------------------------------------------
Thread(t) == Push(t) \/ Signal(t)

Worker(w) ==
  \/ Wake(w) \/ CheckStop(w) \/ Take(w) \/ Drained(w)
  \/ FinishOnce(w) \/ UncountPersistent(w) \/ FinishPersistent(w) \/ Rethrow(w)
  \/ FallAsleep(w) \/ Unpark(w) \/ LoopTest(w) \/ Exit(w)

Calling(c) == StartNext(c) \/ StartEnd(c) \/ Idle(c) \/ NotIdle(c)

Client(c) ==
  \/ Submit(c) \/ Emplace(c) \/ Start(c) \/ Wait(c) \/ StopOne(c)
  \/ Calling(c) \/ Tick(c) \/ Ticked(c)

Next ==
  \/ \E t \in Threads : Thread(t)
  \/ \E w \in Workers : Worker(w) \/ Spawn(w)
  \/ \E c \in Clients : Client(c)
  \/ Destroy \/ RequestStop \/ AllStopped \/ Join \/ Destroyed

Spec == Init /\ [][Next]_vars

\* Threads are scheduled, jobs return, and a persistent task is done after finitely many
\* resumptions.  Nobody has to submit, to wait or to destroy, and no client has to stop a
\* single worker.
Fairness ==
  /\ \A t \in Threads : WF_vars(Thread(t))
  /\ \A w \in Workers : WF_vars(Worker(w)) /\ SF_vars(FinishPersistent(w))
  /\ \A c \in Clients : WF_vars(Calling(c)) /\ WF_vars(Ticked(c))
  /\ WF_vars(RequestStop) /\ WF_vars(AllStopped) /\ WF_vars(Join)

FairSpec == Spec /\ Fairness

-----------------------------------------------------------------------------
(* What the scheduler owes its users.                                      *)

\* Handed over and not finished: held by enqueue_, queued or running.
InFlight(j) == place[j] \in Dests \cup {"held", "run"}

\* The persistent task has been uncounted and may yet be enqueued again.
Uncounted(j) == \E w \in Workers : task[w] = j /\ pc[w] = "again"

OwedJobs  == {j \in Once : InFlight(j)}
OwedTasks == {j \in Persistent : InFlight(j) /\ ~Uncounted(j)}

\* _remainingJobs and _remainingTasks (Executor.hpp:245-246) count exactly the jobs that
\* are held, queued or running, whoever enqueues or finishes what meanwhile.  wait() and
\* the destructor rely on nothing else.
JobAccounting ==
  /\ remainingJobs = Cardinality(OwedJobs)
  /\ remainingTasks = Cardinality(OwedTasks)

\* A job's pusher has yet to store 2 to the worker's status.
SignalDue(j, w) ==
  \E t \in Threads : call[t].at = "signal" /\ call[t].job = j /\ w \in call[t].left

\* No lost wake-up: a worker that sleeps, or is about to, on a status that holds no
\* signal has been overtaken by every job in a queue it drains: the thread that pushed
\* the job is still about to signal this worker (Executor.cpp:72-77, enqueue_ and
\* signalOne in Executor.hpp).
NoLostWakeup ==
  \A w \in Workers, j \in Jobs :
    /\ pc[w] \in {"sleep", "parked"}
    /\ status[w] # 2
    /\ place[j] \in {w, "global"}
    => SignalDue(j, w)

poolState ==
  [j \in Jobs |-> IF place[j] \in {"fresh", "staged"} THEN "new"
                  ELSE IF InFlight(j) THEN "accepted" ELSE "done"]

poolWaiting == {c \in Clients : act[c] \in {"wait", "tick", "dwait", "dtick"}}
poolOpen    == act[Owner] \notin {"stop", "join", "gone"}

Pool == INSTANCE JobPool WITH
  state <- poolState, waiting <- poolWaiting, open <- poolOpen

\* The scheduler implements the abstract pool: each job runs once, no wait() returns
\* while a finite job is owed, and once the destructor's wait() has returned only a
\* persistent task can bring new jobs (Executor.hpp:131-141, Executor.cpp:94-101).
ImplementsPool == Pool!Spec

\* Every finite job that reaches a queue is finished, unless the scheduler is destroyed
\* first: no job is stranded behind a sleeping worker, even if nobody ticks.
JobsRun ==
  \A j \in Once :
    (place[j] \in Dests) ~> (place[j] = "done" \/ act[Owner] \in {"stop", "join", "gone"})

\* wait() returns (Executor.hpp:131-141).
WaitReturns == \A c \in Clients : (act[c] = "wait") ~> (act[c] = "free")

\* ~Scheduler() returns: every worker, asleep or draining, sees the stop request
\* (Executor.cpp:94-101).
DestructorReturns == (act[Owner] = "dwait") ~> (act[Owner] = "gone")
=============================================================================
