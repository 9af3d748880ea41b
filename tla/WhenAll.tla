------------------------------ MODULE WhenAll ------------------------------
(***************************************************************************)
(* sync_wait(when_all_ready(tasks)): how a thread that is no coroutine     *)
(* waits for coroutines that finish on the threads of a scheduler          *)
(* (zs/world/async/Awaitables.hpp), down to the futex of                   *)
(* lightweight_manual_reset_event (zs/world/async/Event.cpp).              *)
(*                                                                         *)
(* The root coroutine (sync_wait_task) starts the when_all_tasks one after *)
(* the other on its own thread; each runs there until it suspends or is    *)
(* done, and goes on elsewhere.  Whoever decrements the counter last, a    *)
(* finishing task or the root itself, lets the root go on.                 *)
(***************************************************************************)
EXTENDS Integers, FiniteSets

CONSTANTS N,     \* how many tasks
          Main,  \* the thread in sync_wait()
          Pool   \* the threads that suspended tasks go on on

ASSUME WhenAllAssumption ==
  /\ N \in Nat
  /\ Main \notin Pool

Tasks   == 1 .. N
Threads == Pool \cup {Main}

VARIABLES
  task,      \* each when_all_task
  count,     \* when_all_counter::_count
  awaiting,  \* _awaitingCoroutine is set
  resumed,   \* how often the root coroutine went on
  event,     \* m_value of the event
  pc,        \* where each thread is
  runs       \* the task each thread runs, or 0

vars == <<task, count, awaiting, resumed, event, pc, runs>>

TypeOK ==
  /\ task \in [Tasks -> {"new", "running", "suspended", "done"}]
  /\ count \in -1 .. N
  /\ awaiting \in BOOLEAN
  /\ resumed \in Nat
  /\ event \in {0, 1}
  /\ pc \in [Threads -> {"idle", "start", "run", "notify", "await", "resume", "set", "wake",
                         "load", "futex", "asleep", "returned"}]
  /\ runs \in [Threads -> Tasks \cup {0}]

Init ==
  /\ task = [i \in Tasks |-> "new"]
  /\ count = N
  /\ awaiting = FALSE
  /\ resumed = 0
  /\ event = 0
  /\ pc = [t \in Threads |-> IF t = Main THEN "start" ELSE "idle"]
  /\ runs = [t \in Threads |-> 0]

\* Where a thread goes on when the coroutines on its stack have returned to it.
Base(t) == IF t = Main THEN "load" ELSE "idle"

-----------------------------------------------------------------------------
\* try_await starts the next task.
StartTask ==
  /\ pc[Main] = "start"
  /\ \E i \in Tasks :
       /\ task[i] = "new" /\ \A k \in 1 .. i - 1 : task[k] # "new"
       /\ task' = [task EXCEPT ![i] = "running"]
       /\ runs' = [runs EXCEPT ![Main] = i]
  /\ pc' = [pc EXCEPT ![Main] = "run"]
  /\ UNCHANGED <<count, awaiting, resumed, event>>

\* All are started: the counter learns who awaits it.
Register ==
  /\ pc[Main] = "start"
  /\ \A i \in Tasks : task[i] # "new"
  /\ awaiting' = TRUE
  /\ pc' = [pc EXCEPT ![Main] = "await"]
  /\ UNCHANGED <<task, count, resumed, event, runs>>

\* A thread of the pool goes on with a suspended task.
Continue(t) ==
  /\ pc[t] = "idle"
  /\ \E i \in Tasks :
       /\ task[i] = "suspended"
       /\ task' = [task EXCEPT ![i] = "running"]
       /\ runs' = [runs EXCEPT ![t] = i]
  /\ pc' = [pc EXCEPT ![t] = "run"]
  /\ UNCHANGED <<count, awaiting, resumed, event>>

\* After a task has left the thread.
Back(t) == IF t = Main THEN "start" ELSE "idle"

\* The task awaits something that another thread will bring.
Suspend(t) ==
  /\ pc[t] = "run"
  /\ task' = [task EXCEPT ![runs[t]] = "suspended"]
  /\ runs' = [runs EXCEPT ![t] = 0]
  /\ pc' = [pc EXCEPT ![t] = Back(t)]
  /\ UNCHANGED <<count, awaiting, resumed, event>>

\* The task returns, or throws, and is at its final suspension point.
Complete(t) ==
  /\ pc[t] = "run"
  /\ task' = [task EXCEPT ![runs[t]] = "done"]
  /\ pc' = [pc EXCEPT ![t] = "notify"]
  /\ UNCHANGED <<count, awaiting, resumed, event, runs>>

\* A task reports from co_yield and from its final suspension point.
Notify_Double(t) ==
  /\ pc[t] = "notify"
  /\ count' = count - 2
  /\ runs' = [runs EXCEPT ![t] = 0]
  /\ pc' = [pc EXCEPT ![t] = IF count \in {0, 1} THEN "resume" ELSE Back(t)]
  /\ UNCHANGED <<task, awaiting, resumed, event>>

\* Load, then store: the decrement of another thread may be lost.
Notify_Forgets(t) ==
  /\ pc[t] = "notify"
  /\ count' = IF \E u \in Threads \ {t} : pc[u] = "notify" THEN count ELSE count - 1
  /\ runs' = [runs EXCEPT ![t] = 0]
  /\ pc' = [pc EXCEPT ![t] = IF count = 0 THEN "resume" ELSE Back(t)]
  /\ UNCHANGED <<task, awaiting, resumed, event>>

\* notify_awaitable_completed: fetch_sub, and the last one resumes the root.
Notify(t) ==
  /\ pc[t] = "notify"
  /\ count' = count - 1
  /\ runs' = [runs EXCEPT ![t] = 0]
  /\ pc' = [pc EXCEPT ![t] = IF count = 0 THEN "resume" ELSE Back(t)]
  /\ UNCHANGED <<task, awaiting, resumed, event>>

\* try_await always suspends.
TryAwait_AlwaysSuspends ==
  /\ pc[Main] = "await"
  /\ count' = count - 1
  /\ pc' = [pc EXCEPT ![Main] = "load"]
  /\ UNCHANGED <<task, awaiting, resumed, event, runs>>

\* fetch_sub's result is taken for the new count.
TryAwait_AtLeastZero ==
  /\ pc[Main] = "await"
  /\ count' = count - 1
  /\ IF count > 1
       THEN pc' = [pc EXCEPT ![Main] = "load"] /\ UNCHANGED resumed
       ELSE pc' = [pc EXCEPT ![Main] = "set"] /\ resumed' = resumed + 1
  /\ UNCHANGED <<task, awaiting, event, runs>>

\* try_await's own fetch_sub: the root stays suspended, or goes on on this thread.
TryAwait ==
  /\ pc[Main] = "await"
  /\ count' = count - 1
  /\ IF count > 0
       THEN pc' = [pc EXCEPT ![Main] = "load"] /\ UNCHANGED resumed
       ELSE pc' = [pc EXCEPT ![Main] = "set"] /\ resumed' = resumed + 1
  /\ UNCHANGED <<task, awaiting, event, runs>>

\* _awaitingCoroutine.resume(): the root runs to its end on this thread.
Resume(t) ==
  /\ pc[t] = "resume"
  /\ awaiting
  /\ resumed' = resumed + 1
  /\ pc' = [pc EXCEPT ![t] = "set"]
  /\ UNCHANGED <<task, count, awaiting, event, runs>>

-----------------------------------------------------------------------------
(* The event: set() at the root's final suspension point, wait() in        *)
(* sync_wait().                                                            *)

\* m_value.store(1).
Set(t) ==
  /\ pc[t] = "set"
  /\ event' = 1
  /\ pc' = [pc EXCEPT ![t] = "wake"]
  /\ UNCHANGED <<task, count, awaiting, resumed, runs>>

\* FUTEX_WAKE, which is also the last that this thread does with the event.
WakeUp(t) ==
  /\ pc[t] = "wake"
  /\ pc' = [u \in Threads |-> IF u = t THEN Base(t)
                              ELSE IF pc[u] = "asleep" THEN "load" ELSE pc[u]]
  /\ UNCHANGED <<task, count, awaiting, resumed, event, runs>>

\* wait() loads m_value; sync_wait() returns the result.
Load ==
  /\ pc[Main] = "load"
  /\ pc' = [pc EXCEPT ![Main] = IF event = 1 THEN "returned" ELSE "futex"]
  /\ UNCHANGED <<task, count, awaiting, resumed, event, runs>>

\* The thread goes to sleep on the value it has loaded earlier.
Futex_NoCompare ==
  /\ pc[Main] = "futex"
  /\ pc' = [pc EXCEPT ![Main] = "asleep"]
  /\ UNCHANGED <<task, count, awaiting, resumed, event, runs>>

\* FUTEX_WAIT compares and sleeps in one step; EAGAIN ends wait().
Futex ==
  /\ pc[Main] = "futex"
  /\ pc' = [pc EXCEPT ![Main] = IF event = 0 THEN "asleep" ELSE "returned"]
  /\ UNCHANGED <<task, count, awaiting, resumed, event, runs>>

\* A spurious wake-up, or a signal.
Spurious ==
  /\ pc[Main] = "asleep"
  /\ pc' = [pc EXCEPT ![Main] = "load"]
  /\ UNCHANGED <<task, count, awaiting, resumed, event, runs>>

\* sync_wait() has returned.
Returned == pc[Main] = "returned" /\ (\A t \in Pool : pc[t] = "idle") /\ UNCHANGED vars

-----------------------------------------------------------------------------
MainStep == StartTask \/ Register \/ TryAwait \/ Load \/ Futex
Step(t)  == Notify(t) \/ Resume(t) \/ Set(t) \/ WakeUp(t)
Run(t)   == Suspend(t) \/ Complete(t)

Next ==
  \/ MainStep \/ Spurious \/ Returned
  \/ \E t \in Threads : Step(t) \/ Run(t)
  \/ \E t \in Pool : Continue(t)

Spec == Init /\ [][Next]_vars

\* Threads are scheduled, and a task is done after finitely many suspensions.  Nothing
\* wakes a sleeping thread but the futex.
Fairness ==
  /\ WF_vars(MainStep)
  /\ \A t \in Threads : WF_vars(Step(t)) /\ WF_vars(Run(t)) /\ SF_vars(Complete(t))
  /\ \A t \in Pool : WF_vars(Continue(t))

FairSpec == Spec /\ Fairness

-----------------------------------------------------------------------------
\* Tasks whose completion has reached the counter.
Notified == {i \in Tasks : task[i] = "done" /\ \A t \in Threads : pc[t] = "notify" => runs[t] # i}

\* _count is the number of tasks that have not reported yet, less one once the root has
\* registered: exactly one fetch_sub of the N + 1 finds it 0, whatever their order
\* (Awaitables.hpp:383-392).
CountExact ==
  count = N - Cardinality(Notified) - IF awaiting /\ pc[Main] # "await" THEN 1 ELSE 0

\* The threads that are about to resume the root.
Resumers == {t \in Threads : pc[t] = "resume"}

\* The root goes on once, by one thread, and only when it is registered and every task is
\* done; sync_wait() returns only after that.
RootResumesOnce ==
  /\ resumed + Cardinality(Resumers) <= 1
  /\ resumed > 0 \/ Resumers # {} => awaiting /\ \A i \in Tasks : task[i] = "done"
  /\ pc[Main] = "returned" => resumed = 1

\* The thread in sync_wait() never sleeps on a set event unless the thread that has set it
\* is about to wake it (Event.cpp:76-118).
NoSleepOnSetEvent ==
  pc[Main] = "asleep" /\ event = 1 => \E t \in Threads : pc[t] = "wake"

\* sync_wait() returns (Awaitables.hpp:363-370).
SyncWaitReturns == <>(pc[Main] = "returned")
=============================================================================
