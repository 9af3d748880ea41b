------------------------------ MODULE JobPool ------------------------------
(***************************************************************************)
(* What zs::Scheduler (zs/world/async/Executor.hpp) promises the code that *)
(* uses it, without queues, worker threads, wake-ups or counters.          *)
(*                                                                         *)
(* A job handed over runs at most once.  A wait() that returns has seen    *)
(* every finite job handed over so far finished ("remaining jobs that      *)
(* could be finished in finite times", Executor.hpp:245), and the          *)
(* destructor stops the workers only after such a wait().  A persistent    *)
(* task is not waited for; only a pool that was given one may still take   *)
(* jobs after its last wait() has returned.                                *)
(***************************************************************************)
EXTENDS Naturals

CONSTANTS Jobs,        \* everything that is ever handed to the pool
          Persistent,  \* the jobs that nobody waits for
          Clients      \* the threads that hand jobs over and wait

VARIABLES state,    \* what the pool owes each job
          waiting,  \* the clients inside a wait()
          open      \* the destructor's own wait() has not returned yet

poolVars == <<state, waiting, open>>

PoolTypeOK ==
  /\ state \in [Jobs -> {"new", "accepted", "done"}]
  /\ waiting \in SUBSET Clients
  /\ open \in BOOLEAN

Init ==
  /\ state = [j \in Jobs |-> "new"]
  /\ waiting = {}
  /\ open = TRUE

\* No finite job is owed.
Quiescent == \A j \in Jobs \ Persistent : state[j] # "accepted"

\* Some persistent task was handed over.
HasPersistent == \E p \in Jobs \cap Persistent : state[p] # "new"

Accept(j) ==
  /\ state[j] = "new"
  /\ open \/ HasPersistent
  /\ state' = [state EXCEPT ![j] = "accepted"]
  /\ UNCHANGED <<waiting, open>>

Finish(j) ==
  /\ state[j] = "accepted"
  /\ state' = [state EXCEPT ![j] = "done"]
  /\ UNCHANGED <<waiting, open>>

BeginWait(c) ==
  /\ c \notin waiting
  /\ open
  /\ waiting' = waiting \cup {c}
  /\ UNCHANGED <<state, open>>

\* Returning from wait(); the destructor's wait() also closes the pool.
EndWait(c) ==
  /\ c \in waiting
  /\ Quiescent
  /\ waiting' = waiting \ {c}
  /\ open' \in {open, FALSE}
  /\ UNCHANGED state

Next ==
  \/ \E j \in Jobs : Accept(j) \/ Finish(j)
  \/ \E c \in Clients : BeginWait(c) \/ EndWait(c)

Spec == Init /\ [][Next]_poolVars
=============================================================================
