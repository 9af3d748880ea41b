---------------------------- MODULE WhenAllProofs ----------------------------
(***************************************************************************)
(* Proofs about module WhenAll, for every number of tasks and every set of *)
(* threads: the counter is exact, the root coroutine goes on once and not  *)
(* too early, and nobody sleeps on a set event.                            *)
(***************************************************************************)
EXTENDS WhenAll, FiniteSetTheorems, TLAPS

(* The inductive invariant, part by part.                                  *)

\* A thread that runs a task, or reports its end, has the task for itself.
ThreadInv ==
  /\ \A t \in Threads : pc[t] \in {"run", "notify"} <=> runs[t] # 0
  /\ \A t, u \in Threads : runs[t] = runs[u] /\ runs[t] # 0 => t = u
  /\ \A t \in Threads : pc[t] = "run" => task[runs[t]] = "running"
  /\ \A t \in Threads : pc[t] = "notify" => task[runs[t]] = "done"

\* The root registers when its thread is through with starting tasks.
MainInv ==
  /\ awaiting <=> pc[Main] \notin {"start", "run", "notify"}
  /\ pc[Main] \notin {"idle", "resume"}
  /\ \A t \in Pool : pc[t] \in {"idle", "run", "notify", "resume", "set", "wake"}

\* The root goes on when the counter falls below zero, and only then.
RootInv ==
  /\ count # -1 => resumed = 0 /\ Resumers = {}
  /\ count = -1 => \/ resumed = 1 /\ Resumers = {}
                   \/ resumed = 0 /\ \E t \in Threads : Resumers = {t}

\* The event is set by the root.
EventInv ==
  /\ event = 1 => resumed = 1
  /\ \A t \in Threads : pc[t] \in {"set", "wake"} => resumed = 1
  /\ pc[Main] = "returned" => event = 1

IInv == TypeOK /\ ThreadInv /\ MainInv /\ CountExact /\ RootInv /\ EventInv /\ NoSleepOnSetEvent

-----------------------------------------------------------------------------
(* What the counter says.                                                  *)

LEMMA NotifiedFinite ==
  ASSUME WhenAllAssumption
  PROVE  /\ IsFiniteSet(Notified) /\ Cardinality(Notified) \in 0 .. N
         /\ Cardinality(Notified) = N => Notified = Tasks
  <1>1. IsFiniteSet(Tasks) /\ Cardinality(Tasks) = N
    BY FS_Interval DEF Tasks
  <1>2. Notified \in SUBSET Tasks
    BY DEF Notified
  <1>3. /\ IsFiniteSet(Notified)
        /\ Cardinality(Notified) <= N
        /\ N = Cardinality(Notified) => Tasks = Notified
    BY <1>1, <1>2, FS_Subset
  <1>4. Cardinality(Notified) \in Nat
    BY <1>3, FS_CardinalityType
  <1> QED  BY <1>3, <1>4

\* Below zero the root is registered and every task has reported.
LEMMA BelowZero ==
  ASSUME WhenAllAssumption, IInv, count = -1
  PROVE  awaiting /\ pc[Main] # "await" /\ Notified = Tasks
  BY NotifiedFinite DEF IInv, CountExact

\* Before its last decrement a task, or the root, is missing from the count.
LEMMA ReporterCounts ==
  ASSUME WhenAllAssumption, IInv, NEW t \in Threads, pc[t] = "notify"
  PROVE  /\ runs[t] \in Tasks \ Notified
         /\ count >= 0
         /\ t = Main => count >= 1
         /\ IsFiniteSet(Notified \cup {runs[t]})
         /\ Cardinality(Notified \cup {runs[t]}) = Cardinality(Notified) + 1
  <1>1. runs[t] \in Tasks \ Notified
    BY DEF IInv, TypeOK, ThreadInv, Notified
  <1>2. Cardinality(Notified) \in 0 .. N - 1
    BY <1>1, NotifiedFinite
  <1>3. /\ IsFiniteSet(Notified \cup {runs[t]})
        /\ Cardinality(Notified \cup {runs[t]}) = Cardinality(Notified) + 1
    BY <1>1, NotifiedFinite, FS_AddElement
  <1>4. t = Main => ~awaiting
    BY DEF IInv, MainInv
  <1> QED  BY <1>1, <1>2, <1>3, <1>4 DEF IInv, CountExact

\* So is the root before its own.
LEMMA RootCounts ==
  ASSUME WhenAllAssumption, IInv, pc[Main] = "await"
  PROVE  count >= 0
  BY NotifiedFinite DEF IInv, CountExact

\* A step that keeps who has reported and whether the root is counted keeps the count.
LEMMA CountKept ==
  ASSUME CountExact, UNCHANGED count, Notified' = Notified,
         (awaiting /\ pc[Main] # "await")' <=> (awaiting /\ pc[Main] # "await")
  PROVE  CountExact'
  BY DEF CountExact

-----------------------------------------------------------------------------
(* The invariant is inductive.                                             *)

LEMMA InvInit == WhenAllAssumption /\ Init => IInv
  <1> SUFFICES ASSUME WhenAllAssumption, Init  PROVE IInv
    OBVIOUS
  <1>1. TypeOK
    <2>1. count \in -1 .. N /\ resumed \in Nat /\ event \in {0, 1}
      BY DEF Init
    <2>2. task \in [Tasks -> {"new", "running", "suspended", "done"}]
          /\ awaiting \in BOOLEAN /\ runs \in [Threads -> Tasks \cup {0}]
      BY DEF Init
    <2> QED  BY <2>2 DEF Init, TypeOK
  <1>2. ThreadInv /\ MainInv
    BY DEF Init, ThreadInv, MainInv, Threads
  <1>3. Notified = {} /\ Resumers = {}
    BY DEF Init, Notified, Resumers
  <1>4. CountExact
    BY <1>3, FS_EmptySet DEF Init, CountExact
  <1>5. RootInv
    BY <1>3 DEF Init, RootInv
  <1>6. EventInv /\ NoSleepOnSetEvent
    BY DEF Init, EventInv, NoSleepOnSetEvent, Threads
  <1> QED  BY <1>1, <1>2, <1>4, <1>5, <1>6 DEF IInv

\* A step that resumes nobody and counts nothing keeps what goes with the count.
LEMMA RootKept ==
  ASSUME RootInv, UNCHANGED <<count, resumed>>, Resumers' = Resumers
  PROVE  RootInv'
  BY DEF RootInv

LEMMA InvNext == WhenAllAssumption /\ IInv /\ [Next]_vars => IInv'
  <1> SUFFICES ASSUME WhenAllAssumption, IInv, [Next]_vars  PROVE IInv'
    OBVIOUS
  <1> USE DEF IInv
  <1>1. CASE StartTask
    <2>1. TypeOK'
      BY <1>1 DEF StartTask, TypeOK
    <2>2. ThreadInv' /\ MainInv'
      BY <1>1 DEF StartTask, TypeOK, ThreadInv, MainInv, Tasks
    <2>3. Notified' = Notified /\ Resumers' = Resumers
      BY <1>1 DEF StartTask, Notified, Resumers
    <2>4. CountExact' /\ RootInv'
      BY <1>1, <2>3, CountKept, RootKept DEF StartTask
    <2>5. EventInv' /\ NoSleepOnSetEvent'
      BY <1>1 DEF StartTask, EventInv, NoSleepOnSetEvent
    <2> QED  BY <2>1, <2>2, <2>4, <2>5
  <1>2. CASE Register
    <2>1. TypeOK'
      BY <1>2 DEF Register, TypeOK
    <2>2. ThreadInv' /\ MainInv'
      BY <1>2 DEF Register, TypeOK, ThreadInv, MainInv, Threads
    <2>3. Notified' = Notified /\ Resumers' = Resumers
      BY <1>2 DEF Register, Notified, Resumers
    <2>4. CountExact' /\ RootInv'
      BY <1>2, <2>3, CountKept, RootKept DEF Register, MainInv, Threads, TypeOK
    <2>5. EventInv' /\ NoSleepOnSetEvent'
      BY <1>2 DEF Register, EventInv, NoSleepOnSetEvent
    <2> QED  BY <2>1, <2>2, <2>4, <2>5
  <1>3. ASSUME NEW t \in Pool, Continue(t)  PROVE IInv'
    <2>1. TypeOK'
      BY <1>3 DEF Continue, TypeOK
    <2>2. ThreadInv' /\ MainInv'
      BY <1>3 DEF Continue, TypeOK, ThreadInv, MainInv, Tasks
    <2>3. Notified' = Notified /\ Resumers' = Resumers
      BY <1>3 DEF Continue, Notified, Resumers
    <2>4. CountExact' /\ RootInv'
      BY <1>3, <2>3, CountKept, RootKept DEF Continue
    <2>5. EventInv' /\ NoSleepOnSetEvent'
      BY <1>3 DEF Continue, EventInv, NoSleepOnSetEvent
    <2> QED  BY <2>1, <2>2, <2>4, <2>5
  <1>4. ASSUME NEW t \in Threads, Suspend(t)  PROVE IInv'
    <2>1. TypeOK'
      BY <1>4 DEF Suspend, Back, TypeOK
    <2>2. ThreadInv' /\ MainInv'
      BY <1>4 DEF Suspend, Back, TypeOK, ThreadInv, MainInv
    <2>3. Notified' = Notified /\ Resumers' = Resumers
      BY <1>4 DEF Suspend, Back, ThreadInv, Notified, Resumers
    <2>4. CountExact' /\ RootInv'
      BY <1>4, <2>3, CountKept, RootKept DEF Suspend, MainInv
    <2>5. EventInv' /\ NoSleepOnSetEvent'
      BY <1>4 DEF Suspend, Back, EventInv, NoSleepOnSetEvent
    <2> QED  BY <2>1, <2>2, <2>4, <2>5
  <1>5. ASSUME NEW t \in Threads, Complete(t)  PROVE IInv'
    <2>1. TypeOK'
      BY <1>5 DEF Complete, TypeOK
    <2>2. ThreadInv' /\ MainInv'
      BY <1>5 DEF Complete, TypeOK, ThreadInv, MainInv
    <2>3. Notified' = Notified /\ Resumers' = Resumers
      BY <1>5 DEF Complete, TypeOK, ThreadInv, Notified, Resumers
    <2>4. CountExact' /\ RootInv'
      BY <1>5, <2>3, CountKept, RootKept DEF Complete
    <2>5. EventInv' /\ NoSleepOnSetEvent'
      BY <1>5 DEF Complete, EventInv, NoSleepOnSetEvent
    <2> QED  BY <2>1, <2>2, <2>4, <2>5
  <1>6. ASSUME NEW t \in Threads, Notify(t)  PROVE IInv'
    <2>1. /\ runs[t] \in Tasks \ Notified
          /\ count >= 0
          /\ t = Main => count >= 1
          /\ Cardinality(Notified \cup {runs[t]}) = Cardinality(Notified) + 1
      BY <1>6, ReporterCounts DEF Notify
    <2>2. TypeOK'
      <3>1. count' \in -1 .. N
        BY <1>6, <2>1 DEF Notify, TypeOK
      <3> QED  BY <1>6, <3>1 DEF Notify, Back, TypeOK
    <2>3. ThreadInv' /\ MainInv'
      BY <1>6, <2>1 DEF Notify, Back, TypeOK, ThreadInv, MainInv
    <2>4. Notified' = Notified \cup {runs[t]}
      BY <1>6 DEF Notify, TypeOK, ThreadInv, Notified, Tasks
    <2>5. (awaiting /\ pc[Main] # "await")' <=> (awaiting /\ pc[Main] # "await")
      BY <1>6 DEF Notify, MainInv
    <2>6. CountExact'
      BY <1>6, <2>1, <2>4, <2>5, NotifiedFinite DEF Notify, CountExact
    <2>7. resumed = 0 /\ Resumers = {}
      BY <2>1 DEF RootInv
    <2>8. RootInv'
      <3>1. CASE count = 0
        <4>1. Resumers' = {t}
          BY <1>6, <2>7, <3>1 DEF Notify, TypeOK, Resumers
        <4> QED  BY <1>6, <3>1, <4>1 DEF Notify, RootInv
      <3>2. CASE count # 0
        <4>1. Resumers' = {}
          BY <1>6, <2>7, <3>2 DEF Notify, Back, Resumers
        <4> QED  BY <1>6, <2>7, <3>2, <4>1 DEF Notify, RootInv
      <3> QED  BY <3>1, <3>2
    <2>9. EventInv' /\ NoSleepOnSetEvent'
      BY <1>6 DEF Notify, Back, EventInv, NoSleepOnSetEvent
    <2> QED  BY <2>2, <2>3, <2>6, <2>8, <2>9
  <1>7. CASE TryAwait
    <2>1. count >= 0 /\ resumed = 0 /\ Resumers = {}
      BY <1>7, RootCounts DEF TryAwait, RootInv
    <2>2. TypeOK'
      <3>1. count' \in -1 .. N /\ resumed' \in Nat
        BY <1>7, <2>1 DEF TryAwait, TypeOK
      <3> QED  BY <1>7, <3>1 DEF TryAwait, TypeOK
    <2>3. ThreadInv' /\ MainInv'
      BY <1>7 DEF TryAwait, TypeOK, ThreadInv, MainInv, Threads
    <2>4. Notified' = Notified
      BY <1>7 DEF TryAwait, TypeOK, Notified
    <2>5. CountExact'
      <3>1. awaiting /\ pc'[Main] # "await"
        BY <1>7 DEF TryAwait, TypeOK, MainInv, Threads
      <3> QED
        BY <1>7, <2>4, <3>1, NotifiedFinite DEF TryAwait, CountExact
    <2>6. Resumers' = {}
      BY <1>7, <2>1 DEF TryAwait, TypeOK, Resumers
    <2>7. RootInv'
      BY <1>7, <2>1, <2>6 DEF TryAwait, RootInv, TypeOK
    <2>8. event = 0 /\ \A t \in Threads : pc[t] \notin {"set", "wake"}
      BY <2>1 DEF EventInv, TypeOK
    <2>9. EventInv' /\ NoSleepOnSetEvent'
      BY <1>7, <2>1 DEF TryAwait, TypeOK, EventInv, NoSleepOnSetEvent
    <2> QED  BY <2>2, <2>3, <2>5, <2>7, <2>9
  <1>8. ASSUME NEW t \in Threads, Resume(t)  PROVE IInv'
    <2>1. t \in Resumers
      BY <1>8 DEF Resume, Resumers
    <2>2. count = -1 /\ resumed = 0 /\ Resumers = {t}
      BY <2>1 DEF RootInv
    <2>3. TypeOK' /\ ThreadInv' /\ MainInv'
      BY <1>8 DEF Resume, TypeOK, ThreadInv, MainInv
    <2>4. Resumers' = {}
      BY <1>8, <2>2 DEF Resume, TypeOK, Resumers
    <2>5. Notified' = Notified
      BY <1>8 DEF Resume, Notified
    <2>6. CountExact'
      BY <1>8, <2>5, CountKept DEF Resume
    <2>7. RootInv'
      BY <1>8, <2>2, <2>4 DEF Resume, RootInv
    <2>8. EventInv' /\ NoSleepOnSetEvent'
      BY <1>8, <2>2 DEF Resume, EventInv, NoSleepOnSetEvent
    <2> QED  BY <2>3, <2>6, <2>7, <2>8
  <1>9. ASSUME NEW t \in Threads, Set(t)  PROVE IInv'
    <2>1. TypeOK'
      BY <1>9 DEF Set, TypeOK
    <2>2. ThreadInv' /\ MainInv'
      BY <1>9 DEF Set, ThreadInv, MainInv
    <2>3. Notified' = Notified /\ Resumers' = Resumers
      BY <1>9 DEF Set, Notified, Resumers
    <2>4. CountExact' /\ RootInv'
      BY <1>9, <2>3, CountKept, RootKept DEF Set
    <2>5. EventInv' /\ NoSleepOnSetEvent'
      BY <1>9 DEF Set, TypeOK, EventInv, NoSleepOnSetEvent
    <2> QED  BY <2>1, <2>2, <2>4, <2>5
  <1>10. ASSUME NEW t \in Threads, WakeUp(t)  PROVE IInv'
    <2>1. TypeOK'
      BY <1>10 DEF WakeUp, Base, TypeOK
    <2>2. ThreadInv' /\ MainInv'
      BY <1>10 DEF WakeUp, Base, ThreadInv, MainInv, Threads
    <2>3. Notified' = Notified /\ Resumers' = Resumers
      <3>1. \A u \in Threads : /\ pc'[u] = "notify" <=> pc[u] = "notify"
                               /\ pc'[u] = "resume" <=> pc[u] = "resume"
        BY <1>10 DEF WakeUp, Base
      <3> QED  BY <1>10, <3>1 DEF WakeUp, Notified, Resumers
    <2>4. CountExact' /\ RootInv'
      BY <1>10, <2>3, CountKept, RootKept DEF WakeUp, Base, Threads
    <2>5. EventInv' /\ NoSleepOnSetEvent'
      BY <1>10 DEF WakeUp, Base, EventInv, NoSleepOnSetEvent, Threads
    <2> QED  BY <2>1, <2>2, <2>4, <2>5
  <1>11. CASE Load
    <2>1. TypeOK'
      BY <1>11 DEF Load, TypeOK
    <2>2. ThreadInv' /\ MainInv'
      BY <1>11 DEF Load, ThreadInv, MainInv
    <2>3. Notified' = Notified /\ Resumers' = Resumers
      BY <1>11 DEF Load, Notified, Resumers
    <2>4. CountExact' /\ RootInv'
      BY <1>11, <2>3, CountKept, RootKept DEF Load
    <2>5. EventInv' /\ NoSleepOnSetEvent'
      BY <1>11 DEF Load, EventInv, NoSleepOnSetEvent
    <2> QED  BY <2>1, <2>2, <2>4, <2>5
  <1>12. CASE Futex
    <2>1. TypeOK'
      BY <1>12 DEF Futex, TypeOK
    <2>2. ThreadInv' /\ MainInv'
      BY <1>12 DEF Futex, ThreadInv, MainInv
    <2>3. Notified' = Notified /\ Resumers' = Resumers
      BY <1>12 DEF Futex, Notified, Resumers
    <2>4. CountExact' /\ RootInv'
      BY <1>12, <2>3, CountKept, RootKept DEF Futex
    <2>5. EventInv' /\ NoSleepOnSetEvent'
      BY <1>12 DEF Futex, TypeOK, EventInv, NoSleepOnSetEvent
    <2> QED  BY <2>1, <2>2, <2>4, <2>5
  <1>13. CASE Spurious
    <2>1. TypeOK'
      BY <1>13 DEF Spurious, TypeOK
    <2>2. ThreadInv' /\ MainInv'
      BY <1>13 DEF Spurious, ThreadInv, MainInv
    <2>3. Notified' = Notified /\ Resumers' = Resumers
      BY <1>13 DEF Spurious, Notified, Resumers
    <2>4. CountExact' /\ RootInv'
      BY <1>13, <2>3, CountKept, RootKept DEF Spurious
    <2>5. EventInv' /\ NoSleepOnSetEvent'
      BY <1>13 DEF Spurious, EventInv, NoSleepOnSetEvent
    <2> QED  BY <2>1, <2>2, <2>4, <2>5
  <1>14. CASE Returned \/ UNCHANGED vars
    <2>1. UNCHANGED <<task, count, awaiting, resumed, event, pc, runs>>
      BY <1>14 DEF Returned, vars
    <2>2. Notified' = Notified /\ Resumers' = Resumers
      BY <2>1 DEF Notified, Resumers
    <2>3. CountExact' /\ RootInv'
      BY <2>1, <2>2 DEF CountExact, RootInv
    <2> QED  BY <2>1, <2>3 DEF TypeOK, ThreadInv, MainInv, EventInv, NoSleepOnSetEvent
  <1> QED
    BY <1>1, <1>2, <1>3, <1>4, <1>5, <1>6, <1>7, <1>8, <1>9, <1>10, <1>11, <1>12, <1>13,
       <1>14 DEF Next, MainStep, Step, Run

LEMMA InvAlways == Spec => []IInv
  BY WhenAllAssumption, InvInit, InvNext, PTL DEF Spec
-----------------------------------------------------------------------------
(* The theorems.                                                           *)

\* The variables of when_all_ready and of its event keep their types: the counter is at
\* least -1 and no more than the number of tasks, for any N (Awaitables.hpp:383-392).
THEOREM WhenAllTypes == Spec => []TypeOK
  <1>1. IInv => TypeOK
    BY DEF IInv
  <1> QED  BY <1>1, InvAlways, PTL

\* Exactly one of the N + 1 decrements finds the counter at zero, for any N and any number
\* of threads (Awaitables.hpp:383-392).
THEOREM CounterExact == Spec => []CountExact
  <1>1. IInv => CountExact
    BY DEF IInv
  <1> QED  BY <1>1, InvAlways, PTL

\* The root goes on at most once, never before every task is done, and sync_wait() returns
\* only after it has.
THEOREM RootOnce == Spec => []RootResumesOnce
  <1>1. ASSUME IInv  PROVE RootResumesOnce
    <2>1. resumed \in Nat /\ count \in Int
      BY <1>1 DEF IInv, TypeOK
    <2>2. \/ resumed = 0 /\ Resumers = {}
          \/ count = -1 /\ resumed = 1 /\ Resumers = {}
          \/ count = -1 /\ resumed = 0 /\ \E t \in Threads : Resumers = {t}
      BY <1>1 DEF IInv, RootInv
    <2>3. resumed + Cardinality(Resumers) <= 1
      <3>1. Resumers = {} => Cardinality(Resumers) = 0
        BY FS_EmptySet
      <3>2. ASSUME NEW t \in Threads, Resumers = {t}  PROVE Cardinality(Resumers) = 1
        BY <3>2, FS_Singleton
      <3> QED  BY <2>2, <3>1, <3>2
    <2>4. count = -1 => awaiting /\ \A i \in Tasks : task[i] = "done"
      BY <1>1, BelowZero, WhenAllAssumption DEF Notified
    <2>5. resumed > 0 \/ Resumers # {} => awaiting /\ \A i \in Tasks : task[i] = "done"
      BY <2>2, <2>4
    <2>6. pc[Main] = "returned" => resumed = 1
      BY <1>1 DEF IInv, EventInv
    <2> QED  BY <2>3, <2>5, <2>6 DEF RootResumesOnce
  <1> QED  BY <1>1, InvAlways, PTL

\* The thread in sync_wait() does not sleep through set() (Event.cpp:75-112).
THEOREM SetIsSeen == Spec => []NoSleepOnSetEvent
  <1>1. IInv => NoSleepOnSetEvent
    BY DEF IInv
  <1> QED  BY <1>1, InvAlways, PTL
=============================================================================
