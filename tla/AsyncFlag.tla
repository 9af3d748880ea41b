----------------------------- MODULE AsyncFlag -----------------------------
(***************************************************************************)
(* zs::AsyncFlag (zs/world/async/Awaitables.hpp): a flag coroutines wait   *)
(* for.  One word holds nothing, the flag itself when it is set, or the    *)
(* head of the list of the awaiters, which live in the coroutines' frames. *)
(* await_suspend pushes itself with a compare-and-swap loop, set() takes   *)
(* the list and resumes it.                                                *)
(***************************************************************************)
EXTENDS Naturals, FiniteSets

CONSTANTS Awaiters,  \* the coroutines, each awaiting once on a thread of its own
          Flag,      \* the value "this" of the word: the flag is set
          Nil

VARIABLES
  word,  \* _awaitersOrEvent
  next,  \* _nextAwaiter of each awaiter
  prev,  \* await_suspend's prevVal
  pc,    \* where each awaiter is
  list   \* what set() has taken and not resumed yet; Flag while set() is not running

vars == <<word, next, prev, pc, list>>

Init ==
  /\ word = Nil
  /\ next = [a \in Awaiters |-> Nil]
  /\ prev = [a \in Awaiters |-> Nil]
  /\ pc = [a \in Awaiters |-> "ready"]
  /\ list = Flag

-----------------------------------------------------------------------------
\* await_ready.
Ready(a) ==
  /\ pc[a] = "ready"
  /\ pc' = [pc EXCEPT ![a] = IF word = Flag THEN "resumed" ELSE "load"]
  /\ UNCHANGED <<word, next, prev, list>>

\* await_suspend: the first load.
LoadWord(a) ==
  /\ pc[a] = "load"
  /\ prev' = [prev EXCEPT ![a] = word]
  /\ pc' = [pc EXCEPT ![a] = "link"]
  /\ UNCHANGED <<word, next, list>>

\* The body of the loop: the flag is set, or the awaiter is linked to the old head.
Link(a) ==
  /\ pc[a] = "link"
  /\ IF prev[a] = Flag
       THEN pc' = [pc EXCEPT ![a] = "resumed"] /\ UNCHANGED next
       ELSE pc' = [pc EXCEPT ![a] = "swap"] /\ next' = [next EXCEPT ![a] = prev[a]]
  /\ UNCHANGED <<word, prev, list>>

\* The loop's condition: once more after a swap that succeeds, and out of the loop, to
\* sleep, after one that fails.
Swap(a) ==
  /\ pc[a] = "swap"
  /\ IF word = prev[a]
       THEN /\ word' = a
            /\ pc' = [pc EXCEPT ![a] = "link"]
            /\ UNCHANGED prev
       ELSE /\ prev' = [prev EXCEPT ![a] = word]
            /\ pc' = [pc EXCEPT ![a] = "suspended"]
            /\ UNCHANGED word
  /\ UNCHANGED <<next, list>>

\* set(): the exchange.
SetFlag ==
  /\ list = Flag
  /\ word # Flag
  /\ word' = Flag
  /\ list' = word
  /\ UNCHANGED <<next, prev, pc>>

\* set(): the next awaiter of the list is resumed, even if its thread is still in
\* await_suspend, where nothing it would do is of any effect.
ResumeNext ==
  /\ list \in Awaiters
  /\ pc' = [pc EXCEPT ![list] = "resumed"]
  /\ list' = next[list]
  /\ UNCHANGED <<word, next, prev>>

\* The end of the list: set() returns.
SetReturns ==
  /\ list = Nil
  /\ list' = Flag
  /\ UNCHANGED <<word, next, prev, pc>>

Awaiter(a) == Ready(a) \/ LoadWord(a) \/ Link(a) \/ Swap(a)
Setter     == SetFlag \/ ResumeNext \/ SetReturns

Next == (\E a \in Awaiters : Awaiter(a)) \/ Setter
Spec == Init /\ [][Next]_vars

-----------------------------------------------------------------------------
\* The awaiters that are reached from x.
Reached(x) ==
  {a \in Awaiters : \E path \in [0 .. Cardinality(Awaiters) - 1 -> Awaiters \cup {Nil}] :
     /\ path[0] = x
     /\ \E k \in DOMAIN path :
          path[k] = a /\ \A i \in 0 .. k - 1 : path[i] # Nil /\ path[i + 1] = next[path[i]]}

\* "otherwise => not set, head of linked list of awaiter*" (Awaitables.hpp:775): an
\* awaiter that is suspended is in the list, or in the one set() is resuming.
SuspendedIsListed ==
  \A a \in Awaiters : pc[a] = "suspended" => a \in Reached(word) \cup Reached(list)
=============================================================================
