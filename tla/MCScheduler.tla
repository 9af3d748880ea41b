---------------------------- MODULE MCScheduler ----------------------------
(* Small instances of module Scheduler for TLC. *)
EXTENDS Scheduler, TLC

\* Jobs of one kind are alike, and so are workers none of which is singled out.
Symmetry == Permutations(Once) \cup Permutations(Workers)
=============================================================================
