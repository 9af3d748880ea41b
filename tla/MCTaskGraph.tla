---------------------------- MODULE MCTaskGraph ----------------------------
(* Graphs for module TaskGraph. *)
EXTENDS TaskGraph, TLC

CONSTANTS a, b, c, u, v, w, x, z

\* Two walks share nodes, and that from u stops at x, which it meets for the second time
\* behind w: v and what is before it are left to the walk from v.
Net ==
  (x :> <<>>) @@ (w :> <<>>) @@ (a :> <<>>) @@ (b :> <<>>)
  @@ (z :> <<w, x>>) @@ (v :> <<a, b>>) @@ (u :> <<x, z, v>>)

\* a before b, and both before c.
Triangle == (a :> <<>>) @@ (b :> <<a>>) @@ (c :> <<a, b>>)

\* a before b.
Edge == (a :> <<>>) @@ (b :> <<a>>)

Symmetry == Permutations(Workers)
=============================================================================
