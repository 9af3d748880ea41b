---------------------------- MODULE MCUsdScenes ----------------------------
(* Two scenes and three files for UsdScenes. *)
EXTENDS UsdScenes, TLC

CONSTANTS a, b, walk, run, new

Symmetry == Permutations(Labels)

\* A file with a primitive and a child, one of another rate that has a child only, and none yet.
MCOnDisk == [f \in Files |->
  CASE f = walk -> [Empty EXCEPT !.prims = Paths, !.own = <<3, 5>>, !.childs = << <<2, 4>> >>]
    [] f = run  -> [Empty EXCEPT !.tcps = 30, !.childs = << <<>>, <<4, 6>> >>]
    [] f = new  -> None]
=============================================================================
