--------------------------- MODULE MCNeonProject ---------------------------
(***************************************************************************)
(* Instances of NeonProject: three invocations, so that two can contend    *)
(* for the lock the third left behind or just released; three project IDs. *)
(***************************************************************************)
EXTENDS NeonProject, TLC

CONSTANTS p1, p2, p3, j1, j2, j3

TwoProcs == {p1, p2}
ThreeProcs == {p1, p2, p3}
MCProjects == {j1, j2, j3}

Interchangeable == Permutations(Procs) \cup Permutations(Projects)
=============================================================================
