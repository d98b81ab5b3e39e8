-------------------------- MODULE MCSiteRelease --------------------------
(***************************************************************************)
(* Instances of SiteRelease: three images (active, previous and a new one) *)
(* and two data modes (the recorded one and another).                      *)
(***************************************************************************)
EXTENDS SiteRelease, TLC

CONSTANTS i1, i2, i3, m1, m2

MCImages == {i1, i2, i3}
MCModes == {m1, m2}

(* Images and modes are compared for equality only.                        *)
Interchangeable == Permutations(MCImages) \cup Permutations(MCModes)
=============================================================================
