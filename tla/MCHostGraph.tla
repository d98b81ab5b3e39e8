---------------------------- MODULE MCHostGraph ----------------------------
(***************************************************************************)
(* Instances of HostGraph: up to three Sites, so that a Site can be added  *)
(* or removed before, between and after others, and two images.            *)
(***************************************************************************)
EXTENDS HostGraph, TLC

CONSTANTS i1, i2

TwoSites == 1..2
ThreeSites == 1..3
MCImages == {i1, i2}

Interchangeable == Permutations(MCImages)
=============================================================================
