-------------------------- MODULE MCNeonEndpoint --------------------------
(***************************************************************************)
(* An instance of NeonEndpoint with settings of three configurations: the  *)
(* first one, a changed one, and one that Neon has from elsewhere.         *)
(***************************************************************************)
EXTENDS NeonEndpoint

CONSTANTS s1, s2, s3

MCSettings == {s1, s2, s3}
=============================================================================
