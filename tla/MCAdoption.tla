---------------------------- MODULE MCAdoption ----------------------------
(***************************************************************************)
(* Instances of Adoption: hosts with and without a prior site-code2.yml.   *)
(***************************************************************************)
EXTENDS Adoption

NoPriorRoute == {FALSE}
AnyPriorRoute == BOOLEAN
=============================================================================
