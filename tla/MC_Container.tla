---------------------------- MODULE MC_Container ----------------------------
(***************************************************************************)
(* Instances of Container.  The processes are interchangeable.             *)
(***************************************************************************)
EXTENDS Container, TLC

Symmetry == Permutations(Process)
=============================================================================
