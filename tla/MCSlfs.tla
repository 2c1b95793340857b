------------------------------- MODULE MCSlfs -------------------------------
(***************************************************************************)
(* Instances of Slfs for TLC.                                              *)
(***************************************************************************)
EXTENDS Slfs

CONSTANTS n1, n2, n3, n4, n5, n6

AnyName == Permutations(Names)

\* An uninitialised word that reads as erased or as 0.
ErasedOrZero == {-1, 0}

=============================================================================
