------------------------ MODULE MCRegistrationCycle -------------------------
(* RegistrationCycle on small instances.                                   *)
EXTENDS RegistrationCycle, TLC

(* Members and councilor rows are interchangeable.                         *)
Symmetry == Permutations(Members) \union Permutations(Slots)
=============================================================================
