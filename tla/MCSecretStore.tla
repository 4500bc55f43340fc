---------------------------- MODULE MCSecretStore ---------------------------
(* Calls of refresh_access and of the operator's operations as model values. *)
EXTENDS SecretStore, TLC

CONSTANTS a1, a2, a3, o1, o2

MCSymmetry == Permutations(Attempts) \cup Permutations(Operators)
=============================================================================
