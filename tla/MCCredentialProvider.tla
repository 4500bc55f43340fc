------------------------ MODULE MCCredentialProvider ------------------------
(* Three interchangeable calls of snapshot for TLC. *)
EXTENDS CredentialProvider, TLC

RequestSymmetry == Permutations(Requests)
=============================================================================
