----------------------- MODULE MCExternalValidation -----------------------
(* Model values for ExternalValidation: calls of the endpoint in any order. *)
EXTENDS ExternalValidation, TLC

RequestSymmetry == Permutations(Requests)
=============================================================================
