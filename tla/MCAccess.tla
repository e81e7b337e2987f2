----------------------------- MODULE MCAccess ------------------------------
(* Model checking Access: handlers, secrets and codes are interchangeable. *)
EXTENDS Access, TLC

Symmetry == Permutations(Handlers) \cup Permutations(Secrets) \cup Permutations(Codes)
=============================================================================
