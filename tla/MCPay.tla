------------------------------- MODULE MCPay -------------------------------
(***************************************************************************)
(* Pay on a small instance: values for its constants and the symmetry of    *)
(* callers and requests (sound for the safety properties only).             *)
(***************************************************************************)
EXTENDS Pay, TLC

CONSTANTS c1, c2, k1, k2

Symmetry == Permutations({c1, c2}) \cup Permutations({k1, k2})
============================================================================
