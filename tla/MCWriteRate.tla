---------------------------- MODULE MCWriteRate ----------------------------
(***************************************************************************)
(* WriteRate on small instances: model values for its writers.              *)
(***************************************************************************)
EXTENDS WriteRate

CONSTANTS s1, s2, w1, w2, r1
============================================================================
