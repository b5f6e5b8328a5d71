----------------------------- MODULE MCToolCalls -----------------------------
(***************************************************************************)
(* ToolCalls with sessions that are interchangeable.                          *)
(***************************************************************************)
EXTENDS ToolCalls, TLC

CONSTANTS s1, s2, p1, t1

SessionSymmetry == Permutations(Sessions)
=============================================================================
