----------------------------- MODULE MCSession -----------------------------
(***************************************************************************)
(* SessionRun on small instances: two processes of one agent.               *)
(***************************************************************************)
EXTENDS SessionRun

CONSTANTS p1, p2, none
============================================================================
