---------------------------- MODULE MCEventLoop ----------------------------
(***************************************************************************)
(* EventLoop on small instances: model values for its sources.              *)
(***************************************************************************)
EXTENDS EventLoop

CONSTANTS f1, f2, o1, s1
============================================================================
