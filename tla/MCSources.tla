------------------------------ MODULE MCSources ------------------------------
(***************************************************************************)
(* SourceLifecycle with two sources of the ratings that decide a recovery.    *)
(***************************************************************************)
EXTENDS SourceLifecycle

CONSTANTS a, b, h1, c1

\* 50 is what every source of the repository's catalog has.
Ratings == [s \in Sources |-> IF s = a THEN 50 ELSE 60]
=============================================================================
