----------------------------- MODULE MCSpending -----------------------------
(***************************************************************************)
(* Spending with three posts of one author and one of another.                *)
(***************************************************************************)
EXTENDS Spending, TLC

CONSTANTS p1, p2, p3, p4, ann, ben

MCAuthor == (p1 :> ann) @@ (p2 :> ann) @@ (p3 :> ann) @@ (p4 :> ben)
MCTipAmount == (p1 :> 1) @@ (p2 :> 2) @@ (p3 :> 1) @@ (p4 :> 2)
=============================================================================
