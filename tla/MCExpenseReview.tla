-------------------------- MODULE MCExpenseReview --------------------------
(***************************************************************************)
(* Instances of ExpenseReview for TLC: both users may approve, and either  *)
(* may be the requester.                                                   *)
(***************************************************************************)
EXTENDS ExpenseReview, TLC

MCSymmetry == Permutations(Users) \cup Permutations(Calls) \cup Permutations(Ids)
=============================================================================
