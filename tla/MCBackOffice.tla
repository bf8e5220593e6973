---------------------------- MODULE MCBackOffice ----------------------------
(***************************************************************************)
(* Instances of BackOffice for TLC.                                        *)
(***************************************************************************)
EXTENDS BackOffice, TLC

\* Calls, ids and values are interchangeable. Clerks contains Calls, Leads are
\* Ids, Customers and Dates are Values: desks share ids, and none is compared
\* with one of another kind.
MCSymmetry == Permutations(Calls) \cup Permutations(Ids) \cup Permutations(Values)

\* Every template has a first and a last stage.
MCLength == [t \in Values |-> 2]
=============================================================================
