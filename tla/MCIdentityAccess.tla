-------------------------- MODULE MCIdentityAccess --------------------------
(***************************************************************************)
(* Instances of IdentityAccess for TLC.                                    *)
(***************************************************************************)
EXTENDS IdentityAccess, TLC

\* Processes, requests and admin calls are interchangeable; users are not
\* permuted together with them.
MCSymmetry == Permutations(Instances) \cup Permutations(Requests)
=============================================================================
