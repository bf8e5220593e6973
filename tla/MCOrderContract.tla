-------------------------- MODULE MCOrderContract --------------------------
(***************************************************************************)
(* Instances of OrderContract for TLC: one seller s, who owns every        *)
(* customer and has OWN scope, and one manager m.                          *)
(***************************************************************************)
EXTENDS OrderContract, TLC

CONSTANTS m, s

MCUsers    == {m, s}
MCManagers == {m}
MCOwner    == [x \in Customers |-> s]

\* Calls, orders and customers are interchangeable: Owner is constant.
MCSymmetry == Permutations(Calls) \cup Permutations(Orders) \cup Permutations(Customers)

\* Approvals read and write a column of their own order that no other operation
\* knows: they are followed as long as there is one order, the rest beside two.
MCApprovalsOfOneOrder ==
  Cardinality({o \in Orders : Placed(o)}) > 1 =>
    /\ \A o \in Orders : approvals[o] = 0
    /\ \A k \in Calls : call[k].pc \notin {"approving", "recording"}
=============================================================================
