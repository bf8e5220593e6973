------------------------------- MODULE Inbox -------------------------------
(***************************************************************************)
(* What docs/04-development/api/notifications.md promises a user of the    *)
(* inbox: for every event, that is every dedupe key, there is at most one  *)
(* notification, its text is the first one that was sent, and once it is   *)
(* read it stays read.                                                     *)
(***************************************************************************)
CONSTANTS Users, Keys, Titles

VARIABLE box  \* what each user finds in the inbox for each key

Nothing == [title |-> "nothing"]

Init == box = [slot \in Users \X Keys |-> Nothing]

Deliver(slot, title) ==
  /\ box[slot] = Nothing
  /\ box' = [box EXCEPT ![slot] = [title |-> title, read |-> "no"]]

Read(slot) ==
  /\ box[slot] # Nothing
  /\ box' = [box EXCEPT ![slot].read = "yes"]

Next == \E slot \in Users \X Keys : Read(slot) \/ \E title \in Titles : Deliver(slot, title)

Spec == Init /\ [][Next]_box
=============================================================================
