---------------------------- MODULE SetRegister ----------------------------
(***************************************************************************)
(* What the API documents about the handlers that replace a set of rows    *)
(* (docs/04-development/api/identity-admin.md: "Replace roles", orders.md: *)
(* "creates or replaces schedule"): each does it at once. It leaves its    *)
(* own set and, of the rest, at most what replacements that took effect    *)
(* during the call had put in place. One that none took effect beside      *)
(* leaves exactly its set.                                                 *)
(***************************************************************************)
CONSTANTS Calls, Members

VARIABLES
  rows,  \* the set
  asked  \* of each call: what it asks for, and what was put in place since

vars == <<rows, asked>>

Nothing == [is |-> "nothing"]
Asked(set, since) == [is |-> "asked", set |-> set, since |-> since]

Init ==
  /\ rows = {}
  /\ asked = [k \in Calls |-> Nothing]

Ask(k) ==
  /\ asked[k] = Nothing
  /\ asked'[k] \in [is : {"asked"}, set : SUBSET Members, since : {{}}]
  /\ asked' = [asked EXCEPT ![k] = asked'[k]]
  /\ UNCHANGED rows

Replace(k) ==
  /\ asked[k] # Nothing
  /\ asked[k].set \subseteq rows'
  /\ rows' \subseteq asked[k].set \cup (rows \cap asked[k].since)
  /\ asked' = [j \in Calls |->
       IF j = k \/ asked[j] = Nothing THEN Nothing
       ELSE Asked(asked[j].set, asked[j].since \cup asked[k].set)]

\* Answered with an error.
Refuse(k) ==
  /\ asked[k] # Nothing
  /\ asked' = [asked EXCEPT ![k] = Nothing]
  /\ UNCHANGED rows

Next == \E k \in Calls : Ask(k) \/ Replace(k) \/ Refuse(k)

Spec == Init /\ [][Next]_vars
=============================================================================
