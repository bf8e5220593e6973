---------------------------- MODULE ImportBatch ----------------------------
(***************************************************************************)
(* One lead import (ImportApplicationService): rows are added to an open   *)
(* batch, and commit makes a lead of every valid row.                      *)
(*                                                                         *)
(* addRows checks the status and inserts later. commit reads the batch     *)
(* with its rows, checks the status, and later runs one transaction over   *)
(* the rows as it has read them. The i-th lead made of row n is <<n, i>>.  *)
(***************************************************************************)
EXTENDS Naturals, FiniteSets

CONSTANTS
  Calls,
  Numbers  \* row numbers, unique in the batch

VARIABLES
  status,     \* of the batch
  rows,       \* import_rows by number; lead is the i of resultingLeadId, or 0
  leads,      \* how many leads have been made of a row
  call,
  overlapped, \* history: a commit took effect after another one
  late        \* history: rows that came after the read of the commit

vars == <<status, rows, leads, call, overlapped, late>>

MaxLeads == Cardinality(Calls)
NoRow == [state |-> "none"]
Row   == [state : {"VALID", "INVALID"}, lead : 0..MaxLeads]
Rows  == [Numbers -> Row \cup {NoRow}]
Idle  == [pc |-> "idle"]

TypeOK ==
  /\ status \in {"OPEN", "COMMITTED"}
  /\ rows \in Rows
  /\ leads \in [Numbers -> 0..MaxLeads]
  /\ call \in [Calls -> {Idle} \cup [pc : {"adding"}] \cup [pc : {"committing"}, read : Rows]]
  /\ overlapped \in {"yes", "no"}
  /\ late \subseteq Numbers

Init ==
  /\ status = "OPEN"
  /\ rows = [n \in Numbers |-> NoRow]
  /\ leads = [n \in Numbers |-> 0]
  /\ call = [k \in Calls |-> Idle]
  /\ overlapped = "no" /\ late = {}

Begin(k, c) == call[k] = Idle /\ call' = [call EXCEPT ![k] = c]
End(k)      == call' = [call EXCEPT ![k] = Idle]

-----------------------------------------------------------------------------
(* POST /imports/batches/:id/rows *)

StartAddRows(k) ==
  /\ status = "OPEN"
  /\ Begin(k, [pc |-> "adding"])
  /\ UNCHANGED <<status, rows, leads, overlapped, late>>

\* createMany with skipDuplicates: a number that is taken keeps its row.
AddRows(k) ==
  /\ call[k].pc = "adding"
  /\ \E new \in SUBSET {n \in Numbers : rows[n] = NoRow}, valid \in SUBSET Numbers :
       /\ valid \subseteq new
       /\ rows' = [n \in Numbers |-> IF n \notin new THEN rows[n]
                                     ELSE [state |-> IF n \in valid THEN "VALID" ELSE "INVALID",
                                           lead |-> 0]]
       /\ late' = IF status = "OPEN" THEN late ELSE late \cup new
  /\ End(k)
  /\ UNCHANGED <<status, leads, overlapped>>

-----------------------------------------------------------------------------
(* POST /imports/batches/:id/commit *)

StartCommit(k) ==
  /\ status = "OPEN"
  /\ Begin(k, [pc |-> "committing", read |-> rows])
  /\ UNCHANGED <<status, rows, leads, overlapped, late>>

\* The rows that get a lead, as they were read.
Pending(read) == {n \in Numbers : read[n].state = "VALID" /\ read[n].lead = 0}

Created(ns) == [n \in Numbers |-> IF n \in ns THEN leads[n] + 1 ELSE leads[n]]
Linked(ns)  == [n \in Numbers |-> IF n \in ns THEN [rows[n] EXCEPT !.lead = leads[n] + 1]
                                  ELSE rows[n]]

Commit(k) ==
  /\ call[k].pc = "committing"
  /\ LET ns == Pending(call[k].read) IN leads' = Created(ns) /\ rows' = Linked(ns)
  /\ status' = "COMMITTED"
  /\ overlapped' = IF status = "OPEN" THEN overlapped ELSE "yes"
  /\ late' = IF status = "OPEN"
             THEN {n \in Numbers : rows[n] # NoRow /\ call[k].read[n] = NoRow} ELSE late
  /\ End(k)

\* What an error in the middle leaves behind: nothing, it is a transaction. And
\* a bug: the leads are made outside of it.
LeftOver(ns) == Created(ns)
RolledBack(ns) == leads

CommitFails(k) ==
  /\ call[k].pc = "committing"
  /\ \E ns \in SUBSET Pending(call[k].read) : leads' = RolledBack(ns)
  /\ End(k)
  /\ UNCHANGED <<status, rows, overlapped, late>>

Restart ==
  /\ call' = [k \in Calls |-> Idle]
  /\ UNCHANGED <<status, rows, leads, overlapped, late>>

Next ==
  \/ \E k \in Calls : \/ StartAddRows(k) \/ AddRows(k)
                      \/ StartCommit(k) \/ Commit(k) \/ CommitFails(k)
  \/ Restart

Spec == Init /\ [][Next]_vars

-----------------------------------------------------------------------------
(* Properties *)

\* However often a commit fails and is repeated, a valid row ends with one lead
\* and points to it, unless two commits overlapped, and then to the newest; a
\* committed batch leaves no valid row without one but those that came late.
ImportedOnce ==
  /\ \A n \in Numbers :
       /\ leads[n] = IF rows[n].state = "VALID" THEN rows[n].lead ELSE 0
       /\ overlapped = "no" => leads[n] <= 1
  /\ status = "COMMITTED" =>
       \A n \in Numbers \ late : rows[n].state = "VALID" => rows[n].lead > 0
=============================================================================
