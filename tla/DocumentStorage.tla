-------------------------- MODULE DocumentStorage --------------------------
(***************************************************************************)
(* Documents: rows of document_metadata in the database and files in the   *)
(* storage bucket, kept by DocumentApplicationService without a common     *)
(* transaction.                                                            *)
(*                                                                         *)
(* upload stores the file and then inserts its row; softDelete marks the   *)
(* row and then removes the file, and swallows an error of that; create    *)
(* registers a row for a key the caller names, whose file may exist or     *)
(* not. A storage request may be carried out and its answer be lost.       *)
(***************************************************************************)
CONSTANTS
  Calls,
  Docs,  \* ids of rows
  Keys   \* storage keys; upload draws one that was never used

VARIABLES
  files,  \* keys of the files in the bucket
  row,    \* document_metadata
  call,   \* what each handler is doing
  drawn,  \* history: keys that an upload has drawn
  named,  \* history: keys that a create has named
  leaked  \* history: keys that an error or a restart cut off

vars == <<files, row, call, drawn, named, leaked>>

NoRow == [state |-> "none"]
Idle  == [pc |-> "idle"]

TypeOK ==
  /\ files \subseteq Keys /\ drawn \subseteq Keys /\ named \subseteq Keys /\ leaked \subseteq Keys
  /\ row \in [Docs -> {NoRow} \cup [state : {"live", "deleted"}, key : Keys]]
  /\ call \in [Calls -> {Idle}
                 \cup [pc : {"storing", "inserting", "signing", "removing"}, key : Keys]
                 \cup [pc : {"deleting"}, key : Keys, doc : Docs]]

Init ==
  /\ files = {} /\ drawn = {} /\ named = {} /\ leaked = {}
  /\ row = [d \in Docs |-> NoRow]
  /\ call = [k \in Calls |-> Idle]

Goto(k, c) == call' = [call EXCEPT ![k] = c]
Live(d)    == row[d].state = "live"
Insert(d, x) == row' = [row EXCEPT ![d] = [state |-> "live", key |-> x]]

-----------------------------------------------------------------------------
(* POST /documents/upload *)

\* The checks of size, type and owner have passed; the key is drawn.
StartUpload(k) ==
  /\ call[k] = Idle
  /\ \E x \in Keys \ (drawn \cup named \cup files) :
       /\ drawn' = drawn \cup {x}
       /\ Goto(k, [pc |-> "storing", key |-> x])
  /\ UNCHANGED <<files, row, named, leaked>>

\* What follows a stored file; and a bug: the answer is sent before the insert.
StoredAndAnswered(x) == Idle
Stored(x) == [pc |-> "inserting", key |-> x]

StoreFile(k) ==
  /\ call[k].pc = "storing"
  /\ \/ /\ files' = files \cup {call[k].key}
        /\ Goto(k, Stored(call[k].key))
        /\ UNCHANGED leaked
     \/ /\ files' = files \cup {call[k].key}   \* stored, and the answer is lost: 400
        /\ leaked' = leaked \cup {call[k].key}
        /\ Goto(k, Idle)
     \/ /\ Goto(k, Idle)                       \* refused: 400
        /\ UNCHANGED <<files, leaked>>
  /\ UNCHANGED <<row, drawn, named>>

\* The row, or an error: a foreign key to no contract or order, or the database.
InsertRow(k) ==
  /\ call[k].pc = "inserting"
  /\ \/ /\ \E d \in Docs : row[d] = NoRow /\ Insert(d, call[k].key)
        /\ UNCHANGED leaked
     \/ /\ leaked' = leaked \cup {call[k].key}
        /\ UNCHANGED row
  /\ Goto(k, Idle)
  /\ UNCHANGED <<files, drawn, named>>

\* POST /documents: a row for a key of which nothing is checked.
Register ==
  /\ \E d \in Docs, x \in Keys :
       /\ row[d] = NoRow
       /\ Insert(d, x)
       /\ named' = named \cup {x}
  /\ UNCHANGED <<files, call, drawn, leaked>>

-----------------------------------------------------------------------------
(* DELETE /documents/:id and GET /documents/:id/download-url *)

StartDelete(k) ==
  /\ call[k] = Idle
  /\ \E d \in Docs : Live(d) /\ Goto(k, [pc |-> "deleting", key |-> row[d].key, doc |-> d])
  /\ UNCHANGED <<files, row, drawn, named, leaked>>

\* deletedAt is set by id, a second time too. And a bug: the file goes first.
LeaveRow(d) == row
MarkDeleted(d) == [row EXCEPT ![d].state = "deleted"]

SoftDelete(k) ==
  /\ call[k].pc = "deleting"
  /\ row' = MarkDeleted(call[k].doc)
  /\ Goto(k, [pc |-> "removing", key |-> call[k].key])
  /\ UNCHANGED <<files, drawn, named, leaked>>

\* The update failed: 500.
DeleteFails(k) ==
  /\ call[k].pc = "deleting"
  /\ Goto(k, Idle)
  /\ UNCHANGED <<files, row, drawn, named, leaked>>

RemoveFile(k) ==
  /\ call[k].pc = "removing"
  /\ \/ /\ files' = files \ {call[k].key}
        /\ UNCHANGED leaked
     \/ /\ leaked' = leaked \cup {call[k].key}   \* swallowed: 204
        /\ UNCHANGED files
  /\ Goto(k, Idle)
  /\ UNCHANGED <<row, drawn, named>>

StartDownload(k) ==
  /\ call[k] = Idle
  /\ \E d \in Docs : Live(d) /\ Goto(k, [pc |-> "signing", key |-> row[d].key])
  /\ UNCHANGED <<files, row, drawn, named, leaked>>

\* A URL for the file, or 400 when there is none or storage does not answer.
Sign(k) ==
  /\ call[k].pc = "signing"
  /\ Goto(k, Idle)
  /\ UNCHANGED <<files, row, drawn, named, leaked>>

-----------------------------------------------------------------------------
(* A restart: what a call had begun, storage may still carry out *)

Cut == {call[k].key : k \in {j \in Calls : call[j].pc \in {"storing", "inserting", "removing"}}}
AtStorage(pc) == {call[k].key : k \in {j \in Calls : call[j].pc = pc}}

Restart ==
  /\ call' = [k \in Calls |-> Idle]
  /\ \E done \in SUBSET AtStorage("storing"), gone \in SUBSET AtStorage("removing") :
       files' = (files \cup done) \ gone
  /\ leaked' = leaked \cup Cut
  /\ UNCHANGED <<row, drawn, named>>

Next ==
  \/ \E k \in Calls : \/ StartUpload(k) \/ StoreFile(k) \/ InsertRow(k)
                      \/ StartDelete(k) \/ SoftDelete(k) \/ DeleteFails(k) \/ RemoveFile(k)
                      \/ StartDownload(k) \/ Sign(k)
  \/ Register
  \/ Restart

Spec == Init /\ [][Next]_vars

-----------------------------------------------------------------------------
(* Properties *)

\* A document on the list can be downloaded: its file is in the bucket, unless
\* somebody registered the same key by hand, whose deletion takes the file.
LiveRowsHaveFiles ==
  \A d \in Docs : Live(d) /\ row[d].key \notin named => row[d].key \in files

\* And a file in the bucket belongs to a document on the list or to a call at
\* work on it, except after an error or a restart that cut such a call off.
FilesAreReferenced ==
  \A x \in files :
    \/ x \in leaked
    \/ \E d \in Docs : Live(d) /\ row[d].key = x
    \/ \E k \in Calls : call[k].pc \in {"inserting", "removing"} /\ call[k].key = x
=============================================================================
