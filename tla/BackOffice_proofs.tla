-------------------------- MODULE BackOffice_proofs --------------------------
(***************************************************************************)
(* Theorems about BackOffice and their proofs. A desk that has a module of *)
(* proofs is shown to behave, in the composition, as it does alone; what   *)
(* is proved of it there is then a theorem here. The other desks are       *)
(* proved here, each about its own variables.                              *)
(***************************************************************************)
EXTENDS BackOffice, FiniteSetTheorems, TLAPS

\* The same desks once more, with what is proved of them.
CrmProofs == INSTANCE LeadConversion_proofs WITH
  Contacts <- One, call <- leadCall, late <- lateContacts
FinanceProofs == INSTANCE FinanceRecords_proofs WITH
  Orders <- Ids, Amounts <- Values, row <- record, call <- recordCall

-----------------------------------------------------------------------------
(* A step of the back office is, for each desk, a step of it or none *)

LEMMA DocumentsOnly == [Next]_vars => Documents!Next \/ UNCHANGED documents
BY DEF Next, vars, DocumentsStep, WorkStep, RequestsStep, MailsStep, ImportStep, SetsStep,
    TokensStep, SignInsStep, CrmStep, FinanceStep, OwnersStep, StatisticsStep

LEMMA WorkOnly == [Next]_vars => Work!Next \/ UNCHANGED work
BY DEF Next, vars, DocumentsStep, WorkStep, RequestsStep, MailsStep, ImportStep, SetsStep,
    TokensStep, SignInsStep, CrmStep, FinanceStep, OwnersStep, StatisticsStep

LEMMA RequestsOnly == [Next]_vars => Requests!Next \/ UNCHANGED requests
BY DEF Next, vars, DocumentsStep, WorkStep, RequestsStep, MailsStep, ImportStep, SetsStep,
    TokensStep, SignInsStep, CrmStep, FinanceStep, OwnersStep, StatisticsStep

LEMMA MailsOnly == [Next]_vars => Mails!Next \/ UNCHANGED mails
BY DEF Next, vars, DocumentsStep, WorkStep, RequestsStep, MailsStep, ImportStep, SetsStep,
    TokensStep, SignInsStep, CrmStep, FinanceStep, OwnersStep, StatisticsStep

LEMMA ImportOnly == [Next]_vars => Import!Next \/ UNCHANGED import
BY DEF Next, vars, DocumentsStep, WorkStep, RequestsStep, MailsStep, ImportStep, SetsStep,
    TokensStep, SignInsStep, CrmStep, FinanceStep, OwnersStep, StatisticsStep

LEMMA SetsOnly == [Next]_vars => Sets!Next \/ UNCHANGED sets
BY DEF Next, vars, DocumentsStep, WorkStep, RequestsStep, MailsStep, ImportStep, SetsStep,
    TokensStep, SignInsStep, CrmStep, FinanceStep, OwnersStep, StatisticsStep

LEMMA TokensOnly == [Next]_vars => Tokens!Next \/ UNCHANGED tokens
BY DEF Next, vars, DocumentsStep, WorkStep, RequestsStep, MailsStep, ImportStep, SetsStep,
    TokensStep, SignInsStep, CrmStep, FinanceStep, OwnersStep, StatisticsStep

LEMMA SignInsOnly == [Next]_vars => SignIns!Next \/ UNCHANGED signins
BY DEF Next, vars, DocumentsStep, WorkStep, RequestsStep, MailsStep, ImportStep, SetsStep,
    TokensStep, SignInsStep, CrmStep, FinanceStep, OwnersStep, StatisticsStep

LEMMA CrmOnly == [Next]_vars => Crm!Next \/ UNCHANGED crm
BY DEF Next, vars, DocumentsStep, WorkStep, RequestsStep, MailsStep, ImportStep, SetsStep,
    TokensStep, SignInsStep, CrmStep, FinanceStep, OwnersStep, StatisticsStep

LEMMA FinanceOnly == [Next]_vars => Finance!Next \/ UNCHANGED finance
BY DEF Next, vars, DocumentsStep, WorkStep, RequestsStep, MailsStep, ImportStep, SetsStep,
    TokensStep, SignInsStep, CrmStep, FinanceStep, OwnersStep, StatisticsStep

LEMMA OwnersOnly == [Next]_vars => Owners!Next \/ UNCHANGED owners
BY DEF Next, vars, DocumentsStep, WorkStep, RequestsStep, MailsStep, ImportStep, SetsStep,
    TokensStep, SignInsStep, CrmStep, FinanceStep, OwnersStep, StatisticsStep

LEMMA StatisticsOnly == [Next]_vars => Statistics!Next \/ UNCHANGED statistics
BY DEF Next, vars, DocumentsStep, WorkStep, RequestsStep, MailsStep, ImportStep, SetsStep,
    TokensStep, SignInsStep, CrmStep, FinanceStep, OwnersStep, StatisticsStep

-----------------------------------------------------------------------------
(* Documents *)

DocumentsNames(d, x)  == document[d] # Documents!NoRow /\ document[d].key = x
DocumentsUploading(k) == documentCall[k].pc \in {"storing", "inserting"}

\* Every key in use was drawn by an upload or named by hand.
DocumentsKnown ==
  /\ files \subseteq drawn \cup named
  /\ \A d \in Ids : document[d] # Documents!NoRow => document[d].key \in drawn \cup named
  /\ \A k \in Calls : documentCall[k] # Documents!Idle =>
         documentCall[k].key \in drawn \cup named

\* A key that nobody named by hand has one owner: the upload that drew it, and
\* then the one row that it inserts.
DocumentsOwned ==
  /\ \A c, d \in Ids : DocumentsNames(c, document[d].key)
         /\ document[d] # Documents!NoRow => c = d \/ document[d].key \in named
  /\ \A k \in Calls : DocumentsUploading(k) => \/ documentCall[k].key \in named
                                      \/ \A d \in Ids : ~DocumentsNames(d,
                                             documentCall[k].key)
  /\ \A j, k \in Calls : DocumentsUploading(k) /\ documentCall[j] # Documents!Idle
         /\ documentCall[j].key = documentCall[k].key =>
       j = k \/ documentCall[k].key \in named

\* A file is stored before its row is inserted, and the row marked before its
\* file is removed.
DocumentsOrdered ==
  /\ \A k \in Calls : documentCall[k].pc = "inserting" =>
         documentCall[k].key \in files \cup named
  /\ \A k \in Calls : documentCall[k].pc = "deleting" =>
         DocumentsNames(documentCall[k].doc, documentCall[k].key)
  /\ \A k \in Calls, d \in Ids :
       documentCall[k].pc = "removing" /\ Documents!Live(d)
           /\ document[d].key = documentCall[k].key => documentCall[k].key \in named

DocumentsSound == DocumentsKnown /\ DocumentsOwned /\ DocumentsOrdered
    /\ Documents!LiveRowsHaveFiles /\ Documents!FilesAreReferenced
DocumentsIInv  == Documents!TypeOK /\ DocumentsSound

LEMMA DocumentsStart == Documents!Init => DocumentsIInv
BY DEF Documents!Init, DocumentsIInv, DocumentsSound, Documents!TypeOK, DocumentsKnown,
    DocumentsOwned, DocumentsOrdered, Documents!LiveRowsHaveFiles,
    Documents!FilesAreReferenced,
       DocumentsNames, DocumentsUploading, Documents!Live, Documents!NoRow, Documents!Idle

\* What TypeOK says of a call, by its pc.
LEMMA DocumentsCallKinds ==
  ASSUME Documents!TypeOK, NEW k \in Calls
  PROVE  /\ documentCall[k].pc \in {"idle", "storing", "inserting", "signing", "removing",
                "deleting"}
         /\ documentCall[k].pc = "idle" <=> documentCall[k] = Documents!Idle
         /\ documentCall[k] # Documents!Idle => documentCall[k].key \in Values
         /\ documentCall[k].pc = "deleting" => documentCall[k].doc \in Ids
BY DEF Documents!TypeOK, Documents!Idle

LEMMA DocumentsDeleters ==
  ASSUME Documents!TypeOK
  PROVE  \A k \in Calls : documentCall[k].pc = "deleting" => documentCall[k].doc \in Ids
BY DocumentsCallKinds

LEMMA DocumentsRowKinds ==
  ASSUME Documents!TypeOK, NEW d \in Ids
  PROVE  /\ document[d] # Documents!NoRow => document[d] \in [state : {"live", "deleted"},
                key : Values]
         /\ Documents!Live(d) => document[d] # Documents!NoRow
BY DEF Documents!TypeOK, Documents!NoRow, Documents!Live

\* One call moves.
LEMMA DocumentsCallMoves ==
  ASSUME Documents!TypeOK, NEW k \in Calls, NEW c, Documents!Goto(k, c)
  PROVE  documentCall'[k] = c /\ \A j \in Calls \ {k} : documentCall'[j] = documentCall[j]
BY DEF Documents!TypeOK, Documents!Goto

\* One row is inserted.
LEMMA DocumentsRowInserted ==
  ASSUME Documents!TypeOK, NEW d \in Ids, NEW x \in Values, document[d] = Documents!NoRow,
             Documents!Insert(d, x)
  PROVE  /\ document'[d] = [state |-> "live", key |-> x] /\ document'[d] # Documents!NoRow
         /\ document'[d].state = "live" /\ document'[d].key = x
         /\ \A c \in Ids \ {d} : document'[c] = document[c]
         /\ document' \in [Ids -> {Documents!NoRow} \cup [state : {"live", "deleted"},
                key : Values]]
BY DEF Documents!TypeOK, Documents!Insert, Documents!NoRow

\* One row is marked, and keeps its key.
LEMMA DocumentsRowMarked ==
  ASSUME Documents!TypeOK, NEW d \in Ids, document[d] # Documents!NoRow,
             document' = Documents!MarkDeleted(d)
  PROVE  /\ document'[d].state = "deleted" /\ document'[d].key = document[d].key
                /\ document'[d] # Documents!NoRow
         /\ \A c \in Ids \ {d} : document'[c] = document[c]
         /\ document' \in [Ids -> {Documents!NoRow} \cup [state : {"live", "deleted"},
                key : Values]]
<1>1. document[d] \in [state : {"live", "deleted"}, key : Values]
  BY DocumentsRowKinds
<1>2. [document[d] EXCEPT !.state = "deleted"] = [state |-> "deleted",
          key |-> document[d].key]
  BY <1>1
<1>3. document' = [document EXCEPT ![d] = [document[d] EXCEPT !.state = "deleted"]]
  BY DEF Documents!MarkDeleted, Documents!TypeOK
<1> QED
  BY <1>1, <1>2, <1>3 DEF Documents!TypeOK, Documents!NoRow

LEMMA DocumentsTypeStep == Documents!TypeOK /\ DocumentsSound
    /\ [Documents!Next]_documents => Documents!TypeOK'
<1> SUFFICES ASSUME Documents!TypeOK, DocumentsSound, [Documents!Next]_documents
                 PROVE Documents!TypeOK'
  OBVIOUS
<1>1. ASSUME NEW k \in Calls, Documents!StartUpload(k) PROVE Documents!TypeOK'
  BY <1>1 DEF Documents!StartUpload, Documents!TypeOK, Documents!Goto, Documents!Idle
<1>2. ASSUME NEW k \in Calls, Documents!StoreFile(k) PROVE Documents!TypeOK'
  BY <1>2, DocumentsCallKinds DEF Documents!StoreFile, Documents!Stored, Documents!TypeOK,
      Documents!Goto, Documents!Idle
<1>3. ASSUME NEW k \in Calls, Documents!InsertRow(k) PROVE Documents!TypeOK'
  <2>1. documentCall[k].key \in Values
    BY <1>3, DocumentsCallKinds DEF Documents!InsertRow, Documents!Idle
  <2>2. document' \in [Ids -> {Documents!NoRow} \cup [state : {"live", "deleted"},
            key : Values]]
    BY <1>3, <2>1, DocumentsRowInserted DEF Documents!InsertRow, Documents!TypeOK
  <2> QED
    BY <1>3, <2>1, <2>2 DEF Documents!InsertRow, Documents!TypeOK, Documents!Goto
<1>4. ASSUME NEW k \in Calls, Documents!StartDelete(k) PROVE Documents!TypeOK'
  BY <1>4, DocumentsRowKinds DEF Documents!StartDelete, Documents!TypeOK, Documents!Goto
<1>5. ASSUME NEW k \in Calls, Documents!SoftDelete(k) PROVE Documents!TypeOK'
  <2>1. documentCall[k].doc \in Ids /\ document[documentCall[k].doc] # Documents!NoRow
            /\ documentCall[k].key \in Values
    BY <1>5, DocumentsCallKinds DEF Documents!SoftDelete, DocumentsSound,
        DocumentsOrdered, DocumentsNames, Documents!Idle
  <2>2. document' \in [Ids -> {Documents!NoRow} \cup [state : {"live", "deleted"},
            key : Values]]
    BY <1>5, <2>1, DocumentsRowMarked DEF Documents!SoftDelete
  <2> QED
    BY <1>5, <2>1, <2>2 DEF Documents!SoftDelete, Documents!TypeOK, Documents!Goto
<1>6. ASSUME NEW k \in Calls, Documents!DeleteFails(k) \/ Documents!Sign(k)
                 PROVE Documents!TypeOK'
  BY <1>6 DEF Documents!DeleteFails, Documents!Sign, Documents!TypeOK, Documents!Goto
<1>7. ASSUME NEW k \in Calls, Documents!RemoveFile(k) PROVE Documents!TypeOK'
  BY <1>7, DocumentsCallKinds DEF Documents!RemoveFile, Documents!TypeOK, Documents!Goto,
      Documents!Idle
<1>8. ASSUME NEW k \in Calls, Documents!StartDownload(k) PROVE Documents!TypeOK'
  BY <1>8, DocumentsRowKinds DEF Documents!StartDownload, Documents!TypeOK, Documents!Goto
<1>9. CASE Documents!Register
  BY <1>9, DocumentsRowInserted DEF Documents!Register, Documents!TypeOK
<1>10. CASE Documents!Restart
  <2>1. \A k \in Calls : documentCall[k].pc \in {"storing", "inserting", "removing"} =>
            documentCall[k].key \in Values
    BY DocumentsCallKinds DEF Documents!Idle
  <2>2. Documents!Cut \subseteq Values /\ Documents!AtStorage("storing") \subseteq Values
    BY <2>1 DEF Documents!Cut, Documents!AtStorage
  <2> QED
    BY <1>10, <2>2 DEF Documents!Restart, Documents!TypeOK
<1>11. CASE UNCHANGED documents
  BY <1>11 DEF documents, Documents!TypeOK
<1> QED
  BY <1>1, <1>2, <1>3, <1>4, <1>5, <1>6, <1>7, <1>8, <1>9, <1>10, <1>11 DEF Documents!Next

\* A call that ends, or that holds a key as a mere reader, does no harm.
LEMMA DocumentsCallEnds ==
  ASSUME DocumentsIInv, Documents!TypeOK', NEW k \in Calls, NEW c, Documents!Goto(k, c),
         \/ c = Documents!Idle
         \/ c.pc = "signing" /\ c.key \in drawn \cup named
                /\ documentCall[k] = Documents!Idle
            /\ \A j \in Calls : DocumentsUploading(j) /\ documentCall[j].key = c.key =>
                   c.key \in named,
         UNCHANGED <<files, document, drawn, named>>, leaked \subseteq leaked',
         documentCall[k].pc \in {"inserting", "removing"}
             /\ documentCall[k].key \in files =>
           documentCall[k].key \in leaked' \/ \E d \in Ids : Documents!Live(d)
               /\ document[d].key = documentCall[k].key
  PROVE  DocumentsSound'
<1>1. documentCall'[k] = c /\ \A j \in Calls \ {k} : documentCall'[j] = documentCall[j]
  BY DocumentsCallMoves DEF DocumentsIInv
<1>2. DocumentsKnown'
  BY <1>1 DEF DocumentsIInv, DocumentsSound, DocumentsKnown, Documents!Idle
<1>3. DocumentsOwned'
  BY <1>1 DEF DocumentsIInv, DocumentsSound, DocumentsOwned, DocumentsNames,
      DocumentsUploading, Documents!Idle
<1>4. DocumentsOrdered'
  BY <1>1 DEF DocumentsIInv, DocumentsSound, DocumentsOrdered, DocumentsNames,
      Documents!Live, Documents!Idle
<1>5. Documents!LiveRowsHaveFiles'
  BY DEF DocumentsIInv, DocumentsSound, Documents!LiveRowsHaveFiles, Documents!Live
<1>6. Documents!FilesAreReferenced'
  BY <1>1 DEF DocumentsIInv, DocumentsSound, Documents!FilesAreReferenced, Documents!Live,
      Documents!Idle
<1> QED
  BY <1>2, <1>3, <1>4, <1>5, <1>6 DEF DocumentsSound

LEMMA DocumentsStartUploadKeeps ==
  ASSUME DocumentsIInv, NEW k \in Calls, Documents!StartUpload(k)
  PROVE  DocumentsSound'
<1>1. PICK x \in Values \ (drawn \cup named \cup files) :
        /\ drawn' = drawn \cup {x} /\ Documents!Goto(k, [pc |-> "storing", key |-> x])
        /\ documentCall[k] = Documents!Idle /\ UNCHANGED <<files, document, named, leaked>>
  BY DEF Documents!StartUpload
<1>2. /\ documentCall'[k].pc = "storing" /\ documentCall'[k].key = x
      /\ \A j \in Calls \ {k} : documentCall'[j] = documentCall[j]
  BY <1>1, DocumentsCallMoves DEF DocumentsIInv
<1>3. DocumentsKnown'
  BY <1>1, <1>2 DEF DocumentsIInv, DocumentsSound, DocumentsKnown
<1>4. DocumentsOwned'
  BY <1>1, <1>2 DEF DocumentsIInv, DocumentsSound, DocumentsKnown, DocumentsOwned,
      DocumentsNames, DocumentsUploading, Documents!Idle
<1>5. DocumentsOrdered'
  BY <1>1, <1>2 DEF DocumentsIInv, DocumentsSound, DocumentsOrdered, DocumentsNames,
      Documents!Live
<1>6. Documents!LiveRowsHaveFiles'
  BY <1>1 DEF DocumentsIInv, DocumentsSound, Documents!LiveRowsHaveFiles, Documents!Live
<1>7. Documents!FilesAreReferenced'
  BY <1>1, <1>2 DEF DocumentsIInv, DocumentsSound, Documents!FilesAreReferenced,
      Documents!Live, Documents!Idle
<1> QED
  BY <1>3, <1>4, <1>5, <1>6, <1>7 DEF DocumentsSound

LEMMA DocumentsStoreFileKeeps ==
  ASSUME DocumentsIInv, Documents!TypeOK', NEW k \in Calls, Documents!StoreFile(k)
  PROVE  DocumentsSound'
<1> DEFINE x == documentCall[k].key
<1>1. documentCall[k].pc = "storing" /\ documentCall[k] # Documents!Idle
          /\ UNCHANGED <<document, drawn, named>>
  BY DEF Documents!StoreFile, Documents!Idle
<1>2. /\ files \subseteq files' /\ files' \subseteq files \cup {x}
      /\ leaked \subseteq leaked' /\ x \in drawn \cup named
  BY <1>1 DEF Documents!StoreFile, DocumentsIInv, DocumentsSound, DocumentsKnown
<1>3. \/ documentCall'[k] = Documents!Idle /\ (x \in files' => x \in files \/ x \in leaked')
      \/ documentCall'[k].pc = "inserting" /\ documentCall'[k].key = x /\ x \in files'
  BY DocumentsCallMoves DEF Documents!StoreFile, Documents!Stored, DocumentsIInv
<1>4. \A j \in Calls \ {k} : documentCall'[j] = documentCall[j]
  BY DocumentsCallMoves DEF Documents!StoreFile, DocumentsIInv
<1> HIDE DEF x
<1>5. DocumentsKnown'
  BY <1>1, <1>2, <1>3, <1>4 DEF DocumentsIInv, DocumentsSound, DocumentsKnown
<1>6. DocumentsOwned'
  BY <1>1, <1>3, <1>4 DEF DocumentsIInv, DocumentsSound, DocumentsOwned, DocumentsNames,
      DocumentsUploading, Documents!Idle, x
<1>7. DocumentsOrdered'
  BY <1>1, <1>2, <1>3, <1>4 DEF DocumentsIInv, DocumentsSound, DocumentsOrdered,
      DocumentsNames, Documents!Live, Documents!Idle
<1>8. Documents!LiveRowsHaveFiles'
  BY <1>1, <1>2 DEF DocumentsIInv, DocumentsSound, Documents!LiveRowsHaveFiles,
      Documents!Live
<1>9. Documents!FilesAreReferenced'
  BY <1>1, <1>2, <1>3, <1>4 DEF DocumentsIInv, DocumentsSound,
      Documents!FilesAreReferenced, Documents!Live
<1> QED
  BY <1>5, <1>6, <1>7, <1>8, <1>9 DEF DocumentsSound

LEMMA DocumentsInsertRowKeeps ==
  ASSUME DocumentsIInv, Documents!TypeOK', NEW k \in Calls, Documents!InsertRow(k)
  PROVE  DocumentsSound'
<1> DEFINE x == documentCall[k].key
<1>1. /\ documentCall[k].pc = "inserting" /\ documentCall[k] # Documents!Idle
             /\ Documents!Goto(k, Documents!Idle)
      /\ UNCHANGED <<files, drawn, named>> /\ leaked \subseteq leaked'
  BY DEF Documents!InsertRow, Documents!Idle
<1>2. CASE x \in leaked' /\ UNCHANGED document
  BY <1>1, <1>2, DocumentsCallEnds
<1>3. ASSUME NEW d \in Ids, document[d] = Documents!NoRow, Documents!Insert(d, x),
                 UNCHANGED leaked
      PROVE  DocumentsSound'
  <2>1. x \in Values /\ x \in drawn \cup named /\ x \in files \cup named
    BY <1>1, DocumentsCallKinds DEF DocumentsIInv, DocumentsSound, DocumentsKnown,
        DocumentsOrdered
  <2>2. /\ document'[d].state = "live" /\ document'[d].key = x
               /\ document'[d] # Documents!NoRow
        /\ \A c \in Ids \ {d} : document'[c] = document[c]
    BY <1>3, <2>1, DocumentsRowInserted DEF DocumentsIInv
  <2>3. documentCall'[k] = Documents!Idle
            /\ \A j \in Calls \ {k} : documentCall'[j] = documentCall[j]
    BY <1>1, DocumentsCallMoves DEF DocumentsIInv
  <2>4. /\ \A c \in Ids : DocumentsNames(c, x) => x \in named
        /\ \A j \in Calls \ {k} : documentCall[j] # Documents!Idle
               /\ documentCall[j].key = x => x \in named
    BY <1>1 DEF DocumentsIInv, DocumentsSound, DocumentsOwned, DocumentsUploading
  <2> HIDE DEF x
  <2>5. DocumentsKnown'
    BY <1>1, <2>1, <2>2, <2>3 DEF DocumentsIInv, DocumentsSound, DocumentsKnown
  <2>6. DocumentsOwned'
    BY <1>1, <1>3, <2>2, <2>3, <2>4 DEF DocumentsIInv, DocumentsSound, DocumentsOwned,
        DocumentsNames, DocumentsUploading, Documents!Idle
  <2>7. DocumentsOrdered'
    BY <1>1, <1>3, <2>2, <2>3, <2>4, DocumentsDeleters DEF DocumentsIInv, DocumentsSound,
        DocumentsOrdered, DocumentsNames, Documents!Live, Documents!Idle
  <2>8. Documents!LiveRowsHaveFiles'
    BY <1>1, <2>1, <2>2 DEF DocumentsIInv, DocumentsSound, Documents!LiveRowsHaveFiles,
        Documents!Live
  <2>9. Documents!FilesAreReferenced'
    BY <1>1, <1>3, <2>2, <2>3 DEF DocumentsIInv, DocumentsSound,
        Documents!FilesAreReferenced, Documents!Live, Documents!Idle, Documents!NoRow, x
  <2> QED
    BY <2>5, <2>6, <2>7, <2>8, <2>9 DEF DocumentsSound
<1> QED
  BY <1>1, <1>2, <1>3 DEF Documents!InsertRow

LEMMA DocumentsRegisterKeeps ==
  ASSUME DocumentsIInv, Documents!Register
  PROVE  DocumentsSound'
<1>1. PICK d \in Ids, x \in Values :
        document[d] = Documents!NoRow /\ Documents!Insert(d, x) /\ named' = named \cup {x}
        /\ UNCHANGED <<files, documentCall, drawn, leaked>>
  BY DEF Documents!Register
<1>2. /\ document'[d].state = "live" /\ document'[d].key = x
             /\ document'[d] # Documents!NoRow
      /\ \A c \in Ids \ {d} : document'[c] = document[c]
  BY <1>1, DocumentsRowInserted DEF DocumentsIInv
<1>3. DocumentsKnown'
  BY <1>1, <1>2 DEF DocumentsIInv, DocumentsSound, DocumentsKnown
<1>4. DocumentsOwned'
  BY <1>1, <1>2 DEF DocumentsIInv, DocumentsSound, DocumentsOwned, DocumentsNames,
      DocumentsUploading
<1>5. DocumentsOrdered'
  BY <1>1, <1>2, DocumentsDeleters DEF DocumentsIInv, DocumentsSound, DocumentsOrdered,
      DocumentsNames, Documents!Live
<1>6. Documents!LiveRowsHaveFiles'
  BY <1>1, <1>2 DEF DocumentsIInv, DocumentsSound, Documents!LiveRowsHaveFiles,
      Documents!Live
<1>7. Documents!FilesAreReferenced'
  BY <1>1, <1>2 DEF DocumentsIInv, DocumentsSound, Documents!FilesAreReferenced,
      Documents!Live, Documents!NoRow
<1> QED
  BY <1>3, <1>4, <1>5, <1>6, <1>7 DEF DocumentsSound

LEMMA DocumentsStartDeleteKeeps ==
  ASSUME DocumentsIInv, NEW k \in Calls, Documents!StartDelete(k)
  PROVE  DocumentsSound'
<1>1. PICK d \in Ids :
        /\ Documents!Live(d) /\ Documents!Goto(k, [pc |-> "deleting",
               key |-> document[d].key, doc |-> d])
        /\ documentCall[k] = Documents!Idle /\ UNCHANGED <<files, document, drawn, named,
               leaked>>
  BY DEF Documents!StartDelete
<1>2. /\ documentCall'[k].pc = "deleting" /\ documentCall'[k].key = document[d].key
             /\ documentCall'[k].doc = d
      /\ \A j \in Calls \ {k} : documentCall'[j] = documentCall[j]
  BY <1>1, DocumentsCallMoves DEF DocumentsIInv
<1>3. document[d] # Documents!NoRow
  BY <1>1, DocumentsRowKinds DEF DocumentsIInv
<1>4. DocumentsKnown'
  BY <1>1, <1>2, <1>3 DEF DocumentsIInv, DocumentsSound, DocumentsKnown
<1>5. DocumentsOwned'
  BY <1>1, <1>2, <1>3 DEF DocumentsIInv, DocumentsSound, DocumentsOwned, DocumentsNames,
      DocumentsUploading
<1>6. DocumentsOrdered'
  BY <1>1, <1>2, <1>3 DEF DocumentsIInv, DocumentsSound, DocumentsOrdered, DocumentsNames,
      Documents!Live
<1>7. Documents!LiveRowsHaveFiles'
  BY <1>1 DEF DocumentsIInv, DocumentsSound, Documents!LiveRowsHaveFiles, Documents!Live
<1>8. Documents!FilesAreReferenced'
  BY <1>1, <1>2 DEF DocumentsIInv, DocumentsSound, Documents!FilesAreReferenced,
      Documents!Live, Documents!Idle
<1> QED
  BY <1>4, <1>5, <1>6, <1>7, <1>8 DEF DocumentsSound

LEMMA DocumentsSoftDeleteKeeps ==
  ASSUME DocumentsIInv, NEW k \in Calls, Documents!SoftDelete(k)
  PROVE  DocumentsSound'
<1> DEFINE d == documentCall[k].doc
           x == documentCall[k].key
<1>1. /\ documentCall[k].pc = "deleting" /\ documentCall[k] # Documents!Idle
             /\ document' = Documents!MarkDeleted(d)
      /\ Documents!Goto(k, [pc |-> "removing", key |-> x]) /\ UNCHANGED <<files, drawn,
             named, leaked>>
  BY DEF Documents!SoftDelete, Documents!Idle
<1>2. d \in Ids /\ DocumentsNames(d, x)
  BY <1>1, DocumentsCallKinds DEF DocumentsIInv, DocumentsSound, DocumentsOrdered
<1>3. /\ document'[d].state = "deleted" /\ document'[d].key = x
             /\ document'[d] # Documents!NoRow
      /\ \A c \in Ids \ {d} : document'[c] = document[c]
  BY <1>1, <1>2, DocumentsRowMarked DEF DocumentsIInv, DocumentsNames
<1>4. /\ documentCall'[k].pc = "removing" /\ documentCall'[k].key = x
      /\ \A j \in Calls \ {k} : documentCall'[j] = documentCall[j]
  BY <1>1, DocumentsCallMoves DEF DocumentsIInv
<1>5. /\ x \in drawn \cup named
      /\ \A j \in Calls : DocumentsUploading(j) /\ documentCall[j].key = x => x \in named
      /\ \A c \in Ids \ {d} : DocumentsNames(c, x) => x \in named
  BY <1>1, <1>2 DEF DocumentsIInv, DocumentsSound, DocumentsKnown, DocumentsOwned,
      DocumentsNames
<1> HIDE DEF d, x
<1>6. DocumentsKnown'
  BY <1>1, <1>2, <1>3, <1>4, <1>5 DEF DocumentsIInv, DocumentsSound, DocumentsKnown,
      DocumentsNames
<1>7. DocumentsOwned'
  BY <1>1, <1>2, <1>3, <1>4, <1>5 DEF DocumentsIInv, DocumentsSound, DocumentsOwned,
      DocumentsNames, DocumentsUploading
<1>8. DocumentsOrdered'
  <2>1. \A j \in Calls : documentCall'[j].pc = "inserting" =>
            documentCall'[j].key \in files' \cup named'
    BY <1>1, <1>4 DEF DocumentsIInv, DocumentsSound, DocumentsOrdered
  <2>2. \A j \in Calls : documentCall'[j].pc = "deleting" =>
          document'[documentCall'[j].doc] # Documents!NoRow
              /\ document'[documentCall'[j].doc].key = documentCall'[j].key
    BY <1>2, <1>3, <1>4, DocumentsDeleters DEF DocumentsIInv, DocumentsSound,
        DocumentsOrdered, DocumentsNames
  <2>3. \A c \in Ids : Documents!Live(c)' => c # d /\ Documents!Live(c)
            /\ document'[c] = document[c] /\ document[c] # Documents!NoRow
    BY <1>3, DocumentsRowKinds DEF DocumentsIInv, Documents!Live
  <2>4. ASSUME NEW j \in Calls, NEW c \in Ids,
               documentCall'[j].pc = "removing", Documents!Live(c)',
                   document'[c].key = documentCall'[j].key
        PROVE  documentCall'[j].key \in named'
    <3>1. CASE j = k
      BY <1>1, <1>4, <1>5, <2>3, <2>4, <3>1 DEF DocumentsNames
    <3>2. CASE j # k
      BY <1>1, <1>4, <2>3, <2>4, <3>2 DEF DocumentsIInv, DocumentsSound, DocumentsOrdered
    <3> QED
      BY <3>1, <3>2
  <2> QED
    BY <2>1, <2>2, <2>4 DEF DocumentsOrdered, DocumentsNames
<1>9. Documents!LiveRowsHaveFiles'
  BY <1>1, <1>3 DEF DocumentsIInv, DocumentsSound, Documents!LiveRowsHaveFiles,
      Documents!Live
<1>10. Documents!FilesAreReferenced'
  BY <1>1, <1>2, <1>3, <1>4 DEF DocumentsIInv, DocumentsSound,
      Documents!FilesAreReferenced, DocumentsNames, Documents!Live
<1> QED
  BY <1>6, <1>7, <1>8, <1>9, <1>10 DEF DocumentsSound

LEMMA DocumentsRemoveFileKeeps ==
  ASSUME DocumentsIInv, Documents!TypeOK', NEW k \in Calls, Documents!RemoveFile(k)
  PROVE  DocumentsSound'
<1> DEFINE x == documentCall[k].key
<1>1. documentCall[k].pc = "removing" /\ documentCall[k] # Documents!Idle
          /\ Documents!Goto(k, Documents!Idle) /\ UNCHANGED <<document, drawn, named>>
  BY DEF Documents!RemoveFile, Documents!Idle
<1>2. CASE x \in leaked' /\ leaked \subseteq leaked' /\ UNCHANGED files
  BY <1>1, <1>2, DocumentsCallEnds
<1>3. CASE files' = files \ {x} /\ UNCHANGED leaked
  <2>1. documentCall'[k] = Documents!Idle
            /\ \A j \in Calls \ {k} : documentCall'[j] = documentCall[j]
    BY <1>1, DocumentsCallMoves DEF DocumentsIInv
  <2>2. /\ \A d \in Ids : Documents!Live(d) /\ document[d].key = x => x \in named
        /\ \A j \in Calls : DocumentsUploading(j) /\ documentCall[j].key = x => x \in named
    BY <1>1 DEF DocumentsIInv, DocumentsSound, DocumentsOwned, DocumentsOrdered,
        DocumentsUploading
  <2> HIDE DEF x
  <2>3. DocumentsKnown'
    BY <1>1, <1>3, <2>1 DEF DocumentsIInv, DocumentsSound, DocumentsKnown
  <2>4. DocumentsOwned'
    BY <1>1, <2>1 DEF DocumentsIInv, DocumentsSound, DocumentsOwned, DocumentsNames,
        DocumentsUploading, Documents!Idle
  <2>5. DocumentsOrdered'
    BY <1>1, <1>3, <2>1, <2>2 DEF DocumentsIInv, DocumentsSound, DocumentsOrdered,
        DocumentsNames, Documents!Live, DocumentsUploading, Documents!Idle
  <2>6. Documents!LiveRowsHaveFiles'
    BY <1>1, <1>3, <2>2 DEF DocumentsIInv, DocumentsSound, Documents!LiveRowsHaveFiles,
        Documents!Live
  <2>7. Documents!FilesAreReferenced'
    BY <1>1, <1>3, <2>1 DEF DocumentsIInv, DocumentsSound, Documents!FilesAreReferenced,
        Documents!Live, x
  <2> QED
    BY <2>3, <2>4, <2>5, <2>6, <2>7 DEF DocumentsSound
<1> QED
  BY <1>1, <1>2, <1>3 DEF Documents!RemoveFile

LEMMA DocumentsStartDownloadKeeps ==
  ASSUME DocumentsIInv, Documents!TypeOK', NEW k \in Calls, Documents!StartDownload(k)
  PROVE  DocumentsSound'
<1>1. PICK d \in Ids :
        /\ Documents!Live(d) /\ Documents!Goto(k, [pc |-> "signing",
               key |-> document[d].key])
        /\ documentCall[k] = Documents!Idle /\ UNCHANGED <<files, document, drawn, named,
               leaked>>
  BY DEF Documents!StartDownload
<1>2. document[d] # Documents!NoRow
  BY <1>1, DocumentsRowKinds DEF DocumentsIInv
<1>3. /\ document[d].key \in drawn \cup named
      /\ \A j \in Calls : DocumentsUploading(j) /\ documentCall[j].key = document[d].key =>
             document[d].key \in named
  BY <1>2 DEF DocumentsIInv, DocumentsSound, DocumentsKnown, DocumentsOwned, DocumentsNames
<1> QED
  BY <1>1, <1>3, DocumentsCallEnds DEF Documents!Idle

LEMMA DocumentsRestartKeeps ==
  ASSUME DocumentsIInv, Documents!Restart
  PROVE  DocumentsSound'
<1>1. PICK done \in SUBSET Documents!AtStorage("storing"),
               lost \in SUBSET Documents!AtStorage("removing") :
        files' = (files \cup done) \ lost
  BY DEF Documents!Restart
<1>2. /\ leaked' = leaked \cup Documents!Cut /\ UNCHANGED <<document, drawn, named>>
      /\ \A k \in Calls : documentCall'[k] = Documents!Idle
  BY DEF Documents!Restart
<1>3. \A k \in Calls : documentCall[k].pc \in {"storing", "inserting", "removing"} =>
          documentCall[k].key \in Documents!Cut
  BY DEF Documents!Cut
<1>4. \A x \in done : x \in Documents!Cut /\ x \in drawn \cup named
  BY <1>3 DEF Documents!AtStorage, DocumentsIInv, DocumentsSound, DocumentsKnown,
      Documents!Idle
<1>5. \A x \in lost, d \in Ids : Documents!Live(d) /\ document[d].key = x => x \in named
  BY DEF Documents!AtStorage, DocumentsIInv, DocumentsSound, DocumentsOrdered
<1>6. DocumentsKnown'
  BY <1>1, <1>2, <1>4 DEF DocumentsIInv, DocumentsSound, DocumentsKnown
<1>7. DocumentsOwned'
  BY <1>2 DEF DocumentsIInv, DocumentsSound, DocumentsOwned, DocumentsNames,
      DocumentsUploading, Documents!Idle
<1>8. DocumentsOrdered'
  BY <1>2 DEF DocumentsOrdered, Documents!Idle
<1>9. Documents!LiveRowsHaveFiles'
  BY <1>1, <1>2, <1>5 DEF DocumentsIInv, DocumentsSound, Documents!LiveRowsHaveFiles,
      Documents!Live
<1>10. Documents!FilesAreReferenced'
  BY <1>1, <1>2, <1>3, <1>4 DEF DocumentsIInv, DocumentsSound,
      Documents!FilesAreReferenced, Documents!Live
<1> QED
  BY <1>6, <1>7, <1>8, <1>9, <1>10 DEF DocumentsSound

LEMMA DocumentsKeep == DocumentsIInv /\ [Documents!Next]_documents => DocumentsIInv'
<1> SUFFICES ASSUME DocumentsIInv, [Documents!Next]_documents PROVE DocumentsIInv'
  OBVIOUS
<1>1. Documents!TypeOK'
  BY DocumentsTypeStep DEF DocumentsIInv
<1>2. ASSUME NEW k \in Calls, Documents!DeleteFails(k) \/ Documents!Sign(k)
                 PROVE DocumentsSound'
  BY <1>1, <1>2, DocumentsCallEnds DEF Documents!DeleteFails, Documents!Sign
<1>3. ASSUME UNCHANGED documents PROVE DocumentsSound'
  <2>1. DocumentsKnown' /\ DocumentsOwned'
    BY <1>3 DEF documents, DocumentsIInv, DocumentsSound, DocumentsKnown, DocumentsOwned,
        DocumentsNames, DocumentsUploading
  <2>2. DocumentsOrdered' /\ Documents!LiveRowsHaveFiles' /\ Documents!FilesAreReferenced'
    BY <1>3 DEF documents, DocumentsIInv, DocumentsSound, DocumentsOrdered,
        DocumentsNames, Documents!Live, Documents!LiveRowsHaveFiles,
        Documents!FilesAreReferenced
  <2> QED
    BY <2>1, <2>2 DEF DocumentsSound
<1> QED
  BY <1>1, <1>2, <1>3, DocumentsStartUploadKeeps, DocumentsStoreFileKeeps,
      DocumentsInsertRowKeeps, DocumentsRegisterKeeps,
     DocumentsStartDeleteKeeps, DocumentsSoftDeleteKeeps, DocumentsRemoveFileKeeps,
         DocumentsStartDownloadKeeps, DocumentsRestartKeeps
  DEF Documents!Next, DocumentsIInv

LEMMA DocumentsInductive == Spec => []DocumentsIInv
<1>1. Init => DocumentsIInv
  BY DocumentsStart DEF Init
<1>2. DocumentsIInv /\ [Next]_vars => DocumentsIInv'
  BY DocumentsKeep, DocumentsOnly
<1> QED
  BY <1>1, <1>2, PTL DEF Spec

\* A document on the list can be downloaded, whatever uploads, deletions and
\* restarts overlap, but for keys that somebody named by hand.
THEOREM DocumentsHaveFiles == Spec => []LiveRowsHaveFiles
<1>1. DocumentsIInv => LiveRowsHaveFiles
  BY DEF DocumentsIInv, DocumentsSound, LiveRowsHaveFiles
<1> QED
  BY <1>1, DocumentsInductive, PTL

\* And no file is left without a row or a call, but where an error or a restart
\* cut a call off.
THEOREM FilesHaveDocuments == Spec => []FilesAreReferenced
<1>1. DocumentsIInv => FilesAreReferenced
  BY DEF DocumentsIInv, DocumentsSound, FilesAreReferenced
<1> QED
  BY <1>1, DocumentsInductive, PTL

-----------------------------------------------------------------------------
(* Work on contracts *)

\* An instance stands at a stage of its template, at the last with its date.
WorkStands(n) ==
  /\ n.currentStage \in Work!Stages(n.template)
  /\ n.moved = "yes" /\ n.currentStage = Work!LastStage(n.template) => n.completedAt = "set"

WorkRows ==
  /\ contract \in [One -> Work!Contract]
  /\ instance \in [One -> Work!Instance \cup {Work!NoInstance}]
  /\ task \in [One -> Work!Task \cup {Work!NoTask, Work!Deleted}]

\* Calls advance instances that are there, to stages of their templates, and
\* create instances of templates with stages.
WorkInv ==
  /\ WorkRows
  /\ workCall \in [Calls -> Work!Call]
  /\ \A i \in One : instance[i] # Work!NoInstance => WorkStands(instance[i])
  /\ \A k \in Calls : workCall[k].pc = "advance" =>
       /\ instance[workCall[k].instance] # Work!NoInstance
       /\ workCall[k].stage \in Work!Stages(instance[workCall[k].instance].template)
  /\ \A k \in Calls : workCall[k].pc = "instance" => Length[workCall[k].template] > 0

LEMMA WorkIdle == Work!Idle \in Work!Call /\ Work!Idle.pc = "idle"
BY DEF Work!Idle, Work!Call

LEMMA WorkFields ==
  ASSUME NEW c \in Work!Call
  PROVE  /\ c.pc \in {"contract", "template", "instance", "new task"} => c.contract \in One
         /\ c.pc = "instance" => c.template \in Values
         /\ c.pc = "advance" => c.instance \in One
         /\ c.pc = "task" => c.task \in One
<1>1. CASE c = Work!Idle
  BY <1>1, WorkIdle
<1>2. CASE c \in [pc : {"contract"}, contract : One] \cup [pc : {"template"}, contract : One]
                   \cup [pc : {"new task"}, contract : One]
  BY <1>2
<1>3. CASE c \in [pc : {"instance"}, contract : One, template : Values]
  BY <1>3
<1>4. CASE c \in [pc : {"advance"}, instance : One, stage : Work!Stage]
  BY <1>4
<1>5. CASE c \in [pc : {"task"}, task : One]
  BY <1>5
<1> QED
  BY <1>1, <1>2, <1>3, <1>4, <1>5 DEF Work!Call

LEMMA WorkStart == Work!Init => WorkInv
BY WorkIdle DEF Work!Init, WorkInv, WorkRows, Work!Contract, Work!NoInstance, Work!NoTask

\* One call moves, the others stay.
LEMMA WorkGoto ==
  ASSUME workCall \in [Calls -> Work!Call], NEW k \in Calls, NEW c \in Work!Call, Work!Goto(k, c)
  PROVE  /\ workCall' \in [Calls -> Work!Call]
         /\ workCall'[k] = c
         /\ \A j \in Calls \ {k} : workCall'[j] = workCall[j]
BY DEF Work!Goto

\* Templates of instances do not change, and no instance goes away.
LEMMA WorkAdvances ==
  ASSUME WorkInv, NEW k \in Calls, NEW c \in Work!Call, Work!Goto(k, c), c.pc # "advance",
         \A i \in One : instance[i] # Work!NoInstance =>
           instance'[i] # Work!NoInstance /\ instance'[i].template = instance[i].template
  PROVE  \A j \in Calls : workCall'[j].pc = "advance" =>
           /\ instance'[workCall'[j].instance] # Work!NoInstance
           /\ workCall'[j].stage \in Work!Stages(instance'[workCall'[j].instance].template)
<1> SUFFICES ASSUME NEW j \in Calls, workCall'[j].pc = "advance"
             PROVE  /\ instance'[workCall'[j].instance] # Work!NoInstance
                    /\ workCall'[j].stage \in Work!Stages(instance'[workCall'[j].instance].template)
  OBVIOUS
<1>1. workCall'[j] = workCall[j]
  BY WorkGoto DEF WorkInv
<1>2. workCall[j].instance \in One
  <2>1. workCall[j] \in Work!Call
    BY DEF WorkInv
  <2> QED
    BY <1>1, <2>1, WorkFields
<1> QED
  BY <1>1, <1>2 DEF WorkInv

\* The call that takes a step may begin work only on what it was to begin work
\* on, or on a contract that is there.
LEMMA WorkBeginners ==
  ASSUME WorkInv, NEW k \in Calls, NEW c \in Work!Call, Work!Goto(k, c), NEW x \in One,
         c.pc \in {"template", "instance", "new task"} =>
           (c.contract = x => k \in Work!Beginners(x))
  PROVE  Work!Beginners(x)' \subseteq Work!Beginners(x)
BY WorkGoto DEF WorkInv, Work!Beginners

-----------------------------------------------------------------------------

\* What NoNewWork asks for of one contract.
Rests(c) ==
  /\ ~Work!Live(c)'
  /\ Work!Beginners(c)' \subseteq Work!Beginners(c)
  /\ Work!Beginners(c) = {} => /\ Work!InstancesOn(c)' \subseteq Work!InstancesOn(c)
                               /\ Work!TasksOn(c)' \subseteq Work!TasksOn(c)

\* A read, or a call that gives up: no row is written.
LEMMA WorkRead ==
  ASSUME WorkInv, NEW k \in Calls, NEW c \in Work!Call, Work!Goto(k, c),
         UNCHANGED <<contract, instance, task>>,
         c.pc = "advance" => /\ instance[c.instance] # Work!NoInstance
                             /\ c.stage \in Work!Stages(instance[c.instance].template),
         c.pc \in {"template", "instance", "new task"} =>
           Work!Live(c.contract) \/ k \in Work!Beginners(c.contract),
         c.pc = "instance" => Length[c.template] > 0
  PROVE  WorkInv' /\ \A x \in One : ~Work!Live(x) => Rests(x)
<1>1. WorkInv'
  <2>1. /\ workCall' \in [Calls -> Work!Call] /\ workCall'[k] = c
        /\ \A j \in Calls \ {k} : workCall'[j] = workCall[j]
    BY WorkGoto DEF WorkInv
  <2>2. ASSUME NEW j \in Calls, workCall'[j].pc = "advance"
        PROVE  /\ instance'[workCall'[j].instance] # Work!NoInstance
               /\ workCall'[j].stage \in Work!Stages(instance'[workCall'[j].instance].template)
    <3>1. CASE j = k
      BY <2>1, <2>2, <3>1
    <3>2. CASE j # k
      BY <2>1, <2>2, <3>2 DEF WorkInv
    <3> QED
      BY <3>1, <3>2
  <2> QED
    BY <2>1, <2>2 DEF WorkInv, WorkRows, WorkStands
<1>2. ASSUME NEW x \in One, ~Work!Live(x) PROVE Rests(x)
  <2>1. Work!Beginners(x)' \subseteq Work!Beginners(x)
    BY <1>2, WorkBeginners
  <2> QED
    BY <1>2, <2>1 DEF Rests, Work!Live, Work!InstancesOn, Work!TasksOn
<1> QED
  BY <1>1, <1>2

LEMMA WorkKeep ==
  ASSUME WorkInv, Work!Next
  PROVE  WorkInv' /\ \A x \in One : ~Work!Live(x) => Rests(x)
<1> DEFINE Goal == WorkInv' /\ \A x \in One : ~Work!Live(x) => Rests(x)
<1>t. WorkRows /\ workCall \in [Calls -> Work!Call]
  BY DEF WorkInv
<1>k. \A k \in Calls : workCall[k] \in Work!Call
  BY <1>t
<1>1. ASSUME NEW k \in Calls, Work!ReadContract(k) PROVE Goal
  <2> PICK c \in One : Work!Goto(k, [pc |-> "contract", contract |-> c])
    BY <1>1 DEF Work!ReadContract, Work!Begin
  <2>1. [pc |-> "contract", contract |-> c] \in Work!Call
    BY DEF Work!Call
  <2> QED
    BY <1>1, <2>1, WorkRead DEF Work!ReadContract
<1>2. ASSUME NEW k \in Calls, Work!WriteContract(k) PROVE Goal
  <2> DEFINE c == workCall[k].contract
  <2>1. PICK new \in {[contract[c] EXCEPT !.life = "deleted"]}
                       \cup {Work!WithStatus(c, s) : s \in {"DRAFT", "SIGNED", "COMPLETED"}} :
          contract' = [contract EXCEPT ![c] = new]
    BY <1>2 DEF Work!WriteContract
  <2>2. c \in One
    BY <1>2, <1>k, WorkFields DEF Work!WriteContract
  <2>3. contract[c] \in Work!Contract
    BY <1>t, <2>2 DEF WorkRows
  <2>4. new \in Work!Contract /\ (new.life = contract[c].life \/ new.life = "deleted")
    BY <2>3 DEF Work!Contract, Work!WithStatus
  <2> HIDE DEF c
  <2>5. /\ contract' \in [One -> Work!Contract]
        /\ \A x \in One : contract'[x].life = contract[x].life \/ contract'[x].life = "deleted"
    BY <1>t, <2>1, <2>2, <2>4 DEF WorkRows
  <2>6. Work!Goto(k, Work!Idle) /\ UNCHANGED <<instance, task>>
    BY <1>2 DEF Work!WriteContract
  <2>7. WorkInv'
    BY <2>5, <2>6, WorkGoto, WorkIdle DEF WorkInv, WorkRows, WorkStands
  <2>8. ASSUME NEW x \in One, ~Work!Live(x) PROVE Rests(x)
    <3>1. Work!Beginners(x)' \subseteq Work!Beginners(x)
      BY <2>6, WorkBeginners, WorkIdle
    <3> QED
      BY <2>5, <2>6, <2>8, <3>1 DEF Rests, Work!Live, Work!InstancesOn, Work!TasksOn
  <2> QED
    BY <2>7, <2>8
<1>3. ASSUME NEW k \in Calls, Work!StartInstance(k) PROVE Goal
  <2> PICK c \in One : Work!Live(c) /\ Work!Goto(k, [pc |-> "template", contract |-> c])
    BY <1>3 DEF Work!StartInstance, Work!Begin
  <2>1. [pc |-> "template", contract |-> c] \in Work!Call
    BY DEF Work!Call
  <2> QED
    BY <1>3, <2>1, WorkRead DEF Work!StartInstance
<1>4. ASSUME NEW k \in Calls, Work!ReadTemplate(k) PROVE Goal
  <2>0. workCall[k].pc = "template" /\ UNCHANGED <<contract, instance, task>>
    BY <1>4 DEF Work!ReadTemplate
  <2>1. workCall[k].contract \in One
    BY <1>k, <2>0, WorkFields
  <2>2. PICK t \in Values :
          \/ /\ Work!Goto(k, [pc |-> "instance", contract |-> workCall[k].contract, template |-> t])
             /\ Length[t] > 0
          \/ Work!Goto(k, Work!Idle)
    BY <1>4 DEF Work!ReadTemplate
  <2>3. [pc |-> "instance", contract |-> workCall[k].contract, template |-> t] \in Work!Call
    BY <2>1 DEF Work!Call
  <2>4. k \in Work!Beginners(workCall[k].contract)
    BY <2>0 DEF Work!Beginners
  <2> QED
    BY <2>0, <2>2, <2>3, <2>4, WorkRead, WorkIdle
<1>5. ASSUME NEW k \in Calls, Work!CreateInstance(k) PROVE Goal
  <2>0. workCall[k].pc = "instance" /\ Work!Goto(k, Work!Idle) /\ UNCHANGED <<contract, task>>
    BY <1>5 DEF Work!CreateInstance
  <2> DEFINE t == workCall[k].template
             n == [contract |-> workCall[k].contract, template |-> t,
                   currentStage |-> Work!FirstStage(t), completedAt |-> "null", moved |-> "no"]
  <2>1. workCall[k].contract \in One /\ t \in Values /\ Length[t] > 0
    BY <1>k, <2>0, WorkFields DEF WorkInv
  <2>2. PICK i \in One : instance[i] = Work!NoInstance /\ instance' = [instance EXCEPT ![i] = n]
    BY <1>5 DEF Work!CreateInstance
  <2>3. Work!FirstStage(t) \in Work!Stages(t)
    BY <2>1, LengthAssumption DEF Work!FirstStage, Work!Stages
  <2>4. n \in Work!Instance /\ n.contract = workCall[k].contract /\ WorkStands(n)
    BY <2>1, <2>3 DEF Work!Instance, Work!Stage, WorkStands
  <2> HIDE DEF n
  <2>5. /\ instance' \in [One -> Work!Instance \cup {Work!NoInstance}]
        /\ instance'[i] = n
        /\ \A x \in One \ {i} : instance'[x] = instance[x]
    BY <1>t, <2>2, <2>4 DEF WorkRows
  <2>6. \A j \in Calls : workCall'[j].pc = "advance" =>
          /\ instance'[workCall'[j].instance] # Work!NoInstance
          /\ workCall'[j].stage \in Work!Stages(instance'[workCall'[j].instance].template)
    BY <2>0, <2>2, <2>5, WorkAdvances, WorkIdle
  <2>7. WorkInv'
    BY <1>t, <2>0, <2>4, <2>5, <2>6, WorkGoto, WorkIdle DEF WorkInv, WorkRows, WorkStands
  <2>8. ASSUME NEW x \in One, ~Work!Live(x) PROVE Rests(x)
    <3>1. Work!Beginners(x)' \subseteq Work!Beginners(x)
      BY <2>0, WorkBeginners, WorkIdle
    <3>2. Work!Beginners(x) = {} => n.contract # x
      BY <2>0, <2>4 DEF Work!Beginners
    <3>3. Work!Beginners(x) = {} => Work!InstancesOn(x)' \subseteq Work!InstancesOn(x)
      BY <2>5, <3>2 DEF Work!InstancesOn
    <3> QED
      BY <2>0, <2>8, <3>1, <3>3 DEF Rests, Work!Live, Work!TasksOn
  <2> QED
    BY <2>7, <2>8
<1>6. ASSUME NEW k \in Calls, Work!ReadInstance(k) PROVE Goal
  <2> PICK i \in One : /\ instance[i] # Work!NoInstance
                       /\ \E s \in Work!Stages(instance[i].template) :
                            Work!Goto(k, [pc |-> "advance", instance |-> i, stage |-> s])
    BY <1>6 DEF Work!ReadInstance, Work!Begin, Work!Reachable
  <2> PICK s \in Work!Stages(instance[i].template) :
        Work!Goto(k, [pc |-> "advance", instance |-> i, stage |-> s])
    OBVIOUS
  <2>1. instance[i].template \in Values
    BY <1>t DEF WorkRows, Work!Instance
  <2>2. [pc |-> "advance", instance |-> i, stage |-> s] \in Work!Call
    BY <2>1 DEF Work!Call, Work!Stage
  <2> QED
    BY <1>6, <2>2, WorkRead DEF Work!ReadInstance
<1>7. ASSUME NEW k \in Calls, Work!AdvanceInstance(k) PROVE Goal
  <2>0. workCall[k].pc = "advance" /\ Work!Goto(k, Work!Idle) /\ UNCHANGED <<contract, task>>
    BY <1>7 DEF Work!AdvanceInstance
  <2> DEFINE i == workCall[k].instance
             s == workCall[k].stage
             n == Work!Advanced(instance[i], s)
  <2>1. i \in One /\ instance[i] # Work!NoInstance /\ s \in Work!Stages(instance[i].template)
    BY <1>k, <2>0, WorkFields DEF WorkInv
  <2>2. instance[i] \in Work!Instance
    BY <1>t, <2>1 DEF WorkRows
  <2>3. instance' = [instance EXCEPT ![i] = n]
    BY <1>7 DEF Work!AdvanceInstance
  <2>s. s \in Work!Stage
    BY <2>1, <2>2 DEF Work!Instance, Work!Stage
  <2> HIDE DEF i, s
  <2>4. /\ n \in Work!Instance
        /\ n.contract = instance[i].contract /\ n.template = instance[i].template
        /\ n.currentStage = s
        /\ s = Work!LastStage(instance[i].template) => n.completedAt = "set"
    BY <2>2, <2>s DEF Work!Instance, Work!Advanced
  <2> HIDE DEF n
  <2>5. WorkStands(n) /\ n # Work!NoInstance
    <3>1. n.template \in Values
      BY <2>4 DEF Work!Instance
    <3>2. n # Work!NoInstance
      BY <2>4 DEF Work!Instance, Work!NoInstance
    <3> QED
      BY <2>1, <2>4, <3>2 DEF WorkStands
  <2>6. /\ instance' \in [One -> Work!Instance \cup {Work!NoInstance}]
        /\ instance'[i] = n
        /\ \A x \in One \ {i} : instance'[x] = instance[x]
    BY <1>t, <2>1, <2>3, <2>4 DEF WorkRows
  <2>7. \A j \in Calls : workCall'[j].pc = "advance" =>
          /\ instance'[workCall'[j].instance] # Work!NoInstance
          /\ workCall'[j].stage \in Work!Stages(instance'[workCall'[j].instance].template)
    BY <2>0, <2>4, <2>5, <2>6, WorkAdvances, WorkIdle
  <2>8. WorkInv'
    BY <1>t, <2>0, <2>5, <2>6, <2>7, WorkGoto, WorkIdle DEF WorkInv, WorkRows, WorkStands
  <2>9. ASSUME NEW x \in One, ~Work!Live(x) PROVE Rests(x)
    <3>1. Work!Beginners(x)' \subseteq Work!Beginners(x)
      BY <2>0, WorkBeginners, WorkIdle
    <3>2. Work!InstancesOn(x)' \subseteq Work!InstancesOn(x)
      BY <2>1, <2>4, <2>6 DEF Work!InstancesOn
    <3> QED
      BY <2>0, <2>9, <3>1, <3>2 DEF Rests, Work!Live, Work!TasksOn
  <2> QED
    BY <2>8, <2>9
<1>8. ASSUME NEW k \in Calls, Work!StartTask(k) PROVE Goal
  <2> PICK c \in One : Work!Live(c) /\ Work!Goto(k, [pc |-> "new task", contract |-> c])
    BY <1>8 DEF Work!StartTask, Work!Begin
  <2>1. [pc |-> "new task", contract |-> c] \in Work!Call
    BY DEF Work!Call
  <2> QED
    BY <1>8, <2>1, WorkRead DEF Work!StartTask
<1>9. ASSUME NEW k \in Calls, UNCHANGED <<contract, instance>>, Work!Goto(k, Work!Idle),
             task' \in [One -> Work!Task \cup {Work!NoTask, Work!Deleted}],
             \A x \in One : Work!Beginners(x) = {} => Work!TasksOn(x)' \subseteq Work!TasksOn(x)
      PROVE  Goal
  <2>1. WorkInv'
    BY <1>9, WorkGoto, WorkIdle DEF WorkInv, WorkRows, WorkStands
  <2>2. ASSUME NEW x \in One, ~Work!Live(x) PROVE Rests(x)
    <3>1. Work!Beginners(x)' \subseteq Work!Beginners(x)
      BY <1>9, WorkBeginners, WorkIdle
    <3> QED
      BY <1>9, <2>2, <3>1 DEF Rests, Work!Live, Work!InstancesOn
  <2> QED
    BY <2>1, <2>2
<1>10. ASSUME NEW k \in Calls, Work!CreateTask(k) PROVE Goal
  <2>0. workCall[k].pc = "new task" /\ Work!Goto(k, Work!Idle) /\ UNCHANGED <<contract, instance>>
    BY <1>10 DEF Work!CreateTask
  <2>1. workCall[k].contract \in One
    BY <1>k, <2>0, WorkFields
  <2>2. PICK t \in One, s \in {"OPEN", "DONE"} :
          task' = [task EXCEPT ![t] = [state |-> "there", contract |-> workCall[k].contract,
                                       status |-> s, completedAt |-> "null"]]
    BY <1>10 DEF Work!CreateTask
  <2>3. [state |-> "there", contract |-> workCall[k].contract, status |-> s,
         completedAt |-> "null"] \in Work!Task
    BY <2>1 DEF Work!Task
  <2>4. task' \in [One -> Work!Task \cup {Work!NoTask, Work!Deleted}]
    BY <1>t, <2>2, <2>3 DEF WorkRows
  <2>5. ASSUME NEW x \in One, Work!Beginners(x) = {} PROVE Work!TasksOn(x)' \subseteq Work!TasksOn(x)
    <3>1. workCall[k].contract # x
      BY <2>0, <2>5 DEF Work!Beginners
    <3> QED
      BY <1>t, <2>2, <3>1 DEF WorkRows, Work!TasksOn
  <2> QED
    BY <1>9, <2>0, <2>4, <2>5
<1>11. ASSUME NEW k \in Calls, Work!ReadTask(k) PROVE Goal
  <2> PICK t \in One : Work!Goto(k, [pc |-> "task", task |-> t])
    BY <1>11 DEF Work!ReadTask, Work!Begin
  <2>1. [pc |-> "task", task |-> t] \in Work!Call
    BY DEF Work!Call
  <2> QED
    BY <1>11, <2>1, WorkRead DEF Work!ReadTask
<1>12. ASSUME NEW k \in Calls, Work!WriteTask(k) PROVE Goal
  <2> DEFINE t == workCall[k].task
  <2>0. workCall[k].pc = "task" /\ Work!Goto(k, Work!Idle) /\ UNCHANGED <<contract, instance>>
    BY <1>12 DEF Work!WriteTask
  <2>1. t \in One
    BY <1>k, <2>0, WorkFields
  <2>2. \/ task[t].state = "there" /\ \E new \in Work!Patched(task[t]) : task' = [task EXCEPT ![t] = new]
        \/ task' = [task EXCEPT ![t] = Work!Deleted]
        \/ UNCHANGED task
    BY <1>12 DEF Work!WriteTask
  <2> HIDE DEF t
  <2>3. task[t] \in Work!Task \cup {Work!NoTask, Work!Deleted}
    BY <1>t, <2>1 DEF WorkRows
  <2>4. Work!Deleted.state = "deleted" /\ Work!NoTask.state = "none"
    BY DEF Work!Deleted, Work!NoTask
  <2>5. ASSUME task[t].state = "there", NEW new \in Work!Patched(task[t])
        PROVE  new \in Work!Task /\ new.contract = task[t].contract
    <3>1. task[t] \in Work!Task
      BY <2>3, <2>4, <2>5
    <3> QED
      BY <3>1 DEF Work!Patched, Work!Task
  <2>6. CASE task[t].state = "there" /\ \E new \in Work!Patched(task[t]) : task' = [task EXCEPT ![t] = new]
    <3> PICK new \in Work!Patched(task[t]) : task' = [task EXCEPT ![t] = new]
      BY <2>6
    <3>1. task' \in [One -> Work!Task \cup {Work!NoTask, Work!Deleted}]
      BY <1>t, <2>1, <2>5, <2>6 DEF WorkRows
    <3>2. task'[t] = new /\ \A x \in One \ {t} : task'[x] = task[x]
      BY <1>t, <2>1 DEF WorkRows
    <3>3. \A x \in One : Work!TasksOn(x)' \subseteq Work!TasksOn(x)
      BY <2>5, <2>6, <3>2 DEF Work!TasksOn
    <3> QED
      BY <1>9, <2>0, <3>1, <3>3
  <2>7. CASE task' = [task EXCEPT ![t] = Work!Deleted]
    <3>1. task' \in [One -> Work!Task \cup {Work!NoTask, Work!Deleted}]
      BY <1>t, <2>1, <2>7 DEF WorkRows
    <3>2. task'[t] = Work!Deleted /\ \A x \in One \ {t} : task'[x] = task[x]
      BY <1>t, <2>1, <2>7 DEF WorkRows
    <3>3. \A x \in One : Work!TasksOn(x)' \subseteq Work!TasksOn(x)
      BY <2>4, <3>2 DEF Work!TasksOn
    <3> QED
      BY <1>9, <2>0, <3>1, <3>3
  <2>8. CASE UNCHANGED task
    BY <1>9, <1>t, <2>0, <2>8 DEF WorkRows, Work!TasksOn
  <2> QED
    BY <2>2, <2>6, <2>7, <2>8
<1>13. ASSUME Work!CreateTemplate \/ Work!UpdateTemplate \/ Work!Restart PROVE Goal
  <2>1. /\ UNCHANGED <<contract, instance, task>>
        /\ UNCHANGED workCall \/ workCall' = [k \in Calls |-> Work!Idle]
    BY <1>13 DEF Work!CreateTemplate, Work!UpdateTemplate, Work!Restart
  <2>2. \A k \in Calls : workCall'[k] = workCall[k] \/ workCall'[k].pc = "idle"
    BY <2>1, WorkIdle
  <2>3. WorkInv'
    BY <1>t, <2>1, <2>2, WorkIdle DEF WorkInv, WorkRows, WorkStands
  <2>4. ASSUME NEW x \in One, ~Work!Live(x) PROVE Rests(x)
    BY <2>1, <2>2, <2>4 DEF Rests, Work!Live, Work!Beginners, Work!InstancesOn, Work!TasksOn
  <2> QED
    BY <2>3, <2>4
<1> HIDE DEF Goal
<1>14. Goal
  BY <1>1, <1>2, <1>3, <1>4, <1>5, <1>6, <1>7, <1>8, <1>10, <1>11, <1>12, <1>13 DEF Work!Next
<1> QED
  BY <1>14 DEF Goal

LEMMA WorkInductive == Spec => []WorkInv
<1>1. Init => WorkInv
  BY WorkStart DEF Init
<1>2. WorkInv /\ Work!Next => WorkInv'
  BY WorkKeep
<1>3. WorkInv /\ UNCHANGED work => WorkInv'
  BY DEF WorkInv, WorkRows, WorkStands, work
<1> QED
  BY <1>1, <1>2, <1>3, WorkOnly, PTL DEF Spec

\* Deletion of a contract ends the work on it, for any number of calls.
THEOREM DeletionEndsWork == Spec => DeletedContractsRest
<1>1. WorkInv /\ [Next]_vars => [Work!NoNewWork]_work
  BY WorkOnly, WorkKeep DEF Rests, Work!NoNewWork
<1> QED
  BY <1>1, WorkInductive, PTL DEF Spec, DeletedContractsRest

\* The last stage has its date, whatever advances overlap.
THEOREM TheEndIsCompleted == Spec => []EndedIsCompleted
<1>1. WorkInv => EndedIsCompleted
  BY DEF WorkInv, WorkStands, EndedIsCompleted, Work!EndedIsCompleted
<1> QED
  BY <1>1, WorkInductive, PTL

-----------------------------------------------------------------------------
(* Contract requests *)

\* Calls are about requests that are there; updates have found theirs editable,
\* and a verdict is never that of the request's own collaborator.
RequestsInv ==
  /\ request \in [One -> Requests!Row \cup {Requests!NoRequest}]
  /\ requestCall \in [Calls -> Requests!Call]
  /\ live \subseteq One
  /\ \A k \in Calls : requestCall[k] # Requests!Idle =>
       /\ request[requestCall[k].request] # Requests!NoRequest
       /\ requestCall[k].pc = "update" => requestCall[k].seen \in Requests!Editable
       /\ requestCall[k].pc # "update" =>
            requestCall[k].user # request[requestCall[k].request].collaborator
  /\ \A r \in One : request[r] # Requests!NoRequest => request[r].collaborator \notin request[r].reviewer

LEMMA RequestsStart == Requests!Init => RequestsInv
BY DEF Requests!Init, RequestsInv, Requests!NoRequest, Requests!Idle, Requests!Call

LEMMA RequestsIdle == Requests!Idle \in Requests!Call /\ Requests!Idle.pc = "idle"
BY DEF Requests!Idle, Requests!Call

\* One call moves, the others stay.
LEMMA RequestsGoto ==
  ASSUME requestCall \in [Calls -> Requests!Call], NEW k \in Calls, NEW c \in Requests!Call,
         Requests!Goto(k, c)
  PROVE  /\ requestCall' \in [Calls -> Requests!Call]
         /\ requestCall'[k] = c
         /\ \A j \in Calls \ {k} : requestCall'[j] = requestCall[j]
BY DEF Requests!Goto

\* A call goes on or ends, no request has changed its status or collaborator.
LEMMA RequestsQuiet ==
  ASSUME RequestsInv, NEW k \in Calls, NEW c \in Requests!Call, Requests!Goto(k, c),
         UNCHANGED request, live' \subseteq One,
         c # Requests!Idle =>
           /\ request[c.request] # Requests!NoRequest
           /\ c.pc = "update" => c.seen \in Requests!Editable
           /\ c.pc # "update" => c.user # request[c.request].collaborator
  PROVE  RequestsInv'
BY RequestsGoto DEF RequestsInv

\* A write by id to a row that is there.
LEMMA RequestsWrite ==
  ASSUME RequestsInv, NEW k \in Calls, requestCall[k] # Requests!Idle,
         Requests!Goto(k, Requests!Idle), NEW row \in Requests!Row,
         request' = [request EXCEPT ![requestCall[k].request] = row],
         row.collaborator = request[requestCall[k].request].collaborator,
         row.collaborator \notin row.reviewer, live' \subseteq One
  PROVE  RequestsInv'
<1> DEFINE r == requestCall[k].request
<1>1. Requests!Idle \in Requests!Call /\ requestCall[k] \in Requests!Call
  BY DEF Requests!Call, RequestsInv
<1>2. r \in One
  BY <1>1 DEF Requests!Call, Requests!Idle
<1>3. /\ request' \in [One -> Requests!Row \cup {Requests!NoRequest}]
      /\ request'[r] = row
      /\ \A x \in One \ {r} : request'[x] = request[x]
  BY <1>2 DEF RequestsInv
<1>4. row # Requests!NoRequest
  BY DEF Requests!Row, Requests!NoRequest
<1>5. \A j \in Calls : requestCall'[j] # Requests!Idle => requestCall'[j] = requestCall[j]
  BY <1>1, RequestsGoto DEF RequestsInv
<1>6. \A j \in Calls : requestCall[j] # Requests!Idle => requestCall[j].request \in One
  BY DEF RequestsInv, Requests!Call, Requests!Idle
<1> HIDE DEF r
<1>7. ASSUME NEW j \in Calls, requestCall'[j] # Requests!Idle
      PROVE  /\ request'[requestCall'[j].request] # Requests!NoRequest
             /\ request'[requestCall'[j].request].collaborator
                  = request[requestCall[j].request].collaborator
  <2>1. requestCall'[j] = requestCall[j]
    BY <1>5, <1>7
  <2>2. CASE requestCall[j].request = r
    BY <1>3, <1>4, <2>1, <2>2 DEF r
  <2>3. CASE requestCall[j].request # r
    BY <1>3, <1>6, <1>7, <2>1, <2>3 DEF RequestsInv
  <2> QED
    BY <2>2, <2>3
<1>8. requestCall' \in [Calls -> Requests!Call]
  BY <1>1, RequestsGoto DEF RequestsInv
<1>9. \A x \in One : request'[x] # Requests!NoRequest => request'[x].collaborator \notin request'[x].reviewer
  BY <1>2, <1>3 DEF RequestsInv
<1> QED
  BY <1>3, <1>5, <1>7, <1>8, <1>9 DEF RequestsInv

\* The row of a request that is there is a row.
LEMMA RequestsRow ==
  ASSUME RequestsInv, NEW k \in Calls, requestCall[k] # Requests!Idle
  PROVE  /\ requestCall[k] \in Requests!Call
         /\ requestCall[k].request \in One
         /\ request[requestCall[k].request] \in Requests!Row
<1>1. requestCall[k] \in Requests!Call /\ requestCall[k].request \in One
  BY DEF RequestsInv, Requests!Call, Requests!Idle
<1> QED
  BY <1>1 DEF RequestsInv

\* A verdict, and what it leaves of the row.
LEMMA RequestsVerdict ==
  ASSUME RequestsInv, NEW k \in Calls,
         requestCall[k].pc \in {"review", "approve", "approve with", "reject"},
         NEW s \in Requests!Statuses, NEW c \in SUBSET One, Requests!Verdict(k, s, c),
         live' \subseteq One
  PROVE  /\ RequestsInv'
         /\ \A r \in One : request[r] # Requests!NoRequest =>
              /\ request'[r].content = request[r].content
              /\ request'[r].status \in {request[r].status, s}
<1> DEFINE r == requestCall[k].request
           row == [request[r] EXCEPT !.status = s, !.reviewer = {requestCall[k].user}, !.approved = c]
<1>1. requestCall[k] # Requests!Idle
  BY RequestsIdle
<1>2. /\ requestCall[k] \in Requests!Call /\ r \in One /\ request[r] \in Requests!Row
      /\ requestCall[k].user # request[r].collaborator
  BY <1>1, RequestsRow DEF RequestsInv
<1>3. requestCall[k].user \in Ids
  BY <1>1, <1>2 DEF Requests!Call
<1>4. request' = [request EXCEPT ![r] = row] /\ Requests!Goto(k, Requests!Idle)
  BY DEF Requests!Verdict
<1>5. /\ row \in Requests!Row
      /\ row.collaborator = request[r].collaborator /\ row.reviewer = {requestCall[k].user}
      /\ row.content = request[r].content /\ row.status = s
  BY <1>2, <1>3 DEF Requests!Row
<1>6. request'[r] = row /\ \A x \in One \ {r} : request'[x] = request[x]
  BY <1>2, <1>4 DEF RequestsInv
<1> HIDE DEF row
<1>7. RequestsInv'
  BY <1>1, <1>2, <1>4, <1>5, RequestsWrite
<1> QED
  BY <1>2, <1>5, <1>6, <1>7

\* What one step means: the calls keep the invariant, and what was reviewed is frozen.
LEMMA RequestsKeep ==
  ASSUME RequestsInv, Requests!Next
  PROVE  RequestsInv' /\ Requests!Frozen
<1> DEFINE Kept == \A r \in One : request[r] # Requests!NoRequest =>
                     /\ request[r].status \notin Requests!Editable /\ ~Requests!Updating(r) =>
                          /\ request'[r].content = request[r].content
                          /\ request'[r].status \notin Requests!Editable
                     /\ request'[r] # Requests!NoRequest
<1>l. live \subseteq One /\ live' \subseteq One
  BY DEF RequestsInv, Requests!Next, Requests!ReadForUpdate, Requests!Update,
     Requests!ReadForVerdict, Requests!FindContract, Requests!Review, Requests!Approve,
     Requests!Reject, Requests!Verdict, Requests!CreateCollaborator,
     Requests!UpdateCollaborator, Requests!CreateRequest, Requests!DeleteContract,
     Requests!Restart
<1>q. ASSUME UNCHANGED request PROVE Kept
  BY <1>q
<1> HIDE DEF Kept
<1>1. ASSUME NEW k \in Calls, Requests!ReadForUpdate(k) PROVE RequestsInv' /\ Kept
  <2> PICK r \in One :
        /\ request[r] # Requests!NoRequest /\ request[r].status \in Requests!Editable
        /\ Requests!Goto(k, [pc |-> "update", request |-> r, seen |-> request[r].status])
    BY <1>1 DEF Requests!ReadForUpdate, Requests!Begin, Requests!IsEditable
  <2>1. [pc |-> "update", request |-> r, seen |-> request[r].status] \in Requests!Call
    BY DEF RequestsInv, Requests!Row, Requests!Call
  <2> QED
    BY <1>1, <1>l, <1>q, <2>1, RequestsQuiet DEF Requests!ReadForUpdate
<1>2. ASSUME NEW k \in Calls, Requests!Update(k) PROVE RequestsInv' /\ Kept
  <2> DEFINE r == requestCall[k].request
  <2>1. PICK x \in Values : request' = [request EXCEPT ![r].content = x]
    BY <1>2 DEF Requests!Update
  <2>2. requestCall[k] # Requests!Idle /\ requestCall[k].pc = "update"
    BY <1>2 DEF Requests!Update, Requests!Idle
  <2>3. r \in One /\ request[r] \in Requests!Row
    BY <2>2, RequestsRow
  <2> DEFINE row == [request[r] EXCEPT !.content = x]
  <2>4. request' = [request EXCEPT ![r] = row]
    BY <2>1
  <2>5. /\ row \in Requests!Row /\ row.collaborator = request[r].collaborator
        /\ row.reviewer = request[r].reviewer
    BY <2>3 DEF Requests!Row
  <2>6. request'[r] = row /\ \A y \in One \ {r} : request'[y] = request[y]
    BY <2>3, <2>4 DEF RequestsInv
  <2>7. row # Requests!NoRequest /\ request[r] # Requests!NoRequest
    BY <2>3, <2>5 DEF Requests!Row, Requests!NoRequest
  <2>8. Requests!Updating(r)
    BY <2>2 DEF Requests!Updating, RequestsInv
  <2> HIDE DEF row
  <2>9. RequestsInv'
    BY <1>2, <2>2, <2>3, <2>4, <2>5, <2>7, <1>l, RequestsWrite DEF Requests!Update, RequestsInv
  <2>10. Kept
    BY <2>6, <2>7, <2>8 DEF Kept
  <2> QED
    BY <2>9, <2>10
<1>3. ASSUME NEW k \in Calls, Requests!ReadForVerdict(k) PROVE RequestsInv' /\ Kept
  <2> PICK r \in One, u \in Ids, v \in {"review", "approve", "reject"} :
        /\ request[r] # Requests!NoRequest /\ request[r].collaborator # u
        /\ Requests!Goto(k, [pc |-> v, request |-> r, user |-> u])
    BY <1>3 DEF Requests!ReadForVerdict, Requests!Begin
  <2>1. [pc |-> v, request |-> r, user |-> u] \in Requests!Call
    BY DEF Requests!Call
  <2> QED
    BY <1>3, <1>l, <1>q, <2>1, RequestsQuiet DEF Requests!ReadForVerdict
<1>4. ASSUME NEW k \in Calls, Requests!FindContract(k) PROVE RequestsInv' /\ Kept
  <2>1. requestCall[k] # Requests!Idle /\ requestCall[k].pc = "approve"
    BY <1>4, RequestsIdle DEF Requests!FindContract
  <2> PICK c \in live :
        Requests!Goto(k, [pc |-> "approve with", request |-> requestCall[k].request,
                          user |-> requestCall[k].user, contract |-> c])
    BY <1>4 DEF Requests!FindContract
  <2>2. [pc |-> "approve with", request |-> requestCall[k].request,
         user |-> requestCall[k].user, contract |-> c] \in Requests!Call
    <3>1. /\ requestCall[k].request \in One /\ requestCall[k].user \in Ids
          /\ requestCall[k] \in Requests!Call
      BY <2>1, RequestsRow DEF Requests!Call
    <3>2. c \in One
      BY <1>l
    <3> QED
      BY <3>1, <3>2 DEF Requests!Call
  <2> QED
    BY <1>4, <1>l, <1>q, <2>1, <2>2, RequestsQuiet DEF Requests!FindContract, RequestsInv
<1>5. ASSUME NEW k \in Calls, Requests!Review(k) \/ Requests!Approve(k) \/ Requests!Reject(k)
      PROVE  RequestsInv' /\ Kept
  <2>1. PICK s \in {"IN_REVIEW", "APPROVED", "REJECTED"}, c \in SUBSET One : Requests!Verdict(k, s, c)
    <3>1. requestCall[k] # Requests!Idle
      BY <1>5, RequestsIdle DEF Requests!Review, Requests!Approve, Requests!Reject
    <3>2. Requests!Kept(k) \in SUBSET One
      BY <3>1, RequestsRow DEF Requests!Kept, Requests!Row
    <3>3. requestCall[k].pc = "approve with" => requestCall[k].contract \in One
      BY <3>1, RequestsRow DEF Requests!Call
    <3> QED
      BY <1>5, <3>2, <3>3 DEF Requests!Review, Requests!Approve, Requests!Reject
  <2>2. /\ requestCall[k].pc \in {"review", "approve", "approve with", "reject"}
        /\ s \in Requests!Statuses /\ s \notin Requests!Editable
    BY <1>5 DEF Requests!Review, Requests!Approve, Requests!Reject, Requests!Statuses, Requests!Editable
  <2>3. /\ RequestsInv'
        /\ \A r \in One : request[r] # Requests!NoRequest =>
             /\ request'[r].content = request[r].content
             /\ request'[r].status \in {request[r].status, s}
    BY <1>l, <2>1, <2>2, RequestsVerdict
  <2>4. \A r \in One : request[r] # Requests!NoRequest => request'[r] # Requests!NoRequest
    BY <2>1 DEF Requests!Verdict, RequestsInv, Requests!NoRequest, Requests!Row
  <2> QED
    BY <2>2, <2>3, <2>4 DEF Kept
<1>6. ASSUME Requests!CreateRequest PROVE RequestsInv' /\ Kept
  <2> PICK r \in One, u \in Ids, x \in Values :
        /\ request[r] = Requests!NoRequest
        /\ request' = [request EXCEPT ![r] =
             [status |-> "SUBMITTED", collaborator |-> u, content |-> x,
              reviewer |-> {}, approved |-> Requests!NoContract]]
    BY <1>6 DEF Requests!CreateRequest
  <2> DEFINE row == [status |-> "SUBMITTED", collaborator |-> u, content |-> x,
                     reviewer |-> {}, approved |-> Requests!NoContract]
  <2>1. row \in Requests!Row /\ row # Requests!NoRequest /\ row.reviewer = {}
    BY DEF Requests!Row, Requests!NoContract, Requests!NoRequest, Requests!Statuses
  <2>2. /\ request' \in [One -> Requests!Row \cup {Requests!NoRequest}]
        /\ request'[r] = row /\ \A y \in One \ {r} : request'[y] = request[y]
    BY <2>1 DEF RequestsInv
  <2> HIDE DEF row
  <2>3. requestCall' = requestCall
    BY <1>6 DEF Requests!CreateRequest
  <2>4. ASSUME NEW k \in Calls, requestCall[k] # Requests!Idle
        PROVE  request'[requestCall[k].request] = request[requestCall[k].request]
    BY <2>2, <2>4, RequestsRow DEF RequestsInv
  <2>5. RequestsInv'
    BY <1>l, <2>1, <2>2, <2>3, <2>4 DEF RequestsInv
  <2> QED
    BY <2>2, <2>5 DEF Kept
<1>7. ASSUME Requests!CreateCollaborator \/ Requests!UpdateCollaborator \/ Requests!DeleteContract
      PROVE  RequestsInv' /\ Kept
  <2>1. UNCHANGED <<request, requestCall>> /\ live' \subseteq One
    BY <1>7, <1>l DEF Requests!CreateCollaborator, Requests!UpdateCollaborator, Requests!DeleteContract
  <2> QED
    BY <2>1, <1>q DEF RequestsInv
<1>8. ASSUME Requests!Restart PROVE RequestsInv' /\ Kept
  BY <1>8, <1>q, RequestsIdle DEF Requests!Restart, RequestsInv
<1>9. RequestsInv' /\ Kept
  BY <1>1, <1>2, <1>3, <1>4, <1>5, <1>6, <1>7, <1>8 DEF Requests!Next
<1> QED
  BY <1>9 DEF Kept, Requests!Frozen, RequestsInv

LEMMA RequestsStill == RequestsInv /\ UNCHANGED requests => RequestsInv' /\ Requests!Frozen
BY DEF RequestsInv, Requests!Frozen, requests

LEMMA RequestsInductive == Spec => []RequestsInv
<1>1. Init => RequestsInv
  BY RequestsStart DEF Init
<1>2. RequestsInv /\ Requests!Next => RequestsInv'
  BY RequestsKeep
<1>3. RequestsInv /\ UNCHANGED requests => RequestsInv'
  BY RequestsStill
<1> QED
  BY <1>1, <1>2, <1>3, RequestsOnly, PTL DEF Spec

\* What is approved is what the reviewer has read, and never one's own request.
THEOREM ReviewsHold == Spec => ReviewedRequestsAreFrozen
<1>1. RequestsInv /\ [Next]_vars => [Requests!Frozen]_requests
  BY RequestsOnly, RequestsKeep
<1> QED
  BY <1>1, RequestsInductive, PTL DEF Spec, ReviewedRequestsAreFrozen

-----------------------------------------------------------------------------
(* Mail *)

\* Where a call stands, what the provider and the log know of its mail.
MailKnown(m) ==
  /\ Mails!Logged(m, "SENT") => /\ m \in accepted
                                /\ mail[m].pc \in {"sent", "log failed", "failed", "lost"}
  /\ Mails!Logged(m, "SKIPPED") => mail[m].pc = "skipped"
  /\ m \in accepted => mail[m].pc \in {"log sent", "log failed", "sent", "failed", "lost"}
  /\ mail[m].pc = "log sent" => m \in accepted
  /\ mail[m].pc = "sent" => Mails!Logged(m, "SENT")
  /\ mail[m].pc = "failed" /\ m \in accepted => Mails!Logged(m, "FAILED")

\* And what it has found out about the recipient's preferences.
MailAsked(m) ==
  /\ mail[m].pc = "specific" => (mail[m].wanted = "yes" <=> Mails!Wanted)
  /\ mail[m].pc = "wildcard" => specific = "unset" /\ (mail[m].wanted = "yes" <=> Mails!Wanted)
  /\ mail[m].pc \in {"new", "template", "sending"} => mail[m].wanted = "yes"
  /\ m \in accepted => mail[m].wanted = "yes"
  /\ mail[m].pc \in {"log skipped", "skipped"} => mail[m].wanted = "no"

MailGood(m) == MailKnown(m) /\ (mail[m].stable = "yes" => MailAsked(m))

MailsInv ==
  /\ mail \in [Calls -> Mails!Mail]
  /\ specific \in Mails!Preference /\ wildcard \in Mails!Preference
  /\ \A m \in Calls : MailGood(m)

LEMMA MailsStart == Mails!Init => MailsInv
<1> SUFFICES ASSUME Mails!Init PROVE MailsInv
  OBVIOUS
<1>1. [pc |-> "new", stable |-> "yes", wanted |-> "yes"] \in Mails!Mail
  BY DEF Mails!Mail
<1>2. mail \in [Calls -> Mails!Mail]
  BY <1>1 DEF Mails!Init
<1>3. ASSUME NEW m \in Calls PROVE MailGood(m)
  <2>1. mail[m].pc = "new" /\ mail[m].wanted = "yes"
    BY DEF Mails!Init
  <2> QED
    BY <2>1 DEF Mails!Init, MailGood, MailKnown, MailAsked, Mails!Logged
<1> QED
  BY <1>2, <1>3 DEF MailsInv, Mails!Init, Mails!Preference

LEMMA MailsTyped ==
  ASSUME mail \in [Calls -> Mails!Mail], Mails!Next
  PROVE  mail' \in [Calls -> Mails!Mail]
<1>1. ASSUME NEW m \in Calls, NEW p \in {"template", "log skipped", "wildcard", "sending", "failed",
                 "log sent", "log failed", "sent", "lost", "skipped"}, Mails!Goto(m, p)
      PROVE  mail' \in [Calls -> Mails!Mail]
  BY <1>1 DEF Mails!Goto, Mails!Mail, Mails!Final
<1>2. ASSUME NEW m \in Calls, Mails!Start(m) PROVE mail' \in [Calls -> Mails!Mail]
  <2>1. [pc |-> "specific", stable |-> "yes", wanted |-> IF Mails!Wanted THEN "yes" ELSE "no"]
          \in Mails!Mail
    BY DEF Mails!Mail
  <2> QED
    BY <1>1, <1>2, <2>1 DEF Mails!Start
<1>3. CASE \E m \in Calls : \/ Mails!ReadSpecific(m) \/ Mails!ReadWildcard(m)
                            \/ Mails!FindTemplate(m) \/ Mails!Send(m) \/ Mails!LogSent(m)
                            \/ Mails!LogFailed(m) \/ Mails!LogSkipped(m)
  BY <1>1, <1>3 DEF Mails!ReadSpecific, Mails!ReadWildcard, Mails!FindTemplate, Mails!Send,
     Mails!LogSent, Mails!LogFailed, Mails!LogSkipped, Mails!After, Mails!Caught
<1>4. CASE Mails!SetPreference
  BY <1>4 DEF Mails!SetPreference, Mails!Mail
<1>5. CASE Mails!SetTemplate
  BY <1>5 DEF Mails!SetTemplate
<1>6. CASE Mails!Restart
  BY <1>6 DEF Mails!Restart, Mails!Mail, Mails!Final
<1> QED
  BY <1>2, <1>3, <1>4, <1>5, <1>6 DEF Mails!Next

LEMMA PreferencesTyped ==
  ASSUME MailsInv, Mails!Next
  PROVE  specific' \in Mails!Preference /\ wildcard' \in Mails!Preference
BY DEF MailsInv, Mails!Preference, Mails!Next, Mails!Start, Mails!ReadSpecific,
    Mails!ReadWildcard, Mails!FindTemplate, Mails!Send, Mails!LogSent, Mails!LogFailed,
    Mails!LogSkipped, Mails!SetPreference, Mails!SetTemplate, Mails!Restart, Mails!Settings

\* Goto moves one call and keeps what it has found out.
LEMMA MailsMove ==
  ASSUME mail \in [Calls -> Mails!Mail], NEW m \in Calls, NEW p, Mails!Goto(m, p), NEW x \in Calls
  PROVE  /\ x # m => mail'[x] = mail[x]
         /\ mail'[m].pc = p
         /\ mail'[m].stable = mail[m].stable
         /\ mail'[m].wanted = mail[m].wanted
BY DEF Mails!Goto, Mails!Mail

\* What a call writes to the log is about its own mail.
LEMMA MailsWritten ==
  ASSUME NEW m, NEW s, Mails!Write(m, s), NEW x, NEW t
  PROVE  ([mail |-> x, status |-> t] \in log')
           <=> ([mail |-> x, status |-> t] \in log) \/ (x = m /\ t = s)
BY DEF Mails!Write

\* Nothing that MailGood(x) speaks of has changed.
LEMMA MailsStill ==
  ASSUME NEW x, MailGood(x), mail'[x] = mail[x],
         x \in accepted' <=> x \in accepted,
         \A s \in {"SENT", "SKIPPED", "FAILED"} : Mails!Logged(x, s)' <=> Mails!Logged(x, s),
         \/ UNCHANGED <<specific, wildcard>>
         \/ mail[x].pc \notin {"specific", "wildcard"}
  PROVE  MailGood(x)'
BY DEF MailGood, MailKnown, MailAsked, Mails!Wanted

LEMMA MailsKeep ==
  ASSUME MailsInv, Mails!Next, NEW x \in Calls
  PROVE  MailGood(x)'
<1>t. mail \in [Calls -> Mails!Mail] /\ MailGood(x)
  BY DEF MailsInv, MailGood
<1>p. specific \in {"unset", "on", "off"} /\ wildcard \in {"unset", "on", "off"}
  BY DEF MailsInv, Mails!Preference
<1>1. ASSUME NEW m \in Calls, Mails!Start(m) PROVE MailGood(x)'
  <2>1. CASE Mails!Goto(m, "template")
    <3>1. CASE x = m
      <4>1. /\ mail'[x].pc = "template"
            /\ mail'[x].stable = mail[x].stable /\ mail'[x].wanted = mail[x].wanted
        BY <1>t, <2>1, <3>1, MailsMove
      <4>2. UNCHANGED <<specific, wildcard, accepted, log>> /\ mail[x].pc = "new"
        BY <1>1, <3>1 DEF Mails!Start, Mails!Settings
      <4> QED
        BY <1>t, <4>1, <4>2 DEF MailGood, MailKnown, MailAsked, Mails!Logged
    <3> QED
      BY <1>t, <1>1, <2>1, <3>1, MailsMove, MailsStill DEF Mails!Start, Mails!Settings, Mails!Logged
  <2>2. CASE mail' = [mail EXCEPT ![m] = [pc |-> "specific", stable |-> "yes",
                                          wanted |-> IF Mails!Wanted THEN "yes" ELSE "no"]]
    <3>1. CASE x = m
      <4>1. mail'[x] = [pc |-> "specific", stable |-> "yes",
                        wanted |-> IF Mails!Wanted THEN "yes" ELSE "no"]
        BY <1>t, <2>2, <3>1
      <4>2. UNCHANGED <<specific, wildcard, accepted, log>> /\ mail[x].pc = "new"
        BY <1>1, <3>1 DEF Mails!Start, Mails!Settings
      <4>3. mail'[x].pc = "specific" /\ (mail'[x].wanted = "yes" <=> Mails!Wanted)
        BY <4>1
      <4>4. x \notin accepted /\ ~Mails!Logged(x, "SENT") /\ ~Mails!Logged(x, "SKIPPED")
        BY <1>t, <4>2 DEF MailGood, MailKnown
      <4> QED
        BY <4>2, <4>3, <4>4 DEF MailGood, MailKnown, MailAsked, Mails!Logged, Mails!Wanted
    <3>2. CASE x # m
      <4>1. mail'[x] = mail[x]
        BY <1>t, <2>2, <3>2
      <4> QED
        BY <1>t, <1>1, <4>1, MailsStill DEF Mails!Start, Mails!Settings, Mails!Logged
    <3> QED
      BY <3>1, <3>2
  <2> QED
    BY <1>1, <2>1, <2>2 DEF Mails!Start
<1>2. ASSUME NEW m \in Calls,
             Mails!ReadSpecific(m) \/ Mails!ReadWildcard(m) \/ Mails!FindTemplate(m)
      PROVE MailGood(x)'
  <2>0. /\ UNCHANGED <<specific, wildcard, accepted, log>>
        /\ \E p : Mails!Goto(m, p)
    BY <1>2 DEF Mails!ReadSpecific, Mails!ReadWildcard, Mails!FindTemplate, Mails!Settings
  <2>1. CASE x # m
    BY <1>t, <2>0, <2>1, MailsMove, MailsStill DEF Mails!Logged
  <2>2. CASE x = m
    <3>1. mail'[x].stable = mail[x].stable /\ mail'[x].wanted = mail[x].wanted
      BY <1>t, <2>0, <2>2, MailsMove
    <3>t. mail[x].wanted \in {"yes", "no"}
      BY <1>t DEF Mails!Mail
    <3>2. CASE Mails!ReadSpecific(m)
      <4>1. /\ mail[x].pc = "specific"
            /\ mail'[x].pc = IF specific = "off" THEN "log skipped"
                             ELSE IF specific = "on" THEN "template" ELSE "wildcard"
        <5>1. mail[x].pc = "specific" /\ mail'[x].pc = Mails!After(specific)
          BY <1>t, <2>2, <3>2, MailsMove DEF Mails!ReadSpecific
        <5> QED
          BY <5>1 DEF Mails!After
      <4> QED
        BY <1>t, <1>p, <2>0, <3>t, <3>1, <4>1
        DEF MailGood, MailKnown, MailAsked, Mails!Logged, Mails!Wanted
    <3>3. CASE Mails!ReadWildcard(m)
      <4>1. /\ mail[x].pc = "wildcard"
            /\ mail'[x].pc = IF wildcard = "off" THEN "log skipped" ELSE "template"
        BY <1>t, <2>2, <3>3, MailsMove DEF Mails!ReadWildcard
      <4> QED
        BY <1>t, <1>p, <2>0, <3>t, <3>1, <4>1
        DEF MailGood, MailKnown, MailAsked, Mails!Logged, Mails!Wanted
    <3>4. CASE Mails!FindTemplate(m)
      <4>1. mail[x].pc = "template" /\ mail'[x].pc \in {"sending", "failed"}
        BY <1>t, <2>2, <3>4, MailsMove DEF Mails!FindTemplate
      <4> QED
        BY <1>t, <2>0, <3>1, <4>1 DEF MailGood, MailKnown, MailAsked, Mails!Logged
    <3> QED
      BY <1>2, <3>2, <3>3, <3>4
  <2> QED
    BY <2>1, <2>2
<1>3. ASSUME NEW m \in Calls, Mails!Send(m) PROVE MailGood(x)'
  <2>0. /\ UNCHANGED <<specific, wildcard, log>>
        /\ \E p : Mails!Goto(m, p)
        /\ x # m => (x \in accepted' <=> x \in accepted)
    BY <1>3 DEF Mails!Send, Mails!Settings
  <2>1. CASE x # m
    BY <1>t, <2>0, <2>1, MailsMove, MailsStill DEF Mails!Logged
  <2>2. CASE x = m
    <3>1. mail'[x].stable = mail[x].stable /\ mail'[x].wanted = mail[x].wanted
      BY <1>t, <2>0, <2>2, MailsMove
    <3>2. /\ mail[x].pc = "sending"
          /\ \/ mail'[x].pc \in {"log sent", "log failed"} /\ x \in accepted'
             \/ mail'[x].pc = "log failed" /\ UNCHANGED accepted
      BY <1>t, <1>3, <2>2, MailsMove DEF Mails!Send
    <3> QED
      BY <1>t, <2>0, <3>1, <3>2 DEF MailGood, MailKnown, MailAsked, Mails!Logged
  <2> QED
    BY <2>1, <2>2
<1>4. ASSUME NEW m \in Calls, Mails!LogSent(m) \/ Mails!LogFailed(m) \/ Mails!LogSkipped(m)
      PROVE MailGood(x)'
  <2>0. /\ UNCHANGED <<specific, wildcard, accepted>>
        /\ \E p : Mails!Goto(m, p)
        /\ UNCHANGED log \/ \E s : Mails!Write(m, s)
    BY <1>4 DEF Mails!LogSent, Mails!LogFailed, Mails!LogSkipped, Mails!Settings
  <2>1. CASE x # m
    <3>1. \A s : Mails!Logged(x, s)' <=> Mails!Logged(x, s)
      BY <2>0, <2>1, MailsWritten DEF Mails!Logged
    <3> QED
      BY <1>t, <2>0, <2>1, <3>1, MailsMove, MailsStill
  <2>2. ASSUME x = m, Mails!LogSent(m) PROVE MailGood(x)'
    <3>1. mail'[x].stable = mail[x].stable /\ mail'[x].wanted = mail[x].wanted
      BY <1>t, <2>0, <2>2, MailsMove
    <3>2. CASE Mails!Write(m, "SENT") /\ mail'[x].pc \in {"sent", "log failed"}
      <4>1. /\ [mail |-> x, status |-> "SENT"] \in log'
            /\ \A s : s # "SENT" => ([mail |-> x, status |-> s] \in log'
                                       <=> [mail |-> x, status |-> s] \in log)
        BY <2>2, <3>2, MailsWritten
      <4> QED
        BY <1>t, <2>0, <2>2, <3>1, <3>2, <4>1
        DEF Mails!LogSent, MailGood, MailKnown, MailAsked, Mails!Logged
    <3>3. CASE UNCHANGED log /\ mail'[x].pc = "log failed"
      BY <1>t, <2>0, <2>2, <3>1, <3>3 DEF Mails!LogSent, MailGood, MailKnown, MailAsked, Mails!Logged
    <3> QED
      BY <1>t, <2>2, <3>2, <3>3, MailsMove DEF Mails!LogSent, Mails!Caught
  <2>3. ASSUME x = m, Mails!LogFailed(m) PROVE MailGood(x)'
    <3>1. mail'[x].stable = mail[x].stable /\ mail'[x].wanted = mail[x].wanted
      BY <1>t, <2>0, <2>3, MailsMove
    <3>2. CASE Mails!Write(m, "FAILED") /\ mail'[x].pc \in {"failed"}
      <4>1. /\ [mail |-> x, status |-> "FAILED"] \in log'
            /\ \A s : s # "FAILED" => ([mail |-> x, status |-> s] \in log'
                                       <=> [mail |-> x, status |-> s] \in log)
        BY <2>3, <3>2, MailsWritten
      <4> QED
        BY <1>t, <2>0, <2>3, <3>1, <3>2, <4>1
        DEF Mails!LogFailed, MailGood, MailKnown, MailAsked, Mails!Logged
    <3>3. CASE UNCHANGED log /\ mail'[x].pc = "lost"
      BY <1>t, <2>0, <2>3, <3>1, <3>3 DEF Mails!LogFailed, MailGood, MailKnown, MailAsked, Mails!Logged
    <3> QED
      BY <1>t, <2>3, <3>2, <3>3, MailsMove DEF Mails!LogFailed, Mails!Caught
  <2>4. ASSUME x = m, Mails!LogSkipped(m) PROVE MailGood(x)'
    <3>1. mail'[x].stable = mail[x].stable /\ mail'[x].wanted = mail[x].wanted
      BY <1>t, <2>0, <2>4, MailsMove
    <3>2. CASE Mails!Write(m, "SKIPPED") /\ mail'[x].pc \in {"skipped"}
      <4>1. /\ [mail |-> x, status |-> "SKIPPED"] \in log'
            /\ \A s : s # "SKIPPED" => ([mail |-> x, status |-> s] \in log'
                                       <=> [mail |-> x, status |-> s] \in log)
        BY <2>4, <3>2, MailsWritten
      <4> QED
        BY <1>t, <2>0, <2>4, <3>1, <3>2, <4>1
        DEF Mails!LogSkipped, MailGood, MailKnown, MailAsked, Mails!Logged
    <3>3. CASE UNCHANGED log /\ mail'[x].pc = "lost"
      BY <1>t, <2>0, <2>4, <3>1, <3>3 DEF Mails!LogSkipped, MailGood, MailKnown, MailAsked, Mails!Logged
    <3> QED
      BY <1>t, <2>4, <3>2, <3>3, MailsMove DEF Mails!LogSkipped, Mails!Caught
  <2> QED
    BY <1>4, <2>1, <2>2, <2>3, <2>4
<1>5. CASE Mails!SetPreference
  <2>1. CASE Mails!Reading(x)
    <3>1. mail'[x] = [mail[x] EXCEPT !.stable = "no"]
      BY <1>5, <2>1 DEF Mails!SetPreference
    <3>2. mail'[x].pc = mail[x].pc /\ mail'[x].stable = "no"
      BY <1>t, <3>1 DEF Mails!Mail
    <3> QED
      BY <1>t, <1>5, <3>2 DEF Mails!SetPreference, MailGood, MailKnown, Mails!Logged
  <2>2. CASE ~Mails!Reading(x)
    <3>1. mail'[x] = mail[x] /\ UNCHANGED <<accepted, log>>
      BY <1>5, <2>2 DEF Mails!SetPreference
    <3> QED
      BY <1>t, <2>2, <3>1, MailsStill DEF Mails!Reading, Mails!Logged
  <2> QED
    BY <2>1, <2>2
<1>6. CASE Mails!SetTemplate
  BY <1>t, <1>6, MailsStill DEF Mails!SetTemplate, Mails!Logged
<1>7. CASE Mails!Restart
  <2>0. UNCHANGED <<specific, wildcard, log>>
    BY <1>7 DEF Mails!Restart, Mails!Settings
  <2>1. x \in accepted' <=> x \in accepted \/ (x \in accepted' /\ mail[x].pc = "sending")
    BY <1>7 DEF Mails!Restart
  <2>2. CASE mail[x].pc \in Mails!Final \cup {"new"}
    <3>1. mail'[x] = mail[x]
      BY <1>7, <2>2 DEF Mails!Restart
    <3> QED
      BY <1>t, <2>0, <2>1, <2>2, <3>1, MailsStill DEF Mails!Logged, Mails!Final
  <2>3. CASE mail[x].pc \notin Mails!Final \cup {"new"}
    <3>1. mail'[x] = [mail[x] EXCEPT !.pc = "lost"]
      BY <1>7, <2>3 DEF Mails!Restart
    <3>2. mail'[x].pc = "lost" /\ mail'[x].stable = mail[x].stable
          /\ mail'[x].wanted = mail[x].wanted
      BY <1>t, <3>1 DEF Mails!Mail
    <3> QED
      BY <1>t, <2>0, <2>1, <2>3, <3>2
      DEF MailGood, MailKnown, MailAsked, Mails!Logged, Mails!Final
  <2> QED
    BY <2>2, <2>3
<1> QED
  BY <1>1, <1>2, <1>3, <1>4, <1>5, <1>6, <1>7 DEF Mails!Next

LEMMA MailsInductive == Spec => []MailsInv
<1>1. Init => MailsInv
  BY MailsStart DEF Init
<1>2. MailsInv /\ Mails!Next => MailsInv'
  BY MailsTyped, PreferencesTyped, MailsKeep DEF MailsInv
<1>3. MailsInv /\ UNCHANGED mails => MailsInv'
  BY DEF MailsInv, MailGood, mails, MailKnown, MailAsked, Mails!Logged, Mails!Wanted
<1> QED
  BY <1>1, <1>2, <1>3, MailsOnly, PTL DEF Spec

\* The log tells what happened to every mail, for any number of calls.
THEOREM LogTellsTheTruth == Spec => []LogIsTrue
<1>1. MailsInv => LogIsTrue
  BY DEF MailsInv, MailGood, MailKnown, LogIsTrue, Mails!LogIsTrue, Mails!Final
<1> QED
  BY <1>1, MailsInductive, PTL

\* Nobody gets a mail that he has switched off, nor misses one that he has not.
THEOREM PreferencesAreRespected == Spec => []PreferencesHold
<1>1. MailsInv => PreferencesHold
  BY DEF MailsInv, MailGood, MailKnown, MailAsked, PreferencesHold, Mails!PreferencesHold
<1> QED
  BY <1>1, MailsInductive, PTL

-----------------------------------------------------------------------------
(* Imports *)

\* The leads of a row are counted by the row itself; nothing is made before the
\* batch is committed; a commit at work has read no lead.
ImportCounts ==
  \A n \in Ids :
    /\ importRows[n] \in [state : {"VALID", "INVALID"}, lead : Nat] \cup {Import!NoRow}
    /\ leads[n] \in Nat
    /\ leads[n] = IF importRows[n].state = "VALID" THEN importRows[n].lead ELSE 0
    /\ status = "OPEN" => leads[n] = 0
    /\ overlapped = "no" => leads[n] <= 1
    /\ status = "COMMITTED" /\ n \notin late /\ importRows[n].state = "VALID" => importRows[n].lead > 0

ImportReads ==
  \A k \in Clerks : importCall[k].pc = "committing" =>
    \A n \in Ids :
      /\ importCall[k].read[n].state \in {"none", "VALID", "INVALID"}
      /\ importCall[k].read[n] = Import!NoRow <=> importCall[k].read[n].state = "none"
      /\ importCall[k].read[n].state # "none" => importCall[k].read[n].state = importRows[n].state
      /\ importCall[k].read[n].state = "VALID" => importCall[k].read[n].lead = 0

ImportInv ==
  /\ status \in {"OPEN", "COMMITTED"}
  /\ importRows = [n \in Ids |-> importRows[n]]
  /\ importCall = [k \in Clerks |-> importCall[k]]
  /\ ImportCounts
  /\ ImportReads

LEMMA ImportStart == Import!Init => ImportInv
BY DEF Import!Init, ImportInv, ImportCounts, ImportReads, Import!NoRow, Import!Idle

LEMMA ImportIdle == Import!Idle.pc = "idle" /\ Import!NoRow.state = "none"
BY DEF Import!Idle, Import!NoRow

\* One call moves, the others stay.
LEMMA ImportMove ==
  ASSUME ImportInv, NEW k \in Clerks, NEW c, importCall' = [importCall EXCEPT ![k] = c]
  PROVE  /\ importCall' = [j \in Clerks |-> importCall'[j]]
         /\ importCall'[k] = c
         /\ \A j \in Clerks \ {k} : importCall'[j] = importCall[j]
<1>1. importCall' = [j \in Clerks |-> IF j = k THEN c ELSE importCall[j]]
  BY DEF ImportInv
<1> QED
  BY <1>1

\* Rows are not taken back and do not change their state.
LEMMA ImportReadsKeep ==
  ASSUME ImportInv, NEW k \in Clerks, importCall' = [importCall EXCEPT ![k] = Import!Idle],
         \A n \in Ids : importRows[n].state # "none" => importRows'[n].state = importRows[n].state
  PROVE  /\ importCall' = [j \in Clerks |-> importCall'[j]]
         /\ ImportReads'
<1>1. /\ importCall' = [j \in Clerks |-> importCall'[j]]
      /\ importCall'[k] = Import!Idle
      /\ \A j \in Clerks \ {k} : importCall'[j] = importCall[j]
  BY ImportMove
<1> SUFFICES ASSUME NEW j \in Clerks, importCall'[j].pc = "committing", NEW n \in Ids
             PROVE  /\ importCall'[j].read[n].state \in {"none", "VALID", "INVALID"}
                    /\ importCall'[j].read[n] = Import!NoRow <=> importCall'[j].read[n].state = "none"
                    /\ importCall'[j].read[n].state # "none" =>
                         importCall'[j].read[n].state = importRows'[n].state
                    /\ importCall'[j].read[n].state = "VALID" => importCall'[j].read[n].lead = 0
  BY <1>1 DEF ImportReads
<1>2. j # k /\ importCall'[j] = importCall[j]
  BY <1>1, ImportIdle
<1> QED
  BY <1>2 DEF ImportInv, ImportReads

LEMMA ImportKeep ==
  ASSUME ImportInv, Import!Next
  PROVE  ImportInv'
<1>t. /\ ImportCounts /\ ImportReads /\ status \in {"OPEN", "COMMITTED"}
      /\ importRows = [n \in Ids |-> importRows[n]]
      /\ importCall = [k \in Clerks |-> importCall[k]]
  BY DEF ImportInv
<1>1. ASSUME NEW k \in Clerks, Import!StartAddRows(k) PROVE ImportInv'
  <2>1. importCall' = [importCall EXCEPT ![k] = [pc |-> "adding"]]
    BY <1>1 DEF Import!StartAddRows, Import!Begin
  <2>2. ImportReads'
    BY <1>1, <1>t, <2>1, ImportMove DEF ImportReads, Import!StartAddRows
  <2>3. ImportCounts'
    BY <1>1, <1>t DEF ImportCounts, Import!StartAddRows
  <2> QED
    BY <1>1, <1>t, <2>1, <2>2, <2>3, ImportMove DEF ImportInv, Import!StartAddRows
<1>2. ASSUME NEW k \in Clerks, Import!AddRows(k) PROVE ImportInv'
  <2> PICK new \in SUBSET {n \in Ids : importRows[n] = Import!NoRow}, valid \in SUBSET Ids :
        /\ importRows' = [n \in Ids |-> IF n \notin new THEN importRows[n]
                                        ELSE [state |-> IF n \in valid THEN "VALID" ELSE "INVALID",
                                              lead |-> 0]]
        /\ late' = IF status = "OPEN" THEN late ELSE late \cup new
    BY <1>2 DEF Import!AddRows
  <2>1. \A n \in Ids :
          \/ importRows'[n] = importRows[n] /\ n \notin new
          \/ /\ importRows[n] = Import!NoRow /\ n \in new
             /\ importRows'[n] = [state |-> IF n \in valid THEN "VALID" ELSE "INVALID", lead |-> 0]
    OBVIOUS
  <2>2. ImportReads' /\ importCall' = [j \in Clerks |-> importCall'[j]]
    <3>1. \A n \in Ids : importRows[n].state # "none" => importRows'[n].state = importRows[n].state
      BY <2>1, ImportIdle
    <3> QED
      BY <1>2, <3>1, ImportReadsKeep DEF Import!AddRows, Import!End
  <2>3. ImportCounts'
    <3> SUFFICES ASSUME NEW n \in Ids
                 PROVE  /\ importRows'[n] \in [state : {"VALID", "INVALID"}, lead : Nat] \cup {Import!NoRow}
                        /\ leads'[n] \in Nat
                        /\ leads'[n] = IF importRows'[n].state = "VALID" THEN importRows'[n].lead ELSE 0
                        /\ status' = "OPEN" => leads'[n] = 0
                        /\ overlapped' = "no" => leads'[n] <= 1
                        /\ status' = "COMMITTED" /\ n \notin late' /\ importRows'[n].state = "VALID" =>
                             importRows'[n].lead > 0
      BY DEF ImportCounts
    <3>1. UNCHANGED <<status, leads, overlapped>>
      BY <1>2 DEF Import!AddRows
    <3>2. CASE importRows'[n] = importRows[n] /\ n \notin new
      BY <1>t, <3>1, <3>2 DEF ImportCounts
    <3>3. CASE /\ importRows[n] = Import!NoRow /\ n \in new
               /\ importRows'[n] = [state |-> IF n \in valid THEN "VALID" ELSE "INVALID", lead |-> 0]
      <4>1. leads[n] = 0
        BY <1>t, <3>3, ImportIdle DEF ImportCounts
      <4>2. status = "COMMITTED" => n \in late'
        BY <3>3
      <4> QED
        BY <3>1, <3>3, <4>1, <4>2
    <3> QED
      BY <2>1, <3>2, <3>3
  <2> QED
    BY <1>2, <1>t, <2>2, <2>3 DEF ImportInv, Import!AddRows
<1>3. ASSUME NEW k \in Clerks, Import!StartCommit(k) PROVE ImportInv'
  <2>1. importCall' = [importCall EXCEPT ![k] = [pc |-> "committing", read |-> importRows]]
    BY <1>3 DEF Import!StartCommit, Import!Begin
  <2>2. status = "OPEN" /\ UNCHANGED <<status, importRows, leads, overlapped, late>>
    BY <1>3 DEF Import!StartCommit
  <2>3. ASSUME NEW n \in Ids
        PROVE  /\ importRows[n].state \in {"none", "VALID", "INVALID"}
               /\ importRows[n] = Import!NoRow <=> importRows[n].state = "none"
               /\ importRows[n].state = "VALID" => importRows[n].lead = 0
    BY <1>t, <2>2, ImportIdle DEF ImportCounts
  <2>4. /\ importCall'[k] = [pc |-> "committing", read |-> importRows]
        /\ \A j \in Clerks \ {k} : importCall'[j] = importCall[j]
        /\ importCall' = [j \in Clerks |-> importCall'[j]]
    BY <2>1, ImportMove
  <2>5. ImportReads'
    BY <1>t, <2>2, <2>3, <2>4 DEF ImportReads
  <2>6. ImportCounts'
    BY <1>t, <2>2 DEF ImportCounts
  <2> QED
    BY <1>t, <2>2, <2>4, <2>5, <2>6 DEF ImportInv
<1>4. ASSUME NEW k \in Clerks, Import!Commit(k) PROVE ImportInv'
  <2> DEFINE read == importCall[k].read
             ns == Import!Pending(read)
  <2>0. importCall[k].pc = "committing"
    BY <1>4 DEF Import!Commit
  <2>1. ASSUME NEW n \in Ids
        PROVE  /\ n \in ns <=> read[n].state = "VALID"
               /\ n \in ns => importRows[n].state = "VALID"
    BY <1>t, <2>0 DEF ImportReads, Import!Pending
  <2>2. /\ leads' = Import!Created(ns) /\ importRows' = Import!Linked(ns)
        /\ status' = "COMMITTED"
        /\ overlapped' = IF status = "OPEN" THEN overlapped ELSE "yes"
        /\ late' = IF status = "OPEN"
                   THEN {n \in Ids : importRows[n] # Import!NoRow /\ read[n] = Import!NoRow} ELSE late
    BY <1>4 DEF Import!Commit
  <2>3. ASSUME NEW n \in Ids
        PROVE  /\ n \in ns => leads'[n] = leads[n] + 1
                              /\ importRows'[n] = [importRows[n] EXCEPT !.lead = leads[n] + 1]
               /\ n \notin ns => leads'[n] = leads[n] /\ importRows'[n] = importRows[n]
    BY <2>2 DEF Import!Created, Import!Linked
  <2>4. ASSUME NEW n \in Ids, n \in ns
        PROVE  /\ importRows'[n] \in [state : {"VALID", "INVALID"}, lead : Nat]
               /\ importRows'[n].state = "VALID" /\ importRows'[n].lead = leads[n] + 1
    <3>1. importRows[n] \in [state : {"VALID", "INVALID"}, lead : Nat] /\ leads[n] + 1 \in Nat
      BY <1>t, <2>1, <2>4, ImportIdle DEF ImportCounts
    <3> QED
      BY <2>1, <2>3, <2>4, <3>1
  <2>5. ImportReads' /\ importCall' = [j \in Clerks |-> importCall'[j]]
    <3>1. \A n \in Ids : importRows[n].state # "none" => importRows'[n].state = importRows[n].state
      BY <2>1, <2>3, <2>4
    <3> QED
      BY <1>4, <3>1, ImportReadsKeep DEF Import!Commit, Import!End
  <2> HIDE DEF ns, read
  <2>6. ImportCounts'
    <3> SUFFICES ASSUME NEW n \in Ids
                 PROVE  /\ importRows'[n] \in [state : {"VALID", "INVALID"}, lead : Nat] \cup {Import!NoRow}
                        /\ leads'[n] \in Nat
                        /\ leads'[n] = IF importRows'[n].state = "VALID" THEN importRows'[n].lead ELSE 0
                        /\ overlapped' = "no" => leads'[n] <= 1
                        /\ n \notin late' /\ importRows'[n].state = "VALID" => importRows'[n].lead > 0
      BY <2>2 DEF ImportCounts
    <3>1. overlapped' = "no" => status = "OPEN"
      BY <2>2
    <3>2. CASE n \in ns
      <4>1. leads[n] \in Nat /\ (overlapped' = "no" => leads[n] = 0)
        BY <1>t, <3>1 DEF ImportCounts
      <4>2. leads'[n] = leads[n] + 1
        BY <2>3, <3>2
      <4> QED
        BY <2>4, <3>2, <4>1, <4>2
    <3>3. CASE n \notin ns
      <4>1. leads'[n] = leads[n] /\ importRows'[n] = importRows[n]
        BY <2>3, <3>3
      <4>2. n \notin late' /\ importRows[n].state = "VALID" => importRows[n].lead > 0
        <5>1. CASE status = "OPEN"
          <6>1. importRows[n].state = "VALID" => importRows[n] # Import!NoRow
            BY ImportIdle
          <6>2. importRows[n].state = "VALID" /\ read[n] # Import!NoRow => read[n].state = "VALID"
            BY <1>t, <2>0 DEF ImportReads, read
          <6> QED
            BY <2>1, <2>2, <3>3, <5>1, <6>1, <6>2
        <5>2. CASE status # "OPEN"
          BY <1>t, <2>2, <5>2 DEF ImportCounts
        <5> QED
          BY <5>1, <5>2
      <4> QED
        BY <1>t, <2>2, <3>1, <4>1, <4>2 DEF ImportCounts
    <3> QED
      BY <3>2, <3>3
  <2>7. importRows' = [n \in Ids |-> importRows'[n]]
    BY <2>2 DEF Import!Linked
  <2> QED
    BY <2>2, <2>5, <2>6, <2>7 DEF ImportInv
<1>5. ASSUME NEW k \in Clerks, Import!CommitFails(k) PROVE ImportInv'
  <2>1. UNCHANGED <<status, importRows, leads, overlapped, late>>
    BY <1>5 DEF Import!CommitFails, Import!RolledBack
  <2>2. ImportReads' /\ importCall' = [j \in Clerks |-> importCall'[j]]
    BY <1>5, <2>1, ImportReadsKeep DEF Import!CommitFails, Import!End
  <2> QED
    BY <1>t, <2>1, <2>2 DEF ImportInv, ImportCounts
<1>6. CASE Import!Restart
  <2>1. /\ UNCHANGED <<status, importRows, leads, overlapped, late>>
        /\ importCall' = [k \in Clerks |-> Import!Idle]
    BY <1>6 DEF Import!Restart
  <2>2. ImportReads'
    BY <2>1, ImportIdle DEF ImportReads
  <2> QED
    BY <1>t, <2>1, <2>2 DEF ImportInv, ImportCounts
<1> QED
  BY <1>1, <1>2, <1>3, <1>4, <1>5, <1>6 DEF Import!Next

LEMMA ImportInductive == Spec => []ImportInv
<1>1. Init => ImportInv
  BY ImportStart DEF Init
<1>2. ImportInv /\ Import!Next => ImportInv'
  BY ImportKeep
<1>3. ImportInv /\ UNCHANGED import => ImportInv'
  BY DEF ImportInv, ImportCounts, ImportReads, import
<1> QED
  BY <1>1, <1>2, <1>3, ImportOnly, PTL DEF Spec

\* One lead for every valid row, for any number of calls and rows.
THEOREM EveryRowIsImported == Spec => []ImportedOnce
<1>1. ImportInv => ImportedOnce
  BY DEF ImportInv, ImportCounts, ImportedOnce, Import!ImportedOnce
<1> QED
  BY <1>1, ImportInductive, PTL

-----------------------------------------------------------------------------
(* Sets *)

\* What a transaction has not seen of the table was committed beside it.
SetsInv ==
  /\ latest \subseteq members /\ members \subseteq beside /\ members \subseteq Ids
  /\ parent \in {"there", "none"}
  /\ setCall \in [Calls -> Sets!Call]
  /\ \A k \in Calls : setCall[k].pc \in {"deleting", "inserting"} =>
       parent = "there" /\ members \ setCall[k].sees \subseteq setCall[k].along

\* Moving one call, with its set and what was committed along with it.
LEMMA SetsMove ==
  ASSUME setCall \in [Calls -> Sets!Call], NEW k \in Calls, NEW s \in SUBSET Ids,
         NEW p \in {"deleting", "inserting", "creating"}, setCall[k] # Sets!Idle, Sets!Step(k, p, s)
  PROVE  /\ setCall' \in [Calls -> Sets!Call]
         /\ \A j \in Calls \ {k} : setCall'[j] = setCall[j]
         /\ setCall'[k].pc = p /\ setCall'[k].sees = s
         /\ setCall'[k].set = setCall[k].set /\ setCall'[k].along = setCall[k].along
<1>1. [setCall[k] EXCEPT !.pc = p, !.sees = s] \in Sets!Call
  BY DEF Sets!Call, Sets!Idle
<1>2. setCall' = [setCall EXCEPT ![k] = [setCall[k] EXCEPT !.pc = p, !.sees = s]]
  BY DEF Sets!Step, Sets!Goto
<1>3. setCall'[k] = [setCall[k] EXCEPT !.pc = p, !.sees = s]
  BY <1>2
<1>4. setCall' \in [Calls -> Sets!Call] /\ \A j \in Calls \ {k} : setCall'[j] = setCall[j]
  BY <1>1, <1>2
<1> QED
  BY <1>3, <1>4 DEF Sets!Call, Sets!Idle

\* One call starts or gives up; the others stay.
LEMMA SetsGoto ==
  ASSUME setCall \in [Calls -> Sets!Call], NEW k \in Calls, NEW c \in Sets!Call, Sets!Goto(k, c)
  PROVE  /\ setCall' \in [Calls -> Sets!Call]
         /\ \A j \in Calls \ {k} : setCall'[j] = setCall[j]
         /\ setCall'[k] = c
BY DEF Sets!Goto

\* A call at work on a set.
SetsAtWork == [pc : {"checked", "deleting", "inserting", "creating"}, set : SUBSET Ids,
               sees : SUBSET Ids, along : SUBSET Ids]

\* A commit of k, as the others see it.
LEMMA SetsCommit ==
  ASSUME setCall \in [Calls -> Sets!Call], NEW k \in Calls, setCall[k] # Sets!Idle,
         setCall' = Sets!Committed(k)
  PROVE  /\ setCall' \in [Calls -> Sets!Call]
         /\ setCall'[k] = Sets!Idle
         /\ \A j \in Calls \ {k} :
              \/ setCall'[j] = Sets!Idle /\ setCall[j] = Sets!Idle
              \/ /\ setCall[j] # Sets!Idle
                 /\ setCall'[j].pc = setCall[j].pc /\ setCall'[j].set = setCall[j].set
                 /\ setCall'[j].sees = setCall[j].sees \ setCall[k].sees
                 /\ setCall'[j].along = setCall[j].along \cup setCall[k].set
<1>k. setCall[k].set \in SUBSET Ids
  BY DEF Sets!Call, Sets!Idle
<1>1. setCall'[k] = Sets!Idle
  BY DEF Sets!Committed
<1>2. ASSUME NEW j \in Calls, j # k, setCall[j] # Sets!Idle
      PROVE  /\ setCall'[j] \in Sets!Call
             /\ setCall'[j].pc = setCall[j].pc /\ setCall'[j].set = setCall[j].set
             /\ setCall'[j].sees = setCall[j].sees \ setCall[k].sees
             /\ setCall'[j].along = setCall[j].along \cup setCall[k].set
  <2>1. setCall'[j] = [setCall[j] EXCEPT !.sees = @ \ setCall[k].sees,
                                         !.along = @ \cup setCall[k].set]
    BY <1>2 DEF Sets!Committed
  <2>2. setCall[j] \in SetsAtWork
    BY <1>2 DEF Sets!Call, SetsAtWork
  <2>3. /\ setCall'[j] \in SetsAtWork
        /\ setCall'[j].pc = setCall[j].pc /\ setCall'[j].set = setCall[j].set
        /\ setCall'[j].sees = setCall[j].sees \ setCall[k].sees
        /\ setCall'[j].along = setCall[j].along \cup setCall[k].set
    <3> DEFINE c == setCall[j]
               a == c.sees \ setCall[k].sees
               b == c.along \cup setCall[k].set
               e == [c EXCEPT !.sees = a]
    <3>0. a \in SUBSET Ids /\ b \in SUBSET Ids /\ c \in SetsAtWork
      BY <1>k, <2>2 DEF SetsAtWork
    <3>1. setCall'[j] = [e EXCEPT !.along = b]
      BY <2>1, <2>2 DEF SetsAtWork
    <3> HIDE DEF a, b, c
    <3>2. e \in SetsAtWork /\ e.pc = c.pc /\ e.set = c.set /\ e.sees = a /\ e.along = c.along
      BY ONLY <3>0 DEF SetsAtWork
    <3> HIDE DEF e
    <3>3. /\ [e EXCEPT !.along = b] \in SetsAtWork
          /\ [e EXCEPT !.along = b].pc = e.pc /\ [e EXCEPT !.along = b].set = e.set
          /\ [e EXCEPT !.along = b].sees = e.sees
          /\ [e EXCEPT !.along = b].along = b
      BY ONLY <3>0, <3>2 DEF SetsAtWork
    <3>4. /\ setCall'[j] \in SetsAtWork /\ setCall'[j].pc = c.pc /\ setCall'[j].set = c.set
          /\ setCall'[j].sees = a /\ setCall'[j].along = b
      BY ONLY <3>1, <3>2, <3>3
    <3> QED
      BY ONLY <3>4 DEF a, b, c
  <2> QED
    BY ONLY <2>3 DEF Sets!Call, SetsAtWork
<1>3. ASSUME NEW j \in Calls, j # k, setCall[j] = Sets!Idle PROVE setCall'[j] = Sets!Idle
  BY <1>3 DEF Sets!Committed
<1>4. Sets!Idle \in Sets!Call
  BY DEF Sets!Call
<1>5. setCall' \in [Calls -> Sets!Call]
  <2>1. \A j \in Calls : setCall'[j] \in Sets!Call
    BY <1>1, <1>2, <1>3, <1>4
  <2> QED
    BY <2>1 DEF Sets!Committed
<1> QED
  BY <1>1, <1>2, <1>3, <1>5

LEMMA SetsKeep ==
  ASSUME SetsInv, Sets!Next
  PROVE  SetsInv'
<1> PICK k \in Calls : \/ Sets!Start(k) \/ Sets!BeginDelete(k) \/ Sets!LockRows(k)
                       \/ Sets!Insert(k) \/ Sets!CreateSchedule(k) \/ Sets!RollBack(k)
  BY DEF Sets!Next, Sets!SetUserRoles, Sets!SetRolePermissionGroups,
     Sets!SetGroupPermissions, Sets!UpsertPaymentSchedule
<1>t. setCall \in [Calls -> Sets!Call] /\ members \subseteq Ids
  BY DEF SetsInv
<1>i. Sets!Idle \in Sets!Call /\ Sets!Idle.pc = "idle"
  BY DEF Sets!Idle, Sets!Call
<1>1. CASE Sets!Start(k)
  <2>1. PICK s \in SUBSET Ids :
          Sets!Goto(k, [pc |-> "checked", set |-> s, sees |-> {}, along |-> {}])
    BY <1>1 DEF Sets!Start
  <2>2. [pc |-> "checked", set |-> s, sees |-> {}, along |-> {}] \in Sets!Call
    BY DEF Sets!Call
  <2> QED
    BY <1>1, <1>t, <2>1, <2>2, SetsGoto DEF SetsInv, Sets!Start
<1>2. CASE Sets!BeginDelete(k)
  <2>1. setCall[k] # Sets!Idle
    BY <1>2, <1>i DEF Sets!BeginDelete
  <2>2. CASE parent = "none"
    BY <1>2, <1>t, <2>1, <2>2, SetsMove DEF SetsInv, Sets!BeginDelete
  <2>3. CASE parent # "none"
    BY <1>2, <1>t, <2>1, <2>3, SetsMove DEF SetsInv, Sets!BeginDelete
  <2> QED
    BY <2>2, <2>3
<1>3. CASE Sets!LockRows(k)
  <2>1. setCall[k] # Sets!Idle /\ setCall[k].sees \in SUBSET Ids
    BY <1>3, <1>t, <1>i DEF Sets!LockRows, Sets!Call, Sets!Idle
  <2> QED
    BY <1>3, <1>t, <2>1, SetsMove DEF SetsInv, Sets!LockRows
<1>4. CASE Sets!Insert(k)
  <2>1. CASE Sets!Clashes(k)
    BY <1>4, <1>t, <1>i, <2>1, SetsGoto DEF SetsInv, Sets!Insert
  <2>2. CASE ~Sets!Clashes(k)
    <3>1. /\ setCall[k] # Sets!Idle /\ setCall[k].pc = "inserting"
          /\ members' = (members \ setCall[k].sees) \cup setCall[k].set
          /\ latest' = setCall[k].set /\ beside' = setCall[k].along \cup setCall[k].set
          /\ setCall' = Sets!Committed(k) /\ UNCHANGED parent
      BY <1>4, <1>i, <2>2 DEF Sets!Insert, Sets!Replaced, Sets!Settle
    <3>t. setCall[k].set \subseteq Ids
      BY <1>t, <3>1 DEF Sets!Call, Sets!Idle
    <3> QED
      BY <1>t, <1>i, <3>1, <3>t, SetsCommit DEF SetsInv
  <2> QED
    BY <2>1, <2>2
<1>5. CASE Sets!CreateSchedule(k)
  <2>1. CASE parent = "there"
    BY <1>5, <1>t, <1>i, <2>1, SetsGoto DEF SetsInv, Sets!CreateSchedule
  <2>2. CASE parent # "there"
    <3>1. /\ setCall[k] # Sets!Idle
          /\ members' = setCall[k].set /\ latest' = setCall[k].set
          /\ beside' = setCall[k].along \cup setCall[k].set
          /\ setCall' = Sets!Committed(k)
      BY <1>5, <1>i, <2>2 DEF Sets!CreateSchedule, Sets!Settle
    <3>t. setCall[k].set \subseteq Ids
      BY <1>t, <3>1, <1>5 DEF Sets!Call, Sets!Idle, Sets!CreateSchedule
    <3>2. \A j \in Calls : setCall'[j].pc \notin {"deleting", "inserting"}
      BY <1>t, <1>i, <2>2, <3>1, SetsCommit DEF SetsInv
    <3>3. parent' = "there"
      BY <1>5, <2>2 DEF Sets!CreateSchedule
    <3> QED
      BY <1>t, <3>1, <3>t, <3>2, <3>3, SetsCommit DEF SetsInv
  <2> QED
    BY <2>1, <2>2
<1>6. CASE Sets!RollBack(k)
  BY <1>6, <1>t, <1>i, SetsGoto DEF SetsInv, Sets!RollBack
<1> QED
  BY <1>1, <1>2, <1>3, <1>4, <1>5, <1>6

LEMMA SetsInductive == Spec => []SetsInv
<1>1. Init => SetsInv
  BY DEF Init, Sets!Init, SetsInv, Sets!Idle, Sets!Call
<1>2. ASSUME SetsInv, Sets!Next PROVE SetsInv'
  BY <1>2, SetsKeep
<1>3. SetsInv /\ UNCHANGED sets => SetsInv'
  BY DEF SetsInv, sets
<1> QED
  BY <1>1, <1>2, <1>3, SetsOnly, PTL DEF Spec

\* The last replacement is there as a whole, for any number of calls.
THEOREM LatestSetIsThere == Spec => []SetIsTheLatest
<1>1. SetsInv => SetIsTheLatest
  BY DEF SetsInv, SetIsTheLatest, Sets!SetIsTheLatest
<1> QED
  BY <1>1, SetsInductive, PTL

\* What a caller waits for, in the register.
LEMMA SetsAsked ==
  ASSUME NEW c \in Sets!Call
  PROVE  IF c = Sets!Idle THEN Sets!Asked(c) = Sets!Register!Nothing
         ELSE /\ Sets!Asked(c) = Sets!Register!Asked(c.set, c.along)
              /\ Sets!Asked(c) # Sets!Register!Nothing
              /\ Sets!Asked(c).set = c.set /\ Sets!Asked(c).since = c.along
<1>1. CASE c = Sets!Idle
  BY <1>1 DEF Sets!Asked, Sets!Register!Nothing
<1>2. CASE c # Sets!Idle
  <2>1. Sets!Asked(c) = [is |-> "asked", set |-> c.set, since |-> c.along]
    BY <1>2 DEF Sets!Asked
  <2>2. Sets!Asked(c) # Sets!Register!Nothing
    <3>1. Sets!Asked(c).is = "asked" /\ Sets!Register!Nothing.is = "nothing"
      BY <2>1 DEF Sets!Register!Nothing
    <3> QED
      BY <3>1
  <2> QED
    BY <1>2, <2>1, <2>2 DEF Sets!Register!Asked
<1> QED
  BY <1>1, <1>2

\* Each step of a handler is one of the register, or none.
LEMMA SetsMap ==
  ASSUME SetsInv, Sets!Next
  PROVE  [Sets!Register!Next]_(Sets!Register!vars)
<1> PICK k \in Calls : \/ Sets!Start(k) \/ Sets!BeginDelete(k) \/ Sets!LockRows(k)
                       \/ Sets!Insert(k) \/ Sets!CreateSchedule(k) \/ Sets!RollBack(k)
  BY DEF Sets!Next, Sets!SetUserRoles, Sets!SetRolePermissionGroups,
     Sets!SetGroupPermissions, Sets!UpsertPaymentSchedule
<1> DEFINE asked == [j \in Calls |-> Sets!Asked(setCall[j])]
           askedNext == [j \in Calls |-> Sets!Asked(setCall'[j])]
<1>t. setCall \in [Calls -> Sets!Call] /\ members \subseteq Ids
  BY DEF SetsInv
<1>i. Sets!Idle \in Sets!Call /\ Sets!Idle.pc = "idle"
  BY DEF Sets!Idle, Sets!Call
<1>a. \A j \in Calls : asked[j] = Sets!Asked(setCall[j]) /\ askedNext[j] = Sets!Asked(setCall'[j])
  OBVIOUS
<1> HIDE DEF asked, askedNext
<1>1. CASE Sets!Start(k)
  <2>1. PICK s \in SUBSET Ids :
          Sets!Goto(k, [pc |-> "checked", set |-> s, sees |-> {}, along |-> {}])
    BY <1>1 DEF Sets!Start
  <2> DEFINE c == [pc |-> "checked", set |-> s, sees |-> {}, along |-> {}]
  <2>2. c \in Sets!Call /\ c # Sets!Idle /\ c.set = s /\ c.along = {}
    BY <1>i DEF Sets!Call
  <2> HIDE DEF c
  <2>3. /\ \A j \in Calls \ {k} : setCall'[j] = setCall[j]
        /\ setCall'[k] = c /\ setCall[k] = Sets!Idle
    BY <1>1, <1>t, <2>1, <2>2, SetsGoto DEF Sets!Start, c
  <2>4. Sets!Asked(setCall[k]) = Sets!Register!Nothing
    BY <1>i, <2>3, SetsAsked
  <2>5. Sets!Asked(setCall'[k]) = Sets!Register!Asked(s, {})
    BY <2>2, <2>3, SetsAsked
  <2>6. askedNext = [asked EXCEPT ![k] = Sets!Register!Asked(s, {})]
    BY <2>3, <2>5 DEF asked, askedNext
  <2>7. members' = members
    BY <1>1 DEF Sets!Start
  <2>8. askedNext[k] = Sets!Register!Asked(s, {}) /\ asked[k] = Sets!Register!Nothing
    BY <1>a, <2>4, <2>5
  <2>9. askedNext[k] \in [is : {"asked"}, set : SUBSET Ids, since : {{}}]
    BY <2>8 DEF Sets!Register!Asked
  <2>10. Sets!Register!Ask(k)
    BY <2>6, <2>7, <2>8, <2>9 DEF Sets!Register!Ask, asked, askedNext
  <2> QED
    BY <2>10 DEF Sets!Register!Next
<1>2. ASSUME NEW p \in {"deleting", "inserting", "creating"}, NEW s \in SUBSET Ids,
             setCall[k] # Sets!Idle, Sets!Step(k, p, s), members' = members
      PROVE  UNCHANGED Sets!Register!vars
  <2>1. /\ setCall' \in [Calls -> Sets!Call]
        /\ \A j \in Calls \ {k} : setCall'[j] = setCall[j]
        /\ setCall'[k].pc = p
        /\ setCall'[k].set = setCall[k].set /\ setCall'[k].along = setCall[k].along
    BY <1>2, <1>t, SetsMove
  <2>2. setCall'[k] # Sets!Idle
    BY <1>i, <2>1
  <2>3. Sets!Asked(setCall'[k]) = Sets!Asked(setCall[k])
    BY <1>2, <1>t, <2>1, <2>2, SetsAsked
  <2>4. askedNext = asked
    BY <2>1, <2>3 DEF asked, askedNext
  <2> QED
    BY <1>2, <2>4 DEF Sets!Register!vars, asked, askedNext
<1>3. CASE Sets!BeginDelete(k)
  <2>1. setCall[k] # Sets!Idle /\ members' = members
    BY <1>3, <1>i DEF Sets!BeginDelete
  <2>2. CASE parent = "none"
    BY <1>2, <1>3, <2>1, <2>2 DEF Sets!BeginDelete
  <2>3. CASE parent # "none"
    BY <1>2, <1>3, <1>t, <2>1, <2>3 DEF Sets!BeginDelete
  <2> QED
    BY <2>2, <2>3
<1>4. CASE Sets!LockRows(k)
  <2>1. setCall[k] # Sets!Idle /\ setCall[k].sees \in SUBSET Ids
    BY <1>4, <1>t, <1>i DEF Sets!LockRows, Sets!Call, Sets!Idle
  <2> QED
    BY <1>2, <1>4, <2>1 DEF Sets!LockRows
<1>5. ASSUME setCall[k] # Sets!Idle, Sets!Goto(k, Sets!Idle), members' = members
      PROVE  Sets!Register!Next
  <2>1. /\ \A j \in Calls \ {k} : setCall'[j] = setCall[j]
        /\ setCall'[k] = Sets!Idle
    BY <1>5, <1>t, <1>i, SetsGoto
  <2>2. Sets!Asked(setCall'[k]) = Sets!Register!Nothing
    BY <1>i, <2>1, SetsAsked
  <2>3. asked[k] # Sets!Register!Nothing
    BY <1>5, <1>a, <1>t, SetsAsked
  <2>4. askedNext = [asked EXCEPT ![k] = Sets!Register!Nothing]
    BY <2>1, <2>2 DEF asked, askedNext
  <2>5. Sets!Register!Refuse(k)
    BY <1>5, <2>3, <2>4 DEF Sets!Register!Refuse, asked, askedNext
  <2> QED
    BY <2>5 DEF Sets!Register!Next
<1>6. ASSUME setCall[k] # Sets!Idle, setCall' = Sets!Committed(k),
             setCall[k].set \subseteq members',
             members' \subseteq setCall[k].set \cup (members \cap setCall[k].along)
      PROVE  Sets!Register!Next
  <2>1. /\ setCall' \in [Calls -> Sets!Call] /\ setCall'[k] = Sets!Idle
        /\ \A j \in Calls \ {k} :
             \/ setCall'[j] = Sets!Idle /\ setCall[j] = Sets!Idle
             \/ /\ setCall[j] # Sets!Idle
                /\ setCall'[j].pc = setCall[j].pc /\ setCall'[j].set = setCall[j].set
                /\ setCall'[j].along = setCall[j].along \cup setCall[k].set
    BY <1>6, <1>t, SetsCommit
  <2>2. /\ asked[k] # Sets!Register!Nothing
        /\ asked[k].set = setCall[k].set /\ asked[k].since = setCall[k].along
    BY <1>6, <1>a, <1>t, SetsAsked
  <2>3. ASSUME NEW j \in Calls
        PROVE  Sets!Asked(setCall'[j]) =
                 IF j = k \/ asked[j] = Sets!Register!Nothing THEN Sets!Register!Nothing
                 ELSE Sets!Register!Asked(asked[j].set, asked[j].since \cup asked[k].set)
    <3>1. CASE j = k
      BY <1>i, <2>1, <3>1, SetsAsked
    <3>2. CASE j # k /\ setCall[j] = Sets!Idle
      <4>1. setCall'[j] = Sets!Idle
        BY <2>1, <3>2
      <4>2. asked[j] = Sets!Register!Nothing /\ Sets!Asked(setCall'[j]) = Sets!Register!Nothing
        BY <1>a, <1>i, <3>2, <4>1, SetsAsked
      <4> QED
        BY <4>2
    <3>3. CASE j # k /\ setCall[j] # Sets!Idle
      <4>1. /\ setCall'[j].pc = setCall[j].pc /\ setCall'[j].set = setCall[j].set
            /\ setCall'[j].along = setCall[j].along \cup setCall[k].set
            /\ setCall[j] \in Sets!Call /\ setCall'[j] \in Sets!Call
        BY <1>t, <2>1, <3>3
      <4>2. setCall'[j] # Sets!Idle
        BY <1>i, <3>3, <4>1 DEF Sets!Call, Sets!Idle
      <4>3. Sets!Asked(setCall'[j]) =
              Sets!Register!Asked(setCall[j].set, setCall[j].along \cup setCall[k].set)
        BY <4>1, <4>2, SetsAsked
      <4>4. /\ asked[j] # Sets!Register!Nothing
            /\ asked[j].set = setCall[j].set /\ asked[j].since = setCall[j].along
        BY <1>a, <3>3, <4>1, SetsAsked
      <4> QED
        BY <2>2, <3>3, <4>3, <4>4
    <3> QED
      BY <3>1, <3>2, <3>3
  <2>4. askedNext = [j \in Calls |->
          IF j = k \/ asked[j] = Sets!Register!Nothing THEN Sets!Register!Nothing
          ELSE Sets!Register!Asked(asked[j].set, asked[j].since \cup asked[k].set)]
    BY <2>3 DEF askedNext
  <2>5. Sets!Register!Replace(k)
    BY <1>6, <2>2, <2>4 DEF Sets!Register!Replace, asked, askedNext
  <2> QED
    BY <2>5 DEF Sets!Register!Next
<1>7. CASE Sets!Insert(k)
  <2>1. setCall[k] # Sets!Idle /\ setCall[k].pc = "inserting"
    BY <1>7, <1>i DEF Sets!Insert
  <2>2. CASE Sets!Clashes(k)
    BY <1>5, <1>7, <2>1, <2>2 DEF Sets!Insert
  <2>3. CASE ~Sets!Clashes(k)
    <3>1. /\ members' = (members \ setCall[k].sees) \cup setCall[k].set
          /\ setCall' = Sets!Committed(k)
      BY <1>7, <2>3 DEF Sets!Insert, Sets!Replaced, Sets!Settle
    <3>2. members \ setCall[k].sees \subseteq setCall[k].along
      BY <2>1 DEF SetsInv
    <3>3. setCall[k].set \subseteq members'
      BY <3>1
    <3>4. members' \subseteq setCall[k].set \cup (members \cap setCall[k].along)
      BY <3>1, <3>2
    <3> QED
      BY <1>6, <2>1, <3>1, <3>3, <3>4
  <2> QED
    BY <2>2, <2>3
<1>8. CASE Sets!CreateSchedule(k)
  <2>1. setCall[k] # Sets!Idle
    BY <1>8, <1>i DEF Sets!CreateSchedule
  <2>2. CASE parent = "there"
    BY <1>5, <1>8, <2>1, <2>2 DEF Sets!CreateSchedule
  <2>3. CASE parent # "there"
    <3>1. members' = setCall[k].set /\ setCall' = Sets!Committed(k)
      BY <1>8, <2>3 DEF Sets!CreateSchedule, Sets!Settle
    <3> QED
      BY <1>6, <2>1, <3>1
  <2> QED
    BY <2>2, <2>3
<1>9. CASE Sets!RollBack(k)
  BY <1>5, <1>9 DEF Sets!RollBack
<1> QED
  BY <1>1, <1>3, <1>4, <1>7, <1>8, <1>9

\* For any number of callers, each replacement of roles, groups, permissions or
\* schedule lines is one step of a register of the set: exactly its set, unless
\* another one took effect during the call, and then at most that one's besides.
THEOREM ReplacesAtOnce == Spec => IsARegister
<1>1. Init => Sets!Register!Init
  <2>1. Sets!Asked(Sets!Idle) = Sets!Register!Nothing
    BY DEF Sets!Asked, Sets!Register!Nothing
  <2> QED
    BY <2>1 DEF Init, Sets!Init, Sets!Register!Init
<1>2. SetsInv /\ Sets!Next => [Sets!Register!Next]_(Sets!Register!vars)
  BY SetsMap
<1>3. UNCHANGED sets => UNCHANGED Sets!Register!vars
  BY DEF sets, Sets!Register!vars
<1>4. SetsInv /\ [Next]_vars => [Sets!Register!Next]_(Sets!Register!vars)
  BY <1>2, <1>3, SetsOnly
<1> QED
  BY <1>1, <1>4, SetsInductive, PTL DEF Spec, IsARegister, Sets!IsARegister, Sets!Register!Spec

-----------------------------------------------------------------------------
(* Tokens *)

\* The cached key was published when it was as old as the key has been gone.
TokensKey ==
  /\ jwks \in {"published", "withdrawn"} /\ gone \in 0..(CacheAge + 1)
  /\ cached \in 0..(CacheAge + 1)
  /\ jwks = "published" => gone = 0
  /\ cached # CacheAge + 1 => gone <= cached

TokensAtWork(c) == c.pc \in {"verifying", "fetching", "asking"}

\* A call knows the failures of its time, and while it is good the issued token
\* is valid and its key published; Supabase Auth is not asked about ES256.
TokenGood(k) ==
  TokensAtWork(tokenCall[k]) =>
    /\ down \subseteq tokenCall[k].outage
    /\ tokenCall[k].good = "yes" =>
         tokenCall[k].bearer = "issued" /\ token = "valid" /\ jwks = "published"
    /\ tokenCall[k].pc = "asking" /\ tokenCall[k].bearer = "issued" => alg # "ES256"
    /\ tokenCall[k].pc = "fetching" => Tokens!HeaderAlg(k) = "ES256"

TokensInv ==
  /\ tokenCall \in [One -> Tokens!Call]
  /\ down \subseteq Tokens!Services
  /\ alg \in Tokens!Algs
  /\ TokensKey
  /\ \A k \in One : TokenGood(k)

TokensFair(k) ==
  /\ Tokens!Decides(k, "accepted") =>
       /\ tokenCall[k].bearer = "issued" /\ token # "expired"
       /\ alg = "ES256" => gone <= CacheAge
  /\ Tokens!Decides(k, "refused") /\ tokenCall[k].good = "yes" => tokenCall[k].outage # {}

LEMMA TokensStart == Tokens!Init => TokensInv
BY CacheAgeAssumption DEF Tokens!Init, TokensInv, TokensKey, TokenGood, TokensAtWork, Tokens!Idle, Tokens!Call,
    Tokens!NotCached

\* A call goes on with what it knows.
LEMMA TokensGoto ==
  ASSUME tokenCall \in [One -> Tokens!Call], NEW k \in One, TokensAtWork(tokenCall[k]),
         NEW p \in {"fetching", "asking", "accepted", "refused"}, Tokens!Goto(k, p)
  PROVE  /\ tokenCall' \in [One -> Tokens!Call]
         /\ tokenCall'[k].pc = p /\ tokenCall'[k].bearer = tokenCall[k].bearer
         /\ tokenCall'[k].outage = tokenCall[k].outage /\ tokenCall'[k].good = tokenCall[k].good
         /\ \A j \in One \ {k} : tokenCall'[j] = tokenCall[j]
<1>i. Tokens!Idle.pc = "idle"
  BY DEF Tokens!Idle
<1>1. tokenCall[k] \in [pc : {"verifying", "fetching", "asking", "accepted", "refused"},
                        bearer : Tokens!Bearer, outage : SUBSET Tokens!Services, good : {"yes", "no"}]
  BY <1>i DEF Tokens!Call, TokensAtWork
<1>2. /\ [tokenCall[k] EXCEPT !.pc = p] \in Tokens!Call
      /\ [tokenCall[k] EXCEPT !.pc = p].pc = p
      /\ [tokenCall[k] EXCEPT !.pc = p].bearer = tokenCall[k].bearer
      /\ [tokenCall[k] EXCEPT !.pc = p].outage = tokenCall[k].outage
      /\ [tokenCall[k] EXCEPT !.pc = p].good = tokenCall[k].good
  BY <1>1 DEF Tokens!Call
<1>3. tokenCall' = [tokenCall EXCEPT ![k] = [tokenCall[k] EXCEPT !.pc = p]]
  BY DEF Tokens!Goto
<1> QED
  BY <1>2, <1>3

\* A call that is not touched while the token, the key and Supabase stay.
LEMMA TokensStill ==
  ASSUME NEW j \in One, TokenGood(j), tokenCall'[j] = tokenCall[j],
         UNCHANGED <<alg, token, jwks, down>>
  PROVE  TokenGood(j)' /\ TokensFair(j)
BY DEF TokenGood, TokensFair, TokensAtWork, Tokens!Decides, Tokens!HeaderAlg

\* A call goes on while all else stays; what it decides is right.
LEMMA TokensGoOn ==
  ASSUME TokensInv, NEW k \in One, TokensAtWork(tokenCall[k]),
         NEW p \in {"fetching", "asking", "accepted", "refused"}, Tokens!Goto(k, p),
         UNCHANGED <<alg, token, jwks, gone, down>>,
         UNCHANGED cached \/ (cached' = 0 /\ jwks = "published"),
         p = "asking" /\ tokenCall[k].bearer = "issued" => alg # "ES256",
         p = "fetching" => Tokens!HeaderAlg(k) = "ES256",
         p = "accepted" => /\ tokenCall[k].bearer = "issued" /\ token # "expired"
                           /\ alg = "ES256" => gone <= CacheAge,
         p = "refused" /\ tokenCall[k].good = "yes" => tokenCall[k].outage # {}
  PROVE  TokensInv' /\ \A j \in One : TokensFair(j)
<1>1. /\ tokenCall' \in [One -> Tokens!Call]
      /\ tokenCall'[k].pc = p /\ tokenCall'[k].bearer = tokenCall[k].bearer
      /\ tokenCall'[k].outage = tokenCall[k].outage /\ tokenCall'[k].good = tokenCall[k].good
      /\ \A j \in One \ {k} : tokenCall'[j] = tokenCall[j]
  BY TokensGoto DEF TokensInv
<1>2. TokenGood(k)'
  <2>1. TokenGood(k)
    BY DEF TokensInv
  <2> QED
    BY <1>1, <2>1 DEF TokenGood, TokensAtWork, Tokens!HeaderAlg
<1>3. TokensFair(k)
  BY <1>1 DEF TokensFair, Tokens!Decides
<1>4. \A j \in One \ {k} : TokenGood(j)' /\ TokensFair(j)
  BY <1>1, TokensStill DEF TokensInv
<1>5. TokensKey'
  BY CacheAgeAssumption DEF TokensInv, TokensKey
<1> QED
  BY <1>1, <1>2, <1>3, <1>4, <1>5 DEF TokensInv

\* A step that moves no call towards a verdict.
LEMMA TokensAround ==
  ASSUME TokensInv, tokenCall' \in [One -> Tokens!Call], down' \subseteq Tokens!Services,
         UNCHANGED alg, TokensKey', \A j \in One : TokenGood(j)',
         \A j \in One : tokenCall'[j].pc \in {tokenCall[j].pc, "idle", "verifying"}
  PROVE  TokensInv' /\ \A j \in One : TokensFair(j)
BY DEF TokensInv, TokensFair, Tokens!Decides

LEMMA TokensKeep ==
  ASSUME TokensInv, Tokens!Next
  PROVE  TokensInv' /\ \A j \in One : TokensFair(j)
<1> DEFINE Goal == TokensInv' /\ \A j \in One : TokensFair(j)
<1>i. Tokens!Idle.pc = "idle" /\ Tokens!Idle \in Tokens!Call
  BY DEF Tokens!Idle, Tokens!Call
<1>t. /\ tokenCall \in [One -> Tokens!Call] /\ down \subseteq Tokens!Services
      /\ TokensKey /\ alg \in Tokens!Algs
  BY DEF TokensInv
<1>c. \A k \in One : TokenGood(k)
  BY DEF TokensInv
<1>1. ASSUME NEW k \in One, Tokens!Receive(k) PROVE Goal
  <2> PICK b \in Tokens!Bearer :
        tokenCall' = [tokenCall EXCEPT ![k] =
          [pc |-> "verifying", bearer |-> b, outage |-> down,
           good |-> IF b = "issued" /\ token = "valid" /\ jwks = "published" THEN "yes" ELSE "no"]]
    BY <1>1 DEF Tokens!Receive
  <2> DEFINE c == [pc |-> "verifying", bearer |-> b, outage |-> down,
                   good |-> IF b = "issued" /\ token = "valid" /\ jwks = "published" THEN "yes" ELSE "no"]
  <2>1. c \in Tokens!Call
    BY <1>t DEF Tokens!Call
  <2>2. tokenCall' \in [One -> Tokens!Call] /\ tokenCall'[k] = c
        /\ \A j \in One \ {k} : tokenCall'[j] = tokenCall[j]
    BY <1>t, <2>1
  <2>3. UNCHANGED <<alg, token, jwks, gone, cached, down>>
    BY <1>1 DEF Tokens!Receive, Tokens!Environment
  <2>4. /\ c.pc = "verifying" /\ c.outage = down
        /\ c.good = "yes" => c.bearer = "issued" /\ token = "valid" /\ jwks = "published"
    OBVIOUS
  <2> HIDE DEF c
  <2>5. TokenGood(k)'
    BY <2>2, <2>3, <2>4 DEF TokenGood
  <2>6. \A j \in One : TokenGood(j)'
    BY <1>c, <2>2, <2>3, <2>5, TokensStill
  <2>7. \A j \in One : tokenCall'[j].pc \in {tokenCall[j].pc, "verifying"}
    BY <2>2, <2>4
  <2>8. TokensKey'
    BY <1>t, <2>3 DEF TokensKey
  <2> QED
    BY <1>t, <2>2, <2>3, <2>6, <2>7, <2>8, TokensAround
\* What a local check decides.
<1>v. ASSUME NEW k \in One, TokensAtWork(tokenCall[k]) 
      PROVE  /\ Tokens!Checked(k) \in {"accepted", "refused"}
             /\ Tokens!Checked(k) = "accepted" => tokenCall[k].bearer = "issued" /\ token # "expired"
             /\ Tokens!Checked(k) = "refused" => tokenCall[k].good # "yes"
  BY <1>c, <1>v DEF Tokens!Checked, TokenGood
<1>2. ASSUME NEW k \in One, Tokens!VerifyHS256(k) PROVE Goal
  <2>1. /\ tokenCall[k].pc = "verifying" /\ Tokens!HeaderAlg(k) = "HS256"
        /\ UNCHANGED <<alg, token, jwks, gone, cached, down>>
    BY <1>2 DEF Tokens!VerifyHS256, Tokens!Environment
  <2>2. tokenCall[k].bearer = "issued" => alg # "ES256"
    BY <2>1 DEF Tokens!HeaderAlg
  <2>3. Tokens!Goto(k, Tokens!Checked(k)) \/ Tokens!Goto(k, "asking")
    BY <1>2 DEF Tokens!VerifyHS256, Tokens!Unavailable
  <2>4. TokensAtWork(tokenCall[k])
    BY <2>1 DEF TokensAtWork
  <2>5. CASE Tokens!Goto(k, Tokens!Checked(k))
    BY <1>v, <2>1, <2>2, <2>4, <2>5, TokensGoOn
  <2>6. CASE Tokens!Goto(k, "asking")
    BY <2>1, <2>2, <2>4, <2>6, TokensGoOn
  <2> QED
    BY <2>3, <2>5, <2>6
<1>3. ASSUME NEW k \in One, Tokens!VerifyES256(k) PROVE Goal
  <2>1. /\ tokenCall[k].pc = "verifying" /\ Tokens!HeaderAlg(k) = "ES256"
        /\ UNCHANGED <<alg, token, jwks, gone, cached, down>>
    BY <1>3 DEF Tokens!VerifyES256, Tokens!Environment
  <2>2. \/ Tokens!Goto(k, "fetching")
        \/ cached # CacheAge + 1 /\ Tokens!Goto(k, Tokens!Checked(k))
    BY <1>3 DEF Tokens!VerifyES256, Tokens!NotCached
  <2>3. cached # CacheAge + 1 => gone <= CacheAge
    BY <1>t, CacheAgeAssumption DEF TokensKey
  <2>4. TokensAtWork(tokenCall[k])
    BY <2>1 DEF TokensAtWork
  <2>5. CASE cached # CacheAge + 1 /\ Tokens!Goto(k, Tokens!Checked(k))
    BY <1>v, <2>1, <2>3, <2>4, <2>5, TokensGoOn
  <2>6. CASE Tokens!Goto(k, "fetching")
    BY <2>1, <2>4, <2>6, TokensGoOn
  <2> QED
    BY <2>2, <2>5, <2>6
<1>4. ASSUME NEW k \in One, Tokens!VerifyEdDSA(k) PROVE Goal
  <2>1. /\ tokenCall[k].pc = "verifying" /\ Tokens!HeaderAlg(k) = "EdDSA"
        /\ UNCHANGED <<alg, token, jwks, gone, cached, down>> /\ Tokens!Goto(k, "asking")
    BY <1>4 DEF Tokens!VerifyEdDSA, Tokens!Environment, Tokens!Unavailable
  <2>2. tokenCall[k].bearer = "issued" => alg # "ES256"
    BY <2>1 DEF Tokens!HeaderAlg
  <2> QED
    BY <2>1, <2>2, TokensGoOn DEF TokensAtWork
<1>5. ASSUME NEW k \in One, Tokens!FetchKey(k) PROVE Goal
  <2>1. /\ tokenCall[k].pc = "fetching" /\ UNCHANGED <<alg, token, jwks, gone, down>>
        /\ TokensAtWork(tokenCall[k])
    BY <1>5 DEF Tokens!FetchKey, Tokens!Environment, TokensAtWork
  <2>2. CASE "jwks" \notin down /\ jwks = "published"
    <3>1. gone <= CacheAge
      BY <1>t, <2>2, CacheAgeAssumption DEF TokensKey
    <3>2. Tokens!Goto(k, Tokens!Checked(k)) /\ cached' = 0
      BY <1>5, <2>2 DEF Tokens!FetchKey
    <3> QED
      BY <1>v, <2>1, <2>2, <3>1, <3>2, TokensGoOn
  <2>3. CASE ~("jwks" \notin down /\ jwks = "published")
    <3>1. Tokens!Goto(k, "refused") /\ UNCHANGED cached
      BY <1>5, <2>3 DEF Tokens!FetchKey
    <3>2. tokenCall[k].good = "yes" => tokenCall[k].outage # {}
      BY <1>c, <2>1, <2>3 DEF TokenGood
    <3> QED
      BY <2>1, <3>1, <3>2, TokensGoOn
  <2> QED
    BY <2>2, <2>3
<1>6. ASSUME NEW k \in One, Tokens!GetUser(k) PROVE Goal
  <2>1. /\ tokenCall[k].pc = "asking" /\ UNCHANGED <<alg, token, jwks, gone, cached, down>>
        /\ TokensAtWork(tokenCall[k])
    BY <1>6 DEF Tokens!GetUser, Tokens!Environment, TokensAtWork
  <2>2. CASE "auth" \notin down /\ tokenCall[k].bearer = "issued" /\ token = "valid"
    <3>1. Tokens!Goto(k, "accepted")
      BY <1>6, <2>2 DEF Tokens!GetUser
    <3>2. alg # "ES256"
      BY <1>c, <2>1, <2>2 DEF TokenGood
    <3> QED
      BY <2>1, <2>2, <3>1, <3>2, TokensGoOn
  <2>3. CASE ~("auth" \notin down /\ tokenCall[k].bearer = "issued" /\ token = "valid")
    <3>1. Tokens!Goto(k, "refused")
      BY <1>6, <2>3 DEF Tokens!GetUser
    <3>2. tokenCall[k].good = "yes" => tokenCall[k].outage # {}
      BY <1>c, <2>1, <2>3 DEF TokenGood
    <3> QED
      BY <2>1, <3>1, <3>2, TokensGoOn
  <2> QED
    BY <2>2, <2>3
<1>7. ASSUME NEW k \in One, Tokens!Answer(k) PROVE Goal
  <2>1. /\ UNCHANGED <<alg, token, jwks, gone, cached, down>>
        /\ tokenCall' = [tokenCall EXCEPT ![k] = Tokens!Idle]
    BY <1>7 DEF Tokens!Answer, Tokens!Environment
  <2>2. tokenCall' \in [One -> Tokens!Call] /\ tokenCall'[k].pc = "idle"
        /\ \A j \in One \ {k} : tokenCall'[j] = tokenCall[j]
    BY <1>t, <1>i, <2>1
  <2>3. TokenGood(k)'
    BY <2>2 DEF TokenGood, TokensAtWork
  <2>4. \A j \in One : TokenGood(j)'
    BY <1>c, <2>1, <2>2, <2>3, TokensStill
  <2>5. TokensKey'
    BY <1>t, <2>1 DEF TokensKey
  <2> QED
    BY <1>t, <2>1, <2>2, <2>4, <2>5, TokensAround
\* Supabase changes, and no call is good any more.
<1>8. ASSUME Tokens!Logout \/ Tokens!Expire \/ Tokens!Withdraw PROVE Goal
  <2>1. UNCHANGED <<alg, gone, cached, down>> /\ tokenCall' = Tokens!Spoiled
    BY <1>8 DEF Tokens!Logout, Tokens!Expire, Tokens!Withdraw
  <2>2. ASSUME NEW j \in One
        PROVE  /\ tokenCall'[j] \in Tokens!Call
               /\ tokenCall'[j].pc = tokenCall[j].pc
               /\ TokensAtWork(tokenCall[j]) =>
                    /\ tokenCall'[j].good = "no" /\ tokenCall'[j].outage = tokenCall[j].outage
                    /\ tokenCall'[j].bearer = tokenCall[j].bearer
    <3>1. CASE TokensAtWork(tokenCall[j])
      <4>1. tokenCall[j] \in [pc : {"verifying", "fetching", "asking", "accepted", "refused"},
                              bearer : Tokens!Bearer, outage : SUBSET Tokens!Services,
                              good : {"yes", "no"}]
        BY <1>t, <1>i, <3>1 DEF Tokens!Call, TokensAtWork
      <4>2. tokenCall'[j] = [tokenCall[j] EXCEPT !.good = "no"]
        BY <2>1, <3>1 DEF Tokens!Spoiled, Tokens!Working, TokensAtWork
      <4> QED
        BY <4>1, <4>2 DEF Tokens!Call
    <3>2. CASE ~TokensAtWork(tokenCall[j])
      <4>1. tokenCall'[j] = tokenCall[j]
        BY <2>1, <3>2 DEF Tokens!Spoiled, Tokens!Working, TokensAtWork
      <4> QED
        BY <1>t, <3>2, <4>1
    <3> QED
      BY <3>1, <3>2
  <2>3. tokenCall' \in [One -> Tokens!Call]
    BY <2>1, <2>2 DEF Tokens!Spoiled
  <2>4. \A j \in One : TokenGood(j)'
    BY <1>c, <2>1, <2>2 DEF TokenGood, TokensAtWork, Tokens!HeaderAlg
  <2>5. TokensKey'
    BY <1>t, <1>8, <2>1 DEF TokensKey, Tokens!Logout, Tokens!Expire, Tokens!Withdraw
  <2> QED
    BY <1>t, <2>1, <2>2, <2>3, <2>4, <2>5, TokensAround
<1>9. ASSUME NEW s \in Tokens!Services, Tokens!Fail(s) PROVE Goal
  <2>1. /\ UNCHANGED <<alg, token, jwks, gone, cached>> /\ down' = down \cup {s}
        /\ tokenCall' = [k \in One |-> IF Tokens!Working(tokenCall[k])
                                       THEN [tokenCall[k] EXCEPT !.outage = @ \cup {s}]
                                       ELSE tokenCall[k]]
    BY <1>9 DEF Tokens!Fail
  <2>2. ASSUME NEW j \in One
        PROVE  /\ tokenCall'[j] \in Tokens!Call
               /\ tokenCall'[j].pc = tokenCall[j].pc
               /\ TokensAtWork(tokenCall[j]) =>
                    /\ tokenCall'[j].good = tokenCall[j].good
                    /\ tokenCall'[j].outage = tokenCall[j].outage \cup {s}
                    /\ tokenCall'[j].bearer = tokenCall[j].bearer
    <3>1. CASE TokensAtWork(tokenCall[j])
      <4>1. tokenCall[j] \in [pc : {"verifying", "fetching", "asking", "accepted", "refused"},
                              bearer : Tokens!Bearer, outage : SUBSET Tokens!Services,
                              good : {"yes", "no"}]
        BY <1>t, <1>i, <3>1 DEF Tokens!Call, TokensAtWork
      <4>2. tokenCall'[j] = [tokenCall[j] EXCEPT !.outage = @ \cup {s}]
        BY <2>1, <3>1 DEF Tokens!Working, TokensAtWork
      <4> QED
        BY <4>1, <4>2 DEF Tokens!Call
    <3>2. CASE ~TokensAtWork(tokenCall[j])
      <4>1. tokenCall'[j] = tokenCall[j]
        BY <2>1, <3>2 DEF Tokens!Working, TokensAtWork
      <4> QED
        BY <1>t, <3>2, <4>1
    <3> QED
      BY <3>1, <3>2
  <2>3. tokenCall' \in [One -> Tokens!Call]
    BY <2>1, <2>2
  <2>4. ASSUME NEW j \in One PROVE TokenGood(j)'
    <3>1. CASE TokensAtWork(tokenCall[j])
      <4>1. TokenGood(j) /\ Tokens!HeaderAlg(j)' = Tokens!HeaderAlg(j)
        BY <1>c, <2>1, <2>2, <3>1 DEF Tokens!HeaderAlg
      <4>2. down' \subseteq tokenCall'[j].outage
        BY <2>1, <2>2, <3>1, <4>1 DEF TokenGood
      <4> QED
        BY <2>1, <2>2, <3>1, <4>1, <4>2 DEF TokenGood
    <3>2. CASE ~TokensAtWork(tokenCall[j])
      BY <2>2, <3>2 DEF TokenGood, TokensAtWork
    <3> QED
      BY <3>1, <3>2
  <2>5. TokensKey'
    BY <1>t, <2>1 DEF TokensKey
  <2> QED
    BY <1>t, <2>1, <2>2, <2>3, <2>4, <2>5, TokensAround
<1>10. ASSUME NEW s \in Tokens!Services, Tokens!Recover(s) PROVE Goal
  <2>1. UNCHANGED <<alg, token, jwks, gone, cached, tokenCall>> /\ down' = down \ {s}
    BY <1>10 DEF Tokens!Recover
  <2>2. \A j \in One : TokenGood(j)'
    BY <1>c, <2>1 DEF TokenGood, TokensAtWork, Tokens!HeaderAlg
  <2> QED
    BY <1>t, <2>1, <2>2, TokensAround DEF TokensKey
<1>11. CASE Tokens!Tick
  <2>1. /\ UNCHANGED <<alg, token, jwks, down, tokenCall>>
        /\ cached' = IF cached = CacheAge + 1 THEN cached ELSE cached + 1
        /\ gone' = IF jwks = "withdrawn" /\ gone <= CacheAge THEN gone + 1 ELSE gone
    BY <1>11 DEF Tokens!Tick, Tokens!Aged, Tokens!NotCached
  <2>2. TokensKey'
    BY <1>t, <2>1, CacheAgeAssumption DEF TokensKey
  <2>3. \A j \in One : TokenGood(j)'
    BY <1>c, <2>1, TokensStill
  <2> QED
    BY <1>t, <2>1, <2>2, <2>3, TokensAround
<1>12. CASE Tokens!Restart
  <2>1. /\ UNCHANGED <<alg, token, jwks, gone, down>> /\ cached' = CacheAge + 1
        /\ tokenCall' = [k \in One |-> Tokens!Idle]
    BY <1>12 DEF Tokens!Restart, Tokens!NotCached, Tokens!Environment
  <2>2. TokensKey'
    BY <1>t, <2>1, CacheAgeAssumption DEF TokensKey
  <2>3. \A j \in One : TokenGood(j)' /\ tokenCall'[j].pc = "idle"
    BY <1>i, <2>1 DEF TokenGood, TokensAtWork
  <2>4. tokenCall' \in [One -> Tokens!Call]
    BY <1>i, <2>1
  <2> QED
    BY <1>t, <2>1, <2>2, <2>3, <2>4, TokensAround
<1> QED
  BY <1>1, <1>2, <1>3, <1>4, <1>5, <1>6, <1>7, <1>8, <1>9, <1>10, <1>11, <1>12 DEF Tokens!Next

LEMMA TokensInductive == Spec => []TokensInv
<1>1. Init => TokensInv
  BY TokensStart DEF Init
<1>2. TokensInv /\ Tokens!Next => TokensInv'
  BY TokensKeep
<1>3. TokensInv /\ UNCHANGED tokens => TokensInv'
  BY DEF TokensInv, TokensKey, TokenGood, TokensAtWork, Tokens!HeaderAlg, tokens
<1> QED
  BY <1>1, <1>2, <1>3, TokensOnly, PTL DEF Spec

\* Genuine tokens are accepted and others refused, outages aside.
THEOREM TokensAreJudgedRightly == Spec => VerdictsAreRight
<1>1. TokensInv /\ [Next]_vars => [Tokens!RightVerdict]_tokens
  BY TokensOnly, TokensKeep DEF TokensFair, Tokens!RightVerdict
<1> QED
  BY <1>1, TokensInductive, PTL DEF Spec, VerdictsAreRight

-----------------------------------------------------------------------------
(* Sign-in *)

Loading == {"loading", "ensuring", "creating", "reloading"}

\* A call has noted how the row stands now, and one about to insert that the
\* row was not a good one; a person whom only Google vouches for waits.
SignInGood(k) ==
  /\ signInCall[k].pc \in Loading => SignIns!Standing(user) \in signInCall[k].was
  /\ signInCall[k].pc = "creating" => "bad" \in signInCall[k].was

GoogleWaits ==
  user.state = "live" =>
    (user.via = "google" => user.status = "PENDING_APPROVAL" /\ user.role = "none")

SignInsInv ==
  /\ signInCall \in [Calls -> SignIns!Call]
  /\ \A k \in Calls : SignInGood(k)
  /\ GoogleWaits

LEMMA SignInsStart == SignIns!Init => SignInsInv
BY DEF SignIns!Init, SignInsInv, SignInGood, GoogleWaits, Loading, SignIns!Idle, SignIns!Call, SignIns!NoRow

\* A call goes on, with what it has noted, or ends; the row stands as it did.
LEMMA SignInsGoto ==
  ASSUME signInCall \in [Calls -> SignIns!Call], NEW k \in Calls, NEW p \in Loading \cup {"in", "out"},
         signInCall[k].pc \in Loading, SignIns!Goto(k, p)
  PROVE  /\ signInCall' \in [Calls -> SignIns!Call]
         /\ signInCall'[k].pc = p /\ signInCall'[k].was = signInCall[k].was
         /\ \A j \in Calls \ {k} : signInCall'[j] = signInCall[j]
<1>1. signInCall[k] \in [pc : Loading \cup {"in", "out"},
                         by : {"signup", "login", "refresh", "google"}, was : SUBSET {"good", "bad"}]
  BY DEF SignIns!Call, SignIns!Idle, Loading
<1>2. /\ [signInCall[k] EXCEPT !.pc = p] \in SignIns!Call
      /\ [signInCall[k] EXCEPT !.pc = p].pc = p
      /\ [signInCall[k] EXCEPT !.pc = p].was = signInCall[k].was
  BY <1>1 DEF SignIns!Call, Loading
<1>3. signInCall' = [signInCall EXCEPT ![k] = [signInCall[k] EXCEPT !.pc = p]]
  BY DEF SignIns!Goto
<1> QED
  BY <1>2, <1>3

\* A call is replaced.
LEMMA SignInsPut ==
  ASSUME signInCall \in [Calls -> SignIns!Call], NEW k \in Calls, NEW c \in SignIns!Call,
         signInCall' = [signInCall EXCEPT ![k] = c]
  PROVE  /\ signInCall' \in [Calls -> SignIns!Call]
         /\ signInCall'[k] = c
         /\ \A j \in Calls \ {k} : signInCall'[j] = signInCall[j]
OBVIOUS

\* Every call notes how a new row stands.
LEMMA SignInsUnder ==
  ASSUME signInCall \in [Calls -> SignIns!Call], NEW r
  PROVE  /\ SignIns!Under(r) \in [Calls -> SignIns!Call]
         /\ \A j \in Calls : /\ SignIns!Under(r)[j].pc = signInCall[j].pc
                             /\ signInCall[j].pc \in Loading =>
                                  SignIns!Under(r)[j].was
                                    = signInCall[j].was \cup {SignIns!Standing(r)}
<1> DEFINE St == SignIns!Standing(r)
<1>1. St \in {"good", "bad"}
  BY DEF SignIns!Standing
<1> HIDE DEF St
<1>2. ASSUME NEW j \in Calls, signInCall[j].pc \in Loading
      PROVE  /\ SignIns!Under(r)[j] \in SignIns!Call
             /\ SignIns!Under(r)[j].pc = signInCall[j].pc
             /\ SignIns!Under(r)[j].was = signInCall[j].was \cup {St}
  <2>1. signInCall[j] \in [pc : Loading, by : {"signup", "login", "refresh", "google"},
                           was : SUBSET {"good", "bad"}]
    BY <1>2 DEF SignIns!Call, SignIns!Idle, Loading
  <2>2. SignIns!Under(r)[j] = [signInCall[j] EXCEPT !.was = @ \cup {St}]
    BY <1>2 DEF SignIns!Under, Loading, St
  <2> QED
    BY <1>1, <2>1, <2>2 DEF SignIns!Call, Loading
<1>3. ASSUME NEW j \in Calls, signInCall[j].pc \notin Loading
      PROVE  SignIns!Under(r)[j] = signInCall[j]
  BY <1>3 DEF SignIns!Under, Loading
<1>4. SignIns!Under(r) = [j \in Calls |-> SignIns!Under(r)[j]]
  BY DEF SignIns!Under
<1>5. \A j \in Calls : SignIns!Under(r)[j] \in SignIns!Call
  BY <1>2, <1>3
<1>6. SignIns!Under(r) \in [Calls -> SignIns!Call]
  BY <1>4, <1>5
<1> QED
  BY <1>2, <1>3, <1>6 DEF St

SignInDecides(k, p) == signInCall[k].pc # p /\ signInCall'[k].pc = p

\* What a step means to one call.
SignInFair(k) ==
  /\ SignInDecides(k, "in") => "good" \in signInCall'[k].was
  /\ SignInDecides(k, "out") => "bad" \in signInCall'[k].was

\* A call that is not touched, while the row stays, is as good as before.
LEMMA SignInsStill ==
  ASSUME NEW j \in Calls, SignInGood(j), signInCall'[j] = signInCall[j], UNCHANGED user
  PROVE  SignInGood(j)' /\ SignInFair(j)
BY DEF SignInGood, SignInFair, SignInDecides

\* A call that is begun, or answered, has decided nothing.
LEMMA SignInsBegun ==
  ASSUME SignInsInv, NEW k \in Calls, NEW c \in SignIns!Call, UNCHANGED user,
         signInCall' = [signInCall EXCEPT ![k] = c],
         c.pc \notin {"in", "out", "creating"},
         c.pc \in Loading => SignIns!Standing(user) \in c.was
  PROVE  SignInsInv' /\ \A j \in Calls : SignInFair(j)
<1>1. /\ signInCall' \in [Calls -> SignIns!Call] /\ signInCall'[k] = c
      /\ \A j \in Calls \ {k} : signInCall'[j] = signInCall[j]
  BY SignInsPut DEF SignInsInv
<1>2. SignInGood(k)' /\ SignInFair(k)
  BY <1>1 DEF SignInGood, SignInFair, SignInDecides
<1>3. \A j \in Calls \ {k} : SignInGood(j)' /\ SignInFair(j)
  BY <1>1, SignInsStill DEF SignInsInv
<1>4. GoogleWaits'
  BY DEF SignInsInv, GoogleWaits
<1> QED
  BY <1>1, <1>2, <1>3, <1>4 DEF SignInsInv

\* A call that goes on while the row stays.
LEMMA SignInsGoOn ==
  ASSUME SignInsInv, NEW k \in Calls, NEW p \in Loading \cup {"in", "out"}, UNCHANGED user,
         signInCall[k].pc \in Loading, SignIns!Goto(k, p),
         p = "in" => SignIns!Standing(user) = "good",
         p \in {"out", "creating"} => "bad" \in signInCall[k].was
  PROVE  SignInsInv' /\ \A j \in Calls : SignInFair(j)
<1>1. /\ signInCall' \in [Calls -> SignIns!Call]
      /\ signInCall'[k].pc = p /\ signInCall'[k].was = signInCall[k].was
      /\ \A j \in Calls \ {k} : signInCall'[j] = signInCall[j]
  BY SignInsGoto DEF SignInsInv
<1>2. SignIns!Standing(user) \in signInCall[k].was
  BY DEF SignInsInv, SignInGood
<1>3. SignInGood(k)' /\ SignInFair(k)
  BY <1>1, <1>2 DEF SignInGood, SignInFair, SignInDecides
<1>4. \A j \in Calls \ {k} : SignInGood(j)' /\ SignInFair(j)
  BY <1>1, SignInsStill DEF SignInsInv
<1>5. GoogleWaits'
  BY DEF SignInsInv, GoogleWaits
<1> QED
  BY <1>1, <1>3, <1>4, <1>5 DEF SignInsInv

\* The row is written under the calls at work.
LEMMA SignInsWrite ==
  ASSUME SignInsInv, NEW r, user' = r, signInCall' = SignIns!Under(r),
         r.state = "live" =>
           (r.via = "google" => r.status = "PENDING_APPROVAL" /\ r.role = "none")
  PROVE  SignInsInv' /\ \A j \in Calls : SignInFair(j)
<1>1. /\ signInCall' \in [Calls -> SignIns!Call]
      /\ \A j \in Calls : /\ signInCall'[j].pc = signInCall[j].pc
                          /\ signInCall[j].pc \in Loading =>
                               signInCall'[j].was = signInCall[j].was \cup {SignIns!Standing(r)}
  BY SignInsUnder DEF SignInsInv
<1>2. ASSUME NEW j \in Calls PROVE SignInGood(j)' /\ SignInFair(j)
  <2>1. SignIns!Standing(user)' = SignIns!Standing(r)
    BY DEF SignIns!Standing
  <2>2. SignInFair(j)
    BY <1>1 DEF SignInFair, SignInDecides
  <2>3. signInCall'[j].pc \in Loading => SignIns!Standing(r) \in signInCall'[j].was
    BY <1>1
  <2>4. signInCall'[j].pc = "creating" => "bad" \in signInCall'[j].was
    BY <1>1 DEF SignInsInv, SignInGood, Loading
  <2> QED
    BY <2>1, <2>2, <2>3, <2>4 DEF SignInGood
<1>3. GoogleWaits'
  BY DEF GoogleWaits
<1> QED
  BY <1>1, <1>2, <1>3 DEF SignInsInv

\* The call that makes the row loads it next.
LEMMA SignInsCreate ==
  ASSUME SignInsInv, NEW k \in Calls, SignIns!CreateRow(k)
  PROVE  SignInsInv' /\ \A j \in Calls : SignInFair(j)
<1>p. signInCall[k].pc = "creating"
  BY DEF SignIns!CreateRow
<1>1. CASE user = SignIns!NoRow
  <2>1. PICK r : /\ r = SignIns!NewRow(signInCall[k].by) /\ user' = r
                 /\ signInCall' = [SignIns!Under(r) EXCEPT ![k].pc = "reloading"]
    BY <1>1 DEF SignIns!CreateRow
  <2>2. /\ SignIns!Under(r) \in [Calls -> SignIns!Call]
        /\ \A j \in Calls : /\ SignIns!Under(r)[j].pc = signInCall[j].pc
                            /\ signInCall[j].pc \in Loading =>
                                 SignIns!Under(r)[j].was
                                   = signInCall[j].was \cup {SignIns!Standing(r)}
    BY SignInsUnder DEF SignInsInv
  <2> DEFINE u == SignIns!Under(r)[k]
  <2>3. u \in [pc : Loading, by : {"signup", "login", "refresh", "google"},
               was : SUBSET {"good", "bad"}]
    <3>1. u \in SignIns!Call /\ u.pc = "creating"
      BY <1>p, <2>2
    <3> HIDE DEF u
    <3> QED
      BY <3>1 DEF SignIns!Call, SignIns!Idle, Loading
  <2> HIDE DEF u
  <2>4. /\ [u EXCEPT !.pc = "reloading"] \in SignIns!Call
        /\ [u EXCEPT !.pc = "reloading"].pc = "reloading"
        /\ [u EXCEPT !.pc = "reloading"].was = u.was
    BY <2>3 DEF SignIns!Call, Loading
  <2>5. signInCall' = [SignIns!Under(r) EXCEPT ![k] = [u EXCEPT !.pc = "reloading"]]
    BY <2>1 DEF u
  <2>6. /\ signInCall' \in [Calls -> SignIns!Call]
        /\ signInCall'[k] = [u EXCEPT !.pc = "reloading"]
        /\ \A j \in Calls \ {k} : signInCall'[j] = SignIns!Under(r)[j]
    BY <2>2, <2>4, <2>5
  <2>7. SignIns!Standing(user)' = SignIns!Standing(r)
    BY <2>1 DEF SignIns!Standing
  <2>8. SignInGood(k)' /\ SignInFair(k)
    <3>1. u.was = signInCall[k].was \cup {SignIns!Standing(r)}
      BY <1>p, <2>2 DEF u, Loading
    <3> QED
      BY <2>4, <2>6, <2>7, <3>1 DEF SignInGood, SignInFair, SignInDecides
  <2>9. ASSUME NEW j \in Calls \ {k} PROVE SignInGood(j)' /\ SignInFair(j)
    <3>1. signInCall'[j].pc = signInCall[j].pc
      BY <2>2, <2>6
    <3>2. SignInFair(j)
      BY <3>1 DEF SignInFair, SignInDecides
    <3>3. signInCall'[j].pc \in Loading => SignIns!Standing(r) \in signInCall'[j].was
      BY <2>2, <2>6
    <3>4. signInCall'[j].pc = "creating" => "bad" \in signInCall'[j].was
      BY <2>2, <2>6 DEF SignInsInv, SignInGood, Loading
    <3> QED
      BY <2>7, <3>2, <3>3, <3>4 DEF SignInGood
  <2>10. GoogleWaits'
    BY <2>1 DEF GoogleWaits, SignIns!NewRow
  <2> QED
    BY <2>6, <2>8, <2>9, <2>10 DEF SignInsInv
<1>2. CASE user # SignIns!NoRow
  <2>1. SignIns!Goto(k, "out") /\ UNCHANGED user
    BY <1>2 DEF SignIns!CreateRow
  <2>2. "bad" \in signInCall[k].was
    BY <1>p DEF SignInsInv, SignInGood
  <2> QED
    BY <1>p, <2>1, <2>2, SignInsGoOn DEF Loading
<1> QED
  BY <1>1, <1>2

SignInsTyped ==
  /\ user \in SignIns!Rows \cup {SignIns!NoRow}
  /\ cookie \in Ids \cup {SignIns!NoCookie}
  /\ started \subseteq Ids
  /\ signInCall \in [Calls -> SignIns!Call]

LEMMA SignInsTypes ==
  ASSUME SignInsTyped, SignInsInv', SignIns!Next
  PROVE  SignInsTyped'
<1> USE DEF SignInsTyped
<1>i. signInCall' \in [Calls -> SignIns!Call]
  BY DEF SignInsInv
<1>1. CASE \E k \in Calls : SignIns!OauthCallback(k)
  BY <1>i, <1>1 DEF SignIns!OauthCallback
<1>2. CASE \E k \in Calls : SignIns!CreateRow(k)
  <2>1. ASSUME NEW k \in Calls, user' = SignIns!NewRow(signInCall[k].by) PROVE user' \in SignIns!Rows
    BY <2>1 DEF SignIns!NewRow, SignIns!Rows, SignIns!Statuses
  <2> QED
    BY <1>i, <1>2, <2>1 DEF SignIns!CreateRow, SignIns!Browser
<1>3. CASE \E k \in Calls : \/ SignIns!SignUp(k) \/ SignIns!Login(k) \/ SignIns!Refresh(k)
                            \/ SignIns!ExchangeCode(k) \/ SignIns!LoadBySubject(k)
                            \/ SignIns!FindExisting(k) \/ SignIns!Reload(k) \/ SignIns!Answer(k)
  BY <1>i, <1>3 DEF SignIns!SignUp, SignIns!Login, SignIns!Refresh, SignIns!ExchangeCode,
     SignIns!LoadBySubject, SignIns!FindExisting, SignIns!Reload, SignIns!Answer, SignIns!Browser
<1>4. CASE SignIns!StartGoogleOAuth
  BY <1>i, <1>4 DEF SignIns!StartGoogleOAuth
<1>5. CASE SignIns!CreateUser
  BY <1>i, <1>5 DEF SignIns!CreateUser, SignIns!Write, SignIns!Browser, SignIns!Rows, SignIns!Statuses
<1>6. CASE SignIns!UpdateUser \/ SignIns!SetUserRoles \/ SignIns!SoftDeleteUser
  <2>1. user \in SignIns!Rows
    <3>1. user.state = "live"
      BY <1>6 DEF SignIns!UpdateUser, SignIns!SetUserRoles, SignIns!SoftDeleteUser
    <3>2. SignIns!NoRow.state = "none"
      BY DEF SignIns!NoRow
    <3> QED
      BY <3>1, <3>2 DEF SignInsTyped
  <2>2. /\ \A t \in SignIns!Statuses : [user EXCEPT !.status = t, !.via = "admin"] \in SignIns!Rows
        /\ \A r \in {"default", "none"} : [user EXCEPT !.role = r, !.via = "admin"] \in SignIns!Rows
        /\ [user EXCEPT !.state = "deleted", !.status = "DEACTIVATED"] \in SignIns!Rows
    BY <2>1 DEF SignIns!Rows, SignIns!Statuses, SignIns!Blocked
  <2> QED
    BY <1>i, <1>6, <2>2
    DEF SignIns!UpdateUser, SignIns!SetUserRoles, SignIns!SoftDeleteUser, SignIns!Write, SignIns!Browser
<1> QED
  BY <1>1, <1>2, <1>3, <1>4, <1>5, <1>6 DEF SignIns!Next

LEMMA SignInsKeep ==
  ASSUME SignInsInv, SignInsTyped, SignIns!Next
  PROVE  SignInsInv' /\ \A j \in Calls : SignInFair(j)
<1> DEFINE Goal == SignInsInv' /\ \A j \in Calls : SignInFair(j)
<1>s. SignIns!Standing(user) \in {"good", "bad"}
  BY DEF SignIns!Standing
<1>c. \A k \in Calls : SignInGood(k)
  BY DEF SignInsInv
<1>1. ASSUME NEW k \in Calls, NEW b \in {"signup", "login", "refresh", "google"},
             NEW p \in {"ensuring", "loading"}, UNCHANGED user,
             signInCall' = [signInCall EXCEPT ![k] = SignIns!Begun(b, p)]
      PROVE  Goal
  <2>1. /\ SignIns!Begun(b, p) \in SignIns!Call
        /\ SignIns!Begun(b, p).pc = p /\ SignIns!Begun(b, p).was = {SignIns!Standing(user)}
    BY <1>s DEF SignIns!Begun, SignIns!Call
  <2> QED
    BY <1>1, <2>1, SignInsBegun
<1>2. ASSUME NEW k \in Calls, SignIns!SignUp(k) \/ SignIns!Login(k) \/ SignIns!Refresh(k) PROVE Goal
  BY <1>1, <1>2 DEF SignIns!SignUp, SignIns!Login, SignIns!Refresh
<1>3. ASSUME NEW k \in Calls, UNCHANGED user, signInCall' = [signInCall EXCEPT ![k] = SignIns!Idle]
      PROVE  Goal
  <2>1. SignIns!Idle \in SignIns!Call /\ SignIns!Idle.pc = "idle"
    BY DEF SignIns!Idle, SignIns!Call
  <2> QED
    BY <1>3, <2>1, SignInsBegun DEF Loading
<1>4. ASSUME UNCHANGED <<user, signInCall>> PROVE Goal
  <2>1. \A j \in Calls : SignInGood(j)' /\ SignInFair(j)
    BY <1>c, <1>4, SignInsStill
  <2> QED
    BY <1>4, <2>1 DEF SignInsInv, GoogleWaits
<1>5. ASSUME NEW k \in Calls, SignIns!OauthCallback(k) PROVE Goal
  <2>1. UNCHANGED user
    BY <1>5 DEF SignIns!OauthCallback
  <2>2. CASE UNCHANGED signInCall
    BY <1>4, <2>1, <2>2
  <2>3. ASSUME NEW f \in Ids, cookie \in Ids,
               signInCall' = [signInCall EXCEPT ![k] = [pc |-> "exchanging", bag |-> cookie, code |-> f]]
        PROVE  Goal
    <3>1. [pc |-> "exchanging", bag |-> cookie, code |-> f] \in SignIns!Call
      BY <2>3 DEF SignIns!Call
    <3> QED
      BY <2>1, <2>3, <3>1, SignInsBegun DEF Loading
  <2> QED
    BY <1>5, <2>2, <2>3 DEF SignIns!OauthCallback, SignInsTyped
<1>6. ASSUME NEW k \in Calls, SignIns!ExchangeCode(k) PROVE Goal
  BY <1>1, <1>3, <1>6 DEF SignIns!ExchangeCode
<1>7. ASSUME NEW k \in Calls, SignIns!LoadBySubject(k) PROVE Goal
  BY <1>7, <1>s, <1>c, SignInsGoOn DEF SignIns!LoadBySubject, SignInGood, Loading
<1>8. ASSUME NEW k \in Calls, SignIns!FindExisting(k) PROVE Goal
  <2>1. user.state # "live" => SignIns!Standing(user) = "bad"
    BY DEF SignIns!Standing
  <2> QED
    BY <1>8, <1>c, <2>1, SignInsGoOn DEF SignIns!FindExisting, SignIns!Found, SignInGood, Loading
<1>9. ASSUME NEW k \in Calls, SignIns!Reload(k) PROVE Goal
  BY <1>9, <1>s, <1>c, SignInsGoOn DEF SignIns!Reload, SignInGood, Loading
<1>10. ASSUME NEW k \in Calls, SignIns!CreateRow(k) PROVE Goal
  BY <1>10, SignInsCreate
<1>11. ASSUME NEW k \in Calls, SignIns!Answer(k) PROVE Goal
  BY <1>3, <1>11 DEF SignIns!Answer
<1>12. ASSUME SignIns!StartGoogleOAuth PROVE Goal
  BY <1>4, <1>12 DEF SignIns!StartGoogleOAuth
<1>13. ASSUME NEW r, SignIns!Write(r), r.state = "live" => r.via # "google" PROVE Goal
  BY <1>13, SignInsWrite DEF SignIns!Write
<1>14. ASSUME SignIns!CreateUser PROVE Goal
  BY <1>13, <1>14 DEF SignIns!CreateUser
<1>15. ASSUME SignIns!UpdateUser \/ SignIns!SetUserRoles \/ SignIns!SoftDeleteUser PROVE Goal
  <2>1. user \in SignIns!Rows
    <3>1. user.state = "live"
      BY <1>15 DEF SignIns!UpdateUser, SignIns!SetUserRoles, SignIns!SoftDeleteUser
    <3>2. SignIns!NoRow.state = "none"
      BY DEF SignIns!NoRow
    <3> QED
      BY <3>1, <3>2 DEF SignInsTyped
  <2>2. /\ \A s : [user EXCEPT !.status = s, !.via = "admin"].via = "admin"
        /\ \A r : [user EXCEPT !.role = r, !.via = "admin"].via = "admin"
        /\ [user EXCEPT !.state = "deleted", !.status = "DEACTIVATED"].state = "deleted"
    BY <2>1 DEF SignIns!Rows
  <2> QED
    BY <1>13, <1>15, <2>2 DEF SignIns!UpdateUser, SignIns!SetUserRoles, SignIns!SoftDeleteUser
<1> QED
  BY <1>2, <1>5, <1>6, <1>7, <1>8, <1>9, <1>10, <1>11, <1>12, <1>14, <1>15 DEF SignIns!Next

LEMMA SignInsInductive == Spec => [](SignInsInv /\ SignInsTyped)
<1>1. Init => SignInsInv /\ SignInsTyped
  BY SignInsStart DEF Init, SignInsInv, SignInsTyped, SignIns!Init
<1>2. SignInsInv /\ SignInsTyped /\ SignIns!Next => SignInsInv' /\ SignInsTyped'
  BY SignInsKeep, SignInsTypes
<1>3. SignInsInv /\ SignInsTyped /\ UNCHANGED signins => SignInsInv' /\ SignInsTyped'
  BY DEF SignInsInv, SignInsTyped, SignInGood, GoogleWaits, SignIns!Standing, signins
<1> QED
  BY <1>1, <1>2, <1>3, SignInsOnly, PTL DEF Spec

\* Sessions go to those whom the row admits, for any number of calls.
THEOREM SessionsFollowTheRow == Spec => SignInsFollowTheRow
<1>1. SignInsInv /\ SignInsTyped /\ [Next]_vars => [SignIns!RightAnswer]_signins
  <2>1. ASSUME SignInsInv, SignInsTyped, SignIns!Next PROVE SignIns!RightAnswer
    BY <2>1, SignInsKeep
    DEF SignIns!RightAnswer, SignInsInv, GoogleWaits, SignInFair, SignInDecides, SignIns!Decides
  <2> QED
    BY <2>1, SignInsOnly
<1> QED
  BY <1>1, SignInsInductive, PTL DEF Spec, SignInsFollowTheRow

-----------------------------------------------------------------------------
(* Leads *)

LEMMA CrmSameInit == Crm!Init => CrmProofs!Init
BY DEF Crm!Init, Crm!Absent, Crm!Idle, CrmProofs!Init, CrmProofs!Absent, CrmProofs!Idle

LEMMA CrmSameNext == Crm!Next => CrmProofs!Next
BY DEF Crm!Next, Crm!CreateLead, Crm!CreateCustomer, Crm!StartUpdate, Crm!WriteUpdate,
    Crm!StartRemove, Crm!DeleteLead, Crm!StartConvert, Crm!CommitConversion, Crm!Fail,
    Crm!CreateContactOfLead, Crm!CreateContactOfCustomer, Crm!DeleteContact, Crm!Absent,
    Crm!Deleted, Crm!Statuses, Crm!Idle, Crm!Exists, Crm!Answer, Crm!Converted, Crm!Removable,
    Crm!Detached, Crm!Convertible, Crm!Relinked, Crm!ConvertedTo, Crm!NewContact,
    CrmProofs!Next, CrmProofs!CreateLead, CrmProofs!CreateCustomer, CrmProofs!StartUpdate,
    CrmProofs!WriteUpdate, CrmProofs!StartRemove, CrmProofs!DeleteLead,
    CrmProofs!StartConvert, CrmProofs!CommitConversion, CrmProofs!Fail,
    CrmProofs!CreateContactOfLead, CrmProofs!CreateContactOfCustomer, CrmProofs!DeleteContact,
    CrmProofs!Absent, CrmProofs!Deleted, CrmProofs!Statuses, CrmProofs!Idle, CrmProofs!Exists,
    CrmProofs!Answer, CrmProofs!Converted, CrmProofs!Removable, CrmProofs!Detached,
    CrmProofs!Convertible, CrmProofs!Relinked, CrmProofs!ConvertedTo, CrmProofs!NewContact

LEMMA CrmIsItself == Spec => CrmProofs!Spec
<1>1. Init => CrmProofs!Init
  BY CrmSameInit DEF Init
<1>2. [Next]_vars => [CrmProofs!Next]_CrmProofs!vars
  BY CrmSameNext, CrmOnly DEF crm, CrmProofs!vars
<1> QED
  BY <1>1, <1>2, PTL DEF Spec, CrmProofs!Spec

\* Contacts stay with the customer of their lead, whatever else the back
\* office does.
THEOREM ContactsFollow == Spec => []ContactsFollowTheirLead
<1>1. LeadIdsAssumption => (CrmProofs!Spec => []CrmProofs!ContactsFollowTheirLead)
  BY CrmProofs!ContactsFollow
<1>2. CrmProofs!ContactsFollowTheirLead => ContactsFollowTheirLead
  BY DEF CrmProofs!ContactsFollowTheirLead, ContactsFollowTheirLead,
         Crm!ContactsFollowTheirLead, CrmProofs!Exists, Crm!Exists
<1> QED
  BY <1>1, <1>2, CrmIsItself, LeadIdsAssumption, PTL

\* A conversion is final once the conversions in flight are answered.
THEOREM ConversionsAreFinal == Spec => ConversionIsFinal
<1>1. LeadIdsAssumption => (CrmProofs!Spec => CrmProofs!ConversionIsFinal)
  BY CrmProofs!Finality
<1>2. [CrmProofs!StaysConverted]_CrmProofs!vars => [Crm!StaysConverted]_crm
  BY DEF crm, CrmProofs!vars, CrmProofs!StaysConverted, Crm!StaysConverted, CrmProofs!Settled,
         Crm!Settled, CrmProofs!Exists, Crm!Exists, CrmProofs!Converting, Crm!Converting,
         CrmProofs!Deleted, Crm!Deleted
<1> QED
  BY <1>1, <1>2, CrmIsItself, LeadIdsAssumption, PTL DEF ConversionIsFinal, CrmProofs!ConversionIsFinal

-----------------------------------------------------------------------------
(* Finance records *)

LEMMA FinanceSameInit == Finance!Init => FinanceProofs!Init
BY DEF Finance!Init, Finance!NoRow, Finance!Idle, Finance!Records, Finance!LifeCycle!NoRow,
    FinanceProofs!Init, FinanceProofs!NoRow, FinanceProofs!Idle, FinanceProofs!Records,
    FinanceProofs!LifeCycle!NoRow

LEMMA FinanceSameNext == Finance!Next => FinanceProofs!Next
BY DEF Finance!Next, Finance!RecordPayment, Finance!DraftInvoice, Finance!CreateCommission,
    Finance!Insert, Finance!PaymentOfOrder, Finance!Start, Finance!Verifiable,
    Finance!Issuable, Finance!Payable, Finance!VerifyPayment, Finance!VoidPayment,
    Finance!IssueInvoice, Finance!CancelInvoice, Finance!CalculateCommission,
    Finance!ApproveCommission, Finance!PayCommission, Finance!Stale, Finance!Finish,
    Finance!With, Finance!WriteVerified, Finance!VoidStatus, Finance!WriteVoided,
    Finance!WriteIssued, Finance!WriteCancelled, Finance!Recalculated,
    Finance!WriteCalculated, Finance!WriteApproved, Finance!WritePaid, Finance!Restart,
    Finance!Check, Finance!Write, Finance!NoRow, Finance!Idle, Finance!LifeCycle!NoRow,
    FinanceProofs!Next, FinanceProofs!RecordPayment, FinanceProofs!DraftInvoice,
    FinanceProofs!CreateCommission, FinanceProofs!Insert, FinanceProofs!PaymentOfOrder,
    FinanceProofs!Start, FinanceProofs!Verifiable, FinanceProofs!Issuable,
    FinanceProofs!Payable, FinanceProofs!VerifyPayment, FinanceProofs!VoidPayment,
    FinanceProofs!IssueInvoice, FinanceProofs!CancelInvoice,
    FinanceProofs!CalculateCommission, FinanceProofs!ApproveCommission,
    FinanceProofs!PayCommission, FinanceProofs!Stale, FinanceProofs!Finish,
    FinanceProofs!With, FinanceProofs!WriteVerified, FinanceProofs!VoidStatus,
    FinanceProofs!WriteVoided, FinanceProofs!WriteIssued, FinanceProofs!WriteCancelled,
    FinanceProofs!Recalculated, FinanceProofs!WriteCalculated, FinanceProofs!WriteApproved,
    FinanceProofs!WritePaid, FinanceProofs!Restart, FinanceProofs!Check, FinanceProofs!Write,
    FinanceProofs!NoRow, FinanceProofs!Idle, FinanceProofs!LifeCycle!NoRow

LEMMA FinanceIsItself == Spec => FinanceProofs!Spec
<1>1. Init => FinanceProofs!Init
  BY FinanceSameInit DEF Init
<1>2. [Next]_vars => [FinanceProofs!Next]_FinanceProofs!vars
  BY FinanceSameNext, FinanceOnly DEF finance, FinanceProofs!vars
<1> QED
  BY <1>1, <1>2, PTL DEF Spec, FinanceProofs!Spec

\* What is paid was approved, for any number of calls beside each other.
THEOREM PaysWhatWasApproved == Spec => []PaidAsApproved
<1>1. FinanceIdsAssumption => (FinanceProofs!Spec => []FinanceProofs!PaidAsApproved)
  BY FinanceProofs!PaysWhatWasApproved
<1>2. FinanceProofs!PaidAsApproved => PaidAsApproved
  BY DEF FinanceProofs!PaidAsApproved, PaidAsApproved, Finance!PaidAsApproved
<1> QED
  BY <1>1, <1>2, FinanceIsItself, FinanceIdsAssumption, PTL

\* Voided payments and cancelled invoices stay so.
THEOREM DecisionsStay == Spec => DecisionsAreFinal
<1>1. FinanceIdsAssumption => (FinanceProofs!Spec => FinanceProofs!DecisionsAreFinal)
  BY FinanceProofs!Finality
<1>2. [FinanceProofs!FinalDecisions]_FinanceProofs!vars => [Finance!FinalDecisions]_finance
  BY DEF finance, FinanceProofs!vars, FinanceProofs!FinalDecisions, Finance!FinalDecisions,
         FinanceProofs!Voided, Finance!Voided, FinanceProofs!Cancelled, Finance!Cancelled,
         FinanceProofs!InFlight, Finance!InFlight
<1> QED
  BY <1>1, <1>2, FinanceIsItself, FinanceIdsAssumption, PTL
  DEF DecisionsAreFinal, FinanceProofs!DecisionsAreFinal

\* The two-step commands implement the documented life cycle.
THEOREM Implements == Spec => FollowsLifeCycle
<1>1. FinanceIdsAssumption => (FinanceProofs!Spec => FinanceProofs!FollowsLifeCycle)
  BY FinanceProofs!Implements
<1>2. FinanceProofs!LifeCycle!Init => Finance!LifeCycle!Init
  BY
  DEF Finance!LifeCycle!Init, Finance!LifeCycle!NoRow, Finance!LifeCycle!Records,
      FinanceProofs!LifeCycle!Init, FinanceProofs!LifeCycle!NoRow,
      FinanceProofs!LifeCycle!Records
<1>3. [FinanceProofs!LifeCycle!Next]_(FinanceProofs!LifeCycle!vars)
        => [Finance!LifeCycle!Next]_(Finance!LifeCycle!vars)
  BY
  DEF Finance!LifeCycle!Next, Finance!LifeCycle!RecordPayment,
      Finance!LifeCycle!VerifyPayment, Finance!LifeCycle!VoidPayment,
      Finance!LifeCycle!DraftInvoice, Finance!LifeCycle!IssueInvoice,
      Finance!LifeCycle!CancelInvoice, Finance!LifeCycle!CalculateNewCommission,
      Finance!LifeCycle!RecalculateCommission, Finance!LifeCycle!ApproveCommission,
      Finance!LifeCycle!PayCommission, Finance!LifeCycle!Overtake, Finance!LifeCycle!Becomes,
      Finance!LifeCycle!NoRow, Finance!LifeCycle!PaymentRow, Finance!LifeCycle!InvoiceRow,
      Finance!LifeCycle!CommissionRow, Finance!LifeCycle!Row, Finance!LifeCycle!Records,
      Finance!LifeCycle!vars, FinanceProofs!LifeCycle!Next,
      FinanceProofs!LifeCycle!RecordPayment, FinanceProofs!LifeCycle!VerifyPayment,
      FinanceProofs!LifeCycle!VoidPayment, FinanceProofs!LifeCycle!DraftInvoice,
      FinanceProofs!LifeCycle!IssueInvoice, FinanceProofs!LifeCycle!CancelInvoice,
      FinanceProofs!LifeCycle!CalculateNewCommission,
      FinanceProofs!LifeCycle!RecalculateCommission,
      FinanceProofs!LifeCycle!ApproveCommission, FinanceProofs!LifeCycle!PayCommission,
      FinanceProofs!LifeCycle!Overtake, FinanceProofs!LifeCycle!Becomes,
      FinanceProofs!LifeCycle!NoRow, FinanceProofs!LifeCycle!PaymentRow,
      FinanceProofs!LifeCycle!InvoiceRow, FinanceProofs!LifeCycle!CommissionRow,
      FinanceProofs!LifeCycle!Row, FinanceProofs!LifeCycle!Records,
      FinanceProofs!LifeCycle!vars
<1> QED
  BY <1>1, <1>2, <1>3, FinanceIsItself, FinanceIdsAssumption, PTL
  DEF FollowsLifeCycle, Finance!FollowsLifeCycle, FinanceProofs!FollowsLifeCycle,
      FinanceProofs!LifeCycle!Spec, Finance!LifeCycle!Spec

-----------------------------------------------------------------------------
(* Owners *)

OwnersTyped ==
  /\ ownedKind \in {"customer", "lead"}
  /\ owned \in [Values -> Owners!Record]
  /\ ownedContract \in [One -> {{}} \cup {{r} : r \in Values}]
  /\ ownerCall \in [Calls -> Owners!Call]

\* What a patch was let through with: the owner a customer must have, and from
\* someone who may not assign, nobody else's name.
PatchGood(c) == c.pc = "patch" =>
  /\ ownedKind = "customer" => c.owner # {}
  /\ c.user \notin One => c.owner \subseteq {c.user}

OwnersInv == OwnersTyped /\ \A k \in Calls : PatchGood(ownerCall[k])

LEMMA OwnersIdle == Owners!Idle \in Owners!Call /\ Owners!Idle.pc = "idle"
BY DEF Owners!Idle, Owners!Call

\* A call that goes on and changes no row.
LEMMA OwnersGoto ==
  ASSUME OwnersInv, NEW k \in Calls, NEW c \in Owners!Call, PatchGood(c), Owners!Goto(k, c),
         UNCHANGED ownedKind,
         owned' \in [Values -> Owners!Record],
         ownedContract' \in [One -> {{}} \cup {{r} : r \in Values}]
  PROVE  OwnersInv'
<1>1. ownerCall' \in [Calls -> Owners!Call]
      /\ \A j \in Calls : ownerCall'[j] = IF j = k THEN c ELSE ownerCall[j]
  BY DEF OwnersInv, OwnersTyped, Owners!Goto
<1> QED
  BY <1>1 DEF OwnersInv, OwnersTyped, PatchGood

\* The fields of a call at work.
LEMMA OwnersFields ==
  ASSUME NEW c \in Owners!Call
  PROVE  /\ c.pc = "patch" =>
              c.user \in Ids \cup One /\ c.record \in Values /\ c.owner \in Owners!Owners
         /\ c.pc = "other" => c.user \in Ids \cup One /\ c.record \in Values
         /\ c.pc = "new contract" => c.user \in Ids \cup One /\ c.record \in Values
         /\ c.pc = "contract" => c.user \in Ids \cup One /\ c.contract \in One
         /\ c.pc = "move" => c.user \in Ids \cup One /\ c.contract \in One /\ c.record \in Values
<1>1. CASE c = Owners!Idle
  BY <1>1, OwnersIdle
<1>2. CASE c \in [pc : {"patch"}, user : Ids \cup One, record : Values, owner : Owners!Owners]
  BY <1>2
<1>3. CASE c \in [pc : {"other"}, user : Ids \cup One, record : Values]
                   \cup [pc : {"new contract"}, user : Ids \cup One, record : Values]
  BY <1>3
<1>4. CASE c \in [pc : {"contract"}, user : Ids \cup One, contract : One]
  BY <1>4
<1>5. CASE c \in [pc : {"move"}, user : Ids \cup One, contract : One, record : Values]
  BY <1>5
<1> QED
  BY <1>1, <1>2, <1>3, <1>4, <1>5 DEF Owners!Call

LEMMA OwnersKeep ==
  ASSUME OwnersInv, Owners!Next
  PROVE  OwnersInv'
<1>t. OwnersTyped
  BY DEF OwnersInv
<1>i. PatchGood(Owners!Idle)
  BY OwnersIdle DEF PatchGood
<1>1. CASE Owners!Create
  <2>1. PICK r \in Values, o \in Ids \cup One :
          owned' = [owned EXCEPT ![r] = [life |-> "live", owner |-> {o}]]
    BY <1>1 DEF Owners!Create
  <2>2. [life |-> "live", owner |-> {o}] \in Owners!Record
    BY DEF Owners!Record, Owners!Owners
  <2>3. owned' \in [Values -> Owners!Record]
    BY <1>t, <2>1, <2>2 DEF OwnersTyped
  <2> QED
    BY <1>1, <2>3 DEF OwnersInv, OwnersTyped, PatchGood, Owners!Create
<1>2. ASSUME NEW k \in Calls, Owners!ReadForPatch(k) PROVE OwnersInv'
  <2>1. PICK u \in Ids \cup One, r \in Values, o \in Owners!Owners :
          /\ Owners!InScope(u, r) /\ Owners!MayName(u, o, r)
          /\ Owners!Goto(k, [pc |-> "patch", user |-> u, record |-> r, owner |-> o])
    BY <1>2 DEF Owners!ReadForPatch, Owners!Begin
  <2> DEFINE c == [pc |-> "patch", user |-> u, record |-> r, owner |-> o]
  <2>2. c \in Owners!Call
    BY DEF Owners!Call
  <2>3. owned[r].owner \in Owners!Owners
    BY <1>t DEF OwnersTyped, Owners!Record
  <2>4. ownedKind = "customer" => o # {}
    BY <2>1 DEF Owners!MayName
  <2>5. u \notin One => o \subseteq {u}
    BY <2>1, <2>3 DEF Owners!MayName, Owners!InScope, Owners!Owners
  <2>6. PatchGood(c)
    BY <2>4, <2>5 DEF PatchGood
  <2> QED
    BY <1>2, <1>t, <2>1, <2>2, <2>6, OwnersGoto DEF OwnersTyped, Owners!ReadForPatch
<1>3. ASSUME NEW k \in Calls, Owners!Patch(k) PROVE OwnersInv'
  <2>1. ownerCall[k].record \in Values /\ ownerCall[k].owner \in Owners!Owners
    BY <1>3, <1>t, OwnersFields DEF OwnersTyped, Owners!Patch
  <2>2. owned' \in [Values -> Owners!Record]
    BY <1>3, <1>t, <2>1 DEF OwnersTyped, Owners!Patch, Owners!Record
  <2> QED
    BY <1>3, <1>t, <1>i, <2>2, OwnersIdle, OwnersGoto DEF OwnersTyped, Owners!Patch
<1>4. ASSUME NEW k \in Calls, Owners!ReadForOther(k) PROVE OwnersInv'
  <2>1. PICK u \in Ids \cup One, r \in Values :
          Owners!Goto(k, [pc |-> "other", user |-> u, record |-> r])
    BY <1>4 DEF Owners!ReadForOther, Owners!Begin
  <2>2. [pc |-> "other", user |-> u, record |-> r] \in Owners!Call
        /\ PatchGood([pc |-> "other", user |-> u, record |-> r])
    BY DEF Owners!Call, PatchGood
  <2> QED
    BY <1>4, <1>t, <2>1, <2>2, OwnersGoto DEF OwnersTyped, Owners!ReadForOther
<1>5. ASSUME NEW k \in Calls, Owners!Other(k) PROVE OwnersInv'
  <2>1. ownerCall[k].record \in Values
    BY <1>5, <1>t, OwnersFields DEF OwnersTyped, Owners!Other
  <2>2. owned' \in [Values -> Owners!Record]
    BY <1>5, <1>t, <2>1 DEF OwnersTyped, Owners!Other, Owners!Record
  <2> QED
    BY <1>5, <1>t, <1>i, <2>2, OwnersIdle, OwnersGoto DEF OwnersTyped, Owners!Other
<1>6. ASSUME NEW k \in Calls, Owners!FindCustomer(k) PROVE OwnersInv'
  <2>1. PICK u \in Ids \cup One, r \in Values :
          Owners!Goto(k, [pc |-> "new contract", user |-> u, record |-> r])
    BY <1>6 DEF Owners!FindCustomer, Owners!Begin
  <2>2. [pc |-> "new contract", user |-> u, record |-> r] \in Owners!Call
        /\ PatchGood([pc |-> "new contract", user |-> u, record |-> r])
    BY DEF Owners!Call, PatchGood
  <2> QED
    BY <1>6, <1>t, <2>1, <2>2, OwnersGoto DEF OwnersTyped, Owners!FindCustomer
<1>7. ASSUME NEW k \in Calls, Owners!CreateContract(k) PROVE OwnersInv'
  <2>1. ownerCall[k].record \in Values
    BY <1>7, <1>t, OwnersFields DEF OwnersTyped, Owners!CreateContract
  <2>2. ownedContract' \in [One -> {{}} \cup {{r} : r \in Values}]
    BY <1>7, <1>t, <2>1 DEF OwnersTyped, Owners!CreateContract
  <2> QED
    BY <1>7, <1>t, <1>i, <2>2, OwnersIdle, OwnersGoto DEF OwnersTyped, Owners!CreateContract
<1>8. ASSUME NEW k \in Calls, Owners!ReadContract(k) PROVE OwnersInv'
  <2>1. PICK u \in Ids \cup One, x \in One :
          Owners!Goto(k, [pc |-> "contract", user |-> u, contract |-> x])
    BY <1>8 DEF Owners!ReadContract, Owners!Begin
  <2>2. [pc |-> "contract", user |-> u, contract |-> x] \in Owners!Call
        /\ PatchGood([pc |-> "contract", user |-> u, contract |-> x])
    BY DEF Owners!Call, PatchGood
  <2> QED
    BY <1>8, <1>t, <2>1, <2>2, OwnersGoto DEF OwnersTyped, Owners!ReadContract
<1>9. ASSUME NEW k \in Calls, Owners!FindNewCustomer(k) PROVE OwnersInv'
  <2> DEFINE u == ownerCall[k].user
             x == ownerCall[k].contract
  <2>1. u \in Ids \cup One /\ x \in One
    BY <1>9, <1>t, OwnersFields DEF OwnersTyped, Owners!FindNewCustomer
  <2>2. PICK r \in Values :
          Owners!Goto(k, [pc |-> "move", user |-> u, contract |-> x, record |-> r])
    BY <1>9 DEF Owners!FindNewCustomer
  <2> HIDE DEF u, x
  <2>3. [pc |-> "move", user |-> u, contract |-> x, record |-> r] \in Owners!Call
        /\ PatchGood([pc |-> "move", user |-> u, contract |-> x, record |-> r])
    BY <2>1 DEF Owners!Call, PatchGood
  <2> QED
    BY <1>9, <1>t, <2>2, <2>3, OwnersGoto DEF OwnersTyped, Owners!FindNewCustomer
<1>10. ASSUME NEW k \in Calls, Owners!MoveContract(k) PROVE OwnersInv'
  <2>1. ownerCall[k].record \in Values /\ ownerCall[k].contract \in One
    BY <1>10, <1>t, OwnersFields DEF OwnersTyped, Owners!MoveContract
  <2>2. ownedContract' \in [One -> {{}} \cup {{r} : r \in Values}]
    BY <1>10, <1>t, <2>1 DEF OwnersTyped, Owners!MoveContract
  <2> QED
    BY <1>10, <1>t, <1>i, <2>2, OwnersIdle, OwnersGoto DEF OwnersTyped, Owners!MoveContract
<1>11. ASSUME NEW k \in Calls, Owners!AnswerContract(k) PROVE OwnersInv'
  BY <1>11, <1>t, <1>i, OwnersIdle, OwnersGoto DEF OwnersTyped, Owners!AnswerContract
<1>12. CASE Owners!Restart
  BY <1>12, <1>i, OwnersIdle DEF OwnersInv, OwnersTyped, PatchGood, Owners!Restart
<1> QED
  BY <1>1, <1>2, <1>3, <1>4, <1>5, <1>6, <1>7, <1>8, <1>9, <1>10, <1>11, <1>12
     DEF Owners!Next

-----------------------------------------------------------------------------
(* Nobody takes a record back *)

\* A step of a call that is not, and does not become, u's at r.
LEMMA OwnersAtRecord ==
  ASSUME OwnersInv, NEW u, NEW r, NEW k \in Calls, NEW c, Owners!Goto(k, c),
         Owners!AtRecord(u, r) = {},
         c.pc \notin {"patch", "other"} \/ c.user # u \/ c.record # r
  PROVE  Owners!AtRecord(u, r)' = {}
<1>1. \A j \in Calls : ownerCall'[j] = IF j = k THEN c ELSE ownerCall[j]
  BY DEF OwnersInv, OwnersTyped, Owners!Goto
<1> QED
  BY <1>1 DEF Owners!AtRecord

LEMMA OwnersAtContract ==
  ASSUME OwnersInv, NEW u, NEW x, NEW k \in Calls, NEW c, Owners!Goto(k, c),
         Owners!AtContract(u, x) = {},
         c.pc \notin {"contract", "move"} \/ c.user # u \/ c.contract # x
  PROVE  Owners!AtContract(u, x)' = {}
<1>1. \A j \in Calls : ownerCall'[j] = IF j = k THEN c ELSE ownerCall[j]
  BY DEF OwnersInv, OwnersTyped, Owners!Goto
<1> QED
  BY <1>1 DEF Owners!AtContract

\* u begins nothing at r.
LEMMA OwnersBarred ==
  ASSUME OwnersInv, Owners!Next, NEW u \in Ids \cup One, NEW r \in Values,
         ~Owners!InScope(u, r), Owners!AtRecord(u, r) = {}
  PROVE  Owners!AtRecord(u, r)' = {}
<1>i. Owners!Idle.pc \notin {"patch", "other"}
  BY OwnersIdle
<1>1. ASSUME NEW k \in Calls, Owners!ReadForPatch(k) PROVE Owners!AtRecord(u, r)' = {}
  <2>1. PICK v \in Ids \cup One, s \in Values, o \in Owners!Owners :
          /\ Owners!InScope(v, s)
          /\ Owners!Goto(k, [pc |-> "patch", user |-> v, record |-> s, owner |-> o])
    BY <1>1 DEF Owners!ReadForPatch, Owners!Begin
  <2>2. v # u \/ s # r
    BY <2>1
  <2> QED
    BY <2>1, <2>2, OwnersAtRecord
<1>2. ASSUME NEW k \in Calls, Owners!ReadForOther(k) PROVE Owners!AtRecord(u, r)' = {}
  <2>1. PICK v \in Ids \cup One, s \in Values :
          /\ Owners!InScope(v, s)
          /\ Owners!Goto(k, [pc |-> "other", user |-> v, record |-> s])
    BY <1>2 DEF Owners!ReadForOther, Owners!Begin
  <2>2. v # u \/ s # r
    BY <2>1
  <2> QED
    BY <2>1, <2>2, OwnersAtRecord
<1>3. ASSUME NEW k \in Calls, NEW c, Owners!Goto(k, c), c.pc \notin {"patch", "other"}
      PROVE  Owners!AtRecord(u, r)' = {}
  BY <1>3, OwnersAtRecord
<1>4. ASSUME NEW k \in Calls, Owners!FindCustomer(k) \/ Owners!ReadContract(k)
                                \/ Owners!FindNewCustomer(k)
      PROVE  Owners!AtRecord(u, r)' = {}
  <2>1. CASE Owners!FindCustomer(k)
    <3>1. PICK v, s : Owners!Goto(k, [pc |-> "new contract", user |-> v, record |-> s])
      BY <2>1 DEF Owners!FindCustomer, Owners!Begin
    <3> QED
      BY <3>1, OwnersAtRecord
  <2>2. CASE Owners!ReadContract(k)
    <3>1. PICK v, y : Owners!Goto(k, [pc |-> "contract", user |-> v, contract |-> y])
      BY <2>2 DEF Owners!ReadContract, Owners!Begin
    <3> QED
      BY <3>1, OwnersAtRecord
  <2>3. CASE Owners!FindNewCustomer(k)
    <3>1. PICK s : Owners!Goto(k, [pc |-> "move", user |-> ownerCall[k].user,
                                   contract |-> ownerCall[k].contract, record |-> s])
      BY <2>3 DEF Owners!FindNewCustomer
    <3> QED
      BY <3>1, OwnersAtRecord
  <2> QED
    BY <1>4, <2>1, <2>2, <2>3
<1>5. ASSUME NEW k \in Calls, Owners!Patch(k) \/ Owners!Other(k) \/ Owners!CreateContract(k)
                                \/ Owners!MoveContract(k) \/ Owners!AnswerContract(k)
      PROVE  Owners!AtRecord(u, r)' = {}
  <2>1. Owners!Goto(k, Owners!Idle)
    BY <1>5 DEF Owners!Patch, Owners!Other, Owners!CreateContract, Owners!MoveContract,
                Owners!AnswerContract
  <2> QED
    BY <1>3, <1>i, <2>1
<1>6. CASE Owners!Create
  BY <1>6 DEF Owners!Create, Owners!AtRecord
<1>7. CASE Owners!Restart
  BY <1>7, <1>i DEF Owners!Restart, Owners!AtRecord
<1> QED
  BY <1>1, <1>2, <1>4, <1>5, <1>6, <1>7 DEF Owners!Next

\* Nor at a contract of the customers that are not u's.
LEMMA OwnersBarredContract ==
  ASSUME OwnersInv, Owners!Next, NEW u \in Ids \cup One, NEW x \in One,
         ~Owners!ContractInScope(u, x), Owners!AtContract(u, x) = {}
  PROVE  Owners!AtContract(u, x)' = {}
<1>i. Owners!Idle.pc \notin {"contract", "move"}
  BY OwnersIdle
<1>1. ASSUME NEW k \in Calls, Owners!ReadContract(k) PROVE Owners!AtContract(u, x)' = {}
  <2>1. PICK v \in Ids \cup One, y \in One :
          /\ Owners!ContractInScope(v, y)
          /\ Owners!Goto(k, [pc |-> "contract", user |-> v, contract |-> y])
    BY <1>1 DEF Owners!ReadContract, Owners!Begin
  <2>2. v # u \/ y # x
    BY <2>1
  <2> QED
    BY <2>1, <2>2, OwnersAtContract
<1>2. ASSUME NEW k \in Calls, Owners!FindNewCustomer(k) PROVE Owners!AtContract(u, x)' = {}
  <2>1. ownerCall[k].pc = "contract" /\ k \notin Owners!AtContract(u, x)
    BY <1>2 DEF Owners!FindNewCustomer
  <2>2. ownerCall[k].user # u \/ ownerCall[k].contract # x
    BY <2>1 DEF Owners!AtContract
  <2>3. PICK s \in Values :
          Owners!Goto(k, [pc |-> "move", user |-> ownerCall[k].user,
                          contract |-> ownerCall[k].contract, record |-> s])
    BY <1>2 DEF Owners!FindNewCustomer
  <2> QED
    BY <2>2, <2>3, OwnersAtContract
<1>3. ASSUME NEW k \in Calls, NEW c, Owners!Goto(k, c), c.pc \notin {"contract", "move"}
      PROVE  Owners!AtContract(u, x)' = {}
  BY <1>3, OwnersAtContract
<1>4. ASSUME NEW k \in Calls, Owners!FindCustomer(k) \/ Owners!ReadForPatch(k)
                                \/ Owners!ReadForOther(k)
      PROVE  Owners!AtContract(u, x)' = {}
  <2>1. CASE Owners!FindCustomer(k)
    <3>1. PICK v, s : Owners!Goto(k, [pc |-> "new contract", user |-> v, record |-> s])
      BY <2>1 DEF Owners!FindCustomer, Owners!Begin
    <3> QED
      BY <3>1, OwnersAtContract
  <2>2. CASE Owners!ReadForPatch(k)
    <3>1. PICK v, s, o :
            Owners!Goto(k, [pc |-> "patch", user |-> v, record |-> s, owner |-> o])
      BY <2>2 DEF Owners!ReadForPatch, Owners!Begin
    <3> QED
      BY <3>1, OwnersAtContract
  <2>3. CASE Owners!ReadForOther(k)
    <3>1. PICK v, s : Owners!Goto(k, [pc |-> "other", user |-> v, record |-> s])
      BY <2>3 DEF Owners!ReadForOther, Owners!Begin
    <3> QED
      BY <3>1, OwnersAtContract
  <2> QED
    BY <1>4, <2>1, <2>2, <2>3
<1>5. ASSUME NEW k \in Calls, Owners!Patch(k) \/ Owners!Other(k) \/ Owners!CreateContract(k)
                                \/ Owners!MoveContract(k) \/ Owners!AnswerContract(k)
      PROVE  Owners!AtContract(u, x)' = {}
  <2>1. Owners!Goto(k, Owners!Idle)
    BY <1>5 DEF Owners!Patch, Owners!Other, Owners!CreateContract, Owners!MoveContract,
                Owners!AnswerContract
  <2> QED
    BY <1>3, <1>i, <2>1
<1>6. CASE Owners!Create
  BY <1>6 DEF Owners!Create, Owners!AtContract
<1>7. CASE Owners!Restart
  BY <1>7, <1>i DEF Owners!Restart, Owners!AtContract
<1> QED
  BY <1>1, <1>2, <1>4, <1>5, <1>6, <1>7 DEF Owners!Next

\* How a row changes in a step: not at all, from nothing, in its life alone, or
\* by a patch.
LEMMA OwnersRows ==
  ASSUME OwnersInv, Owners!Next, NEW r \in Values
  PROVE  \/ owned'[r] = owned[r]
         \/ owned[r].life = "none" /\ owned'[r].life # "none" /\ owned'[r].owner # {}
         \/ /\ owned'[r].life # "none" /\ owned'[r].owner = owned[r].owner
         \/ \E k \in Calls :
              /\ ownerCall[k].pc = "patch" /\ ownerCall[k].record = r
              /\ owned'[r].owner = ownerCall[k].owner /\ owned'[r].life = owned[r].life
<1>t. owned \in [Values -> Owners!Record] /\ ownerCall \in [Calls -> Owners!Call]
  BY DEF OwnersInv, OwnersTyped
<1>1. CASE Owners!Create
  BY <1>1, <1>t DEF Owners!Create
<1>2. ASSUME NEW k \in Calls, Owners!Patch(k)
      PROVE  \/ owned'[r] = owned[r]
             \/ /\ ownerCall[k].pc = "patch" /\ ownerCall[k].record = r
                /\ owned'[r].owner = ownerCall[k].owner /\ owned'[r].life = owned[r].life
  BY <1>2, <1>t DEF Owners!Patch, Owners!Record
<1>3. ASSUME NEW k \in Calls, Owners!Other(k)
      PROVE  \/ owned'[r] = owned[r]
             \/ owned'[r].life # "none" /\ owned'[r].owner = owned[r].owner
  BY <1>3, <1>t DEF Owners!Other, Owners!Record
<1>4. CASE Owners!Restart \/ \E k \in Calls :
             \/ Owners!ReadForPatch(k) \/ Owners!ReadForOther(k) \/ Owners!FindCustomer(k)
             \/ Owners!CreateContract(k) \/ Owners!ReadContract(k) \/ Owners!FindNewCustomer(k)
             \/ Owners!MoveContract(k) \/ Owners!AnswerContract(k)
  <2>1. owned' = owned
    BY <1>4 DEF Owners!Restart, Owners!ReadForPatch, Owners!ReadForOther, Owners!FindCustomer,
      Owners!CreateContract, Owners!ReadContract, Owners!FindNewCustomer, Owners!MoveContract,
      Owners!AnswerContract
  <2> QED
    BY <2>1
<1> QED
  BY <1>1, <1>2, <1>3, <1>4 DEF Owners!Next

\* A record that is lost stays so, or is assigned.
LEMMA OwnersStayLost ==
  ASSUME OwnersInv, Owners!Next, NEW u \in Ids \cup One, NEW r \in Values, Owners!Lost(u, r)
  PROVE  Owners!Lost(u, r)' \/ Owners!Assigned(u, r)
<1>1. /\ owned[r].life # "none" /\ u \notin One /\ u \notin owned[r].owner
      /\ Owners!AtRecord(u, r) = {}
  BY DEF Owners!Lost, Owners!InScope
<1>2. Owners!AtRecord(u, r)' = {}
  BY <1>1, OwnersBarred DEF Owners!InScope
<1>3. ASSUME NEW k \in Calls, ownerCall[k].pc = "patch", ownerCall[k].record = r,
             owned'[r].owner = ownerCall[k].owner, owned'[r].life = owned[r].life
      PROVE  Owners!Lost(u, r)' \/ Owners!Assigned(u, r)
  <2>1. ownerCall[k].user # u
    BY <1>1, <1>3 DEF Owners!AtRecord
  <2>2. CASE ownerCall[k].user \notin One
    <3>1. ownerCall[k].owner \subseteq {ownerCall[k].user}
      BY <1>3, <2>2 DEF OwnersInv, PatchGood
    <3> QED
      BY <1>1, <1>2, <1>3, <2>1, <3>1 DEF Owners!Lost, Owners!InScope
  <2>3. CASE ownerCall[k].user \in One
    BY <1>1, <1>2, <1>3, <2>3 DEF Owners!Lost, Owners!InScope, Owners!Assigned
  <2> QED
    BY <2>2, <2>3
<1>4. CASE owned'[r] = owned[r] \/ (owned'[r].life # "none" /\ owned'[r].owner = owned[r].owner)
  BY <1>1, <1>2, <1>4 DEF Owners!Lost, Owners!InScope
<1> QED
  BY <1>1, <1>3, <1>4, OwnersRows

\* A contract that stays where it is stays lost with its customer.
LEMMA OwnersContractsStayLost ==
  ASSUME OwnersInv, Owners!Next, NEW u \in Ids \cup One, NEW x \in One,
         Owners!LostContract(u, x), ownedContract'[x] = ownedContract[x],
         ~\E r \in ownedContract[x] : u \in owned'[r].owner /\ u \notin owned[r].owner
  PROVE  Owners!LostContract(u, x)'
<1>1. Owners!AtContract(u, x)' = {}
  BY OwnersBarredContract DEF Owners!LostContract
<1> QED
  BY <1>1 DEF Owners!LostContract, Owners!ContractInScope

\* A customer keeps an owner.
LEMMA OwnersRemain ==
  ASSUME OwnersInv, Owners!Next, NEW r \in Values, ownedKind = "customer",
         owned[r].owner # {}
  PROVE  owned'[r].owner # {}
<1>1. \A k \in Calls : ownerCall[k].pc = "patch" => ownerCall[k].owner # {}
  BY DEF OwnersInv, PatchGood
<1> QED
  BY <1>1, OwnersRows

LEMMA OwnersInductive == Spec => []OwnersInv
<1>1. Init => OwnersInv
  BY OwnersIdle DEF Init, Owners!Init, OwnersInv, OwnersTyped, PatchGood, Owners!Record,
     Owners!Owners
<1>2. OwnersInv /\ Owners!Next => OwnersInv'
  BY OwnersKeep
<1>3. OwnersInv /\ UNCHANGED owners => OwnersInv'
  BY DEF OwnersInv, OwnersTyped, PatchGood, owners
<1> QED
  BY <1>1, <1>2, <1>3, OwnersOnly, PTL DEF Spec

\* What was reassigned stays so, for any number of calls, records and users.
THEOREM ReassignmentsHold == Spec => LostRecordsStayLost
<1>1. OwnersInv /\ Owners!Next => Owners!LostStaysLost
  <2> SUFFICES ASSUME OwnersInv, Owners!Next PROVE Owners!LostStaysLost
    OBVIOUS
  <2> QED
    BY OwnersStayLost, OwnersContractsStayLost, OwnersRemain DEF Owners!LostStaysLost
<1>2. OwnersInv /\ [Next]_vars => [Owners!LostStaysLost]_owners
  BY <1>1, OwnersOnly
<1> QED
  BY <1>2, OwnersInductive, PTL DEF Spec, LostRecordsStayLost

-----------------------------------------------------------------------------
(* Statistics *)

\* A call that has asked.
Figures == [pc : {"asked"}, range : SUBSET Ids, left : SUBSET {"groups", "sum"},
            byStatus : [Statistics!Statuses -> SUBSET Ids], verified : SUBSET Ids,
            moved : SUBSET Ids]

\* What one query has answered is still so for the payments that stood still,
\* and what both have is the same.
FiguresGood(c, row) ==
  \A p \in Ids \ c.moved :
    /\ c.left = {"sum"} =>
         (p \in c.byStatus["VERIFIED"] <=> p \in c.range /\ row[p] = "VERIFIED")
    /\ c.left = {"groups"} => (p \in c.verified <=> p \in c.range /\ row[p] = "VERIFIED")
    /\ c.left = {} => (p \in c.verified <=> p \in c.byStatus["VERIFIED"])

StatisticsInv ==
  /\ payment \in [Ids -> Statistics!Statuses \cup {"none"}]
  /\ \A k \in One : statisticsCall[k] \in Figures => FiguresGood(statisticsCall[k], payment)
  /\ statisticsCall \in [One -> {Statistics!Idle} \cup Figures]

LEMMA StatisticsIdle == Statistics!Idle \notin Figures /\ Statistics!Idle.pc = "idle"
BY DEF Statistics!Idle, Figures

\* A call that starts, goes on or ends, and one that stays.
LEMMA StatisticsGoto ==
  ASSUME StatisticsInv, NEW k \in One, NEW c \in {Statistics!Idle} \cup Figures,
         c \in Figures => FiguresGood(c, payment), Statistics!Goto(k, c), UNCHANGED payment
  PROVE  StatisticsInv'
<1>1. \A j \in One : statisticsCall'[j] = IF j = k THEN c ELSE statisticsCall[j]
  BY DEF StatisticsInv, Statistics!Goto
<1>2. statisticsCall' \in [One -> {Statistics!Idle} \cup Figures]
  BY DEF StatisticsInv, Statistics!Goto
<1> QED
  BY <1>1, <1>2 DEF StatisticsInv, FiguresGood

LEMMA StatisticsGroups ==
  ASSUME StatisticsInv, NEW k \in One, Statistics!GroupBy(k)
  PROVE  StatisticsInv'
<1> DEFINE c == statisticsCall[k]
           a == c.left \ {"groups"}
           b == Statistics!Grouped(c.range)
           d == [c EXCEPT !.left = a]
           e == [d EXCEPT !.byStatus = b]
<1>1. c \in Figures /\ "groups" \in c.left
  BY StatisticsIdle DEF StatisticsInv, Statistics!GroupBy, Statistics!Out
<1>2. a \in SUBSET {"groups", "sum"} /\ a \in {{}, {"sum"}}
      /\ (a = {} => c.left = {"groups"})
  BY <1>1 DEF Figures
<1>3. b \in [Statistics!Statuses -> SUBSET Ids]
  BY <1>1 DEF Figures, Statistics!Grouped
<1>4. \A p \in Ids : p \in b["VERIFIED"] <=> p \in c.range /\ payment[p] = "VERIFIED"
  BY <1>1 DEF Figures, Statistics!Grouped, Statistics!Statuses
<1>5. FiguresGood(c, payment)
  BY <1>1 DEF StatisticsInv
<1>6. Statistics!Goto(k, e) /\ UNCHANGED payment
  <2>1. e = [c EXCEPT !.left = a, !.byStatus = b]
    BY <1>1 DEF Figures
  <2> QED
    BY <2>1 DEF Statistics!GroupBy
<1> HIDE DEF a, b, c
<1>7. /\ d \in Figures /\ d.left = a /\ d.range = c.range /\ d.verified = c.verified
      /\ d.moved = c.moved
  BY ONLY <1>1, <1>2 DEF Figures
<1> HIDE DEF d
<1>8. /\ e \in Figures /\ e.left = d.left /\ e.range = d.range /\ e.verified = d.verified
      /\ e.moved = d.moved /\ e.byStatus = b
  BY ONLY <1>3, <1>7 DEF Figures
<1>9. FiguresGood(e, payment)
  BY <1>2, <1>4, <1>5, <1>7, <1>8 DEF FiguresGood
<1> HIDE DEF e
<1> QED
  BY <1>6, <1>8, <1>9, StatisticsGoto

LEMMA StatisticsSum ==
  ASSUME StatisticsInv, NEW k \in One, Statistics!Aggregate(k)
  PROVE  StatisticsInv'
<1> DEFINE c == statisticsCall[k]
           a == c.left \ {"sum"}
           b == Statistics!Summed(c.range)
           d == [c EXCEPT !.left = a]
           e == [d EXCEPT !.verified = b]
<1>1. c \in Figures /\ "sum" \in c.left
  BY StatisticsIdle DEF StatisticsInv, Statistics!Aggregate, Statistics!Out
<1>2. a \in SUBSET {"groups", "sum"} /\ a \in {{}, {"groups"}}
      /\ (a = {} => c.left = {"sum"})
  BY <1>1 DEF Figures
<1>3. b \in SUBSET Ids
  BY <1>1 DEF Figures, Statistics!Summed
<1>4. \A p \in Ids : p \in b <=> p \in c.range /\ payment[p] = "VERIFIED"
  BY <1>1 DEF Figures, Statistics!Summed
<1>5. FiguresGood(c, payment)
  BY <1>1 DEF StatisticsInv
<1>6. Statistics!Goto(k, e) /\ UNCHANGED payment
  <2>1. e = [c EXCEPT !.left = a, !.verified = b]
    BY <1>1 DEF Figures
  <2> QED
    BY <2>1 DEF Statistics!Aggregate
<1> HIDE DEF a, b, c
<1>7. /\ d \in Figures /\ d.left = a /\ d.range = c.range /\ d.byStatus = c.byStatus
      /\ d.moved = c.moved
  BY ONLY <1>1, <1>2 DEF Figures
<1> HIDE DEF d
<1>8. /\ e \in Figures /\ e.left = d.left /\ e.range = d.range /\ e.byStatus = d.byStatus
      /\ e.moved = d.moved /\ e.verified = b
  BY ONLY <1>3, <1>7 DEF Figures
<1>9. FiguresGood(e, payment)
  BY <1>2, <1>4, <1>5, <1>7, <1>8 DEF FiguresGood
<1> HIDE DEF e
<1> QED
  BY <1>6, <1>8, <1>9, StatisticsGoto

\* A payment that changes is set aside by the calls it changes under.
LEMMA StatisticsBecomes ==
  ASSUME StatisticsInv, NEW p \in Ids, NEW s \in Statistics!Statuses, Statistics!Becomes(p, s)
  PROVE  StatisticsInv'
<1>1. payment' \in [Ids -> Statistics!Statuses \cup {"none"}]
      /\ \A q \in Ids \ {p} : payment'[q] = payment[q]
  BY DEF StatisticsInv, Statistics!Becomes
<1>2. ASSUME NEW k \in One
      PROVE  /\ statisticsCall'[k] \in {Statistics!Idle} \cup Figures
             /\ statisticsCall'[k] \in Figures => FiguresGood(statisticsCall'[k], payment')
  <2> DEFINE c == statisticsCall[k]
             m == c.moved \cup {p}
             e == [c EXCEPT !.moved = m]
  <2>1. c \in {Statistics!Idle} \cup Figures /\ (c \in Figures => FiguresGood(c, payment))
    BY DEF StatisticsInv
  <2>2. CASE Statistics!Between(c)
    <3>1. c \in Figures
      BY <2>1, <2>2, StatisticsIdle DEF Statistics!Between
    <3>2. statisticsCall'[k] = e
      BY <2>2 DEF Statistics!Becomes
    <3>3. m \in SUBSET Ids /\ p \in m /\ c.moved \subseteq m
      BY <3>1 DEF Figures
    <3>4. c.left # {}
      BY <2>2 DEF Statistics!Between
    <3> HIDE DEF c, m
    <3>5. /\ e \in Figures /\ e.left = c.left /\ e.range = c.range /\ e.byStatus = c.byStatus
          /\ e.verified = c.verified /\ e.moved = m
      BY ONLY <3>1, <3>3 DEF Figures
    <3> HIDE DEF e
    <3>6. FiguresGood(e, payment')
      BY <1>1, <2>1, <3>1, <3>2, <3>3, <3>4, <3>5 DEF FiguresGood
    <3> QED
      BY <3>2, <3>5, <3>6
  <2>3. CASE ~Statistics!Between(c)
    <3>1. statisticsCall'[k] = c
      BY <2>3 DEF Statistics!Becomes
    <3>2. c \in Figures => c.left \notin {{"groups"}, {"sum"}}
      BY <2>3 DEF Statistics!Between, Figures
    <3> QED
      BY <2>1, <3>1, <3>2 DEF FiguresGood
  <2> QED
    BY <2>2, <2>3
<1>3. statisticsCall' \in [One -> {Statistics!Idle} \cup Figures]
  BY <1>2 DEF Statistics!Becomes
<1> QED
  BY <1>1, <1>2, <1>3 DEF StatisticsInv, FiguresGood

LEMMA StatisticsKeep ==
  ASSUME StatisticsInv, Statistics!Next
  PROVE  StatisticsInv'
<1>1. ASSUME NEW k \in One, Statistics!Ask(k) PROVE StatisticsInv'
  <2>1. PICK range \in SUBSET Ids :
          /\ Statistics!Goto(k, [pc |-> "asked", range |-> range, left |-> {"groups", "sum"},
                 byStatus |-> [s \in Statistics!Statuses |-> {}], verified |-> {}, moved |-> {}])
          /\ UNCHANGED payment
    BY <1>1 DEF Statistics!Ask
  <2> DEFINE c == [pc |-> "asked", range |-> range, left |-> {"groups", "sum"},
                   byStatus |-> [s \in Statistics!Statuses |-> {}], verified |-> {}, moved |-> {}]
  <2>2. c \in Figures
    BY DEF Figures
  <2>3. FiguresGood(c, payment)
    BY DEF FiguresGood
  <2> HIDE DEF c
  <2> QED
    BY <2>1, <2>2, <2>3, StatisticsGoto DEF c
<1>2. ASSUME NEW k \in One, Statistics!QueryFails(k) PROVE StatisticsInv'
  BY <1>2, StatisticsGoto, StatisticsIdle DEF Statistics!QueryFails
<1>3. CASE Statistics!RecordPayment \/ Statistics!Verify \/ Statistics!Void
  BY <1>3, StatisticsBecomes
     DEF Statistics!RecordPayment, Statistics!Verify, Statistics!Void, Statistics!Statuses
<1>4. CASE Statistics!Restart
  BY <1>4, StatisticsIdle DEF Statistics!Restart, StatisticsInv
<1> QED
  BY <1>1, <1>2, <1>3, <1>4, StatisticsGroups, StatisticsSum DEF Statistics!Next

LEMMA StatisticsInductive == Spec => []StatisticsInv
<1>1. Init => StatisticsInv
  BY StatisticsIdle DEF Init, Statistics!Init, StatisticsInv
<1>2. StatisticsInv /\ Statistics!Next => StatisticsInv'
  BY StatisticsKeep
<1>3. StatisticsInv /\ UNCHANGED statistics => StatisticsInv'
  BY DEF StatisticsInv, FiguresGood, statistics
<1> QED
  BY <1>1, <1>2, <1>3, StatisticsOnly, PTL DEF Spec

\* Amount and count agree, for any payments and any number of dashboards.
THEOREM AmountsMatchCounts == Spec => []AmountMatchesCount
<1>1. StatisticsInv => AmountMatchesCount
  BY StatisticsIdle DEF StatisticsInv, FiguresGood, AmountMatchesCount,
     Statistics!AmountMatchesCount, Statistics!Answered
<1> QED
  BY <1>1, StatisticsInductive, PTL

-----------------------------------------------------------------------------
(* Types: what the invariants of the desks leave open *)

LEMMA DocumentsTypes == Spec => []Documents!TypeOK
<1>1. DocumentsIInv => Documents!TypeOK
  BY DEF DocumentsIInv
<1> QED
  BY <1>1, DocumentsInductive, PTL

WorkTemplates == active \in [Values -> {"none", "yes", "no"}]

LEMMA WorkTypes == Spec => []Work!TypeOK
<1>1. Init => WorkTemplates
  BY DEF Init, Work!Init, WorkTemplates
<1>2. WorkTemplates /\ Work!Next => WorkTemplates'
  BY DEF Work!Next, Work!ReadContract, Work!WriteContract, Work!StartInstance, Work!ReadTemplate,
         Work!CreateInstance, Work!ReadInstance, Work!AdvanceInstance, Work!StartTask,
         Work!CreateTask, Work!ReadTask, Work!WriteTask, Work!CreateTemplate,
         Work!UpdateTemplate, Work!Restart, WorkTemplates
<1>3. WorkTemplates /\ UNCHANGED work => WorkTemplates'
  BY DEF work, WorkTemplates
<1>4. WorkInv /\ WorkTemplates => Work!TypeOK
  BY DEF WorkInv, WorkRows, WorkTemplates, Work!TypeOK
<1> QED
  BY <1>1, <1>2, <1>3, <1>4, WorkOnly, WorkInductive, PTL DEF Spec

RequestsCollaborators == collaborator \in [Ids -> {"none", "ACTIVE", "INACTIVE"}]

LEMMA RequestsTypes == Spec => []Requests!TypeOK
<1>1. Init => RequestsCollaborators
  BY DEF Init, Requests!Init, RequestsCollaborators
<1>2. RequestsCollaborators /\ Requests!Next => RequestsCollaborators'
  BY DEF Requests!Next, Requests!ReadForUpdate, Requests!Update, Requests!ReadForVerdict,
         Requests!FindContract, Requests!Verdict, Requests!Review, Requests!Approve,
         Requests!Reject, Requests!CreateCollaborator, Requests!UpdateCollaborator,
         Requests!CreateRequest, Requests!DeleteContract, Requests!Restart,
         RequestsCollaborators
<1>3. RequestsCollaborators /\ UNCHANGED requests => RequestsCollaborators'
  BY DEF requests, RequestsCollaborators
<1>4. RequestsInv /\ RequestsCollaborators => Requests!TypeOK
  BY DEF RequestsInv, RequestsCollaborators, Requests!TypeOK
<1> QED
  BY <1>1, <1>2, <1>3, <1>4, RequestsOnly, RequestsInductive, PTL DEF Spec

MailsRecords == template \in {"active", "missing"} /\ accepted \subseteq Calls /\ log \subseteq Mails!Entry

LEMMA MailsTypes == Spec => []Mails!TypeOK
<1>1. Init => MailsRecords
  BY DEF Init, Mails!Init, MailsRecords
<1>2. ASSUME MailsRecords, Mails!Next PROVE MailsRecords'
  <2>1. ASSUME NEW m \in Calls, NEW s \in {"SENT", "SKIPPED", "FAILED"}
        PROVE  log \cup {[mail |-> m, status |-> s]} \subseteq Mails!Entry
    BY <1>2 DEF MailsRecords, Mails!Entry
  <2>2. ASSUME NEW m \in Calls,
               Mails!Start(m) \/ Mails!ReadSpecific(m) \/ Mails!ReadWildcard(m) \/ Mails!FindTemplate(m)
        PROVE  MailsRecords'
    BY <1>2, <2>2 DEF MailsRecords, Mails!Start, Mails!ReadSpecific, Mails!ReadWildcard,
                      Mails!FindTemplate, Mails!Settings
  <2>3. ASSUME NEW m \in Calls, Mails!Send(m) PROVE MailsRecords'
    BY <1>2, <2>3 DEF MailsRecords, Mails!Send, Mails!Settings
  <2>4. ASSUME NEW m \in Calls, Mails!LogSent(m) \/ Mails!LogFailed(m) \/ Mails!LogSkipped(m)
        PROVE  MailsRecords'
    BY <1>2, <2>1, <2>4 DEF MailsRecords, Mails!LogSent, Mails!LogFailed, Mails!LogSkipped,
                            Mails!Write, Mails!Settings
  <2>5. CASE Mails!SetPreference \/ Mails!SetTemplate
    BY <1>2, <2>5 DEF MailsRecords, Mails!SetPreference, Mails!SetTemplate
  <2>6. CASE Mails!Restart
    BY <1>2, <2>6 DEF MailsRecords, Mails!Restart, Mails!Settings
  <2> QED
    BY <1>2, <2>2, <2>3, <2>4, <2>5, <2>6 DEF Mails!Next
<1>3. MailsRecords /\ UNCHANGED mails => MailsRecords'
  BY DEF mails, MailsRecords
<1>4. MailsInv /\ MailsRecords => Mails!TypeOK
  BY DEF MailsInv, MailsRecords, Mails!TypeOK
<1> QED
  BY <1>1, <1>2, <1>3, <1>4, MailsOnly, MailsInductive, PTL DEF Spec

\* Sets of clerks are counted.
LEMMA ClerksCounted ==
  ASSUME NEW S \in SUBSET Clerks
  PROVE  /\ Cardinality(S) \in Nat /\ Cardinality(Clerks) \in Nat
         /\ Cardinality(S) <= Cardinality(Clerks)
         /\ \A T \in SUBSET S : Cardinality(T) \in Nat /\ Cardinality(T) <= Cardinality(S)
         /\ \A k \in S : Cardinality(S) > 0 /\ Cardinality(S \ {k}) = Cardinality(S) - 1
<1>1. IsFiniteSet(S) /\ Cardinality(S) <= Cardinality(Clerks)
  BY ClerksAssumption, FS_Subset
<1>2. Cardinality(S) \in Nat /\ Cardinality(Clerks) \in Nat
  BY <1>1, ClerksAssumption, FS_CardinalityType
<1>3. \A T \in SUBSET S : Cardinality(T) \in Nat /\ Cardinality(T) <= Cardinality(S)
  BY <1>1, FS_Subset, FS_CardinalityType
<1>4. ASSUME NEW k \in S PROVE Cardinality(S) > 0 /\ Cardinality(S \ {k}) = Cardinality(S) - 1
  <2>1. Cardinality(S \ {k}) = Cardinality(S) - 1
    BY <1>1, FS_RemoveElement
  <2>2. Cardinality(S \ {k}) \in Nat
    BY <1>3
  <2> QED
    BY <1>2, <2>1, <2>2
<1> QED
  BY <1>1, <1>2, <1>3, <1>4

\* The desk counts as the back office does.
LEMMA ImportCounting == Import!MaxLeads = Cardinality(Clerks)
BY DEF Import!MaxLeads, Import!Cardinality, Cardinality

\* The commits at work.
Committing == {k \in Clerks : importCall[k].pc = "committing"}

\* A row has no more leads than there have been commits, those at work counted.
ImportTyped ==
  /\ Import!TypeOK
  /\ \A n \in Ids : leads[n] + Cardinality(Committing) <= Import!MaxLeads

\* Steps that make no lead.
LEMMA ImportQuiet ==
  ASSUME ImportTyped, UNCHANGED leads, Committing' \subseteq Committing
  PROVE  \A n \in Ids : leads'[n] + Cardinality(Committing') <= Import!MaxLeads
<1>1. /\ Cardinality(Committing) \in Nat /\ Cardinality(Committing') \in Nat
      /\ Cardinality(Committing') <= Cardinality(Committing)
      /\ Import!MaxLeads \in Nat
  BY ClerksCounted, ImportCounting DEF Committing
<1> SUFFICES ASSUME NEW n \in Ids PROVE leads'[n] + Cardinality(Committing') <= Import!MaxLeads
  OBVIOUS
<1>2. leads[n] \in Nat /\ leads'[n] = leads[n]
  BY DEF ImportTyped, Import!TypeOK
<1>3. leads[n] + Cardinality(Committing) <= Import!MaxLeads
  BY DEF ImportTyped
<1> QED
  BY <1>1, <1>2, <1>3

LEMMA ImportTypedKeep ==
  ASSUME ImportInv, ImportTyped, Import!Next
  PROVE  ImportTyped'
<1>t. /\ status \in {"OPEN", "COMMITTED"} /\ importRows \in Import!Rows
      /\ leads \in [Ids -> 0..Import!MaxLeads]
      /\ importCall \in [Clerks -> {Import!Idle} \cup [pc : {"adding"}]
                                   \cup [pc : {"committing"}, read : Import!Rows]]
      /\ overlapped \in {"yes", "no"} /\ late \subseteq Ids
  BY DEF ImportTyped, Import!TypeOK
<1>m. Import!MaxLeads \in Nat /\ 0 \in 0..Import!MaxLeads
  BY ClerksCounted, ImportCounting
<1>e. ASSUME NEW k \in Clerks, importCall' = [importCall EXCEPT ![k] = Import!Idle]
      PROVE  /\ importCall' \in [Clerks -> {Import!Idle} \cup [pc : {"adding"}]
                                           \cup [pc : {"committing"}, read : Import!Rows]]
             /\ Committing' = Committing \ {k}
  <2>1. /\ importCall' \in [Clerks -> {Import!Idle} \cup [pc : {"adding"}]
                                      \cup [pc : {"committing"}, read : Import!Rows]]
        /\ importCall'[k] = Import!Idle /\ \A j \in Clerks \ {k} : importCall'[j] = importCall[j]
    BY <1>e, <1>t
  <2> QED
    BY <2>1, ImportIdle DEF Committing
<1>1. ASSUME NEW k \in Clerks, Import!StartAddRows(k) PROVE ImportTyped'
  <2>1. /\ importCall' = [importCall EXCEPT ![k] = [pc |-> "adding"]]
        /\ UNCHANGED <<status, importRows, leads, overlapped, late>>
    BY <1>1 DEF Import!StartAddRows, Import!Begin
  <2>2. importCall'[k].pc = "adding" /\ \A j \in Clerks \ {k} : importCall'[j] = importCall[j]
    BY <1>t, <2>1
  <2>3. Committing' \subseteq Committing
    BY <2>2 DEF Committing
  <2>4. Import!TypeOK'
    BY <1>t, <2>1 DEF Import!TypeOK, Import!MaxLeads, Import!Rows, Import!Row
  <2> QED
    BY <2>1, <2>3, <2>4, ImportQuiet DEF ImportTyped, Import!MaxLeads
<1>2. ASSUME NEW k \in Clerks, Import!AddRows(k) PROVE ImportTyped'
  <2>1. PICK new \in SUBSET {n \in Ids : importRows[n] = Import!NoRow}, valid \in SUBSET Ids :
          /\ importRows' = [n \in Ids |-> IF n \notin new THEN importRows[n]
                                          ELSE [state |-> IF n \in valid THEN "VALID" ELSE "INVALID",
                                                lead |-> 0]]
          /\ late' = IF status = "OPEN" THEN late ELSE late \cup new
    BY <1>2 DEF Import!AddRows
  <2>2. importRows' \in Import!Rows
    BY <1>t, <1>m, <2>1 DEF Import!Rows, Import!Row
  <2>3. late' \subseteq Ids
    BY <1>t, <2>1
  <2>4. /\ importCall' = [importCall EXCEPT ![k] = Import!Idle]
        /\ UNCHANGED <<status, leads, overlapped>>
    BY <1>2 DEF Import!AddRows, Import!End
  <2>5. Import!TypeOK' /\ Committing' \subseteq Committing
    BY <1>t, <1>e, <2>2, <2>3, <2>4 DEF Import!TypeOK, Import!MaxLeads, Import!Rows, Import!Row
  <2> QED
    BY <2>4, <2>5, ImportQuiet DEF ImportTyped, Import!MaxLeads
<1>3. ASSUME NEW k \in Clerks, Import!StartCommit(k) PROVE ImportTyped'
  <2>1. /\ importCall' = [importCall EXCEPT ![k] = [pc |-> "committing", read |-> importRows]]
        /\ status = "OPEN" /\ UNCHANGED <<status, importRows, leads, overlapped, late>>
    BY <1>3 DEF Import!StartCommit, Import!Begin
  <2>2. [pc |-> "committing", read |-> importRows] \in [pc : {"committing"}, read : Import!Rows]
    BY <1>t
  <2>3. importCall' \in [Clerks -> {Import!Idle} \cup [pc : {"adding"}]
                                   \cup [pc : {"committing"}, read : Import!Rows]]
    BY <1>t, <2>1, <2>2
  <2>4. Import!TypeOK'
    BY <1>t, <2>1, <2>3 DEF Import!TypeOK, Import!MaxLeads, Import!Rows, Import!Row
  <2>5. Cardinality(Committing') \in Nat /\ Cardinality(Committing') <= Import!MaxLeads
    BY ClerksCounted, ImportCounting DEF Committing
  <2>6. ASSUME NEW n \in Ids PROVE leads'[n] + Cardinality(Committing') <= Import!MaxLeads
    <3>1. leads'[n] = 0
      BY <2>1 DEF ImportInv, ImportCounts
    <3> QED
      BY <2>5, <3>1
  <2> QED
    BY <2>4, <2>6 DEF ImportTyped, Import!MaxLeads
<1>4. ASSUME NEW k \in Clerks, Import!Commit(k) PROVE ImportTyped'
  <2> DEFINE ns == Import!Pending(importCall[k].read)
  <2>1. /\ k \in Committing
        /\ leads' = Import!Created(ns) /\ importRows' = Import!Linked(ns)
        /\ status' = "COMMITTED"
        /\ overlapped' = IF status = "OPEN" THEN overlapped ELSE "yes"
        /\ late' \in {late, {n \in Ids : importRows[n] # Import!NoRow
                                          /\ importCall[k].read[n] = Import!NoRow}}
        /\ importCall' = [importCall EXCEPT ![k] = Import!Idle]
    BY <1>4 DEF Import!Commit, Import!End, Committing
  <2>p. \A n \in ns : importRows[n].state = "VALID"
    BY <2>1 DEF ImportInv, ImportReads, Import!Pending, Committing
  <2> HIDE DEF ns
  <2>2. /\ Cardinality(Committing) \in Nat /\ Cardinality(Committing) > 0
        /\ Committing' = Committing \ {k}
        /\ Cardinality(Committing') = Cardinality(Committing) - 1
    BY <1>e, <2>1, ClerksCounted DEF Committing
  <2>3. ASSUME NEW n \in Ids
        PROVE  /\ leads'[n] \in 0..Import!MaxLeads
               /\ importRows'[n] \in Import!Row \cup {Import!NoRow}
               /\ leads'[n] + Cardinality(Committing') <= Import!MaxLeads
    <3>1. leads[n] \in Nat /\ leads[n] + Cardinality(Committing) <= Import!MaxLeads
      BY <1>t DEF ImportTyped
    <3>2. CASE n \in ns
      <4>1. leads'[n] = leads[n] + 1 /\ importRows'[n] = [importRows[n] EXCEPT !.lead = leads[n] + 1]
        BY <2>1, <3>2 DEF Import!Created, Import!Linked
      <4>2. leads[n] + 1 \in 0..Import!MaxLeads
        BY <1>m, <2>2, <3>1
      <4>3. importRows[n] \in Import!Row
        BY <1>t, <2>p, <3>2, ImportIdle DEF Import!Rows
      <4>4. importRows'[n] \in Import!Row
        BY <4>1, <4>2, <4>3 DEF Import!Row
      <4> QED
        BY <1>m, <2>2, <3>1, <4>1, <4>2, <4>4
    <3>3. CASE n \notin ns
      <4>1. leads'[n] = leads[n] /\ importRows'[n] = importRows[n]
        BY <2>1, <3>3 DEF Import!Created, Import!Linked
      <4> QED
        BY <1>t, <1>m, <2>2, <3>1, <4>1 DEF Import!Rows
    <3> QED
      BY <3>2, <3>3
  <2>4. leads' \in [Ids -> 0..Import!MaxLeads] /\ importRows' \in Import!Rows
    BY <2>1, <2>3 DEF Import!Created, Import!Linked, Import!Rows
  <2>5. /\ importCall' \in [Clerks -> {Import!Idle} \cup [pc : {"adding"}]
                                      \cup [pc : {"committing"}, read : Import!Rows]]
        /\ overlapped' \in {"yes", "no"} /\ late' \subseteq Ids /\ status' = "COMMITTED"
    BY <1>t, <1>e, <2>1
  <2> QED
    BY <2>3, <2>4, <2>5 DEF ImportTyped, Import!TypeOK, Import!MaxLeads, Import!Rows, Import!Row
<1>5. ASSUME NEW k \in Clerks, Import!CommitFails(k) PROVE ImportTyped'
  <2>1. /\ UNCHANGED <<status, importRows, leads, overlapped, late>>
        /\ importCall' = [importCall EXCEPT ![k] = Import!Idle]
    BY <1>5 DEF Import!CommitFails, Import!RolledBack, Import!End
  <2>2. Import!TypeOK' /\ Committing' \subseteq Committing
    BY <1>t, <1>e, <2>1 DEF Import!TypeOK, Import!MaxLeads, Import!Rows, Import!Row
  <2> QED
    BY <2>1, <2>2, ImportQuiet DEF ImportTyped, Import!MaxLeads
<1>6. CASE Import!Restart
  <2>1. /\ UNCHANGED <<status, importRows, leads, overlapped, late>>
        /\ importCall' = [k \in Clerks |-> Import!Idle]
    BY <1>6 DEF Import!Restart
  <2>2. Import!TypeOK' /\ Committing' \subseteq Committing
    BY <1>t, <2>1, ImportIdle DEF Import!TypeOK, Import!MaxLeads, Import!Rows, Import!Row, Committing
  <2> QED
    BY <2>1, <2>2, ImportQuiet DEF ImportTyped, Import!MaxLeads
<1> QED
  BY <1>1, <1>2, <1>3, <1>4, <1>5, <1>6 DEF Import!Next

LEMMA ImportTypes == Spec => []Import!TypeOK
<1>1. ASSUME Import!Init PROVE ImportTyped
  <2>1. Import!MaxLeads \in Nat
    BY ClerksCounted, ImportCounting
  <2>2. Committing = {}
    BY <1>1, ImportIdle DEF Import!Init, Committing
  <2>3. Cardinality(Committing) = 0
    BY <2>2, FS_EmptySet
  <2>4. Import!TypeOK
    BY <1>1, <2>1 DEF Import!Init, Import!TypeOK, Import!Rows
  <2> QED
    BY <1>1, <2>1, <2>3, <2>4 DEF Import!Init, ImportTyped
<1>2. ImportInv /\ ImportTyped /\ Import!Next => ImportTyped'
  BY ImportTypedKeep
<1>3. ImportTyped /\ UNCHANGED import => ImportTyped'
  BY DEF ImportTyped, Import!TypeOK, Committing, import
<1>4. ImportTyped => Import!TypeOK
  BY DEF ImportTyped
<1> QED
  BY <1>1, <1>2, <1>3, <1>4, ImportOnly, ImportInductive, PTL DEF Spec, Init

SetsOpen == kind \in Sets!Kinds /\ beside \subseteq Ids

LEMMA SetsTypes == Spec => []Sets!TypeOK
<1>1. Init => SetsOpen
  BY DEF Init, Sets!Init, SetsOpen
<1>2. ASSUME SetsInv, SetsOpen, Sets!Next PROVE SetsOpen'
  <2>1. PICK k \in Calls : \/ Sets!Start(k) \/ Sets!BeginDelete(k) \/ Sets!LockRows(k)
                           \/ Sets!Insert(k) \/ Sets!CreateSchedule(k) \/ Sets!RollBack(k)
    BY <1>2 DEF Sets!Next, Sets!SetUserRoles, Sets!SetRolePermissionGroups,
       Sets!SetGroupPermissions, Sets!UpsertPaymentSchedule
  <2>2. ASSUME Sets!Settle(k), setCall[k].pc \in {"inserting", "creating"} PROVE beside' \subseteq Ids
    <3>1. setCall[k] \in SetsAtWork
      BY <1>2, <2>2 DEF SetsInv, Sets!Call, Sets!Idle, SetsAtWork
    <3> QED
      BY <2>2, <3>1 DEF Sets!Settle, SetsAtWork
  <2> QED
    BY <1>2, <2>1, <2>2 DEF SetsOpen, Sets!Start, Sets!BeginDelete, Sets!LockRows, Sets!Insert,
                           Sets!CreateSchedule, Sets!RollBack
<1>3. SetsOpen /\ UNCHANGED sets => SetsOpen'
  BY DEF SetsOpen, sets
<1>4. SetsInv /\ SetsOpen => Sets!TypeOK
  BY DEF SetsInv, SetsOpen, Sets!TypeOK
<1> QED
  BY <1>1, <1>2, <1>3, <1>4, SetsOnly, SetsInductive, PTL DEF Spec

TokenStates == {"valid", "logged out", "expired"}
TokensOpen  == secret \in {"set", "unset"} /\ token \in TokenStates

LEMMA TokensTypes == Spec => []Tokens!TypeOK
<1>0. "valid" \in TokenStates /\ "logged out" \in TokenStates /\ "expired" \in TokenStates
  BY DEF TokenStates
<1>1. Init => TokensOpen
  BY <1>0 DEF Init, Tokens!Init, TokensOpen
<1>2. ASSUME TokensOpen, Tokens!Next PROVE TokensOpen'
  <2>1. ASSUME NEW k \in One, \/ Tokens!Receive(k) \/ Tokens!VerifyHS256(k) \/ Tokens!VerifyES256(k)
                              \/ Tokens!VerifyEdDSA(k) \/ Tokens!FetchKey(k) \/ Tokens!GetUser(k)
                              \/ Tokens!Answer(k)
        PROVE  UNCHANGED <<secret, token>>
    <3>1. UNCHANGED Tokens!Environment
      BY <2>1 DEF Tokens!Receive, Tokens!VerifyHS256, Tokens!VerifyES256, Tokens!VerifyEdDSA,
                  Tokens!FetchKey, Tokens!Answer, Tokens!GetUser
    <3> QED
      BY <3>1 DEF Tokens!Environment
  <2>2. ASSUME NEW s \in Tokens!Services, Tokens!Fail(s) \/ Tokens!Recover(s)
        PROVE  UNCHANGED <<secret, token>>
    BY <2>2 DEF Tokens!Fail, Tokens!Recover
  <2>3. ASSUME Tokens!Withdraw \/ Tokens!Tick \/ Tokens!Restart PROVE UNCHANGED <<secret, token>>
    BY <2>3 DEF Tokens!Withdraw, Tokens!Tick, Tokens!Restart, Tokens!Environment
  <2>4. ASSUME Tokens!Logout PROVE UNCHANGED secret /\ token' \in TokenStates
    BY <1>0, <2>4, Zenon DEF Tokens!Logout
  <2>5. ASSUME Tokens!Expire PROVE UNCHANGED secret /\ token' \in TokenStates
    BY <1>0, <2>5 DEF Tokens!Expire
  <2> QED
    BY <1>2, <2>1, <2>2, <2>3, <2>4, <2>5 DEF Tokens!Next, TokensOpen
<1>3. TokensOpen /\ UNCHANGED tokens => TokensOpen'
  BY DEF TokensOpen, tokens
<1>4. TokensInv /\ TokensOpen => Tokens!TypeOK
  BY Zenon DEF TokensInv, TokensKey, TokensOpen, TokenStates, Tokens!TypeOK, Tokens!NotCached
<1> QED
  BY <1>1, <1>2, <1>3, <1>4, TokensOnly, TokensInductive, PTL DEF Spec

SignInsOpen == registered \in {"yes", "no"} /\ used \subseteq Ids

LEMMA SignInsAllTypes == Spec => []SignIns!TypeOK
<1>1. Init => SignInsOpen
  BY DEF Init, SignIns!Init, SignInsOpen
<1>2. ASSUME SignInsTyped, SignInsOpen, SignIns!Next PROVE SignInsOpen'
  <2>1. ASSUME NEW k \in Calls, SignIns!ExchangeCode(k) PROVE SignInsOpen'
    <3>1. signInCall[k].code \in Ids
      BY <1>2, <2>1 DEF SignInsTyped, SignIns!ExchangeCode, SignIns!Call, SignIns!Idle
    <3> QED
      BY <1>2, <2>1, <3>1 DEF SignIns!ExchangeCode, SignInsOpen
  <2>2. ASSUME NEW k \in Calls, \/ SignIns!SignUp(k) \/ SignIns!Login(k) \/ SignIns!Refresh(k)
                                \/ SignIns!OauthCallback(k) \/ SignIns!LoadBySubject(k)
                                \/ SignIns!FindExisting(k) \/ SignIns!Reload(k)
                                \/ SignIns!CreateRow(k) \/ SignIns!Answer(k)
        PROVE  SignInsOpen'
    BY <1>2, <2>2 DEF SignIns!SignUp, SignIns!Login, SignIns!Refresh, SignIns!OauthCallback,
       SignIns!LoadBySubject, SignIns!FindExisting, SignIns!Reload, SignIns!CreateRow,
       SignIns!Answer, SignIns!Browser, SignInsOpen
  <2>3. CASE \/ SignIns!StartGoogleOAuth \/ SignIns!CreateUser \/ SignIns!UpdateUser
             \/ SignIns!SetUserRoles \/ SignIns!SoftDeleteUser
    BY <1>2, <2>3 DEF SignIns!StartGoogleOAuth, SignIns!CreateUser, SignIns!UpdateUser,
       SignIns!SetUserRoles, SignIns!SoftDeleteUser, SignIns!Browser, SignInsOpen
  <2> QED
    BY <1>2, <2>1, <2>2, <2>3 DEF SignIns!Next
<1>3. SignInsOpen /\ UNCHANGED signins => SignInsOpen'
  BY DEF SignInsOpen, signins
<1>4. SignInsTyped /\ SignInsOpen => SignIns!TypeOK
  BY DEF SignInsTyped, SignInsOpen, SignIns!TypeOK
<1> QED
  BY <1>1, <1>2, <1>3, <1>4, SignInsOnly, SignInsInductive, PTL DEF Spec

LEMMA CrmTypes == Spec => []Crm!TypeOK
<1>1. LeadIdsAssumption => (CrmProofs!Spec => []CrmProofs!TypeOK)
  BY CrmProofs!TypeCorrect
<1>2. CrmProofs!TypeOK => Crm!TypeOK
  BY DEF CrmProofs!TypeOK, Crm!TypeOK, CrmProofs!Lead, Crm!Lead, CrmProofs!Contact, Crm!Contact,
     CrmProofs!Absent, Crm!Absent, CrmProofs!Deleted, Crm!Deleted, CrmProofs!Idle, Crm!Idle,
     CrmProofs!Update, Crm!Update, CrmProofs!Other, Crm!Other, CrmProofs!Statuses, Crm!Statuses
<1> QED
  BY <1>1, <1>2, CrmIsItself, LeadIdsAssumption, PTL

LEMMA FinanceTypes == Spec => []Finance!TypeOK
<1>1. FinanceIdsAssumption => (FinanceProofs!Spec => []FinanceProofs!TypeOK)
  BY FinanceProofs!TypeCorrect
<1>2. FinanceProofs!TypeOK => Finance!TypeOK
  BY DEF FinanceProofs!TypeOK, Finance!TypeOK, FinanceProofs!Records, Finance!Records,
     FinanceProofs!NoRow, Finance!NoRow, FinanceProofs!Idle, Finance!Idle,
     FinanceProofs!PaymentCall, Finance!PaymentCall, FinanceProofs!InvoiceCall, Finance!InvoiceCall,
     FinanceProofs!CommissionCall, Finance!CommissionCall,
     FinanceProofs!LifeCycle!Row, Finance!LifeCycle!Row,
     FinanceProofs!LifeCycle!NoRow, Finance!LifeCycle!NoRow,
     FinanceProofs!LifeCycle!PaymentRow, Finance!LifeCycle!PaymentRow,
     FinanceProofs!LifeCycle!InvoiceRow, Finance!LifeCycle!InvoiceRow,
     FinanceProofs!LifeCycle!CommissionRow, Finance!LifeCycle!CommissionRow
<1> QED
  BY <1>1, <1>2, FinanceIsItself, FinanceIdsAssumption, PTL

LEMMA OwnersTypes == Spec => []Owners!TypeOK
<1>1. OwnersInv => Owners!TypeOK
  BY DEF OwnersInv, OwnersTyped, Owners!TypeOK
<1> QED
  BY <1>1, OwnersInductive, PTL

LEMMA StatisticsTypes == Spec => []Statistics!TypeOK
<1>1. StatisticsInv => Statistics!TypeOK
  BY DEF StatisticsInv, Figures, Statistics!TypeOK, Statistics!Call
<1> QED
  BY <1>1, StatisticsInductive, PTL

LEMMA DeskIsChosen == Spec => [](desk \in Desks)
<1>1. Init => desk \in Desks
  BY DEF Init
<1>2. desk \in Desks /\ [Next]_vars => (desk \in Desks)'
  BY DEF Next, vars, DocumentsStep, WorkStep, RequestsStep, MailsStep, ImportStep, SetsStep,
     TokensStep, SignInsStep, CrmStep, FinanceStep, OwnersStep, StatisticsStep
<1> QED
  BY <1>1, <1>2, PTL DEF Spec

\* Type correctness of the whole back office, for any number of calls, clerks,
\* ids and values, any workflows and any age of the key cache: in particular no
\* lead row is imported more often than there are clerks.
THEOREM TypeCorrect == Spec => []TypeOK
<1>1. /\ desk \in Desks /\ Documents!TypeOK /\ Work!TypeOK /\ Requests!TypeOK /\ Mails!TypeOK
      /\ Import!TypeOK /\ Sets!TypeOK /\ Tokens!TypeOK /\ SignIns!TypeOK /\ Crm!TypeOK
      /\ Finance!TypeOK /\ Owners!TypeOK /\ Statistics!TypeOK
      => TypeOK
  BY DEF TypeOK
<1> QED
  BY <1>1, DeskIsChosen, DocumentsTypes, WorkTypes, RequestsTypes, MailsTypes, ImportTypes,
     SetsTypes, TokensTypes, SignInsAllTypes, CrmTypes, FinanceTypes, OwnersTypes,
     StatisticsTypes, PTL

-----------------------------------------------------------------------------
(* Composition *)

\* However the desks are followed, each one behaves as its module alone says:
\* what is proved of a component on its own holds of it among the others.
THEOREM EachDeskAlone ==
  Spec => /\ Documents!Spec /\ Work!Spec /\ Requests!Spec /\ Mails!Spec
          /\ Import!Spec /\ Sets!Spec /\ Tokens!Spec /\ SignIns!Spec
          /\ Crm!Spec /\ Finance!Spec /\ Owners!Spec /\ Statistics!Spec
<1>1. Init => /\ Documents!Init /\ Work!Init /\ Requests!Init /\ Mails!Init
              /\ Import!Init /\ Sets!Init /\ Tokens!Init /\ SignIns!Init
              /\ Crm!Init /\ Finance!Init /\ Owners!Init /\ Statistics!Init
  BY DEF Init
<1>2. [Next]_vars => /\ [Documents!Next]_(Documents!vars) /\ [Work!Next]_(Work!vars)
                     /\ [Requests!Next]_(Requests!vars) /\ [Mails!Next]_(Mails!vars)
  BY DocumentsOnly, WorkOnly, RequestsOnly, MailsOnly
  DEF documents, work, requests, mails, Documents!vars, Work!vars, Requests!vars, Mails!vars
<1>3. [Next]_vars => /\ [Import!Next]_(Import!vars) /\ [Sets!Next]_(Sets!vars)
                     /\ [Tokens!Next]_(Tokens!vars) /\ [SignIns!Next]_(SignIns!vars)
  BY ImportOnly, SetsOnly, TokensOnly, SignInsOnly
  DEF import, sets, tokens, signins, Import!vars, Sets!vars, Tokens!vars, SignIns!vars
<1>4. [Next]_vars => /\ [Crm!Next]_(Crm!vars) /\ [Finance!Next]_(Finance!vars)
                     /\ [Owners!Next]_(Owners!vars) /\ [Statistics!Next]_(Statistics!vars)
  BY CrmOnly, FinanceOnly, OwnersOnly, StatisticsOnly
  DEF crm, finance, owners, statistics, Crm!vars, Finance!vars, Owners!vars, Statistics!vars
<1> QED
  BY <1>1, <1>2, <1>3, <1>4, PTL
  DEF Spec, Documents!Spec, Work!Spec, Requests!Spec, Mails!Spec, Import!Spec, Sets!Spec,
      Tokens!Spec, SignIns!Spec, Crm!Spec, Finance!Spec, Owners!Spec, Statistics!Spec
=============================================================================
