----------------------------- MODULE BackOffice -----------------------------
(***************************************************************************)
(* The services that share no row with each other, side by side: documents *)
(* and storage, work on contracts, contract requests, mail, imports, the   *)
(* replacement of sets, the check of tokens, sign-in, leads, finance       *)
(* records, the ownership of customers and leads, and the dashboard.       *)
(*                                                                         *)
(* A step of one of them changes nothing that another one reads, so every  *)
(* behaviour of theirs together is, for each, a behaviour of it alone.     *)
(* desk names the one that is followed; the others stand still.            *)
(***************************************************************************)
EXTENDS LeadIds, FinanceIds, Naturals, FiniteSets

CONSTANTS
  Calls,   \* requests at work at the same time
  Clerks,  \* the same for imports, one more
  Ids,     \* of rows
  Values,  \* storage keys, contents, templates, amounts
  One,     \* a single id, where one is enough
  Length,  \* template of workflows -> its number of stages
  CacheAge \* how long a key of Supabase is cached, in ticks

ASSUME ClerksAssumption == IsFiniteSet(Clerks)
ASSUME LengthAssumption == Length \in [Values -> Nat]
ASSUME CacheAgeAssumption == CacheAge \in Nat

VARIABLE desk
VARIABLES files, document, documentCall, drawn, named, leaked
VARIABLES contract, active, instance, task, workCall
VARIABLES collaborator, request, live, requestCall
VARIABLES specific, wildcard, template, mail, accepted, log
VARIABLES status, importRows, leads, importCall, overlapped, late
VARIABLES kind, parent, members, setCall, latest, beside
VARIABLES alg, secret, token, jwks, gone, cached, down, tokenCall
VARIABLES registered, user, cookie, started, used, signInCall
VARIABLES lead, contact, customers, leadCall, lateContacts
VARIABLES record, recordCall, overtaken, approved
VARIABLES ownedKind, owned, ownedContract, ownerCall
VARIABLES payment, statisticsCall

Documents == INSTANCE DocumentStorage WITH
  Docs <- Ids, Keys <- Values, row <- document, call <- documentCall
Work == INSTANCE ContractWork WITH
  Contracts <- One, Instances <- One, Tasks <- One, Templates <- Values,
  call <- workCall
Requests == INSTANCE ContractRequest WITH
  Requests <- One, Users <- Ids, Contracts <- One, Contents <- Values,
  call <- requestCall
Mails == INSTANCE MailDelivery WITH
  Mails <- Calls
Import == INSTANCE ImportBatch WITH
  Calls <- Clerks, Numbers <- Ids, rows <- importRows, call <- importCall
Sets == INSTANCE SetReplacement WITH
  Members <- Ids, rows <- members, call <- setCall
Tokens == INSTANCE TokenVerification WITH
  Calls <- One, call <- tokenCall
SignIns == INSTANCE SignIn WITH
  Flows <- Ids, row <- user, call <- signInCall
Crm == INSTANCE LeadConversion WITH
  Contacts <- One, call <- leadCall, late <- lateContacts
Finance == INSTANCE FinanceRecords WITH
  Orders <- Ids, Amounts <- Values, row <- record, call <- recordCall
Owners == INSTANCE Ownership WITH
  Users <- Ids \cup One, Records <- Values, Contracts <- One, Assigners <- One, Admins <- One,
  kind <- ownedKind, record <- owned, contract <- ownedContract, call <- ownerCall
Statistics == INSTANCE DashboardStatistics WITH
  Calls <- One, Payments <- Ids, call <- statisticsCall

documents == <<files, document, documentCall, drawn, named, leaked>>
work == <<contract, active, instance, task, workCall>>
requests == <<collaborator, request, live, requestCall>>
mails == <<specific, wildcard, template, mail, accepted, log>>
import == <<status, importRows, leads, importCall, overlapped, late>>
sets == <<kind, parent, members, setCall, latest, beside>>
tokens == <<alg, secret, token, jwks, gone, cached, down, tokenCall>>
signins == <<registered, user, cookie, started, used, signInCall>>
crm == <<lead, contact, customers, leadCall, lateContacts>>
finance == <<record, recordCall, overtaken, approved>>
owners == <<ownedKind, owned, ownedContract, ownerCall>>
statistics == <<payment, statisticsCall>>

vars == <<desk, documents, work, requests, mails, import, sets, tokens, signins,
          crm, finance, owners, statistics>>

Desks == {"documents", "work", "requests", "mails", "import", "sets", "tokens", "signins",
          "crm", "finance", "owners", "statistics"}

TypeOK ==
  /\ desk \in Desks
  /\ Documents!TypeOK
  /\ Work!TypeOK
  /\ Requests!TypeOK
  /\ Mails!TypeOK
  /\ Import!TypeOK
  /\ Sets!TypeOK
  /\ Tokens!TypeOK
  /\ SignIns!TypeOK
  /\ Crm!TypeOK
  /\ Finance!TypeOK
  /\ Owners!TypeOK
  /\ Statistics!TypeOK

Init ==
  /\ desk \in Desks
  /\ Documents!Init
  /\ Work!Init
  /\ Requests!Init
  /\ Mails!Init
  /\ Import!Init
  /\ Sets!Init
  /\ Tokens!Init
  /\ SignIns!Init
  /\ Crm!Init
  /\ Finance!Init
  /\ Owners!Init
  /\ Statistics!Init
  /\ desk # "sets" => kind = "user"
  /\ desk # "owners" => ownedKind = "customer"
  /\ desk # "tokens" => alg = "ES256" /\ secret = "set"

DocumentsStep ==
  /\ desk = "documents" /\ Documents!Next
  /\ UNCHANGED <<desk, work, requests, mails, import, sets, tokens, signins,
                 crm, finance, owners, statistics>>
WorkStep ==
  /\ desk = "work" /\ Work!Next
  /\ UNCHANGED <<desk, documents, requests, mails, import, sets, tokens, signins,
                 crm, finance, owners, statistics>>
RequestsStep ==
  /\ desk = "requests" /\ Requests!Next
  /\ UNCHANGED <<desk, documents, work, mails, import, sets, tokens, signins,
                 crm, finance, owners, statistics>>
MailsStep ==
  /\ desk = "mails" /\ Mails!Next
  /\ UNCHANGED <<desk, documents, work, requests, import, sets, tokens, signins,
                 crm, finance, owners, statistics>>
ImportStep ==
  /\ desk = "import" /\ Import!Next
  /\ UNCHANGED <<desk, documents, work, requests, mails, sets, tokens, signins,
                 crm, finance, owners, statistics>>
SetsStep ==
  /\ desk = "sets" /\ Sets!Next
  /\ UNCHANGED <<desk, documents, work, requests, mails, import, tokens, signins,
                 crm, finance, owners, statistics>>
TokensStep ==
  /\ desk = "tokens" /\ Tokens!Next
  /\ UNCHANGED <<desk, documents, work, requests, mails, import, sets, signins,
                 crm, finance, owners, statistics>>
SignInsStep ==
  /\ desk = "signins" /\ SignIns!Next
  /\ UNCHANGED <<desk, documents, work, requests, mails, import, sets, tokens,
                 crm, finance, owners, statistics>>
CrmStep ==
  /\ desk = "crm" /\ Crm!Next
  /\ UNCHANGED <<desk, documents, work, requests, mails, import, sets, tokens, signins,
                 finance, owners, statistics>>
FinanceStep ==
  /\ desk = "finance" /\ Finance!Next
  /\ UNCHANGED <<desk, documents, work, requests, mails, import, sets, tokens, signins,
                 crm, owners, statistics>>
OwnersStep ==
  /\ desk = "owners" /\ Owners!Next
  /\ UNCHANGED <<desk, documents, work, requests, mails, import, sets, tokens, signins,
                 crm, finance, statistics>>
StatisticsStep ==
  /\ desk = "statistics" /\ Statistics!Next
  /\ UNCHANGED <<desk, documents, work, requests, mails, import, sets, tokens, signins,
                 crm, finance, owners>>

Next ==
  \/ DocumentsStep
  \/ WorkStep
  \/ RequestsStep
  \/ MailsStep
  \/ ImportStep
  \/ SetsStep
  \/ TokensStep
  \/ SignInsStep
  \/ CrmStep
  \/ FinanceStep
  \/ OwnersStep
  \/ StatisticsStep

Spec == Init /\ [][Next]_vars

-----------------------------------------------------------------------------
(* Properties *)

\* Documents: a live row has its file, and a file in the bucket has its row.
LiveRowsHaveFiles  == Documents!LiveRowsHaveFiles
FilesAreReferenced == Documents!FilesAreReferenced

\* Contracts: deletion ends the work; the last stage has a date of completion.
DeletedContractsRest == [][Work!NoNewWork]_work
EndedIsCompleted == Work!EndedIsCompleted

\* Contract requests: what is reviewed is no longer edited, nor by its own side.
ReviewedRequestsAreFrozen == [][Requests!Frozen]_requests

\* Mail: the log is true, and a preference is respected.
LogIsTrue       == Mails!LogIsTrue
PreferencesHold == Mails!PreferencesHold

\* Imports: one lead for every valid row.
ImportedOnce == Import!ImportedOnce

\* Roles, groups, permissions and schedules: the last replacement is what is there,
\* and to its caller each replacement is one step.
SetIsTheLatest == Sets!SetIsTheLatest
IsARegister    == Sets!IsARegister

\* Tokens: accepted when genuine, refused when not, outages aside.
VerdictsAreRight == [][Tokens!RightVerdict]_tokens

\* Sign-in: a session for whom the row admits, and for nobody else.
SignInsFollowTheRow == [][SignIns!RightAnswer]_signins

\* Leads: contacts stay with the customer of their lead; a conversion is final.
ContactsFollowTheirLead == Crm!ContactsFollowTheirLead
ConversionIsFinal == [][Crm!StaysConverted]_crm

\* Finance records: the documented life cycle, final decisions, approved amounts.
FollowsLifeCycle  == Finance!FollowsLifeCycle
DecisionsAreFinal == [][Finance!FinalDecisions]_finance
PaidAsApproved    == Finance!PaidAsApproved

\* Ownership: a customer or lead that was reassigned is not taken back.
LostRecordsStayLost == [][Owners!LostStaysLost]_owners

\* Dashboard: the amount is the sum of the payments counted.
AmountMatchesCount == Statistics!AmountMatchesCount
=============================================================================
