---------------------------- MODULE MailDelivery ----------------------------
(***************************************************************************)
(* sendTemplated of MailApplicationService: the recipient's preferences,   *)
(* the template, the mail provider and a row of outbound_email_logs, each  *)
(* an await of its own. Nothing is retried, and no transaction holds the   *)
(* provider and the log together.                                          *)
(*                                                                         *)
(* Mails are the calls of sendTemplated for one event type, to one user or *)
(* to an address without a user; each is made at most once.                *)
(***************************************************************************)
CONSTANT Mails

VARIABLES
  specific,  \* the user's preference for the event type
  wildcard,  \* and for "*"
  template,  \* is it there and active?
  mail,      \* what the call of each mail is doing
  accepted,  \* history: mails the provider has taken
  log        \* rows of outbound_email_logs

vars == <<specific, wildcard, template, mail, accepted, log>>

Preference == {"unset", "on", "off"}
Final == {"sent", "skipped", "failed", "lost"}

\* stable: history, the preferences have not changed since the call read first.
Mail == [pc : {"new", "specific", "wildcard", "template", "sending", "log skipped",
               "log sent", "log failed"} \cup Final,
         stable : {"yes", "no"}, wanted : {"yes", "no"}]
Entry == [mail : Mails, status : {"SENT", "SKIPPED", "FAILED"}]

TypeOK ==
  /\ specific \in Preference /\ wildcard \in Preference
  /\ template \in {"active", "missing"}
  /\ mail \in [Mails -> Mail]
  /\ accepted \subseteq Mails
  /\ log \subseteq Entry

Init ==
  /\ specific = "unset" /\ wildcard = "unset" /\ template = "active"
  /\ mail = [m \in Mails |-> [pc |-> "new", stable |-> "yes", wanted |-> "yes"]]
  /\ accepted = {} /\ log = {}

Goto(m, pc) == mail' = [mail EXCEPT ![m].pc = pc]
Settings == <<specific, wildcard, template>>

Wanted == IF specific # "unset" THEN specific = "on" ELSE wildcard # "off"

-----------------------------------------------------------------------------
(* isChannelEnabled: the row of the event type, then the one of "*" *)

Start(m) ==
  /\ mail[m].pc = "new"
  /\ \/ mail' = [mail EXCEPT ![m] = [pc |-> "specific", stable |-> "yes",
                                     wanted |-> IF Wanted THEN "yes" ELSE "no"]]
     \/ Goto(m, "template")   \* no recipientUserId, as in sendTest: nobody is asked
  /\ UNCHANGED <<Settings, accepted, log>>

\* Where a preference leads. And a bug: "*" is asked first and wins when it is on.
AfterOnly(p) == IF p = "off" THEN "wildcard" ELSE IF p = "on" THEN "template" ELSE "wildcard"
After(p) == IF p = "off" THEN "log skipped" ELSE IF p = "on" THEN "template" ELSE "wildcard"

ReadSpecific(m) ==
  /\ mail[m].pc = "specific"
  /\ Goto(m, After(specific))
  /\ UNCHANGED <<Settings, accepted, log>>

ReadWildcard(m) ==
  /\ mail[m].pc = "wildcard"
  /\ Goto(m, IF wildcard = "off" THEN "log skipped" ELSE "template")
  /\ UNCHANGED <<Settings, accepted, log>>

FindTemplate(m) ==
  /\ mail[m].pc = "template"
  /\ Goto(m, IF template = "active" THEN "sending" ELSE "failed")
  /\ UNCHANGED <<Settings, accepted, log>>

-----------------------------------------------------------------------------
(* The provider and the log *)

\* Taken; taken and the answer lost; or refused, for want of an API key too.
Send(m) ==
  /\ mail[m].pc = "sending"
  /\ \/ accepted' = accepted \cup {m} /\ Goto(m, "log sent")
     \/ accepted' = accepted \cup {m} /\ Goto(m, "log failed")
     \/ UNCHANGED accepted /\ Goto(m, "log failed")
  /\ UNCHANGED <<Settings, log>>

Write(m, status) == log' = log \cup {[mail |-> m, status |-> status]}

\* The catch block writes a FAILED row whatever failed, the SENT row included.
\* And a bug: it covers the provider only.
NotCaught == "failed"
Caught == "log failed"

LogSent(m) ==
  /\ mail[m].pc = "log sent"
  /\ \/ Write(m, "SENT") /\ Goto(m, "sent")
     \/ Write(m, "SENT") /\ Goto(m, Caught)   \* written, and the answer lost
     \/ UNCHANGED log /\ Goto(m, Caught)
  /\ UNCHANGED <<Settings, accepted>>

LogFailed(m) ==
  /\ mail[m].pc = "log failed"
  /\ \/ Write(m, "FAILED") /\ Goto(m, "failed")
     \/ UNCHANGED log /\ Goto(m, "lost")
  /\ UNCHANGED <<Settings, accepted>>

LogSkipped(m) ==
  /\ mail[m].pc = "log skipped"
  /\ \/ Write(m, "SKIPPED") /\ Goto(m, "skipped")
     \/ UNCHANGED log /\ Goto(m, "lost")
  /\ UNCHANGED <<Settings, accepted>>

-----------------------------------------------------------------------------
(* PUT of a preference, PATCH or DELETE of the template, a restart *)

Reading(m) == mail[m].pc \in {"specific", "wildcard"}

SetPreference ==
  /\ \/ specific' \in {"on", "off"} /\ UNCHANGED wildcard
     \/ wildcard' \in {"on", "off"} /\ UNCHANGED specific
  /\ mail' = [m \in Mails |-> IF Reading(m) THEN [mail[m] EXCEPT !.stable = "no"] ELSE mail[m]]
  /\ UNCHANGED <<template, accepted, log>>

SetTemplate ==
  /\ template' \in {"active", "missing"}
  /\ UNCHANGED <<specific, wildcard, mail, accepted, log>>

\* What a call was doing is cut off; the mail may have left already.
Restart ==
  /\ mail' = [m \in Mails |-> IF mail[m].pc \in Final \cup {"new"} THEN mail[m]
                              ELSE [mail[m] EXCEPT !.pc = "lost"]]
  /\ accepted' \in {accepted \cup s : s \in SUBSET {m \in Mails : mail[m].pc = "sending"}}
  /\ UNCHANGED <<Settings, log>>

Next ==
  \/ \E m \in Mails : \/ Start(m) \/ ReadSpecific(m) \/ ReadWildcard(m) \/ FindTemplate(m)
                      \/ Send(m) \/ LogSent(m) \/ LogFailed(m) \/ LogSkipped(m)
  \/ SetPreference \/ SetTemplate \/ Restart

Spec == Init /\ [][Next]_vars

-----------------------------------------------------------------------------
(* Properties *)

Logged(m, status) == [mail |-> m, status |-> status] \in log

\* The log tells what happened: SENT only of a mail the provider took, never
\* SKIPPED of one it took, and a mail it took has a row once its call is over,
\* unless a restart or a second error of the database came between.
LogIsTrue ==
  \A m \in Mails :
    /\ Logged(m, "SENT") => m \in accepted
    /\ Logged(m, "SKIPPED") => m \notin accepted
    /\ mail[m].pc \in Final \ {"lost"} /\ m \in accepted => Logged(m, "SENT") \/ Logged(m, "FAILED")

\* A user who has switched a mail off, be it by "*" only, does not get it, and
\* one who has not is not skipped, while the preferences stand still as the two
\* rows are read.
PreferencesHold ==
  \A m \in Mails : mail[m].stable = "yes" =>
    /\ m \in accepted => mail[m].wanted = "yes"
    /\ Logged(m, "SKIPPED") => mail[m].wanted = "no"
=============================================================================
