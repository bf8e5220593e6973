------------------------------- MODULE SignIn -------------------------------
(***************************************************************************)
(* Sign-up, login, refresh and Google sign-in of one person: Supabase      *)
(* answers first, then AuthApplicationService finds the person's row in    *)
(* users, or makes it, through IdentityAccessService.                      *)
(*                                                                         *)
(* The row is found by auth_subject_id, which is unique over deleted rows  *)
(* too. The cache of IdentityAccessService is switched off here            *)
(* (AUTH_USER_CACHE_TTL_MS = 0): what it adds is in IdentityAccess. The    *)
(* admin's commands are one step each, and DEACTIVATED is written by the   *)
(* deletion only: to a sign-in it is what SUSPENDED is.                    *)
(***************************************************************************)
CONSTANTS
  Calls,
  Flows  \* Google sign-ins that the person's browser starts

VARIABLES
  registered, \* does Supabase know the person?
  row,        \* of users
  cookie,     \* the flow whose PKCE verifier the browser's cookie holds
  started,    \* flows that were sent to Google
  used,       \* flows whose code Supabase has exchanged
  call

vars == <<registered, row, cookie, started, used, call>>

NoRow    == [state |-> "none"]
NoCookie == "none"
Idle     == [pc |-> "idle"]
Blocked  == {"SUSPENDED", "DEACTIVATED"}
Statuses == {"ACTIVE", "PENDING_APPROVAL"} \cup Blocked
Rows == [state : {"live", "deleted"}, status : Statuses, role : {"default", "none"},
         via : {"password", "google", "admin"}]

\* was: history, how the row stood in the course of the call.
Call == {Idle}
  \cup [pc : {"loading", "ensuring", "creating", "reloading", "in", "out"},
        by : {"signup", "login", "refresh", "google"}, was : SUBSET {"good", "bad"}]
  \cup [pc : {"exchanging"}, bag : Flows, code : Flows]

TypeOK ==
  /\ registered \in {"yes", "no"}
  /\ row \in Rows \cup {NoRow}
  /\ cookie \in Flows \cup {NoCookie}
  /\ started \subseteq Flows /\ used \subseteq Flows
  /\ call \in [Calls -> Call]

Init ==
  /\ registered = "no" /\ row = NoRow /\ cookie = NoCookie
  /\ started = {} /\ used = {}
  /\ call = [k \in Calls |-> Idle]

Standing(r) == IF r.state = "live" /\ r.status \notin Blocked THEN "good" ELSE "bad"
Begun(by, pc) == [pc |-> pc, by |-> by, was |-> {Standing(row)}]
Goto(k, pc) == call' = [call EXCEPT ![k].pc = pc]
Browser == <<cookie, started, used>>

\* The row becomes r under every call at work.
Under(r) ==
  [j \in Calls |-> IF call[j].pc \in {"loading", "ensuring", "creating", "reloading"}
                   THEN [call[j] EXCEPT !.was = @ \cup {Standing(r)}] ELSE call[j]]
Write(r) == row' = r /\ call' = Under(r)

-----------------------------------------------------------------------------
(* Supabase answers *)

\* POST /auth/signup; an email that is registered is refused.
SignUp(k) ==
  /\ call[k] = Idle /\ registered = "no"
  /\ registered' = "yes"
  /\ call' = [call EXCEPT ![k] = Begun("signup", "ensuring")]
  /\ UNCHANGED <<row, Browser>>

Login(k) ==
  /\ call[k] = Idle /\ registered = "yes"
  /\ call' = [call EXCEPT ![k] = Begun("login", "loading")]
  /\ UNCHANGED <<registered, row, Browser>>

\* The token that Supabase renews is verified (TokenVerification).
Refresh(k) ==
  /\ call[k] = Idle /\ registered = "yes"
  /\ call' = [call EXCEPT ![k] = Begun("refresh", "loading")]
  /\ UNCHANGED <<registered, row, Browser>>

\* GET /auth/oauth/google: a new verifier takes the place of the cookie's.
StartGoogleOAuth ==
  /\ \E f \in Flows \ started : started' = started \cup {f} /\ cookie' = f
  /\ UNCHANGED <<registered, row, used, call>>

\* GET /auth/oauth/callback of any flow, with a code or an error of Google. The
\* cookie is cleared in any case; without it the browser goes back with an error.
OauthCallback(k) ==
  /\ call[k] = Idle
  /\ \E f \in started :
       \/ UNCHANGED call
       \/ /\ cookie # NoCookie
          /\ call' = [call EXCEPT ![k] = [pc |-> "exchanging", bag |-> cookie, code |-> f]]
  /\ cookie' = NoCookie
  /\ UNCHANGED <<registered, row, started, used>>

\* exchangeCodeForSession: the verifier must be the code's, and the code new.
ExchangeCode(k) ==
  /\ call[k].pc = "exchanging"
  /\ IF call[k].bag = call[k].code /\ call[k].code \notin used
     THEN /\ used' = used \cup {call[k].code} /\ registered' = "yes"
          /\ call' = [call EXCEPT ![k] = Begun("google", "loading")]
     ELSE /\ call' = [call EXCEPT ![k] = Idle]
          /\ UNCHANGED <<used, registered>>
  /\ UNCHANGED <<row, cookie, started>>

-----------------------------------------------------------------------------
(* The local row *)

\* loadAuthUserBySubject; only refresh gives up when it finds nobody.
LoadBySubject(k) ==
  /\ call[k].pc = "loading"
  /\ Goto(k, IF Standing(row) = "good" THEN "in"
             ELSE IF call[k].by = "refresh" THEN "out" ELSE "ensuring")
  /\ UNCHANGED <<registered, row, Browser>>

\* ensureLocalUser: a row that is not deleted is loaded. And a bug: it is the answer.
FoundIsIn == "in"
Found == "reloading"

FindExisting(k) ==
  /\ call[k].pc = "ensuring"
  /\ Goto(k, IF row.state = "live" THEN Found ELSE "creating")
  /\ UNCHANGED <<registered, row, Browser>>

\* loadAuthUser: a user who is blocked is an error.
Reload(k) ==
  /\ call[k].pc = "reloading"
  /\ Goto(k, IF Standing(row) = "good" THEN "in" ELSE "out")
  /\ UNCHANGED <<registered, row, Browser>>

\* What a first sign-in inserts: strangers from Google wait for an admin.
NewRow(by) ==
  [state |-> "live", via |-> IF by = "google" THEN "google" ELSE "password",
   status |-> IF by = "google" THEN "PENDING_APPROVAL" ELSE "ACTIVE",
   role   |-> IF by = "google" THEN "none" ELSE "default"]

\* Refused by the unique index when there is a row, a deleted one included.
CreateRow(k) ==
  /\ call[k].pc = "creating"
  /\ \/ /\ row = NoRow
        /\ row' = NewRow(call[k].by)
        /\ call' = [Under(row') EXCEPT ![k].pc = "reloading"]
     \/ row # NoRow /\ Goto(k, "out") /\ UNCHANGED row
  /\ UNCHANGED <<registered, Browser>>

\* The answer leaves; or an error of Supabase or the database ends the call.
Answer(k) ==
  /\ call[k] # Idle
  /\ call' = [call EXCEPT ![k] = Idle]
  /\ UNCHANGED <<registered, row, Browser>>

-----------------------------------------------------------------------------
(* The admin *)

CreateUser ==
  /\ row = NoRow
  /\ \E s \in Statuses \ {"DEACTIVATED"}, r \in {"default", "none"} :
       Write([state |-> "live", status |-> s, role |-> r, via |-> "admin"])
  /\ UNCHANGED <<registered, Browser>>

UpdateUser ==
  /\ row.state = "live"
  /\ \E s \in Statuses \ {"DEACTIVATED"} : Write([row EXCEPT !.status = s, !.via = "admin"])
  /\ UNCHANGED <<registered, Browser>>

SetUserRoles ==
  /\ row.state = "live"
  /\ \E r \in {"default", "none"} : Write([row EXCEPT !.role = r, !.via = "admin"])
  /\ UNCHANGED <<registered, Browser>>

SoftDeleteUser ==
  /\ row.state = "live"
  /\ Write([row EXCEPT !.state = "deleted", !.status = "DEACTIVATED"])
  /\ UNCHANGED <<registered, Browser>>

Next ==
  \/ \E k \in Calls : \/ SignUp(k) \/ Login(k) \/ Refresh(k) \/ OauthCallback(k) \/ ExchangeCode(k)
                      \/ LoadBySubject(k) \/ FindExisting(k) \/ Reload(k) \/ CreateRow(k) \/ Answer(k)
  \/ StartGoogleOAuth
  \/ CreateUser \/ UpdateUser \/ SetUserRoles \/ SoftDeleteUser

Spec == Init /\ [][Next]_vars

-----------------------------------------------------------------------------
(* Properties *)

Decides(k, verdict) == call[k].pc # verdict /\ call'[k].pc = verdict

\* Whoever gets a session had, at some moment of the call, a row that was
\* neither deleted nor blocked; who is turned away was without one at some
\* moment, a first sign-in that loses the race for the row included. A person
\* whom only Google vouches for is pending and has no role: so auth.md:164-169
\* and completeGoogleOAuth, while auth.md:311 gives DEFAULT_SIGNUP_ROLE to "cả
\* signup + Google lần đầu", to a first sign-in with Google as well.
RightAnswer ==
  /\ \A k \in Calls : /\ Decides(k, "in") => "good" \in call'[k].was
                      /\ Decides(k, "out") => "bad" \in call'[k].was
  /\ row'.state = "live" => (row'.via = "google" =>
       row'.status = "PENDING_APPROVAL" /\ row'.role = "none")
SignInsFollowTheRow == [][RightAnswer]_vars
=============================================================================
