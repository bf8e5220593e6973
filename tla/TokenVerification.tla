------------------------- MODULE TokenVerification -------------------------
(***************************************************************************)
(* The check of an access token: SupabaseJwtVerifier decides locally when  *)
(* it can, and resolveVerifiedSubject asks Supabase Auth when the verifier *)
(* answers "unavailable".                                                  *)
(*                                                                         *)
(* One token is followed, issued by the project, together with tokens      *)
(* forged under each algorithm. The signing key may be withdrawn from the  *)
(* JWKS; jwks-rsa keeps a key it has fetched for CacheAge ticks.           *)
(***************************************************************************)
EXTENDS Naturals

CONSTANTS
  Calls,
  CacheAge  \* cacheMaxAge, in ticks

VARIABLES
  alg,      \* what the project signs with; constant
  secret,   \* is SUPABASE_JWT_SECRET set? constant
  token,    \* the project's token: "valid", "logged out" or "expired"
  jwks,     \* is the key in the JWKS: "published" or "withdrawn"
  gone,     \* history: ticks since its withdrawal
  cached,   \* its age in the cache of jwks-rsa, or NotCached
  down,     \* the services of Supabase that do not answer
  call

vars == <<alg, secret, token, jwks, gone, cached, down, call>>

Algs     == {"HS256", "ES256", "EdDSA"}
Services == {"jwks", "auth"}
Bearer   == {"issued"} \cup Algs   \* the issued token, or a forgery under an algorithm
NotCached == CacheAge + 1
Idle     == [pc |-> "idle"]

\* outage: services that failed during the call. good: the issued token was
\* valid and its key published for the whole of it.
Call == {Idle} \cup [pc : {"verifying", "fetching", "asking", "accepted", "refused"},
                     bearer : Bearer, outage : SUBSET Services, good : {"yes", "no"}]

TypeOK ==
  /\ alg \in Algs /\ secret \in {"set", "unset"}
  /\ token \in {"valid", "logged out", "expired"}
  /\ jwks \in {"published", "withdrawn"} /\ gone \in 0..(CacheAge + 1)
  /\ cached \in 0..NotCached
  /\ down \subseteq Services
  /\ call \in [Calls -> Call]

Init ==
  /\ alg \in Algs /\ secret \in {"set", "unset"}
  /\ token = "valid" /\ jwks = "published" /\ gone = 0 /\ cached = NotCached /\ down = {}
  /\ call = [k \in Calls |-> Idle]

Goto(k, pc) == call' = [call EXCEPT ![k].pc = pc]
Environment == <<alg, secret, token, jwks, gone, down>>

-----------------------------------------------------------------------------
(* getSubject *)

Receive(k) ==
  /\ call[k] = Idle
  /\ \E b \in Bearer :
       call' = [call EXCEPT ![k] =
         [pc |-> "verifying", bearer |-> b, outage |-> down,
          good |-> IF b = "issued" /\ token = "valid" /\ jwks = "published"
                   THEN "yes" ELSE "no"]]
  /\ UNCHANGED <<Environment, cached>>

HeaderAlg(k) == IF call[k].bearer = "issued" THEN alg ELSE call[k].bearer

\* jwt.verify with the right key: signature, issuer, audience and life.
Checked(k) == IF call[k].bearer = "issued" /\ token # "expired" THEN "accepted" ELSE "refused"

\* Where verifyInner can decide nothing: "unavailable". And a bug: "invalid".
UnavailableIsInvalid == "refused"
Unavailable == "asking"

VerifyHS256(k) ==
  /\ call[k].pc = "verifying" /\ HeaderAlg(k) = "HS256"
  /\ Goto(k, IF secret = "set" THEN Checked(k) ELSE Unavailable)
  /\ UNCHANGED <<Environment, cached>>

VerifyES256(k) ==
  /\ call[k].pc = "verifying" /\ HeaderAlg(k) = "ES256"
  /\ Goto(k, IF cached = NotCached THEN "fetching" ELSE Checked(k))
  /\ UNCHANGED <<Environment, cached>>

VerifyEdDSA(k) ==
  /\ call[k].pc = "verifying" /\ HeaderAlg(k) = "EdDSA"
  /\ Goto(k, Unavailable)
  /\ UNCHANGED <<Environment, cached>>

\* getSigningKey; jsonwebtoken hands any error of its key callback on as a
\* JsonWebTokenError, which isRejectedToken takes for a verdict on the token.
FetchKey(k) ==
  /\ call[k].pc = "fetching"
  /\ IF "jwks" \notin down /\ jwks = "published"
     THEN Goto(k, Checked(k)) /\ cached' = 0
     ELSE Goto(k, "refused") /\ UNCHANGED cached
  /\ UNCHANGED Environment

\* auth.getUser, which knows about logouts.
GetUser(k) ==
  /\ call[k].pc = "asking"
  /\ Goto(k, IF "auth" \notin down /\ call[k].bearer = "issued" /\ token = "valid"
             THEN "accepted" ELSE "refused")
  /\ UNCHANGED <<Environment, cached>>

Answer(k) ==
  /\ call[k].pc \in {"accepted", "refused"}
  /\ call' = [call EXCEPT ![k] = Idle]
  /\ UNCHANGED <<Environment, cached>>

-----------------------------------------------------------------------------
(* Supabase and time *)

Working(c) == c.pc \in {"verifying", "fetching", "asking"}
Spoiled    == [k \in Calls |-> IF Working(call[k]) THEN [call[k] EXCEPT !.good = "no"] ELSE call[k]]

\* Logout revokes the session, not the token; a token expires; keys rotate.
Logout ==
  /\ token = "valid" /\ token' = "logged out" /\ call' = Spoiled
  /\ UNCHANGED <<alg, secret, jwks, gone, cached, down>>

Expire ==
  /\ token # "expired" /\ token' = "expired" /\ call' = Spoiled
  /\ UNCHANGED <<alg, secret, jwks, gone, cached, down>>

Withdraw ==
  /\ jwks = "published" /\ jwks' = "withdrawn" /\ call' = Spoiled
  /\ UNCHANGED <<alg, secret, token, gone, cached, down>>

Fail(s) ==
  /\ s \notin down /\ down' = down \cup {s}
  /\ call' = [k \in Calls |-> IF Working(call[k])
                              THEN [call[k] EXCEPT !.outage = @ \cup {s}] ELSE call[k]]
  /\ UNCHANGED <<alg, secret, token, jwks, gone, cached>>

Recover(s) ==
  /\ s \in down /\ down' = down \ {s}
  /\ UNCHANGED <<alg, secret, token, jwks, gone, cached, call>>

\* The cache drops a key older than CacheAge. And a bug: it keeps it.
Kept(age) == age
Aged(age) == IF age = NotCached THEN NotCached ELSE age + 1

Tick ==
  /\ cached' = Aged(cached)
  /\ gone' = IF jwks = "withdrawn" /\ gone <= CacheAge THEN gone + 1 ELSE gone
  /\ UNCHANGED <<alg, secret, token, jwks, down, call>>

Restart ==
  /\ cached' = NotCached /\ call' = [k \in Calls |-> Idle]
  /\ UNCHANGED Environment

Next ==
  \/ \E k \in Calls : \/ Receive(k) \/ VerifyHS256(k) \/ VerifyES256(k) \/ VerifyEdDSA(k)
                      \/ FetchKey(k) \/ GetUser(k) \/ Answer(k)
  \/ \E s \in Services : Fail(s) \/ Recover(s)
  \/ Logout \/ Expire \/ Withdraw \/ Tick \/ Restart

Spec == Init /\ [][Next]_vars

-----------------------------------------------------------------------------
(* Properties *)

Decides(k, verdict) == call[k].pc # verdict /\ call'[k].pc = verdict

\* A token is accepted only if the project issued it, it has not expired and,
\* for ES256, its key was withdrawn no longer ago than the cache keeps a key;
\* and a good token is refused only by an outage of Supabase.
RightVerdict ==
  \A k \in Calls :
    /\ Decides(k, "accepted") =>
         /\ call[k].bearer = "issued" /\ token # "expired"
         /\ alg = "ES256" => gone <= CacheAge
    /\ Decides(k, "refused") /\ call[k].good = "yes" => call[k].outage # {}
VerdictsAreRight == [][RightVerdict]_vars

\* auth.md: with the JWKS unreachable the guard falls back to Supabase Auth, so
\* a good token is refused only when Supabase Auth itself fails.
FallsBack ==
  \A k \in Calls : Decides(k, "refused") /\ call[k].good = "yes" => "auth" \in call[k].outage
OutageFallsBack == [][FallsBack]_vars
=============================================================================
