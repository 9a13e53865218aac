------------------------------- MODULE HttpAuth -------------------------------
(***************************************************************************)
(* One authenticated HTTP call: src/client/transport.rs over the            *)
(* authenticators of src/auth.  A call authenticates, is sent, and is sent  *)
(* once more with refreshed credentials when ServiceNow answers 401.        *)
(* Processes that use the same profile share its keychain entry; each has   *)
(* an authenticator, and thus a token cache, of its own.                    *)
(*                                                                         *)
(* Access tokens are numbered as they are issued; refreshOf tells the       *)
(* refresh token that came with one (0 for none), a refresh token being     *)
(* the number of the access token it first came with.                       *)
(***************************************************************************)
EXTENDS Naturals, FiniteSets

CONSTANTS
  Procs,      \* snow-cli processes
  Methods,    \* the authentication methods a profile may have
  Answers,    \* how ServiceNow answers a refresh: "repeat", "rotate" or "omit"
  MaxTokens,  \* bound: access tokens issued
  MaxCalls    \* bound: calls of one process

GrantType == {"client_credentials", "password", "authorization_code"}
ASSUME MethodAssumption == Methods \subseteq GrantType \cup {"static"}
ASSUME AnswerAssumption == Answers \subseteq {"repeat", "rotate", "omit"}
ASSUME BoundAssumption == MaxTokens \in Nat \ {0} /\ MaxCalls \in Nat

VARIABLES
  method,     \* the profile's authentication method; "static" has no refresh
  answer,     \* how this instance answers a refresh
  stored,     \* StoredOAuthToken in the keychain
  cached,     \* OAuth2Auth::cached_token of each process
  call,       \* the call each process makes
  issued,     \* tokens issued so far
  refreshOf,  \* the refresh token delivered with each access token
  stale,      \* tokens that is_expired() calls expired, skew included
  undated,    \* stored tokens without expires_at
  live,       \* refresh tokens ServiceNow accepts
  effects,    \* times ServiceNow carried out the current call (history)
  gone        \* a refresh token never reached the keychain, because a process or an
              \* answer was lost, it had none, or the keychain failed (history)

local == <<stored, cached, call>>
server == <<issued, refreshOf, stale, undated, live, method, answer>>
history == <<effects, gone>>
vars == <<local, server, history>>

Tokens == 1 .. MaxTokens
TokenOrNone == 0 .. MaxTokens

Call == [pc : {"idle", "authenticate", "token", "save", "send", "refresh"},
         retries : BOOLEAN,                                 \* request_inner, not a one-shot
         attempt : 0 .. 1,
         purpose : {"none", "authenticate", "refresh"},    \* who needs a token
         using : TokenOrNone,                              \* refresh token sent
         got : TokenOrNone,                                \* token received
         token : TokenOrNone, first : TokenOrNone,         \* sent, and first sent
         n : 0 .. MaxCalls,
         outcome : {"none", "ok", "failed"}]
NoCall == [pc |-> "idle", retries |-> FALSE, attempt |-> 0, purpose |-> "none", using |-> 0,
           got |-> 0, token |-> 0, first |-> 0, n |-> 0, outcome |-> "none"]

TypeOK ==
  /\ method \in Methods /\ answer \in Answers
  /\ stored \in TokenOrNone /\ cached \in [Procs -> TokenOrNone]
  /\ call \in [Procs -> Call] /\ issued \in TokenOrNone
  /\ refreshOf \in [Tokens -> TokenOrNone]
  /\ stale \in SUBSET Tokens /\ undated \in SUBSET Tokens
  /\ live \in SUBSET Tokens
  /\ effects \in [Procs -> 0 .. 2] /\ gone \in BOOLEAN

\* A profile may hold the token of an earlier login, of any age, with or
\* without a refresh token and, if it is old enough, without an expiry.
Init ==
  /\ method \in Methods /\ answer \in Answers
  /\ stored \in IF method = "authorization_code" THEN {0, 1} ELSE {0}
  /\ issued = stored
  /\ \E r \in {0, stored} : refreshOf = [t \in Tokens |-> IF t = stored THEN r ELSE 0]
  /\ live = {refreshOf[t] : t \in Tokens} \ {0}
  /\ stale \in SUBSET ({stored} \ {0}) /\ undated \in SUBSET ({stored} \ {0})
  /\ gone = FALSE
  /\ cached = [p \in Procs |-> 0] /\ call = [p \in Procs |-> NoCall]
  /\ effects = [p \in Procs |-> 0]

OAuth == method # "static"
CodeGrant == method = "authorization_code"

----------------------------------------------------------------------------
(* Steps of a call.                                                        *)

At(p, pc) == call[p].pc = pc
Goto(p, pc) == call' = [call EXCEPT ![p].pc = pc]

\* The call ends; its outcome is what the command reports.
EndCall(p, outcome) == call' = [call EXCEPT ![p] = [NoCall EXCEPT !.n = call[p].n, !.outcome = outcome]]

\* request_inner, or one of the operations that send once: attachment upload and
\* download, background scripts, bootstrap pages.
BeginCall(p) ==
  /\ At(p, "idle") /\ call[p].n < MaxCalls
  /\ \E retries \in BOOLEAN :
       call' = [call EXCEPT ![p] = [NoCall EXCEPT !.pc = "authenticate", !.n = call[p].n + 1,
                                                  !.retries = retries]]
  /\ effects' = [effects EXCEPT ![p] = 0]
  /\ UNCHANGED <<stored, cached, server, gone>>

SendWith(p, t) ==
  call' = [call EXCEPT ![p].pc = "send", ![p].token = t, ![p].purpose = "none",
                       ![p].first = IF call[p].attempt = 0 THEN t ELSE @]

----------------------------------------------------------------------------
(* authenticate()                                                          *)

IsExpired(t) == t \in stale                    \* CachedToken::is_expired
StoredIsExpired(t) == t \in stale \ undated    \* StoredOAuthToken::is_expired
ValidCachedToken(p) == cached[p] # 0 /\ ~IsExpired(cached[p])

\* Basic, API key, browser and native session: the secret is read anew each
\* time, and may be missing.
StaticAuthenticate(p) ==
  /\ At(p, "authenticate") /\ ~OAuth
  /\ SendWith(p, 0) \/ EndCall(p, "failed")
  /\ UNCHANGED <<stored, cached, server, history>>

UseCached(p) ==
  /\ At(p, "authenticate") /\ OAuth /\ ValidCachedToken(p)
  /\ SendWith(p, cached[p])
  /\ UNCHANGED <<stored, cached, server, history>>

\* Ask the token endpoint, with refresh token r or, for 0, with the full grant.
AskToken(p, purpose, r) ==
  call' = [call EXCEPT ![p].pc = "token", ![p].purpose = purpose, ![p].using = r]

\* fetch_token; the client secret or the password may be missing.
FetchToken(p) ==
  /\ At(p, "authenticate") /\ OAuth /\ ~CodeGrant /\ ~ValidCachedToken(p)
  /\ AskToken(p, "authenticate", 0) \/ EndCall(p, "failed")
  /\ UNCHANGED <<stored, cached, server, history>>

\* authenticate_authorization_code beyond the cache.
ReadStored(p) ==
  /\ At(p, "authenticate") /\ CodeGrant /\ ~ValidCachedToken(p)
  /\ \/ /\ stored # 0 /\ ~StoredIsExpired(stored)
        /\ cached' = [cached EXCEPT ![p] = stored]
        /\ SendWith(p, stored)
     \/ /\ stored # 0 /\ StoredIsExpired(stored) /\ refreshOf[stored] # 0
        /\ AskToken(p, "authenticate", refreshOf[stored])
        /\ UNCHANGED cached
     \/ /\ stored = 0 \/ (StoredIsExpired(stored) /\ refreshOf[stored] = 0)
        /\ EndCall(p, "failed")
        /\ UNCHANGED cached
  /\ UNCHANGED <<stored, server, history>>

----------------------------------------------------------------------------
(* refresh()                                                               *)

\* The refresh token of the cached token, else that of the stored one.
RefreshToken(p) ==
  IF cached[p] # 0 /\ refreshOf[cached[p]] # 0 THEN refreshOf[cached[p]]
  ELSE IF CodeGrant /\ stored # 0 THEN refreshOf[stored] ELSE 0

Refresh(p) ==
  /\ At(p, "refresh")
  /\ \/ RefreshToken(p) # 0 /\ AskToken(p, "refresh", RefreshToken(p))
     \/ RefreshToken(p) = 0 /\ ~CodeGrant /\ (AskToken(p, "refresh", 0) \/ EndCall(p, "failed"))
     \/ RefreshToken(p) = 0 /\ CodeGrant /\ EndCall(p, "failed")
  /\ UNCHANGED <<stored, cached, server, history>>

----------------------------------------------------------------------------
(* The token endpoint (send_oauth_token_request) and what follows.          *)

BadGotToken(p, t) ==   \* a refreshed token is not put into the cache
  IF call[p].purpose = "authenticate"
  THEN SendWith(p, t) /\ cached' = [cached EXCEPT ![p] = t]
  ELSE /\ call' = [call EXCEPT ![p].pc = "authenticate", ![p].purpose = "none",
                              ![p].attempt = @ + 1]
       /\ UNCHANGED cached

\* A token that arrived is cached; the call is sent, or attempted again.
GotToken(p, t) ==
  /\ cached' = [cached EXCEPT ![p] = t]
  /\ IF call[p].purpose = "authenticate" THEN SendWith(p, t)
     ELSE call' = [call EXCEPT ![p].pc = "authenticate", ![p].purpose = "none",
                               ![p].attempt = @ + 1]

\* The refresh token that comes with token t, the answer to a request with r.
Delivered(r, t) ==
  IF r = 0 THEN IF method = "password" THEN {0, t} ELSE {0}
  ELSE {CASE answer = "repeat" -> r [] answer = "rotate" -> t [] answer = "omit" -> 0}

\* ServiceNow issues token t with refresh token d in answer to r; a rotated
\* refresh token is accepted no more.
Issue(t, r, d) ==
  /\ issued < MaxTokens /\ t = issued + 1 /\ r \in live \cup {0}
  /\ d \in Delivered(r, t)
  /\ issued' = t /\ refreshOf' = [refreshOf EXCEPT ![t] = d]
  /\ live' = IF d = t THEN (live \ {r}) \cup {t} ELSE live
  /\ UNCHANGED <<stale, undated, method, answer>>

TokenIssued(p) ==
  /\ At(p, "token")
  /\ \E t \in Tokens, d \in TokenOrNone :
       /\ Issue(t, call[p].using, d)
       /\ IF CodeGrant
          THEN /\ call' = [call EXCEPT ![p].pc = "save", ![p].got = t]
               /\ UNCHANGED cached
          ELSE GotToken(p, t)
       /\ gone' = (gone \/ (d = 0 /\ call[p].using # 0))
  /\ UNCHANGED <<stored, effects>>

\* A failed refresh falls back to the full grant; anything else ends the call.
AfterRefusal(p) ==
  IF call[p].purpose = "refresh" /\ call[p].using # 0 /\ ~CodeGrant
  THEN call' = [call EXCEPT ![p].using = 0]
  ELSE EndCall(p, "failed")

TokenRefused(p) ==
  /\ At(p, "token")
  /\ AfterRefusal(p)
  /\ UNCHANGED <<stored, cached, server, history>>

\* The answer with the token never arrives.
TokenLost(p) ==
  /\ At(p, "token")
  /\ \E t \in Tokens, d \in TokenOrNone : Issue(t, call[p].using, d)
  /\ AfterRefusal(p)
  /\ gone' = TRUE
  /\ UNCHANGED <<stored, cached, effects>>

BadSaveToken(p) ==   \* only the cache gets the refreshed token
  /\ At(p, "save")
  /\ GotToken(p, call[p].got)
  /\ UNCHANGED <<stored, server, history>>

\* store_oauth_token, then the cache.
SaveToken(p) ==
  /\ At(p, "save")
  /\ stored' = call[p].got
  /\ GotToken(p, call[p].got)
  /\ UNCHANGED <<server, history>>

SaveFails(p) ==
  /\ At(p, "save")
  /\ EndCall(p, "failed")
  /\ gone' = TRUE
  /\ UNCHANGED <<stored, cached, server, effects>>

----------------------------------------------------------------------------
(* Sending the request.                                                    *)

\* ServiceNow carries the request out; its answer may be an error (a script
\* that threw after its writes), may not be JSON, or may be lost.
CarriedOut(p) ==
  /\ At(p, "send")
  /\ effects' = [effects EXCEPT ![p] = @ + 1]
  /\ \E outcome \in {"ok", "failed"} : EndCall(p, outcome)
  /\ UNCHANGED <<stored, cached, server, gone>>

BadNotCarriedOut(p) ==   \* a request without an answer is sent again, too
  /\ At(p, "send")
  /\ IF call[p].attempt = 1 THEN EndCall(p, "failed") /\ UNCHANGED effects
     ELSE /\ call' = [call EXCEPT ![p].pc = "authenticate", ![p].attempt = 1]
          /\ effects' = [effects EXCEPT ![p] = @ + 1]
  /\ UNCHANGED <<stored, cached, server, gone>>

\* Any other answer or failure without effect, but for 401.
NotCarriedOut(p) ==
  /\ At(p, "send")
  /\ EndCall(p, "failed")
  /\ UNCHANGED <<stored, cached, server, history>>

BadUnauthorized(p) ==   \* the attempts are not limited
  /\ At(p, "send")
  /\ IF call[p].retries /\ OAuth THEN Goto(p, "refresh") ELSE EndCall(p, "failed")
  /\ UNCHANGED <<stored, cached, server, history>>

\* 401, for whatever reason: the first attempt of a request refreshes what can
\* be refreshed.
Unauthorized(p) ==
  /\ At(p, "send")
  /\ IF call[p].retries /\ call[p].attempt = 0 /\ OAuth THEN Goto(p, "refresh")
     ELSE EndCall(p, "failed")
  /\ UNCHANGED <<stored, cached, server, history>>

Step(p) ==
  \/ StaticAuthenticate(p) \/ UseCached(p) \/ FetchToken(p) \/ ReadStored(p)
  \/ Refresh(p) \/ TokenIssued(p) \/ TokenRefused(p) \/ TokenLost(p)
  \/ SaveToken(p) \/ SaveFails(p)
  \/ CarriedOut(p) \/ NotCarriedOut(p) \/ Unauthorized(p)

----------------------------------------------------------------------------
(* The environment.                                                        *)

\* The process ends, or is killed in the middle of a call.
Exit(p) ==
  /\ cached[p] # 0 \/ ~At(p, "idle")
  /\ cached' = [cached EXCEPT ![p] = 0]
  /\ EndCall(p, "none")
  /\ gone' = (gone \/ At(p, "save"))
  /\ UNCHANGED <<stored, server, effects>>

\* Time passes: a token expires by the local clock.
Expire ==
  /\ \E t \in (1 .. issued) \ stale : stale' = stale \cup {t}
  /\ UNCHANGED <<local, history, issued, refreshOf, undated, live, method, answer>>

Next ==
  \/ \E p \in Procs : BeginCall(p) \/ Step(p) \/ Exit(p)
  \/ Expire

Spec == Init /\ [][Next]_vars

----------------------------------------------------------------------------
(* Properties.                                                             *)

\* ServiceNow carries out a call at most once, and exactly once if the command
\* reports success, whatever is retried (request_inner: a replayed POST must not
\* create two records).
EffectAtMostOnce ==
  \A p \in Procs : effects[p] <= 1 /\ (call[p].outcome = "ok" => effects[p] = 1)

\* A request that was answered 401 is never sent again with the token that was
\* refused, even if other processes write the keychain meanwhile.
RetryWithNewToken ==
  \A p \in Procs :
    At(p, "send") /\ call[p].attempt = 1 => call[p].token # call[p].first

\* As long as no answer and no keychain write was lost, and every refresh brought
\* a refresh token with it, the refresh token that ServiceNow accepts is in the
\* keychain or in the hands of a process that is about to store it: two processes
\* that refresh at once do not lose the login.
LiveGrantKept ==
  CodeGrant /\ ~gone =>
    \A r \in live : \/ stored # 0 /\ refreshOf[stored] = r
                    \/ \E p \in Procs : At(p, "save") /\ refreshOf[call[p].got] = r
=============================================================================
