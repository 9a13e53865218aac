---------------------------- MODULE HttpAuth_proofs ----------------------------
(* Proofs about HttpAuth, for any processes, methods and bounds.             *)
EXTENDS HttpAuth, TLAPS

----------------------------------------------------------------------------
(* The inductive invariant                                                 *)

\* A call that runs has had no effect and no outcome yet, and refreshes in its
\* first attempt only; only OAuth methods refresh and make a second one.
Phases ==
  \A p \in Procs :
    /\ ~At(p, "idle") => effects[p] = 0 /\ call[p].outcome = "none"
    /\ At(p, "refresh") \/ call[p].purpose = "refresh" => call[p].attempt = 0
    /\ call[p].attempt = 1 \/ At(p, "token") \/ At(p, "refresh") => OAuth
    /\ At(p, "token") \/ At(p, "save") => call[p].purpose # "none"
    /\ At(p, "token") /\ CodeGrant => call[p].using # 0

\* Every token in anybody's hands was issued.
Known ==
  /\ stored <= issued
  /\ \A p \in Procs : /\ cached[p] <= issued /\ call[p].first <= issued
                      /\ call[p].got <= issued /\ call[p].using <= issued
  /\ \A t \in Tokens : refreshOf[t] <= issued

\* A token that waits to be stored is known to its process alone.
Private ==
  \A p \in Procs : At(p, "save") =>
    /\ CodeGrant /\ call[p].got # 0 /\ call[p].got # stored
    /\ \A q \in Procs : /\ cached[q] # call[p].got /\ call[q].first # call[p].got
                        /\ At(q, "save") /\ q # p => call[q].got # call[p].got
                        /\ answer = "rotate" /\ At(q, "token") => call[q].using # call[p].got

\* The second attempt of a call will not find the token that was refused.
Replaced ==
  \A p \in Procs : call[p].attempt = 1 =>
    /\ cached[p] # call[p].first
    /\ CodeGrant => stored # call[p].first
    /\ At(p, "send") => call[p].token # call[p].first

\* ServiceNow accepts at most one refresh token of a login, and every process
\* that is about to store one holds it.
Grants ==
  CodeGrant =>
    /\ \A r, s \in live : r = s
    /\ answer = "rotate" => \A t \in Tokens : refreshOf[t] \in {0, t}
    /\ ~gone => \A p \in Procs : At(p, "save") => \A r \in live : refreshOf[call[p].got] = r

IInv == TypeOK /\ Phases /\ Known /\ Private /\ Replaced /\ Grants /\ EffectAtMostOnce /\ LiveGrantKept

\* The numbers in the state are naturals.
LEMMA Numbers ==
  ASSUME TypeOK
  PROVE  /\ stored \in Nat /\ issued \in Nat
         /\ \A q \in Procs : /\ cached[q] \in Nat /\ effects[q] \in Nat
                            /\ call[q] \in Call
                            /\ call[q].first \in Nat /\ call[q].got \in Nat /\ call[q].token \in Nat
                            /\ call[q].using \in Nat /\ call[q].attempt \in 0 .. 1
         /\ \A t \in Tokens : t \in Nat /\ t # 0 /\ refreshOf[t] \in Nat
<1>1. /\ stored \in Nat /\ issued \in Nat
      /\ \A t \in Tokens : t \in Nat /\ t # 0 /\ refreshOf[t] \in Nat
  BY BoundAssumption DEF TypeOK, TokenOrNone, Tokens
<1>2. ASSUME NEW q \in Procs PROVE cached[q] \in Nat /\ effects[q] \in Nat
  BY BoundAssumption DEF TypeOK, TokenOrNone
<1>3. ASSUME NEW q \in Procs
      PROVE  /\ call[q] \in Call
             /\ call[q].first \in Nat /\ call[q].got \in Nat /\ call[q].token \in Nat
             /\ call[q].using \in Nat /\ call[q].attempt \in 0 .. 1
  <2>1. call[q] \in Call
    BY DEF TypeOK
  <2> QED BY <2>1, BoundAssumption DEF Call, TokenOrNone
<1> QED BY <1>1, <1>2, <1>3

----------------------------------------------------------------------------
(* Steps that neither issue nor store a token                              *)

\* Process p goes on with call c, cached token k and e effects: what p does by
\* itself, as the invariant needs it.
Fits(p, c, k, e) ==
  /\ k \in {0, cached[p], stored} /\ e \in 0 .. 1
  /\ c.pc # "save" /\ c.got \in {0, call[p].got}
  /\ c.first \in {0, call[p].first, cached[p], stored}
  /\ c.pc # "idle" => e = 0 /\ c.outcome = "none"
  /\ c.outcome = "ok" => e = 1
  /\ c.pc = "refresh" \/ c.purpose = "refresh" => c.attempt = 0
  /\ c.pc \in {"token", "refresh"} => OAuth
  /\ c.pc = "token" => c.purpose # "none" /\ (CodeGrant => c.using # 0)
  /\ c.using \in {0, call[p].using} \/ c.using \in {refreshOf[x] : x \in {stored, cached[p]} \ {0}}
  /\ c.pc = "token" /\ c.using # 0 => c.using \in {refreshOf[x] : x \in {stored, cached[p]} \ {0}}
  /\ c.attempt = 1 => /\ OAuth /\ k # c.first /\ (CodeGrant => stored # c.first)
                      /\ c.pc = "send" => c.token # c.first

\* Such a step keeps the invariant.
LEMMA Quiet ==
  ASSUME IInv, NEW p \in Procs, NEW c \in Call, NEW k, NEW e, Fits(p, c, k, e),
         call' = [call EXCEPT ![p] = c], cached' = [cached EXCEPT ![p] = k],
         effects' = [effects EXCEPT ![p] = e], UNCHANGED <<stored, server>>,
         gone' \in BOOLEAN, gone \/ At(p, "save") => gone'
  PROVE  IInv'
<1>1. /\ call'[p] = c /\ cached'[p] = k /\ effects'[p] = e
      /\ \A q \in Procs \ {p} : call'[q] = call[q] /\ cached'[q] = cached[q] /\ effects'[q] = effects[q]
  BY DEF IInv, TypeOK
<1>2. k \in TokenOrNone /\ e \in 0 .. 2
  BY BoundAssumption DEF Fits, IInv, TypeOK, TokenOrNone
<1>3. TypeOK'
  BY <1>2 DEF IInv, TypeOK, server
<1>4. UNCHANGED <<stored, issued, refreshOf, live, method, answer>>
  BY DEF server
<1>5. Phases'
  BY <1>1, <1>4 DEF IInv, Phases, Fits, At, OAuth, CodeGrant
<1>6. stored # 0 => stored \in Tokens
  BY BoundAssumption DEF IInv, TypeOK, Tokens, TokenOrNone
<1>7. cached[p] # 0 => cached[p] \in Tokens
  BY BoundAssumption DEF IInv, TypeOK, Tokens, TokenOrNone
<1>8. Known'
  <2>1. 0 <= issued
    BY Numbers DEF IInv
  <2>2. \A x \in {stored, cached[p]} \ {0} : refreshOf[x] <= issued
    BY <1>6, <1>7 DEF IInv, Known
  <2>3. k <= issued /\ c.first <= issued /\ c.got <= issued /\ c.using <= issued
    BY <2>1, <2>2 DEF IInv, Known, Fits
  <2> QED BY <1>1, <1>4, <2>3 DEF IInv, Known
<1>9. Private'
  <2>1. SUFFICES ASSUME NEW q \in Procs, At(q, "save")'
        PROVE  /\ CodeGrant' /\ call'[q].got # 0 /\ call'[q].got # stored'
               /\ \A r \in Procs :
                    /\ cached'[r] # call'[q].got /\ call'[r].first # call'[q].got
                    /\ At(r, "save")' /\ r # q => call'[r].got # call'[q].got
                    /\ answer' = "rotate" /\ At(r, "token")' => call'[r].using # call'[q].got
    BY DEF Private
  <2>2. q # p /\ call'[q] = call[q] /\ At(q, "save")
    BY <1>1, <2>1 DEF Fits, At
  <2>3. /\ CodeGrant /\ call[q].got # 0 /\ call[q].got # stored
        /\ \A r \in Procs : cached[r] # call[q].got /\ call[r].first # call[q].got
    BY <2>2 DEF IInv, Private
  <2>4. answer = "rotate" /\ c.pc = "token" => c.using # call[q].got
    BY <1>6, <1>7, <2>3 DEF IInv, Grants, Fits
  <2>5. k # call[q].got /\ c.first # call[q].got
    BY <2>3 DEF Fits
  <2>6. ASSUME NEW r \in Procs
        PROVE  /\ cached'[r] # call[q].got /\ call'[r].first # call[q].got
               /\ At(r, "save")' /\ r # q => call'[r].got # call[q].got
               /\ answer = "rotate" /\ At(r, "token")' => call'[r].using # call[q].got
    <3>1. CASE r = p
      BY <1>1, <2>4, <2>5, <3>1 DEF At, Fits
    <3>2. CASE r # p
      BY <1>1, <2>2, <3>2 DEF IInv, Private, At
    <3> QED BY <3>1, <3>2
  <2> QED BY <1>4, <2>2, <2>3, <2>6 DEF CodeGrant
<1>10. Replaced'
  BY <1>1, <1>4 DEF IInv, Replaced, Fits, At, CodeGrant, OAuth
<1>11. Grants'
  BY <1>1, <1>4 DEF IInv, Grants, Fits, At, CodeGrant
<1>12. EffectAtMostOnce'
  BY <1>1 DEF IInv, EffectAtMostOnce, Fits
<1>13. LiveGrantKept'
  BY <1>1, <1>4 DEF IInv, LiveGrantKept, At, CodeGrant
<1> QED BY <1>3, <1>5, <1>8, <1>9, <1>10, <1>11, <1>12, <1>13 DEF IInv

\* Ending a call is such a step, whatever its effects were.
LEMMA Ending ==
  ASSUME IInv, NEW p \in Procs, NEW o \in {"none", "ok", "failed"}, EndCall(p, o),
         NEW k \in {0, cached[p]}, cached' = [cached EXCEPT ![p] = k],
         NEW e \in 0 .. 1, effects' = [effects EXCEPT ![p] = e], o = "ok" => e = 1,
         UNCHANGED <<stored, server>>, gone' \in BOOLEAN, gone \/ At(p, "save") => gone'
  PROVE  IInv'
<1> DEFINE c == [NoCall EXCEPT !.n = call[p].n, !.outcome = o]
<1>1. call[p] \in Call
  BY DEF IInv, TypeOK
<1>2. c \in Call
  <2>1. 0 \in TokenOrNone /\ 0 \in 0 .. 1 /\ call[p].n \in 0 .. MaxCalls
    BY <1>1, BoundAssumption DEF Call, TokenOrNone
  <2> QED BY <2>1 DEF Call, NoCall
<1>3. /\ c.pc = "idle" /\ c.got = 0 /\ c.first = 0 /\ c.using = 0 /\ c.attempt = 0
      /\ c.purpose = "none" /\ c.outcome = o
  BY DEF NoCall
<1>4. call' = [call EXCEPT ![p] = c]
  BY DEF EndCall
<1> HIDE DEF c
<1>5. Fits(p, c, k, e)
  BY <1>3 DEF Fits
<1> QED BY <1>2, <1>4, <1>5, Quiet

\* So is ending a call without effect.
LEMMA Failing ==
  ASSUME IInv, NEW p \in Procs, EndCall(p, "failed"), UNCHANGED <<stored, cached, server, history>>,
         ~At(p, "save")
  PROVE  IInv'
<1>1. cached[p] \in {0, cached[p]} /\ cached' = [cached EXCEPT ![p] = cached[p]]
  BY DEF IInv, TypeOK
<1>2. effects[p] \in 0 .. 1 /\ effects' = [effects EXCEPT ![p] = effects[p]]
  BY DEF IInv, TypeOK, EffectAtMostOnce, history
<1>3. UNCHANGED <<stored, server>> /\ gone' \in BOOLEAN /\ (gone \/ At(p, "save") => gone')
  BY DEF IInv, TypeOK, history
<1> QED BY <1>1, <1>2, <1>3, Ending

\* A running call goes on without effect, and the shared state stays.
LEMMA GoingOn ==
  ASSUME IInv, NEW p \in Procs, ~At(p, "idle"), ~At(p, "save"),
         NEW c \in Call, Fits(p, c, cached[p], 0), call' = [call EXCEPT ![p] = c],
         UNCHANGED <<stored, cached, server, history>>
  PROVE  IInv'
<1>1. cached' = [cached EXCEPT ![p] = cached[p]]
  BY DEF IInv, TypeOK
<1>2. effects' = [effects EXCEPT ![p] = 0]
  BY DEF IInv, TypeOK, Phases, history
<1>3. UNCHANGED <<stored, server>> /\ gone' \in BOOLEAN /\ (gone \/ At(p, "save") => gone')
  BY DEF IInv, TypeOK, history
<1> QED BY <1>1, <1>2, <1>3, Quiet

\* The request goes out with token t.
LEMMA Sending ==
  ASSUME IInv, NEW p \in Procs, NEW t \in {0, cached[p], stored}, NEW k \in {cached[p], t},
         At(p, "authenticate"), SendWith(p, t),
         call[p].attempt = 1 => k # call[p].first /\ t # call[p].first,
         cached' = [cached EXCEPT ![p] = k], UNCHANGED <<stored, server, history>>
  PROVE  IInv'
<1> DEFINE c == [call[p] EXCEPT !.pc = "send", !.token = t, !.purpose = "none",
                               !.first = IF call[p].attempt = 0 THEN t ELSE @]
<1>1. call[p] \in Call /\ t \in TokenOrNone
  BY BoundAssumption DEF IInv, TypeOK, TokenOrNone
<1>2. c \in Call
  BY <1>1, BoundAssumption DEF Call, TokenOrNone
<1>3. /\ c.pc = "send" /\ c.purpose = "none" /\ c.token = t /\ c.got = call[p].got
      /\ c.using = call[p].using /\ c.outcome = call[p].outcome /\ c.attempt = call[p].attempt
      /\ c.first = IF call[p].attempt = 0 THEN t ELSE call[p].first
  BY <1>1 DEF Call
<1>4. call' = [call EXCEPT ![p] = c]
  BY <1>1 DEF SendWith, IInv, TypeOK, Call
<1>5. effects[p] = 0 /\ call[p].outcome = "none" /\ effects' = [effects EXCEPT ![p] = 0]
  BY DEF IInv, TypeOK, Phases, At, history
<1> HIDE DEF c
<1>6. Fits(p, c, k, 0)
  <2>1. c.attempt = 1 => /\ OAuth /\ k # c.first /\ (CodeGrant => stored # c.first)
                         /\ c.pc = "send" => c.token # c.first
    <3>1. SUFFICES ASSUME c.attempt = 1
          PROVE  OAuth /\ k # c.first /\ (CodeGrant => stored # c.first) /\ c.token # c.first
      OBVIOUS
    <3>2. call[p].attempt = 1 /\ c.first = call[p].first /\ c.token = t
      BY <1>3, <3>1
    <3>3. OAuth /\ (CodeGrant => stored # call[p].first)
      BY <3>2 DEF IInv, Phases, Replaced
    <3> QED BY <3>2, <3>3
  <2>2. k \in {0, cached[p], stored} /\ c.first \in {0, call[p].first, cached[p], stored}
    BY <1>3
  <2>3. /\ c.pc \notin {"save", "refresh", "token", "idle"} /\ c.got \in {0, call[p].got}
        /\ c.outcome = "none" /\ c.purpose # "refresh" /\ c.using \in {0, call[p].using}
    BY <1>3, <1>5
  <2> QED BY <2>1, <2>2, <2>3 DEF Fits
<1>7. gone' \in BOOLEAN /\ (gone \/ At(p, "save") => gone')
  BY DEF IInv, TypeOK, history, At
<1> QED BY <1>2, <1>4, <1>5, <1>6, <1>7, Quiet

\* The token endpoint is asked with the refresh token of a token at hand, or
\* with the full grant.
LEMMA Asking ==
  ASSUME IInv, NEW p \in Procs, At(p, "authenticate") \/ At(p, "refresh"),
         NEW purpose \in {"authenticate", "refresh"}, NEW r, AskToken(p, purpose, r),
         (r = 0 /\ ~CodeGrant) \/ r \in {refreshOf[x] : x \in {stored, cached[p]} \ {0}} \ {0},
         At(p, "refresh") <=> purpose = "refresh", OAuth,
         UNCHANGED <<stored, cached, server, history>>
  PROVE  IInv'
<1> DEFINE c == [call[p] EXCEPT !.pc = "token", !.purpose = purpose, !.using = r]
<1>1. call[p] \in Call /\ r \in TokenOrNone
  BY BoundAssumption DEF IInv, TypeOK, TokenOrNone, Tokens
<1>2. c \in Call
  BY <1>1 DEF Call
<1>3. /\ c.pc = "token" /\ c.purpose = purpose /\ c.using = r /\ c.got = call[p].got
      /\ c.first = call[p].first /\ c.outcome = call[p].outcome /\ c.attempt = call[p].attempt
  BY <1>1 DEF Call
<1>4. call' = [call EXCEPT ![p] = c]
  BY <1>1 DEF AskToken, IInv, TypeOK, Call
<1> HIDE DEF c
<1>5. Fits(p, c, cached[p], 0)
  BY <1>3 DEF IInv, Phases, Replaced, Fits, At
<1>6. ~At(p, "idle") /\ ~At(p, "save")
  BY DEF At
<1> QED BY <1>2, <1>4, <1>5, <1>6, GoingOn

----------------------------------------------------------------------------
(* The actions that neither issue nor store a token                        *)

\* A call begins with none of the tokens of the previous one.
LEMMA BeginCallKeeps ==
  ASSUME IInv, NEW p \in Procs, BeginCall(p)
  PROVE  IInv'
<1>1. PICK retries \in BOOLEAN :
        call' = [call EXCEPT ![p] = [NoCall EXCEPT !.pc = "authenticate", !.n = call[p].n + 1,
                                                   !.retries = retries]]
  BY DEF BeginCall
<1> DEFINE c == [NoCall EXCEPT !.pc = "authenticate", !.n = call[p].n + 1, !.retries = retries]
<1>2. c \in Call
  <2>1. 0 \in TokenOrNone /\ 0 \in 0 .. 1 /\ call[p].n + 1 \in 0 .. MaxCalls
    BY BoundAssumption DEF Call, TokenOrNone, IInv, TypeOK, BeginCall
  <2> QED BY <2>1 DEF Call, NoCall
<1>3. /\ c.pc = "authenticate" /\ c.got = 0 /\ c.first = 0 /\ c.using = 0 /\ c.attempt = 0
      /\ c.purpose = "none" /\ c.outcome = "none"
  BY DEF NoCall
<1>4. call' = [call EXCEPT ![p] = c]
  BY <1>1
<1> HIDE DEF c
<1>5. Fits(p, c, cached[p], 0)
  BY <1>3 DEF Fits
<1>6. cached' = [cached EXCEPT ![p] = cached[p]] /\ effects' = [effects EXCEPT ![p] = 0]
  BY DEF BeginCall, IInv, TypeOK
<1>7. UNCHANGED <<stored, server>> /\ gone' \in BOOLEAN /\ (gone \/ At(p, "save") => gone')
  BY DEF BeginCall, IInv, TypeOK, At
<1> QED BY <1>2, <1>4, <1>5, <1>6, <1>7, Quiet

\* authenticate() before it asks the token endpoint sends a token at hand, asks, or
\* ends the call.
LEMMA AuthenticateKeeps ==
  ASSUME IInv, NEW p \in Procs,
         StaticAuthenticate(p) \/ UseCached(p) \/ FetchToken(p) \/ ReadStored(p)
  PROVE  IInv'
<1>1. At(p, "authenticate") /\ ~At(p, "save") /\ UNCHANGED <<stored, server, history>>
  BY DEF StaticAuthenticate, UseCached, FetchToken, ReadStored, At
<1>2. cached = [cached EXCEPT ![p] = cached[p]]
  BY DEF IInv, TypeOK
<1>3. call[p].attempt = 1 => OAuth /\ cached[p] # call[p].first /\ (CodeGrant => stored # call[p].first)
  BY DEF IInv, Phases, Replaced
<1>4. CASE EndCall(p, "failed") /\ UNCHANGED cached
  BY <1>1, <1>4, Failing
<1>5. CASE StaticAuthenticate(p) /\ SendWith(p, 0)
  <2>1. call[p].attempt # 1 /\ cached' = [cached EXCEPT ![p] = cached[p]]
    BY <1>2, <1>3, <1>5 DEF StaticAuthenticate
  <2> QED BY <1>1, <1>5, <2>1, Sending
<1>6. CASE UseCached(p)
  <2>1. SendWith(p, cached[p]) /\ cached' = [cached EXCEPT ![p] = cached[p]]
    BY <1>2, <1>6 DEF UseCached
  <2> QED BY <1>1, <1>3, <2>1, Sending
<1>7. CASE FetchToken(p) /\ AskToken(p, "authenticate", 0)
  BY <1>1, <1>7, Asking DEF FetchToken, At
<1>8. CASE ReadStored(p) /\ cached' = [cached EXCEPT ![p] = stored] /\ SendWith(p, stored)
  <2>1. call[p].attempt = 1 => stored # call[p].first
    BY <1>3, <1>8 DEF ReadStored
  <2> QED BY <1>1, <1>8, <2>1, Sending
<1>9. CASE ReadStored(p) /\ stored # 0 /\ refreshOf[stored] # 0 /\ UNCHANGED cached
           /\ AskToken(p, "authenticate", refreshOf[stored])
  BY <1>1, <1>9, Asking DEF At, ReadStored, OAuth, CodeGrant
<1> QED
  BY <1>4, <1>5, <1>6, <1>7, <1>8, <1>9 DEF StaticAuthenticate, FetchToken, ReadStored

\* refresh() before it asks the token endpoint.
LEMMA RefreshKeeps ==
  ASSUME IInv, NEW p \in Procs, Refresh(p)
  PROVE  IInv'
<1>1. At(p, "refresh") /\ ~At(p, "save") /\ OAuth /\ UNCHANGED <<stored, cached, server, history>>
  BY DEF Refresh, At, IInv, Phases
<1>2. CASE EndCall(p, "failed")
  BY <1>1, <1>2, Failing
<1>3. CASE RefreshToken(p) = 0 /\ ~CodeGrant /\ AskToken(p, "refresh", 0)
  BY <1>1, <1>3, Asking
<1>4. CASE RefreshToken(p) # 0 /\ AskToken(p, "refresh", RefreshToken(p))
  <2>1. RefreshToken(p) \in {refreshOf[x] : x \in {stored, cached[p]} \ {0}} \ {0}
    BY <1>4 DEF RefreshToken
  <2> HIDE DEF RefreshToken
  <2> QED BY <1>1, <1>4, <2>1, Asking
<1> QED BY <1>2, <1>3, <1>4 DEF Refresh

\* A refused refresh falls back to the full grant, or ends the call.
LEMMA TokenRefusedKeeps ==
  ASSUME IInv, NEW p \in Procs, TokenRefused(p)
  PROVE  IInv'
<1>1. At(p, "token") /\ ~At(p, "save") /\ UNCHANGED <<stored, cached, server, history>>
  BY DEF TokenRefused, At
<1>2. CASE EndCall(p, "failed")
  BY <1>1, <1>2, Failing
<1>3. CASE ~CodeGrant /\ call' = [call EXCEPT ![p].using = 0]
  <2> DEFINE c == [call[p] EXCEPT !.using = 0]
  <2>1. c \in Call
    BY BoundAssumption DEF IInv, TypeOK, Call, TokenOrNone
  <2>2. /\ c.using = 0 /\ c.pc = "token" /\ c.purpose = call[p].purpose /\ c.got = call[p].got
        /\ c.first = call[p].first /\ c.outcome = call[p].outcome /\ c.attempt = call[p].attempt
    BY <1>1 DEF IInv, TypeOK, Call, At
  <2>3. call' = [call EXCEPT ![p] = c]
    BY <1>3 DEF IInv, TypeOK
  <2> HIDE DEF c
  <2>4. Fits(p, c, cached[p], 0)
    BY <1>1, <1>3, <2>2 DEF IInv, Phases, Replaced, Fits, At
  <2>5. ~At(p, "idle")
    BY <1>1 DEF At
  <2> QED BY <1>1, <2>1, <2>3, <2>4, <2>5, GoingOn
<1> QED BY <1>2, <1>3 DEF TokenRefused, AfterRefusal

\* An answer to the request ends the call, or is a 401 that the first attempt may
\* answer with a refresh.
LEMMA SendKeeps ==
  ASSUME IInv, NEW p \in Procs, CarriedOut(p) \/ NotCarriedOut(p) \/ Unauthorized(p)
  PROVE  IInv'
<1>1. At(p, "send") /\ ~At(p, "save") /\ ~At(p, "idle")
  BY DEF CarriedOut, NotCarriedOut, Unauthorized, At
<1>2. CASE CarriedOut(p)
  <2>1. PICK o \in {"ok", "failed"} : EndCall(p, o)
    BY <1>2 DEF CarriedOut
  <2>2. effects' = [effects EXCEPT ![p] = 1]
    <3>1. effects[p] = 0 /\ effects[p] + 1 = 1
      BY <1>1 DEF IInv, Phases
    <3> QED BY <1>2, <3>1 DEF CarriedOut
  <2>3. cached' = [cached EXCEPT ![p] = cached[p]]
    BY <1>2 DEF CarriedOut, IInv, TypeOK
  <2>4. UNCHANGED <<stored, server>> /\ gone' \in BOOLEAN /\ (gone \/ At(p, "save") => gone')
    BY <1>1, <1>2 DEF CarriedOut, IInv, TypeOK
  <2>5. o \in {"none", "ok", "failed"} /\ cached[p] \in {0, cached[p]} /\ 1 \in 0 .. 1
    OBVIOUS
  <2> QED BY <2>1, <2>2, <2>3, <2>4, <2>5, Ending
<1>3. CASE UNCHANGED <<stored, cached, server, history>> /\ EndCall(p, "failed")
  BY <1>1, <1>3, Failing
<1>4. CASE Unauthorized(p) /\ call[p].attempt = 0 /\ OAuth /\ Goto(p, "refresh")
  <2> DEFINE c == [call[p] EXCEPT !.pc = "refresh"]
  <2>1. c \in Call
    BY DEF IInv, TypeOK, Call
  <2>2. /\ c.using = call[p].using /\ c.pc = "refresh" /\ c.got = call[p].got
        /\ c.first = call[p].first /\ c.outcome = call[p].outcome /\ c.attempt = 0
    BY <1>4 DEF IInv, TypeOK, Call
  <2>3. call' = [call EXCEPT ![p] = c]
    BY <1>4 DEF IInv, TypeOK, Goto
  <2> HIDE DEF c
  <2>4. call[p].outcome = "none"
    BY <1>1 DEF IInv, Phases, At
  <2>5. Fits(p, c, cached[p], 0)
    BY <1>4, <2>2, <2>4 DEF Fits
  <2>6. UNCHANGED <<stored, cached, server, history>>
    BY <1>4 DEF Unauthorized
  <2> QED BY <1>1, <2>1, <2>3, <2>5, <2>6, GoingOn
<1> QED BY <1>2, <1>3, <1>4 DEF NotCarriedOut, Unauthorized

\* A keychain that fails, or a process that ends, may take an unstored token along:
\* the ghost variable gone records it.
LEMMA LossKeeps ==
  ASSUME IInv, NEW p \in Procs, SaveFails(p) \/ Exit(p)
  PROVE  IInv'
<1>1. effects[p] \in 0 .. 1 /\ effects' = [effects EXCEPT ![p] = effects[p]]
  BY DEF SaveFails, Exit, IInv, TypeOK, EffectAtMostOnce
<1>2. UNCHANGED <<stored, server>> /\ gone' \in BOOLEAN /\ (gone \/ At(p, "save") => gone')
  BY DEF SaveFails, Exit, IInv, TypeOK
<1>3. CASE SaveFails(p)
  <2>1. cached' = [cached EXCEPT ![p] = cached[p]] /\ EndCall(p, "failed")
    BY <1>3 DEF SaveFails, IInv, TypeOK
  <2> QED BY <1>1, <1>2, <2>1, Ending
<1>4. CASE Exit(p)
  <2>1. cached' = [cached EXCEPT ![p] = 0] /\ EndCall(p, "none")
    BY <1>4 DEF Exit
  <2> QED BY <1>1, <1>2, <2>1, Ending
<1> QED BY <1>3, <1>4

----------------------------------------------------------------------------
(* Issuing a token                                                         *)

\* What the token endpoint changes.
LEMMA IssueFacts ==
  ASSUME IInv, NEW t \in Tokens, NEW r \in TokenOrNone, NEW d \in TokenOrNone, Issue(t, r, d),
         r <= issued
  PROVE  /\ t = issued + 1 /\ issued' = t /\ issued' \in TokenOrNone /\ d <= t
         /\ refreshOf' \in [Tokens -> TokenOrNone] /\ refreshOf'[t] = d
         /\ \A x \in Tokens \ {t} : refreshOf'[x] = refreshOf[x]
         /\ live' \in SUBSET Tokens /\ UNCHANGED <<stale, undated, method, answer>>
         /\ CodeGrant /\ r # 0 =>
              \/ answer = "rotate" /\ d = t /\ live' = {t}
              \/ answer = "repeat" /\ d = r /\ r \in live /\ live' = live
              \/ answer = "omit" /\ d = 0 /\ live' = live
<1>1. issued \in Nat /\ t = issued + 1 /\ t \in Nat /\ r \in Nat /\ r < t /\ r # t
  BY Numbers, BoundAssumption DEF IInv, Issue, TokenOrNone, Tokens
<1>2. d \in {0, t, r}
  BY AnswerAssumption DEF IInv, TypeOK, Issue, Delivered
<1>3. refreshOf' \in [Tokens -> TokenOrNone] /\ refreshOf'[t] = d
      /\ \A x \in Tokens \ {t} : refreshOf'[x] = refreshOf[x]
  BY DEF IInv, TypeOK, Issue
<1>4. live' \in SUBSET Tokens
  BY DEF IInv, TypeOK, Issue
<1>5. ASSUME CodeGrant, r # 0
      PROVE  \/ answer = "rotate" /\ d = t /\ live' = {t}
             \/ answer = "repeat" /\ d = r /\ r \in live /\ live' = live
             \/ answer = "omit" /\ d = 0 /\ live' = live
  <2>1. r \in live /\ live = {r}
    BY <1>5 DEF IInv, Grants, Issue
  <2>2. answer \in {"repeat", "rotate", "omit"}
    BY AnswerAssumption DEF IInv, TypeOK
  <2>3. d = CASE answer = "repeat" -> r [] answer = "rotate" -> t [] answer = "omit" -> 0
    BY <1>5 DEF Issue, Delivered
  <2>4. CASE answer = "rotate"
    BY <1>1, <2>1, <2>3, <2>4 DEF Issue
  <2>5. CASE answer = "repeat"
    BY <1>1, <2>1, <2>3, <2>5 DEF Issue
  <2>6. CASE answer = "omit"
    BY <1>1, <2>1, <2>3, <2>6 DEF Issue
  <2> QED BY <2>2, <2>4, <2>5, <2>6
<1> QED BY <1>1, <1>2, <1>3, <1>4, <1>5, BoundAssumption DEF Issue, TokenOrNone, Tokens

\* Process p, for which token t was issued, goes on with call c and cached token k.
FitsFresh(p, c, k, t) ==
  /\ k \in {cached[p], t} /\ c.pc # "refresh"
  /\ c.first \in {0, call[p].first, t} /\ c.got \in {0, call[p].got, t}
  /\ c.using \in {0, call[p].using}
  /\ c.outcome # "ok" /\ (c.pc # "idle" => c.outcome = "none")
  /\ c.purpose = "refresh" => c.attempt = 0
  /\ c.pc \in {"token", "save"} => c.purpose # "none"
  /\ c.pc = "token" => OAuth /\ ~CodeGrant
  /\ c.pc = "save" => CodeGrant /\ c.got = t
  /\ CodeGrant => /\ k = cached[p] /\ c.first \in {0, call[p].first}
                  /\ c.pc = "save" \/ gone'
  /\ c.attempt = 1 => /\ OAuth /\ k # c.first /\ (CodeGrant => stored # c.first)
                      /\ c.pc = "send" => c.token # c.first

\* A step in which a token is issued keeps the invariant, whether or not the
\* answer arrives.
LEMMA Fresh ==
  ASSUME IInv, NEW p \in Procs, At(p, "token"), NEW t \in Tokens, NEW d \in TokenOrNone,
         Issue(t, call[p].using, d), NEW c \in Call, NEW k, FitsFresh(p, c, k, t),
         call' = [call EXCEPT ![p] = c], cached' = [cached EXCEPT ![p] = k],
         UNCHANGED <<stored, effects>>, gone' \in BOOLEAN, gone => gone',
         CodeGrant /\ d = 0 => gone'
  PROVE  IInv'
<1> DEFINE r == call[p].using
<1>1. /\ call'[p] = c /\ cached'[p] = k
      /\ \A q \in Procs \ {p} : call'[q] = call[q] /\ cached'[q] = cached[q]
  BY DEF IInv, TypeOK
<1>2. r \in TokenOrNone /\ r <= issued /\ (CodeGrant => r # 0)
  BY DEF IInv, TypeOK, Call, Known, Phases
<1>3. /\ t = issued + 1 /\ issued' = t /\ issued' \in TokenOrNone /\ d <= t
      /\ refreshOf' \in [Tokens -> TokenOrNone] /\ refreshOf'[t] = d
      /\ \A x \in Tokens \ {t} : refreshOf'[x] = refreshOf[x]
      /\ live' \in SUBSET Tokens /\ UNCHANGED <<stale, undated, method, answer>>
  BY <1>2, IssueFacts
<1>4. CodeGrant =>
        \/ answer = "rotate" /\ d = t /\ live' = {t}
        \/ answer = "repeat" /\ d = r /\ r \in live /\ live' = live
        \/ answer = "omit" /\ d = 0 /\ live' = live
  BY <1>2, IssueFacts
<1>5. /\ issued \in Nat /\ t \in Nat /\ t # 0 /\ issued < t /\ r < t /\ stored < t /\ stored \in Nat
      /\ \A q \in Procs : /\ cached[q] < t /\ call[q].first < t /\ call[q].got < t /\ call[q].using < t
                         /\ call[q].got \in TokenOrNone /\ effects[q] \in Nat
  <2>1. issued \in Nat /\ t \in Nat /\ t # 0 /\ stored \in Nat /\ issued < t
    BY <1>3, Numbers DEF IInv
  <2>2. ASSUME NEW q \in Procs
        PROVE  /\ cached[q] \in Nat /\ call[q].first \in Nat /\ call[q].got \in Nat
               /\ call[q].using \in Nat /\ call[q].got \in TokenOrNone /\ effects[q] \in Nat
    BY Numbers DEF IInv, Call
  <2>3. /\ stored <= issued
        /\ \A q \in Procs : /\ cached[q] <= issued /\ call[q].first <= issued
                           /\ call[q].got <= issued /\ call[q].using <= issued
    BY DEF IInv, Known
  <2> QED BY <2>1, <2>2, <2>3
<1> HIDE DEF r
<1>6. TypeOK'
  <2>1. k \in TokenOrNone
    BY <1>3 DEF FitsFresh, IInv, TypeOK
  <2> QED BY <1>3, <2>1 DEF IInv, TypeOK
<1>7. Phases'
  <2>1. effects[p] = 0
    BY DEF IInv, Phases, At
  <2> QED BY <1>1, <1>3, <2>1 DEF IInv, Phases, FitsFresh, At, OAuth, CodeGrant
<1>8. Known'
  <2>1. k <= t /\ c.first <= t /\ c.got <= t /\ c.using <= t
    <3>1. cached[p] \in Nat /\ call[p].first \in Nat /\ call[p].got \in Nat /\ call[p].using \in Nat
      BY Numbers DEF IInv
    <3> QED BY <1>5, <3>1 DEF FitsFresh
  <2>2. \A x \in Tokens : refreshOf'[x] <= t
    <3> SUFFICES ASSUME NEW x \in Tokens PROVE refreshOf'[x] <= t
      OBVIOUS
    <3>1. CASE x = t
      BY <1>3, <3>1
    <3>2. CASE x # t
      <4>1. refreshOf[x] \in Nat /\ refreshOf[x] <= issued
        BY Numbers DEF IInv, Known
      <4> QED BY <1>3, <1>5, <3>2, <4>1
    <3> QED BY <3>1, <3>2
  <2>3. ASSUME NEW q \in Procs \ {p}
        PROVE  /\ cached'[q] <= t /\ call'[q].first <= t /\ call'[q].got <= t /\ call'[q].using <= t
    <3>1. /\ cached[q] \in Nat /\ call[q].first \in Nat /\ call[q].got \in Nat /\ call[q].using \in Nat
      BY Numbers DEF IInv
    <3> QED BY <1>1, <1>5, <3>1
  <2> QED BY <1>1, <1>3, <1>5, <2>1, <2>2, <2>3 DEF Known
<1>9. Private'
  <2>1. SUFFICES ASSUME NEW q \in Procs, At(q, "save")'
        PROVE  /\ CodeGrant /\ call'[q].got # 0 /\ call'[q].got # stored
               /\ \A s \in Procs :
                    /\ cached'[s] # call'[q].got /\ call'[s].first # call'[q].got
                    /\ At(s, "save")' /\ s # q => call'[s].got # call'[q].got
                    /\ answer = "rotate" /\ At(s, "token")' => call'[s].using # call'[q].got
    BY <1>3 DEF Private, CodeGrant
  <2>2. CodeGrant
    BY <1>1, <2>1 DEF IInv, Private, FitsFresh, At
  <2>3. k = cached[p] /\ c.first \in {0, call[p].first} /\ c.pc # "token" /\ (c.pc = "save" => c.got = t)
    BY <2>2 DEF FitsFresh
  <2>4. CASE q = p
    <3>1. call'[q].got = t
      BY <1>1, <2>1, <2>3, <2>4 DEF At
    <3>2. ASSUME NEW s \in Procs
          PROVE  /\ cached'[s] # t /\ call'[s].first # t
                 /\ s # q => call'[s].got # t
                 /\ At(s, "token")' => call'[s].using # t
      BY <1>1, <1>5, <2>3, <2>4 DEF At
    <3> QED BY <1>5, <2>2, <3>1, <3>2
  <2>5. CASE q # p
    <3>1. call'[q] = call[q] /\ At(q, "save")
      BY <1>1, <2>1, <2>5 DEF At
    <3>2. /\ call[q].got # 0 /\ call[q].got # stored /\ call[q].got # t
          /\ \A s \in Procs :
               /\ cached[s] # call[q].got /\ call[s].first # call[q].got
               /\ At(s, "save") /\ s # q => call[s].got # call[q].got
               /\ answer = "rotate" /\ At(s, "token") => call[s].using # call[q].got
      BY <1>5, <3>1 DEF IInv, Private
    <3>3. ASSUME NEW s \in Procs
          PROVE  /\ cached'[s] # call[q].got /\ call'[s].first # call[q].got
                 /\ At(s, "save")' /\ s # q => call'[s].got # call[q].got
                 /\ answer = "rotate" /\ At(s, "token")' => call'[s].using # call[q].got
      <4>1. CASE s = p
        BY <1>1, <2>3, <3>2, <4>1 DEF At
      <4>2. CASE s # p
        BY <1>1, <3>2, <4>2 DEF At
      <4> QED BY <4>1, <4>2
    <3> QED BY <2>2, <3>1, <3>2, <3>3
  <2> QED BY <2>4, <2>5
<1>10. Replaced'
  BY <1>1, <1>3 DEF IInv, Replaced, FitsFresh, At, CodeGrant, OAuth
<1>11. ASSUME CodeGrant, ~gone' PROVE ~gone /\ c.pc = "save" /\ c.got = t /\ d # 0
  BY <1>11 DEF FitsFresh
<1>12. Grants'
  <2>1. SUFFICES ASSUME CodeGrant
        PROVE  /\ \A u, v \in live' : u = v
               /\ answer = "rotate" => \A x \in Tokens : refreshOf'[x] \in {0, x}
               /\ ~gone' => \A q \in Procs : At(q, "save")' => \A u \in live' : refreshOf'[call'[q].got] = u
    BY <1>3 DEF Grants, CodeGrant
  <2>2. \A u, v \in live' : u = v
    BY <1>4, <2>1 DEF IInv, Grants
  <2>3. answer = "rotate" => \A x \in Tokens : refreshOf'[x] \in {0, x}
    BY <1>3, <1>4, <2>1 DEF IInv, Grants
  <2>4. ASSUME ~gone', NEW q \in Procs, At(q, "save")', NEW u \in live'
        PROVE  refreshOf'[call'[q].got] = u
    <3>1. CASE q = p
      BY <1>1, <1>3, <1>4, <1>11, <2>1, <2>2, <2>4, <3>1
    <3>2. CASE q # p
      <4>1. call'[q] = call[q] /\ At(q, "save") /\ call[q].got \in Tokens \ {t}
        <5>1. call'[q] = call[q] /\ At(q, "save")
          BY <1>1, <2>4, <3>2 DEF At
        <5>2. call[q].got # 0 /\ call[q].got # t /\ call[q].got \in TokenOrNone
          BY <1>5, <5>1 DEF IInv, Private
        <5> QED BY <5>1, <5>2, BoundAssumption DEF Tokens, TokenOrNone
      <4>2. \A v \in live : refreshOf[call[q].got] = v
        BY <1>11, <2>1, <2>4, <4>1 DEF IInv, Grants
      <4>3. CASE live' = live
        BY <1>3, <2>4, <4>1, <4>2, <4>3
      <4>4. CASE answer = "rotate"
        <5>1. r \in live
          BY <1>2, <2>1 DEF Issue, r
        <5>2. refreshOf[call[q].got] \in {0, call[q].got}
          BY <2>1, <4>1, <4>4 DEF IInv, Grants
        <5>3. r = call[q].got
          BY <1>2, <2>1, <4>2, <5>1, <5>2
        <5> QED BY <4>1, <4>4, <5>3 DEF IInv, Private, r
      <4> QED BY <1>4, <2>1, <4>3, <4>4
    <3> QED BY <3>1, <3>2
  <2> QED BY <2>2, <2>3, <2>4
<1>13. EffectAtMostOnce'
  BY <1>1 DEF IInv, EffectAtMostOnce, FitsFresh
<1>14. LiveGrantKept'
  <2>1. SUFFICES ASSUME CodeGrant, ~gone', NEW u \in live'
        PROVE  \/ stored # 0 /\ refreshOf'[stored] = u
               \/ \E q \in Procs : At(q, "save")' /\ refreshOf'[call'[q].got] = u
    BY <1>3 DEF LiveGrantKept, CodeGrant
  <2>2. CASE answer = "rotate" /\ d = t /\ live' = {t}
    BY <1>1, <1>3, <1>11, <2>1, <2>2 DEF At
  <2>3. CASE live' = live
    <3>1. CASE stored # 0 /\ refreshOf[stored] = u
      <4>1. stored \in Tokens \ {t}
        BY <1>5, <3>1, BoundAssumption DEF IInv, TypeOK, Tokens, TokenOrNone
      <4> QED BY <1>3, <3>1, <4>1
    <3>2. ASSUME NEW q \in Procs, At(q, "save"), refreshOf[call[q].got] = u
          PROVE  At(q, "save")' /\ refreshOf'[call'[q].got] = u
      <4>1. q # p /\ call'[q] = call[q]
        BY <1>1, <3>2 DEF At
      <4>2. call[q].got # 0 /\ call[q].got # t /\ call[q].got \in TokenOrNone
        BY <1>5, <3>2 DEF IInv, Private
      <4>3. call[q].got \in Tokens \ {t}
        BY <4>2, BoundAssumption DEF Tokens, TokenOrNone
      <4> QED BY <1>3, <3>2, <4>1, <4>3 DEF At
    <3> QED BY <1>11, <2>1, <2>3, <3>1, <3>2 DEF IInv, LiveGrantKept
  <2> QED BY <1>4, <2>1, <2>2, <2>3
<1> QED BY <1>6, <1>7, <1>8, <1>9, <1>10, <1>12, <1>13, <1>14 DEF IInv

\* A token that arrives goes to the keychain first, or into the cache.
LEMMA TokenIssuedKeeps ==
  ASSUME IInv, NEW p \in Procs, TokenIssued(p)
  PROVE  IInv'
<1>1. At(p, "token") /\ UNCHANGED <<stored, effects>>
  BY DEF TokenIssued
<1>2. PICK t \in Tokens, d \in TokenOrNone :
        /\ Issue(t, call[p].using, d)
        /\ IF CodeGrant
           THEN /\ call' = [call EXCEPT ![p].pc = "save", ![p].got = t]
                /\ UNCHANGED cached
           ELSE GotToken(p, t)
        /\ gone' = (gone \/ (d = 0 /\ call[p].using # 0))
  BY DEF TokenIssued
<1>3. /\ call[p] \in Call /\ call[p].outcome = "none" /\ call[p].purpose # "none"
      /\ call[p].purpose = "refresh" => call[p].attempt = 0
      /\ CodeGrant => call[p].using # 0
  BY <1>1 DEF IInv, TypeOK, Phases, At
<1>4. gone' \in BOOLEAN /\ (gone => gone') /\ (CodeGrant /\ d = 0 => gone')
  BY <1>2, <1>3 DEF IInv, TypeOK
<1>5. t \in Nat /\ t # call[p].first /\ t \in TokenOrNone
  <2>1. call[p].using \in TokenOrNone /\ call[p].using <= issued /\ call[p].first <= issued
    BY <1>3 DEF IInv, Known, Call
  <2>2. t = issued + 1
    BY <1>2, <2>1, IssueFacts
  <2> QED BY <2>1, <2>2, Numbers, BoundAssumption DEF IInv, Tokens, TokenOrNone
<1>6. CASE CodeGrant
  <2> DEFINE c == [call[p] EXCEPT !.pc = "save", !.got = t]
  <2>1. c \in Call
    BY <1>3, <1>5 DEF Call
  <2>2. /\ c.pc = "save" /\ c.got = t /\ c.first = call[p].first /\ c.using = call[p].using
        /\ c.outcome = "none" /\ c.purpose = call[p].purpose /\ c.attempt = call[p].attempt
    BY <1>3 DEF Call
  <2>3. call' = [call EXCEPT ![p] = c] /\ cached' = [cached EXCEPT ![p] = cached[p]]
    BY <1>2, <1>6 DEF IInv, TypeOK
  <2> HIDE DEF c
  <2>4. FitsFresh(p, c, cached[p], t)
    BY <1>3, <1>6, <2>2 DEF IInv, Phases, Replaced, FitsFresh
  <2> QED BY <1>1, <1>2, <1>4, <2>1, <2>3, <2>4, Fresh
<1>7. CASE ~CodeGrant /\ call[p].purpose = "authenticate"
  <2> DEFINE c == [call[p] EXCEPT !.pc = "send", !.token = t, !.purpose = "none",
                                 !.first = IF call[p].attempt = 0 THEN t ELSE @]
  <2>1. c \in Call
    BY <1>3, <1>5 DEF Call
  <2>2. /\ c.pc = "send" /\ c.token = t /\ c.got = call[p].got /\ c.using = call[p].using
        /\ c.outcome = "none" /\ c.purpose = "none" /\ c.attempt = call[p].attempt
        /\ c.first = IF call[p].attempt = 0 THEN t ELSE call[p].first
    BY <1>3 DEF Call
  <2>3. call' = [call EXCEPT ![p] = c] /\ cached' = [cached EXCEPT ![p] = t]
    BY <1>2, <1>3, <1>7 DEF IInv, TypeOK, GotToken, SendWith, Call
  <2>4. c.attempt = 1 => OAuth /\ c.first = call[p].first
    BY <2>2 DEF IInv, Phases
  <2> HIDE DEF c
  <2>5. FitsFresh(p, c, t, t)
    BY <1>5, <1>7, <2>2, <2>4 DEF FitsFresh
  <2> QED BY <1>1, <1>2, <1>4, <2>1, <2>3, <2>5, Fresh
<1>8. CASE ~CodeGrant /\ call[p].purpose # "authenticate"
  <2>1. call[p].purpose = "refresh" /\ call[p].attempt = 0
    BY <1>3, <1>8 DEF Call
  <2> DEFINE c == [call[p] EXCEPT !.pc = "authenticate", !.purpose = "none", !.attempt = 1]
  <2>2. c \in Call
    <3>1. 1 \in 0 .. 1
      OBVIOUS
    <3> QED BY <1>3, <3>1 DEF Call
  <2>3. /\ c.pc = "authenticate" /\ c.got = call[p].got /\ c.using = call[p].using
        /\ c.outcome = "none" /\ c.purpose = "none" /\ c.attempt = 1 /\ c.first = call[p].first
    BY <1>3 DEF Call
  <2>4. call' = [call EXCEPT ![p] = c] /\ cached' = [cached EXCEPT ![p] = t]
    <3>1. call[p].attempt + 1 = 1
      BY <2>1
    <3> QED BY <1>2, <1>3, <1>8, <3>1 DEF IInv, TypeOK, GotToken, Call
  <2>5. OAuth
    BY <2>1, <1>1 DEF IInv, Phases
  <2> HIDE DEF c
  <2>6. FitsFresh(p, c, t, t)
    BY <1>5, <1>8, <2>3, <2>5 DEF FitsFresh
  <2> QED BY <1>1, <1>2, <1>4, <2>2, <2>4, <2>6, Fresh
<1> QED BY <1>6, <1>7, <1>8

\* An answer that is lost after ServiceNow issued a token ends the call, or falls
\* back to the full grant.
LEMMA TokenLostKeeps ==
  ASSUME IInv, NEW p \in Procs, TokenLost(p)
  PROVE  IInv'
<1>1. At(p, "token") /\ UNCHANGED <<stored, cached, effects>> /\ gone' = TRUE
  BY DEF TokenLost
<1>2. PICK t \in Tokens, d \in TokenOrNone : Issue(t, call[p].using, d)
  BY DEF TokenLost
<1>3. cached' = [cached EXCEPT ![p] = cached[p]]
  BY <1>1 DEF IInv, TypeOK
<1>4. /\ call[p] \in Call /\ call[p].outcome = "none" /\ call[p].purpose # "none" /\ OAuth
      /\ call[p].purpose = "refresh" => call[p].attempt = 0
  BY <1>1 DEF IInv, TypeOK, Phases, At
<1>5. CASE EndCall(p, "failed")
  <2> DEFINE c == [NoCall EXCEPT !.n = call[p].n, !.outcome = "failed"]
  <2>1. c \in Call
    <3>1. 0 \in TokenOrNone /\ 0 \in 0 .. 1 /\ call[p].n \in 0 .. MaxCalls
      BY <1>4, BoundAssumption DEF Call, TokenOrNone
    <3> QED BY <3>1 DEF Call, NoCall
  <2>2. /\ c.pc = "idle" /\ c.got = 0 /\ c.first = 0 /\ c.using = 0 /\ c.attempt = 0
        /\ c.purpose = "none" /\ c.outcome = "failed"
    BY DEF NoCall
  <2>3. call' = [call EXCEPT ![p] = c]
    BY <1>5 DEF EndCall
  <2> HIDE DEF c
  <2>4. FitsFresh(p, c, cached[p], t)
    BY <1>1, <2>2 DEF FitsFresh
  <2> QED BY <1>1, <1>2, <1>3, <2>1, <2>3, <2>4, Fresh
<1>6. CASE ~CodeGrant /\ call[p].purpose = "refresh" /\ call' = [call EXCEPT ![p].using = 0]
  <2> DEFINE c == [call[p] EXCEPT !.using = 0]
  <2>1. c \in Call
    BY <1>4, BoundAssumption DEF Call, TokenOrNone
  <2>2. /\ c.using = 0 /\ c.pc = "token" /\ c.purpose = "refresh" /\ c.got = call[p].got
        /\ c.first = call[p].first /\ c.outcome = "none" /\ c.attempt = 0
    BY <1>1, <1>4, <1>6 DEF Call, At
  <2>3. call' = [call EXCEPT ![p] = c]
    BY <1>6 DEF IInv, TypeOK
  <2> HIDE DEF c
  <2>4. FitsFresh(p, c, cached[p], t)
    BY <1>1, <1>4, <1>6, <2>2 DEF FitsFresh
  <2> QED BY <1>1, <1>2, <1>3, <2>1, <2>3, <2>4, Fresh
<1> QED BY <1>5, <1>6 DEF TokenLost, AfterRefusal

----------------------------------------------------------------------------
(* Storing a token                                                         *)

\* What p does once its token t is in the keychain and the cache: the request is
\* sent with it, or the call is attempted again.
LEMMA SavedCall ==
  ASSUME IInv, NEW p \in Procs, SaveToken(p)
  PROVE  \E c \in Call :
           /\ call' = [call EXCEPT ![p] = c]
           /\ c.pc \in {"send", "authenticate"} /\ c.purpose = "none" /\ c.outcome = "none"
           /\ c.got = call[p].got /\ c.using = call[p].using
           /\ c.first \in {call[p].first, call[p].got}
           /\ c.attempt = 1 => c.first = call[p].first
           /\ c.pc = "send" => c.token = call[p].got
<1>1. At(p, "save") /\ GotToken(p, call[p].got)
  BY DEF SaveToken
<1>2. /\ call[p] \in Call /\ call[p].outcome = "none" /\ call[p].purpose # "none"
      /\ call[p].purpose = "refresh" => call[p].attempt = 0
  BY <1>1 DEF IInv, TypeOK, Phases, At
<1>3. CASE call[p].purpose = "authenticate"
  <2> DEFINE c == [call[p] EXCEPT !.pc = "send", !.token = call[p].got, !.purpose = "none",
                                 !.first = IF call[p].attempt = 0 THEN call[p].got ELSE @]
  <2>1. c \in Call
    BY <1>2 DEF Call
  <2>2. /\ c.pc = "send" /\ c.token = call[p].got /\ c.got = call[p].got /\ c.using = call[p].using
        /\ c.outcome = "none" /\ c.purpose = "none" /\ c.attempt = call[p].attempt
        /\ c.first = IF call[p].attempt = 0 THEN call[p].got ELSE call[p].first
    BY <1>2 DEF Call
  <2>3. call' = [call EXCEPT ![p] = c]
    BY <1>1, <1>2, <1>3 DEF IInv, TypeOK, GotToken, SendWith, Call
  <2> HIDE DEF c
  <2>4. c.first \in {call[p].first, call[p].got} /\ (c.attempt = 1 => c.first = call[p].first)
    BY <2>2
  <2>5. c.pc \in {"send", "authenticate"}
    BY <2>2
  <2> QED BY <2>1, <2>2, <2>3, <2>4, <2>5
<1>4. CASE call[p].purpose = "refresh"
  <2> DEFINE c == [call[p] EXCEPT !.pc = "authenticate", !.purpose = "none", !.attempt = 1]
  <2>1. c \in Call
    <3>1. 1 \in 0 .. 1
      OBVIOUS
    <3> QED BY <1>2, <3>1 DEF Call
  <2>2. /\ c.pc = "authenticate" /\ c.got = call[p].got /\ c.using = call[p].using
        /\ c.outcome = "none" /\ c.purpose = "none" /\ c.attempt = 1 /\ c.first = call[p].first
    BY <1>2 DEF Call
  <2>3. call' = [call EXCEPT ![p] = c]
    <3>1. call[p].attempt + 1 = 1
      BY <1>2, <1>4
    <3> QED BY <1>1, <1>2, <1>4, <3>1 DEF IInv, TypeOK, GotToken, Call
  <2> HIDE DEF c
  <2> QED BY <2>1, <2>2, <2>3
<1> QED BY <1>2, <1>3, <1>4 DEF Call

\* Storing a token keeps the invariant: nobody else has it, and it comes with the
\* refresh token that ServiceNow accepts.
LEMMA SaveTokenKeeps ==
  ASSUME IInv, NEW p \in Procs, SaveToken(p)
  PROVE  IInv'
<1> DEFINE t == call[p].got
<1>1. PICK c \in Call :
        /\ call' = [call EXCEPT ![p] = c]
        /\ c.pc \in {"send", "authenticate"} /\ c.purpose = "none" /\ c.outcome = "none"
        /\ c.got = t /\ c.using = call[p].using /\ c.first \in {call[p].first, t}
        /\ c.attempt = 1 => c.first = call[p].first
        /\ c.pc = "send" => c.token = t
  BY SavedCall
<1>2. /\ At(p, "save") /\ stored' = t /\ cached' = [cached EXCEPT ![p] = t]
      /\ UNCHANGED <<issued, refreshOf, stale, undated, live, method, answer, effects, gone>>
  BY DEF SaveToken, GotToken, server, history
<1>3. /\ CodeGrant /\ OAuth /\ t # 0 /\ t # stored
      /\ \A q \in Procs : /\ cached[q] # t /\ call[q].first # t
                          /\ At(q, "save") /\ q # p => call[q].got # t
  BY <1>2 DEF IInv, Private, CodeGrant, OAuth
<1>4. t \in TokenOrNone /\ t <= issued
  BY DEF IInv, TypeOK, Call, Known
<1>5. /\ call'[p] = c /\ cached'[p] = t
      /\ \A q \in Procs \ {p} : call'[q] = call[q] /\ cached'[q] = cached[q]
  BY <1>1, <1>2 DEF IInv, TypeOK
<1> HIDE DEF t
<1>6. TypeOK'
  BY <1>1, <1>2, <1>4 DEF IInv, TypeOK
<1>7. Phases'
  <2>1. effects[p] = 0
    BY <1>2 DEF IInv, Phases, At
  <2> QED BY <1>1, <1>2, <1>3, <1>5, <2>1 DEF IInv, Phases, At, OAuth, CodeGrant
<1>8. Known'
  BY <1>1, <1>2, <1>4, <1>5 DEF IInv, Known
<1>9. Private'
  <2>1. SUFFICES ASSUME NEW q \in Procs, At(q, "save")'
        PROVE  /\ call'[q].got # 0 /\ call'[q].got # t
               /\ \A s \in Procs :
                    /\ cached'[s] # call'[q].got /\ call'[s].first # call'[q].got
                    /\ At(s, "save")' /\ s # q => call'[s].got # call'[q].got
                    /\ answer = "rotate" /\ At(s, "token")' => call'[s].using # call'[q].got
    BY <1>2, <1>3 DEF Private, CodeGrant
  <2>2. q # p /\ call'[q] = call[q] /\ At(q, "save") /\ call[q].got # t
    BY <1>1, <1>3, <1>5, <2>1 DEF At
  <2>3. /\ call[q].got # 0
        /\ \A s \in Procs :
             /\ cached[s] # call[q].got /\ call[s].first # call[q].got
             /\ At(s, "save") /\ s # q => call[s].got # call[q].got
             /\ answer = "rotate" /\ At(s, "token") => call[s].using # call[q].got
    BY <2>2 DEF IInv, Private
  <2>4. ASSUME NEW s \in Procs
        PROVE  /\ cached'[s] # call[q].got /\ call'[s].first # call[q].got
               /\ At(s, "save")' /\ s # q => call'[s].got # call[q].got
               /\ answer = "rotate" /\ At(s, "token")' => call'[s].using # call[q].got
    <3>1. CASE s = p
      BY <1>1, <1>5, <2>2, <2>3, <3>1 DEF At
    <3>2. CASE s # p
      BY <1>5, <2>3, <3>2 DEF At
    <3> QED BY <3>1, <3>2
  <2> QED BY <2>2, <2>3, <2>4
<1>10. Replaced'
  <2>1. SUFFICES ASSUME NEW q \in Procs, call'[q].attempt = 1
        PROVE  /\ cached'[q] # call'[q].first /\ t # call'[q].first
               /\ At(q, "send")' => call'[q].token # call'[q].first
    BY <1>2 DEF Replaced
  <2>2. CASE q = p
    BY <1>1, <1>3, <1>5, <2>1, <2>2 DEF At
  <2>3. CASE q # p
    BY <1>3, <1>5, <2>1, <2>3 DEF IInv, Replaced, At
  <2> QED BY <2>2, <2>3
<1>11. Grants'
  BY <1>1, <1>2, <1>5 DEF IInv, Grants, At, CodeGrant
<1>12. EffectAtMostOnce'
  BY <1>1, <1>2, <1>5 DEF IInv, EffectAtMostOnce
<1>13. LiveGrantKept'
  <2>1. ~gone => \A r \in live : refreshOf[t] = r
    BY <1>2, <1>3 DEF IInv, Grants, t
  <2> QED BY <1>2, <1>3, <2>1 DEF LiveGrantKept
<1> QED BY <1>6, <1>7, <1>8, <1>9, <1>10, <1>11, <1>12, <1>13 DEF IInv

----------------------------------------------------------------------------
(* The theorems                                                            *)

\* The passing of time touches nothing the invariant speaks of but its type.
LEMMA ExpireKeeps ==
  ASSUME IInv, Expire
  PROVE  IInv'
<1>1. UNCHANGED <<stored, cached, call, effects, gone, issued, refreshOf, undated, live, method, answer>>
  BY DEF Expire, local, history
<1>2. stale' \in SUBSET Tokens
  <2>1. \A t \in 1 .. issued : t \in Tokens
    BY BoundAssumption DEF IInv, TypeOK, TokenOrNone, Tokens
  <2> QED BY <2>1 DEF Expire, IInv, TypeOK
<1>3. TypeOK'
  BY <1>1, <1>2 DEF IInv, TypeOK
<1> QED
  BY <1>1, <1>3 DEF IInv, Phases, Known, Private, Replaced, Grants, EffectAtMostOnce, LiveGrantKept,
                    At, OAuth, CodeGrant

\* A stuttering step keeps it, too.
LEMMA StutterKeeps ==
  ASSUME IInv, UNCHANGED vars
  PROVE  IInv'
BY DEF IInv, TypeOK, Phases, Known, Private, Replaced, Grants, EffectAtMostOnce, LiveGrantKept,
       At, OAuth, CodeGrant, vars, local, server, history

\* The profile starts with at most one login, and no call.
LEMMA InitIInv == Init => IInv
<1> SUFFICES ASSUME Init PROVE IInv
  OBVIOUS
<1>1. /\ cached = [p \in Procs |-> 0] /\ call = [p \in Procs |-> NoCall]
      /\ effects = [p \in Procs |-> 0] /\ gone = FALSE /\ issued = stored
      /\ stored \in {0, 1} /\ (stored # 0 => CodeGrant)
  BY DEF Init, CodeGrant
<1>2. PICK r \in {0, stored} : refreshOf = [t \in Tokens |-> IF t = stored THEN r ELSE 0]
  BY DEF Init
<1>3. 0 \in TokenOrNone /\ 1 \in TokenOrNone /\ 1 \in Tokens /\ 0 \in 0 .. 1 /\ 0 \in 0 .. 2
      /\ 0 \in 0 .. MaxCalls /\ \A t \in Tokens : t # 0
  BY BoundAssumption DEF TokenOrNone, Tokens
<1>4. NoCall \in Call
  BY <1>3 DEF NoCall, Call
<1>5. /\ NoCall.pc = "idle" /\ NoCall.got = 0 /\ NoCall.first = 0 /\ NoCall.using = 0
      /\ NoCall.attempt = 0 /\ NoCall.purpose = "none" /\ NoCall.outcome = "none"
  BY DEF NoCall
<1>6. live \subseteq {stored} \ {0} /\ \A x \in live : x = refreshOf[stored]
  BY <1>1, <1>2, <1>3 DEF Init
<1>7. TypeOK
  <2>1. stale \in SUBSET Tokens /\ undated \in SUBSET Tokens
    BY <1>1, <1>3 DEF Init
  <2>2. refreshOf \in [Tokens -> TokenOrNone]
    BY <1>1, <1>2, <1>3
  <2>3. live \in SUBSET Tokens
    BY <1>1, <1>3, <1>6
  <2>4. method \in Methods /\ answer \in Answers
    BY DEF Init
  <2> QED BY <1>1, <1>3, <1>4, <2>1, <2>2, <2>3, <2>4 DEF TypeOK
<1>8. Phases /\ Private /\ Replaced /\ EffectAtMostOnce
  BY <1>1, <1>5 DEF Phases, Private, Replaced, EffectAtMostOnce, At
<1>9. Known
  <2>1. stored <= stored /\ 0 <= stored
    BY <1>1
  <2> QED BY <1>1, <1>2, <1>5, <2>1 DEF Known
<1>10. Grants
  <2>1. \A t \in Tokens : refreshOf[t] \in {0, t}
    BY <1>2
  <2> QED BY <1>1, <1>5, <1>6, <2>1 DEF Grants, At
<1>11. LiveGrantKept
  BY <1>6 DEF LiveGrantKept
<1> QED BY <1>7, <1>8, <1>9, <1>10, <1>11 DEF IInv

\* Every step keeps the invariant.
LEMMA NextKeeps == IInv /\ [Next]_vars => IInv'
<1> SUFFICES ASSUME IInv, [Next]_vars PROVE IInv'
  OBVIOUS
<1>1. ASSUME NEW p \in Procs, BeginCall(p) \/ Step(p) \/ Exit(p) PROVE IInv'
  BY <1>1, BeginCallKeeps, AuthenticateKeeps, RefreshKeeps, TokenIssuedKeeps, TokenRefusedKeeps,
     TokenLostKeeps, SaveTokenKeeps, SendKeeps, LossKeeps DEF Step
<1> QED BY <1>1, ExpireKeeps, StutterKeeps DEF Next

\* The invariant holds in every state the program can reach.
THEOREM Invariance == Spec => []IInv
BY InitIInv, NextKeeps, PTL DEF Spec

\* The state of the calls, the caches, the keychain and the instance has its type.
THEOREM TypeCorrect == Spec => []TypeOK
<1>1. IInv => TypeOK
  BY DEF IInv
<1> QED BY <1>1, Invariance, PTL

\* Whatever is retried, ServiceNow carries out a call at most once, and exactly
\* once if the command reports success (request_inner).
THEOREM EffectOnce == Spec => []EffectAtMostOnce
<1>1. IInv => EffectAtMostOnce
  BY DEF IInv
<1> QED BY <1>1, Invariance, PTL

\* A request answered 401 is never sent again with the token that was refused
\* (request_inner, refresh).
THEOREM RetriedWithNewToken == Spec => []RetryWithNewToken
<1>1. IInv => RetryWithNewToken
  BY DEF IInv, Replaced, RetryWithNewToken
<1> QED BY <1>1, Invariance, PTL

\* The refresh token that ServiceNow accepts is in the keychain or on its way
\* there, however many processes refresh at once, as long as no answer and no
\* write of the keychain is lost (refresh_authorization_code, store_oauth_token).
THEOREM LoginKept == Spec => []LiveGrantKept
<1>1. IInv => LiveGrantKept
  BY DEF IInv
<1> QED BY <1>1, Invariance, PTL
=============================================================================
