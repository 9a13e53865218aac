---------------------------- MODULE NativeSession ----------------------------
(***************************************************************************)
(* Cookie sessions of the native UI: client/native_session.rs,              *)
(* client/session.rs and auth/native_session.rs, as the commands of         *)
(* cli/commands/session.rs and the form commands use them.  Every response  *)
(* may rotate the session cookie; a command loads the stored session once   *)
(* and saves its own copy back whenever a response changed it.              *)
(*                                                                         *)
(* A cookie jar is told apart only by its session cookie: 0 is no cookie,   *)
(* Guest the cookie of an unauthenticated visitor, the others are numbered  *)
(* as they are issued.  The CSRF token is abstracted to whether a page      *)
(* brought a new one.  One picker (update set, application or domain) is    *)
(* modelled; pickers show it in every session of the user.                  *)
(***************************************************************************)
EXTENDS Naturals, Sequences

CONSTANTS
  Procs,        \* snow-cli processes that use the same session profile
  Ids,          \* contexts a picker can select
  ScopeName,    \* the scope name of each context, when it is an application
  None,         \* no context
  Operations,   \* commands the processes run
  MaxCookies,   \* bound: session cookies issued
  MaxCommands   \* bound: commands of one process

AllOperations == {"show", "options", "switch", "form", "basic", "login", "attach", "forget"}
ASSUME OperationAssumption == Operations \subseteq AllOperations
ASSUME NoneAssumption == None \notin Ids
ASSUME NativeBounds == MaxCookies \in Nat \ {0} /\ MaxCommands \in Nat

VARIABLES
  stored,     \* the keychain's native session
  live,       \* session cookies ServiceNow accepts
  issued,     \* session cookies issued
  ctx,        \* the context current in the user's sessions
  cmd,        \* the command of each process
  since,      \* contexts seen by ServiceNow since the command began or, once
              \* it has sent its PUT, since then (history)
  disturbed   \* two commands used a session at once, a session ended, or an answer or a
              \* keychain write was lost (history)

vars == <<stored, live, issued, ctx, cmd, since, disturbed>>

Guest == MaxCookies + 1
Jar == 0 .. Guest
Names == {ScopeName[i] : i \in Ids}
Request == {"login", "bootstrap", "user", "pickers", "home", "options", "put", "form", "form_cookie",
            "submit", "persist"}
Outcome == {"none", "ok", "switched", "current", "refused", "uncertain"}

Command == [op : AllOperations \cup {"none"},
            todo : Seq(Request),               \* requests still to make
            jar : Jar,                         \* NativeSessionAuth::session
            application : BOOLEAN,             \* switches the application picker
            target : Ids \cup Names \cup {None},
            before : Ids \cup {None},          \* context of the first inspection
            selected : Ids \cup {None},        \* the candidate the switch selects
            puts : 0 .. 2,                     \* PUTs sent
            n : 0 .. MaxCommands,
            outcome : Outcome]
NoCommand == [op |-> "none", todo |-> <<>>, jar |-> 0, application |-> FALSE, target |-> None,
              before |-> None, selected |-> None, puts |-> 0, n |-> 0, outcome |-> "none"]

TypeOK ==
  /\ stored \in Jar /\ live \subseteq 1 .. MaxCookies /\ issued \in 0 .. MaxCookies
  /\ ctx \in Ids /\ cmd \in [Procs -> Command]
  /\ since \in [Procs -> SUBSET Ids] /\ disturbed \in BOOLEAN

\* A session may have been stored by an earlier login.
Init ==
  /\ issued \in {0, 1} /\ stored = issued /\ live = {stored} \ {0}
  /\ ctx \in Ids /\ cmd = [p \in Procs |-> NoCommand]
  /\ since = [p \in Procs |-> {}] /\ disturbed = FALSE

Running(p) == cmd[p].todo # <<>>
Next_(p) == Head(cmd[p].todo)
ProfileBound(p) == cmd[p].op \in {"show", "options", "switch", "form"}

----------------------------------------------------------------------------
(* The requests of a command.                                              *)

Inspection == <<"bootstrap", "user", "pickers", "home">>

Plan(op) == CASE op = "show"    -> Inspection
              [] op = "options" -> <<"bootstrap", "options">>
              [] op = "switch"  -> Inspection \o <<"bootstrap", "options">>
              [] op = "form"    -> <<"form", "submit">>
              [] op = "basic"   -> <<"form", "submit">>
              [] op = "login"   -> <<"login", "bootstrap", "user", "persist">>
              [] op = "attach"  -> Inspection \o <<"persist">>
              [] op = "forget"  -> <<"persist">>

\* What follows the selection: one PUT and the inspection that verifies it.
SwitchPlan == <<"put">> \o Inspection

\* The session a command starts from.  NativeSessionAuth::stored refuses a
\* profile without one; attach is given a browser's cookie, right or wrong.
FirstJar(op) == CASE op \in {"show", "options", "switch", "form"} -> {stored} \ {0}
                  [] op = "attach" -> live \cup {Guest}
                  [] OTHER -> {0}

Begin(p) ==
  /\ ~Running(p) /\ cmd[p].n < MaxCommands
  /\ \E op \in Operations : \E jar \in FirstJar(op) :
     \E application \in BOOLEAN, target \in Ids \cup Names :
       /\ op # "switch" => target = CHOOSE i \in Ids : TRUE
       /\ op # "switch" => ~application
       /\ cmd' = [cmd EXCEPT ![p] = [NoCommand EXCEPT !.op = op, !.todo = Plan(op), !.jar = jar,
                                       !.application = application, !.target = target,
                                       !.n = cmd[p].n + 1]]
       /\ disturbed' = (disturbed \/ (\E q \in Procs : Running(q)) \/ (op = "attach" /\ jar = stored))
  /\ since' = [since EXCEPT ![p] = {ctx}]
  /\ UNCHANGED <<stored, live, issued, ctx>>

----------------------------------------------------------------------------
(* One response.                                                           *)

\* ServiceNow keeps the session cookie, or rotates it and ends the old one.
Rotated(p) == {cmd[p].jar} \cup (IF issued < MaxCookies THEN {issued + 1} ELSE {})

Accept(p, jar) ==
  IF jar = cmd[p].jar THEN UNCHANGED <<live, issued>>
  ELSE live' = (live \ {cmd[p].jar}) \cup {jar} /\ issued' = jar

\* observe_response_headers and update_native_csrf: the copy of a stored
\* session is saved whole when the response changed it.
BadObserve(p, jar, newToken) ==  \* mutant: only a new token is saved
  stored' = IF ProfileBound(p) /\ newToken THEN jar ELSE stored
Observe(p, jar, newToken) ==
  stored' = IF ProfileBound(p) /\ (jar # cmd[p].jar \/ newToken) THEN jar ELSE stored

Authenticated(p) == cmd[p].jar \in live

Continue(p, jar, todo) == cmd' = [cmd EXCEPT ![p].jar = jar, ![p].todo = todo]
End(p, jar, outcome) ==
  cmd' = [cmd EXCEPT ![p].jar = jar, ![p].todo = <<>>, ![p].outcome = outcome]

\* An error before the PUT is an ordinary one, whatever it is; the PUT's own and
\* every later one says that the session state is uncertain.
BadFailed(p) == "failed"  \* mutant: an outcome of no kind
Failed(p) == IF cmd[p].puts > 0 \/ Next_(p) = "put" THEN "uncertain" ELSE "refused"

Advance(p, jar) ==
  IF Len(cmd[p].todo) = 1 THEN End(p, jar, "ok") ELSE Continue(p, jar, Tail(cmd[p].todo))

----------------------------------------------------------------------------
(* The answers of a session that ServiceNow accepts.                       *)

\* refresh_native_csrf, bootstrap_form_session, native_current_user: what
\* the page says is checked (a redirect to login or to another origin, a
\* missing token, another user, a changed identity), then the next request.
PageAnswered(p, jar) ==
  /\ Next_(p) \in {"bootstrap", "user", "form", "form_cookie", "submit"}
  /\ Advance(p, jar) \/ End(p, jar, Failed(p))

\* The pickers: the switch needs all three contexts, and the ones read after
\* the PUT have to be the selected ones.
BadVerified(p, seen) == seen # None  \* mutant: a complete context is enough
Verified(p, seen) == seen = cmd[p].selected

PickersAnswered(p, jar) ==
  /\ Next_(p) = "pickers"
  /\ \/ End(p, jar, Failed(p))
     \/ /\ cmd[p].op # "switch" /\ Advance(p, jar)
     \/ \E seen \in {ctx, None} :
          /\ cmd[p].op = "switch"
          /\ IF cmd[p].puts = 0
             THEN cmd' = [cmd EXCEPT ![p].jar = jar, ![p].before = seen,
                                     ![p].todo = Tail(cmd[p].todo)]
             ELSE cmd' = [cmd EXCEPT ![p].jar = jar, ![p].todo = Tail(cmd[p].todo),
                                     ![p].outcome = IF Verified(p, seen) THEN "switched" ELSE "uncertain"]

\* The home domain is read last; only when it is forbidden or absent (403,
\* 404) is it merely unavailable.  Then has_complete_context is asked.
HomeAnswered(p, jar) ==
  /\ Next_(p) = "home"
  /\ \/ /\ cmd[p].op # "switch" \/ (cmd[p].puts = 0 /\ cmd[p].before # None)
        /\ Advance(p, jar)
     \/ cmd[p].op = "switch" /\ cmd[p].puts = 0 /\ cmd[p].before = None /\ End(p, jar, "refused")
     \/ cmd[p].puts > 0 /\ End(p, jar, cmd[p].outcome)
     \/ End(p, jar, Failed(p))

\* native_session_options, and for a switch the choice of the one candidate: by
\* id, or an application by its scope name.  The current one needs no PUT.
Candidates(p, options) ==
  {o \in options : o = cmd[p].target \/ (cmd[p].application /\ ScopeName[o] = cmd[p].target)}

Choose(p, jar, options) ==
  \/ /\ \A i \in Ids : Candidates(p, options) # {i}
     /\ End(p, jar, "refused")
  \/ \E i \in Ids :
       /\ Candidates(p, options) = {i}
       /\ cmd' = [cmd EXCEPT ![p].jar = jar, ![p].selected = i,
                             ![p].todo = IF cmd[p].before = i THEN <<>> ELSE SwitchPlan,
                             ![p].outcome = IF cmd[p].before = i THEN "current" ELSE "none"]

OptionsAnswered(p, jar) ==
  /\ Next_(p) = "options"
  /\ \/ End(p, jar, Failed(p))
     \/ cmd[p].op = "options" /\ Advance(p, jar)
     \/ \E options \in SUBSET Ids : cmd[p].op = "switch" /\ Choose(p, jar, options)

Answered(p) ==
  /\ Running(p) /\ Authenticated(p)
  /\ \E jar \in Rotated(p), newToken \in BOOLEAN :
       /\ newToken => Next_(p) \in {"bootstrap", "form"}
       /\ Accept(p, jar) /\ Observe(p, jar, newToken)
       /\ PageAnswered(p, jar) \/ PickersAnswered(p, jar) \/ HomeAnswered(p, jar) \/ OptionsAnswered(p, jar)
  /\ UNCHANGED <<ctx, since, disturbed>>

\* ServiceNow moves to another context: every process that runs sees it.
Move(c) == ctx' = c /\ since' = [q \in Procs |-> since[q] \cup {c}]

\* The PUT, sent once: some versions answer it without doing anything.
PutAnswered(p) ==
  /\ Running(p) /\ Authenticated(p) /\ Next_(p) = "put"
  /\ \E jar \in Rotated(p), c \in {ctx, cmd[p].selected} :
       /\ Accept(p, jar) /\ Observe(p, jar, FALSE)
       /\ ctx' = c
       /\ since' = [q \in Procs |-> IF q = p THEN {c} ELSE since[q] \cup {c}]
       /\ \/ cmd' = [cmd EXCEPT ![p].jar = jar, ![p].puts = @ + 1, ![p].todo = Tail(cmd[p].todo)]
          \/ cmd' = [cmd EXCEPT ![p].jar = jar, ![p].puts = @ + 1, ![p].todo = <<>>,
                                ![p].outcome = "uncertain"]
  /\ UNCHANGED disturbed

----------------------------------------------------------------------------
(* The other ways a request ends.                                          *)

\* The session is not accepted: x-is-logged-in is false, the page redirects to
\* login, or the API answers 401.  The cookies are observed before that is
\* looked at, so a guest's cookies replace the stored ones.
GuestCookies(p) == {cmd[p].jar, Guest, 0}

Refused(p) ==
  /\ Running(p) /\ ~Authenticated(p) /\ Next_(p) \notin {"login", "persist"}
  /\ ~(cmd[p].op = "basic" /\ Next_(p) = "form")
  /\ \E jar \in GuestCookies(p) : Observe(p, jar, FALSE) /\ End(p, jar, Failed(p))
  /\ UNCHANGED <<live, issued, ctx, since, disturbed>>

\* The answer, or the keychain write it calls for, is lost: ServiceNow may
\* have rotated the cookie, and switched the context.
AnswerLost(p) ==
  /\ Running(p) /\ Authenticated(p) /\ Next_(p) # "persist"
  /\ \E jar \in Rotated(p) : Accept(p, jar)
  /\ Move(IF Next_(p) = "put" THEN cmd[p].selected ELSE ctx) \/ UNCHANGED <<ctx, since>>
  /\ cmd' = [cmd EXCEPT ![p].todo = <<>>, ![p].outcome = Failed(p),
                        ![p].puts = IF Next_(p) = "put" THEN @ + 1 ELSE @]
  /\ disturbed' = TRUE /\ UNCHANGED stored

\* A Basic profile's form session: the page may come logged in, with a session of
\* its own, or else login.do opens one and the page is read again.
BasicForm(p) ==
  /\ Running(p) /\ cmd[p].op = "basic" /\ Next_(p) = "form"
  /\ \/ /\ issued < MaxCookies /\ issued' = issued + 1 /\ live' = live \cup {issued'}
        /\ Continue(p, issued', Tail(cmd[p].todo))
     \/ Continue(p, 0, <<"login", "form_cookie", "submit">>) /\ UNCHANGED <<live, issued>>
     \/ End(p, 0, "refused") /\ UNCHANGED <<live, issued>>
  /\ UNCHANGED <<stored, ctx, since, disturbed>>

\* form_login_cookie_header: login.do and its redirects open a session; with a
\* wrong password the cookies are a guest's.
FormLogin(p) ==
  /\ Running(p) /\ Next_(p) = "login"
  /\ \/ /\ issued < MaxCookies /\ issued' = issued + 1 /\ live' = live \cup {issued'}
        /\ Continue(p, issued', Tail(cmd[p].todo))
     \/ Continue(p, Guest, Tail(cmd[p].todo)) /\ UNCHANGED <<live, issued>>
     \/ End(p, 0, "refused") /\ UNCHANGED <<live, issued>>
  /\ UNCHANGED <<stored, ctx, since, disturbed>>

\* persist() stores the credentials as the client last saw them, forget removes
\* the stored ones.  Neither tells ServiceNow.
Persisted(p) == IF cmd[p].op = "forget" THEN 0 ELSE cmd[p].jar

Persist(p) ==
  /\ Running(p) /\ Next_(p) = "persist"
  /\ \/ stored' = Persisted(p) /\ End(p, cmd[p].jar, "ok")
     \/ stored' = stored /\ End(p, cmd[p].jar, "refused")
  /\ UNCHANGED <<live, issued, ctx, since, disturbed>>

Kill(p) ==
  /\ Running(p)
  /\ cmd' = [cmd EXCEPT ![p].todo = <<>>, ![p].outcome = "none"]
  /\ disturbed' = TRUE
  /\ UNCHANGED <<stored, live, issued, ctx, since>>

----------------------------------------------------------------------------
(* ServiceNow and the user's browser.                                      *)

SessionEnds == \E c \in live : live' = live \ {c} /\ disturbed' = TRUE
                               /\ UNCHANGED <<stored, issued, ctx, cmd, since>>
BrowserLogsIn == /\ issued < MaxCookies /\ issued' = issued + 1 /\ live' = live \cup {issued'}
                 /\ UNCHANGED <<stored, ctx, cmd, since, disturbed>>
BrowserSwitches == \E c \in Ids \ {ctx} : Move(c) /\ UNCHANGED <<stored, live, issued, cmd, disturbed>>

Next ==
  \/ \E p \in Procs :
       \/ Begin(p) \/ Answered(p) \/ PutAnswered(p) \/ Refused(p) \/ AnswerLost(p)
       \/ BasicForm(p) \/ FormLogin(p) \/ Persist(p) \/ Kill(p)
  \/ SessionEnds \/ BrowserLogsIn \/ BrowserSwitches

Spec == Init /\ [][Next]_vars

----------------------------------------------------------------------------
(* Properties.                                                             *)

\* What `session switch` reports is so: "switched" after exactly one PUT and a
\* context that held after it, "already current" without a PUT and for a context that
\* held during the command, an ordinary error only when no PUT was sent; and
\* a PUT is never repeated (NativeSessionSwitchError, "no automatic retry").
HonestSwitch ==
  \A p \in Procs : LET c == cmd[p] IN
    /\ c.puts <= 1
    /\ c.todo = <<>> =>
         CASE c.outcome = "switched" -> c.puts = 1 /\ c.selected \in since[p]
           [] c.outcome = "current"  -> c.puts = 0 /\ c.selected \in since[p]
           [] c.outcome = "refused"  -> c.puts = 0
           [] OTHER -> TRUE

\* Rotation loses no session: as long as commands do not overlap, no answer is lost
\* and ServiceNow ends no session, the stored cookie is one it accepts
\* (observe_response_headers at every response, persist after the last one).
SessionKept == ~disturbed /\ stored # 0 => stored \in live

=============================================================================
