----------------------------- MODULE SnuSessions -----------------------------
(***************************************************************************)
(* The broker's cache of browser sessions (src/snu/broker.rs): what the     *)
(* requests of its clients, the task that drains pushed /token messages and *)
(* a restart do to the sessions in memory, their freshness bookkeeping and  *)
(* the copy on disk.                                                        *)
(*                                                                         *)
(* A session is an origin and the number of its g_ck token; 0 stands for    *)
(* none.  ServiceNow accepts the newest token of an origin only.  A step is *)
(* the code between two awaits, or one file operation of a snapshot's write *)
(* (writers run on several threads and share one temporary file).  Which    *)
(* connection carries a request, and gates, are SnuBridge's and SnuGates'.  *)
(***************************************************************************)
EXTENDS Naturals, Sequences

CONSTANTS
  Origins,      \* ServiceNow instances
  Clients,      \* snow-cli commands talking to the broker
  Requests,     \* the requests they make (see RequestKind)
  MaxToken,     \* bound: tokens ServiceNow issues per origin
  MaxPushes,    \* bound: /token messages
  MaxRequests,  \* bound: requests per client
  MaxBoots      \* bound: broker processes, one after the other

RequestKind == {"wait", "freshWait", "action", "refresh", "verify", "clear"}
NoOrigin == "none"
ASSUME RequestAssumption == Requests \subseteq RequestKind
ASSUME OriginAssumption == NoOrigin \notin Origins
ASSUME BoundAssumption ==
  /\ MaxToken \in Nat /\ MaxPushes \in Nat /\ MaxRequests \in Nat /\ MaxBoots \in Nat \ {0}

VARIABLES
  session,   \* BrokerState::sessions_by_origin
  meta,      \* BrokerState::meta_by_origin; an absent entry is its default
  latest,    \* BrokerState::latest_origin
  queue,     \* sessions_rx: pushed sessions not yet drained
  persist,   \* the snapshot each task is writing
  disk, tmp, \* the cache file and its temporary file
  client,    \* the clients and their current request
  browser,   \* the newest token of each origin, the only one accepted
  pushes,    \* /token messages so far (bounds the model)
  boots,     \* broker processes started so far
  proven     \* <<origin, token>> accepted by ServiceNow since the broker
             \* started, for an action or a probe of this broker (history)

memory == <<session, meta, latest>>
files == <<disk, tmp>>
vars == <<memory, queue, persist, files, client, browser, pushes, boots, proven>>

SessionTask == "sessionTask"
Procs == Clients \cup {SessionTask}
Token == 0 .. MaxToken
OriginOrNone == Origins \cup {NoOrigin}

Meta == [captured : BOOLEAN, verified : BOOLEAN]
NoMeta == [captured |-> FALSE, verified |-> FALSE]

Snapshot == [session : [Origins -> Token], latest : OriginOrNone]
NoSessions == [o \in Origins |-> 0]
NoSnapshot == [session |-> NoSessions, latest |-> NoOrigin]
Memory == [session |-> session, latest |-> latest]

\* An empty file was truncated for writing; a mixed one holds parts of two
\* snapshots.
File == [state : {"none", "empty", "mixed", "whole"}, snap : Snapshot]
NoFile == [state |-> "none", snap |-> NoSnapshot]
EmptyFile == [state |-> "empty", snap |-> NoSnapshot]
MixedFile == [state |-> "mixed", snap |-> NoSnapshot]
WholeFile(snap) == [state |-> "whole", snap |-> snap]

\* target is the name under which the file opened for writing is now found.
Persisting == [pc : {"idle", "snapshot", "open", "fill", "rename"},
               snap : Snapshot, target : {"none", "tmp", "disk", "gone"}]
NotPersisting == [pc |-> "idle", snap |-> NoSnapshot, target |-> "none"]

ClientPC == {"idle", "register", "await", "remember", "persist", "send", "probe", "evict", "mark"}
Client == [pc : ClientPC, request : RequestKind, n : 0 .. MaxRequests,
           filter : OriginOrNone,      \* the origin asked for, if any
           origin : OriginOrNone,      \* the session the request works with
           token : Token,
           again : BOOLEAN]            \* the action is being retried
IdleClient == [pc |-> "idle", request |-> "wait", n |-> 0, filter |-> NoOrigin,
               origin |-> NoOrigin, token |-> 0, again |-> FALSE]

TypeOK ==
  /\ session \in [Origins -> Token] /\ meta \in [Origins -> Meta]
  /\ latest \in OriginOrNone
  /\ queue \in Seq([origin : Origins, token : 1 .. MaxToken])
  /\ persist \in [Procs -> Persisting]
  /\ disk \in File /\ tmp \in File
  /\ client \in [Clients -> Client]
  /\ browser \in [Origins -> Token] /\ pushes \in 0 .. MaxPushes
  /\ boots \in 1 .. MaxBoots /\ proven \in SUBSET (Origins \X (1 .. MaxToken))

Init ==
  /\ session = NoSessions /\ meta = [o \in Origins |-> NoMeta] /\ latest = NoOrigin
  /\ queue = <<>> /\ persist = [p \in Procs |-> NotPersisting]
  /\ disk = NoFile /\ tmp = NoFile
  /\ client = [c \in Clients |-> IdleClient]
  /\ browser = [o \in Origins |-> 0] /\ pushes = 0 /\ boots = 1 /\ proven = {}

----------------------------------------------------------------------------
(* BrokerState                                                             *)

Cached == {o \in Origins : session[o] # 0}

BadRememberSession(o, token) ==   \* every remembering resets the clock
  /\ meta' = [meta EXCEPT ![o] = [captured |-> TRUE, verified |-> FALSE]]
  /\ session' = [session EXCEPT ![o] = token]
  /\ latest' = o

\* remember_session: only a changed token resets the freshness clock.
RememberSession(o, token) ==
  /\ meta' = IF session[o] = token THEN meta
             ELSE [meta EXCEPT ![o] = [captured |-> TRUE, verified |-> FALSE]]
  /\ session' = [session EXCEPT ![o] = token]
  /\ latest' = o

\* mark_verified
MarkVerified(o) ==
  /\ meta' = IF o \in Cached THEN [meta EXCEPT ![o].verified = TRUE] ELSE meta
  /\ UNCHANGED <<session, latest>>

BadClearSessions(O) ==   \* latest is left pointing at a dropped session
  /\ session' = [o \in Origins |-> IF o \in O THEN 0 ELSE session[o]]
  /\ meta' = [o \in Origins |-> IF o \in O THEN NoMeta ELSE meta[o]]
  /\ UNCHANGED latest

\* clear_origin and clear_all: drop the sessions of O; latest moves to any
\* session that is left.
ClearSessions(O) ==
  /\ session' = [o \in Origins |-> IF o \in O THEN 0 ELSE session[o]]
  /\ meta' = [o \in Origins |-> IF o \in O THEN NoMeta ELSE meta[o]]
  /\ LET left == Cached \ O
     IN  IF latest \notin O THEN UNCHANGED latest
         ELSE IF left = {} THEN latest' = NoOrigin ELSE latest' \in left

BadFound(filter) ==   \* not limited to cached origins
  IF filter = NoOrigin THEN {latest} \ {NoOrigin} ELSE {filter}
\* latest_session or session_for_origin: the cached origin a request finds.
Found(filter) == IF filter = NoOrigin THEN Cached \cap {latest} ELSE Cached \cap {filter}
Selected(filter) == IF filter = NoOrigin THEN Origins ELSE {filter}

----------------------------------------------------------------------------
(* persist_broker_sessions and write_session_cache, by task p.              *)

StartPersist(p) == persist' = [persist EXCEPT ![p].pc = "snapshot"]
EndPersist(p) == persist' = [persist EXCEPT ![p] = NotPersisting]

TakeSnapshot(p) ==
  /\ persist[p].pc = "snapshot"
  /\ persist' = [persist EXCEPT ![p].pc = "open", ![p].snap = Memory]
  /\ UNCHANGED <<memory, queue, files, client, browser, pushes, boots, proven>>

\* Task p is done, having renamed files that other writers have open.
Retargeted(p, name) ==
  [q \in Procs |->
     IF q = p THEN NotPersisting
     ELSE IF persist[q].target \in DOMAIN name
     THEN [persist[q] EXCEPT !.target = name[persist[q].target]] ELSE persist[q]]

\* An empty snapshot removes the cache file.
RemoveFile(p) ==
  /\ persist[p].pc = "open" /\ persist[p].snap.session = NoSessions
  /\ disk' = NoFile
  /\ persist' = Retargeted(p, [disk |-> "gone", tmp |-> "tmp"])
  /\ UNCHANGED <<memory, queue, tmp, client, browser, pushes, boots, proven>>

\* write_private: open with truncate, then write.
OpenTmp(p) ==
  /\ persist[p].pc = "open" /\ persist[p].snap.session # NoSessions
  /\ tmp' = EmptyFile
  /\ persist' = [persist EXCEPT ![p].pc = "fill", ![p].target = "tmp"]
  /\ UNCHANGED <<memory, queue, disk, client, browser, pushes, boots, proven>>

\* Writing from the start of a file that another writer filled since it was
\* truncated leaves the end of a longer snapshot in place.
Written(file, snap) ==
  IF file.state = "empty" \/ file = WholeFile(snap) THEN {WholeFile(snap)}
  ELSE {WholeFile(snap), MixedFile}

FillTmp(p) ==
  /\ persist[p].pc = "fill"
  /\ tmp' \in IF persist[p].target = "tmp" THEN Written(tmp, persist[p].snap) ELSE {tmp}
  /\ disk' \in IF persist[p].target = "disk" THEN Written(disk, persist[p].snap) ELSE {disk}
  /\ persist' = [persist EXCEPT ![p].pc = "rename", ![p].target = "none"]
  /\ UNCHANGED <<memory, queue, client, browser, pushes, boots, proven>>

\* rename(2) onto the cache file; it fails, unnoticed, if another writer's
\* rename took the temporary file.
RenameTmp(p) ==
  /\ persist[p].pc = "rename"
  /\ \/ /\ tmp # NoFile
        /\ disk' = tmp /\ tmp' = NoFile
        /\ persist' = Retargeted(p, [disk |-> "gone", tmp |-> "disk"])
     \/ /\ tmp = NoFile
        /\ EndPersist(p)
        /\ UNCHANGED files
  /\ UNCHANGED <<memory, queue, client, browser, pushes, boots, proven>>

Persist(p) == TakeSnapshot(p) \/ RemoveFile(p) \/ OpenTmp(p) \/ FillTmp(p) \/ RenameTmp(p)

----------------------------------------------------------------------------
(* The session task: cache every session the helper socket carries.         *)

SessionTaskRemembers ==
  /\ queue # <<>> /\ persist[SessionTask].pc = "idle"
  /\ RememberSession(Head(queue).origin, Head(queue).token)
  /\ queue' = Tail(queue)
  /\ StartPersist(SessionTask)
  /\ UNCHANGED <<files, client, browser, pushes, boots, proven>>

----------------------------------------------------------------------------
(* The client requests (dispatch).                                          *)

other == <<queue, files, browser, pushes, boots>>   \* no client step changes these

Go(c, pc) == client' = [client EXCEPT ![c].pc = pc]

\* Start a request on the session <<o, token>>, or on none yet (0).
Begin(c, request, pc, filter, o, token) ==
  /\ client[c].pc = "idle" /\ client[c].n < MaxRequests /\ request \in Requests
  /\ client' = [client EXCEPT ![c] = [pc |-> pc, request |-> request, n |-> client[c].n + 1,
                  filter |-> filter, origin |-> o, token |-> token, again |-> FALSE]]

\* WaitSession: a cached session is served, and remembered again.
WaitFindsCached(c) ==
  /\ \E filter \in OriginOrNone : \E o \in Found(filter) :
       Begin(c, "wait", "remember", filter, o, session[o])
  /\ UNCHANGED <<other, memory, persist, proven>>

WaitFindsNone(c) ==
  /\ \E filter \in OriginOrNone :
       /\ Found(filter) = {}
       /\ Begin(c, "wait", "register", filter, NoOrigin, 0)
  /\ UNCHANGED <<other, memory, persist, proven>>

WaitFresh(c) ==
  /\ \E filter \in OriginOrNone : Begin(c, "freshWait", "register", filter, NoOrigin, 0)
  /\ UNCHANGED <<other, memory, persist, proven>>

\* RefreshSession: refresh_session for one origin or for all.
Refresh(c) ==
  /\ \E filter \in OriginOrNone :
       Begin(c, "refresh", "register", filter, NoOrigin, 0) /\ ClearSessions(Selected(filter))
  /\ UNCHANGED <<other, persist, proven>>

\* VerifySession probes the cached session.
Verify(c) ==
  /\ \E filter \in OriginOrNone : \E o \in Found(filter) :
       Begin(c, "verify", "probe", filter, o, session[o])
  /\ UNCHANGED <<other, memory, persist, proven>>

Clear(c) ==
  /\ \E filter \in OriginOrNone :
       Begin(c, "clear", "persist", filter, NoOrigin, 0) /\ ClearSessions(Selected(filter))
  /\ StartPersist(c)
  /\ UNCHANGED <<other, proven>>

\* SendAction, with the session an earlier request of this client returned; a
\* legacy action takes the cached one of that origin if there is one.
Action(c) ==
  /\ client[c].token # 0 /\ client[c].request # "verify"
  /\ \E token \in {client[c].token} \cup ({session[client[c].origin]} \ {0}) :
       Begin(c, "action", "send", client[c].origin, client[c].origin, token)
  /\ UNCHANGED <<other, memory, persist, proven>>

\* wait_for_session registers its waiter; what was pushed before is missed.
Register(c) ==
  /\ client[c].pc = "register"
  /\ Go(c, "await")
  /\ UNCHANGED <<other, memory, persist, proven>>

\* The token wait runs into its timeout, or no tab is connected.
AwaitFails(c) ==
  /\ client[c].pc = "await"
  /\ Go(c, "idle")
  /\ UNCHANGED <<other, memory, persist, proven>>

Remember(c) ==
  /\ client[c].pc = "remember"
  /\ RememberSession(client[c].origin, client[c].token)
  /\ StartPersist(c) /\ Go(c, "persist")
  /\ UNCHANGED <<other, proven>>

\* The snapshot is written; an action is now sent again with the new token.
Persisted(c) ==
  /\ client[c].pc = "persist" /\ persist[c].pc = "idle"
  /\ IF client[c].request = "action"
     THEN client' = [client EXCEPT ![c].pc = "send", ![c].again = TRUE]
     ELSE Go(c, "idle")
  /\ UNCHANGED <<other, memory, persist, proven>>

IsAccepted(c) == client[c].token = browser[client[c].origin]
Prove(c) == proven' = proven \cup {<<client[c].origin, client[c].token>>}

ActionSucceeds(c) ==
  /\ client[c].pc = "send" /\ IsAccepted(c)
  /\ Prove(c) /\ Go(c, "mark")
  /\ UNCHANGED <<other, memory, persist>>

\* 401, or a 403 that is a matter of permissions: probe before refreshing.
ActionRejected(c) ==
  /\ client[c].pc = "send" /\ ~client[c].again
  /\ Go(c, "probe")
  /\ UNCHANGED <<other, memory, persist, proven>>

\* A transient helper error: once more.
ActionTransient(c) ==
  /\ client[c].pc = "send" /\ ~client[c].again
  /\ client' = [client EXCEPT ![c].again = TRUE]
  /\ UNCHANGED <<other, memory, persist, proven>>

\* The helper is gone, or the retry failed too.
ActionFails(c) ==
  /\ client[c].pc = "send"
  /\ Go(c, "idle")
  /\ UNCHANGED <<other, memory, persist, proven>>

\* probe_session: the token is accepted, rejected, or the probe did not run.
ProbeSucceeds(c) ==
  /\ client[c].pc = "probe" /\ IsAccepted(c)
  /\ Prove(c) /\ Go(c, IF client[c].request = "verify" THEN "mark" ELSE "idle")
  /\ UNCHANGED <<other, memory, persist>>

ProbeRejected(c) ==
  /\ client[c].pc = "probe" /\ ~IsAccepted(c)
  /\ Go(c, IF client[c].request = "verify" THEN "idle" ELSE "evict")
  /\ UNCHANGED <<other, memory, persist, proven>>

ProbeFails(c) ==
  /\ client[c].pc = "probe"
  /\ Go(c, "idle")
  /\ UNCHANGED <<other, memory, persist, proven>>

\* refresh_session of the origin the action targeted.
Evict(c) ==
  /\ client[c].pc = "evict"
  /\ ClearSessions({client[c].origin})
  /\ client' = [client EXCEPT ![c].pc = "register", ![c].filter = client[c].origin]
  /\ UNCHANGED <<other, persist, proven>>

\* mark_payload_verified
Mark(c) ==
  /\ client[c].pc = "mark"
  /\ MarkVerified(client[c].origin)
  /\ Go(c, "idle")
  /\ UNCHANGED <<other, persist, proven>>

Start(c) ==
  \/ WaitFindsCached(c) \/ WaitFindsNone(c) \/ WaitFresh(c)
  \/ Refresh(c) \/ Verify(c) \/ Clear(c) \/ Action(c)
Continue(c) ==
  \/ Register(c) \/ AwaitFails(c) \/ Remember(c) \/ Persisted(c)
  \/ ActionSucceeds(c) \/ ActionRejected(c) \/ ActionTransient(c) \/ ActionFails(c)
  \/ ProbeSucceeds(c) \/ ProbeRejected(c) \/ ProbeFails(c) \/ Evict(c) \/ Mark(c)

----------------------------------------------------------------------------
(* ServiceNow and the browser (external).                                   *)

\* A new login: the tokens before it are dead.
Login(o) ==
  /\ browser[o] < MaxToken
  /\ browser' = [browser EXCEPT ![o] = @ + 1]
  /\ UNCHANGED <<memory, queue, persist, files, client, pushes, boots, proven>>

\* /token: the push is queued for the session task and wakes every request
\* that waits for a session of this origin or of any (deliver_message).
PushToken(o) ==
  /\ browser[o] # 0 /\ pushes < MaxPushes
  /\ pushes' = pushes + 1
  /\ queue' = Append(queue, [origin |-> o, token |-> browser[o]])
  /\ client' = [c \in Clients |->
       IF client[c].pc = "await" /\ client[c].filter \in {NoOrigin, o}
       THEN [client[c] EXCEPT !.pc = "remember", !.origin = o, !.token = browser[o]]
       ELSE client[c]]
  /\ UNCHANGED <<memory, persist, files, browser, boots, proven>>

----------------------------------------------------------------------------
(* Restart: the broker process ends at any moment and another one loads the  *)
(* cache file (load_persisted_sessions, restore_sessions).                  *)

\* The saved latest origin is kept if it has a session.
LatestOf(snap) ==
  LET left == {o \in Origins : snap.session[o] # 0}
  IN  IF left = {} THEN {NoOrigin} ELSE IF snap.latest \in left THEN {snap.latest} ELSE left

BadRestart ==   \* freshness survives the restart
  /\ boots < MaxBoots
  /\ boots' = boots + 1
  /\ \E snap \in {NoSnapshot, disk.snap} :
       session' = snap.session /\ latest' \in LatestOf(snap)
  /\ proven' = {} /\ queue' = <<>> /\ persist' = [p \in Procs |-> NotPersisting]
  /\ client' = [c \in Clients |-> [client[c] EXCEPT !.pc = "idle"]]
  /\ UNCHANGED <<meta, files, browser, pushes>>

\* Nothing is restored from a missing, unreadable or outdated file.
Restart ==
  /\ boots < MaxBoots
  /\ boots' = boots + 1
  /\ \E snap \in {NoSnapshot, disk.snap} :
       session' = snap.session /\ latest' \in LatestOf(snap)
  /\ meta' = [o \in Origins |-> NoMeta] /\ proven' = {}
  /\ queue' = <<>> /\ persist' = [p \in Procs |-> NotPersisting]
  /\ client' = [c \in Clients |-> [client[c] EXCEPT !.pc = "idle"]]
  /\ UNCHANGED <<files, browser, pushes>>

Next ==
  \/ SessionTaskRemembers \/ Restart
  \/ \E p \in Procs : Persist(p)
  \/ \E c \in Clients : Start(c) \/ Continue(c)
  \/ \E o \in Origins : Login(o) \/ PushToken(o)

Spec == Init /\ [][Next]_vars

----------------------------------------------------------------------------
(* Properties.                                                             *)

LatestIn(snap) ==
  LET left == {o \in Origins : snap.session[o] # 0}
  IN  snap.latest \in (IF left = {} THEN {NoOrigin} ELSE left)

\* While any session is cached, the latest origin has one: a request without
\* an origin never misses it.  The same holds of what a restart would load
\* (clear_origin, remember_session, persist_broker_sessions).
LatestIsCached ==
  /\ LatestIn(Memory)
  /\ LatestIn(disk.snap) /\ LatestIn(tmp.snap)
  /\ \A p \in Procs : LatestIn(persist[p].snap)

\* A session counts as verified only if ServiceNow accepted some token of its
\* origin from this broker process: what is restored from disk starts cold.
VerifiedThisLifetime ==
  \A o \in Origins : meta[o].verified => \E t \in 1 .. MaxToken : <<o, t>> \in proven

\* Freshness belongs to a token: it is kept while the token stays, however often
\* the session is remembered again, and lost with the token.
FreshnessFollowsToken ==
  [][\A o \in Origins :
       IF session'[o] = session[o] /\ boots' = boots
       THEN meta[o].verified => meta'[o].verified
       ELSE ~meta'[o].verified]_vars

\* A request for one origin neither returns nor drops the session of another.
OthersSurvive ==
  [][\A o \in Origins : \A c \in Clients :
       /\ client'[c].filter = o => client'[c].origin \in {o, NoOrigin}
       /\ client[c] # client'[c] /\ client'[c].filter \notin {o, NoOrigin} /\ boots' = boots
            => session'[o] = session[o]]_vars

\* Sessions are kept apart: by token, and by origin.
SessionsKeptApart == FreshnessFollowsToken /\ OthersSurvive

\* Claim of send_action_with_refresh: only a probe-confirmed dead token evicts
\* the session.
EvictsOnlyProbedToken ==
  [][\A c \in Clients :
       client[c].pc = "evict" /\ client'[c].pc = "register"
         => session[client[c].origin] \in {0, client[c].token}]_vars

\* Claim of write_session_cache: a snapshot is written atomically.  No writer
\* is killed here (one broker process).
WritesAreAtomic ==
  (\A p \in Procs : persist[p].pc = "idle") => disk.state \in {"none", "whole"}

\* Claim of write_session_cache: clearing the sessions clears the disk too.
\* Stated where nothing but clear empties the cache, when no task is busy.
ClearClearsDisk ==
  (/\ Cached = {} /\ queue = <<>>
   /\ \A p \in Procs : persist[p].pc = "idle"
   /\ \A c \in Clients : client[c].pc = "idle")
  => disk.state = "none"
=============================================================================
