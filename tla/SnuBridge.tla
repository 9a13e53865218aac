------------------------------ MODULE SnuBridge ------------------------------
(***************************************************************************)
(* The broker-owned connection manager of the SN-Utils bridge              *)
(* (src/snu/bridge.rs): the accept loop that installs a helper-tab          *)
(* WebSocket, the reader task of every connection, the heartbeat that reaps *)
(* silent sockets, and the callers whose requests wait for a reply routed   *)
(* by a matcher.  Each task is a program counter; a step is the code        *)
(* between two points where another task can run (an await or an unlock).   *)
(*                                                                         *)
(* A connection is its generation, a number from 1; 0 stands for "none"     *)
(* (Option::None).  Payloads, timers and frame formats are abstracted: a    *)
(* timeout may fire whenever its timer runs, and a message is the request   *)
(* it answers or a /token push.  What a helper does on a socket that no task  *)
(* reads any more cannot be observed and is left out.                       *)
(***************************************************************************)
EXTENDS Naturals, Sequences, FiniteSets

CONSTANTS
  Callers,     \* tasks that call request() or wait_for_session()
  Kind,        \* the matcher each caller uses: correlation, action or session
  MaxGen,      \* bound: connections accepted in one behaviour
  MaxCalls,    \* bound: calls one caller makes
  MaxInbox,    \* bound: unread frames on one socket
  MaxTokens    \* bound: /token pushes in one behaviour

ASSUME KindAssumption == Kind \in [Callers -> {"correlation", "action", "session"}]
ASSUME BoundAssumption ==
  /\ MaxGen \in Nat
  /\ MaxCalls \in Nat
  /\ MaxInbox \in Nat
  /\ MaxTokens \in Nat

VARIABLES
  listening,   \* the accept loop holds the WebSocket port
  wsBound,     \* Inner::ws_bound
  generation,  \* Inner::generation
  conn,        \* Inner::conn: the installed connection, 0 for None
  connected,   \* Inner::connected_tx
  banner,      \* Inner::pending_banner is Some
  attacher,    \* the accept loop inside attach_connection
  reader,      \* the reader task of each connection
  aborted,     \* connections whose reader task was aborted
  heartbeat,   \* the heartbeat task
  socket,      \* the peer's end of each connection
  inbox,       \* frames of each connection not yet read
  sent,        \* requests that reached the helper's socket, with its generation
  replied,     \* requests the helper has answered
  waiters,     \* Inner::waiters
  caller,      \* the tasks in request() or wait_for_session()
  tokens       \* /token pushes so far (bounds the model)

connVars == <<listening, wsBound, generation, conn, connected, banner, attacher>>
taskVars == <<reader, aborted, heartbeat>>
peerVars == <<socket, inbox, sent, replied, tokens>>
callVars == <<waiters, caller>>
vars == <<connVars, taskVars, peerVars, callVars>>

Gens == 1 .. MaxGen
GenOrNone == 0 .. MaxGen

\* A request is the caller and the number of its call: its correlation id.
Request == Callers \X (1 .. MaxCalls)
NoRequest == <<>>

\* A frame from the helper tab, reduced to what the matchers look at.
Reply(r) == [type |-> "reply", req |-> r]
Token == [type |-> "token", req |-> NoRequest]
Message == [type : {"reply"}, req : Request] \cup {Token}

Waiter == [owner : Request, gen : GenOrNone]

AttachPC == {"idle", "install", "failPrevious", "greet"}
ReaderPC == {"none", "reading", "detach", "flag", "fail", "done", "cancelled"}
HeartbeatPC == {"sleep", "detach", "flag", "fail"}
CallPC == {"idle", "connecting", "enqueue", "waiting"}
Outcome == {"none", "ok", "notConnected", "portConflict", "disconnected", "timeout"}
CallerState == [pc : CallPC, n : 0 .. MaxCalls, seen : BOOLEAN,
                outcome : Outcome, answer : Request \cup {NoRequest}]

TypeOK ==
  /\ listening \in BOOLEAN /\ wsBound \in BOOLEAN /\ connected \in BOOLEAN
  /\ generation \in GenOrNone /\ conn \in GenOrNone /\ banner \in BOOLEAN
  /\ attacher \in [pc : AttachPC, gen : GenOrNone, previous : GenOrNone]
  /\ reader \in [Gens -> ReaderPC] /\ aborted \in SUBSET Gens
  /\ heartbeat \in [pc : HeartbeatPC, gen : GenOrNone]
  /\ socket \in [Gens -> {"none", "up", "silent", "down"}]
  /\ inbox \in [Gens -> Seq(Message)] /\ tokens \in 0 .. MaxTokens
  /\ sent \in SUBSET Waiter /\ replied \in SUBSET Request /\ waiters \in SUBSET Waiter
  /\ caller \in [Callers -> CallerState]

Init ==
  /\ listening = FALSE /\ wsBound = TRUE
  /\ generation = 0 /\ conn = 0 /\ connected = FALSE /\ banner = FALSE
  /\ attacher = [pc |-> "idle", gen |-> 0, previous |-> 0]
  /\ reader = [g \in Gens |-> "none"] /\ aborted = {}
  /\ heartbeat = [pc |-> "sleep", gen |-> 0]
  /\ socket = [g \in Gens |-> "none"] /\ inbox = [g \in Gens |-> <<>>]
  /\ sent = {} /\ replied = {} /\ waiters = {} /\ tokens = 0
  /\ caller = [c \in Callers |-> [pc |-> "idle", n |-> 0, seen |-> FALSE,
                                  outcome |-> "none", answer |-> NoRequest]]

----------------------------------------------------------------------------
(* Waiters.  A waiter is live while its caller still waits for that call;  *)
(* otherwise the oneshot receiver was dropped (tx.is_closed()).            *)

Current(c) == <<c, caller[c].n>>
IsLive(w) == caller[w.owner[1]].pc = "waiting" /\ w.owner = Current(w.owner[1])

\* Matcher::matches: which waiters a frame fulfils.  An action matcher looks
\* only at the action name, so every reply to an action request fits it.
Matches(w, m) ==
  CASE Kind[w.owner[1]] = "correlation" -> m.type = "reply" /\ m.req = w.owner
    [] Kind[w.owner[1]] = "action" -> m.type = "reply" /\ Kind[m.req[1]] = "action"
    [] Kind[w.owner[1]] = "session" -> m.type = "token"

Finish(c, outcome, answer) ==
  [caller[c] EXCEPT !.pc = "idle", !.outcome = outcome, !.answer = answer]

BadResolve(W, outcome, answer) ==   \* a closed receiver is not told from an open one
  LET woken == {c \in Callers : \E w \in W : w.owner[1] = c}
  IN  /\ waiters' = waiters \ W
      /\ caller' = [c \in Callers |->
                      IF c \in woken THEN Finish(c, outcome, answer) ELSE caller[c]]

\* Hand a result to the live waiters in W and drop all of W; a closed
\* receiver ignores what is sent to it.
Resolve(W, outcome, answer) ==
  LET woken == {c \in Callers : \E w \in W : w.owner[1] = c /\ IsLive(w)}
  IN  /\ waiters' = waiters \ W
      /\ caller' = [c \in Callers |->
                      IF c \in woken THEN Finish(c, outcome, answer) ELSE caller[c]]

BadFailWaiters(g) ==   \* waiters without a generation are failed too
  Resolve({w \in waiters : w.gen \in {0, g}}, "disconnected", NoRequest)

\* fail_waiters_for_generation
FailWaiters(g) == Resolve({w \in waiters : w.gen = g}, "disconnected", NoRequest)

----------------------------------------------------------------------------
(* accept_loop and attach_connection.                                      *)

BindFails ==
  /\ ~listening
  /\ wsBound' = FALSE
  /\ UNCHANGED <<listening, generation, conn, connected, banner, attacher>>
  /\ UNCHANGED <<taskVars, peerVars, callVars>>

BindSucceeds ==
  /\ ~listening
  /\ listening' = TRUE /\ wsBound' = TRUE
  /\ UNCHANGED <<generation, conn, connected, banner, attacher>>
  /\ UNCHANGED <<taskVars, peerVars, callVars>>

\* A helper tab connects: take the next generation and spawn its tasks.  The
\* reader runs from here on, before the connection is installed.
AttachSpawn ==
  /\ listening /\ attacher.pc = "idle" /\ generation < MaxGen
  /\ generation' = generation + 1
  /\ attacher' = [pc |-> "install", gen |-> generation + 1, previous |-> 0]
  /\ reader' = [reader EXCEPT ![generation + 1] = "reading"]
  /\ socket' = [socket EXCEPT ![generation + 1] = "up"]
  /\ UNCHANGED <<listening, wsBound, conn, connected, banner>>
  /\ UNCHANGED <<aborted, heartbeat, inbox, sent, replied, tokens, callVars>>

BadAttachInstall ==   \* "the replaced reader" is aborted when none was replaced
  /\ attacher.pc = "install"
  /\ conn' = attacher.gen
  /\ attacher' = [attacher EXCEPT !.previous = conn, !.pc = "failPrevious"]
  /\ aborted' = aborted \cup {conn}
  /\ UNCHANGED <<listening, wsBound, generation, connected, banner>>
  /\ UNCHANGED <<reader, heartbeat, peerVars, callVars>>

\* conn.replace under the connection lock; a replaced reader is aborted.
AttachInstall ==
  /\ attacher.pc = "install"
  /\ conn' = attacher.gen
  /\ attacher' = [attacher EXCEPT !.previous = conn,
                                  !.pc = IF conn = 0 THEN "greet" ELSE "failPrevious"]
  /\ aborted' = aborted \cup ({conn} \ {0})
  /\ UNCHANGED <<listening, wsBound, generation, connected, banner>>
  /\ UNCHANGED <<reader, heartbeat, peerVars, callVars>>

BadAttachFailPrevious ==   \* the replaced connection's waiters are forgotten
  /\ attacher.pc = "failPrevious"
  /\ attacher' = [attacher EXCEPT !.pc = "greet"]
  /\ UNCHANGED <<listening, wsBound, generation, conn, connected, banner>>
  /\ UNCHANGED <<taskVars, peerVars, callVars>>

AttachFailPrevious ==
  /\ attacher.pc = "failPrevious"
  /\ FailWaiters(attacher.previous)
  /\ attacher' = [attacher EXCEPT !.pc = "greet"]
  /\ UNCHANGED <<listening, wsBound, generation, conn, connected, banner>>
  /\ UNCHANGED <<taskVars, peerVars>>

\* Reset the helper status (SnuGates), greet the helper, deliver a queued
\* banner and only then announce the connection.
AttachGreet ==
  /\ attacher.pc = "greet"
  /\ banner' = FALSE /\ connected' = TRUE
  /\ attacher' = [pc |-> "idle", gen |-> 0, previous |-> 0]
  /\ UNCHANGED <<listening, wsBound, generation, conn>>
  /\ UNCHANGED <<taskVars, peerVars, callVars>>

Attach == AttachSpawn \/ AttachInstall \/ AttachFailPrevious \/ AttachGreet

----------------------------------------------------------------------------
(* detach_connection, run by a reader that met the end of its stream or by  *)
(* the heartbeat.  Taking the connection and aborting its reader happen     *)
(* under the connection lock; the flag and the waiters follow later.        *)

BadTakeConn(g) ==   \* whatever connection is installed is taken
  /\ conn # 0
  /\ conn' = 0
  /\ aborted' = aborted \cup {conn}

TakeConn(g) ==
  /\ conn = g
  /\ conn' = 0
  /\ aborted' = aborted \cup {g}

ClearConnected ==
  /\ connected' = FALSE
  /\ UNCHANGED <<listening, wsBound, generation, conn, banner, attacher>>

(* reader_loop and deliver_message *)

\* Route the next frame to every waiter whose matcher accepts it, whatever
\* generation the waiter belongs to.
ReaderDeliver(g) ==
  /\ reader[g] = "reading" /\ inbox[g] # <<>>
  /\ LET m == Head(inbox[g])
     IN  Resolve({w \in waiters : Matches(w, m)}, "ok", m.req)
  /\ inbox' = [inbox EXCEPT ![g] = Tail(@)]
  /\ UNCHANGED <<connVars, taskVars, socket, sent, replied, tokens>>

\* A Close frame, a stream error or the end of the stream, after the frames
\* that came before it.
ReaderEnds(g) ==
  /\ reader[g] = "reading" /\ inbox[g] = <<>> /\ socket[g] = "down"
  /\ reader' = [reader EXCEPT ![g] = "detach"]
  /\ UNCHANGED <<connVars, aborted, heartbeat, peerVars, callVars>>

ReaderDetach(g) ==
  /\ reader[g] = "detach"
  /\ \/ /\ TakeConn(g)
        /\ reader' = [reader EXCEPT ![g] = "flag"]
     \/ /\ conn # g
        /\ reader' = [reader EXCEPT ![g] = "done"]
        /\ UNCHANGED <<conn, aborted>>
  /\ UNCHANGED <<listening, wsBound, generation, connected, banner, attacher>>
  /\ UNCHANGED <<heartbeat, peerVars, callVars>>

ReaderClearsFlag(g) ==
  /\ reader[g] = "flag"
  /\ ClearConnected
  /\ reader' = [reader EXCEPT ![g] = "fail"]
  /\ UNCHANGED <<aborted, heartbeat, peerVars, callVars>>

ReaderFailsWaiters(g) ==
  /\ reader[g] = "fail"
  /\ FailWaiters(g)
  /\ reader' = [reader EXCEPT ![g] = "done"]
  /\ UNCHANGED <<connVars, aborted, heartbeat, peerVars>>

\* An aborted task ends at its next suspended await: waiting for a frame, for
\* the connection lock, or - having aborted itself in detach_connection - for
\* the waiters lock.  Between the abort and the flag there is no await.
ReaderCancelled(g) ==
  /\ g \in aborted
  /\ reader[g] \in {"reading", "detach", "fail"}
  /\ reader' = [reader EXCEPT ![g] = "cancelled"]
  /\ inbox' = [inbox EXCEPT ![g] = <<>>]
  /\ UNCHANGED <<connVars, aborted, heartbeat, socket, sent, replied, tokens, callVars>>

Reader(g) ==
  \/ ReaderDeliver(g) \/ ReaderEnds(g) \/ ReaderDetach(g)
  \/ ReaderClearsFlag(g) \/ ReaderFailsWaiters(g) \/ ReaderCancelled(g)

----------------------------------------------------------------------------
(* heartbeat_loop *)

BadIsSilent(g) ==   \* only an end of stream counts as silence
  socket[g] = "down" /\ inbox[g] = <<>> /\ attacher.gen # g

\* Nothing more will be read from connection g: its last_seen goes stale.
\* A connection still being attached is too young to have gone stale.
IsSilent(g) == socket[g] # "up" /\ inbox[g] = <<>> /\ attacher.gen # g

BadSweepWaiters ==   \* swept only on behalf of an installed connection
  waiters' = IF conn = 0 THEN waiters ELSE {w \in waiters : IsLive(w)}

\* Drop the waiters whose callers gave up.
SweepWaiters == waiters' = {w \in waiters : IsLive(w)}

\* The installed connection, if any, was heard of lately: it is pinged.
HeartbeatPings ==
  /\ heartbeat.pc = "sleep"
  /\ SweepWaiters
  /\ UNCHANGED <<connVars, taskVars, peerVars, caller>>

\* The installed connection was silent for two intervals: it is to be dropped.
HeartbeatReaps ==
  /\ heartbeat.pc = "sleep"
  /\ SweepWaiters
  /\ conn # 0 /\ IsSilent(conn)
  /\ heartbeat' = [pc |-> "detach", gen |-> conn]
  /\ UNCHANGED <<connVars, reader, aborted, peerVars, caller>>

HeartbeatDetach ==
  /\ heartbeat.pc = "detach"
  /\ \/ /\ TakeConn(heartbeat.gen)
        /\ heartbeat' = [heartbeat EXCEPT !.pc = "flag"]
     \/ /\ conn # heartbeat.gen
        /\ heartbeat' = [pc |-> "sleep", gen |-> 0]
        /\ UNCHANGED <<conn, aborted>>
  /\ UNCHANGED <<listening, wsBound, generation, connected, banner, attacher>>
  /\ UNCHANGED <<reader, peerVars, callVars>>

HeartbeatClearsFlag ==
  /\ heartbeat.pc = "flag"
  /\ ClearConnected
  /\ heartbeat' = [heartbeat EXCEPT !.pc = "fail"]
  /\ UNCHANGED <<reader, aborted, peerVars, callVars>>

HeartbeatFailsWaiters ==
  /\ heartbeat.pc = "fail"
  /\ FailWaiters(heartbeat.gen)
  /\ heartbeat' = [pc |-> "sleep", gen |-> 0]
  /\ UNCHANGED <<connVars, reader, aborted, peerVars>>

HeartbeatDetaches == HeartbeatDetach \/ HeartbeatClearsFlag \/ HeartbeatFailsWaiters

Heartbeat == HeartbeatPings \/ HeartbeatReaps \/ HeartbeatDetaches

----------------------------------------------------------------------------
(* request_bound (without an expected generation) and wait_for_session.     *)

IsRequest(c) == Kind[c] # "session"

Begin(c, pc) ==
  /\ caller[c].pc = "idle" /\ caller[c].n < MaxCalls
  /\ caller' = [caller EXCEPT ![c] = [pc |-> pc, n |-> caller[c].n + 1, seen |-> FALSE,
                                      outcome |-> "none", answer |-> NoRequest]]

End(c, outcome) == caller' = [caller EXCEPT ![c] = Finish(c, outcome, NoRequest)]

\* wait_connected and wait_for_session fail at once while the port is taken.
CallFindsPortTaken(c) ==
  /\ ~wsBound /\ caller[c].pc = "idle" /\ caller[c].n < MaxCalls
  /\ caller' = [caller EXCEPT ![c] = [pc |-> "idle", n |-> caller[c].n + 1, seen |-> FALSE,
                                      outcome |-> "portConflict", answer |-> NoRequest]]
  /\ UNCHANGED <<connVars, taskVars, peerVars, waiters>>

RequestStart(c) ==
  /\ IsRequest(c) /\ wsBound
  /\ Begin(c, "connecting")
  /\ UNCHANGED <<connVars, taskVars, peerVars, waiters>>

RequestConnected(c) ==
  /\ caller[c].pc = "connecting" /\ connected
  /\ caller' = [caller EXCEPT ![c].pc = "enqueue"]
  /\ UNCHANGED <<connVars, taskVars, peerVars, waiters>>

\* The connect budget runs out; the error depends on who owns the port.
RequestNotConnected(c) ==
  /\ caller[c].pc = "connecting" /\ ~connected
  /\ End(c, IF wsBound THEN "notConnected" ELSE "portConflict")
  /\ UNCHANGED <<connVars, taskVars, peerVars, waiters>>

\* Under the connection lock: register the waiter, then enqueue the frame.
RequestEnqueue(c) ==
  /\ caller[c].pc = "enqueue" /\ conn # 0
  /\ waiters' = waiters \cup {[owner |-> Current(c), gen |-> conn]}
  /\ \/ /\ caller' = [caller EXCEPT ![c].pc = "waiting"]
        /\ sent' = IF socket[conn] = "up"
                   THEN sent \cup {[owner |-> Current(c), gen |-> conn]} ELSE sent
     \/ /\ socket[conn] = "down"   \* the writer task has ended: send fails
        /\ End(c, "disconnected")
        /\ UNCHANGED sent
  /\ UNCHANGED <<connVars, taskVars, socket, inbox, replied, tokens>>

RequestFindsNoConn(c) ==
  /\ caller[c].pc = "enqueue" /\ conn = 0
  /\ End(c, "disconnected")
  /\ UNCHANGED <<connVars, taskVars, peerVars, waiters>>

\* The response timeout: the waiter stays until the next sweep.
CallTimeout(c) ==
  /\ caller[c].pc = "waiting"
  /\ End(c, "timeout")
  /\ UNCHANGED <<connVars, taskVars, peerVars, waiters>>

\* The session waiter belongs to no generation: it survives reconnects.
SessionStart(c) ==
  /\ ~IsRequest(c) /\ wsBound
  /\ Begin(c, "waiting")
  /\ waiters' = waiters \cup {[owner |-> <<c, caller[c].n + 1>>, gen |-> 0]}
  /\ UNCHANGED <<connVars, taskVars, peerVars>>

\* never_connected_within sees a connected tab and from then on pends.
SessionSeesConnected(c) ==
  /\ ~IsRequest(c) /\ caller[c].pc = "waiting" /\ connected /\ ~caller[c].seen
  /\ caller' = [caller EXCEPT ![c].seen = TRUE]
  /\ UNCHANGED <<connVars, taskVars, peerVars, waiters>>

SessionNotConnected(c) ==
  /\ ~IsRequest(c) /\ caller[c].pc = "waiting" /\ ~caller[c].seen /\ ~connected
  /\ End(c, "notConnected")
  /\ UNCHANGED <<connVars, taskVars, peerVars, waiters>>

Call(c) ==
  \/ CallFindsPortTaken(c) \/ RequestStart(c) \/ RequestConnected(c)
  \/ RequestNotConnected(c) \/ RequestEnqueue(c) \/ RequestFindsNoConn(c)
  \/ CallTimeout(c) \/ SessionStart(c) \/ SessionSeesConnected(c) \/ SessionNotConnected(c)

BadSendBanner ==   \* queued without looking at the connection under its lock
  /\ banner' = TRUE
  /\ UNCHANGED <<listening, wsBound, generation, conn, connected, attacher>>
  /\ UNCHANGED <<taskVars, peerVars, callVars>>

\* send_banner: sent at once on an installed connection, queued otherwise.
SendBanner ==
  /\ conn = 0
  /\ banner' = TRUE
  /\ UNCHANGED <<listening, wsBound, generation, conn, connected, attacher>>
  /\ UNCHANGED <<taskVars, peerVars, callVars>>

----------------------------------------------------------------------------
(* The helper tab and the network (external).                              *)

IsOpen(g) == socket[g] = "up" /\ reader[g] = "reading"

Arrive(g, m) ==
  /\ IsOpen(g) /\ Len(inbox[g]) < MaxInbox
  /\ inbox' = [inbox EXCEPT ![g] = Append(@, m)]

\* The tab answers a request it holds, on the socket that carried it or, if it
\* reconnected in between, on a later one.
HelperReplies(g) ==
  /\ \E r \in sent :
       /\ r.gen <= g /\ r.owner \notin replied
       /\ Arrive(g, Reply(r.owner))
       /\ replied' = replied \cup {r.owner}
  /\ UNCHANGED <<connVars, taskVars, socket, sent, tokens, callVars>>

HelperPushesToken(g) ==
  /\ tokens < MaxTokens
  /\ Arrive(g, Token)
  /\ tokens' = tokens + 1
  /\ UNCHANGED <<connVars, taskVars, socket, sent, replied, callVars>>

\* The tab closes the socket, with or without a Close frame.
HelperCloses(g) ==
  /\ IsOpen(g)
  /\ socket' = [socket EXCEPT ![g] = "down"]
  /\ UNCHANGED <<connVars, taskVars, inbox, sent, replied, tokens, callVars>>

\* A half-open socket: the tab is gone and no end of stream ever arrives.
SocketGoesSilent(g) ==
  /\ IsOpen(g)
  /\ socket' = [socket EXCEPT ![g] = "silent"]
  /\ UNCHANGED <<connVars, taskVars, inbox, sent, replied, tokens, callVars>>

Helper(g) == HelperReplies(g) \/ HelperPushesToken(g) \/ HelperCloses(g) \/ SocketGoesSilent(g)

----------------------------------------------------------------------------
Next ==
  \/ BindFails \/ BindSucceeds \/ Attach \/ Heartbeat \/ SendBanner
  \/ \E g \in Gens : Reader(g) \/ Helper(g)
  \/ \E c \in Callers : Call(c)

Spec == Init /\ [][Next]_vars

\* The runtime polls every ready task, a sleep ends, silence that lasts is
\* noticed, and a call that waits is ended by its timer.  The helper, the network, the port's other owner
\* and the decision to start a call carry no fairness.
FairSpec ==
  /\ Spec
  /\ WF_vars(Attach /\ attacher.pc # "idle")
  /\ WF_vars(HeartbeatPings) /\ WF_vars(HeartbeatReaps) /\ WF_vars(HeartbeatDetaches)
  /\ \A g \in Gens : WF_vars(Reader(g))
  /\ \A c \in Callers : WF_vars(Call(c) /\ caller[c].pc # "idle")

----------------------------------------------------------------------------
(* Properties.                                                             *)

\* A tab whose socket works keeps its connection: only a newer connection
\* takes its place.  A reader or heartbeat late with an old generation does
\* not tear down the connection that replaced it (detach_connection).
HealthyConnectionKept ==
  [][conn # 0 /\ conn' # conn => socket[conn] # "up" \/ conn' > conn]_vars

\* Some task is about to fail the waiters of generation g.
TearingDown(g) ==
  \/ attacher.pc = "failPrevious" /\ attacher.previous = g
  \/ heartbeat.gen = g /\ heartbeat.pc \in {"flag", "fail"}
  \/ reader[g] \in {"flag", "fail"}

\* A request whose connection is gone is about to be failed.  The exception is
\* a connection whose reader aborted itself and was cancelled before it got
\* to the waiters (detach_connection run by its own reader task).
GoneWaitersFailing ==
  \A w \in waiters :
    IsLive(w) /\ w.gen # 0 /\ w.gen # conn => TearingDown(w.gen) \/ reader[w.gen] = "cancelled"

\* A banner queued while no tab was connected is not left behind by the
\* connection that should have delivered it (send_banner, attach_connection).
NoBannerStranded == banner /\ conn # 0 => attacher.pc \in {"failPrevious", "greet"}

\* Waiting for a /token survives any number of reconnects: such a call ends
\* with the token, its timeout or the lack of a tab, never "disconnected".
SessionWaitSurvives ==
  \A c \in Callers : ~IsRequest(c) =>
    /\ caller[c].outcome # "disconnected"
    /\ caller[c].pc = "waiting" => \E w \in waiters : w.owner = Current(c)

\* A connection that died is not installed for ever, not even one that died
\* before it was installed, whose reader found nothing to detach.
DeadConnectionReaped ==
  \A g \in Gens : (conn = g /\ socket[g] # "up") ~> (conn # g)

\* A waiter whose caller gave up does not stay in the list for ever.
AbandonedWaitersSwept ==
  \A c \in Callers : \A n \in 1 .. MaxCalls :
    LET Left == \E w \in waiters : w.owner = <<c, n>> /\ ~IsLive(w)
    IN  Left ~> ~Left

\* Claim of the broker's status request: browser_connected reflects the
\* actual socket state.  Stated only when no task is changing it.
ConnectedReflectsSocket ==
  /\ attacher.pc \in {"idle", "install"}
  /\ heartbeat.pc \notin {"flag", "fail"}
  /\ \A g \in Gens : reader[g] \notin {"flag", "fail"}
  => (connected <=> conn # 0)

\* Claim of legacy_action_lock: with one request in flight, no caller consumes
\* the action-matched response of another request.
ActionReplyIsOwn ==
  \A c \in Callers :
    Kind[c] = "action" /\ caller[c].outcome = "ok" => caller[c].answer = Current(c)

----------------------------------------------------------------------------
(* What callers are promised.  A call is open while its caller waits; a      *)
(* request is on the wire once it reached the helper's socket.  An answer is *)
(* tied to its own request only where they are correlated (ActionReplyIsOwn).*)

Correlated == {c \in Callers : Kind[c] = "correlation"}
OpenCalls == {c \in Callers : caller[c].pc # "idle"}
CallNumbers == [c \in Callers |-> caller[c].n]
AnsweredCalls == {c \in Callers : caller[c].outcome = "ok"}
RequestsSent == {r \in Request : r[1] \in Correlated /\ \E w \in sent : w.owner = r}

Abstract == INSTANCE SnuCalls WITH
  Askers <- Correlated, open <- OpenCalls, calls <- CallNumbers,
  answered <- AnsweredCalls, wire <- RequestsSent

\* Every call is settled once, a correlated request goes out at most once, and is
\* answered only after it went out (request_bound, deliver_message).
ImplementsCalls == Abstract!Spec
=============================================================================
