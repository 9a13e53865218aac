------------------------------- MODULE SnuGates -------------------------------
(***************************************************************************)
(* Security-gate negotiation and the dispatch of gated actions              *)
(* (src/snu/bridge.rs negotiate_capabilities, preflight and                 *)
(* request_bound; src/snu/broker.rs dispatch; src/snu/gates.rs).             *)
(*                                                                         *)
(* Clients of the broker preflight a gated action on one instance: they ask *)
(* the helper tab for its gates, classify the answer, and send the action   *)
(* only on the connection generation that was asked.  Meanwhile the tab     *)
(* reconnects, pushes its build info and changes its gates.  One gate of    *)
(* one instance is modelled: the code keeps them in independent map         *)
(* entries.  "absent" is an instance the helper does not list.              *)
(***************************************************************************)
EXTENDS Naturals, Sequences, FiniteSets

CONSTANTS
  Clients,      \* broker requests being served
  Protocol,     \* how a client dispatches: "plain" or "fallback" to legacy
  Permitted,    \* the modes under which an action is sent: approve, auto
  MaxGen,       \* bound: connections in one behaviour
  MaxLoad,      \* bound: connections so far, and clients being served
                \* or whose request the tab may still answer
  MaxRev,       \* bound: gates change no more once one changed so often
  MaxInbox      \* bound: unread frames of one connection

ASSUME ProtocolAssumption == Protocol \in [Clients -> {"plain", "fallback"}]
ASSUME PermittedAssumption == {"off", "absent", "legacy", "none"} \cap Permitted = {}
ASSUME NobodyAssumption == "nobody" \notin Clients
ASSUME BoundAssumption == MaxGen \in Nat /\ MaxLoad \in Nat /\ MaxRev \in Nat /\ MaxInbox \in Nat

Gens == 1 .. MaxGen
GenOrNone == 0 .. MaxGen
ModeOrAbsent == Permitted \cup {"off", "absent"}

\* A gate snapshot; "from" is the connection it came over.
NoSnapshot == [rev |-> 0, mode |-> "absent", from |-> 0]
Snapshot == [rev : 0 .. MaxRev, mode : ModeOrAbsent, from : GenOrNone]

VARIABLES
  generation,  \* connections accepted so far
  conn,        \* Inner::conn, 0 for None
  status,      \* Inner::helper_status
  helper,      \* the tab behind each connection: kind and true gate
  inbox,       \* frames of each connection not yet read
  asked,       \* capability requests the tab may still answer
  advertised,  \* connections whose build info frame the reader has handled,
               \* forgotten when the next is installed (history)
  learned,     \* connections that were found to have gates while the status
               \* was about them, until it is about another (history)
  client,      \* the requests being served
  held,        \* per client, the <<generation, mode>> pairs the helper had
               \* since the client's preflight began (history)
  legacyLock   \* Broker::legacy_action_lock: its holder

vars == <<generation, conn, status, helper, inbox, asked, advertised,
          learned, client, held, legacyLock>>
linkVars == <<generation, conn, helper, advertised>>

Nobody == "nobody"
Support == {"unknown", "legacy", "gated"}
Status == [gen : GenOrNone, support : Support, adv : BOOLEAN, snap : Snapshot]
FreshStatus(g) == [gen |-> g, support |-> "unknown", adv |-> FALSE, snap |-> NoSnapshot]

\* gated: the report supports instance gates; failed: an error reply.
Report == [gated : BOOLEAN, failed : BOOLEAN, snap : Snapshot]
NoReport == [gated |-> FALSE, failed |-> FALSE, snap |-> NoSnapshot]

Build == [type |-> "build", to |-> Nobody, report |-> NoReport]
GatesUpdated(s) == [type |-> "gates", to |-> Nobody, report |-> [NoReport EXCEPT !.snap = s]]
Answer(d, r) == [type |-> "caps", to |-> d, report |-> r]
Stale == [type |-> "caps", to |-> Nobody, report |-> NoReport]   \* its waiter is gone
Frame == [type : {"build", "gates", "caps"}, to : Clients \cup {Nobody}, report : Report]

Decision == Permitted \cup {"none", "legacy"}
ClientPC == {"idle", "caps", "waiting", "replied", "lock", "dispatch", "sent"}
ClientState == [pc : ClientPC, before : [gen : GenOrNone, adv : BOOLEAN, gated : BOOLEAN],
                gen : GenOrNone, report : Report, decision : Decision,
                legacy : BOOLEAN, retry : BOOLEAN]
IdleClient == [pc |-> "idle", before |-> [gen |-> 0, adv |-> FALSE, gated |-> FALSE],
               gen |-> 0, report |-> NoReport, decision |-> "none",
               legacy |-> FALSE, retry |-> FALSE]

TypeOK ==
  /\ generation \in GenOrNone /\ conn \in GenOrNone /\ status \in Status
  /\ helper \in [Gens -> [current : BOOLEAN, snap : Snapshot]]
  /\ inbox \in [Gens -> Seq(Frame)]
  /\ asked \in SUBSET (Clients \X Gens)
  /\ advertised \in SUBSET Gens /\ learned \in SUBSET GenOrNone
  /\ client \in [Clients -> ClientState]
  /\ held \in [Clients -> SUBSET (Gens \X ModeOrAbsent)]
  /\ legacyLock \in Clients \cup {Nobody}

Init ==
  /\ generation = 0 /\ conn = 0 /\ status = FreshStatus(0)
  /\ helper = [g \in Gens |-> [current |-> FALSE, snap |-> NoSnapshot]]
  /\ inbox = [g \in Gens |-> <<>>] /\ asked = {}
  /\ advertised = {} /\ learned = {}
  /\ client = [d \in Clients |-> IdleClient] /\ held = [d \in Clients |-> {}]
  /\ legacyLock = Nobody

\* The request of client d ends, whatever its result; its lock is released.
Done(d) ==
  /\ client' = [client EXCEPT ![d] = IdleClient]
  /\ held' = [held EXCEPT ![d] = {}]
  /\ legacyLock' = IF legacyLock = d THEN Nobody ELSE legacyLock

\* There is room for one more beside the connections and the requests of these.
LoadLeft(others) ==
  generation + Cardinality({d \in others : client[d].pc # "idle" \/ d \in {a[1] : a \in asked}}) < MaxLoad

\* The clients that began a preflight also witness the helper's new gate.
Witness(g, mode) ==
  held' = [d \in Clients |->
             IF client[d].pc = "idle" THEN held[d] ELSE held[d] \cup {<<g, mode>>}]

----------------------------------------------------------------------------
(* attach_connection and detach_connection, as far as gates see them.       *)

\* Waiters of the lost connection are failed: their clients get Disconnected.
LoseWaiters(g) ==
  client' = [d \in Clients |->
    IF client[d].gen = g /\ client[d].pc = "waiting" THEN [client[d] EXCEPT !.pc = "replied",
      !.report = [NoReport EXCEPT !.failed = TRUE]] ELSE client[d]]

\* A new connection is installed.  Its reader already runs; the status is
\* still that of the previous generation.
Attach ==
  /\ generation < MaxGen /\ LoadLeft(Clients) /\ status.gen = generation
  /\ generation' = generation + 1 /\ conn' = generation + 1
  /\ \E current \in BOOLEAN, mode \in ModeOrAbsent :
       /\ ~current => mode = "absent"
       /\ helper' = [helper EXCEPT ![generation + 1] =
            [current |-> current, snap |-> [rev |-> 0, mode |-> mode, from |-> generation + 1]]]
       /\ Witness(generation + 1, mode)
  /\ LoseWaiters(conn)
  /\ advertised' = {}
  /\ UNCHANGED <<status, inbox, asked, legacyLock, learned>>

\* "*helper_status = HelperStatus { generation, ..default() }", hostHello.
ResetStatus ==
  /\ status.gen < generation
  /\ status' = FreshStatus(generation) /\ learned' = {}
  /\ UNCHANGED <<linkVars, inbox, asked, client, held, legacyLock>>

Detach ==
  /\ conn # 0
  /\ conn' = 0
  /\ LoseWaiters(conn)
  /\ UNCHANGED <<generation, status, helper, inbox, asked, advertised, held, legacyLock, learned>>

----------------------------------------------------------------------------
(* The helper tab (external).                                              *)

Arrive(g, f) ==
  /\ Len(inbox[g]) < MaxInbox
  /\ inbox' = [inbox EXCEPT ![g] = Append(@, f)]

\* "pushed immediately after connection": once, maybe before the tab is greeted.
HelperPushesBuild(g) ==
  /\ conn = g /\ helper[g].current
  /\ g \notin advertised /\ \A i \in DOMAIN inbox[g] : inbox[g][i] # Build
  /\ Arrive(g, Build)
  /\ UNCHANGED <<linkVars, status, asked, client, held, legacyLock, learned>>

\* The user changes the gate, or which instances are authorized, in the tab.
HelperChangesGate(g) ==
  /\ conn = g /\ helper[g].current /\ \A x \in Gens : helper[x].snap.rev < MaxRev
  /\ \E mode \in ModeOrAbsent \ {helper[g].snap.mode} :
       LET s == [rev |-> helper[g].snap.rev + 1, mode |-> mode, from |-> g]
       IN  /\ helper' = [helper EXCEPT ![g].snap = s]
           /\ Witness(g, mode)
           /\ IF mode = "absent" THEN UNCHANGED inbox ELSE Arrive(g, GatesUpdated(s))
  /\ UNCHANGED <<generation, conn, status, asked, advertised, client, legacyLock, learned>>

\* The tab answers a capability request: with its gates, without gate support
\* (a legacy helper, or a current one that omits them), or with an error.
HelperAnswers(g) ==
  /\ conn = g
  /\ \E d \in Clients :
       /\ <<d, g>> \in asked
       /\ \E r \in {[gated |-> TRUE, failed |-> FALSE, snap |-> helper[g].snap],
                    NoReport, [NoReport EXCEPT !.failed = TRUE]} :
            (r.gated => helper[g].current) /\ Arrive(g, Answer(d, r))
       /\ asked' = asked \ {<<d, g>>}
  /\ UNCHANGED <<linkVars, status, client, held, legacyLock, learned>>

----------------------------------------------------------------------------
(* capture_helper_metadata and the reply's waiter.                          *)

\* apply_gate_snapshot: a higher revision replaces the cached snapshot, and
\* so does any listed one where none is cached.
Newer(old, s) == s.mode # "absent" /\ (old.mode = "absent" \/ s.rev > old.rev)
ApplySnapshot(st, s) == IF Newer(st.snap, s) THEN [st EXCEPT !.snap = s] ELSE st

\* Metadata of another generation than the status's is dropped.
Capture(g, f) ==
  IF status.gen # g THEN status
  ELSE CASE f.type = "build" -> [status EXCEPT !.adv = TRUE, !.support = "gated"]
         [] f.type = "gates" -> ApplySnapshot(status, f.report.snap)
         [] f.type = "caps" -> status

ReadFrame(g) ==
  /\ inbox[g] # <<>>
  /\ LET f == Head(inbox[g])
     IN  /\ status' = Capture(g, f)
         /\ advertised' = advertised \cup (IF f = Build THEN {g} ELSE {})
         /\ learned' = learned \cup (IF f = Build /\ status.gen = g THEN {g} ELSE {})
         /\ client' = IF f.to # Nobody /\ client[f.to].pc = "waiting" /\ client[f.to].gen = g
                      THEN [client EXCEPT ![f.to].pc = "replied", ![f.to].report = f.report]
                      ELSE client
  /\ inbox' = [inbox EXCEPT ![g] = Tail(@)]
  /\ UNCHANGED <<generation, conn, helper, asked, held, legacyLock>>

----------------------------------------------------------------------------
(* negotiate_capabilities and preflight.                                   *)

Before == [gen |-> status.gen, adv |-> status.adv, gated |-> status.support = "gated"]

\* Some connection has been announced (wait_connected), maybe not the present.
Preflight(d) ==
  /\ client[d].pc = "idle" /\ status.gen # 0 /\ LoadLeft(Clients \ {d})
  /\ client' = [client EXCEPT ![d].pc = "caps", ![d].before = Before]
  /\ held' = [held EXCEPT ![d] = IF conn = 0 THEN {} ELSE {<<conn, helper[conn].snap.mode>>}]
  /\ UNCHANGED <<linkVars, status, inbox, asked, legacyLock, learned>>

\* A new correlation id: answers to the client's earlier requests match no
\* waiter any more and have no effect when read.
AskCapabilities(d) ==
  /\ client[d].pc = "caps" /\ conn # 0
  /\ client' = [client EXCEPT ![d].pc = "waiting", ![d].gen = conn]
  /\ asked' = {a \in asked : a[1] # d} \cup {<<d, conn>>}
  /\ inbox' = [g \in Gens |-> [i \in 1 .. Len(inbox[g]) |->
                 IF inbox[g][i].to = d THEN Stale ELSE inbox[g][i]]]
  /\ UNCHANGED <<linkVars, status, held, legacyLock, learned>>

AskFails(d) ==
  /\ client[d].pc = "caps" /\ conn = 0
  /\ Done(d)
  /\ UNCHANGED <<linkVars, status, inbox, asked, learned>>

BadMayBeLegacyBuild(d) ==   \* another client's refresh does not count
  status.gen = client[d].before.gen /\ ~client[d].before.adv /\ ~status.adv

\* The helper's support can be settled as legacy: nothing on this generation
\* says that it has gates.
MayBeLegacy(d) ==
  /\ status.gen = client[d].before.gen
  /\ ~client[d].before.adv /\ ~status.adv /\ status.support # "gated"

\* What the preflight decides, and on which generation, if it does not fail.
BadDecide(d, decision) ==   \* a blocked gate is not refused
  /\ client' = [client EXCEPT ![d].decision = decision, ![d].gen = status.gen,
       ![d].report = NoReport, ![d].pc = "dispatch"]
  /\ UNCHANGED <<held, legacyLock>>

\* The first decision chooses between the current and the legacy payload; a
\* retry of a legacy payload must again be classified as legacy.
Decide(d, decision) ==
  LET first == ~client[d].retry
      legacy == IF first THEN decision = "legacy" /\ Protocol[d] = "fallback"
                ELSE client[d].legacy
  IN  IF decision \in {"off", "absent"} \/ (legacy /\ decision # "legacy")
      THEN Done(d)
      ELSE /\ client' = [client EXCEPT ![d].decision = decision, ![d].gen = status.gen,
                ![d].report = NoReport, ![d].legacy = legacy,
                ![d].pc = IF legacy /\ first THEN "lock" ELSE "dispatch"]
           /\ UNCHANGED <<held, legacyLock>>

ClassifyLegacy(d) ==
  /\ status' = [status EXCEPT !.support = "legacy"]
  /\ Decide(d, "legacy")

\* No answer within the bounded negotiation timeout.
CapsTimeout(d) ==
  /\ client[d].pc = "waiting"
  /\ IF MayBeLegacy(d) THEN ClassifyLegacy(d) ELSE Done(d) /\ UNCHANGED status
  /\ UNCHANGED <<linkVars, inbox, asked, learned>>

\* An answer without gate support.
CapsWithoutGates(d) ==
  /\ client[d].pc = "replied" /\ ~client[d].report.failed /\ ~client[d].report.gated
  /\ IF MayBeLegacy(d) /\ ~client[d].before.gated
     THEN ClassifyLegacy(d) ELSE Done(d) /\ UNCHANGED status
  /\ UNCHANGED <<linkVars, inbox, asked, learned>>

\* An answer with gates: authorization comes from the answer alone, not from
\* the snapshots cached in the status.
CapsWithGates(d) ==
  /\ client[d].pc = "replied" /\ client[d].report.gated
  /\ IF status.gen = client[d].before.gen
     THEN /\ status' = ApplySnapshot([status EXCEPT !.support = "gated"], client[d].report.snap)
          /\ learned' = learned \cup {status.gen}
          /\ Decide(d, client[d].report.snap.mode)
     ELSE Done(d) /\ UNCHANGED <<status, learned>>
  /\ UNCHANGED <<linkVars, inbox, asked>>

\* Disconnected, paused, or an error reply.
CapsFailed(d) ==
  /\ client[d].pc = "replied" /\ client[d].report.failed
  /\ Done(d)
  /\ UNCHANGED <<linkVars, status, inbox, asked, learned>>

----------------------------------------------------------------------------
(* Dispatch: request_on_generation and request_on_generation_with_support.  *)

BadTakeLegacyLock(d) ==   \* the lock is not waited for
  /\ client[d].pc = "lock"
  /\ legacyLock' = d
  /\ client' = [client EXCEPT ![d].pc = "dispatch"]
  /\ UNCHANGED <<linkVars, status, inbox, asked, held, learned>>

TakeLegacyLock(d) ==
  /\ client[d].pc = "lock" /\ legacyLock = Nobody
  /\ legacyLock' = d
  /\ client' = [client EXCEPT ![d].pc = "dispatch"]
  /\ UNCHANGED <<linkVars, status, inbox, asked, held, learned>>

BadMayDispatchEarly(d) ==   \* what was negotiated is not looked at again
  conn # 0 /\ conn = client[d].gen

BadMayDispatch(d) ==   \* any installed connection will do
  conn # 0 /\ (client[d].legacy => status.gen = conn /\ status.support = "legacy")

\* The checks request_bound makes under the connection and status locks.
MayDispatch(d) ==
  /\ conn # 0 /\ conn = client[d].gen
  /\ client[d].legacy => status.gen = conn /\ status.support = "legacy"

Dispatch(d) ==
  /\ client[d].pc = "dispatch"
  /\ IF MayDispatch(d)
     THEN /\ client' = [client EXCEPT ![d].pc = "sent", ![d].gen = conn]
          /\ UNCHANGED <<held, legacyLock>>
     ELSE Done(d)
  /\ UNCHANGED <<linkVars, status, inbox, asked, learned>>

\* The action's result: reply, error, timeout or loss of the connection.
Finish(d) ==
  /\ client[d].pc = "sent"
  /\ Done(d)
  /\ UNCHANGED <<linkVars, status, inbox, asked, learned>>

\* A transient helper error, or a refreshed token: preflight again, send once
\* more.
Retry(d) ==
  /\ client[d].pc = "sent" /\ ~client[d].retry
  /\ client' = [client EXCEPT ![d] =
       [IdleClient EXCEPT !.pc = "caps", !.before = Before, !.legacy = client[d].legacy, !.retry = TRUE]]
  /\ held' = [held EXCEPT ![d] = IF conn = 0 THEN {} ELSE {<<conn, helper[conn].snap.mode>>}]
  /\ UNCHANGED <<linkVars, status, inbox, asked, legacyLock, learned>>

Client(d) ==
  \/ Preflight(d) \/ AskCapabilities(d) \/ AskFails(d) \/ CapsTimeout(d)
  \/ CapsWithoutGates(d) \/ CapsWithGates(d) \/ CapsFailed(d)
  \/ TakeLegacyLock(d) \/ Dispatch(d) \/ Finish(d) \/ Retry(d)

Helper(g) == HelperPushesBuild(g) \/ HelperChangesGate(g) \/ HelperAnswers(g)

Next ==
  \/ Attach \/ ResetStatus \/ Detach
  \/ \E g \in Gens : Helper(g) \/ ReadFrame(g)
  \/ \E d \in Clients : Client(d)

Spec == Init /\ [][Next]_vars

----------------------------------------------------------------------------
(* Properties.                                                             *)

\* An action goes out with the gate mode its own preflight was told: the helper
\* of the connection it goes over had the gate in that mode (not "off", not
\* unlisted) at some moment since that preflight began.
DispatchReflectsRefresh ==
  \A d \in Clients :
    client[d].pc = "sent" /\ client[d].decision # "legacy" =>
      /\ client[d].decision \in Permitted
      /\ <<client[d].gen, client[d].decision>> \in held[d]

\* Once a generation is known to have gates it is never treated as legacy
\* again, whatever other clients' negotiations conclude.
GatedIsSticky ==
  [][status.support = "gated" /\ status'.gen = status.gen => status'.support = "gated"]_vars

\* A cached snapshot never goes back to an older revision of its generation:
\* pushes and refreshes that cross each other are ordered by revision.
RevisionsGrow ==
  [][status'.gen = status.gen /\ status.snap.mode # "absent"
       => status'.snap.rev >= status.snap.rev]_vars

\* The gates shown for the installed connection came over that connection:
\* frames read late from a replaced tab do not reach its successor's status.
StatusFromOwnTab ==
  status.gen = conn /\ status.snap.mode # "absent" => status.snap.from = conn

\* What is known of a generation only grows: neither its support for gates nor
\* the revision of its gates goes back (capture_helper_metadata,
\* negotiate_capabilities).
StatusOnlyLearns == GatedIsSticky /\ RevisionsGrow

\* Actions go by, and the status shows, the gates of the tab they belong to.
GatesOfOwnTab == DispatchReflectsRefresh /\ StatusFromOwnTab

\* Legacy requests are in flight one at a time, retries included: their
\* replies carry nothing that tells one request from another.
LegacySerialized ==
  \A d, e \in Clients :
    /\ client[d].pc = "sent" /\ client[d].legacy
    /\ client[e].pc = "sent" /\ client[e].legacy
    => d = e

\* No legacy request, which the tab cannot tell from another, goes out to a tab
\* that was found to have gates, however late its build info or the answer to
\* another client came: while the request waited for the lock, too
\* (negotiate_capabilities and request_bound).
LearnedNeverLegacy ==
  [][\A d \in Clients :
       /\ client[d].pc = "dispatch" /\ client[d].legacy /\ client'[d].pc = "sent"
       => client'[d].gen \notin learned]_vars

\* A helper that advertised its gates is never classified as legacy: it fails
\* closed when the refresh is unavailable.  The code does not keep this: build
\* info read before the status is reset is dropped (capture_helper_metadata).
AdvertisedNeverLegacy == status.support = "legacy" => status.gen \notin advertised
=============================================================================
