--------------------------- MODULE SnuBridge_proofs ---------------------------
(* Proofs about SnuBridge, for any callers, matchers and bounds: its own       *)
(* invariants, and that it implements SnuCalls.                              *)
EXTENDS SnuBridge, TLAPS

----------------------------------------------------------------------------
(* Resolve                                                                 *)

\* Handing out results keeps the waiters and the callers well-typed.
LEMMA ResolveTypes ==
  ASSUME TypeOK, NEW W, NEW outcome \in Outcome, NEW answer \in Request \cup {NoRequest},
         Resolve(W, outcome, answer)
  PROVE  waiters' \in SUBSET Waiter /\ caller' \in [Callers -> CallerState]
<1>1. waiters' \in SUBSET Waiter
  BY DEF Resolve, TypeOK
<1>2. ASSUME NEW c \in Callers PROVE Finish(c, outcome, answer) \in CallerState
  <2>1. caller[c] \in CallerState
    BY DEF TypeOK
  <2>2. "idle" \in CallPC
    BY DEF CallPC
  <2> QED BY <2>1, <2>2 DEF Finish, CallerState
<1>3. caller' \in [Callers -> CallerState]
  BY <1>2 DEF Resolve, TypeOK
<1> QED BY <1>1, <1>3

\* A call that ends keeps its caller well-typed.
LEMMA EndTypes ==
  ASSUME TypeOK, NEW c \in Callers, NEW outcome \in Outcome, End(c, outcome)
  PROVE  caller' \in [Callers -> CallerState]
<1>1. caller[c] \in CallerState /\ "idle" \in CallPC
  BY DEF TypeOK, CallPC
<1>2. Finish(c, outcome, NoRequest) \in CallerState
  BY <1>1 DEF Finish, CallerState
<1> QED BY <1>2 DEF End, TypeOK

\* What handing out results does: the waiters in W go, and a caller changes
\* only if it waits and one of them is its own.
LEMMA ResolveEffect ==
  ASSUME TypeOK, NEW W, NEW outcome, NEW answer, Resolve(W, outcome, answer)
  PROVE  /\ waiters' = waiters \ W
         /\ \A c \in Callers :
              \/ caller'[c] = caller[c]
              \/ /\ caller[c].pc = "waiting" /\ \E w \in W : w.owner = Current(c)
                 /\ caller'[c].pc = "idle" /\ caller'[c].n = caller[c].n
                 /\ caller'[c].outcome = outcome
         /\ \A c \in Callers : (\E w \in W : w.owner = Current(c)) => caller'[c].pc # "waiting"
<1>1. waiters' = waiters \ W
  BY DEF Resolve
<1>2. ASSUME NEW c \in Callers
      PROVE  /\ \/ caller'[c] = caller[c]
                \/ /\ caller[c].pc = "waiting" /\ \E w \in W : w.owner = Current(c)
                   /\ caller'[c].pc = "idle" /\ caller'[c].n = caller[c].n
                   /\ caller'[c].outcome = outcome
             /\ (\E w \in W : w.owner = Current(c)) => caller'[c].pc # "waiting"
  <2>1. caller[c] \in CallerState
    BY DEF TypeOK
  <2>2. CASE \E w \in W : w.owner[1] = c /\ IsLive(w)
    <3>1. caller'[c] = Finish(c, outcome, answer)
      BY <2>2 DEF Resolve
    <3>2. caller[c].pc = "waiting" /\ \E w \in W : w.owner = Current(c)
      BY <2>2 DEF IsLive
    <3> QED BY <2>1, <3>1, <3>2 DEF Finish, CallerState
  <2>3. CASE ~\E w \in W : w.owner[1] = c /\ IsLive(w)
    <3>1. caller'[c] = caller[c]
      BY <2>3 DEF Resolve
    <3>2. caller[c].pc = "waiting" => ~\E w \in W : w.owner = Current(c)
      BY <2>3 DEF IsLive, Current
    <3> QED BY <3>1, <3>2
  <2> QED BY <2>2, <2>3
<1> QED BY <1>1, <1>2

----------------------------------------------------------------------------
(* Which generation each task works for.                                   *)

\* The tasks are busy with generations that have been handed out, and the
\* connection being attached is newer than the installed one.
TaskGens ==
  /\ heartbeat.pc # "sleep" => heartbeat.gen # 0
  /\ heartbeat.gen <= generation /\ conn <= generation
  /\ attacher.pc = "install" => attacher.gen = generation /\ conn < generation
  /\ attacher.pc = "failPrevious" => attacher.previous # 0
  /\ \A g \in Gens : g > generation => reader[g] = "none"

\* A task is about to detach only a connection whose socket does not work.
DetachTargets ==
  /\ heartbeat.pc = "detach" => socket[heartbeat.gen] # "up"
  /\ \A g \in Gens : reader[g] = "detach" => socket[g] # "up"

\* A caller that is busy has begun a call.
CallsBegun == \A c \in Callers : caller[c].pc # "idle" => caller[c].n # 0

\* No waiter is ahead of its caller's calls, and a call that has not sent its
\* request has no waiter yet.
WaitersBehindCalls ==
  \A w \in waiters :
    /\ w.owner[2] <= caller[w.owner[1]].n
    /\ caller[w.owner[1]].pc \in {"connecting", "enqueue"} => w.owner # Current(w.owner[1])

\* A caller that waits for a session never is where a request can lose its
\* connection, and its waiter belongs to no generation.
SessionWaits ==
  /\ \A c \in Callers : ~IsRequest(c) => caller[c].pc \in {"idle", "waiting"}
  /\ \A w \in waiters : ~IsRequest(w.owner[1]) => w.gen = 0
  /\ \A c \in Callers : ~IsRequest(c) /\ caller[c].pc = "waiting" =>
                           \E w \in waiters : w.owner = Current(c)
  /\ \A c \in Callers : ~IsRequest(c) => caller[c].outcome # "disconnected"

IInv ==
  /\ TypeOK /\ TaskGens /\ DetachTargets
  /\ CallsBegun /\ WaitersBehindCalls /\ SessionWaits
  /\ GoneWaitersFailing /\ NoBannerStranded

----------------------------------------------------------------------------
(* TypeOK is an invariant.                                                 *)

\* Every step of the accept loop, the heartbeat or send_banner keeps the types.
LEMMA ManagerTypes ==
  ASSUME TypeOK, TaskGens,
         BindFails \/ BindSucceeds \/ Attach \/ Heartbeat \/ SendBanner
  PROVE  TypeOK'
<1> USE BoundAssumption DEF vars, connVars, taskVars, peerVars, callVars, Gens, GenOrNone
<1>1. CASE BindFails
  BY <1>1 DEF BindFails, TypeOK
<1>2. CASE BindSucceeds
  BY <1>2 DEF BindSucceeds, TypeOK
<1>3. CASE AttachSpawn
  <2>1. generation + 1 \in 1 .. MaxGen
    BY <1>3 DEF AttachSpawn, TypeOK
  <2>2. attacher' \in [pc : AttachPC, gen : 0 .. MaxGen, previous : 0 .. MaxGen]
    BY <1>3, <2>1 DEF AttachSpawn, AttachPC
  <2>3. reader' \in [1 .. MaxGen -> ReaderPC]
    BY <1>3 DEF AttachSpawn, TypeOK, ReaderPC
  <2>4. socket' \in [1 .. MaxGen -> {"none", "up", "silent", "down"}]
    BY <1>3 DEF AttachSpawn, TypeOK
  <2> QED BY <1>3, <2>1, <2>2, <2>3, <2>4 DEF AttachSpawn, TypeOK
<1>4. CASE AttachInstall
  <2>1. attacher' \in [pc : AttachPC, gen : 0 .. MaxGen, previous : 0 .. MaxGen]
    BY <1>4 DEF AttachInstall, TypeOK, AttachPC
  <2>2. conn' \in 0 .. MaxGen /\ aborted' \in SUBSET (1 .. MaxGen)
    BY <1>4 DEF AttachInstall, TypeOK
  <2> QED BY <1>4, <2>1, <2>2 DEF AttachInstall, TypeOK
<1>5. CASE AttachFailPrevious
  <2>1. waiters' \in SUBSET Waiter /\ caller' \in [Callers -> CallerState]
    BY <1>5, ResolveTypes DEF AttachFailPrevious, FailWaiters, Outcome
  <2>2. attacher' \in [pc : AttachPC, gen : 0 .. MaxGen, previous : 0 .. MaxGen]
    BY <1>5 DEF AttachFailPrevious, TypeOK, AttachPC
  <2> QED BY <1>5, <2>1, <2>2 DEF AttachFailPrevious, TypeOK
<1>6. CASE AttachGreet
  <2>1. attacher' \in [pc : AttachPC, gen : 0 .. MaxGen, previous : 0 .. MaxGen]
    BY <1>6 DEF AttachGreet, AttachPC
  <2> QED BY <1>6, <2>1 DEF AttachGreet, TypeOK
<1>7. CASE HeartbeatPings \/ HeartbeatReaps
  <2>1. heartbeat' \in [pc : HeartbeatPC, gen : 0 .. MaxGen]
    BY <1>7 DEF HeartbeatPings, HeartbeatReaps, SweepWaiters, TypeOK, HeartbeatPC
  <2> QED BY <1>7, <2>1 DEF HeartbeatPings, HeartbeatReaps, SweepWaiters, TypeOK
<1>8. CASE HeartbeatDetach
  <2>1. heartbeat' \in [pc : HeartbeatPC, gen : 0 .. MaxGen]
    <3>1. CASE TakeConn(heartbeat.gen) /\ heartbeat' = [heartbeat EXCEPT !.pc = "flag"]
      BY <3>1 DEF TypeOK, HeartbeatPC
    <3>2. CASE heartbeat' = [pc |-> "sleep", gen |-> 0]
      BY <3>2 DEF HeartbeatPC
    <3> QED BY <1>8, <3>1, <3>2 DEF HeartbeatDetach
  <2>2. conn' \in 0 .. MaxGen /\ aborted' \in SUBSET (1 .. MaxGen)
    BY <1>8 DEF HeartbeatDetach, TakeConn, TypeOK, TaskGens
  <2> QED BY <1>8, <2>1, <2>2 DEF HeartbeatDetach, TypeOK
<1>9. CASE HeartbeatClearsFlag
  <2>1. heartbeat' \in [pc : HeartbeatPC, gen : 0 .. MaxGen]
    BY <1>9 DEF HeartbeatClearsFlag, TypeOK, HeartbeatPC
  <2> QED BY <1>9, <2>1 DEF HeartbeatClearsFlag, ClearConnected, TypeOK
<1>10. CASE HeartbeatFailsWaiters
  <2>1. waiters' \in SUBSET Waiter /\ caller' \in [Callers -> CallerState]
    BY <1>10, ResolveTypes DEF HeartbeatFailsWaiters, FailWaiters, Outcome
  <2>2. heartbeat' \in [pc : HeartbeatPC, gen : 0 .. MaxGen]
    BY <1>10 DEF HeartbeatFailsWaiters, HeartbeatPC
  <2> QED BY <1>10, <2>1, <2>2 DEF HeartbeatFailsWaiters, TypeOK
<1>11. CASE SendBanner
  BY <1>11 DEF SendBanner, TypeOK
<1> QED BY <1>1, <1>2, <1>3, <1>4, <1>5, <1>6, <1>7, <1>8, <1>9, <1>10, <1>11 DEF Attach, Heartbeat, HeartbeatDetaches

\* The tail of a queue of frames is one, and its head is a frame.
LEMMA InboxTypes ==
  ASSUME TypeOK, NEW g \in Gens
  PROVE  /\ inbox[g] # <<>> => Head(inbox[g]) \in Message /\ Tail(inbox[g]) \in Seq(Message)
         /\ \A m \in Message : Append(inbox[g], m) \in Seq(Message)
<1>1. inbox[g] \in Seq(Message)
  BY DEF TypeOK
<1> HIDE DEF Message
<1> QED BY <1>1

\* Every step of a reader or of the helper behind connection g keeps the types.
LEMMA ConnectionTypes ==
  ASSUME TypeOK, NEW g \in Gens, Reader(g) \/ Helper(g)
  PROVE  TypeOK'
<1> USE BoundAssumption DEF vars, connVars, taskVars, peerVars, callVars
<1>1. CASE ReaderDeliver(g)
  <2>1. Head(inbox[g]) \in Message /\ Tail(inbox[g]) \in Seq(Message)
    BY <1>1, InboxTypes DEF ReaderDeliver
  <2>2. Head(inbox[g]).req \in Request \cup {NoRequest}
    BY <2>1 DEF Message, Token
  <2>3. waiters' \in SUBSET Waiter /\ caller' \in [Callers -> CallerState]
    BY <1>1, <2>2, ResolveTypes DEF ReaderDeliver, Outcome
  <2>4. inbox' \in [Gens -> Seq(Message)]
    BY <1>1, <2>1 DEF ReaderDeliver, TypeOK
  <2> QED BY <1>1, <2>3, <2>4 DEF ReaderDeliver, TypeOK
<1>2. CASE ReaderEnds(g)
  <2>1. reader' \in [Gens -> ReaderPC]
    BY <1>2 DEF ReaderEnds, TypeOK, ReaderPC
  <2> QED BY <1>2, <2>1 DEF ReaderEnds, TypeOK
<1>3. CASE ReaderDetach(g)
  <2>1. reader' \in [Gens -> ReaderPC]
    BY <1>3 DEF ReaderDetach, TypeOK, ReaderPC
  <2>2. conn' \in GenOrNone /\ aborted' \in SUBSET Gens
    BY <1>3 DEF ReaderDetach, TakeConn, TypeOK, GenOrNone
  <2> QED BY <1>3, <2>1, <2>2 DEF ReaderDetach, TypeOK
<1>4. CASE ReaderClearsFlag(g)
  <2>1. reader' \in [Gens -> ReaderPC]
    BY <1>4 DEF ReaderClearsFlag, TypeOK, ReaderPC
  <2> QED BY <1>4, <2>1 DEF ReaderClearsFlag, ClearConnected, TypeOK
<1>5. CASE ReaderFailsWaiters(g)
  <2>1. waiters' \in SUBSET Waiter /\ caller' \in [Callers -> CallerState]
    BY <1>5, ResolveTypes DEF ReaderFailsWaiters, FailWaiters, Outcome
  <2>2. reader' \in [Gens -> ReaderPC]
    BY <1>5 DEF ReaderFailsWaiters, TypeOK, ReaderPC
  <2> QED BY <1>5, <2>1, <2>2 DEF ReaderFailsWaiters, TypeOK
<1>6. CASE ReaderCancelled(g)
  <2>1. reader' \in [Gens -> ReaderPC]
    BY <1>6 DEF ReaderCancelled, TypeOK, ReaderPC
  <2>2. inbox' \in [Gens -> Seq(Message)]
    BY <1>6 DEF ReaderCancelled, TypeOK
  <2> QED BY <1>6, <2>1, <2>2 DEF ReaderCancelled, TypeOK
<1>7. ASSUME NEW m \in Message, Arrive(g, m) PROVE inbox' \in [Gens -> Seq(Message)]
  BY <1>7, InboxTypes DEF Arrive, TypeOK
<1>8. CASE HelperReplies(g)
  <2>1. PICK r \in sent : Arrive(g, Reply(r.owner)) /\ replied' = replied \cup {r.owner}
    BY <1>8 DEF HelperReplies
  <2>2. r.owner \in Request
    BY DEF TypeOK, Waiter
  <2>3. Reply(r.owner) \in Message
    BY <2>2 DEF Reply, Message
  <2>4. inbox' \in [Gens -> Seq(Message)]
    BY <1>7, <2>1, <2>3
  <2> QED BY <1>8, <2>1, <2>2, <2>4 DEF HelperReplies, TypeOK
<1>9. CASE HelperPushesToken(g)
  <2>1. Token \in Message
    BY DEF Message
  <2>2. inbox' \in [Gens -> Seq(Message)]
    BY <1>7, <1>9, <2>1 DEF HelperPushesToken
  <2> QED BY <1>9, <2>2 DEF HelperPushesToken, TypeOK
<1>10. CASE HelperCloses(g)
  BY <1>10 DEF HelperCloses, TypeOK
<1>11. CASE SocketGoesSilent(g)
  BY <1>11 DEF SocketGoesSilent, TypeOK
<1> QED BY <1>1, <1>2, <1>3, <1>4, <1>5, <1>6, <1>8, <1>9, <1>10, <1>11 DEF Reader, Helper

\* Every step of a call keeps the types.
LEMMA CallTypes ==
  ASSUME TypeOK, CallsBegun, NEW c \in Callers, Call(c)
  PROVE  TypeOK'
<1> USE DEF vars, connVars, taskVars, peerVars, callVars
<1>a. ASSUME caller' \in [Callers -> CallerState], waiters' \in SUBSET Waiter,
             sent' \in SUBSET Waiter, UNCHANGED <<connVars, taskVars>>,
             UNCHANGED <<socket, inbox, replied, tokens>>
      PROVE  TypeOK'
  BY <1>a DEF TypeOK
<1>b. /\ caller[c] \in CallerState /\ {"idle", "connecting", "enqueue", "waiting"} \subseteq CallPC
      /\ caller[c].n + 1 \in Nat /\ caller[c].n \in Nat
      /\ {"none", "notConnected", "portConflict", "disconnected", "timeout"} \subseteq Outcome
  BY BoundAssumption DEF TypeOK, CallPC, CallerState, Outcome
<1>c. ASSUME NEW x \in CallerState, caller' = [caller EXCEPT ![c] = x]
      PROVE  caller' \in [Callers -> CallerState]
  BY <1>c DEF TypeOK
<1>d. ASSUME caller[c].n < MaxCalls, NEW pc \in CallPC, NEW outcome \in Outcome
      PROVE  [pc |-> pc, n |-> caller[c].n + 1, seen |-> FALSE,
              outcome |-> outcome, answer |-> NoRequest] \in CallerState
  BY <1>b, <1>d, BoundAssumption DEF CallerState
<1>1. CASE CallFindsPortTaken(c)
  <2>1. caller' \in [Callers -> CallerState]
    BY <1>1, <1>b, <1>c, <1>d DEF CallFindsPortTaken
  <2> QED BY <1>1, <1>a, <2>1 DEF CallFindsPortTaken, TypeOK
<1>2. CASE RequestStart(c)
  <2>1. caller' \in [Callers -> CallerState]
    BY <1>2, <1>b, <1>c, <1>d DEF RequestStart, Begin
  <2> QED BY <1>2, <1>a, <2>1 DEF RequestStart, TypeOK
<1>3. CASE RequestConnected(c)
  <2>1. caller' \in [Callers -> CallerState]
    BY <1>3, <1>b DEF RequestConnected, CallerState, TypeOK
  <2> QED BY <1>3, <1>a, <2>1 DEF RequestConnected, TypeOK
<1>4. CASE RequestNotConnected(c)
  <2>1. caller' \in [Callers -> CallerState]
    BY <1>4, <1>b, EndTypes DEF RequestNotConnected
  <2> QED BY <1>4, <1>a, <2>1 DEF RequestNotConnected, TypeOK
<1>5. CASE RequestEnqueue(c)
  <2>1. [owner |-> Current(c), gen |-> conn] \in Waiter
    <3>1. caller[c].n \in 0 .. MaxCalls /\ caller[c].n # 0
      BY <1>5, <1>b DEF RequestEnqueue, CallsBegun, CallerState
    <3>2. caller[c].n \in 1 .. MaxCalls
      BY <3>1, BoundAssumption
    <3>3. Current(c) \in Request /\ conn \in GenOrNone
      BY <3>2 DEF Current, Request, TypeOK
    <3> QED BY <3>3 DEF Waiter
  <2>2. waiters' \in SUBSET Waiter /\ sent' \in SUBSET Waiter
    BY <1>5, <2>1 DEF RequestEnqueue, TypeOK
  <2>3. caller' \in [Callers -> CallerState]
    <3>1. [caller[c] EXCEPT !.pc = "waiting"] \in CallerState
      BY <1>b DEF CallerState
    <3> QED BY <1>5, <1>b, <1>c, <3>1, EndTypes DEF RequestEnqueue
  <2> QED BY <1>5, <1>a, <2>2, <2>3 DEF RequestEnqueue
<1>6. CASE RequestFindsNoConn(c)
  <2>1. caller' \in [Callers -> CallerState]
    BY <1>6, <1>b, EndTypes DEF RequestFindsNoConn
  <2> QED BY <1>6, <1>a, <2>1 DEF RequestFindsNoConn, TypeOK
<1>7. CASE CallTimeout(c)
  <2>1. caller' \in [Callers -> CallerState]
    BY <1>7, <1>b, EndTypes DEF CallTimeout
  <2> QED BY <1>7, <1>a, <2>1 DEF CallTimeout, TypeOK
<1>8. CASE SessionStart(c)
  <2>1. caller' \in [Callers -> CallerState]
    BY <1>8, <1>b, <1>c, <1>d DEF SessionStart, Begin
  <2>2. [owner |-> <<c, caller[c].n + 1>>, gen |-> 0] \in Waiter
    BY <1>8, <1>b, BoundAssumption DEF SessionStart, Begin, Waiter, Request, GenOrNone
  <2> QED BY <1>8, <1>a, <2>1, <2>2 DEF SessionStart, TypeOK
<1>9. CASE SessionSeesConnected(c)
  <2>1. caller' \in [Callers -> CallerState]
    BY <1>9, <1>b DEF SessionSeesConnected, CallerState, TypeOK
  <2> QED BY <1>9, <1>a, <2>1 DEF SessionSeesConnected, TypeOK
<1>10. CASE SessionNotConnected(c)
  <2>1. caller' \in [Callers -> CallerState]
    BY <1>10, <1>b, EndTypes DEF SessionNotConnected
  <2> QED BY <1>10, <1>a, <2>1 DEF SessionNotConnected, TypeOK
<1> QED BY <1>1, <1>2, <1>3, <1>4, <1>5, <1>6, <1>7, <1>8, <1>9, <1>10 DEF Call

----------------------------------------------------------------------------
(* The tasks and their generations.                                        *)

\* No step gives a task a generation that was not handed out.
LEMMA TaskGensStep ==
  ASSUME TypeOK, TaskGens, DetachTargets, Next
  PROVE  TaskGens'
<1> USE BoundAssumption DEF TaskGens, TypeOK, connVars, taskVars, peerVars, Gens, GenOrNone
<1>1. CASE BindFails
  BY <1>1 DEF BindFails
<1>2. CASE BindSucceeds
  BY <1>2 DEF BindSucceeds
<1>3. CASE AttachSpawn
  BY <1>3 DEF AttachSpawn
<1>4. CASE AttachInstall
  BY <1>4 DEF AttachInstall
<1>5. CASE AttachFailPrevious
  BY <1>5 DEF AttachFailPrevious
<1>6. CASE AttachGreet
  BY <1>6 DEF AttachGreet
<1>7. CASE HeartbeatPings \/ HeartbeatReaps
  BY <1>7 DEF HeartbeatPings, HeartbeatReaps, SweepWaiters, IsSilent
<1>8. CASE HeartbeatDetach
  BY <1>8 DEF HeartbeatDetach, TakeConn
<1>9. CASE HeartbeatClearsFlag
  BY <1>9 DEF HeartbeatClearsFlag, ClearConnected
<1>10. CASE HeartbeatFailsWaiters
  BY <1>10 DEF HeartbeatFailsWaiters
<1>11. CASE SendBanner
  BY <1>11 DEF SendBanner
<1>12. ASSUME NEW g \in Gens, ReaderDeliver(g) PROVE TaskGens'
  BY <1>12 DEF ReaderDeliver
<1>13. ASSUME NEW g \in Gens, ReaderEnds(g) PROVE TaskGens'
  BY <1>13 DEF ReaderEnds
<1>14. ASSUME NEW g \in Gens, ReaderDetach(g) PROVE TaskGens'
  BY <1>14 DEF ReaderDetach, TakeConn
<1>15. ASSUME NEW g \in Gens, ReaderClearsFlag(g) PROVE TaskGens'
  BY <1>15 DEF ReaderClearsFlag, ClearConnected
<1>16. ASSUME NEW g \in Gens, ReaderFailsWaiters(g) PROVE TaskGens'
  BY <1>16 DEF ReaderFailsWaiters
<1>17. ASSUME NEW g \in Gens, ReaderCancelled(g) PROVE TaskGens'
  BY <1>17 DEF ReaderCancelled
<1>18. ASSUME NEW g \in Gens, HelperReplies(g) PROVE TaskGens'
  BY <1>18 DEF HelperReplies, Arrive, IsOpen
<1>19. ASSUME NEW g \in Gens, HelperPushesToken(g) PROVE TaskGens'
  BY <1>19 DEF HelperPushesToken, Arrive, IsOpen
<1>20. ASSUME NEW g \in Gens, HelperCloses(g) PROVE TaskGens'
  BY <1>20 DEF HelperCloses, IsOpen
<1>21. ASSUME NEW g \in Gens, SocketGoesSilent(g) PROVE TaskGens'
  BY <1>21 DEF SocketGoesSilent, IsOpen
<1>22. ASSUME NEW c \in Callers, Call(c) PROVE TaskGens'
  BY <1>22 DEF Call, CallFindsPortTaken, RequestStart, RequestConnected, RequestNotConnected,
     RequestEnqueue, RequestFindsNoConn, CallTimeout, SessionStart, SessionSeesConnected,
     SessionNotConnected
<1> QED
  BY <1>1, <1>2, <1>3, <1>4, <1>5, <1>6, <1>7, <1>8, <1>9, <1>10, <1>11, <1>12, <1>13, <1>14,
     <1>15, <1>16, <1>17, <1>18, <1>19, <1>20, <1>21, <1>22
     DEF Next, Attach, Heartbeat, HeartbeatDetaches, Reader, Helper

\* No step brings the socket of a connection to be detached back to life.
LEMMA DetachTargetsStep ==
  ASSUME TypeOK, TaskGens, DetachTargets, Next
  PROVE  DetachTargets'
<1> USE BoundAssumption DEF DetachTargets, TypeOK, connVars, taskVars, peerVars, Gens, GenOrNone
<1>1. CASE BindFails
  BY <1>1 DEF BindFails
<1>2. CASE BindSucceeds
  BY <1>2 DEF BindSucceeds
<1>3. CASE AttachSpawn
  BY <1>3 DEF AttachSpawn, TaskGens
<1>4. CASE AttachInstall
  BY <1>4 DEF AttachInstall
<1>5. CASE AttachFailPrevious
  BY <1>5 DEF AttachFailPrevious
<1>6. CASE AttachGreet
  BY <1>6 DEF AttachGreet
<1>7. CASE HeartbeatPings \/ HeartbeatReaps
  BY <1>7 DEF HeartbeatPings, HeartbeatReaps, SweepWaiters, IsSilent
<1>8. CASE HeartbeatDetach
  BY <1>8 DEF HeartbeatDetach, TakeConn
<1>9. CASE HeartbeatClearsFlag
  BY <1>9 DEF HeartbeatClearsFlag, ClearConnected
<1>10. CASE HeartbeatFailsWaiters
  BY <1>10 DEF HeartbeatFailsWaiters
<1>11. CASE SendBanner
  BY <1>11 DEF SendBanner
<1>12. ASSUME NEW g \in Gens, ReaderDeliver(g) PROVE DetachTargets'
  BY <1>12 DEF ReaderDeliver
<1>13. ASSUME NEW g \in Gens, ReaderEnds(g) PROVE DetachTargets'
  BY <1>13 DEF ReaderEnds
<1>14. ASSUME NEW g \in Gens, ReaderDetach(g) PROVE DetachTargets'
  BY <1>14 DEF ReaderDetach, TakeConn
<1>15. ASSUME NEW g \in Gens, ReaderClearsFlag(g) PROVE DetachTargets'
  BY <1>15 DEF ReaderClearsFlag, ClearConnected
<1>16. ASSUME NEW g \in Gens, ReaderFailsWaiters(g) PROVE DetachTargets'
  BY <1>16 DEF ReaderFailsWaiters
<1>17. ASSUME NEW g \in Gens, ReaderCancelled(g) PROVE DetachTargets'
  BY <1>17 DEF ReaderCancelled
<1>18. ASSUME NEW g \in Gens, HelperReplies(g) PROVE DetachTargets'
  BY <1>18 DEF HelperReplies, Arrive, IsOpen
<1>19. ASSUME NEW g \in Gens, HelperPushesToken(g) PROVE DetachTargets'
  BY <1>19 DEF HelperPushesToken, Arrive, IsOpen
<1>20. ASSUME NEW g \in Gens, HelperCloses(g) PROVE DetachTargets'
  BY <1>20 DEF HelperCloses, IsOpen
<1>21. ASSUME NEW g \in Gens, SocketGoesSilent(g) PROVE DetachTargets'
  BY <1>21 DEF SocketGoesSilent, IsOpen
<1>22. ASSUME NEW c \in Callers, Call(c) PROVE DetachTargets'
  BY <1>22 DEF Call, CallFindsPortTaken, RequestStart, RequestConnected, RequestNotConnected,
     RequestEnqueue, RequestFindsNoConn, CallTimeout, SessionStart, SessionSeesConnected,
     SessionNotConnected
<1> QED
  BY <1>1, <1>2, <1>3, <1>4, <1>5, <1>6, <1>7, <1>8, <1>9, <1>10, <1>11, <1>12, <1>13, <1>14,
     <1>15, <1>16, <1>17, <1>18, <1>19, <1>20, <1>21, <1>22
     DEF Next, Attach, Heartbeat, HeartbeatDetaches, Reader, Helper

----------------------------------------------------------------------------
(* Waiters and calls.                                                      *)

\* Steps that neither register a waiter nor begin a call: the waiters shrink,
\* and a caller changes only from waiting to idle, within the same call.
Settles ==
  /\ waiters' \subseteq waiters
  /\ \A c \in Callers :
       \/ caller'[c] = caller[c]
       \/ caller[c].pc = "waiting" /\ caller'[c].pc = "idle" /\ caller'[c].n = caller[c].n

\* Every step of the manager's tasks and of the helper only settles calls.
LEMMA OthersSettle ==
  ASSUME TypeOK,
         \/ BindFails \/ BindSucceeds \/ Attach \/ Heartbeat \/ SendBanner
         \/ \E g \in Gens : Reader(g) \/ Helper(g)
  PROVE  Settles
<1>1. CASE \E W, outcome, answer : Resolve(W, outcome, answer)
  BY <1>1, ResolveEffect DEF Settles
<1>2. CASE HeartbeatPings \/ HeartbeatReaps
  BY <1>2 DEF HeartbeatPings, HeartbeatReaps, SweepWaiters, Settles
<1>3. CASE UNCHANGED callVars
  BY <1>3 DEF Settles, callVars
<1> QED
  BY <1>1, <1>2, <1>3
     DEF BindFails, BindSucceeds, Attach, AttachSpawn, AttachInstall, AttachFailPrevious, AttachGreet,
         Heartbeat, HeartbeatDetaches, HeartbeatDetach, HeartbeatClearsFlag, HeartbeatFailsWaiters, SendBanner,
         Reader, ReaderDeliver, ReaderEnds, ReaderDetach, ReaderClearsFlag, ReaderFailsWaiters,
         ReaderCancelled, Helper, HelperReplies, HelperPushesToken, HelperCloses, SocketGoesSilent,
         FailWaiters, callVars

\* What a step of a call does: it begins the next call, registers the waiter
\* of the present one, or goes on or ends without touching the waiters.
CallEffect(c) ==
  /\ \A d \in Callers \ {c} : caller'[d] = caller[d]
  /\ \/ /\ caller[c].pc = "idle" /\ caller'[c].n = caller[c].n + 1
        /\ \/ waiters' = waiters /\ caller'[c].pc \in {"idle", "connecting"}
           \/ /\ waiters' = waiters \cup {[owner |-> <<c, caller[c].n + 1>>, gen |-> 0]}
              /\ caller'[c].pc = "waiting"
     \/ /\ caller[c].pc = "enqueue" /\ caller'[c].n = caller[c].n
        /\ conn # 0 /\ waiters' = waiters \cup {[owner |-> Current(c), gen |-> conn]}
        /\ caller'[c].pc \in {"idle", "waiting"}
     \/ /\ caller[c].pc # "idle" /\ caller'[c].n = caller[c].n /\ waiters' = waiters
        /\ \/ caller'[c].pc = "idle"
           \/ caller[c].pc = "connecting" /\ caller'[c].pc = "enqueue"
           \/ caller[c].pc = "waiting" /\ caller'[c].pc = "waiting"

\* Every step of a call is of that kind.
LEMMA CallHasEffect ==
  ASSUME TypeOK, NEW c \in Callers, Call(c)
  PROVE  CallEffect(c)
<1>0. caller \in [Callers -> CallerState] /\ caller[c] \in CallerState
  BY DEF TypeOK
<1> USE <1>0 DEF CallEffect, CallerState
<1>1. CASE CallFindsPortTaken(c)
  BY <1>1 DEF CallFindsPortTaken
<1>2. CASE RequestStart(c)
  BY <1>2 DEF RequestStart, Begin
<1>3. CASE RequestConnected(c)
  BY <1>3 DEF RequestConnected
<1>4. CASE RequestNotConnected(c)
  BY <1>4 DEF RequestNotConnected, End, Finish
<1>5. CASE RequestEnqueue(c)
  <2>1. CASE caller' = [caller EXCEPT ![c].pc = "waiting"]
    BY <1>5, <2>1 DEF RequestEnqueue
  <2>2. CASE End(c, "disconnected")
    BY <1>5, <2>2 DEF RequestEnqueue, End, Finish
  <2> QED BY <1>5, <2>1, <2>2 DEF RequestEnqueue
<1>6. CASE RequestFindsNoConn(c)
  BY <1>6 DEF RequestFindsNoConn, End, Finish
<1>7. CASE CallTimeout(c)
  BY <1>7 DEF CallTimeout, End, Finish
<1>8. CASE SessionStart(c)
  BY <1>8 DEF SessionStart, Begin
<1>9. CASE SessionSeesConnected(c)
  BY <1>9 DEF SessionSeesConnected
<1>10. CASE SessionNotConnected(c)
  BY <1>10 DEF SessionNotConnected, End, Finish
<1> QED BY <1>1, <1>2, <1>3, <1>4, <1>5, <1>6, <1>7, <1>8, <1>9, <1>10 DEF Call

\* Either kind of step keeps the two invariants that tie waiters to calls.
LEMMA WaitersBehindCallsStep ==
  ASSUME TypeOK, CallsBegun, WaitersBehindCalls, Settles \/ \E c \in Callers : CallEffect(c)
  PROVE  CallsBegun' /\ WaitersBehindCalls'
<1>1. \A w \in waiters : w.owner \in Request /\ w.owner[1] \in Callers /\ w.owner[2] \in Nat
  BY BoundAssumption DEF TypeOK, Waiter, Request
<1>2. \A c \in Callers : caller[c].n \in Nat
  BY BoundAssumption DEF TypeOK, CallerState
<1>3. CASE Settles
  <2>1. CallsBegun'
    BY <1>3 DEF Settles, CallsBegun
  <2>2. WaitersBehindCalls'
    BY <1>1, <1>3 DEF Settles, WaitersBehindCalls, Current
  <2> QED BY <2>1, <2>2
<1>4. ASSUME NEW c \in Callers, CallEffect(c) PROVE CallsBegun' /\ WaitersBehindCalls'
  <2>1. CallsBegun'
    BY <1>2, <1>4 DEF CallEffect, CallsBegun
  <2>2. ASSUME NEW w \in waiters'
        PROVE  /\ w.owner[2] <= caller'[w.owner[1]].n
               /\ caller'[w.owner[1]].pc \in {"connecting", "enqueue"} => w.owner # Current(w.owner[1])'
    <3>1. CASE w \in waiters
      <4>1. /\ w.owner[1] \in Callers /\ w.owner[2] \in Nat /\ w.owner \in Request
            /\ w.owner[2] <= caller[w.owner[1]].n
            /\ caller[w.owner[1]].pc \in {"connecting", "enqueue"} => w.owner # Current(w.owner[1])
        BY <1>1, <3>1 DEF WaitersBehindCalls
      <4>2. CASE w.owner[1] # c
        BY <1>4, <4>1, <4>2 DEF CallEffect, Current
      <4>3. CASE w.owner[1] = c /\ caller[c].pc = "idle"
        BY <1>2, <1>4, <4>1, <4>3 DEF CallEffect, Current
      <4>4. CASE w.owner[1] = c /\ caller[c].pc # "idle"
        BY <1>2, <1>4, <4>1, <4>4 DEF CallEffect, Current
      <4> QED BY <4>2, <4>3, <4>4
    <3>2. CASE w \notin waiters
      BY <1>2, <1>4, <2>2, <3>2 DEF CallEffect, Current
    <3> QED BY <3>1, <3>2
  <2> QED BY <2>1, <2>2 DEF WaitersBehindCalls
<1> QED BY <1>3, <1>4

----------------------------------------------------------------------------
(* Requests whose connection is gone are being failed.                     *)

\* The waiters of generation g are served: their connection is installed, or
\* a task is about to fail them, or that task was cancelled.
Served(g) == g = conn \/ TearingDown(g) \/ reader[g] = "cancelled"

\* A step that only settles calls makes no waiter live.
LEMMA LiveBefore ==
  ASSUME TypeOK, Settles, NEW w \in waiters', IsLive(w)'
  PROVE  w \in waiters /\ IsLive(w) /\ w.owner[1] \in Callers
<1>1. w \in waiters
  BY DEF Settles
<1>2. w.owner[1] \in Callers
  BY <1>1 DEF TypeOK, Waiter, Request
<1>3. caller'[w.owner[1]].pc = "waiting" /\ w.owner = <<w.owner[1], caller'[w.owner[1]].n>>
  BY DEF IsLive, Current
<1>4. caller'[w.owner[1]] = caller[w.owner[1]]
  BY <1>2, <1>3 DEF Settles
<1> QED BY <1>1, <1>2, <1>3, <1>4 DEF IsLive, Current

\* The waiters of a served generation stay served, or are failed.
LEMMA ServedStep ==
  ASSUME TypeOK, TaskGens,
         \/ BindFails \/ BindSucceeds \/ Attach \/ Heartbeat \/ SendBanner
         \/ \E g \in Gens : Reader(g) \/ Helper(g),
         NEW w \in waiters, w.gen \in Gens, Served(w.gen), w \in waiters'
  PROVE  Served(w.gen)'
<1> USE DEF Served, TearingDown, TypeOK, connVars, taskVars
<1>1. CASE BindFails \/ BindSucceeds \/ SendBanner
  BY <1>1 DEF BindFails, BindSucceeds, SendBanner
<1>2. CASE AttachSpawn
  <2>1. w.gen # generation + 1
    BY <1>2, BoundAssumption DEF AttachSpawn, TaskGens, Gens, GenOrNone
  <2> QED BY <1>2, <2>1 DEF AttachSpawn
<1>3. CASE AttachInstall
  <2>1. CASE w.gen = conn
    <3>1. conn # 0
      BY <2>1, BoundAssumption DEF Gens
    <3>2. attacher'.pc = "failPrevious" /\ attacher'.previous = conn
      BY <1>3, <3>1 DEF AttachInstall
    <3> QED BY <2>1, <3>2
  <2>2. CASE w.gen # conn
    BY <1>3, <2>2 DEF AttachInstall
  <2> QED BY <2>1, <2>2
<1>4. CASE AttachFailPrevious
  <2>1. waiters' = waiters \ {v \in waiters : v.gen = attacher.previous}
    BY <1>4 DEF AttachFailPrevious, FailWaiters, Resolve
  <2>2. w.gen # attacher.previous
    BY <2>1
  <2> QED BY <1>4, <2>2 DEF AttachFailPrevious
<1>5. CASE AttachGreet
  BY <1>5 DEF AttachGreet
<1>6. CASE HeartbeatPings \/ HeartbeatReaps
  BY <1>6 DEF HeartbeatPings, HeartbeatReaps, SweepWaiters
<1>7. CASE HeartbeatDetach
  BY <1>7 DEF HeartbeatDetach, TakeConn
<1>8. CASE HeartbeatClearsFlag
  BY <1>8 DEF HeartbeatClearsFlag, ClearConnected
<1>9. CASE HeartbeatFailsWaiters
  <2>1. waiters' = waiters \ {v \in waiters : v.gen = heartbeat.gen}
    BY <1>9 DEF HeartbeatFailsWaiters, FailWaiters, Resolve
  <2>2. w.gen # heartbeat.gen
    BY <2>1
  <2> QED BY <1>9, <2>2 DEF HeartbeatFailsWaiters
<1>10. ASSUME NEW g \in Gens, ReaderDeliver(g) \/ Helper(g) PROVE Served(w.gen)'
  BY <1>10 DEF ReaderDeliver, Helper, HelperReplies, HelperPushesToken, HelperCloses, SocketGoesSilent
<1>11. ASSUME NEW g \in Gens, ReaderEnds(g) PROVE Served(w.gen)'
  BY <1>11 DEF ReaderEnds
<1>12. ASSUME NEW g \in Gens, ReaderDetach(g) PROVE Served(w.gen)'
  BY <1>12 DEF ReaderDetach, TakeConn
<1>13. ASSUME NEW g \in Gens, ReaderClearsFlag(g) PROVE Served(w.gen)'
  BY <1>13 DEF ReaderClearsFlag, ClearConnected
<1>14. ASSUME NEW g \in Gens, ReaderFailsWaiters(g) PROVE Served(w.gen)'
  <2>1. waiters' = waiters \ {v \in waiters : v.gen = g}
    BY <1>14 DEF ReaderFailsWaiters, FailWaiters, Resolve
  <2>2. w.gen # g
    BY <2>1
  <2> QED BY <1>14, <2>2 DEF ReaderFailsWaiters
<1>15. ASSUME NEW g \in Gens, ReaderCancelled(g) PROVE Served(w.gen)'
  BY <1>15 DEF ReaderCancelled
<1> QED
  BY <1>1, <1>2, <1>3, <1>4, <1>5, <1>6, <1>7, <1>8, <1>9, <1>10, <1>11, <1>12, <1>13, <1>14, <1>15
     DEF Attach, Heartbeat, HeartbeatDetaches, Reader

\* No step leaves the waiters of a lost connection to their timeouts.
LEMMA GoneWaitersStep ==
  ASSUME IInv, Next
  PROVE  GoneWaitersFailing'
<1> USE DEF IInv
<1>1. SUFFICES ASSUME NEW w \in waiters', IsLive(w)', w.gen # 0 PROVE Served(w.gen)'
  BY DEF GoneWaitersFailing, Served, IsLive, Current, TearingDown
<1>2. ASSUME NEW v \in waiters, IsLive(v), v.gen # 0 PROVE v.gen \in Gens /\ Served(v.gen)
  <2>1. v.gen \in Gens
    BY <1>2, BoundAssumption DEF TypeOK, Waiter, GenOrNone, Gens
  <2> QED BY <1>2, <2>1 DEF GoneWaitersFailing, Served
<1>3. CASE \/ BindFails \/ BindSucceeds \/ Attach \/ Heartbeat \/ SendBanner
           \/ \E g \in Gens : Reader(g) \/ Helper(g)
  <2>1. w \in waiters /\ IsLive(w)
    BY <1>1, <1>3, OthersSettle, LiveBefore
  <2> QED BY <1>1, <1>2, <1>3, <2>1, ServedStep
<1>4. ASSUME NEW c \in Callers, Call(c) PROVE Served(w.gen)'
  <2>1. UNCHANGED <<conn, attacher, heartbeat, reader>>
    BY <1>4 DEF Call, CallFindsPortTaken, RequestStart, RequestConnected, RequestNotConnected,
       RequestEnqueue, RequestFindsNoConn, CallTimeout, SessionStart, SessionSeesConnected,
       SessionNotConnected, connVars, taskVars
  <2>2. CallEffect(c)
    BY <1>4, CallHasEffect
  <2>3. CASE w \notin waiters
    <3>1. w.gen = conn
      BY <1>1, <2>2, <2>3 DEF CallEffect
    <3> QED BY <2>1, <3>1 DEF Served
  <2>4. CASE w \in waiters
    <3>1. w.owner[1] \in Callers /\ w.owner[2] \in Nat /\ w.owner \in Request
      BY <2>4, BoundAssumption DEF TypeOK, Waiter, Request
    <3>2. caller'[w.owner[1]].pc = "waiting" /\ w.owner = <<w.owner[1], caller'[w.owner[1]].n>>
      BY <1>1 DEF IsLive, Current
    <3>3. /\ w.owner[2] <= caller[w.owner[1]].n
          /\ caller[w.owner[1]].pc \in {"connecting", "enqueue"} => w.owner # Current(w.owner[1])
      BY <2>4 DEF WaitersBehindCalls
    <3>4. caller[w.owner[1]].n \in Nat
      BY <3>1, BoundAssumption DEF TypeOK, CallerState
    <3>5. IsLive(w)
      <4>1. CASE w.owner[1] # c
        BY <2>2, <3>1, <3>2, <4>1 DEF CallEffect, IsLive, Current
      <4>2. CASE w.owner[1] = c
        BY <2>2, <3>1, <3>2, <3>3, <3>4, <4>2 DEF CallEffect, IsLive, Current
      <4> QED BY <4>1, <4>2
    <3>6. Served(w.gen)
      BY <1>1, <1>2, <2>4, <3>5
    <3> QED BY <2>1, <3>6 DEF Served, TearingDown
  <2> QED BY <2>3, <2>4
<1> QED BY <1>3, <1>4 DEF Next

----------------------------------------------------------------------------
(* The banner, and waiting for a session.                                  *)

\* The connection that is installed while a banner is queued delivers it.
LEMMA BannerStep ==
  ASSUME TypeOK, TaskGens, NoBannerStranded, Next
  PROVE  NoBannerStranded'
<1> USE DEF NoBannerStranded, TypeOK, connVars
<1>1. CASE Attach
  BY <1>1 DEF Attach, AttachSpawn, AttachInstall, AttachFailPrevious, AttachGreet
<1>2. CASE BindFails \/ BindSucceeds \/ SendBanner
  BY <1>2 DEF BindFails, BindSucceeds, SendBanner
<1>3. CASE Heartbeat
  BY <1>3 DEF Heartbeat, HeartbeatDetaches, HeartbeatPings, HeartbeatReaps, SweepWaiters, HeartbeatDetach, TakeConn, HeartbeatClearsFlag,
     ClearConnected, HeartbeatFailsWaiters
<1>4. ASSUME NEW g \in Gens, Reader(g) \/ Helper(g) PROVE NoBannerStranded'
  BY <1>4 DEF Reader, ReaderDeliver, ReaderEnds, ReaderDetach, TakeConn, ReaderClearsFlag,
     ClearConnected, ReaderFailsWaiters, ReaderCancelled, Helper, HelperReplies, HelperPushesToken,
     HelperCloses, SocketGoesSilent
<1>5. ASSUME NEW c \in Callers, Call(c) PROVE NoBannerStranded'
  BY <1>5 DEF Call, CallFindsPortTaken, RequestStart, RequestConnected, RequestNotConnected,
     RequestEnqueue, RequestFindsNoConn, CallTimeout, SessionStart, SessionSeesConnected,
     SessionNotConnected
<1> QED BY <1>1, <1>2, <1>3, <1>4, <1>5 DEF Next

\* Failing the waiters of a connection does not reach those of no connection.
LEMMA FailKeepsSessions ==
  ASSUME TypeOK, SessionWaits, NEW g, g # 0, FailWaiters(g)
  PROVE  SessionWaits'
<1>1. Resolve({w \in waiters : w.gen = g}, "disconnected", NoRequest)
  BY DEF FailWaiters
<1>2. waiters' = waiters \ {w \in waiters : w.gen = g}
  BY <1>1, ResolveEffect
<1>3. \A w \in waiters : w.owner[1] \in Callers
  BY DEF TypeOK, Waiter, Request
<1>4. ASSUME NEW c \in Callers, ~IsRequest(c) PROVE caller'[c] = caller[c]
  <2>1. \A w \in waiters : w.owner = Current(c) => w.gen # g
    BY <1>3, <1>4 DEF SessionWaits, Current
  <2> QED BY <1>1, <1>4, <2>1, ResolveEffect
<1>5. \A w \in waiters : ~IsRequest(w.owner[1]) => w \in waiters'
  BY <1>2 DEF SessionWaits
<1>6. ASSUME NEW c \in Callers, ~IsRequest(c), caller'[c].pc = "waiting"
      PROVE  \E w \in waiters' : w.owner = Current(c)'
  <2>1. PICK w \in waiters : w.owner = Current(c)
    BY <1>4, <1>6 DEF SessionWaits
  <2>2. ~IsRequest(w.owner[1])
    BY <1>6, <2>1 DEF Current
  <2> QED BY <1>4, <1>5, <1>6, <2>1, <2>2 DEF Current
<1> QED BY <1>2, <1>4, <1>6 DEF SessionWaits, IsRequest

\* A push or a reply settles a session wait only by answering it.
LEMMA DeliverKeepsSessions ==
  ASSUME TypeOK, SessionWaits, NEW W, NEW answer, Resolve(W, "ok", answer)
  PROVE  SessionWaits'
<1>1. /\ waiters' = waiters \ W
      /\ \A c \in Callers :
           \/ caller'[c] = caller[c]
           \/ caller'[c].pc = "idle" /\ caller'[c].outcome = "ok"
      /\ \A c \in Callers : (\E w \in W : w.owner = Current(c)) => caller'[c].pc # "waiting"
  BY ResolveEffect
<1>2. ASSUME NEW c \in Callers, ~IsRequest(c), caller'[c].pc = "waiting"
      PROVE  \E w \in waiters' : w.owner = Current(c)'
  <2>1. caller'[c] = caller[c]
    BY <1>1, <1>2
  <2>2. PICK w \in waiters : w.owner = Current(c)
    BY <1>2, <2>1 DEF SessionWaits
  <2>3. w \notin W
    BY <1>1, <1>2, <2>2
  <2> QED BY <1>1, <2>1, <2>2, <2>3 DEF Current
<1> QED BY <1>1, <1>2 DEF SessionWaits, IsRequest

\* A step of one call keeps the sessions of the others, and its own.
LEMMA CallKeepsSessions ==
  ASSUME TypeOK, CallsBegun, WaitersBehindCalls, SessionWaits, NEW c \in Callers, Call(c)
  PROVE  SessionWaits'
<1>0. caller \in [Callers -> CallerState] /\ caller[c] \in CallerState
  BY DEF TypeOK
<1> USE <1>0 DEF CallerState
<1>a. ASSUME IsRequest(c), \A d \in Callers \ {c} : caller'[d] = caller[d],
             waiters \subseteq waiters', \A w \in waiters' \ waiters : w.owner[1] = c
      PROVE  SessionWaits'
  <2>1. \A d \in Callers : ~IsRequest(d) => caller'[d] = caller[d]
    BY <1>a
  <2>2. \A w \in waiters' : ~IsRequest(w.owner[1]) => w.gen = 0
    BY <1>a DEF SessionWaits
  <2>3. ASSUME NEW d \in Callers, ~IsRequest(d), caller'[d].pc = "waiting"
        PROVE  \E w \in waiters' : w.owner = <<d, caller'[d].n>>
    <3>1. PICK w \in waiters : w.owner = Current(d)
      BY <2>1, <2>3 DEF SessionWaits
    <3> QED BY <1>a, <2>1, <2>3, <3>1 DEF Current
  <2> QED BY <2>1, <2>2, <2>3 DEF SessionWaits, IsRequest, Current
<1>b. ASSUME ~IsRequest(c), waiters' = waiters,
             \A d \in Callers \ {c} : caller'[d] = caller[d],
             \/ caller'[c].pc = "idle" /\ caller'[c].outcome # "disconnected"
             \/ /\ caller'[c].pc = caller[c].pc /\ caller'[c].n = caller[c].n
                /\ caller'[c].outcome = caller[c].outcome
      PROVE  SessionWaits'
  <2>1. ASSUME NEW d \in Callers, ~IsRequest(d)
        PROVE  /\ caller'[d].pc \in {"idle", "waiting"}
               /\ caller'[d].outcome # "disconnected"
    BY <1>b, <2>1 DEF SessionWaits
  <2>2. ASSUME NEW d \in Callers, ~IsRequest(d), caller'[d].pc = "waiting"
        PROVE  \E w \in waiters' : w.owner = <<d, caller'[d].n>>
    <3>1. caller[d].pc = "waiting" /\ caller'[d].n = caller[d].n
      BY <1>b, <2>2
    <3>2. PICK w \in waiters : w.owner = Current(d)
      BY <2>2, <3>1 DEF SessionWaits
    <3> QED BY <1>b, <3>1, <3>2 DEF Current
  <2>3. \A w \in waiters' : ~IsRequest(w.owner[1]) => w.gen = 0
    BY <1>b DEF SessionWaits
  <2> QED BY <2>1, <2>2, <2>3 DEF SessionWaits, IsRequest, Current
<1>1. CASE CallFindsPortTaken(c)
  <2>1. /\ waiters' = waiters
        /\ \A d \in Callers \ {c} : caller'[d] = caller[d]
        /\ caller'[c].pc = "idle" /\ caller'[c].outcome # "disconnected"
    BY <1>1 DEF CallFindsPortTaken
  <2>2. CASE IsRequest(c)
    BY <2>1, <2>2, <1>a
  <2>3. CASE ~IsRequest(c)
    BY <2>1, <2>3, <1>b
  <2> QED BY <2>2, <2>3
<1>2. CASE RequestStart(c)
  BY <1>2, <1>a DEF RequestStart, Begin
<1>3. CASE RequestConnected(c) \/ RequestNotConnected(c) \/ RequestFindsNoConn(c)
  <2>1. IsRequest(c)
    BY <1>3 DEF RequestConnected, RequestNotConnected, RequestFindsNoConn, SessionWaits
  <2>2. waiters' = waiters /\ \A d \in Callers \ {c} : caller'[d] = caller[d]
    BY <1>3 DEF RequestConnected, RequestNotConnected, RequestFindsNoConn, End
  <2> QED BY <2>1, <2>2, <1>a
<1>4. CASE RequestEnqueue(c)
  <2>1. IsRequest(c)
    BY <1>4 DEF RequestEnqueue, SessionWaits
  <2>2. \A d \in Callers \ {c} : caller'[d] = caller[d]
    BY <1>4 DEF RequestEnqueue, End
  <2>3. waiters' = waiters \cup {[owner |-> Current(c), gen |-> conn]}
    BY <1>4 DEF RequestEnqueue
  <2>4. Current(c)[1] = c
    BY DEF Current
  <2> QED BY <2>1, <2>2, <2>3, <2>4, <1>a
<1>5. CASE CallTimeout(c)
  <2>1. /\ waiters' = waiters
        /\ \A d \in Callers \ {c} : caller'[d] = caller[d]
        /\ caller'[c].pc = "idle" /\ caller'[c].outcome # "disconnected"
    BY <1>5 DEF CallTimeout, End, Finish
  <2>2. CASE IsRequest(c)
    BY <2>1, <2>2, <1>a
  <2>3. CASE ~IsRequest(c)
    BY <2>1, <2>3, <1>b
  <2> QED BY <2>2, <2>3
<1>6. CASE SessionStart(c)
  <2>1. /\ waiters' = waiters \cup {[owner |-> <<c, caller[c].n + 1>>, gen |-> 0]}
        /\ caller'[c].pc = "waiting" /\ caller'[c].n = caller[c].n + 1
        /\ caller'[c].outcome = "none" /\ ~IsRequest(c)
        /\ \A d \in Callers \ {c} : caller'[d] = caller[d]
    BY <1>6 DEF SessionStart, Begin
  <2>2. \E w \in waiters' : w.owner = <<c, caller'[c].n>>
    <3> DEFINE mine == [owner |-> <<c, caller[c].n + 1>>, gen |-> 0]
    <3>1. mine \in waiters' /\ mine.owner = <<c, caller'[c].n>>
      BY <2>1
    <3> QED BY <3>1
  <2>3. ASSUME NEW d \in Callers \ {c}, ~IsRequest(d), caller'[d].pc = "waiting"
        PROVE  \E w \in waiters' : w.owner = <<d, caller'[d].n>>
    <3>1. caller'[d] = caller[d] /\ waiters \subseteq waiters'
      BY <2>1
    <3>2. PICK w \in waiters : w.owner = Current(d)
      BY <2>3, <3>1 DEF SessionWaits
    <3> QED BY <3>1, <3>2 DEF Current
  <2>4. \A w \in waiters' : ~IsRequest(w.owner[1]) => w.gen = 0
    BY <2>1 DEF SessionWaits
  <2>5. ASSUME NEW d \in Callers, ~IsRequest(d)
        PROVE  /\ caller'[d].pc \in {"idle", "waiting"}
               /\ caller'[d].outcome # "disconnected"
    BY <2>1, <2>5 DEF SessionWaits
  <2> QED BY <2>2, <2>3, <2>4, <2>5 DEF SessionWaits, IsRequest, Current
<1>7. CASE SessionSeesConnected(c)
  BY <1>7, <1>b DEF SessionSeesConnected
<1>8. CASE SessionNotConnected(c)
  BY <1>8, <1>b DEF SessionNotConnected, End, Finish
<1> QED BY <1>1, <1>2, <1>3, <1>4, <1>5, <1>6, <1>7, <1>8 DEF Call

\* No step takes a session wait's waiter away, or gives it a lost connection.
LEMMA SessionWaitsStep ==
  ASSUME TypeOK, TaskGens, CallsBegun, WaitersBehindCalls, SessionWaits, Next
  PROVE  SessionWaits'
<1>1. CASE UNCHANGED callVars
  BY <1>1 DEF callVars, SessionWaits, IsRequest, Current
<1>2. CASE AttachFailPrevious
  BY <1>2, FailKeepsSessions DEF AttachFailPrevious, TaskGens
<1>3. CASE HeartbeatFailsWaiters
  BY <1>3, FailKeepsSessions DEF HeartbeatFailsWaiters, TaskGens
<1>4. ASSUME NEW g \in Gens, ReaderFailsWaiters(g) PROVE SessionWaits'
  <2>1. g # 0
    BY BoundAssumption DEF Gens
  <2> QED BY <1>4, <2>1, FailKeepsSessions DEF ReaderFailsWaiters
<1>5. ASSUME NEW g \in Gens, ReaderDeliver(g) PROVE SessionWaits'
  BY <1>5, DeliverKeepsSessions DEF ReaderDeliver
<1>6. CASE HeartbeatPings \/ HeartbeatReaps
  <2>1. waiters' = {w \in waiters : IsLive(w)} /\ caller' = caller
    BY <1>6 DEF HeartbeatPings, HeartbeatReaps, SweepWaiters
  <2>2. \A c \in Callers, w \in waiters :
          caller[c].pc = "waiting" /\ w.owner = Current(c) => IsLive(w)
    BY DEF IsLive, Current
  <2> QED BY <2>1, <2>2 DEF SessionWaits, IsRequest, Current
<1>7. ASSUME NEW c \in Callers, Call(c) PROVE SessionWaits'
  BY <1>7, CallKeepsSessions
<1> QED
  BY <1>1, <1>2, <1>3, <1>4, <1>5, <1>6, <1>7
     DEF Next, BindFails, BindSucceeds, Attach, AttachSpawn, AttachInstall, AttachGreet,
         Heartbeat, HeartbeatDetaches, HeartbeatDetach, HeartbeatClearsFlag, SendBanner,
         Reader, ReaderEnds, ReaderDetach, ReaderClearsFlag,
         ReaderCancelled, Helper, HelperReplies, HelperPushesToken, HelperCloses, SocketGoesSilent,
         callVars

----------------------------------------------------------------------------
(* The theorems.                                                           *)

\* The inductive invariant holds at the start.
LEMMA InitIInv == Init => IInv
<1> SUFFICES ASSUME Init PROVE IInv
  OBVIOUS
<1> USE BoundAssumption DEF Init, Gens, GenOrNone
<1>1. TypeOK
  <2>1. caller \in [Callers -> CallerState]
    BY DEF CallerState, CallPC, Outcome
  <2>2. inbox \in [Gens -> Seq(Message)]
    OBVIOUS
  <2>3. attacher \in [pc : AttachPC, gen : GenOrNone, previous : GenOrNone]
    BY DEF AttachPC
  <2>4. heartbeat \in [pc : HeartbeatPC, gen : GenOrNone]
    BY DEF HeartbeatPC
  <2>5. reader \in [Gens -> ReaderPC] /\ socket \in [Gens -> {"none", "up", "silent", "down"}]
    BY DEF ReaderPC
  <2>6. tokens \in 0 .. MaxTokens /\ generation \in GenOrNone /\ conn \in GenOrNone
    OBVIOUS
  <2>7. /\ listening \in BOOLEAN /\ wsBound \in BOOLEAN /\ connected \in BOOLEAN
        /\ banner \in BOOLEAN /\ aborted \in SUBSET Gens
        /\ sent \in SUBSET Waiter /\ replied \in SUBSET Request /\ waiters \in SUBSET Waiter
    OBVIOUS
  <2> HIDE DEF Init
  <2> QED BY <2>1, <2>2, <2>3, <2>4, <2>5, <2>6, <2>7 DEF TypeOK
<1>2. TaskGens /\ DetachTargets /\ CallsBegun /\ WaitersBehindCalls
  BY DEF TaskGens, DetachTargets, CallsBegun, WaitersBehindCalls
<1>3. SessionWaits /\ GoneWaitersFailing /\ NoBannerStranded
  BY DEF SessionWaits, GoneWaitersFailing, NoBannerStranded
<1> QED BY <1>1, <1>2, <1>3 DEF IInv

\* Every step keeps the inductive invariant.
LEMMA NextIInv == IInv /\ [Next]_vars => IInv'
<1> SUFFICES ASSUME IInv, [Next]_vars PROVE IInv'
  OBVIOUS
<1>1. CASE Next
  <2>1. TypeOK'
    BY <1>1, ManagerTypes, ConnectionTypes, CallTypes DEF IInv, Next
  <2>2. TaskGens' /\ DetachTargets'
    BY <1>1, TaskGensStep, DetachTargetsStep DEF IInv
  <2>3. Settles \/ \E c \in Callers : CallEffect(c)
    BY <1>1, OthersSettle, CallHasEffect DEF IInv, Next
  <2>4. CallsBegun' /\ WaitersBehindCalls'
    BY <2>3, WaitersBehindCallsStep DEF IInv
  <2>5. SessionWaits' /\ GoneWaitersFailing' /\ NoBannerStranded'
    BY <1>1, SessionWaitsStep, GoneWaitersStep, BannerStep DEF IInv
  <2> QED BY <2>1, <2>2, <2>4, <2>5 DEF IInv
<1>2. CASE UNCHANGED vars
  BY <1>2 DEF IInv, vars, connVars, taskVars, peerVars, callVars, TypeOK, TaskGens, DetachTargets,
     CallsBegun, WaitersBehindCalls, SessionWaits, GoneWaitersFailing, NoBannerStranded, TearingDown,
     IsLive, Current, IsRequest
<1> QED BY <1>1, <1>2

\* The inductive invariant holds in every reachable state.
THEOREM Invariance == Spec => []IInv
<1> QED BY InitIInv, NextIInv, PTL DEF Spec

\* Types: every variable of the connection manager keeps its range.
THEOREM TypeCorrect == Spec => []TypeOK
<1>1. IInv => TypeOK
  BY DEF IInv
<1> QED BY <1>1, Invariance, PTL

\* A request whose connection is gone is being failed, unless its reader was
\* cancelled in detach_connection (fail_waiters_for_generation).
THEOREM GoneWaitersFail == Spec => []GoneWaitersFailing
<1>1. IInv => GoneWaitersFailing
  BY DEF IInv
<1> QED BY <1>1, Invariance, PTL

\* The connection that ends a wait for a tab delivers the queued banner.
THEOREM BannerDelivered == Spec => []NoBannerStranded
<1>1. IInv => NoBannerStranded
  BY DEF IInv
<1> QED BY <1>1, Invariance, PTL

\* Reconnects do not end or lose a wait for a session (wait_for_session).
THEOREM SessionWaitsSurvive == Spec => []SessionWaitSurvives
<1>1. IInv => SessionWaitSurvives
  BY DEF IInv, SessionWaits, SessionWaitSurvives
<1> QED BY <1>1, Invariance, PTL

\* A step takes the installed connection away only if its socket does not work
\* or a newer connection takes its place (detach_connection, attach_connection).
LEMMA HealthyConnectionStep ==
  ASSUME IInv, [Next]_vars, conn # 0, conn' # conn
  PROVE  socket[conn] # "up" \/ conn' > conn
<1> USE DEF IInv
<1>1. CASE AttachInstall
  BY <1>1 DEF AttachInstall, TaskGens, TypeOK, GenOrNone
<1>2. CASE HeartbeatDetach
  BY <1>2 DEF HeartbeatDetach, TakeConn, DetachTargets
<1>3. ASSUME NEW g \in Gens, ReaderDetach(g) PROVE socket[conn] # "up"
  BY <1>3 DEF ReaderDetach, TakeConn, DetachTargets
<1> QED
  BY <1>1, <1>2, <1>3
     DEF Next, BindFails, BindSucceeds, Attach, AttachSpawn, AttachFailPrevious, AttachGreet,
         Heartbeat, HeartbeatDetaches, HeartbeatPings, HeartbeatReaps, SweepWaiters, HeartbeatClearsFlag, HeartbeatFailsWaiters, ClearConnected, SendBanner,
         Reader, ReaderDeliver, ReaderEnds, ReaderClearsFlag, ReaderFailsWaiters,
         ReaderCancelled, Helper, HelperReplies, HelperPushesToken, HelperCloses, SocketGoesSilent,
         Call, CallFindsPortTaken, RequestStart, RequestConnected, RequestNotConnected,
         RequestEnqueue, RequestFindsNoConn, CallTimeout, SessionStart, SessionSeesConnected,
         SessionNotConnected, connVars, vars

\* A tab whose socket works keeps its connection until a newer one arrives.
THEOREM HealthyConnectionStays == Spec => HealthyConnectionKept
<1>1. IInv /\ [Next]_vars =>
        [conn # 0 /\ conn' # conn => socket[conn] # "up" \/ conn' > conn]_vars
  BY HealthyConnectionStep
<1> QED BY <1>1, Invariance, PTL DEF Spec, HealthyConnectionKept
----------------------------------------------------------------------------
(* What the refinement needs besides the bridge's own invariant             *)

\* A call that is open has not been answered.
OpenUnanswered == \A c \in Callers : caller[c].pc # "idle" => caller[c].outcome # "ok"

\* A reply on its way answers a request that was sent.
RepliesSent ==
  \A g \in Gens : \A i \in DOMAIN inbox[g] :
    inbox[g][i].type = "reply" => \E w \in sent : w.owner = inbox[g][i].req

\* What was sent is not ahead of the calls, nor does it belong to a call that is
\* still to send its request.
SentBehindCalls ==
  \A w \in sent :
    /\ w.owner[2] <= caller[w.owner[1]].n
    /\ caller[w.owner[1]].pc \in {"connecting", "enqueue"} => w.owner # Current(w.owner[1])

CallsInv == OpenUnanswered /\ RepliesSent /\ SentBehindCalls

AbstractStep ==
  \/ Abstract!Next
  \/ UNCHANGED <<OpenCalls, CallNumbers, AnsweredCalls, RequestsSent>>

\* Callers and what was sent are well-typed.
LEMMA CallFacts ==
  ASSUME TypeOK
  PROVE  /\ \A c \in Callers : caller[c] \in CallerState /\ caller[c].n \in Nat
         /\ \A w \in sent : w.owner \in Request /\ w.owner[1] \in Callers /\ w.owner[2] \in Nat
BY BoundAssumption DEF TypeOK, CallerState, Waiter, Request

\* Nothing a caller sees: the calls stand still.
LEMMA Stutter ==
  ASSUME OpenUnanswered, SentBehindCalls, UNCHANGED <<caller, sent>>
  PROVE  AbstractStep /\ OpenUnanswered' /\ SentBehindCalls'
<1>1. AbstractStep
  BY DEF AbstractStep, OpenCalls, CallNumbers, AnsweredCalls, RequestsSent
<1> QED BY <1>1 DEF OpenUnanswered, SentBehindCalls, Current

\* Calls that end: the callers in C are idle now, and the rest is as it was.
LEMMA CallsEnd ==
  ASSUME TypeOK, OpenUnanswered, SentBehindCalls, UNCHANGED sent,
         NEW outcome, NEW C \in SUBSET Callers,
         \A c \in Callers \ C : caller'[c] = caller[c],
         \A c \in C : /\ caller[c].pc # "idle" /\ caller'[c].pc = "idle"
                      /\ caller'[c].n = caller[c].n /\ caller'[c].outcome = outcome,
         outcome = "ok" => \A c \in C \cap Correlated : Current(c) \in RequestsSent
  PROVE  AbstractStep /\ OpenUnanswered' /\ SentBehindCalls'
<1>1. OpenCalls' = OpenCalls \ C /\ C \subseteq OpenCalls
  BY DEF OpenCalls
<1>2. CallNumbers' = CallNumbers
  BY DEF CallNumbers
<1>3. RequestsSent' = RequestsSent
  BY DEF RequestsSent
<1>4. AnsweredCalls' = IF outcome = "ok" THEN AnsweredCalls \cup C ELSE AnsweredCalls
  BY DEF AnsweredCalls, OpenUnanswered
<1>5. Abstract!Answer(C) \/ Abstract!GiveUp(C)
  <2>1. CASE outcome = "ok"
    <3>1. \A c \in C \cap Correlated : <<c, CallNumbers[c]>> \in RequestsSent
      BY <2>1 DEF Current, CallNumbers
    <3> QED BY <1>1, <1>2, <1>3, <1>4, <2>1, <3>1 DEF Abstract!Answer
  <2>2. CASE outcome # "ok"
    BY <1>1, <1>2, <1>3, <1>4, <2>2 DEF Abstract!GiveUp
  <2> QED BY <2>1, <2>2
<1>6. AbstractStep
  BY <1>5 DEF AbstractStep, Abstract!Next
<1>7. OpenUnanswered'
  BY DEF OpenUnanswered
<1>8. SentBehindCalls'
  BY CallFacts DEF SentBehindCalls, Current
<1> QED BY <1>6, <1>7, <1>8

\* Handing out results ends the calls of the waiters it is handed to.
LEMMA ResolveEnds ==
  ASSUME TypeOK, OpenUnanswered, SentBehindCalls, UNCHANGED sent,
         NEW W, NEW outcome, NEW answer, Resolve(W, outcome, answer),
         outcome = "ok" =>
           \A w \in W : \A c \in Correlated : w.owner = Current(c) => w.owner \in RequestsSent
  PROVE  AbstractStep /\ OpenUnanswered' /\ SentBehindCalls'
<1> DEFINE C == {c \in Callers : caller'[c] # caller[c]}
<1>1. \A c \in C : /\ caller[c].pc # "idle" /\ caller'[c].pc = "idle"
                   /\ caller'[c].n = caller[c].n /\ caller'[c].outcome = outcome
                   /\ \E w \in W : w.owner = Current(c)
  BY ResolveEffect
<1>2. \A c \in Callers \ C : caller'[c] = caller[c]
  OBVIOUS
<1>3. C \in SUBSET Callers
  OBVIOUS
<1> HIDE DEF C
<1>4. outcome = "ok" => \A c \in C \cap Correlated : Current(c) \in RequestsSent
  BY <1>1
<1> QED BY <1>1, <1>2, <1>3, <1>4, CallsEnd

\* A reply reaches a correlated waiter only if its request was sent.
LEMMA DeliverStep ==
  ASSUME TypeOK, CallsInv, NEW g \in Gens, ReaderDeliver(g)
  PROVE  AbstractStep /\ OpenUnanswered' /\ SentBehindCalls'
<1> DEFINE m == Head(inbox[g])
           W == {w \in waiters : Matches(w, m)}
<1>1. Resolve(W, "ok", m.req) /\ UNCHANGED sent
  BY DEF ReaderDeliver
<1>2. m.type = "reply" => \E v \in sent : v.owner = m.req
  <2>1. inbox[g] \in Seq(Message) /\ inbox[g] # <<>>
    BY DEF ReaderDeliver, TypeOK
  <2> HIDE DEF Message
  <2>2. 1 \in DOMAIN inbox[g] /\ m = inbox[g][1]
    BY <2>1
  <2> QED BY <2>2 DEF CallsInv, RepliesSent
<1> HIDE DEF m
<1>3. ASSUME NEW w \in W, NEW c \in Correlated, w.owner = Current(c) PROVE w.owner \in RequestsSent
  <2>1. w.owner \in Request /\ w.owner[1] = c /\ Kind[c] = "correlation" /\ Matches(w, m)
    BY <1>3 DEF TypeOK, Waiter, Current, Correlated
  <2>2. m.type = "reply" /\ m.req = w.owner
    BY <2>1 DEF Matches
  <2> QED BY <1>2, <2>1, <2>2 DEF RequestsSent
<1> QED BY <1>1, <1>3, ResolveEnds DEF CallsInv

\* A call of c begins: it is refused, or its request, or its wait, is under way.
LEMMA BeginStep ==
  ASSUME TypeOK, OpenUnanswered, SentBehindCalls, NEW c \in Callers, UNCHANGED sent,
         \A d \in Callers \ {c} : caller'[d] = caller[d],
         caller[c].pc = "idle", caller'[c].n = caller[c].n + 1, caller'[c].outcome # "ok"
  PROVE  AbstractStep /\ OpenUnanswered' /\ SentBehindCalls'
<1>1. c \notin OpenCalls /\ OpenCalls' \in {OpenCalls, OpenCalls \cup {c}}
  BY DEF OpenCalls
<1>2. CallNumbers' = [CallNumbers EXCEPT ![c] = @ + 1]
  BY DEF CallNumbers
<1>3. AnsweredCalls' = AnsweredCalls \ {c} /\ RequestsSent' = RequestsSent
  BY DEF AnsweredCalls, RequestsSent
<1>4. Abstract!Begin(c)
  BY <1>1, <1>2, <1>3 DEF Abstract!Begin
<1>5. AbstractStep
  BY <1>4 DEF AbstractStep, Abstract!Next
<1>6. OpenUnanswered'
  BY DEF OpenUnanswered
<1>7. SentBehindCalls'
  <2> SUFFICES ASSUME NEW w \in sent
      PROVE  /\ w.owner[2] <= caller'[w.owner[1]].n
             /\ caller'[w.owner[1]].pc \in {"connecting", "enqueue"}
                  => w.owner # <<w.owner[1], caller'[w.owner[1]].n>>
    BY DEF SentBehindCalls, Current
  <2>1. /\ w.owner[1] \in Callers /\ w.owner[2] \in Nat
        /\ w.owner[2] <= caller[w.owner[1]].n /\ caller[w.owner[1]].n \in Nat
    BY CallFacts DEF SentBehindCalls
  <2>2. CASE w.owner[1] = c
    BY <2>1, <2>2
  <2>3. CASE w.owner[1] # c
    BY <2>1, <2>3 DEF SentBehindCalls, Current
  <2> QED BY <2>2, <2>3
<1> QED BY <1>5, <1>6, <1>7

\* The request of c reaches the helper's socket, or a socket nobody reads.
LEMMA SendStep ==
  ASSUME TypeOK, OpenUnanswered, SentBehindCalls, NEW c \in Callers,
         caller[c].pc = "enqueue", caller' = [caller EXCEPT ![c].pc = "waiting"],
         NEW w, w.owner = Current(c), sent' = sent \cup {w} \/ UNCHANGED sent
  PROVE  AbstractStep /\ OpenUnanswered' /\ SentBehindCalls'
<1>0. caller[c] \in CallerState /\ Current(c) = <<c, caller[c].n>>
  BY CallFacts DEF Current
<1>1. /\ \A d \in Callers \ {c} : caller'[d] = caller[d]
      /\ caller'[c].pc = "waiting" /\ caller'[c].n = caller[c].n
      /\ caller'[c].outcome = caller[c].outcome
  BY <1>0 DEF TypeOK, CallerState
<1>2. UNCHANGED <<OpenCalls, CallNumbers, AnsweredCalls>>
  BY <1>1 DEF OpenCalls, CallNumbers, AnsweredCalls
<1>3. OpenUnanswered'
  BY <1>1 DEF OpenUnanswered
<1>4. SentBehindCalls'
  <2> SUFFICES ASSUME NEW v \in sent'
      PROVE  /\ v.owner[2] <= caller'[v.owner[1]].n
             /\ caller'[v.owner[1]].pc \in {"connecting", "enqueue"}
                  => v.owner # <<v.owner[1], caller'[v.owner[1]].n>>
    BY DEF SentBehindCalls, Current
  <2>1. CASE v \in sent
    BY <1>1, <2>1, CallFacts DEF SentBehindCalls, Current
  <2>2. CASE v = w
    BY <1>0, <1>1, <2>2, CallFacts
  <2> QED BY <2>1, <2>2
<1>5. AbstractStep
  <2>1. CASE RequestsSent' = RequestsSent
    BY <1>2, <2>1 DEF AbstractStep
  <2>2. CASE RequestsSent' # RequestsSent
    <3>1. sent' = sent \cup {w}
      BY <2>2 DEF RequestsSent
    <3>2. RequestsSent' = RequestsSent \cup ({r \in Request : r[1] \in Correlated} \cap {Current(c)})
      BY <3>1 DEF RequestsSent
    <3>3. c \in Correlated /\ Current(c) \in Request
      BY <1>0, <2>2, <3>2
    <3>4. RequestsSent' = RequestsSent \cup {<<c, CallNumbers[c]>>}
      BY <1>0, <3>2, <3>3 DEF CallNumbers
    <3>5. <<c, CallNumbers[c]>> \notin RequestsSent /\ c \in OpenCalls
      BY <1>0, <2>2, <3>4 DEF OpenCalls
    <3>6. Abstract!Send(c)
      BY <1>2, <3>3, <3>4, <3>5 DEF Abstract!Send
    <3> QED BY <3>6 DEF AbstractStep, Abstract!Next
  <2> QED BY <2>1, <2>2
<1> QED BY <1>3, <1>4, <1>5

\* A step of a call is one of the promised ones.
LEMMA CallStep ==
  ASSUME TypeOK, CallsInv, NEW c \in Callers, Call(c)
  PROVE  AbstractStep /\ OpenUnanswered' /\ SentBehindCalls'
<1>0. OpenUnanswered /\ SentBehindCalls /\ caller[c] \in CallerState
  BY CallFacts DEF CallsInv
<1>1. ASSUME NEW outcome, outcome # "ok", End(c, outcome), caller[c].pc # "idle", UNCHANGED sent
      PROVE  AbstractStep /\ OpenUnanswered' /\ SentBehindCalls'
  <2>1. /\ \A d \in Callers \ {c} : caller'[d] = caller[d]
        /\ caller'[c].pc = "idle" /\ caller'[c].n = caller[c].n /\ caller'[c].outcome = outcome
    BY <1>0, <1>1 DEF End, Finish, TypeOK, CallerState
  <2>2. PICK C \in SUBSET Callers : C = {c}
    OBVIOUS
  <2>3. \A d \in Callers \ C : caller'[d] = caller[d]
    BY <2>1, <2>2
  <2>4. \A d \in C : /\ caller[d].pc # "idle" /\ caller'[d].pc = "idle"
                     /\ caller'[d].n = caller[d].n /\ caller'[d].outcome = outcome
    BY <1>1, <2>1, <2>2
  <2>5. outcome = "ok" => \A d \in C \cap Correlated : Current(d) \in RequestsSent
    BY <1>1
  <2>6. OpenUnanswered /\ SentBehindCalls /\ UNCHANGED sent
    BY <1>0, <1>1
  <2> QED BY <2>3, <2>4, <2>5, <2>6, CallsEnd
<1>2. CASE CallFindsPortTaken(c) \/ RequestStart(c) \/ SessionStart(c)
  <2>1. /\ UNCHANGED sent /\ caller[c].pc = "idle"
        /\ \A d \in Callers \ {c} : caller'[d] = caller[d]
        /\ caller'[c].n = caller[c].n + 1 /\ caller'[c].outcome # "ok"
    BY <1>2 DEF CallFindsPortTaken, RequestStart, SessionStart, Begin, TypeOK, peerVars
  <2> QED BY <1>0, <2>1, BeginStep
<1>3. CASE RequestNotConnected(c) \/ RequestFindsNoConn(c) \/ CallTimeout(c) \/ SessionNotConnected(c)
  <2>1. /\ UNCHANGED sent /\ caller[c].pc # "idle"
        /\ \/ End(c, "notConnected") \/ End(c, "portConflict")
           \/ End(c, "disconnected") \/ End(c, "timeout")
    BY <1>3 DEF RequestNotConnected, RequestFindsNoConn, CallTimeout, SessionNotConnected, peerVars
  <2>2. PICK outcome \in {"notConnected", "portConflict", "disconnected", "timeout"} : End(c, outcome)
    BY <2>1
  <2>3. outcome # "ok"
    OBVIOUS
  <2> QED BY <1>1, <2>1, <2>2, <2>3
<1>4. CASE RequestEnqueue(c)
  <2>1. CASE caller' = [caller EXCEPT ![c].pc = "waiting"]
             /\ sent' = IF socket[conn] = "up"
                        THEN sent \cup {[owner |-> Current(c), gen |-> conn]} ELSE sent
    <3> DEFINE w == [owner |-> Current(c), gen |-> conn]
    <3>1. w.owner = Current(c) /\ (sent' = sent \cup {w} \/ UNCHANGED sent)
      BY <2>1
    <3>2. caller[c].pc = "enqueue"
      BY <1>4 DEF RequestEnqueue
    <3> HIDE DEF w
    <3> QED BY <1>0, <2>1, <3>1, <3>2, SendStep
  <2>2. CASE End(c, "disconnected") /\ UNCHANGED sent
    BY <1>1, <1>4, <2>2 DEF RequestEnqueue
  <2> QED BY <1>4, <2>1, <2>2 DEF RequestEnqueue
<1>5. CASE RequestConnected(c) \/ SessionSeesConnected(c)
  <2>1. /\ UNCHANGED sent /\ \A d \in Callers \ {c} : caller'[d] = caller[d]
        /\ caller'[c].n = caller[c].n /\ caller'[c].outcome = caller[c].outcome
        /\ \/ caller[c].pc = "connecting" /\ caller'[c].pc = "enqueue"
           \/ caller[c].pc = "waiting" /\ caller'[c].pc = "waiting"
    BY <1>0, <1>5 DEF RequestConnected, SessionSeesConnected, TypeOK, CallerState, peerVars
  <2>2. AbstractStep
    BY <2>1 DEF AbstractStep, OpenCalls, CallNumbers, AnsweredCalls, RequestsSent
  <2>3. OpenUnanswered'
    BY <1>0, <2>1 DEF OpenUnanswered
  <2>4. SentBehindCalls'
    BY <1>0, <2>1, CallFacts DEF SentBehindCalls, Current
  <2> QED BY <2>2, <2>3, <2>4
<1> QED BY <1>2, <1>3, <1>4, <1>5 DEF Call

\* Every other step settles calls or leaves them alone.
LEMMA OtherStep ==
  ASSUME TypeOK, CallsInv,
         \/ BindFails \/ BindSucceeds \/ Attach \/ Heartbeat \/ SendBanner
         \/ \E g \in Gens : Reader(g) \/ Helper(g)
  PROVE  AbstractStep /\ OpenUnanswered' /\ SentBehindCalls'
<1>0. OpenUnanswered /\ SentBehindCalls
  BY DEF CallsInv
<1>1. CASE UNCHANGED <<caller, sent>>
  BY <1>0, <1>1, Stutter
<1>2. ASSUME NEW g, FailWaiters(g), UNCHANGED sent
      PROVE  AbstractStep /\ OpenUnanswered' /\ SentBehindCalls'
  BY <1>0, <1>2, ResolveEnds DEF FailWaiters
<1>3. ASSUME NEW g \in Gens, ReaderDeliver(g)
      PROVE  AbstractStep /\ OpenUnanswered' /\ SentBehindCalls'
  BY <1>3, DeliverStep
<1>4. CASE BindFails \/ BindSucceeds \/ Attach \/ Heartbeat \/ SendBanner
  BY <1>1, <1>2, <1>4
     DEF BindFails, BindSucceeds, Attach, AttachSpawn, AttachInstall, AttachFailPrevious, AttachGreet,
         Heartbeat, HeartbeatPings, HeartbeatReaps, HeartbeatDetaches, HeartbeatDetach,
         HeartbeatClearsFlag, HeartbeatFailsWaiters, SendBanner, callVars, peerVars
<1>5. ASSUME NEW g \in Gens, Reader(g) \/ Helper(g)
      PROVE  AbstractStep /\ OpenUnanswered' /\ SentBehindCalls'
  BY <1>1, <1>2, <1>3, <1>5
     DEF Reader, ReaderEnds, ReaderDetach, ReaderClearsFlag, ReaderFailsWaiters,
         ReaderCancelled, Helper, HelperReplies, HelperPushesToken, HelperCloses, SocketGoesSilent,
         callVars, peerVars
<1> QED BY <1>4, <1>5

\* No reply enters an inbox before its request was sent.
LEMMA RepliesStep ==
  ASSUME TypeOK, RepliesSent, Next
  PROVE  RepliesSent'
<1>0. sent \subseteq sent'
  BY DEF Next, BindFails, BindSucceeds, Attach, AttachSpawn, AttachInstall, AttachFailPrevious,
         AttachGreet, Heartbeat, HeartbeatPings, HeartbeatReaps, HeartbeatDetaches, HeartbeatDetach,
         HeartbeatClearsFlag, HeartbeatFailsWaiters, SendBanner, peerVars,
         Reader, ReaderDeliver, ReaderEnds, ReaderDetach, ReaderClearsFlag, ReaderFailsWaiters,
         ReaderCancelled, Helper, HelperReplies, HelperPushesToken, HelperCloses, SocketGoesSilent,
         Call, CallFindsPortTaken, RequestStart, RequestConnected, RequestNotConnected,
         RequestEnqueue, RequestFindsNoConn, CallTimeout, SessionStart, SessionSeesConnected,
         SessionNotConnected
<1>1. CASE UNCHANGED inbox
  BY <1>0, <1>1 DEF RepliesSent
<1>2. ASSUME NEW g \in Gens, ReaderDeliver(g) \/ ReaderCancelled(g) PROVE RepliesSent'
  <2> SUFFICES ASSUME NEW h \in Gens, NEW i \in DOMAIN inbox'[h], inbox'[h][i].type = "reply"
               PROVE  \E w \in sent' : w.owner = inbox'[h][i].req
    BY DEF RepliesSent
  <2>1. \E j \in DOMAIN inbox[h] : inbox'[h][i] = inbox[h][j]
    <3>1. CASE h # g
      BY <1>2, <3>1 DEF ReaderDeliver, ReaderCancelled, TypeOK
    <3>2. CASE h = g /\ ReaderCancelled(g)
      BY <3>2 DEF ReaderCancelled, TypeOK
    <3>3. CASE h = g /\ ReaderDeliver(g)
      <4>1. inbox[g] \in Seq(Message) /\ inbox[g] # <<>> /\ inbox'[g] = Tail(inbox[g])
        BY <3>3 DEF ReaderDeliver, TypeOK
      <4> HIDE DEF Message
      <4>2. i + 1 \in DOMAIN inbox[g] /\ inbox'[g][i] = inbox[g][i + 1]
        BY <3>3, <4>1
      <4> QED BY <3>3, <4>2
    <3> QED BY <1>2, <3>1, <3>2, <3>3
  <2> QED BY <1>0, <2>1 DEF RepliesSent
<1>3. ASSUME NEW g \in Gens, NEW f, Arrive(g, f),
             f.type = "reply" => \E w \in sent : w.owner = f.req
      PROVE  RepliesSent'
  <2> SUFFICES ASSUME NEW h \in Gens, NEW i \in DOMAIN inbox'[h], inbox'[h][i].type = "reply"
               PROVE  \E w \in sent' : w.owner = inbox'[h][i].req
    BY DEF RepliesSent
  <2>1. inbox[h] \in Seq(Message) /\ inbox' = [inbox EXCEPT ![g] = Append(@, f)]
    BY <1>3 DEF Arrive, TypeOK
  <2> HIDE DEF Message
  <2>2. inbox'[h][i] = f \/ (i \in DOMAIN inbox[h] /\ inbox'[h][i] = inbox[h][i])
    <3>1. CASE h = g
      <4>1. inbox'[h] = Append(inbox[h], f)
        BY <2>1, <3>1 DEF TypeOK
      <4> QED BY <2>1, <4>1
    <3>2. CASE h # g
      BY <2>1, <3>2 DEF TypeOK
    <3> QED BY <3>1, <3>2
  <2> QED BY <1>0, <1>3, <2>2 DEF RepliesSent
<1>4. ASSUME NEW g \in Gens, HelperReplies(g) PROVE RepliesSent'
  <2>1. PICK r \in sent : Arrive(g, Reply(r.owner))
    BY <1>4 DEF HelperReplies
  <2>2. PICK f : f = Reply(r.owner)
    OBVIOUS
  <2>3. f.type = "reply" => \E w \in sent : w.owner = f.req
    BY <2>2 DEF Reply
  <2> QED BY <1>3, <2>1, <2>2, <2>3
<1>5. ASSUME NEW g \in Gens, HelperPushesToken(g) PROVE RepliesSent'
  <2>1. Arrive(g, Token) /\ Token.type # "reply"
    BY <1>5 DEF HelperPushesToken, Token
  <2> QED BY <1>3, <2>1
<1>6. \/ UNCHANGED inbox
      \/ \E g \in Gens : \/ ReaderDeliver(g) \/ ReaderCancelled(g)
                         \/ HelperReplies(g) \/ HelperPushesToken(g)
  BY DEF Next, BindFails, BindSucceeds, Attach, AttachSpawn, AttachInstall, AttachFailPrevious,
         AttachGreet, Heartbeat, HeartbeatPings, HeartbeatReaps, HeartbeatDetaches, HeartbeatDetach,
         HeartbeatClearsFlag, HeartbeatFailsWaiters, SendBanner, peerVars,
         Reader, ReaderEnds, ReaderDetach, ReaderClearsFlag, ReaderFailsWaiters,
         Helper, HelperCloses, SocketGoesSilent,
         Call, CallFindsPortTaken, RequestStart, RequestConnected, RequestNotConnected,
         RequestEnqueue, RequestFindsNoConn, CallTimeout, SessionStart, SessionSeesConnected,
         SessionNotConnected
<1> QED BY <1>1, <1>2, <1>4, <1>5, <1>6

\* Every step of the bridge is a step of the promise, or none that it sees.
LEMMA Simulation ==
  ASSUME TypeOK, CallsInv, [Next]_vars
  PROVE  CallsInv' /\ AbstractStep
<1>1. CASE Next
  <2>1. AbstractStep /\ OpenUnanswered' /\ SentBehindCalls'
    BY <1>1, OtherStep, CallStep DEF Next
  <2>2. RepliesSent'
    BY <1>1, RepliesStep DEF CallsInv
  <2> QED BY <2>1, <2>2 DEF CallsInv
<1>2. CASE UNCHANGED vars
  <2>1. UNCHANGED <<caller, sent, inbox>>
    BY <1>2 DEF vars, callVars, peerVars
  <2> QED BY <2>1, Stutter DEF CallsInv, RepliesSent
<1> QED BY <1>1, <1>2

\* The bridge starts with no calls.
LEMMA InitCalls == Init => CallsInv /\ Abstract!Init
<1> SUFFICES ASSUME Init PROVE CallsInv /\ Abstract!Init
  OBVIOUS
<1>1. CallsInv
  BY DEF Init, CallsInv, OpenUnanswered, RepliesSent, SentBehindCalls
<1>2. OpenCalls = {} /\ AnsweredCalls = {} /\ RequestsSent = {}
  BY DEF Init, OpenCalls, AnsweredCalls, RequestsSent
<1>3. CallNumbers = [c \in Callers |-> 0]
  BY DEF Init, CallNumbers
<1> QED BY <1>1, <1>2, <1>3 DEF Abstract!Init

\* The bridge keeps what SnuCalls promises its callers, for any callers, matchers,
\* connections and bounds (request_bound, deliver_message, wait_for_session).
THEOREM CallsImplemented == Spec => ImplementsCalls
<1>1. TypeOK /\ CallsInv /\ [Next]_vars => CallsInv' /\ AbstractStep
  BY Simulation
<1>2. AbstractStep => [Abstract!Next]_(Abstract!callsVars)
  BY DEF AbstractStep, Abstract!callsVars
<1> QED BY <1>1, <1>2, InitCalls, TypeCorrect, PTL DEF Spec, ImplementsCalls, Abstract!Spec
=============================================================================
