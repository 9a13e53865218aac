----------------------------- MODULE SnuLifecycle -----------------------------
(***************************************************************************)
(* The life of broker processes (src/snu/broker.rs): a command pings the    *)
(* IPC port, spawns a broker when nothing answers, waits for it and makes    *)
(* its request; a broker counts its clients and requests, serves them on     *)
(* tasks of their own, and ends when it is told to or was idle for long.     *)
(*                                                                         *)
(* A broker is the order in which it was spawned; 0 stands for none.  What  *)
(* a request does is SnuSessions', SnuGates' and SnuBridge's subject.        *)
(***************************************************************************)
EXTENDS Naturals, FiniteSets

CONSTANTS
  Commands,    \* snow-cli processes
  Ask,         \* what each command asks for: "work" or "stop"
  MaxBrokers,  \* bound: broker processes spawned
  MaxLinks     \* bound: TCP connections to the IPC port (wait_until_ready's deadline)

ASSUME AskAssumption == Ask \in [Commands -> {"work", "stop"}]
ASSUME ProcessAssumption == MaxBrokers \in Nat \ {0} /\ MaxLinks \in Nat

Brokers == 1 .. MaxBrokers
Links == 1 .. MaxLinks

VARIABLES
  port,      \* the broker that listens on the IPC port
  broker,    \* the broker processes
  link,      \* the connections and, once accepted, their handler tasks
  command,   \* the commands
  late       \* connections a broker accepted after its shutdown was set (history)

lifecycleVars == <<port, broker, link, command, late>>

\* checking: the accept loop is about to read the shutdown flag.  expired: no
\* activity for the idle timeout.
Broker == [pc : {"none", "starting", "checking", "accepting", "exited"},
           shutdown : BOOLEAN, expired : BOOLEAN, active : Nat, inFlight : Nat]
NewBroker == [pc |-> "starting", shutdown |-> FALSE, expired |-> FALSE, active |-> 0, inFlight |-> 0]

\* handle_client takes a connection from accepted to closed; cut is what became
\* of it if the broker's process ended before the answer was written.
Stage == {"none", "queued", "accepted", "counted", "serving", "dispatched",
          "answered", "closed", "cut"}
Link == [to : 0 .. MaxBrokers, ask : {"ping", "work", "stop"}, stage : Stage]

CommandPC == {"probe", "probing", "request", "requesting", "served", "failed"}
Command == [pc : CommandPC, spawned : BOOLEAN, link : 0 .. MaxLinks]

Over(stage) == [to |-> 0, ask |-> "ping", stage |-> stage]   \* a connection that ended

LifecycleTypeOK ==
  /\ port \in 0 .. MaxBrokers
  /\ broker \in [Brokers -> Broker]
  /\ link \in [Links -> Link]
  /\ command \in [Commands -> Command]
  /\ late \in [Brokers -> Nat]

\* An earlier command may have left a broker behind, starting or listening.
LifecycleInit ==
  /\ port \in {0, 1}
  /\ \E first \in IF port = 1 THEN {"checking"} ELSE {"none", "starting"} :
       broker = [b \in Brokers |-> [NewBroker EXCEPT !.pc = IF b = 1 THEN first ELSE "none"]]
  /\ link = [l \in Links |-> Over("none")]
  /\ command = [c \in Commands |-> [pc |-> "probe", spawned |-> FALSE, link |-> 0]]
  /\ late = [b \in Brokers |-> 0]

Unspawned == {b \in Brokers : broker[b].pc = "none"}
Unused == {l \in Links : link[l].stage = "none"}
First(S) == CHOOSE x \in S : \A y \in S : x <= y

----------------------------------------------------------------------------
(* The commands: connect_or_spawn, connect_existing, request.               *)

\* Connect to the port and write one request line.
Open(c, ask, pc) ==
  /\ port # 0 /\ Unused # {}
  /\ LET l == First(Unused)
     IN  /\ link' = [link EXCEPT ![l] = [to |-> port, ask |-> ask, stage |-> "queued"]]
         /\ command' = [command EXCEPT ![c].pc = pc, ![c].link = l]
  /\ UNCHANGED <<port, broker, late>>

Step(c, pc) ==
  /\ command' = [command EXCEPT ![c].pc = pc]
  /\ UNCHANGED <<port, broker, link, late>>

IsAnswered(c) == link[command[c].link].stage \in {"answered", "closed"}
IsCut(c) == link[command[c].link].stage = "cut"

Probe(c) == command[c].pc = "probe" /\ Open(c, "ping", "probing")

\* The ping found no broker, got no answer in time, or lost its connection.
\* The first time, connect_or_spawn starts a broker; after that,
\* wait_until_ready tries again until its deadline.
PingFailed(c) ==
  \/ command[c].pc = "probe" /\ (port = 0 \/ Unused = {})
  \/ command[c].pc = "probing" /\ ~IsAnswered(c)

SpawnBroker(c) ==
  /\ PingFailed(c) /\ Ask[c] = "work" /\ ~command[c].spawned /\ Unspawned # {}
  /\ broker' = [broker EXCEPT ![First(Unspawned)] = NewBroker]
  /\ command' = [command EXCEPT ![c].pc = "probe", ![c].spawned = TRUE]
  /\ UNCHANGED <<port, link, late>>

ProbeAgain(c) ==
  /\ command[c].pc = "probing" /\ PingFailed(c) /\ command[c].spawned /\ Unused # {}
  /\ Step(c, "probe")

\* connect_existing fails at once; wait_until_ready at its deadline.
GivesUp(c) ==
  /\ PingFailed(c)
  /\ command[c].spawned \/ Ask[c] = "stop" \/ Unspawned = {}
  /\ Step(c, "failed")

ProbeAnswered(c) ==
  /\ command[c].pc = "probing" /\ IsAnswered(c)
  /\ Step(c, "request")

Request(c) == command[c].pc = "request" /\ Open(c, Ask[c], "requesting")

\* The response line is waited for without a timeout: it arrives, or the
\* connection ends.
RequestEnds(c) ==
  \/ /\ command[c].pc = "requesting" /\ IsAnswered(c)
     /\ Step(c, "served")
  \/ /\ \/ command[c].pc = "requesting" /\ IsCut(c)
        \/ command[c].pc = "request" /\ (port = 0 \/ Unused = {})
     /\ Step(c, "failed")

\* The command's process is killed; its connection stays for the broker to
\* see.  Killed earlier it leaves at most a ping, as one that gives up does.
Dies(c) == command[c].pc = "requesting" /\ Step(c, "failed")

Proceed(c) ==
  \/ Probe(c) \/ SpawnBroker(c) \/ ProbeAgain(c) \/ GivesUp(c)
  \/ ProbeAnswered(c) \/ Request(c) \/ RequestEnds(c)

----------------------------------------------------------------------------
(* run_broker_server                                                       *)

\* Only one process gets the port; a broker that does not ends at once.
Bind(b) ==
  /\ broker[b].pc = "starting"
  /\ IF port = 0
     THEN port' = b /\ broker' = [broker EXCEPT ![b].pc = "checking"]
     ELSE broker' = [broker EXCEPT ![b].pc = "exited"] /\ UNCHANGED port
  /\ UNCHANGED <<link, command, late>>

\* The process ends: the port is free, every unanswered connection is lost.
Exit(b) ==
  /\ broker[b].pc = "checking" /\ broker[b].shutdown
  /\ broker' = [broker EXCEPT ![b] = [NewBroker EXCEPT !.pc = "exited"]]
  /\ port' = 0
  /\ link' = [l \in Links |->
       IF link[l].to # b THEN link[l]
       ELSE Over(IF link[l].stage = "answered" THEN "closed" ELSE "cut")]
  /\ late' = [late EXCEPT ![b] = 0]
  /\ UNCHANGED command

AwaitClient(b) ==
  /\ broker[b].pc = "checking" /\ ~broker[b].shutdown
  /\ broker' = [broker EXCEPT ![b].pc = "accepting"]
  /\ UNCHANGED <<port, link, command, late>>

Queue(b) == {l \in Links : link[l].to = b /\ link[l].stage = "queued"}

BadAccept(b) ==   \* the flag is read only after an accept that timed out
  /\ broker[b].pc = "accepting" /\ Queue(b) # {}
  /\ link' = [link EXCEPT ![First(Queue(b))].stage = "accepted"]
  /\ late' = [late EXCEPT ![b] = @ + IF broker[b].shutdown THEN 1 ELSE 0]
  /\ UNCHANGED <<port, command, broker>>

Accept(b) ==
  /\ broker[b].pc = "accepting" /\ Queue(b) # {}
  /\ link' = [link EXCEPT ![First(Queue(b))].stage = "accepted"]
  /\ late' = [late EXCEPT ![b] = @ + IF broker[b].shutdown THEN 1 ELSE 0]
  /\ broker' = [broker EXCEPT ![b].pc = "checking"]
  /\ UNCHANGED <<port, command>>

\* The accept is given a second at a time.
AcceptTimesOut(b) ==
  /\ broker[b].pc = "accepting" /\ Queue(b) = {}
  /\ broker' = [broker EXCEPT ![b].pc = "checking"]
  /\ UNCHANGED <<port, link, command, late>>

Serves(b) == broker[b].pc \in {"checking", "accepting"}

\* Nothing touched last_activity for the idle timeout.
Expire(b) ==
  /\ Serves(b) /\ ~broker[b].expired
  /\ broker' = [broker EXCEPT ![b].expired = TRUE]
  /\ UNCHANGED <<port, link, command, late>>

BadIdleOut(b) ==   \* only requests in flight count as use
  /\ Serves(b) /\ ~broker[b].shutdown
  /\ broker[b].inFlight = 0 /\ broker[b].expired
  /\ broker' = [broker EXCEPT ![b].shutdown = TRUE]
  /\ UNCHANGED <<port, link, command, late>>

\* The idle task, every five seconds.
IdleOut(b) ==
  /\ Serves(b) /\ ~broker[b].shutdown
  /\ broker[b].active = 0 /\ broker[b].inFlight = 0 /\ broker[b].expired
  /\ broker' = [broker EXCEPT ![b].shutdown = TRUE]
  /\ UNCHANGED <<port, link, command, late>>

AcceptLoop(b) == Exit(b) \/ AwaitClient(b) \/ Accept(b) \/ AcceptTimesOut(b)

----------------------------------------------------------------------------
(* handle_client and process_request                                       *)

\* A handler step from one stage to the next, with its broker's new state.
Handle(l, from, to, state) ==
  /\ link[l].stage = from
  /\ link' = [link EXCEPT ![l] = IF to = "closed" THEN Over(to) ELSE [@ EXCEPT !.stage = to]]
  /\ broker' = [broker EXCEPT ![link[l].to] = state]
  /\ UNCHANGED <<port, command, late>>

Of(l) == broker[link[l].to]

\* An accepted connection counts as a client, its request as in flight; both
\* are activity.
CountClient(l) ==
  Handle(l, "accepted", "counted", [Of(l) EXCEPT !.active = @ + 1, !.expired = FALSE])
CountRequest(l) ==
  Handle(l, "counted", IF link[l].ask = "stop" THEN "serving" ELSE "dispatched",
         [Of(l) EXCEPT !.inFlight = @ + 1, !.expired = FALSE])

\* Of the requests here only Stop changes the broker.
Stop(l) == Handle(l, "serving", "dispatched", [Of(l) EXCEPT !.shutdown = TRUE])

BadEndRequest(l) ==   \* an answered request stays in flight
  Handle(l, "dispatched", "answered", [Of(l) EXCEPT !.expired = FALSE])

\* The request is no longer in flight and its response line is written.
EndRequest(l) ==
  Handle(l, "dispatched", "answered", [Of(l) EXCEPT !.inFlight = @ - 1, !.expired = FALSE])

BadEndClient(l) ==   \* the request is taken out of flight a second time
  Handle(l, "answered", "closed",
         [Of(l) EXCEPT !.active = @ - 1, !.inFlight = @ - 1, !.expired = FALSE])

EndClient(l) ==
  Handle(l, "answered", "closed", [Of(l) EXCEPT !.active = @ - 1, !.expired = FALSE])

Handler(l) ==
  /\ link[l].to # 0 /\ Serves(link[l].to)
  /\ \/ CountClient(l) \/ CountRequest(l) \/ Stop(l)
     \/ EndRequest(l) \/ EndClient(l)

----------------------------------------------------------------------------
LifecycleNext ==
  \/ \E c \in Commands : Proceed(c) \/ Dies(c)
  \/ \E b \in Brokers : Bind(b) \/ AcceptLoop(b) \/ Expire(b) \/ IdleOut(b)
  \/ \E l \in Links : Handler(l)

LifecycleSpec == LifecycleInit /\ [][LifecycleNext]_lifecycleVars

\* Processes run, tasks are polled, and time passes.  Nothing makes a command
\* die.
FairSpec ==
  /\ LifecycleSpec
  /\ \A c \in Commands : WF_lifecycleVars(Proceed(c))
  /\ \A b \in Brokers :
       WF_lifecycleVars(Bind(b) \/ AcceptLoop(b)) /\ WF_lifecycleVars(Expire(b) \/ IdleOut(b))
  /\ \A l \in Links : WF_lifecycleVars(Handler(l))

----------------------------------------------------------------------------
(* Properties.                                                             *)

Served(b) ==   \* some client of broker b is counted
  \E l \in Links : link[l].to = b /\
    link[l].stage \in {"counted", "serving", "dispatched", "answered"}

\* A broker is told to end by a stop request, or while it serves nobody: the
\* two counters never miss a client that is being served (idle task).
IdleOutUnserved ==
  [][\A b \in Brokers : ~broker[b].shutdown /\ broker'[b].shutdown =>
       \/ ~Served(b)
       \/ \E l \in Links : link[l].to = b /\ link[l].ask = "stop" /\ link[l].stage = "serving"]_lifecycleVars

\* A broker that is to end takes at most the one client its accept was already
\* waiting for (run_broker_server).
AtMostOneLate == \A b \in Brokers : late[b] <= 1

\* Every command comes to an end, whatever brokers do: a request waits
\* without a timeout, and is answered or loses its connection.
CommandsEnd ==
  <>(\A c \in Commands : command[c].pc \in {"served", "failed"})

\* When the last command is over, every broker ends, the ones whose clients
\* died included: no client or request stays counted.
BrokersEnd == <>[](\A b \in Brokers : broker[b].pc \in {"none", "exited"})

\* Commands and brokers come to an end (idle task, request).
EveryoneEnds == CommandsEnd /\ BrokersEnd
=============================================================================
