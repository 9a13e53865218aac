---------------------------- MODULE SnuBroker_proofs ----------------------------
(* Proofs about the broker: its processes (SnuLifecycle), for any commands,     *)
(* brokers and connections, then its sessions (SnuSessions), for any origins,   *)
(* clients, tokens and restarts.                                               *)
EXTENDS SnuLifecycle, SnuSessions, FiniteSetTheorems, SequenceTheorems, WellFoundedInduction, TLAPS

----------------------------------------------------------------------------
(* Processes: the inductive invariant                                      *)

Counting == {"counted", "serving", "dispatched", "answered"}
Busy == {"serving", "dispatched"}
In(b, stages) == {l \in Links : link[l].to = b /\ link[l].stage \in stages}

\* A broker's counters are the numbers of handlers between the calls that count
\* them up and down.
CountersAgree ==
  \A b \in Brokers : /\ broker[b].active = Cardinality(In(b, Counting))
                     /\ broker[b].inFlight = Cardinality(In(b, Busy))

\* A broker that does not listen counts nobody.
NobodyElsewhere ==
  \A b \in Brokers : ~Serves(b) => broker[b].active = 0 /\ broker[b].inFlight = 0

\* Only a stop request is served by the step that stops the broker.
StopServed == \A l \in Links : link[l].stage = "serving" => link[l].ask = "stop"

\* A broker that accepted a client late reads the shutdown flag next.
LateChecks ==
  \A b \in Brokers : late[b] = 0 \/ (late[b] = 1 /\ broker[b].pc = "checking" /\ broker[b].shutdown)

LifecycleInv == LifecycleTypeOK /\ CountersAgree /\ NobodyElsewhere /\ StopServed /\ LateChecks

\* How a broker comes to be told to end, in one step.
IdleStep ==
  \A b \in Brokers : ~broker[b].shutdown /\ broker'[b].shutdown =>
    \/ ~Served(b)
    \/ \E l \in Links : link[l].to = b /\ link[l].ask = "stop" /\ link[l].stage = "serving"

GoodStep == LifecycleInv' /\ IdleStep

----------------------------------------------------------------------------
(* Processes: choices and counts                                           *)

\* First is a member of the set it is taken from.
LEMMA FirstOf ==
  ASSUME NEW S \in SUBSET Nat, S # {}
  PROVE  First(S) \in S
<1> DEFINE R == OpToRel(<, Nat)
<1>1. IsWellFoundedOn(R, Nat)
  BY NatLessThanWellFounded
<1>2. \A x, y \in Nat : <<y, x>> \in R <=> y < x
  BY DEF OpToRel
<1> HIDE DEF R
<1>3. PICK x \in S : \A y \in S : ~ (<<y, x>> \in R)
  BY <1>1, WFMin
<1>4. ASSUME NEW y \in S PROVE x <= y
  <2>1. x \in Nat /\ y \in Nat
    OBVIOUS
  <2>2. ~ (y < x)
    BY <1>2, <1>3, <2>1
  <2> QED BY <2>1, <2>2
<1> QED BY <1>4 DEF First

\* Brokers and links are numbers.
LEMMA Numbers ==
  /\ Brokers \in SUBSET Nat /\ Links \in SUBSET Nat /\ 0 \notin Brokers /\ 0 \notin Links
  /\ 0 .. MaxBrokers = Brokers \cup {0} /\ 0 .. MaxLinks = Links \cup {0}
BY ProcessAssumption DEF Brokers, Links

\* The handlers of a broker can be counted, one more and one less.
LEMMA Counts ==
  ASSUME NEW b, NEW stages, NEW l
  PROVE  /\ Cardinality(In(b, stages)) \in Nat
         /\ l \notin In(b, stages) => Cardinality(In(b, stages) \cup {l}) = Cardinality(In(b, stages)) + 1
         /\ l \in In(b, stages) => /\ Cardinality(In(b, stages) \ {l}) = Cardinality(In(b, stages)) - 1
                                   /\ Cardinality(In(b, stages)) - 1 \in Nat
         /\ Cardinality(In(b, stages)) = 0 <=> In(b, stages) = {}
<1>1. IsFiniteSet(Links)
  BY FS_Interval, ProcessAssumption DEF Links
<1>2. IsFiniteSet(In(b, stages))
  <2>1. In(b, stages) \in SUBSET Links
    BY DEF In
  <2> QED BY <1>1, <2>1, FS_Subset
<1> DEFINE S == In(b, stages)
<1> HIDE DEF S
<1>3. IsFiniteSet(S)
  BY <1>2 DEF S
<1>4. Cardinality(S) \in Nat
  BY <1>3, FS_CardinalityType
<1>5. l \notin S => Cardinality(S \cup {l}) = Cardinality(S) + 1
  BY <1>3, FS_AddElement
<1>6. IsFiniteSet(S \ {l}) /\ (l \in S => Cardinality(S \ {l}) = Cardinality(S) - 1)
  BY <1>3, FS_RemoveElement
<1>7. Cardinality(S \ {l}) \in Nat
  BY <1>6, FS_CardinalityType
<1>8. Cardinality(S) = 0 <=> S = {}
  BY <1>3, FS_EmptySet
<1> QED BY <1>4, <1>5, <1>6, <1>7, <1>8 DEF S

\* A broker without counted clients serves nobody.
LEMMA UnservedWhenZero ==
  ASSUME LifecycleInv, NEW b \in Brokers, broker[b].active = 0
  PROVE  ~Served(b)
<1>1. In(b, Counting) = {}
  BY Counts DEF LifecycleInv, CountersAgree
<1> QED BY <1>1 DEF Served, In, Counting

----------------------------------------------------------------------------
(* Steps that count nobody                                                 *)

\* Links that enter or leave stages in which nobody is counted.
LEMMA UncountedLink ==
  ASSUME LifecycleInv, NEW l \in Links, NEW n \in Link, link' = [link EXCEPT ![l] = n],
         link[l].stage \notin Counting, n.stage \notin Counting
  PROVE  /\ link' \in [Links -> Link] /\ StopServed'
         /\ \A b \in Brokers : In(b, Counting)' = In(b, Counting) /\ In(b, Busy)' = In(b, Busy)
<1>1. link'[l] = n /\ \A k \in Links \ {l} : link'[k] = link[k]
  BY DEF LifecycleInv, LifecycleTypeOK
<1>2. StopServed'
  BY <1>1 DEF LifecycleInv, StopServed, Counting
<1>3. Busy \subseteq Counting
  BY DEF Busy, Counting
<1> QED BY <1>1, <1>2, <1>3 DEF LifecycleInv, LifecycleTypeOK, In

\* Brokers that change only the rest of their state, on links that count as before.
LEMMA UncountedStep ==
  ASSUME LifecycleInv, NEW b \in Brokers, NEW k \in Broker, broker' = [broker EXCEPT ![b] = k],
         k.active = broker[b].active, k.inFlight = broker[b].inFlight,
         k.pc \notin {"checking", "accepting"} => ~Serves(b),
         link' \in [Links -> Link], StopServed',
         \A x \in Brokers : In(x, Counting)' = In(x, Counting) /\ In(x, Busy)' = In(x, Busy),
         port' \in 0 .. MaxBrokers, command' \in [Commands -> Command], late' \in [Brokers -> Nat],
         \A x \in Brokers \ {b} : late'[x] = late[x],
         late'[b] = 0 \/ (late'[b] = 1 /\ k.pc = "checking" /\ k.shutdown),
         k.shutdown /\ ~broker[b].shutdown => ~Served(b)
  PROVE  GoodStep
<1>1. broker'[b] = k /\ \A x \in Brokers \ {b} : broker'[x] = broker[x]
  BY DEF LifecycleInv, LifecycleTypeOK
<1>2. LifecycleTypeOK'
  BY DEF LifecycleInv, LifecycleTypeOK
<1>3. CountersAgree'
  BY <1>1 DEF LifecycleInv, CountersAgree
<1>4. NobodyElsewhere'
  BY <1>1 DEF LifecycleInv, NobodyElsewhere, Serves
<1>5. LateChecks'
  BY <1>1 DEF LifecycleInv, LateChecks
<1>6. IdleStep
  BY <1>1 DEF IdleStep
<1> QED BY <1>2, <1>3, <1>4, <1>5, <1>6 DEF GoodStep, LifecycleInv

\* Steps that no broker takes part in.
LEMMA NoBrokerStep ==
  ASSUME LifecycleInv, UNCHANGED <<broker, late>>, link' \in [Links -> Link], StopServed',
         \A x \in Brokers : In(x, Counting)' = In(x, Counting) /\ In(x, Busy)' = In(x, Busy),
         port' \in 0 .. MaxBrokers, command' \in [Commands -> Command]
  PROVE  GoodStep
<1>1. LifecycleTypeOK' /\ CountersAgree' /\ NobodyElsewhere' /\ LateChecks'
  BY DEF LifecycleInv, LifecycleTypeOK, CountersAgree, NobodyElsewhere, Serves, LateChecks
<1>2. IdleStep
  BY DEF IdleStep
<1> QED BY <1>1, <1>2 DEF GoodStep, LifecycleInv

\* Nothing about links changes with the other variables.
LEMMA SameLinks ==
  ASSUME LifecycleInv, UNCHANGED link
  PROVE  /\ link' \in [Links -> Link] /\ StopServed'
         /\ \A x \in Brokers : In(x, Counting)' = In(x, Counting) /\ In(x, Busy)' = In(x, Busy)
BY DEF LifecycleInv, LifecycleTypeOK, StopServed, In

----------------------------------------------------------------------------
(* Commands                                                                *)

\* A command that changes its pc only.
LEMMA CommandStepKeeps ==
  ASSUME LifecycleInv, NEW c \in Commands, NEW pc \in CommandPC, Step(c, pc)
  PROVE  GoodStep
<1>1. command' \in [Commands -> Command]
  <2>1. command[c] \in Command /\ [command[c] EXCEPT !.pc = pc] \in Command
    BY DEF LifecycleInv, LifecycleTypeOK, Command
  <2> QED BY <2>1 DEF Step, LifecycleInv, LifecycleTypeOK
<1> QED BY <1>1, SameLinks, NoBrokerStep DEF Step, LifecycleInv, LifecycleTypeOK

\* A connection is opened in the first unused link.
LEMMA OpenKeeps ==
  ASSUME LifecycleInv, NEW c \in Commands, NEW ask \in {"ping", "work", "stop"}, NEW pc \in CommandPC,
         Open(c, ask, pc)
  PROVE  GoodStep
<1> DEFINE l == First(Unused)
           n == [to |-> port, ask |-> ask, stage |-> "queued"]
<1>1. l \in Unused
  <2>1. Unused \in SUBSET Nat /\ Unused # {}
    BY Numbers DEF Unused, Open
  <2> QED BY <2>1, FirstOf
<1>2. l \in Links /\ link[l].stage \notin Counting
  BY <1>1 DEF Unused, Counting
<1>3. n \in Link /\ n.stage \notin Counting
  BY DEF Link, Stage, Counting, LifecycleInv, LifecycleTypeOK
<1>4. /\ link' = [link EXCEPT ![l] = n] /\ command' = [command EXCEPT ![c].pc = pc, ![c].link = l]
      /\ UNCHANGED <<port, broker, late>>
  BY DEF Open
<1> HIDE DEF l, n
<1>5. command' \in [Commands -> Command]
  <2>1. l \in 0 .. MaxLinks
    BY <1>2, Numbers
  <2>2. command[c] \in Command /\ [command[c] EXCEPT !.pc = pc, !.link = l] \in Command
    BY <2>1 DEF LifecycleInv, LifecycleTypeOK, Command
  <2> QED BY <1>4, <2>2 DEF LifecycleInv, LifecycleTypeOK
<1> QED BY <1>2, <1>3, <1>4, <1>5, UncountedLink, NoBrokerStep DEF LifecycleInv, LifecycleTypeOK

\* A broker that is spawned counts nobody.
LEMMA SpawnKeeps ==
  ASSUME LifecycleInv, NEW c \in Commands, SpawnBroker(c)
  PROVE  GoodStep
<1> DEFINE b == First(Unspawned)
<1>1. b \in Unspawned
  <2>1. Unspawned \in SUBSET Nat /\ Unspawned # {}
    BY Numbers DEF Unspawned, SpawnBroker
  <2> QED BY <2>1, FirstOf
<1>2. /\ b \in Brokers /\ broker[b].pc = "none" /\ ~Serves(b)
  BY <1>1 DEF Unspawned, Serves
<1>3. /\ broker' = [broker EXCEPT ![b] = NewBroker] /\ UNCHANGED <<port, link, late>>
      /\ command' = [command EXCEPT ![c].pc = "probe", ![c].spawned = TRUE]
  BY DEF SpawnBroker
<1> HIDE DEF b
<1>4. /\ NewBroker \in Broker /\ NewBroker.active = 0 /\ NewBroker.inFlight = 0
      /\ NewBroker.pc = "starting" /\ ~NewBroker.shutdown
  BY DEF NewBroker, Broker
<1>5. broker[b].active = 0 /\ broker[b].inFlight = 0 /\ late[b] = 0
  BY <1>2 DEF LifecycleInv, NobodyElsewhere, LateChecks
<1>6. command' \in [Commands -> Command]
  <2>1. command[c] \in Command /\ [command[c] EXCEPT !.pc = "probe", !.spawned = TRUE] \in Command
    BY DEF LifecycleInv, LifecycleTypeOK, Command, CommandPC
  <2> QED BY <1>3, <2>1 DEF LifecycleInv, LifecycleTypeOK
<1>7. port' \in 0 .. MaxBrokers /\ late' \in [Brokers -> Nat] /\ late' = late
  BY <1>3 DEF LifecycleInv, LifecycleTypeOK
<1> QED BY <1>2, <1>3, <1>4, <1>5, <1>6, <1>7, SameLinks, UncountedStep

\* Every step of a command.
LEMMA CommandKeeps ==
  ASSUME LifecycleInv, NEW c \in Commands, Proceed(c) \/ Dies(c)
  PROVE  GoodStep
<1>1. Ask[c] \in {"ping", "work", "stop"} /\ "ping" \in {"ping", "work", "stop"}
  BY AskAssumption
<1>2. \A pc \in {"probe", "probing", "request", "requesting", "served", "failed"} : pc \in CommandPC
  BY DEF CommandPC
<1>3. CASE Probe(c) \/ Request(c)
  BY <1>1, <1>2, <1>3, OpenKeeps DEF Probe, Request
<1>4. CASE ProbeAgain(c) \/ GivesUp(c) \/ ProbeAnswered(c) \/ RequestEnds(c) \/ Dies(c)
  BY <1>2, <1>4, CommandStepKeeps DEF ProbeAgain, GivesUp, ProbeAnswered, RequestEnds, Dies
<1> QED BY <1>3, <1>4, SpawnKeeps DEF Proceed

----------------------------------------------------------------------------
(* Brokers                                                                 *)

\* A broker that changes its pc, its shutdown flag or its idle clock only.
LEMMA LoopKeeps ==
  ASSUME LifecycleInv, NEW b \in Brokers,
         Bind(b) \/ AwaitClient(b) \/ AcceptTimesOut(b) \/ Expire(b) \/ IdleOut(b)
  PROVE  GoodStep
<1>1. UNCHANGED <<link, command, late>>
  BY DEF Bind, AwaitClient, AcceptTimesOut, Expire, IdleOut
<1>2. broker[b] \in Broker
  BY DEF LifecycleInv, LifecycleTypeOK
<1>3. ASSUME NEW k \in Broker, broker' = [broker EXCEPT ![b] = k],
             k.active = broker[b].active, k.inFlight = broker[b].inFlight,
             k.pc \notin {"checking", "accepting"} => ~Serves(b),
             late[b] = 0 \/ (k.pc = "checking" /\ k.shutdown),
             k.shutdown /\ ~broker[b].shutdown => ~Served(b),
             port' \in 0 .. MaxBrokers
      PROVE  GoodStep
  BY <1>1, <1>3, SameLinks, UncountedStep DEF LifecycleInv, LifecycleTypeOK, LateChecks
<1>4. ASSUME NEW pc \in {"checking", "accepting", "exited"}, broker' = [broker EXCEPT ![b].pc = pc],
             pc = "exited" => ~Serves(b), late[b] = 0, port' \in 0 .. MaxBrokers
      PROVE  GoodStep
  <2> DEFINE k == [broker[b] EXCEPT !.pc = pc]
  <2>1. /\ k \in Broker /\ k.active = broker[b].active /\ k.inFlight = broker[b].inFlight
        /\ k.pc = pc /\ k.shutdown = broker[b].shutdown
    BY <1>2 DEF Broker
  <2>2. broker' = [broker EXCEPT ![b] = k]
    BY <1>4 DEF LifecycleInv, LifecycleTypeOK
  <2> HIDE DEF k
  <2> QED BY <1>3, <1>4, <2>1, <2>2
<1>5. CASE Bind(b)
  <2>1. late[b] = 0 /\ ~Serves(b)
    BY <1>5 DEF Bind, Serves, LifecycleInv, LateChecks
  <2>2. port' \in 0 .. MaxBrokers
    BY <1>5, Numbers DEF Bind, LifecycleInv, LifecycleTypeOK
  <2> QED BY <1>4, <1>5, <2>1, <2>2 DEF Bind
<1>6. CASE AwaitClient(b)
  BY <1>4, <1>6 DEF AwaitClient, LifecycleInv, LifecycleTypeOK, LateChecks
<1>7. CASE AcceptTimesOut(b)
  BY <1>4, <1>7 DEF AcceptTimesOut, LifecycleInv, LifecycleTypeOK, LateChecks
<1>8. CASE Expire(b)
  <2> DEFINE k == [broker[b] EXCEPT !.expired = TRUE]
  <2>1. /\ k \in Broker /\ k.active = broker[b].active /\ k.inFlight = broker[b].inFlight
        /\ k.pc = broker[b].pc /\ k.shutdown = broker[b].shutdown
    BY <1>2 DEF Broker
  <2>2. broker' = [broker EXCEPT ![b] = k] /\ port' \in 0 .. MaxBrokers /\ Serves(b)
    BY <1>8 DEF Expire, LifecycleInv, LifecycleTypeOK
  <2> HIDE DEF k
  <2>3. late[b] = 0 \/ (k.pc = "checking" /\ k.shutdown)
    BY <2>1 DEF LifecycleInv, LateChecks
  <2> QED BY <1>3, <2>1, <2>2, <2>3 DEF Serves
<1>9. CASE IdleOut(b)
  <2> DEFINE k == [broker[b] EXCEPT !.shutdown = TRUE]
  <2>1. /\ k \in Broker /\ k.active = broker[b].active /\ k.inFlight = broker[b].inFlight
        /\ k.pc = broker[b].pc /\ k.shutdown
    BY <1>2 DEF Broker
  <2>2. broker' = [broker EXCEPT ![b] = k] /\ port' \in 0 .. MaxBrokers /\ Serves(b)
    BY <1>9 DEF IdleOut, LifecycleInv, LifecycleTypeOK
  <2> HIDE DEF k
  <2>3. late[b] = 0 /\ ~Served(b)
    BY <1>9, UnservedWhenZero DEF IdleOut, LifecycleInv, LateChecks
  <2> QED BY <1>3, <2>1, <2>2, <2>3 DEF Serves
<1> QED BY <1>5, <1>6, <1>7, <1>8, <1>9

\* An accepted connection is not counted yet.
LEMMA AcceptKeeps ==
  ASSUME LifecycleInv, NEW b \in Brokers, Accept(b)
  PROVE  GoodStep
<1> DEFINE l == First(Queue(b))
           n == [link[l] EXCEPT !.stage = "accepted"]
           k == [broker[b] EXCEPT !.pc = "checking"]
<1>1. l \in Queue(b)
  <2>1. Queue(b) \in SUBSET Nat /\ Queue(b) # {}
    BY Numbers DEF Queue, Accept
  <2> QED BY <2>1, FirstOf
<1>2. l \in Links /\ link[l].stage \notin Counting /\ link[l] \in Link
  BY <1>1 DEF Queue, Counting, LifecycleInv, LifecycleTypeOK
<1>3. n \in Link /\ n.stage \notin Counting
  BY <1>2 DEF Link, Stage, Counting
<1>4. /\ broker[b] \in Broker /\ k \in Broker /\ k.active = broker[b].active
      /\ k.inFlight = broker[b].inFlight /\ k.pc = "checking" /\ k.shutdown = broker[b].shutdown
  BY DEF LifecycleInv, LifecycleTypeOK, Broker
<1>5. link' = [link EXCEPT ![l] = n] /\ broker' = [broker EXCEPT ![b] = k] /\ UNCHANGED <<port, command>>
  BY <1>2 DEF Accept, LifecycleInv, LifecycleTypeOK
<1>6. late[b] = 0 /\ late \in [Brokers -> Nat]
  BY DEF Accept, LifecycleInv, LifecycleTypeOK, LateChecks
<1>7. late' = [late EXCEPT ![b] = IF broker[b].shutdown THEN 1 ELSE 0]
  <2>1. late[b] + (IF broker[b].shutdown THEN 1 ELSE 0) = IF broker[b].shutdown THEN 1 ELSE 0
    BY <1>6
  <2> QED BY <2>1 DEF Accept
<1> HIDE DEF l, n, k
<1>8. /\ late' \in [Brokers -> Nat] /\ \A x \in Brokers \ {b} : late'[x] = late[x]
      /\ late'[b] = 0 \/ (late'[b] = 1 /\ k.pc = "checking" /\ k.shutdown)
  BY <1>4, <1>6, <1>7
<1>9. /\ link' \in [Links -> Link] /\ StopServed'
      /\ \A x \in Brokers : In(x, Counting)' = In(x, Counting) /\ In(x, Busy)' = In(x, Busy)
  BY <1>2, <1>3, <1>5, UncountedLink
<1>10. port' \in 0 .. MaxBrokers /\ command' \in [Commands -> Command]
  BY <1>5 DEF LifecycleInv, LifecycleTypeOK
<1> QED BY <1>4, <1>5, <1>8, <1>9, <1>10, UncountedStep

\* A process that ends takes its handlers along.
LEMMA ExitKeeps ==
  ASSUME LifecycleInv, NEW b \in Brokers, Exit(b)
  PROVE  GoodStep
<1> DEFINE k == [NewBroker EXCEPT !.pc = "exited"]
<1>1. k \in Broker /\ k.active = 0 /\ k.inFlight = 0 /\ ~k.shutdown /\ k.pc = "exited"
  BY DEF NewBroker, Broker
<1>2. broker'[b] = k /\ broker' \in [Brokers -> Broker] /\ \A x \in Brokers \ {b} : broker'[x] = broker[x]
  BY <1>1 DEF Exit, LifecycleInv, LifecycleTypeOK
<1> HIDE DEF k
<1>3. \A l \in Links : /\ link[l].to # b => link'[l] = link[l]
                       /\ link[l].to = b => \E stage \in {"closed", "cut"} : link'[l] = Over(stage)
  BY DEF Exit
<1>4. \A stage \in {"closed", "cut"} : /\ Over(stage) \in Link /\ Over(stage).to = 0
                                       /\ Over(stage).stage = stage
  BY Numbers DEF Over, Link, Stage
<1>5. link' \in [Links -> Link]
  BY <1>3, <1>4 DEF Exit, LifecycleInv, LifecycleTypeOK
<1>6. ASSUME NEW stages, NEW x \in Brokers \ {b} PROVE In(x, stages)' = In(x, stages)
  <2>1. ASSUME NEW l \in Links PROVE link'[l].to = x /\ link'[l].stage \in stages
                                     <=> link[l].to = x /\ link[l].stage \in stages
    <3>1. CASE link[l].to = b
      BY <1>3, <1>4, <3>1, Numbers
    <3>2. CASE link[l].to # b
      BY <1>3, <3>2
    <3> QED BY <3>1, <3>2
  <2> QED BY <2>1 DEF In
<1>7. ASSUME NEW stages PROVE In(b, stages)' = {}
  <2>1. \A l \in Links : link'[l].to # b
    BY <1>3, <1>4, Numbers
  <2> QED BY <2>1 DEF In
<1>8. LifecycleTypeOK'
  <2>1. port' \in 0 .. MaxBrokers /\ command' \in [Commands -> Command] /\ late' \in [Brokers -> Nat]
    BY Numbers DEF Exit, LifecycleInv, LifecycleTypeOK
  <2> QED BY <1>2, <1>5, <2>1 DEF LifecycleTypeOK
<1>9. CountersAgree'
  <2>1. Cardinality({}) = 0
    BY FS_EmptySet
  <2>2. In(b, Counting)' = {} /\ In(b, Busy)' = {}
    BY <1>7
  <2>3. \A x \in Brokers \ {b} : In(x, Counting)' = In(x, Counting) /\ In(x, Busy)' = In(x, Busy)
    BY <1>6
  <2> QED BY <1>1, <1>2, <2>1, <2>2, <2>3 DEF LifecycleInv, CountersAgree
<1>10. NobodyElsewhere'
  BY <1>1, <1>2 DEF LifecycleInv, NobodyElsewhere, Serves
<1>11. StopServed'
  BY <1>3, <1>4 DEF LifecycleInv, StopServed
<1>12. LateChecks'
  BY <1>2 DEF Exit, LifecycleInv, LifecycleTypeOK, LateChecks
<1>13. IdleStep
  BY <1>1, <1>2 DEF IdleStep
<1> QED BY <1>8, <1>9, <1>10, <1>11, <1>12, <1>13 DEF GoodStep, LifecycleInv

----------------------------------------------------------------------------
(* Handlers                                                                *)

\* One if a stage counts, and the state of a broker whose counters might be anything.
One(stage, stages) == IF stage \in stages THEN 1 ELSE 0
Counters == [pc : {"none", "starting", "checking", "accepting", "exited"},
             shutdown : BOOLEAN, expired : BOOLEAN, active : Int, inFlight : Int]

\* A handler's step keeps the counters exact if it changes each by what it adds to
\* or takes from the count.
LEMMA HandleKeeps ==
  ASSUME LifecycleInv, NEW l \in Links, link[l].to # 0, Serves(link[l].to),
         NEW from, NEW to \in {"counted", "serving", "dispatched", "answered", "closed"}, NEW state,
         Handle(l, from, to, state),
         to = "serving" => link[l].ask = "stop",
         state \in Counters, state.pc = Of(l).pc,
         Of(l).shutdown => state.shutdown,
         state.shutdown => Of(l).shutdown \/ (link[l].ask = "stop" /\ from = "serving"),
         state.active = Of(l).active + One(to, Counting) - One(from, Counting),
         state.inFlight = Of(l).inFlight + One(to, Busy) - One(from, Busy)
  PROVE  GoodStep
<1> DEFINE n == IF to = "closed" THEN Over(to) ELSE [link[l] EXCEPT !.stage = to]
<1> PICK b : b = link[l].to
  OBVIOUS
<1>1. /\ b \in Brokers /\ broker[b] \in Broker /\ link[l] \in Link /\ link[l].stage = from
  <2>1. link[l] \in Link
    BY DEF LifecycleInv, LifecycleTypeOK
  <2>2. link[l].to \in Brokers
    BY <2>1, Numbers DEF Link
  <2> QED BY <2>1, <2>2 DEF LifecycleInv, LifecycleTypeOK, Handle
<1>2. n \in Link /\ n.stage = to /\ (to # "closed" => n.to = b /\ n.ask = link[l].ask)
      /\ (to = "closed" => n.to = 0)
  <2>1. CASE to = "closed"
    BY <2>1, Numbers DEF Over, Link, Stage
  <2>2. CASE to # "closed"
    BY <1>1, <2>2 DEF Link, Stage
  <2> QED BY <2>1, <2>2
<1>3. link' = [link EXCEPT ![l] = n] /\ broker' = [broker EXCEPT ![b] = state] /\ UNCHANGED <<port, command, late>>
  BY DEF Handle
<1>4. state.pc = broker[b].pc
  BY DEF Of
<1> HIDE DEF n
<1>5. /\ link'[l] = n /\ \A k \in Links \ {l} : link'[k] = link[k]
      /\ broker'[b] = state /\ \A x \in Brokers \ {b} : broker'[x] = broker[x]
      /\ link' \in [Links -> Link]
  BY <1>1, <1>2, <1>3 DEF LifecycleInv, LifecycleTypeOK
<1>6. ASSUME NEW stages, stages = Counting \/ stages = Busy
      PROVE  /\ \A x \in Brokers \ {b} : In(x, stages)' = In(x, stages)
             /\ Cardinality(In(b, stages)') = Cardinality(In(b, stages)) + One(to, stages)
                                               - One(from, stages)
             /\ Cardinality(In(b, stages)') \in Nat
  <2>1. n.to \in {b, 0} /\ (n.to = b \/ n.stage \notin stages)
    BY <1>2, <1>6 DEF Counting, Busy
  <2>2. /\ \A x \in Brokers \ {b} : In(x, stages)' = In(x, stages)
        /\ to \in stages => In(b, stages)' = In(b, stages) \cup {l}
        /\ to \notin stages => In(b, stages)' = In(b, stages) \ {l}
    <3>1. ASSUME NEW x \in Brokers \ {b} PROVE In(x, stages)' = In(x, stages)
      BY <1>1, <1>5, <2>1, Numbers DEF In
    <3>2. ASSUME to \in stages PROVE In(b, stages)' = In(b, stages) \cup {l}
      BY <1>2, <1>5, <2>1, <3>2 DEF In
    <3>3. ASSUME to \notin stages PROVE In(b, stages)' = In(b, stages) \ {l}
      BY <1>2, <1>5, <3>3 DEF In
    <3> QED BY <3>1, <3>2, <3>3
  <2>3. l \in In(b, stages) <=> from \in stages
    BY <1>1 DEF In
  <2> DEFINE S == In(b, stages)
  <2>4. /\ Cardinality(S) \in Nat
        /\ l \notin S => Cardinality(S \cup {l}) = Cardinality(S) + 1
        /\ l \in S => Cardinality(S \ {l}) = Cardinality(S) - 1 /\ Cardinality(S) - 1 \in Nat
    BY Counts
  <2>5. (l \in S => S \cup {l} = S) /\ (l \notin S => S \ {l} = S)
    OBVIOUS
  <2> HIDE DEF S
  <2>6. to \in stages => In(b, stages)' = S \cup {l}
    BY <2>2 DEF S
  <2>7. to \notin stages => In(b, stages)' = S \ {l}
    BY <2>2 DEF S
  <2>8. l \in S <=> from \in stages
    BY <2>3 DEF S
  <2>9. Cardinality(In(b, stages)') = Cardinality(S) + One(to, stages)
                                       - One(from, stages)
        /\ Cardinality(In(b, stages)') \in Nat
    <3>1. CASE to \in stages /\ from \in stages
      <4>1. Cardinality(In(b, stages)') = Cardinality(S \cup {l})
        BY <2>6, <3>1
      <4>2. Cardinality(S \cup {l}) = Cardinality(S) /\ Cardinality(S \cup {l}) \in Nat
        BY <2>4, <2>5, <2>8, <3>1
      <4>3. One(to, stages) = 1 /\ One(from, stages) = 1
        BY <3>1 DEF One
      <4> QED BY <2>4, <4>1, <4>2, <4>3
    <3>2. CASE to \in stages /\ from \notin stages
      <4>1. Cardinality(In(b, stages)') = Cardinality(S \cup {l})
        BY <2>6, <3>2
      <4>2. Cardinality(S \cup {l}) = Cardinality(S) + 1 /\ Cardinality(S \cup {l}) \in Nat
        BY <2>4, <2>5, <2>8, <3>2
      <4>3. One(to, stages) = 1 /\ One(from, stages) = 0
        BY <3>2 DEF One
      <4> QED BY <2>4, <4>1, <4>2, <4>3
    <3>3. CASE to \notin stages /\ from \in stages
      <4>1. Cardinality(In(b, stages)') = Cardinality(S \ {l})
        BY <2>7, <3>3
      <4>2. Cardinality(S \ {l}) = Cardinality(S) - 1 /\ Cardinality(S \ {l}) \in Nat
        BY <2>4, <2>5, <2>8, <3>3
      <4>3. One(to, stages) = 0 /\ One(from, stages) = 1
        BY <3>3 DEF One
      <4> QED BY <2>4, <4>1, <4>2, <4>3
    <3>4. CASE to \notin stages /\ from \notin stages
      <4>1. Cardinality(In(b, stages)') = Cardinality(S \ {l})
        BY <2>7, <3>4
      <4>2. Cardinality(S \ {l}) = Cardinality(S) /\ Cardinality(S \ {l}) \in Nat
        BY <2>4, <2>5, <2>8, <3>4
      <4>3. One(to, stages) = 0 /\ One(from, stages) = 0
        BY <3>4 DEF One
      <4> QED BY <2>4, <4>1, <4>2, <4>3
    <3> QED BY <3>1, <3>2, <3>3, <3>4
  <2> QED BY <2>2, <2>9 DEF S
<1>7. /\ state.active = Cardinality(In(b, Counting)') /\ state.inFlight = Cardinality(In(b, Busy)')
      /\ state.active \in Nat /\ state.inFlight \in Nat
  <2>1. Of(l).active = Cardinality(In(b, Counting)) /\ Of(l).inFlight = Cardinality(In(b, Busy))
    BY <1>1 DEF LifecycleInv, CountersAgree, Of
  <2>2. /\ Cardinality(In(b, Counting)') = Cardinality(In(b, Counting))
             + One(to, Counting) - One(from, Counting)
        /\ Cardinality(In(b, Counting)') \in Nat
    BY <1>6
  <2>3. /\ Cardinality(In(b, Busy)') = Cardinality(In(b, Busy))
             + One(to, Busy) - One(from, Busy)
        /\ Cardinality(In(b, Busy)') \in Nat
    BY <1>6
  <2> QED BY <2>1, <2>2, <2>3
<1>8. state \in Broker
  BY <1>7 DEF Counters, Broker
<1>9. LifecycleTypeOK'
  BY <1>3, <1>5, <1>8 DEF LifecycleInv, LifecycleTypeOK
<1>10. CountersAgree'
  <2>1. \A x \in Brokers \ {b} : In(x, Counting)' = In(x, Counting) /\ In(x, Busy)' = In(x, Busy)
    BY <1>6
  <2> QED BY <1>5, <1>7, <2>1 DEF LifecycleInv, CountersAgree
<1>11. NobodyElsewhere'
  BY <1>4, <1>5 DEF LifecycleInv, NobodyElsewhere, Serves
<1>12. StopServed'
  BY <1>2, <1>5 DEF LifecycleInv, StopServed
<1>13. LateChecks'
  BY <1>3, <1>4, <1>5 DEF LifecycleInv, LateChecks, Of
<1>14. IdleStep
  BY <1>1, <1>5 DEF IdleStep, Of
<1> QED BY <1>9, <1>10, <1>11, <1>12, <1>13, <1>14 DEF GoodStep, LifecycleInv

\* Every step of a handler.
LEMMA HandlerKeeps ==
  ASSUME LifecycleInv, NEW l \in Links, Handler(l)
  PROVE  GoodStep
<1> DEFINE k == Of(l)
<1>1. link[l].to # 0 /\ Serves(link[l].to)
  BY DEF Handler
<1>2. k \in Broker /\ k.active \in Nat /\ k.inFlight \in Nat /\ link[l].ask \in {"ping", "work", "stop"}
  <2>1. link[l] \in Link
    BY DEF LifecycleInv, LifecycleTypeOK
  <2>2. link[l].to \in Brokers
    BY <1>1, <2>1, Numbers DEF Link
  <2>3. k \in Broker
    BY <2>2 DEF LifecycleInv, LifecycleTypeOK, Of
  <2> QED BY <2>1, <2>3 DEF Link, Broker
<1> HIDE DEF k
<1>3. CASE CountClient(l)
  <2> DEFINE s == [k EXCEPT !.active = @ + 1, !.expired = FALSE]
  <2>1. /\ s.active = k.active + 1 /\ s.inFlight = k.inFlight /\ s.shutdown = k.shutdown /\ ~s.expired
        /\ s \in Counters /\ s.pc = k.pc
    <3>1. k \in Counters
      BY <1>2 DEF Broker, Counters
    <3>2. k.active + 1 \in Int /\ k.active - 1 \in Int /\ k.inFlight + 1 \in Int /\ k.inFlight - 1 \in Int
      BY <1>2
    <3>3. s \in Counters
      BY <3>1, <3>2 DEF Counters
    <3> QED BY <1>2, <3>3 DEF Broker
  <2>2. Handle(l, "accepted", "counted", s)
    BY <1>3 DEF CountClient, k
  <2> HIDE DEF s
  <2>3. /\ s.active = k.active + One("counted", Counting) - One("accepted", Counting)
        /\ s.inFlight = k.inFlight + One("counted", Busy) - One("accepted", Busy)
    BY <1>2, <2>1 DEF One, Counting, Busy
  <2> QED BY <1>1, <1>2, <2>1, <2>2, <2>3, HandleKeeps DEF k
<1>4. CASE CountRequest(l)
  <2> DEFINE s == [k EXCEPT !.inFlight = @ + 1, !.expired = FALSE]
  <2>1. /\ s.active = k.active /\ s.inFlight = k.inFlight + 1 /\ s.shutdown = k.shutdown /\ ~s.expired
        /\ s \in Counters /\ s.pc = k.pc
    <3>1. k \in Counters
      BY <1>2 DEF Broker, Counters
    <3>2. k.active + 1 \in Int /\ k.active - 1 \in Int /\ k.inFlight + 1 \in Int /\ k.inFlight - 1 \in Int
      BY <1>2
    <3>3. s \in Counters
      BY <3>1, <3>2 DEF Counters
    <3> QED BY <1>2, <3>3 DEF Broker
  <2>2. PICK to \in {"serving", "dispatched"} :
          Handle(l, "counted", to, s) /\ (to = "serving" => link[l].ask = "stop")
    BY <1>4 DEF CountRequest, k
  <2> HIDE DEF s
  <2>3. /\ s.active = k.active + One(to, Counting) - One("counted", Counting)
        /\ s.inFlight = k.inFlight + One(to, Busy) - One("counted", Busy)
    BY <1>2, <2>1, <2>2 DEF One, Counting, Busy
  <2> QED BY <1>1, <1>2, <2>1, <2>2, <2>3, HandleKeeps DEF k
<1>5. CASE Stop(l)
  <2> DEFINE s == [k EXCEPT !.shutdown = TRUE]
  <2>1. /\ s.active = k.active /\ s.inFlight = k.inFlight /\ s.shutdown /\ s.expired = k.expired
        /\ s \in Counters /\ s.pc = k.pc
    <3>1. k \in Counters
      BY <1>2 DEF Broker, Counters
    <3>2. k.active + 1 \in Int /\ k.active - 1 \in Int /\ k.inFlight + 1 \in Int /\ k.inFlight - 1 \in Int
      BY <1>2
    <3>3. s \in Counters
      BY <3>1, <3>2 DEF Counters
    <3> QED BY <1>2, <3>3 DEF Broker
  <2>2. Handle(l, "serving", "dispatched", s) /\ link[l].ask = "stop"
    BY <1>5 DEF Stop, k, Handle, LifecycleInv, StopServed
  <2> HIDE DEF s
  <2>3. /\ s.active = k.active + One("dispatched", Counting) - One("serving", Counting)
        /\ s.inFlight = k.inFlight + One("dispatched", Busy) - One("serving", Busy)
    BY <1>2, <2>1 DEF One, Counting, Busy
  <2> QED BY <1>1, <1>2, <2>1, <2>2, <2>3, HandleKeeps DEF k
<1>6. CASE EndRequest(l)
  <2> DEFINE s == [k EXCEPT !.inFlight = @ - 1, !.expired = FALSE]
  <2>1. /\ s.active = k.active /\ s.inFlight = k.inFlight - 1 /\ s.shutdown = k.shutdown /\ ~s.expired
        /\ s \in Counters /\ s.pc = k.pc
    <3>1. k \in Counters
      BY <1>2 DEF Broker, Counters
    <3>2. k.active + 1 \in Int /\ k.active - 1 \in Int /\ k.inFlight + 1 \in Int /\ k.inFlight - 1 \in Int
      BY <1>2
    <3>3. s \in Counters
      BY <3>1, <3>2 DEF Counters
    <3> QED BY <1>2, <3>3 DEF Broker
  <2>2. Handle(l, "dispatched", "answered", s)
    BY <1>6 DEF EndRequest, k
  <2> HIDE DEF s
  <2>3. /\ s.active = k.active + One("answered", Counting) - One("dispatched", Counting)
        /\ s.inFlight = k.inFlight + One("answered", Busy) - One("dispatched", Busy)
    BY <1>2, <2>1 DEF One, Counting, Busy
  <2> QED BY <1>1, <1>2, <2>1, <2>2, <2>3, HandleKeeps DEF k
<1>7. CASE EndClient(l)
  <2> DEFINE s == [k EXCEPT !.active = @ - 1, !.expired = FALSE]
  <2>1. /\ s.active = k.active - 1 /\ s.inFlight = k.inFlight /\ s.shutdown = k.shutdown /\ ~s.expired
        /\ s \in Counters /\ s.pc = k.pc
    <3>1. k \in Counters
      BY <1>2 DEF Broker, Counters
    <3>2. k.active + 1 \in Int /\ k.active - 1 \in Int /\ k.inFlight + 1 \in Int /\ k.inFlight - 1 \in Int
      BY <1>2
    <3>3. s \in Counters
      BY <3>1, <3>2 DEF Counters
    <3> QED BY <1>2, <3>3 DEF Broker
  <2>2. Handle(l, "answered", "closed", s)
    BY <1>7 DEF EndClient, k
  <2> HIDE DEF s
  <2>3. /\ s.active = k.active + One("closed", Counting) - One("answered", Counting)
        /\ s.inFlight = k.inFlight + One("closed", Busy) - One("answered", Busy)
    BY <1>2, <2>1 DEF One, Counting, Busy
  <2> QED BY <1>1, <1>2, <2>1, <2>2, <2>3, HandleKeeps DEF k
<1> QED BY <1>3, <1>4, <1>5, <1>6, <1>7 DEF Handler

----------------------------------------------------------------------------
(* Processes: the theorems                                                 *)

\* Every step keeps the invariant, and ends no broker in use.
LEMMA LifecycleNextKeeps ==
  ASSUME LifecycleInv, [LifecycleNext]_lifecycleVars
  PROVE  LifecycleInv' /\ [IdleStep]_lifecycleVars
<1>1. CASE LifecycleNext
  BY <1>1, CommandKeeps, LoopKeeps, AcceptKeeps, ExitKeeps, HandlerKeeps DEF LifecycleNext, AcceptLoop, GoodStep
<1>2. CASE UNCHANGED lifecycleVars
  BY <1>2 DEF lifecycleVars, LifecycleInv, LifecycleTypeOK, CountersAgree, NobodyElsewhere, StopServed, LateChecks, In, Serves
<1> QED BY <1>1, <1>2

\* At first at most one broker runs, and nobody is connected.
LEMMA LifecycleInitHolds == LifecycleInit => LifecycleInv
<1> SUFFICES ASSUME LifecycleInit PROVE LifecycleInv
  OBVIOUS
<1>1. Over("none") \in Link /\ Over("none").stage = "none"
  BY Numbers DEF Over, Link, Stage
<1>2. \A l \in Links : link[l].stage = "none"
  BY <1>1 DEF LifecycleInit
<1>3. PICK first \in {"none", "starting", "checking"} :
        broker = [b \in Brokers |-> [NewBroker EXCEPT !.pc = IF b = 1 THEN first ELSE "none"]]
  BY DEF LifecycleInit
<1>4. ASSUME NEW b \in Brokers
      PROVE  broker[b] \in Broker /\ broker[b].active = 0 /\ broker[b].inFlight = 0
  BY <1>3 DEF NewBroker, Broker
<1>5. LifecycleTypeOK
  <2>1. port \in 0 .. MaxBrokers
    BY ProcessAssumption DEF LifecycleInit
  <2>2. command \in [Commands -> Command]
    BY Numbers DEF LifecycleInit, Command, CommandPC
  <2>3. link \in [Links -> Link] /\ late \in [Brokers -> Nat] /\ broker \in [Brokers -> Broker]
    BY <1>1, <1>3, <1>4 DEF LifecycleInit
  <2> QED BY <2>1, <2>2, <2>3 DEF LifecycleTypeOK
<1>6. CountersAgree
  <2>1. \A b \in Brokers : In(b, Counting) = {} /\ In(b, Busy) = {}
    BY <1>2 DEF In, Counting, Busy
  <2> QED BY <1>4, <2>1, FS_EmptySet DEF CountersAgree
<1>7. NobodyElsewhere /\ StopServed /\ LateChecks
  BY <1>2, <1>4 DEF LifecycleInit, NobodyElsewhere, StopServed, LateChecks
<1> QED BY <1>5, <1>6, <1>7 DEF LifecycleInv

\* The invariant holds in every reachable state.
THEOREM LifecycleInvariance == LifecycleSpec => []LifecycleInv
<1>1. LifecycleInv /\ [LifecycleNext]_lifecycleVars => LifecycleInv'
  BY LifecycleNextKeeps
<1> QED BY <1>1, LifecycleInitHolds, PTL DEF LifecycleSpec

\* Brokers, links and commands have their types; no counter goes below zero.
THEOREM LifecycleTypeCorrect == LifecycleSpec => []LifecycleTypeOK
<1>1. LifecycleInv => LifecycleTypeOK
  BY DEF LifecycleInv
<1> QED BY <1>1, LifecycleInvariance, PTL

\* A broker that is to end accepts at most one more client (run_broker_server).
THEOREM OneLate == LifecycleSpec => []AtMostOneLate
<1>1. LifecycleInv => AtMostOneLate
  BY DEF LifecycleInv, LateChecks, AtMostOneLate
<1> QED BY <1>1, LifecycleInvariance, PTL

\* A broker is told to end by a stop request, or while it serves nobody (idle task).
THEOREM EndsUnserved == LifecycleSpec => IdleOutUnserved
<1>1. LifecycleInv /\ [LifecycleNext]_lifecycleVars => [IdleStep]_lifecycleVars
  BY LifecycleNextKeeps
<1>2. LifecycleSpec => [][IdleStep]_lifecycleVars
  BY <1>1, LifecycleInvariance, PTL DEF LifecycleSpec
<1> QED BY <1>2 DEF IdleOutUnserved, IdleStep

----------------------------------------------------------------------------
(* Sessions: the inductive invariant                                       *)

\* The sessions in memory: the latest origin has one, and one that counts as
\* verified is cached and was accepted in this broker's life.
MemoryOK ==
  /\ session \in [Origins -> Token] /\ meta \in [Origins -> Meta] /\ latest \in OriginOrNone
  /\ LatestIn(Memory)
  /\ \A o \in Origins : meta[o].verified => session[o] # 0
  /\ VerifiedThisLifetime

\* The snapshots on their way to the disk, and what is there.
FilesOK ==
  /\ persist \in [Procs -> Persisting] /\ disk \in File /\ tmp \in File
  /\ LatestIn(disk.snap) /\ LatestIn(tmp.snap)
  /\ \A p \in Procs : LatestIn(persist[p].snap)

\* A request that acts on a session has one, of the origin it asked for; what it
\* is about to mark as verified was accepted.
Sound(k, accepted) ==
  /\ k.token # 0 => k.origin \in Origins
  /\ k.pc \in {"remember", "send", "probe", "evict", "mark"} => k.token # 0
  /\ k.pc = "persist" /\ k.request = "action" => k.token # 0
  /\ k.filter \in Origins => k.origin \in {k.filter, NoOrigin}
  /\ k.pc = "mark" => <<k.origin, k.token>> \in accepted

ClientsOK == client \in [Clients -> Client] /\ \A c \in Clients : Sound(client[c], proven)

RestOK ==
  /\ queue \in Seq([origin : Origins, token : 1 .. MaxToken])
  /\ browser \in [Origins -> Token] /\ pushes \in 0 .. MaxPushes
  /\ boots \in 1 .. MaxBoots /\ proven \in SUBSET (Origins \X (1 .. MaxToken))

IInv == MemoryOK /\ FilesOK /\ ClientsOK /\ RestOK

\* The invariant implies the invariants of the runs.
LEMMA IInvImplies == IInv => TypeOK /\ LatestIsCached /\ VerifiedThisLifetime
BY DEF IInv, MemoryOK, FilesOK, ClientsOK, RestOK, TypeOK, LatestIsCached

\* What a step does to freshness, and to the sessions of other origins.
FreshStep ==
  \A o \in Origins :
    IF session'[o] = session[o] /\ boots' = boots
    THEN meta[o].verified => meta'[o].verified
    ELSE ~meta'[o].verified

ApartStep ==
  \A o \in Origins : \A c \in Clients :
    /\ client'[c].filter = o => client'[c].origin \in {o, NoOrigin}
    /\ client[c] # client'[c] /\ client'[c].filter \notin {o, NoOrigin} /\ boots' = boots
         => session'[o] = session[o]

----------------------------------------------------------------------------
(* BrokerState                                                             *)

\* Tokens are naturals.
LEMMA Tokens0 == Token = 0 .. MaxToken /\ 0 \in Token /\ 1 .. MaxToken \subseteq Token
                 /\ \A t \in Token : t # 0 => t \in 1 .. MaxToken
BY BoundAssumption DEF Token

\* remember_session leaves every other origin alone.
LEMMA RememberKeeps ==
  ASSUME MemoryOK, NEW o \in Origins, NEW t \in 1 .. MaxToken, RememberSession(o, t),
         proven' = proven, boots' = boots
  PROVE  MemoryOK' /\ FreshStep /\ \A x \in Origins \ {o} : session'[x] = session[x]
<1>1. t \in Token /\ t # 0
  BY Tokens0, BoundAssumption
<1>2. /\ session' \in [Origins -> Token] /\ session'[o] = t /\ latest' = o
      /\ \A x \in Origins \ {o} : session'[x] = session[x]
  BY <1>1 DEF RememberSession, MemoryOK
<1>3. /\ meta' \in [Origins -> Meta]
      /\ \A x \in Origins \ {o} : meta'[x] = meta[x]
      /\ IF session[o] = t THEN meta'[o] = meta[o] ELSE ~meta'[o].verified
  BY DEF RememberSession, MemoryOK, Meta
<1>4. LatestIn(Memory)'
  BY <1>1, <1>2 DEF LatestIn, Memory
<1>5. \A x \in Origins : meta'[x].verified => meta[x].verified
  BY <1>3
<1>6. \A x \in Origins : meta'[x].verified => session'[x] # 0
  BY <1>1, <1>2, <1>3 DEF MemoryOK
<1>7. VerifiedThisLifetime'
  BY <1>5 DEF MemoryOK, VerifiedThisLifetime
<1>8. FreshStep
  BY <1>2, <1>3 DEF FreshStep
<1> QED BY <1>2, <1>3, <1>4, <1>6, <1>7, <1>8 DEF MemoryOK, OriginOrNone

\* clear_origin and clear_all: what is dropped is as unverified as it is gone.
LEMMA ClearKeeps ==
  ASSUME MemoryOK, NEW O \in SUBSET Origins, ClearSessions(O), proven' = proven, boots' = boots
  PROVE  MemoryOK' /\ FreshStep /\ \A x \in Origins \ O : session'[x] = session[x]
<1>1. /\ session' = [x \in Origins |-> IF x \in O THEN 0 ELSE session[x]]
      /\ meta' = [x \in Origins |-> IF x \in O THEN NoMeta ELSE meta[x]]
  BY DEF ClearSessions
<1>2. session' \in [Origins -> Token] /\ meta' \in [Origins -> Meta]
  BY <1>1, Tokens0 DEF MemoryOK, NoMeta, Meta
<1>3. {x \in Origins : session'[x] # 0} = Cached \ O
  BY <1>1 DEF Cached
<1>4. IF Cached = {} THEN latest = NoOrigin ELSE latest \in Cached
  BY DEF MemoryOK, LatestIn, Memory, Cached
<1>5. latest' \in (IF Cached \ O = {} THEN {NoOrigin} ELSE Cached \ O)
  BY <1>4, OriginAssumption DEF ClearSessions
<1>6. LatestIn(Memory)' /\ latest' \in OriginOrNone
  BY <1>3, <1>5 DEF LatestIn, Memory, OriginOrNone, Cached
<1>7. \A x \in Origins : meta'[x].verified => x \notin O /\ meta[x].verified
  BY <1>1 DEF NoMeta
<1>8. \A x \in Origins : meta'[x].verified => session'[x] # 0
  BY <1>1, <1>7 DEF MemoryOK
<1>9. VerifiedThisLifetime'
  BY <1>7 DEF MemoryOK, VerifiedThisLifetime
<1>10. FreshStep
  <2> SUFFICES ASSUME NEW x \in Origins
      PROVE  IF session'[x] = session[x] THEN meta[x].verified => meta'[x].verified
             ELSE ~meta'[x].verified
    BY DEF FreshStep
  <2>1. CASE x \in O
    BY <1>1, <2>1 DEF NoMeta, MemoryOK
  <2>2. CASE x \notin O
    BY <1>1, <2>2
  <2> QED BY <2>1, <2>2
<1> QED BY <1>1, <1>2, <1>6, <1>8, <1>9, <1>10 DEF MemoryOK

\* mark_verified marks a cached session, once some token of it was accepted.
LEMMA MarkKeeps ==
  ASSUME MemoryOK, NEW o \in Origins, NEW t \in 1 .. MaxToken, <<o, t>> \in proven,
         MarkVerified(o), proven' = proven, boots' = boots
  PROVE  MemoryOK' /\ FreshStep
<1>1. /\ UNCHANGED <<session, latest>> /\ meta' \in [Origins -> Meta]
      /\ \A x \in Origins \ {o} : meta'[x] = meta[x]
      /\ IF o \in Cached THEN meta'[o].verified ELSE meta'[o] = meta[o]
  BY DEF MarkVerified, MemoryOK, Meta
<1>2. LatestIn(Memory)'
  BY <1>1 DEF MemoryOK, LatestIn, Memory
<1>3. \A x \in Origins : meta'[x].verified => session'[x] # 0
  BY <1>1 DEF MemoryOK, Cached
<1>4. VerifiedThisLifetime'
  BY <1>1 DEF MemoryOK, VerifiedThisLifetime
<1>5. FreshStep
  BY <1>1 DEF FreshStep
<1> QED BY <1>1, <1>2, <1>3, <1>4, <1>5 DEF MemoryOK

\* Memory that no step touches stays as it is, whatever else is accepted.
LEMMA SameMemory ==
  ASSUME MemoryOK, UNCHANGED memory, proven \subseteq proven', boots' = boots
  PROVE  MemoryOK' /\ FreshStep
BY DEF MemoryOK, FreshStep, memory, LatestIn, Memory, VerifiedThisLifetime

----------------------------------------------------------------------------
(* Writing snapshots                                                       *)

\* The empty snapshot has no latest origin.
LEMMA NoSnapshotFits == NoSnapshot \in Snapshot /\ LatestIn(NoSnapshot)
BY Tokens0 DEF NoSnapshot, NoSessions, Snapshot, OriginOrNone, LatestIn

\* So do the files without a snapshot, and a file has the one written to it.
LEMMA FilesFit ==
  /\ NoFile \in File /\ LatestIn(NoFile.snap)
  /\ EmptyFile \in File /\ LatestIn(EmptyFile.snap)
  /\ MixedFile \in File /\ LatestIn(MixedFile.snap)
  /\ \A s \in Snapshot : LatestIn(s) => WholeFile(s) \in File /\ LatestIn(WholeFile(s).snap)
  /\ NotPersisting \in Persisting /\ LatestIn(NotPersisting.snap)
BY NoSnapshotFits DEF NoFile, EmptyFile, MixedFile, WholeFile, File, NotPersisting, Persisting

\* A task that starts to write takes its snapshot later.
LEMMA StartPersistKeeps ==
  ASSUME FilesOK, NEW p \in Procs, StartPersist(p), UNCHANGED files
  PROVE  FilesOK'
<1> DEFINE k == [persist[p] EXCEPT !.pc = "snapshot"]
<1>1. k \in Persisting /\ k.snap = persist[p].snap
  BY DEF FilesOK, Persisting
<1>2. persist' = [persist EXCEPT ![p] = k]
  BY DEF StartPersist, FilesOK
<1> HIDE DEF k
<1> QED BY <1>1, <1>2 DEF FilesOK, files

\* A task that ends, whatever the renames did to the others' targets.
LEMMA RetargetedFits ==
  ASSUME FilesOK, NEW p \in Procs, NEW name,
         name = [disk |-> "gone", tmp |-> "tmp"] \/ name = [disk |-> "gone", tmp |-> "disk"],
         persist' = Retargeted(p, name)
  PROVE  persist' \in [Procs -> Persisting] /\ \A q \in Procs : LatestIn(persist'[q].snap)
<1> SUFFICES ASSUME NEW q \in Procs
    PROVE  persist'[q] \in Persisting /\ LatestIn(persist'[q].snap)
  BY DEF Retargeted
<1>1. CASE q = p
  BY <1>1, FilesFit DEF Retargeted
<1>2. CASE q # p /\ persist[q].target \in DOMAIN name
  <2>1. DOMAIN name = {"disk", "tmp"} /\ \A x \in DOMAIN name : name[x] \in {"gone", "tmp", "disk"}
    OBVIOUS
  <2>2. persist'[q] = [persist[q] EXCEPT !.target = name[persist[q].target]]
    BY <1>2 DEF Retargeted
  <2>3. persist[q] \in Persisting /\ LatestIn(persist[q].snap)
    BY DEF FilesOK
  <2>4. name[persist[q].target] \in {"gone", "tmp", "disk"}
    BY <1>2, <2>1
  <2>5. persist'[q] \in Persisting /\ persist'[q].snap = persist[q].snap
    BY <2>2, <2>3, <2>4 DEF Persisting
  <2> QED BY <2>3, <2>5
<1>3. CASE q # p /\ persist[q].target \notin DOMAIN name
  BY <1>3 DEF Retargeted, FilesOK
<1> QED BY <1>1, <1>2, <1>3

\* Every step of persist_broker_sessions writes what was in memory at some time.
LEMMA PersistKeeps ==
  ASSUME IInv, NEW p \in Procs, Persist(p)
  PROVE  FilesOK'
<1>1. CASE TakeSnapshot(p)
  <2> DEFINE k == [persist[p] EXCEPT !.pc = "open", !.snap = Memory]
  <2>1. Memory \in Snapshot /\ LatestIn(Memory)
    BY DEF IInv, MemoryOK, Memory, Snapshot
  <2>2. k \in Persisting /\ k.snap = Memory
    BY <2>1 DEF IInv, FilesOK, Persisting
  <2>3. persist' = [persist EXCEPT ![p] = k] /\ UNCHANGED files
    BY <1>1 DEF TakeSnapshot, IInv, FilesOK
  <2> HIDE DEF k
  <2> QED BY <2>1, <2>2, <2>3 DEF IInv, FilesOK, files
<1>2. CASE RemoveFile(p)
  BY <1>2, FilesFit, RetargetedFits DEF RemoveFile, IInv, FilesOK
<1>3. CASE OpenTmp(p)
  <2> DEFINE k == [persist[p] EXCEPT !.pc = "fill", !.target = "tmp"]
  <2>1. k \in Persisting /\ k.snap = persist[p].snap
    BY DEF IInv, FilesOK, Persisting
  <2>2. persist' = [persist EXCEPT ![p] = k] /\ tmp' = EmptyFile /\ disk' = disk
    BY <1>3 DEF OpenTmp, IInv, FilesOK
  <2> HIDE DEF k
  <2> QED BY <2>1, <2>2, FilesFit DEF IInv, FilesOK
<1>4. CASE FillTmp(p)
  <2> DEFINE k == [persist[p] EXCEPT !.pc = "rename", !.target = "none"]
  <2>1. k \in Persisting /\ k.snap = persist[p].snap
    BY DEF IInv, FilesOK, Persisting
  <2>2. persist' = [persist EXCEPT ![p] = k]
    BY <1>4 DEF FillTmp, IInv, FilesOK
  <2>3. persist[p].snap \in Snapshot /\ LatestIn(persist[p].snap)
    BY DEF IInv, FilesOK, Persisting
  <2>4. \A f \in Written(tmp, persist[p].snap) \cup Written(disk, persist[p].snap) \cup {tmp, disk} :
          f \in File /\ LatestIn(f.snap)
    BY <2>3, FilesFit DEF Written, IInv, FilesOK
  <2>5. tmp' \in Written(tmp, persist[p].snap) \cup {tmp} /\ disk' \in Written(disk, persist[p].snap) \cup {disk}
    BY <1>4 DEF FillTmp
  <2> HIDE DEF k
  <2> QED BY <2>1, <2>2, <2>4, <2>5 DEF IInv, FilesOK
<1>5. CASE RenameTmp(p)
  <2>1. CASE UNCHANGED files /\ EndPersist(p)
    BY <2>1, FilesFit DEF EndPersist, IInv, FilesOK, files
  <2>2. CASE disk' = tmp /\ tmp' = NoFile /\ persist' = Retargeted(p, [disk |-> "gone", tmp |-> "disk"])
    BY <2>2, FilesFit, RetargetedFits DEF IInv, FilesOK
  <2> QED BY <1>5, <2>1, <2>2 DEF RenameTmp
<1> QED BY <1>1, <1>2, <1>3, <1>4, <1>5 DEF Persist

----------------------------------------------------------------------------
(* Clients                                                                 *)

\* What every step has to satisfy.
Good == IInv' /\ FreshStep /\ ApartStep

\* A client that goes on with k, while only sessions of its origin change.
LEMMA ClientStep ==
  ASSUME ClientsOK, NEW c \in Clients, NEW k \in Client, client' = [client EXCEPT ![c] = k],
         Sound(k, proven'), proven \subseteq proven',
         \A o \in Origins : k.filter \notin {o, NoOrigin} => session'[o] = session[o]
  PROVE  ClientsOK' /\ ApartStep
<1>1. client'[c] = k /\ \A d \in Clients \ {c} : client'[d] = client[d]
  BY DEF ClientsOK
<1>2. client' \in [Clients -> Client]
  BY DEF ClientsOK
<1>3. ASSUME NEW d \in Clients PROVE Sound(client'[d], proven')
  <2>1. CASE d = c
    BY <1>1, <2>1
  <2>2. CASE d # c
    BY <1>1, <2>2 DEF ClientsOK, Sound
  <2> QED BY <2>1, <2>2
<1>4. \A d \in Clients : client'[d].filter \in Origins => client'[d].origin \in {client'[d].filter, NoOrigin}
  BY <1>3 DEF Sound
<1>5. ASSUME NEW o \in Origins, NEW d \in Clients, client[d] # client'[d], client'[d].filter \notin {o, NoOrigin}
      PROVE  session'[o] = session[o]
  BY <1>1, <1>5
<1> QED BY <1>2, <1>3, <1>4, <1>5 DEF ClientsOK, ApartStep

\* A step without a client.
LEMMA NoClientStep ==
  ASSUME ClientsOK, client' = client, proven' = proven
  PROVE  ClientsOK' /\ ApartStep
BY DEF ClientsOK, ApartStep, Sound

\* A client that goes on without touching the sessions.
LEMMA QuietClient ==
  ASSUME IInv, NEW c \in Clients, NEW k \in Client, client' = [client EXCEPT ![c] = k],
         Sound(k, proven), UNCHANGED <<other, memory, persist, proven>>
  PROVE  Good
<1>1. MemoryOK' /\ FreshStep
  BY SameMemory DEF IInv, other
<1>2. ClientsOK' /\ ApartStep
  BY ClientStep DEF IInv, memory
<1>3. FilesOK' /\ RestOK'
  BY DEF IInv, FilesOK, RestOK, other, files
<1> QED BY <1>1, <1>2, <1>3 DEF Good, IInv

\* The request a client begins.
LEMMA BeginFits ==
  ASSUME IInv, NEW c \in Clients, NEW request \in RequestKind, NEW pc \in ClientPC \ {"mark"},
         NEW filter \in OriginOrNone, NEW o \in OriginOrNone, NEW t \in Token,
         Begin(c, request, pc, filter, o, t),
         t # 0 => o \in Origins, pc \in {"remember", "send", "probe", "evict"} => t # 0,
         pc = "persist" => request # "action",
         filter \in Origins => o \in {filter, NoOrigin}
  PROVE  \E k \in Client : Sound(k, proven) /\ client' = [client EXCEPT ![c] = k] /\ k.filter = filter
<1> DEFINE k == [pc |-> pc, request |-> request, n |-> client[c].n + 1,
                 filter |-> filter, origin |-> o, token |-> t, again |-> FALSE]
<1>1. client[c].n \in Nat /\ client[c].n + 1 \in 0 .. MaxRequests
  BY BoundAssumption DEF Begin, IInv, ClientsOK, Client
<1>2. k \in Client
  BY <1>1 DEF Client
<1>3. Sound(k, proven)
  BY DEF Sound
<1> QED BY <1>2, <1>3 DEF Begin

\* Requests that begin on a cached session, or wait for one, touch nothing else.
LEMMA LookKeeps ==
  ASSUME IInv, NEW c \in Clients,
         WaitFindsCached(c) \/ WaitFindsNone(c) \/ WaitFresh(c) \/ Verify(c) \/ Action(c)
  PROVE  Good
<1>1. UNCHANGED <<other, memory, persist, proven>>
  BY DEF WaitFindsCached, WaitFindsNone, WaitFresh, Verify, Action
<1>2. NoOrigin \in OriginOrNone /\ 0 \in Token
  BY Tokens0 DEF OriginOrNone
<1>3. \A filter \in OriginOrNone : \A o \in Found(filter) :
        /\ o \in Origins /\ o \in OriginOrNone /\ session[o] \in Token /\ session[o] # 0
        /\ filter \in Origins => o = filter
  BY OriginAssumption DEF Found, Cached, OriginOrNone, IInv, MemoryOK
<1>4. \E k \in Client : Sound(k, proven) /\ client' = [client EXCEPT ![c] = k]
  <2>1. CASE WaitFindsCached(c)
    BY <1>3, <2>1, BeginFits DEF WaitFindsCached, ClientPC, RequestKind
  <2>2. CASE WaitFindsNone(c)
    BY <1>2, <2>2, BeginFits DEF WaitFindsNone, ClientPC, RequestKind
  <2>3. CASE WaitFresh(c)
    BY <1>2, <2>3, BeginFits DEF WaitFresh, ClientPC, RequestKind
  <2>4. CASE Verify(c)
    BY <1>3, <2>4, BeginFits DEF Verify, ClientPC, RequestKind
  <2>5. CASE Action(c)
    <3> DEFINE o == client[c].origin
    <3>1. PICK t \in {client[c].token} \cup ({session[o]} \ {0}) : Begin(c, "action", "send", o, o, t)
      BY <2>5 DEF Action
    <3>2. client[c].token # 0 /\ client[c].token \in Token /\ o \in Origins
      BY <2>5 DEF Action, IInv, ClientsOK, Client, Sound
    <3>3. t \in Token /\ t # 0 /\ o \in OriginOrNone
      BY <3>1, <3>2 DEF IInv, MemoryOK, OriginOrNone
    <3> HIDE DEF o
    <3> QED BY <3>1, <3>2, <3>3, BeginFits DEF ClientPC, RequestKind
  <2> QED BY <2>1, <2>2, <2>3, <2>4, <2>5
<1> QED BY <1>1, <1>4, QuietClient

\* Refresh and clear drop what they were asked for.
LEMMA DropKeeps ==
  ASSUME IInv, NEW c \in Clients, Refresh(c) \/ Clear(c)
  PROVE  Good
<1>1. NoOrigin \in OriginOrNone /\ 0 \in Token
  BY Tokens0 DEF OriginOrNone
<1>2. PICK filter \in OriginOrNone :
        /\ Begin(c, "refresh", "register", filter, NoOrigin, 0) \/ Begin(c, "clear", "persist", filter, NoOrigin, 0)
        /\ ClearSessions(Selected(filter))
  BY DEF Refresh, Clear
<1>3. PICK k \in Client : Sound(k, proven) /\ client' = [client EXCEPT ![c] = k] /\ k.filter = filter
  BY <1>1, <1>2, BeginFits DEF ClientPC, RequestKind
<1>4. UNCHANGED <<other, proven>> /\ (UNCHANGED persist \/ StartPersist(c))
  BY DEF Refresh, Clear
<1>5. Selected(filter) \in SUBSET Origins
  BY DEF Selected, OriginOrNone
<1>6. MemoryOK' /\ FreshStep /\ \A o \in Origins \ Selected(filter) : session'[o] = session[o]
  BY <1>2, <1>4, <1>5, ClearKeeps DEF IInv, other
<1>7. ClientsOK' /\ ApartStep
  <2>1. \A o \in Origins : filter \notin {o, NoOrigin} => o \notin Selected(filter)
    BY DEF Selected
  <2> QED BY <1>3, <1>4, <1>6, <2>1, ClientStep DEF IInv
<1>8. FilesOK'
  BY <1>4, StartPersistKeeps DEF IInv, FilesOK, other, files, Procs
<1>9. RestOK'
  BY <1>4 DEF IInv, RestOK, other
<1> QED BY <1>6, <1>7, <1>8, <1>9 DEF Good, IInv

\* A client moves to another pc; it needs a session where the next step does.
LEMMA GoKeeps ==
  ASSUME IInv, NEW c \in Clients, NEW k \in Client, client' = [client EXCEPT ![c] = k],
         k.origin = client[c].origin, k.token = client[c].token, k.filter = client[c].filter,
         k.request = client[c].request,
         \/ k.pc \in {"register", "await", "idle"}
         \/ k.pc \in {"send", "probe", "evict"} /\ k.token # 0,
         UNCHANGED <<other, memory, persist, proven>>
  PROVE  Good
<1>1. Sound(k, proven)
  BY DEF IInv, ClientsOK, Sound
<1> QED BY <1>1, QuietClient

\* The client's record after Go.
LEMMA GoFits ==
  ASSUME ClientsOK, NEW c \in Clients, NEW pc \in ClientPC, NEW again \in BOOLEAN,
         client' = [client EXCEPT ![c].pc = pc, ![c].again = again] \/ Go(c, pc)
  PROVE  \E k \in Client : /\ client' = [client EXCEPT ![c] = k] /\ k.pc = pc
                           /\ k.origin = client[c].origin /\ k.token = client[c].token
                           /\ k.filter = client[c].filter /\ k.request = client[c].request
<1>1. client[c] \in Client
  BY DEF ClientsOK
<1>2. CASE client' = [client EXCEPT ![c].pc = pc, ![c].again = again]
  <2> DEFINE k == [client[c] EXCEPT !.pc = pc, !.again = again]
  <2>1. /\ k \in Client /\ k.pc = pc /\ k.origin = client[c].origin /\ k.token = client[c].token
        /\ k.filter = client[c].filter /\ k.request = client[c].request
    BY <1>1 DEF Client
  <2>2. client' = [client EXCEPT ![c] = k]
    BY <1>2 DEF ClientsOK
  <2> HIDE DEF k
  <2> QED BY <2>1, <2>2
<1>3. CASE Go(c, pc)
  <2> DEFINE k == [client[c] EXCEPT !.pc = pc]
  <2>1. /\ k \in Client /\ k.pc = pc /\ k.origin = client[c].origin /\ k.token = client[c].token
        /\ k.filter = client[c].filter /\ k.request = client[c].request
    BY <1>1 DEF Client
  <2>2. client' = [client EXCEPT ![c] = k]
    BY <1>3 DEF ClientsOK, Go
  <2> HIDE DEF k
  <2> QED BY <2>1, <2>2
<1> QED BY <1>2, <1>3

\* Steps of a request that touch nothing but its own progress.
LEMMA ProgressKeeps ==
  ASSUME IInv, NEW c \in Clients,
         \/ Register(c) \/ AwaitFails(c) \/ Persisted(c) \/ ActionRejected(c)
         \/ ActionTransient(c) \/ ActionFails(c) \/ ProbeRejected(c) \/ ProbeFails(c)
  PROVE  Good
<1>1. UNCHANGED <<other, memory, persist, proven>>
  BY DEF Register, AwaitFails, Persisted, ActionRejected, ActionTransient, ActionFails,
         ProbeRejected, ProbeFails
<1>2. client[c] \in Client /\ Sound(client[c], proven)
  BY DEF IInv, ClientsOK
<1>3. ASSUME NEW pc \in {"register", "await", "idle", "send", "probe", "evict"}, NEW again \in BOOLEAN,
             client' = [client EXCEPT ![c].pc = pc, ![c].again = again] \/ Go(c, pc),
             pc \in {"send", "probe", "evict"} => client[c].token # 0
      PROVE  Good
  <2>1. pc \in ClientPC
    BY DEF ClientPC
  <2>2. PICK k \in Client : /\ client' = [client EXCEPT ![c] = k] /\ k.pc = pc
                            /\ k.origin = client[c].origin /\ k.token = client[c].token
                            /\ k.filter = client[c].filter /\ k.request = client[c].request
    BY <1>3, <2>1, GoFits DEF IInv
  <2> QED BY <1>1, <1>3, <2>2, GoKeeps
<1>4. CASE Register(c) \/ AwaitFails(c) \/ ActionFails(c) \/ ProbeFails(c)
  BY <1>3, <1>4 DEF Register, AwaitFails, ActionFails, ProbeFails
<1>5. CASE ActionRejected(c)
  BY <1>2, <1>3, <1>5 DEF ActionRejected, Sound
<1>6. CASE ProbeRejected(c)
  <2>1. client[c].token # 0
    BY <1>2, <1>6 DEF ProbeRejected, Sound
  <2>2. Go(c, "idle") \/ Go(c, "evict")
    BY <1>6 DEF ProbeRejected
  <2> QED BY <1>3, <2>1, <2>2
<1>7. CASE Persisted(c)
  BY <1>2, <1>3, <1>7 DEF Persisted, Sound
<1>8. CASE ActionTransient(c)
  <2> DEFINE k == [client[c] EXCEPT !.again = TRUE]
  <2>1. /\ k \in Client /\ k.pc = "send" /\ k.origin = client[c].origin /\ k.token = client[c].token
        /\ k.filter = client[c].filter /\ k.request = client[c].request
    BY <1>2, <1>8 DEF Client, ActionTransient
  <2>2. client' = [client EXCEPT ![c] = k] /\ client[c].token # 0
    BY <1>2, <1>8 DEF ActionTransient, IInv, ClientsOK, Sound
  <2> HIDE DEF k
  <2> QED BY <1>1, <2>1, <2>2, GoKeeps
<1> QED BY <1>4, <1>5, <1>6, <1>7, <1>8

\* ServiceNow accepts a token, for an action or a probe.
LEMMA AcceptedKeeps ==
  ASSUME IInv, NEW c \in Clients, ActionSucceeds(c) \/ ProbeSucceeds(c)
  PROVE  Good
<1>1. /\ UNCHANGED <<other, memory, persist>> /\ Prove(c) /\ (Go(c, "mark") \/ Go(c, "idle"))
      /\ client[c].pc \in {"send", "probe"}
  BY DEF ActionSucceeds, ProbeSucceeds
<1>2. /\ client[c] \in Client /\ client[c].token # 0 /\ client[c].origin \in Origins
      /\ client[c].filter \in Origins => client[c].origin \in {client[c].filter, NoOrigin}
  BY <1>1 DEF IInv, ClientsOK, Sound
<1>3. client[c].token \in 1 .. MaxToken
  BY <1>2, Tokens0 DEF Client
<1>4. /\ proven \subseteq proven' /\ <<client[c].origin, client[c].token>> \in proven'
      /\ proven' \in SUBSET (Origins \X (1 .. MaxToken))
  BY <1>1, <1>2, <1>3 DEF Prove, IInv, RestOK
<1>5. PICK pc \in {"mark", "idle"} : Go(c, pc)
  BY <1>1
<1>6. PICK k \in Client : /\ client' = [client EXCEPT ![c] = k] /\ k.pc = pc
                          /\ k.origin = client[c].origin /\ k.token = client[c].token
                          /\ k.filter = client[c].filter /\ k.request = client[c].request
  <2>1. pc \in ClientPC /\ TRUE \in BOOLEAN
    BY DEF ClientPC
  <2> QED BY <1>5, <2>1, GoFits DEF IInv
<1>7. Sound(k, proven')
  BY <1>2, <1>4, <1>6 DEF Sound
<1>8. ClientsOK' /\ ApartStep
  BY <1>1, <1>4, <1>6, <1>7, ClientStep DEF IInv, memory
<1>9. MemoryOK' /\ FreshStep
  BY <1>1, <1>4, SameMemory DEF IInv, other
<1>10. FilesOK' /\ RestOK'
  BY <1>1, <1>4 DEF IInv, FilesOK, RestOK, other, files
<1> QED BY <1>8, <1>9, <1>10 DEF Good, IInv

\* A request remembers the session it read or was woken with.
LEMMA RememberedKeeps ==
  ASSUME IInv, NEW c \in Clients, Remember(c)
  PROVE  Good
<1> DEFINE o == client[c].origin
           t == client[c].token
<1>1. /\ client[c] \in Client /\ t # 0 /\ o \in Origins
      /\ client[c].filter \in Origins => o \in {client[c].filter, NoOrigin}
  BY DEF Remember, IInv, ClientsOK, Sound
<1>2. t \in 1 .. MaxToken
  BY <1>1, Tokens0 DEF Client
<1>3. RememberSession(o, t) /\ StartPersist(c) /\ Go(c, "persist") /\ UNCHANGED <<other, proven>>
  BY DEF Remember
<1>4. PICK k \in Client : /\ client' = [client EXCEPT ![c] = k] /\ k.pc = "persist"
                          /\ k.origin = o /\ k.token = t /\ k.filter = client[c].filter
  <2>1. "persist" \in ClientPC /\ TRUE \in BOOLEAN
    BY DEF ClientPC
  <2>2. \E k \in Client : /\ client' = [client EXCEPT ![c] = k] /\ k.pc = "persist"
                          /\ k.origin = client[c].origin /\ k.token = client[c].token
                          /\ k.filter = client[c].filter /\ k.request = client[c].request
    BY <1>3, <2>1, GoFits DEF IInv
  <2> QED BY <2>2
<1> HIDE DEF o, t
<1>5. MemoryOK' /\ FreshStep /\ \A x \in Origins \ {o} : session'[x] = session[x]
  BY <1>1, <1>2, <1>3, RememberKeeps DEF IInv, other
<1>6. ClientsOK' /\ ApartStep
  <2>1. Sound(k, proven')
    BY <1>1, <1>3, <1>4 DEF Sound
  <2>2. \A x \in Origins : k.filter \notin {x, NoOrigin} => session'[x] = session[x]
    <3> SUFFICES ASSUME NEW x \in Origins, k.filter \notin {x, NoOrigin} PROVE x # o
      BY <1>5
    <3>1. k.filter \in Origins
      BY <1>4 DEF Client, OriginOrNone
    <3> QED BY <1>1, <1>4, <3>1, OriginAssumption
  <2> QED BY <1>3, <1>4, <2>1, <2>2, ClientStep DEF IInv
<1>7. FilesOK' /\ RestOK'
  BY <1>3, StartPersistKeeps DEF IInv, RestOK, other, Procs
<1> QED BY <1>5, <1>6, <1>7 DEF Good, IInv

\* The session of a rejected token is dropped, and a new one waited for.
LEMMA EvictKeeps ==
  ASSUME IInv, NEW c \in Clients, Evict(c)
  PROVE  Good
<1> DEFINE o == client[c].origin
           k == [client[c] EXCEPT !.pc = "register", !.filter = o]
<1>1. client[c] \in Client /\ o \in Origins
  BY DEF Evict, IInv, ClientsOK, Sound
<1>2. /\ k \in Client /\ k.pc = "register" /\ k.filter = o /\ k.origin = o
  BY <1>1 DEF Client, OriginOrNone, ClientPC
<1>3. /\ ClearSessions({o}) /\ client' = [client EXCEPT ![c] = k] /\ UNCHANGED <<other, persist, proven>>
  BY DEF Evict, IInv, ClientsOK
<1> HIDE DEF k
<1>4. MemoryOK' /\ FreshStep /\ \A x \in Origins \ {o} : session'[x] = session[x]
  <2>1. {o} \in SUBSET Origins
    BY <1>1
  <2> QED BY <1>3, <2>1, ClearKeeps DEF IInv, other
<1>5. Sound(k, proven')
  BY <1>1, <1>2 DEF Sound
<1>6. ClientsOK' /\ ApartStep
  BY <1>2, <1>3, <1>4, <1>5, ClientStep DEF IInv
<1>7. FilesOK' /\ RestOK'
  BY <1>3 DEF IInv, FilesOK, RestOK, other, files
<1> QED BY <1>4, <1>6, <1>7 DEF Good, IInv

\* The origin of an accepted request is marked as verified.
LEMMA MarkedKeeps ==
  ASSUME IInv, NEW c \in Clients, Mark(c)
  PROVE  Good
<1>1. /\ client[c] \in Client /\ client[c].token # 0 /\ client[c].origin \in Origins
      /\ <<client[c].origin, client[c].token>> \in proven
  BY DEF Mark, IInv, ClientsOK, Sound
<1>2. client[c].token \in 1 .. MaxToken
  BY <1>1, Tokens0 DEF Client
<1>3. MarkVerified(client[c].origin) /\ Go(c, "idle") /\ UNCHANGED <<other, persist, proven>>
  BY DEF Mark
<1>4. MemoryOK' /\ FreshStep
  BY <1>1, <1>2, <1>3, MarkKeeps DEF IInv, other
<1>5. PICK k \in Client : /\ client' = [client EXCEPT ![c] = k] /\ k.pc = "idle"
                          /\ k.origin = client[c].origin /\ k.token = client[c].token
                          /\ k.filter = client[c].filter
  <2>1. "idle" \in ClientPC /\ TRUE \in BOOLEAN
    BY DEF ClientPC
  <2>2. \E k \in Client : /\ client' = [client EXCEPT ![c] = k] /\ k.pc = "idle"
                          /\ k.origin = client[c].origin /\ k.token = client[c].token
                          /\ k.filter = client[c].filter /\ k.request = client[c].request
    BY <1>3, <2>1, GoFits DEF IInv
  <2> QED BY <2>2
<1>6. ClientsOK' /\ ApartStep
  <2>1. Sound(k, proven')
    BY <1>3, <1>5 DEF IInv, ClientsOK, Sound
  <2>2. session' = session
    BY <1>3 DEF MarkVerified
  <2> QED BY <1>3, <1>5, <2>1, <2>2, ClientStep DEF IInv
<1>7. FilesOK' /\ RestOK'
  BY <1>3 DEF IInv, FilesOK, RestOK, other, files
<1> QED BY <1>4, <1>6, <1>7 DEF Good, IInv

----------------------------------------------------------------------------
(* The session task, the browser and restarts                              *)

\* A pushed session has a token.
LEMMA TaskKeeps ==
  ASSUME IInv, SessionTaskRemembers
  PROVE  Good
<1>1. Head(queue).origin \in Origins /\ Head(queue).token \in 1 .. MaxToken
      /\ Tail(queue) \in Seq([origin : Origins, token : 1 .. MaxToken])
  <2>1. /\ Head(queue) \in [origin : Origins, token : 1 .. MaxToken]
        /\ Tail(queue) \in Seq([origin : Origins, token : 1 .. MaxToken])
    <3>1. queue \in Seq([origin : Origins, token : 1 .. MaxToken]) /\ queue # <<>>
      BY DEF SessionTaskRemembers, IInv, RestOK
    <3> QED BY <3>1, HeadTailProperties
  <2> QED BY <2>1
<1>2. /\ RememberSession(Head(queue).origin, Head(queue).token) /\ queue' = Tail(queue)
      /\ StartPersist(SessionTask) /\ UNCHANGED <<files, client, browser, pushes, boots, proven>>
  BY DEF SessionTaskRemembers
<1>3. MemoryOK' /\ FreshStep
  BY <1>1, <1>2, RememberKeeps DEF IInv
<1>4. ClientsOK' /\ ApartStep
  BY <1>2, NoClientStep DEF IInv
<1>5. FilesOK' /\ RestOK'
  BY <1>1, <1>2, StartPersistKeeps DEF IInv, RestOK, Procs
<1> QED BY <1>3, <1>4, <1>5 DEF Good, IInv

\* A task's write of a snapshot changes files only.
LEMMA WriterKeeps ==
  ASSUME IInv, NEW p \in Procs, Persist(p)
  PROVE  Good
<1>1. UNCHANGED <<memory, queue, client, browser, pushes, boots, proven>>
  BY DEF Persist, TakeSnapshot, RemoveFile, OpenTmp, FillTmp, RenameTmp
<1>2. MemoryOK' /\ FreshStep
  BY <1>1, SameMemory DEF IInv
<1>3. ClientsOK' /\ ApartStep
  BY <1>1, NoClientStep DEF IInv
<1>4. FilesOK' /\ RestOK'
  BY <1>1, PersistKeeps DEF IInv, RestOK
<1> QED BY <1>2, <1>3, <1>4 DEF Good, IInv

\* A login makes a new token, a push hands it out.
LEMMA BrowserKeeps ==
  ASSUME IInv, NEW o \in Origins, Login(o) \/ PushToken(o)
  PROVE  Good
<1>1. UNCHANGED <<memory, persist, files, boots, proven>>
  BY DEF Login, PushToken
<1>2. MemoryOK' /\ FreshStep
  BY <1>1, SameMemory DEF IInv
<1>3. CASE Login(o)
  <2>1. browser' \in [Origins -> Token]
    BY <1>3, BoundAssumption DEF Login, IInv, RestOK, Token
  <2>2. ClientsOK' /\ ApartStep
    BY <1>3, NoClientStep DEF Login, IInv
  <2>3. FilesOK' /\ RestOK'
    BY <1>3, <2>1 DEF Login, IInv, FilesOK, RestOK, files
  <2> QED BY <1>2, <2>2, <2>3 DEF Good, IInv
<1>4. CASE PushToken(o)
  <2>1. browser[o] \in 1 .. MaxToken /\ browser[o] \in Token /\ browser[o] # 0
    BY <1>4, Tokens0 DEF PushToken, IInv, RestOK
  <2>2. ASSUME NEW c \in Clients PROVE client'[c] \in Client /\ Sound(client'[c], proven')
    <3>1. client[c] \in Client /\ Sound(client[c], proven')
      BY <1>1 DEF IInv, ClientsOK
    <3>2. CASE client[c].pc = "await" /\ client[c].filter \in {NoOrigin, o}
      <4> DEFINE k == [client[c] EXCEPT !.pc = "remember", !.origin = o, !.token = browser[o]]
      <4>1. k \in Client
        BY <2>1, <3>1 DEF Client, OriginOrNone, ClientPC
      <4>2. k.pc = "remember" /\ k.origin = o /\ k.token = browser[o] /\ k.filter = client[c].filter
        BY <3>1 DEF Client
      <4>3. client'[c] = k
        BY <1>4, <3>2 DEF PushToken
      <4> HIDE DEF k
      <4> QED BY <2>1, <3>2, <4>1, <4>2, <4>3, OriginAssumption DEF Sound
    <3>3. CASE ~(client[c].pc = "await" /\ client[c].filter \in {NoOrigin, o})
      BY <1>4, <3>1, <3>3 DEF PushToken
    <3> QED BY <3>2, <3>3
  <2>3. ClientsOK'
    BY <1>4, <2>2 DEF PushToken, ClientsOK
  <2>4. ApartStep
    BY <1>1, <2>2 DEF ApartStep, memory, Sound
  <2>5. RestOK'
    <3>1. queue' \in Seq([origin : Origins, token : 1 .. MaxToken])
      <4>1. queue \in Seq([origin : Origins, token : 1 .. MaxToken])
        BY DEF IInv, RestOK
      <4>2. [origin |-> o, token |-> browser[o]] \in [origin : Origins, token : 1 .. MaxToken]
        BY <2>1
      <4>3. queue' = Append(queue, [origin |-> o, token |-> browser[o]])
        BY <1>4 DEF PushToken
      <4> QED BY <4>1, <4>2, <4>3, AppendProperties
    <3>2. pushes' \in 0 .. MaxPushes
      <4>1. pushes \in 0 .. MaxPushes
        BY DEF IInv, RestOK
      <4>2. pushes < MaxPushes /\ pushes' = pushes + 1
        BY <1>4 DEF PushToken
      <4> QED BY <4>1, <4>2, BoundAssumption
    <3> QED BY <1>4, <3>1, <3>2 DEF PushToken, IInv, RestOK
  <2> QED BY <1>1, <1>2, <2>3, <2>4, <2>5 DEF Good, IInv, FilesOK, files
<1> QED BY <1>3, <1>4

\* A restart begins with what was saved, all of it unverified.
LEMMA RestartKeeps ==
  ASSUME IInv, Restart
  PROVE  Good
<1>1. PICK snap \in {NoSnapshot, disk.snap} : session' = snap.session /\ latest' \in LatestOf(snap)
  BY DEF Restart
<1>2. snap \in Snapshot
  BY NoSnapshotFits DEF IInv, FilesOK, File
<1>3. session' \in [Origins -> Token] /\ latest' \in OriginOrNone
  BY <1>1, <1>2 DEF Snapshot, LatestOf, OriginOrNone
<1>4. /\ meta' = [o \in Origins |-> NoMeta] /\ proven' = {} /\ boots' = boots + 1
      /\ boots' \in 1 .. MaxBoots /\ boots' # boots
  BY BoundAssumption DEF Restart, IInv, RestOK
<1>5. LatestIn(Memory)'
  BY <1>1, <1>2 DEF LatestIn, LatestOf, Memory, Snapshot
<1>6. MemoryOK'
  BY <1>3, <1>4, <1>5 DEF MemoryOK, VerifiedThisLifetime, NoMeta, Meta
<1>7. FreshStep
  BY <1>4 DEF FreshStep, NoMeta
<1>8. ASSUME NEW c \in Clients PROVE client'[c] \in Client /\ Sound(client'[c], proven')
  <2>1. client[c] \in Client /\ Sound(client[c], proven)
    BY DEF IInv, ClientsOK
  <2> DEFINE k == [client[c] EXCEPT !.pc = "idle"]
  <2>2. k \in Client /\ k.pc = "idle" /\ k.origin = client[c].origin /\ k.token = client[c].token
        /\ k.filter = client[c].filter
    BY <2>1 DEF Client, ClientPC
  <2>3. client'[c] = k
    BY DEF Restart
  <2> HIDE DEF k
  <2> QED BY <2>1, <2>2, <2>3 DEF Sound
<1>9. ClientsOK' /\ ApartStep
  BY <1>4, <1>8 DEF Restart, ClientsOK, ApartStep, Sound
<1>10. FilesOK'
  BY FilesFit DEF Restart, IInv, FilesOK, files
<1>11. RestOK'
  BY <1>4 DEF Restart, IInv, RestOK
<1> QED BY <1>6, <1>7, <1>9, <1>10, <1>11 DEF Good, IInv

----------------------------------------------------------------------------
(* Sessions: the theorems                                                  *)

\* Every step is good, or changes nothing.
LEMMA NextKeeps ==
  ASSUME IInv, [Next]_vars
  PROVE  IInv' /\ (UNCHANGED vars \/ FreshStep) /\ (UNCHANGED vars \/ ApartStep)
<1>1. ASSUME NEW c \in Clients, Start(c) \/ Continue(c) PROVE Good
  BY <1>1, LookKeeps, DropKeeps, ProgressKeeps, AcceptedKeeps, RememberedKeeps, EvictKeeps, MarkedKeeps
     DEF Start, Continue
<1>2. CASE Next
  BY <1>1, <1>2, TaskKeeps, RestartKeeps, WriterKeeps, BrowserKeeps DEF Next, Good
<1>3. CASE UNCHANGED vars
  <2>1. MemoryOK'
    BY <1>3, SameMemory DEF IInv, vars
  <2>2. ClientsOK'
    BY <1>3, NoClientStep DEF IInv, vars
  <2>3. FilesOK' /\ RestOK'
    BY <1>3 DEF IInv, FilesOK, RestOK, vars, files
  <2> QED BY <1>3, <2>1, <2>2, <2>3 DEF IInv
<1> QED BY <1>2, <1>3 DEF Good

\* The first broker starts with nothing.
LEMMA InitIInv == Init => IInv
<1> SUFFICES ASSUME Init PROVE IInv
  OBVIOUS
<1>1. MemoryOK
  BY Tokens0 DEF Init, MemoryOK, NoSessions, NoMeta, Meta, OriginOrNone, LatestIn, Memory,
                 VerifiedThisLifetime
<1>2. FilesOK
  BY FilesFit DEF Init, FilesOK
<1>3. IdleClient \in Client /\ Sound(IdleClient, {})
  BY Tokens0, BoundAssumption, OriginAssumption DEF IdleClient, Client, ClientPC, RequestKind, OriginOrNone, Sound
<1>4. ClientsOK
  BY <1>3 DEF Init, ClientsOK
<1>5. RestOK
  <2>1. <<>> \in Seq([origin : Origins, token : 1 .. MaxToken])
    BY EmptySeq
  <2>2. 0 \in 0 .. MaxPushes /\ 1 \in 1 .. MaxBoots
    BY BoundAssumption
  <2> QED BY <2>1, <2>2, Tokens0 DEF Init, RestOK
<1> QED BY <1>1, <1>2, <1>4, <1>5 DEF IInv

\* The invariant holds in every state the brokers can reach.
THEOREM Invariance == Spec => []IInv
<1>1. IInv /\ [Next]_vars => IInv'
  BY NextKeeps
<1> QED BY <1>1, InitIInv, PTL DEF Spec

\* The sessions, files, clients and tasks have their types.
THEOREM TypeCorrect == Spec => []TypeOK
<1>1. IInv => TypeOK
  BY IInvImplies
<1> QED BY <1>1, Invariance, PTL

\* As long as any session is cached the latest origin has one, in memory, in every
\* snapshot under way and in what a restart would load (clear_origin,
\* remember_session, restore_sessions).
THEOREM LatestStaysCached == Spec => []LatestIsCached
<1>1. IInv => LatestIsCached
  BY IInvImplies
<1> QED BY <1>1, Invariance, PTL

\* What counts as verified was accepted by ServiceNow in this broker's life
\* (mark_verified, restore_sessions).
THEOREM VerifiedMeansAccepted == Spec => []VerifiedThisLifetime
<1>1. IInv => VerifiedThisLifetime
  BY IInvImplies
<1> QED BY <1>1, Invariance, PTL

\* Sessions are kept apart by token (freshness follows it) and by origin (a request
\* for one origin neither returns nor drops the session of another).
THEOREM KeptApart == Spec => SessionsKeptApart
<1>1. IInv /\ [Next]_vars => [FreshStep]_vars /\ [ApartStep]_vars
  BY NextKeeps
<1>2. Spec => [][FreshStep]_vars /\ [][ApartStep]_vars
  BY <1>1, Invariance, PTL DEF Spec
<1> QED BY <1>2 DEF SessionsKeptApart, FreshnessFollowsToken, OthersSurvive, FreshStep, ApartStep
=============================================================================
