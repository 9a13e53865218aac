---------------------------- MODULE SnuGates_proofs ----------------------------
(* Proofs about SnuGates, for any clients, gate modes and bounds.            *)
EXTENDS SnuGates, TLAPS

----------------------------------------------------------------------------
(* Types                                                                   *)

\* The constants the records start from are well-typed.
LEMMA Constants ==
  /\ NoSnapshot \in Snapshot /\ NoReport \in Report /\ IdleClient \in ClientState
  /\ Build \in Frame /\ Stale \in Frame
  /\ \A g \in GenOrNone : FreshStatus(g) \in Status
<1> USE BoundAssumption
<1>1. NoSnapshot \in Snapshot
  BY DEF NoSnapshot, Snapshot, ModeOrAbsent, GenOrNone
<1>2. NoReport \in Report
  BY <1>1 DEF NoReport, Report
<1>3. IdleClient \in ClientState
  BY <1>2 DEF IdleClient, ClientState, ClientPC, Decision, GenOrNone
<1>4. Build \in Frame /\ Stale \in Frame
  BY <1>2 DEF Build, Stale, Frame
<1>5. \A g \in GenOrNone : FreshStatus(g) \in Status
  BY <1>1 DEF FreshStatus, Status, Support
<1> QED BY <1>1, <1>2, <1>3, <1>4, <1>5

\* A request that ends leaves well-typed clients, history and lock.
LEMMA DoneTypes ==
  ASSUME TypeOK, NEW d \in Clients, Done(d)
  PROVE  /\ client' \in [Clients -> ClientState]
         /\ held' \in [Clients -> SUBSET (Gens \X ModeOrAbsent)]
         /\ legacyLock' \in Clients \cup {Nobody}
BY Constants DEF TypeOK, Done

\* Applying a gate snapshot keeps the status well-typed and of its generation,
\* and never replaces a listed snapshot by one of a lower revision.
LEMMA SnapshotTypes ==
  ASSUME NEW st \in Status, NEW s \in Snapshot
  PROVE  /\ ApplySnapshot(st, s) \in Status
         /\ ApplySnapshot(st, s).gen = st.gen /\ ApplySnapshot(st, s).support = st.support
         /\ st.snap.mode # "absent" => ApplySnapshot(st, s).snap.rev >= st.snap.rev
BY BoundAssumption DEF ApplySnapshot, Newer, Status, Snapshot

\* A frame leaves the status well-typed, of its generation, and gated if it
\* was, and does not take its snapshot back to a lower revision.
LEMMA CaptureTypes ==
  ASSUME TypeOK, NEW g \in Gens, NEW f \in Frame
  PROVE  /\ Capture(g, f) \in Status
         /\ Capture(g, f).gen = status.gen
         /\ status.support = "gated" => Capture(g, f).support = "gated"
         /\ status.snap.mode # "absent" => Capture(g, f).snap.rev >= status.snap.rev
<1>1. status \in Status
  BY DEF TypeOK
<1>2. f.report.snap \in Snapshot /\ f.type \in {"build", "gates", "caps"}
  BY DEF Frame, Report
<1>3. status.snap.rev \in Nat
  BY <1>1, BoundAssumption DEF Status, Snapshot
<1>4. CASE status.gen # g \/ f.type = "caps"
  <2>1. Capture(g, f) = status
    BY <1>4 DEF Capture
  <2> QED BY <1>1, <1>3, <2>1
<1>5. CASE status.gen = g /\ f.type = "build"
  <2>1. Capture(g, f) = [status EXCEPT !.adv = TRUE, !.support = "gated"]
    BY <1>5 DEF Capture
  <2>2. Capture(g, f) \in Status /\ Capture(g, f).snap = status.snap
    BY <1>1, <2>1 DEF Status, Support
  <2> QED BY <1>1, <1>3, <2>1, <2>2 DEF Status
<1>6. CASE status.gen = g /\ f.type = "gates"
  <2>1. Capture(g, f) = ApplySnapshot(status, f.report.snap)
    BY <1>6 DEF Capture
  <2> QED BY <1>1, <1>2, <2>1, SnapshotTypes
<1> QED BY <1>2, <1>4, <1>5, <1>6

\* What a preflight decides keeps clients, history and lock well-typed.
LEMMA DecideTypes ==
  ASSUME TypeOK, NEW d \in Clients, NEW decision \in ModeOrAbsent \cup {"legacy"},
         Decide(d, decision)
  PROVE  /\ client' \in [Clients -> ClientState]
         /\ held' \in [Clients -> SUBSET (Gens \X ModeOrAbsent)]
         /\ legacyLock' \in Clients \cup {Nobody}
<1> DEFINE first == ~client[d].retry
           legacy == IF first THEN decision = "legacy" /\ Protocol[d] = "fallback"
                     ELSE client[d].legacy
<1>1. CASE decision \in {"off", "absent"} \/ (legacy /\ decision # "legacy")
  BY <1>1, DoneTypes DEF Decide
<1>2. CASE ~(decision \in {"off", "absent"} \/ (legacy /\ decision # "legacy"))
  <2>1. client[d] \in ClientState /\ status.gen \in GenOrNone
    BY DEF TypeOK, Status
  <2>2. decision \in Decision /\ legacy \in BOOLEAN
    BY <1>2, <2>1 DEF Decision, ModeOrAbsent, ClientState
  <2>3. client' = [client EXCEPT ![d].decision = decision, ![d].gen = status.gen,
                     ![d].report = NoReport, ![d].legacy = legacy,
                     ![d].pc = IF legacy /\ first THEN "lock" ELSE "dispatch"]
    BY <1>2 DEF Decide
  <2>4. UNCHANGED <<held, legacyLock>>
    BY <1>2 DEF Decide
  <2> HIDE DEF legacy, first
  <2>5. client' \in [Clients -> ClientState]
    BY <2>1, <2>2, <2>3, Constants DEF TypeOK, ClientState, ClientPC
  <2> QED BY <2>4, <2>5 DEF TypeOK
<1> QED BY <1>1, <1>2

\* A status keeps its type when its support or advertisement is updated.
LEMMA SupportTypes ==
  ASSUME TypeOK, NEW support \in Support
  PROVE  [status EXCEPT !.support = support] \in Status
BY DEF TypeOK, Status

\* The connection manager and the helper tab keep the types.
LEMMA LinkTypes ==
  ASSUME TypeOK,
         Attach \/ ResetStatus \/ Detach \/ \E g \in Gens : Helper(g)
  PROVE  TypeOK'
<1> USE BoundAssumption
<1>1. ASSUME NEW g \in GenOrNone PROVE
        LoseWaiters(g) => client' \in [Clients -> ClientState]
  <2>1. [NoReport EXCEPT !.failed = TRUE] \in Report
    BY Constants DEF Report
  <2>2. ASSUME NEW d \in Clients
        PROVE  [client[d] EXCEPT !.pc = "replied",
                  !.report = [NoReport EXCEPT !.failed = TRUE]] \in ClientState
    <3> DEFINE r == [NoReport EXCEPT !.failed = TRUE]
    <3>1. client[d] \in ClientState /\ "replied" \in ClientPC
      BY DEF TypeOK, ClientPC
    <3>2. r \in Report
      BY <2>1
    <3> HIDE DEF r
    <3>3. [client[d] EXCEPT !.pc = "replied", !.report = r] \in ClientState
      BY ONLY <3>1, <3>2 DEF ClientState
    <3> QED BY <3>3 DEF r
  <2> QED BY <2>2 DEF LoseWaiters, TypeOK
<1>2. ASSUME NEW g \in Gens, NEW mode \in ModeOrAbsent
      PROVE  Witness(g, mode) => held' \in [Clients -> SUBSET (Gens \X ModeOrAbsent)]
  BY DEF Witness, TypeOK
<1>3. ASSUME NEW g \in Gens, NEW f \in Frame
      PROVE  Arrive(g, f) => inbox' \in [Gens -> Seq(Frame)]
  BY DEF Arrive, TypeOK
<1>4. CASE Attach
  <2>1. generation + 1 \in Gens /\ generation + 1 \in GenOrNone
    BY <1>4 DEF Attach, TypeOK, Gens, GenOrNone
  <2>2. PICK current \in BOOLEAN, mode \in ModeOrAbsent :
          /\ helper' = [helper EXCEPT ![generation + 1] =
               [current |-> current,
                snap |-> [rev |-> 0, mode |-> mode, from |-> generation + 1]]]
          /\ Witness(generation + 1, mode)
    BY <1>4 DEF Attach
  <2>3. [rev |-> 0, mode |-> mode, from |-> generation + 1] \in Snapshot
    BY <2>1 DEF Snapshot
  <2>4. helper' \in [Gens -> [current : BOOLEAN, snap : Snapshot]]
    BY <2>1, <2>2, <2>3 DEF TypeOK
  <2>5. held' \in [Clients -> SUBSET (Gens \X ModeOrAbsent)]
    BY <1>2, <2>1, <2>2
  <2>6. client' \in [Clients -> ClientState]
    BY <1>1, <1>4 DEF Attach, TypeOK
  <2> QED BY <1>4, <2>1, <2>4, <2>5, <2>6 DEF Attach, TypeOK
<1>5. CASE ResetStatus
  BY <1>5, Constants DEF ResetStatus, linkVars, TypeOK
<1>6. CASE Detach
  <2>1. client' \in [Clients -> ClientState]
    BY <1>1, <1>6 DEF Detach, TypeOK
  <2>2. conn' \in GenOrNone
    BY <1>6 DEF Detach, GenOrNone
  <2> QED BY <1>6, <2>1, <2>2 DEF Detach, TypeOK
<1>7. ASSUME NEW g \in Gens, HelperPushesBuild(g) PROVE TypeOK'
  <2>1. inbox' \in [Gens -> Seq(Frame)]
    BY <1>3, <1>7, Constants DEF HelperPushesBuild
  <2> QED BY <1>7, <2>1 DEF HelperPushesBuild, linkVars, TypeOK
<1>8. ASSUME NEW g \in Gens, HelperChangesGate(g) PROVE TypeOK'
  <2>1. PICK mode \in ModeOrAbsent :
          LET s == [rev |-> helper[g].snap.rev + 1, mode |-> mode, from |-> g]
          IN  /\ helper' = [helper EXCEPT ![g].snap = s]
              /\ Witness(g, mode)
              /\ IF mode = "absent" THEN UNCHANGED inbox ELSE Arrive(g, GatesUpdated(s))
    BY <1>8 DEF HelperChangesGate
  <2> DEFINE s == [rev |-> helper[g].snap.rev + 1, mode |-> mode, from |-> g]
  <2>2. helper[g] \in [current : BOOLEAN, snap : Snapshot] /\ helper[g].snap.rev < MaxRev
    BY <1>8 DEF HelperChangesGate, TypeOK
  <2>3. s \in Snapshot
    BY <2>2 DEF Snapshot, Gens, GenOrNone
  <2>4. GatesUpdated(s) \in Frame
    <3>1. [NoReport EXCEPT !.snap = s] \in Report
      BY <2>3, Constants DEF Report
    <3> QED BY <3>1 DEF GatesUpdated, Frame
  <2>5. helper' \in [Gens -> [current : BOOLEAN, snap : Snapshot]]
    BY <2>1, <2>2, <2>3 DEF TypeOK
  <2>6. held' \in [Clients -> SUBSET (Gens \X ModeOrAbsent)]
    BY <1>2, <2>1
  <2>7. inbox' \in [Gens -> Seq(Frame)]
    BY <1>3, <2>1, <2>4 DEF TypeOK
  <2> QED BY <1>8, <2>5, <2>6, <2>7 DEF HelperChangesGate, TypeOK
<1>9. ASSUME NEW g \in Gens, HelperAnswers(g) PROVE TypeOK'
  <2>1. PICK d \in Clients : 
          \E r \in {[gated |-> TRUE, failed |-> FALSE, snap |-> helper[g].snap],
                    NoReport, [NoReport EXCEPT !.failed = TRUE]} :
            Arrive(g, Answer(d, r))
    BY <1>9 DEF HelperAnswers
  <2>2. PICK r \in {[gated |-> TRUE, failed |-> FALSE, snap |-> helper[g].snap],
                    NoReport, [NoReport EXCEPT !.failed = TRUE]} :
            Arrive(g, Answer(d, r))
    BY <2>1
  <2>3. helper[g].snap \in Snapshot
    BY DEF TypeOK
  <2>4. r \in Report
    <3>1. [gated |-> TRUE, failed |-> FALSE, snap |-> helper[g].snap] \in Report
      BY <2>3 DEF Report
    <3>2. NoReport \in Report /\ [NoReport EXCEPT !.failed = TRUE] \in Report
      BY Constants DEF Report
    <3> QED BY <2>2, <3>1, <3>2
  <2>5. Answer(d, r) \in Frame
    BY <2>4 DEF Answer, Frame
  <2>6. inbox' \in [Gens -> Seq(Frame)]
    BY <1>3, <2>2, <2>5
  <2>7. asked' \in SUBSET (Clients \X Gens)
    BY <1>9 DEF HelperAnswers, TypeOK
  <2> QED BY <1>9, <2>6, <2>7 DEF HelperAnswers, linkVars, TypeOK
<1> QED BY <1>4, <1>5, <1>6, <1>7, <1>8, <1>9 DEF Helper

\* Reading a frame keeps the types.
LEMMA ReadTypes ==
  ASSUME TypeOK, NEW g \in Gens, ReadFrame(g)
  PROVE  TypeOK'
<1> DEFINE f == Head(inbox[g])
<1>1. f \in Frame /\ Tail(inbox[g]) \in Seq(Frame)
  BY DEF ReadFrame, TypeOK
<1>2. status' = Capture(g, f)
  BY DEF ReadFrame
<1>3. status' \in Status
  BY <1>1, <1>2, CaptureTypes
<1>4. client' \in [Clients -> ClientState]
  <2>1. \/ client' = client
        \/ /\ f.to \in Clients
           /\ client' = [client EXCEPT ![f.to].pc = "replied", ![f.to].report = f.report]
    BY <1>1 DEF ReadFrame, Frame
  <2>2. f.report \in Report
    BY <1>1 DEF Frame
  <2> HIDE DEF f
  <2>3. ASSUME NEW e \in Clients
        PROVE  [client EXCEPT ![e].pc = "replied", ![e].report = f.report]
                 \in [Clients -> ClientState]
    <3>1. client \in [Clients -> ClientState] /\ client[e] \in ClientState /\ "replied" \in ClientPC
      BY DEF TypeOK, ClientPC
    <3>2. [client[e] EXCEPT !.pc = "replied", !.report = f.report] \in ClientState
      BY ONLY <2>2, <3>1 DEF ClientState
    <3> QED BY ONLY <3>1, <3>2
  <2> QED BY <2>1, <2>3 DEF TypeOK
<1>5. inbox' \in [Gens -> Seq(Frame)]
  BY <1>1 DEF ReadFrame, TypeOK
<1>6. advertised' \in SUBSET Gens /\ learned' \in SUBSET GenOrNone
  BY DEF ReadFrame, TypeOK, Gens, GenOrNone
<1> QED BY <1>3, <1>4, <1>5, <1>6 DEF ReadFrame, TypeOK

\* A preflight that may conclude "legacy" keeps the types.
LEMMA LegacyTypes ==
  ASSUME TypeOK, NEW d \in Clients, NEW P \in BOOLEAN,
         IF P THEN ClassifyLegacy(d) ELSE Done(d) /\ UNCHANGED status,
         UNCHANGED <<linkVars, inbox, asked, learned>>
  PROVE  TypeOK'
<1>1. CASE P
  <2>1. status' \in Status
    BY <1>1, SupportTypes DEF ClassifyLegacy, Support
  <2> QED BY <1>1, <2>1, DecideTypes DEF ClassifyLegacy, linkVars, TypeOK
<1>2. CASE ~P
  BY <1>2, DoneTypes DEF linkVars, TypeOK
<1> QED BY <1>1, <1>2

\* A client's step keeps the types.
LEMMA ClientTypes ==
  ASSUME TypeOK, NEW d \in Clients, Client(d)
  PROVE  TypeOK'
<1>0. client[d] \in ClientState /\ status \in Status
  BY DEF TypeOK
<1> DEFINE witness == IF conn = 0 THEN {} ELSE {<<conn, helper[conn].snap.mode>>}
<1>w. witness \in SUBSET (Gens \X ModeOrAbsent)
  BY BoundAssumption DEF TypeOK, Snapshot, Gens, GenOrNone
<1>b. Before \in [gen : GenOrNone, adv : BOOLEAN, gated : BOOLEAN]
  BY <1>0 DEF Before, Status
<1>1. CASE Preflight(d)
  <2>1. client' \in [Clients -> ClientState]
    BY <1>0, <1>1, <1>b DEF Preflight, TypeOK, ClientState, ClientPC
  <2>2. held' \in [Clients -> SUBSET (Gens \X ModeOrAbsent)]
    BY <1>1, <1>w DEF Preflight, TypeOK
  <2> QED BY <1>1, <2>1, <2>2 DEF Preflight, linkVars, TypeOK
<1>2. CASE AskCapabilities(d)
  <2>1. client' \in [Clients -> ClientState]
    BY <1>0, <1>2 DEF AskCapabilities, TypeOK, ClientState, ClientPC
  <2>2. asked' \in SUBSET (Clients \X Gens)
    BY <1>2, BoundAssumption DEF AskCapabilities, TypeOK, Gens, GenOrNone
  <2>3. ASSUME NEW g \in Gens
        PROVE  [i \in 1 .. Len(inbox[g]) |->
                  IF inbox[g][i].to = d THEN Stale ELSE inbox[g][i]] \in Seq(Frame)
    <3>1. inbox[g] \in Seq(Frame)
      BY DEF TypeOK
    <3> QED BY <3>1, Constants
  <2>4. inbox' \in [Gens -> Seq(Frame)]
    BY <1>2, <2>3 DEF AskCapabilities
  <2> QED BY <1>2, <2>1, <2>2, <2>4 DEF AskCapabilities, linkVars, TypeOK
<1>3. CASE AskFails(d)
  BY <1>3, DoneTypes DEF AskFails, linkVars, TypeOK
<1>4. CASE CapsTimeout(d)
  <2>1. MayBeLegacy(d) \in BOOLEAN
    BY DEF MayBeLegacy
  <2> QED BY <1>4, <2>1, LegacyTypes DEF CapsTimeout
<1>5. CASE CapsWithoutGates(d)
  <2>1. (MayBeLegacy(d) /\ ~client[d].before.gated) \in BOOLEAN
    OBVIOUS
  <2> QED BY <1>5, <2>1, LegacyTypes DEF CapsWithoutGates
<1>6. CASE CapsWithGates(d)
  <2>1. CASE status.gen = client[d].before.gen
    <3> DEFINE snap == client[d].report.snap
               gated == [status EXCEPT !.support = "gated"]
    <3>1. snap \in Snapshot /\ snap.mode \in ModeOrAbsent
      BY <1>0 DEF ClientState, Report, Snapshot
    <3>2. gated \in Status
      BY SupportTypes DEF Support
    <3>3. status' = ApplySnapshot(gated, snap) /\ Decide(d, snap.mode)
      BY <1>6, <2>1 DEF CapsWithGates
    <3> HIDE DEF snap, gated
    <3>4. status' \in Status
      BY <3>1, <3>2, <3>3, SnapshotTypes
    <3>5. /\ client' \in [Clients -> ClientState]
          /\ held' \in [Clients -> SUBSET (Gens \X ModeOrAbsent)]
          /\ legacyLock' \in Clients \cup {Nobody}
      BY <3>1, <3>3, DecideTypes
    <3>6. learned' \in SUBSET GenOrNone /\ UNCHANGED <<linkVars, inbox, asked>>
      BY <1>0, <1>6, <2>1 DEF CapsWithGates, TypeOK, Status
    <3> QED BY <3>4, <3>5, <3>6 DEF linkVars, TypeOK
  <2>2. CASE status.gen # client[d].before.gen
    BY <1>6, <2>2, DoneTypes DEF CapsWithGates, linkVars, TypeOK
  <2> QED BY <2>1, <2>2
<1>7. CASE CapsFailed(d)
  BY <1>7, DoneTypes DEF CapsFailed, linkVars, TypeOK
<1>8. CASE TakeLegacyLock(d)
  <2>1. client' \in [Clients -> ClientState]
    BY <1>0, <1>8 DEF TakeLegacyLock, TypeOK, ClientState, ClientPC
  <2> QED BY <1>8, <2>1 DEF TakeLegacyLock, linkVars, TypeOK
<1>9. CASE Dispatch(d)
  <2>1. CASE MayDispatch(d)
    <3>1. client' = [client EXCEPT ![d].pc = "sent", ![d].gen = conn]
      BY <1>9, <2>1 DEF Dispatch
    <3>2. [client[d] EXCEPT !.pc = "sent", !.gen = conn] \in ClientState
      BY <1>0 DEF TypeOK, ClientState, ClientPC
    <3>3. client' \in [Clients -> ClientState]
      BY <3>1, <3>2 DEF TypeOK
    <3> QED BY <1>9, <2>1, <3>3 DEF Dispatch, linkVars, TypeOK
  <2>2. CASE ~MayDispatch(d)
    BY <1>9, <2>2, DoneTypes DEF Dispatch, linkVars, TypeOK
  <2> QED BY <2>1, <2>2
<1>10. CASE Finish(d)
  BY <1>10, DoneTypes DEF Finish, linkVars, TypeOK
<1>11. CASE Retry(d)
  <2>1. [IdleClient EXCEPT !.pc = "caps", !.before = Before, !.legacy = client[d].legacy,
                           !.retry = TRUE] \in ClientState
    BY <1>0, <1>b, Constants DEF ClientState, ClientPC
  <2>2. client' \in [Clients -> ClientState]
    BY <1>11, <2>1 DEF Retry, TypeOK
  <2>3. held' \in [Clients -> SUBSET (Gens \X ModeOrAbsent)]
    BY <1>11, <1>w DEF Retry, TypeOK
  <2> QED BY <1>11, <2>2, <2>3 DEF Retry, linkVars, TypeOK
<1> QED
  BY <1>1, <1>2, <1>3, <1>4, <1>5, <1>6, <1>7, <1>8, <1>9, <1>10, <1>11 DEF Client

\* Types: every variable of the gate negotiation keeps its range.
THEOREM TypeCorrect == Spec => []TypeOK
<1>1. Init => TypeOK
  <2> SUFFICES ASSUME Init PROVE TypeOK
    OBVIOUS
  <2>1. status \in Status /\ client \in [Clients -> ClientState]
    BY Constants, BoundAssumption DEF Init, GenOrNone
  <2>2. helper \in [Gens -> [current : BOOLEAN, snap : Snapshot]]
    BY Constants DEF Init
  <2>3. inbox \in [Gens -> Seq(Frame)]
    BY DEF Init
  <2>4. generation \in GenOrNone /\ conn \in GenOrNone
    BY BoundAssumption DEF Init, GenOrNone
  <2> QED BY <2>1, <2>2, <2>3, <2>4 DEF Init, TypeOK
<1>2. TypeOK /\ [Next]_vars => TypeOK'
  <2> SUFFICES ASSUME TypeOK, [Next]_vars PROVE TypeOK'
    OBVIOUS
  <2>1. CASE Next
    BY <2>1, LinkTypes, ReadTypes, ClientTypes DEF Next
  <2>2. CASE UNCHANGED vars
    BY <2>2 DEF vars, TypeOK
  <2> QED BY <2>1, <2>2
<1> QED BY <1>1, <1>2, PTL DEF Spec

----------------------------------------------------------------------------
(* Legacy requests are serialized.                                          *)

\* A request that goes the legacy way, and is past waiting for the lock, holds
\* it until it ends; an idle client goes neither way.
LegacyHolders ==
  \A d \in Clients :
    /\ client[d].legacy /\ client[d].pc # "lock" => legacyLock = d
    /\ client[d].pc = "idle" => ~client[d].legacy

\* Ending one request keeps the others' hold on the lock.
LEMMA DoneHolders ==
  ASSUME TypeOK, LegacyHolders, NEW d \in Clients, Done(d)
  PROVE  LegacyHolders'
<1>1. \A e \in Clients \ {d} : client'[e] = client[e]
  BY DEF Done, TypeOK
<1>2. ~client'[d].legacy
  BY DEF Done, TypeOK, IdleClient
<1>3. \A e \in Clients \ {d} : legacyLock = e => legacyLock' = e
  BY DEF Done
<1> QED BY <1>1, <1>2, <1>3 DEF LegacyHolders

\* A decision leads a request to the lock, keeps the way it has taken, or ends it.
LEMMA DecideHolders ==
  ASSUME TypeOK, LegacyHolders, NEW d \in Clients, NEW decision, Decide(d, decision),
         client[d].pc \in {"waiting", "replied"}, ~client[d].retry => ~client[d].legacy
  PROVE  LegacyHolders'
<1> DEFINE first == ~client[d].retry
           legacy == IF first THEN decision = "legacy" /\ Protocol[d] = "fallback"
                     ELSE client[d].legacy
<1>0. client[d] \in ClientState
  BY DEF TypeOK
<1>1. CASE decision \in {"off", "absent"} \/ (legacy /\ decision # "legacy")
  BY <1>1, DoneHolders DEF Decide
<1>2. CASE ~(decision \in {"off", "absent"} \/ (legacy /\ decision # "legacy"))
  <2>1. client' = [client EXCEPT ![d].decision = decision, ![d].gen = status.gen,
                     ![d].report = NoReport, ![d].legacy = legacy,
                     ![d].pc = IF legacy /\ first THEN "lock" ELSE "dispatch"]
    BY <1>2 DEF Decide
  <2>2. UNCHANGED legacyLock
    BY <1>2 DEF Decide
  <2>3. \A e \in Clients \ {d} : client'[e] = client[e]
    BY <2>1 DEF TypeOK
  <2> HIDE DEF first, legacy
  <2>4. /\ client'[d].legacy = legacy
        /\ client'[d].pc = IF legacy /\ first THEN "lock" ELSE "dispatch"
    BY <1>0, <2>1 DEF TypeOK, ClientState
  <2>5. client'[d].legacy /\ client'[d].pc # "lock" => client[d].legacy
    BY <2>4 DEF first, legacy
  <2>6. client[d].legacy => legacyLock = d
    BY DEF LegacyHolders
  <2>7. client'[d].pc # "idle"
    BY <2>4
  <2> QED BY <2>2, <2>3, <2>5, <2>6, <2>7 DEF LegacyHolders
<1> QED BY <1>1, <1>2

\* A first preflight has not chosen its way yet.
FirstUndecided ==
  \A d \in Clients :
    client[d].pc \in {"caps", "waiting", "replied"} /\ ~client[d].retry => ~client[d].legacy

\* A step of client d that leaves the lock alone and moves d along its way.
LEMMA MoveHolders ==
  ASSUME LegacyHolders, NEW d \in Clients,
         \A e \in Clients \ {d} : client'[e] = client[e], UNCHANGED legacyLock,
         client'[d].pc # "idle", client'[d].legacy => client[d].legacy /\ client[d].pc # "lock"
  PROVE  LegacyHolders'
BY DEF LegacyHolders

\* A client that only learns of an answer or of a lost connection.
Learns(d) ==
  /\ client'[d].legacy = client[d].legacy /\ client'[d].retry = client[d].retry
  /\ client'[d].pc = client[d].pc \/ (client[d].pc = "waiting" /\ client'[d].pc = "replied")

\* No step of the connection manager or the helper tab moves a client further.
LEMMA OthersLearn ==
  ASSUME TypeOK,
         \/ Attach \/ ResetStatus \/ Detach
         \/ \E g \in Gens : Helper(g) \/ ReadFrame(g)
  PROVE  UNCHANGED legacyLock /\ \A d \in Clients : Learns(d)
<1>1. ASSUME NEW g, LoseWaiters(g) PROVE \A d \in Clients : Learns(d)
  <2> SUFFICES ASSUME NEW d \in Clients PROVE Learns(d)
    OBVIOUS
  <2>1. client[d] \in ClientState
    BY DEF TypeOK
  <2> QED BY <1>1, <2>1 DEF LoseWaiters, Learns, ClientState
<1>2. ASSUME NEW g \in Gens, ReadFrame(g) PROVE \A d \in Clients : Learns(d)
  <2> DEFINE f == Head(inbox[g])
  <2>1. f \in Frame
    <3>1. inbox[g] \in Seq(Frame) /\ inbox[g] # <<>>
      BY <1>2 DEF ReadFrame, TypeOK
    <3> QED BY <3>1
  <2>2. \/ client' = client
        \/ /\ f.to \in Clients /\ client[f.to].pc = "waiting"
           /\ client' = [client EXCEPT ![f.to].pc = "replied", ![f.to].report = f.report]
    BY <1>2, <2>1 DEF ReadFrame, Frame
  <2> HIDE DEF f
  <2>3. ASSUME NEW d \in Clients PROVE Learns(d)
    <3>1. client[d] \in ClientState
      BY DEF TypeOK
    <3>2. CASE client' = client
      BY <3>2 DEF Learns
    <3>3. CASE client' # client
      <4>1. \/ client'[d] = client[d]
            \/ /\ client[d].pc = "waiting"
               /\ client'[d] = [client[d] EXCEPT !.pc = "replied", !.report = f.report]
        BY <2>2, <3>3 DEF TypeOK
      <4> QED BY <3>1, <4>1 DEF Learns, ClientState
    <3> QED BY <3>2, <3>3
  <2> QED BY <2>3
<1>3. UNCHANGED client => \A d \in Clients : Learns(d)
  BY DEF Learns
<1> QED
  BY <1>1, <1>2, <1>3
     DEF Attach, ResetStatus, Detach, Helper, HelperPushesBuild, HelperChangesGate,
         HelperAnswers, ReadFrame, linkVars

\* Every step keeps the holders of the legacy lock.
LEMMA HoldersStep ==
  ASSUME TypeOK, LegacyHolders, FirstUndecided, Next
  PROVE  LegacyHolders' /\ FirstUndecided'
<1>1. ASSUME UNCHANGED legacyLock, \A d \in Clients : Learns(d)
      PROVE  LegacyHolders' /\ FirstUndecided'
  BY <1>1 DEF Learns, LegacyHolders, FirstUndecided
<1>2. ASSUME NEW d \in Clients, Client(d) PROVE LegacyHolders' /\ FirstUndecided'
  <2>0. client[d] \in ClientState
    BY DEF TypeOK
  <2>1. CASE Done(d)
    <3>1. \A e \in Clients : client'[e] = IF e = d THEN IdleClient ELSE client[e]
      BY <2>1 DEF Done, TypeOK
    <3> QED BY <2>1, <3>1, DoneHolders DEF FirstUndecided, IdleClient
  <2>2. CASE Preflight(d) \/ AskCapabilities(d)
    <3>1. /\ \A e \in Clients \ {d} : client'[e] = client[e]
          /\ UNCHANGED legacyLock
          /\ client'[d].pc \in {"caps", "waiting"} /\ client[d].pc \in {"idle", "caps"}
          /\ client'[d].legacy = client[d].legacy /\ client'[d].retry = client[d].retry
      BY <2>0, <2>2 DEF Preflight, AskCapabilities, TypeOK, ClientState
    <3>2. LegacyHolders'
      BY <3>1, MoveHolders
    <3>3. client'[d].legacy => client'[d].retry
      BY <3>1 DEF FirstUndecided, LegacyHolders
    <3> QED BY <3>1, <3>2, <3>3 DEF FirstUndecided
  <2>3. ASSUME NEW decision, Decide(d, decision), client[d].pc \in {"waiting", "replied"}
        PROVE  LegacyHolders' /\ FirstUndecided'
    <3>1. ~client[d].retry => ~client[d].legacy
      BY <2>3 DEF FirstUndecided
    <3>2. LegacyHolders'
      BY <2>3, <3>1, DecideHolders
    <3>3. /\ \A e \in Clients \ {d} : client'[e] = client[e]
          /\ client'[d].pc \in {"idle", "lock", "dispatch"}
      BY <2>0, <2>3 DEF Decide, Done, IdleClient, TypeOK, ClientState
    <3> QED BY <3>2, <3>3 DEF FirstUndecided
  <2>4. CASE TakeLegacyLock(d)
    <3>1. /\ \A e \in Clients \ {d} : client'[e] = client[e]
          /\ client'[d].pc = "dispatch" /\ legacyLock = Nobody /\ legacyLock' = d
      BY <2>0, <2>4 DEF TakeLegacyLock, TypeOK, ClientState
    <3>2. \A e \in Clients : legacyLock # e
      BY <3>1, NobodyAssumption DEF Nobody
    <3> QED BY <3>1, <3>2 DEF LegacyHolders, FirstUndecided
  <2>5. CASE Dispatch(d) /\ MayDispatch(d)
    <3>1. /\ client' = [client EXCEPT ![d].pc = "sent", ![d].gen = conn]
          /\ UNCHANGED legacyLock /\ client[d].pc = "dispatch"
      BY <2>5 DEF Dispatch
    <3>2. /\ \A e \in Clients \ {d} : client'[e] = client[e]
          /\ client'[d].pc = "sent" /\ client'[d].legacy = client[d].legacy
      BY <2>0, <3>1 DEF TypeOK, ClientState
    <3> QED BY <3>1, <3>2, MoveHolders DEF FirstUndecided
  <2>6. CASE Retry(d)
    <3>1. /\ \A e \in Clients \ {d} : client'[e] = client[e]
          /\ UNCHANGED legacyLock /\ client[d].pc = "sent"
          /\ client'[d].pc = "caps" /\ client'[d].legacy = client[d].legacy /\ client'[d].retry
      BY <2>0, <2>6 DEF Retry, TypeOK, ClientState, IdleClient
    <3> QED BY <3>1, MoveHolders DEF FirstUndecided
  <2> QED
    BY <1>2, <2>1, <2>2, <2>3, <2>4, <2>5, <2>6
       DEF Client, AskFails, CapsTimeout, CapsWithoutGates, CapsWithGates, CapsFailed,
           ClassifyLegacy, Dispatch, Finish
<1> QED BY <1>1, <1>2, OthersLearn DEF Next

\* The types, the holders of the lock and their ways, together, are inductive.
LEMMA HoldersInvariant == Spec => [](LegacyHolders /\ FirstUndecided)
<1>1. Init => LegacyHolders /\ FirstUndecided
  BY DEF Init, LegacyHolders, FirstUndecided, IdleClient
<1>2. TypeOK /\ LegacyHolders /\ FirstUndecided /\ [Next]_vars
        => (LegacyHolders /\ FirstUndecided)'
  <2> SUFFICES ASSUME TypeOK, LegacyHolders, FirstUndecided, [Next]_vars
               PROVE  LegacyHolders' /\ FirstUndecided'
    OBVIOUS
  <2>1. CASE Next
    BY <2>1, HoldersStep
  <2>2. CASE UNCHANGED vars
    BY <2>2 DEF vars, LegacyHolders, FirstUndecided
  <2> QED BY <2>1, <2>2
<1> QED BY <1>1, <1>2, TypeCorrect, PTL DEF Spec

\* Legacy requests are in flight one at a time, for any number of clients
\* (legacy_action_lock).
THEOREM LegacyOneAtATime == Spec => []LegacySerialized
<1>1. LegacyHolders => LegacySerialized
  BY DEF LegacyHolders, LegacySerialized
<1> QED BY <1>1, HoldersInvariant, PTL

----------------------------------------------------------------------------
(* The status of one generation.                                           *)

\* How a step may change the status within its generation.
LEMMA StatusStep ==
  ASSUME TypeOK, [Next]_vars, status'.gen = status.gen
  PROVE  /\ status.support = "gated" => status'.support = "gated"
         /\ status.snap.mode # "absent" => status'.snap.rev >= status.snap.rev
<1>0. status \in Status /\ status.snap.rev \in Nat
  BY BoundAssumption DEF TypeOK, Status, Snapshot
<1>1. ASSUME UNCHANGED status
      PROVE  /\ status.support = "gated" => status'.support = "gated"
             /\ status.snap.mode # "absent" => status'.snap.rev >= status.snap.rev
  BY <1>0, <1>1
<1>2. ASSUME ResetStatus PROVE FALSE
  BY <1>2, BoundAssumption DEF ResetStatus, FreshStatus, TypeOK, Status, GenOrNone
<1>3. ASSUME NEW g \in Gens, ReadFrame(g)
      PROVE  /\ status.support = "gated" => status'.support = "gated"
             /\ status.snap.mode # "absent" => status'.snap.rev >= status.snap.rev
  <2>1. Head(inbox[g]) \in Frame /\ status' = Capture(g, Head(inbox[g]))
    BY <1>3 DEF ReadFrame, TypeOK
  <2> QED BY <2>1, CaptureTypes
<1>4. ASSUME NEW d \in Clients, MayBeLegacy(d), ClassifyLegacy(d)
      PROVE  /\ status.support # "gated"
             /\ status'.snap = status.snap
  BY <1>0, <1>4 DEF MayBeLegacy, ClassifyLegacy, Status
<1>5. ASSUME NEW d \in Clients, CapsWithGates(d)
      PROVE  /\ status.support = "gated" => status'.support = "gated"
             /\ status.snap.mode # "absent" => status'.snap.rev >= status.snap.rev
  <2>1. CASE status.gen = client[d].before.gen
    <3> DEFINE gated == [status EXCEPT !.support = "gated"]
    <3>1. gated \in Status /\ gated.support = "gated" /\ gated.snap = status.snap
      BY <1>0, SupportTypes DEF Support, Status
    <3>2. client[d].report.snap \in Snapshot
      BY DEF TypeOK, ClientState, Report
    <3>3. status' = ApplySnapshot(gated, client[d].report.snap)
      BY <1>5, <2>1 DEF CapsWithGates
    <3> HIDE DEF gated
    <3>4. /\ status'.support = "gated"
          /\ gated.snap.mode # "absent" => status'.snap.rev >= gated.snap.rev
      BY <3>1, <3>2, <3>3, SnapshotTypes
    <3> QED BY <3>1, <3>4
  <2>2. CASE status.gen # client[d].before.gen
    BY <1>1, <1>5, <2>2 DEF CapsWithGates
  <2> QED BY <2>1, <2>2
<1>6. ASSUME NEW d \in Clients, Client(d)
      PROVE  \/ UNCHANGED status \/ CapsWithGates(d)
             \/ MayBeLegacy(d) /\ ClassifyLegacy(d)
  BY <1>6 DEF Client, Preflight, AskCapabilities, AskFails, CapsTimeout, CapsWithoutGates,
       CapsFailed, TakeLegacyLock, Dispatch, Finish, Retry, linkVars
<1>7. ASSUME \/ Attach \/ Detach \/ \E g \in Gens : Helper(g)
      PROVE  UNCHANGED status
  BY <1>7 DEF Attach, Detach, Helper, HelperPushesBuild, HelperChangesGate, HelperAnswers
<1>8. CASE Next
  <2>1. CASE \E d \in Clients : Client(d)
    BY <1>0, <1>1, <1>4, <1>5, <1>6, <2>1
  <2>2. CASE ~\E d \in Clients : Client(d)
    BY <1>1, <1>2, <1>3, <1>7, <1>8, <2>2 DEF Next
  <2> QED BY <2>1, <2>2
<1>9. CASE UNCHANGED vars
  BY <1>1, <1>9 DEF vars
<1> QED BY <1>8, <1>9

\* A generation known to have gates is never treated as legacy again
\* (negotiate_capabilities, capture_helper_metadata).
THEOREM GatedStays == Spec => GatedIsSticky
<1>1. TypeOK /\ [Next]_vars =>
        [status.support = "gated" /\ status'.gen = status.gen => status'.support = "gated"]_vars
  BY StatusStep
<1> QED BY <1>1, TypeCorrect, PTL DEF Spec, GatedIsSticky

\* Snapshots that cross each other are ordered by their revision
\* (apply_gate_snapshot).
THEOREM RevisionsOrdered == Spec => RevisionsGrow
<1>1. TypeOK /\ [Next]_vars =>
        [status'.gen = status.gen /\ status.snap.mode # "absent"
           => status'.snap.rev >= status.snap.rev]_vars
  BY StatusStep
<1> QED BY <1>1, TypeCorrect, PTL DEF Spec, RevisionsGrow

\* What is known of a generation only grows: its support for gates and the
\* revision of its gates (capture_helper_metadata, negotiate_capabilities).
THEOREM StatusLearns == Spec => StatusOnlyLearns
BY GatedStays, RevisionsOrdered DEF StatusOnlyLearns

----------------------------------------------------------------------------
(* Gates belong to the tab they came from.                                  *)

\* The installed connection is the newest one, its helper's gates are marked as
\* its own, and a cached snapshot of the newest generation came over it.
LinkOwn ==
  /\ conn \in {0, generation} /\ status.gen <= generation
  /\ conn # 0 => helper[conn].snap.from = conn
  /\ status.snap.mode # "absent" =>
       status.gen # 0 /\ (status.snap.from = status.gen \/ status.gen < generation)

\* A frame carries gates of the tab that sent it; the ones in an answer that a
\* client waits for are known to be witnessed by it.
FrameOwn(g, f) ==
  /\ f.type = "gates" \/ f.report.gated => f.report.snap.from = g
  /\ \A d \in Clients :
       f.report.gated /\ f.to = d /\ client[d].pc = "waiting" /\ client[d].gen = g
         => <<g, f.report.snap.mode>> \in held[d]

FramesOwn == \A g \in Gens : \A i \in DOMAIN inbox[g] : FrameOwn(g, inbox[g][i])

\* A client has witnessed the gate of the installed connection, the gate it was
\* answered, and, on the newest generation or once it has sent, the one it goes by.
ClientOwn(d) ==
  /\ client[d].gen <= generation
  /\ client[d].pc # "idle" => status.gen # 0
  /\ client[d].pc # "idle" /\ conn # 0 => <<conn, helper[conn].snap.mode>> \in held[d]
  /\ client[d].pc # "idle" => client[d].before.gen <= status.gen
  /\ client[d].pc \in {"waiting", "replied"} => client[d].before.gen <= client[d].gen
  /\ client[d].pc = "replied" /\ client[d].report.gated =>
       /\ client[d].report.snap.from = client[d].gen
       /\ <<client[d].gen, client[d].report.snap.mode>> \in held[d]
  /\ client[d].pc \in {"lock", "dispatch", "sent"} /\ client[d].decision # "legacy" =>
       /\ client[d].decision \in Permitted
       /\ client[d].pc = "sent" \/ client[d].gen = generation
            => <<client[d].gen, client[d].decision>> \in held[d]

ClientsOwn == \A d \in Clients : ClientOwn(d)

Own == LinkOwn /\ FramesOwn /\ ClientsOwn

\* Generations are naturals.
LEMMA Ordered ==
  ASSUME TypeOK
  PROVE  /\ generation \in Nat /\ conn \in Nat /\ status.gen \in Nat
         /\ \A d \in Clients : client[d].gen \in Nat /\ client[d].before.gen \in Nat
BY BoundAssumption DEF TypeOK, Status, ClientState, GenOrNone

\* A client's step that asks nothing, and leaves frames, connection and the
\* status's generation alone, has to keep its own part of the invariant only.
LEMMA MoveOwn ==
  ASSUME TypeOK, Own, NEW d \in Clients, UNCHANGED <<generation, conn, helper, inbox>>,
         \A e \in Clients \ {d} : client'[e] = client[e] /\ held'[e] = held[e],
         client'[d].pc # "waiting", ClientOwn(d)', status'.gen = status.gen,
         \/ status'.snap = status.snap
         \/ status.gen # 0 /\ (status'.snap.from = status.gen \/ status.gen < generation)
  PROVE  Own'
<1>1. LinkOwn'
  BY DEF Own, LinkOwn
<1>2. \A g \in Gens : \A i \in DOMAIN inbox[g] : FrameOwn(g, inbox[g][i])'
  <2> SUFFICES ASSUME NEW g \in Gens, NEW i \in DOMAIN inbox[g]
               PROVE  FrameOwn(g, inbox[g][i])'
    OBVIOUS
  <2>1. FrameOwn(g, inbox[g][i])
    BY DEF Own, FramesOwn
  <2> QED BY <2>1 DEF FrameOwn
<1>3. FramesOwn'
  BY <1>2 DEF FramesOwn
<1>4. ASSUME NEW e \in Clients \ {d} PROVE ClientOwn(e)'
  <2>1. ClientOwn(e)
    BY DEF Own, ClientsOwn
  <2> QED BY <2>1 DEF ClientOwn
<1>5. ClientsOwn'
  BY <1>4 DEF ClientsOwn
<1> QED BY <1>1, <1>3, <1>5 DEF Own

\* A request that ends knows nothing that could be wrong.
LEMMA DoneOwn ==
  ASSUME TypeOK, Own, NEW d \in Clients, Done(d),
         UNCHANGED <<generation, conn, helper, inbox, status>>
  PROVE  Own'
<1>1. client'[d] = IdleClient
      /\ \A e \in Clients \ {d} : client'[e] = client[e] /\ held'[e] = held[e]
  BY DEF Done, TypeOK
<1>2. ClientOwn(d)'
  BY <1>1, Ordered DEF ClientOwn, IdleClient, NoReport
<1> QED BY <1>1, <1>2, MoveOwn DEF IdleClient

\* What a preflight decides: to end, to go the legacy way, or to send in a mode
\* that, on the newest generation, the client has witnessed.
LEMMA DecideOwn ==
  ASSUME TypeOK, Own, NEW d \in Clients, NEW decision \in ModeOrAbsent \cup {"legacy"},
         Decide(d, decision), client[d].pc # "idle",
         decision # "legacy" /\ status.gen = generation => <<generation, decision>> \in held[d],
         UNCHANGED <<generation, conn, helper, inbox>>, status'.gen = status.gen,
         \/ status'.snap = status.snap
         \/ status.gen # 0 /\ (status'.snap.from = status.gen \/ status.gen < generation)
  PROVE  Own'
<1> DEFINE first == ~client[d].retry
           legacy == IF first THEN decision = "legacy" /\ Protocol[d] = "fallback"
                     ELSE client[d].legacy
<1>0. client[d] \in ClientState
  BY DEF TypeOK
<1>1. CASE decision \in {"off", "absent"} \/ (legacy /\ decision # "legacy")
  <2>1. Done(d)
    BY <1>1 DEF Decide
  <2>2. client'[d] = IdleClient
        /\ \A e \in Clients \ {d} : client'[e] = client[e] /\ held'[e] = held[e]
    BY <2>1 DEF Done, TypeOK
  <2>3. ClientOwn(d)'
    BY <2>2, Ordered DEF ClientOwn, IdleClient, NoReport
  <2> QED BY <2>2, <2>3, MoveOwn DEF IdleClient
<1>2. CASE ~(decision \in {"off", "absent"} \/ (legacy /\ decision # "legacy"))
  <2>1. client' = [client EXCEPT ![d].decision = decision, ![d].gen = status.gen,
                     ![d].report = NoReport, ![d].legacy = legacy,
                     ![d].pc = IF legacy /\ first THEN "lock" ELSE "dispatch"]
    BY <1>2 DEF Decide
  <2>2. UNCHANGED held /\ \A e \in Clients \ {d} : client'[e] = client[e]
    BY <1>2, <2>1 DEF Decide, TypeOK
  <2> HIDE DEF legacy, first
  <2>3. /\ client'[d].decision = decision /\ client'[d].gen = status.gen
        /\ client'[d].pc \in {"lock", "dispatch"} /\ client'[d].before = client[d].before
    BY <1>0, <2>1 DEF TypeOK, ClientState
  <2>4. decision # "legacy" => decision \in Permitted
    BY <1>2 DEF ModeOrAbsent
  <2>5. ClientOwn(d) /\ LinkOwn
    BY DEF Own, ClientsOwn
  <2>6. ClientOwn(d)'
    BY <2>2, <2>3, <2>4, <2>5, Ordered DEF ClientOwn, LinkOwn
  <2>7. client'[d].pc # "waiting"
    BY <2>3
  <2> QED BY <2>2, <2>6, <2>7, MoveOwn
<1> QED BY <1>1, <1>2

\* A preflight that may conclude "legacy".
LEMMA LegacyOwn ==
  ASSUME TypeOK, Own, NEW d \in Clients, NEW P \in BOOLEAN, client[d].pc # "idle",
         IF P THEN ClassifyLegacy(d) ELSE Done(d) /\ UNCHANGED status,
         UNCHANGED <<linkVars, inbox>>
  PROVE  Own'
<1>1. CASE P
  <2>1. status'.gen = status.gen /\ status'.snap = status.snap
    BY <1>1 DEF ClassifyLegacy, TypeOK, Status
  <2>2. Decide(d, "legacy")
    BY <1>1 DEF ClassifyLegacy
  <2>3. UNCHANGED <<generation, conn, helper, inbox>>
    BY DEF linkVars
  <2> QED BY <2>1, <2>2, <2>3, DecideOwn
<1>2. CASE ~P
  BY <1>2, DoneOwn DEF linkVars
<1> QED BY <1>1, <1>2

\* Asking makes the answers to the client's earlier requests stale.
LEMMA AskOwn ==
  ASSUME TypeOK, Own, NEW d \in Clients, AskCapabilities(d)
  PROVE  Own'
<1>0. client[d] \in ClientState /\ ClientOwn(d) /\ LinkOwn
  BY DEF TypeOK, Own, ClientsOwn
<1>1. /\ client[d].pc = "caps" /\ conn # 0 /\ UNCHANGED <<linkVars, status, held>>
      /\ client' = [client EXCEPT ![d].pc = "waiting", ![d].gen = conn]
      /\ inbox' = [g \in Gens |-> [i \in 1 .. Len(inbox[g]) |->
                     IF inbox[g][i].to = d THEN Stale ELSE inbox[g][i]]]
  BY DEF AskCapabilities
<1>2. /\ \A e \in Clients \ {d} : client'[e] = client[e]
      /\ client'[d].pc = "waiting" /\ client'[d].gen = conn
      /\ client'[d].before = client[d].before
  BY <1>0, <1>1 DEF TypeOK, ClientState
<1>3. LinkOwn'
  BY <1>0, <1>1 DEF LinkOwn, linkVars
<1>4. ASSUME NEW g \in Gens, NEW i \in DOMAIN inbox'[g] PROVE FrameOwn(g, inbox[g][i])'
  <2>1. /\ i \in DOMAIN inbox[g]
        /\ inbox'[g][i] = IF inbox[g][i].to = d THEN Stale ELSE inbox[g][i]
    <3>1. inbox[g] \in Seq(Frame)
      BY DEF TypeOK
    <3> QED BY <1>1, <1>4, <3>1
  <2>2. CASE inbox[g][i].to = d
    BY <2>1, <2>2, NobodyAssumption DEF FrameOwn, Stale, NoReport, Nobody
  <2>3. CASE inbox[g][i].to # d
    <3>1. FrameOwn(g, inbox[g][i]) /\ inbox'[g][i] = inbox[g][i]
      BY <2>1, <2>3 DEF Own, FramesOwn
    <3> QED BY <1>1, <1>2, <2>3, <3>1 DEF FrameOwn
  <2> QED BY <2>2, <2>3
<1>5. FramesOwn'
  BY <1>4 DEF FramesOwn
<1>6. ClientOwn(d)'
  BY <1>0, <1>1, <1>2, Ordered DEF ClientOwn, LinkOwn, linkVars
<1>7. ASSUME NEW e \in Clients \ {d} PROVE ClientOwn(e)'
  <2>1. ClientOwn(e)
    BY DEF Own, ClientsOwn
  <2> QED BY <1>1, <1>2, <2>1 DEF ClientOwn, linkVars
<1>8. ClientsOwn'
  BY <1>6, <1>7 DEF ClientsOwn
<1> QED BY <1>3, <1>5, <1>8 DEF Own

\* What a client does not move, it does not spoil: a request goes by the answer
\* it was given on its own connection.
LEMMA ClientStepOwn ==
  ASSUME TypeOK, Own, NEW d \in Clients, Client(d)
  PROVE  Own'
<1>0. client[d] \in ClientState /\ status \in Status /\ ClientOwn(d) /\ LinkOwn
  BY DEF TypeOK, Own, ClientsOwn
<1> DEFINE witness == IF conn = 0 THEN {} ELSE {<<conn, helper[conn].snap.mode>>}
<1>1. ASSUME UNCHANGED <<generation, conn, helper, inbox, status>>, status.gen # 0,
             client'[d].pc = "caps", client'[d].before = Before,
             client'[d].gen \in {client[d].gen, 0}, held' = [held EXCEPT ![d] = witness],
             \A e \in Clients \ {d} : client'[e] = client[e]
      PROVE  Own'
  <2>1. held'[d] = witness /\ \A e \in Clients \ {d} : held'[e] = held[e]
    BY <1>1 DEF TypeOK
  <2>2. Before.gen = status.gen
    BY DEF Before
  <2>3. ClientOwn(d)'
    BY <1>0, <1>1, <2>1, <2>2, Ordered DEF ClientOwn
  <2> QED BY <1>1, <2>1, <2>3, MoveOwn
<1>7. CASE Preflight(d)
  <2>1. /\ client'[d].pc = "caps" /\ client'[d].before = Before
        /\ client'[d].gen = client[d].gen
        /\ \A e \in Clients \ {d} : client'[e] = client[e]
    BY <1>0, <1>7 DEF Preflight, TypeOK, ClientState
  <2> QED BY <1>1, <1>7, <2>1 DEF Preflight, linkVars
<1>8. CASE Retry(d)
  <2>1. \A e \in Clients \ {d} : client'[e] = client[e]
    BY <1>8 DEF Retry, TypeOK
  <2>2. client'[d] = [IdleClient EXCEPT !.pc = "caps", !.before = Before,
                        !.legacy = client[d].legacy, !.retry = TRUE]
    BY <1>8 DEF Retry, TypeOK
  <2>3. client'[d].pc = "caps" /\ client'[d].before = Before /\ client'[d].gen = 0
    BY <2>2 DEF IdleClient
  <2>4. status.gen # 0
    BY <1>0, <1>8 DEF Retry, ClientOwn
  <2> QED BY <1>1, <1>8, <2>1, <2>3, <2>4 DEF Retry, linkVars
<1>2. CASE CapsWithGates(d)
  <2>1. CASE status.gen = client[d].before.gen
    <3> DEFINE snap == client[d].report.snap
               gated == [status EXCEPT !.support = "gated"]
    <3>1. snap \in Snapshot /\ snap.mode \in ModeOrAbsent
      BY <1>0 DEF ClientState, Report, Snapshot
    <3>2. /\ gated \in Status /\ gated.snap = status.snap /\ gated.gen = status.gen
      BY <1>0, SupportTypes DEF Support, Status
    <3>3. /\ status' = ApplySnapshot(gated, snap) /\ Decide(d, snap.mode)
          /\ UNCHANGED <<generation, conn, helper, inbox>> /\ client[d].pc = "replied"
          /\ client[d].report.gated
      BY <1>2, <2>1 DEF CapsWithGates, linkVars
    <3>4. /\ snap.from = client[d].gen /\ <<client[d].gen, snap.mode>> \in held[d]
          /\ status.gen # 0 /\ (status.gen = generation => client[d].gen = generation)
          /\ status.gen = generation \/ status.gen < generation
      BY <1>0, <2>1, <3>3, Ordered DEF ClientOwn, LinkOwn
    <3> HIDE DEF snap, gated
    <3>5. status'.gen = status.gen /\ (status'.snap = status.snap \/ status'.snap = snap)
      BY <3>1, <3>2, <3>3 DEF ApplySnapshot, Newer, Status
    <3>6. \/ status'.snap = status.snap
          \/ status.gen # 0 /\ (status'.snap.from = status.gen \/ status.gen < generation)
      BY <3>4, <3>5
    <3>7. snap.mode # "legacy" /\ status.gen = generation => <<generation, snap.mode>> \in held[d]
      BY <3>4
    <3> QED BY <3>1, <3>3, <3>5, <3>6, <3>7, DecideOwn
  <2>2. CASE status.gen # client[d].before.gen
    BY <1>2, <2>2, DoneOwn DEF CapsWithGates, linkVars
  <2> QED BY <2>1, <2>2
<1>3. CASE CapsTimeout(d)
  <2>1. MayBeLegacy(d) \in BOOLEAN
    BY DEF MayBeLegacy
  <2> QED BY <1>3, <2>1, LegacyOwn DEF CapsTimeout
<1>4. CASE CapsWithoutGates(d)
  <2>1. (MayBeLegacy(d) /\ ~client[d].before.gated) \in BOOLEAN
    OBVIOUS
  <2> QED BY <1>4, <2>1, LegacyOwn DEF CapsWithoutGates
<1>5. CASE TakeLegacyLock(d) \/ (Dispatch(d) /\ MayDispatch(d))
  <2>1. /\ UNCHANGED <<generation, conn, helper, inbox, status, held>>
        /\ client[d].pc \in {"lock", "dispatch"} /\ client'[d].pc \in {"dispatch", "sent"}
        /\ client'[d].before = client[d].before /\ client'[d].gen = client[d].gen
        /\ client'[d].decision = client[d].decision
        /\ client'[d].pc = "sent" => client[d].gen = generation
        /\ \A e \in Clients \ {d} : client'[e] = client[e]
    BY <1>0, <1>5
       DEF TakeLegacyLock, Dispatch, MayDispatch, TypeOK, ClientState, linkVars, LinkOwn
  <2>2. ClientOwn(d)'
    BY <1>0, <2>1 DEF ClientOwn
  <2> QED BY <2>1, <2>2, MoveOwn
<1>6. CASE AskFails(d) \/ CapsFailed(d) \/ (Dispatch(d) /\ ~MayDispatch(d)) \/ Finish(d)
  BY <1>6, DoneOwn DEF AskFails, CapsFailed, Dispatch, Finish, linkVars
<1> QED BY <1>2, <1>3, <1>4, <1>5, <1>6, <1>7, <1>8, AskOwn DEF Client

\* A lost connection fails its waiters, and leaves every other client alone.
LEMMA LoseOwn ==
  ASSUME TypeOK, Own, NEW g \in GenOrNone, LoseWaiters(g)
  PROVE  \A d \in Clients :
           /\ client'[d].gen = client[d].gen /\ client'[d].before = client[d].before
           /\ client'[d].decision = client[d].decision
           /\ \/ client'[d].pc = client[d].pc /\ client'[d].report = client[d].report
              \/ client[d].pc = "waiting" /\ client'[d].pc = "replied" /\ ~client'[d].report.gated
<1> SUFFICES ASSUME NEW d \in Clients
             PROVE /\ client'[d].gen = client[d].gen /\ client'[d].before = client[d].before
                   /\ client'[d].decision = client[d].decision
                   /\ \/ client'[d].pc = client[d].pc /\ client'[d].report = client[d].report
                      \/ client[d].pc = "waiting" /\ client'[d].pc = "replied" /\ ~client'[d].report.gated
  OBVIOUS
<1>1. client[d] \in ClientState
  BY DEF TypeOK
<1>2. client'[d] = IF client[d].gen = g /\ client[d].pc = "waiting"
                   THEN [client[d] EXCEPT !.pc = "replied",
                           !.report = [NoReport EXCEPT !.failed = TRUE]]
                   ELSE client[d]
  BY DEF LoseWaiters
<1>3. ~[NoReport EXCEPT !.failed = TRUE].gated
  BY DEF NoReport
<1> QED BY <1>1, <1>2, <1>3 DEF ClientState

\* Every request under way witnesses the gate of a new connection; what the
\* status says is of an older generation from then on.
LEMMA AttachOwn ==
  ASSUME TypeOK, Own, Attach
  PROVE  Own'
<1>1. /\ generation' = generation + 1 /\ conn' = generation + 1
      /\ status.gen = generation /\ LoseWaiters(conn) /\ UNCHANGED <<status, inbox>>
  BY DEF Attach
<1>2. PICK current \in BOOLEAN, mode \in ModeOrAbsent :
        /\ helper' = [helper EXCEPT ![generation + 1] =
             [current |-> current, snap |-> [rev |-> 0, mode |-> mode, from |-> generation + 1]]]
        /\ Witness(generation + 1, mode)
  BY DEF Attach
<1>3. generation + 1 \in Gens
  BY BoundAssumption DEF Attach, TypeOK, Gens, GenOrNone
<1>4. helper'[generation + 1].snap.from = generation + 1
      /\ helper'[generation + 1].snap.mode = mode
  BY <1>2, <1>3 DEF TypeOK
<1>5. LinkOwn'
  BY <1>1, <1>4, Ordered DEF Own, LinkOwn
<1>6. \A d \in Clients : /\ held[d] \subseteq held'[d]
                         /\ client[d].pc # "idle" => <<generation + 1, mode>> \in held'[d]
  BY <1>2 DEF Witness
<1>7. conn \in GenOrNone
  BY DEF TypeOK
<1>8. ASSUME NEW d \in Clients PROVE ClientOwn(d)'
  <2>1. ClientOwn(d) /\ LinkOwn
    BY DEF Own, ClientsOwn
  <2>2. /\ client'[d].gen = client[d].gen /\ client'[d].before = client[d].before
        /\ client'[d].decision = client[d].decision
        /\ \/ client'[d].pc = client[d].pc /\ client'[d].report = client[d].report
           \/ client[d].pc = "waiting" /\ client'[d].pc = "replied" /\ ~client'[d].report.gated
    BY <1>1, <1>7, LoseOwn
  <2> QED BY <1>1, <1>4, <1>6, <2>1, <2>2, Ordered DEF ClientOwn, LinkOwn
<1>9. ASSUME NEW g \in Gens, NEW i \in DOMAIN inbox[g] PROVE FrameOwn(g, inbox[g][i])'
  <2>1. FrameOwn(g, inbox[g][i])
    BY DEF Own, FramesOwn
  <2>2. \A d \in Clients : client'[d].gen = client[d].gen
                           /\ (client'[d].pc = "waiting" => client[d].pc = "waiting")
    BY <1>1, <1>7, LoseOwn
  <2> QED BY <1>1, <1>6, <2>1, <2>2 DEF FrameOwn
<1> QED BY <1>1, <1>5, <1>8, <1>9 DEF Own, FramesOwn, ClientsOwn

\* A connection that is lost takes nothing but its waiters with it.
LEMMA DetachOwn ==
  ASSUME TypeOK, Own, Detach
  PROVE  Own'
<1>1. /\ conn' = 0 /\ LoseWaiters(conn) /\ conn \in GenOrNone
      /\ UNCHANGED <<generation, status, helper, inbox, held>>
  BY DEF Detach, TypeOK
<1>2. LinkOwn'
  BY <1>1, Ordered DEF Own, LinkOwn
<1>3. ASSUME NEW d \in Clients PROVE ClientOwn(d)'
  <2>1. ClientOwn(d)
    BY DEF Own, ClientsOwn
  <2>2. /\ client'[d].gen = client[d].gen /\ client'[d].before = client[d].before
        /\ client'[d].decision = client[d].decision
        /\ \/ client'[d].pc = client[d].pc /\ client'[d].report = client[d].report
           \/ client[d].pc = "waiting" /\ client'[d].pc = "replied" /\ ~client'[d].report.gated
    BY <1>1, LoseOwn
  <2> QED BY <1>1, <2>1, <2>2 DEF ClientOwn
<1>4. ASSUME NEW g \in Gens, NEW i \in DOMAIN inbox[g] PROVE FrameOwn(g, inbox[g][i])'
  <2>1. FrameOwn(g, inbox[g][i])
    BY DEF Own, FramesOwn
  <2>2. \A d \in Clients : client'[d].gen = client[d].gen
                           /\ (client'[d].pc = "waiting" => client[d].pc = "waiting")
    BY <1>1, LoseOwn
  <2> QED BY <1>1, <2>1, <2>2 DEF FrameOwn
<1> QED BY <1>1, <1>2, <1>3, <1>4 DEF Own, FramesOwn, ClientsOwn

\* The status forgets the gates of the generations before the newest.
LEMMA ResetOwn ==
  ASSUME TypeOK, Own, ResetStatus
  PROVE  Own'
<1>1. /\ status.gen < generation /\ status' = FreshStatus(generation)
      /\ UNCHANGED <<generation, conn, helper, inbox, client, held>>
  BY DEF ResetStatus, linkVars
<1>2. status'.gen = generation /\ status'.snap.mode = "absent"
  BY <1>1 DEF FreshStatus, NoSnapshot
<1>3. LinkOwn'
  BY <1>1, <1>2, Ordered DEF Own, LinkOwn
<1>4. ASSUME NEW d \in Clients PROVE ClientOwn(d)'
  <2>1. ClientOwn(d)
    BY DEF Own, ClientsOwn
  <2> QED BY <1>1, <1>2, <2>1, Ordered DEF ClientOwn
<1>5. FramesOwn'
  BY <1>1 DEF Own, FramesOwn, FrameOwn
<1> QED BY <1>3, <1>4, <1>5 DEF Own, ClientsOwn

\* A frame that arrives is the last; the others stay.
LEMMA ArriveOwn ==
  ASSUME TypeOK, FramesOwn, NEW g \in Gens, NEW f \in Frame, Arrive(g, f), FrameOwn(g, f)',
         UNCHANGED client, \A d \in Clients : held[d] \subseteq held'[d]
  PROVE  FramesOwn'
<1> SUFFICES ASSUME NEW x \in Gens, NEW i \in DOMAIN inbox'[x] PROVE FrameOwn(x, inbox[x][i])'
  BY DEF FramesOwn
<1>1. inbox[x] \in Seq(Frame) /\ inbox' = [inbox EXCEPT ![g] = Append(@, f)]
  BY DEF TypeOK, Arrive
<1>2. CASE i \in DOMAIN inbox[x] /\ inbox'[x][i] = inbox[x][i]
  <2>1. FrameOwn(x, inbox[x][i])
    BY <1>2 DEF FramesOwn
  <2> QED BY <1>2, <2>1 DEF FrameOwn
<1>3. CASE x = g /\ inbox'[x][i] = f
  BY <1>3 DEF FrameOwn
<1>4. \/ i \in DOMAIN inbox[x] /\ inbox'[x][i] = inbox[x][i]
      \/ x = g /\ inbox'[x][i] = f
  BY <1>1 DEF TypeOK
<1> QED BY <1>2, <1>3, <1>4

\* What the tab sends is its own, and every request under way witnesses the gate
\* it changes to.
LEMMA HelperOwn ==
  ASSUME TypeOK, Own, NEW g \in Gens, Helper(g)
  PROVE  Own'
<1> USE DEF Own
<1>0. /\ helper[g] \in [current : BOOLEAN, snap : Snapshot]
      /\ conn = g /\ conn # 0 /\ UNCHANGED <<generation, conn, status, client>>
      /\ helper[g].snap.from = g
  BY DEF Helper, HelperPushesBuild, HelperChangesGate, HelperAnswers, linkVars, TypeOK, Gens,
         LinkOwn
<1>1. ASSUME UNCHANGED <<helper, held>> PROVE LinkOwn' /\ ClientsOwn'
  BY <1>0, <1>1 DEF LinkOwn, ClientsOwn, ClientOwn
<1>2. CASE HelperPushesBuild(g)
  <2>1. Arrive(g, Build) /\ UNCHANGED <<helper, held>>
    BY <1>2 DEF HelperPushesBuild, linkVars
  <2>2. FrameOwn(g, Build)'
    BY DEF FrameOwn, Build, NoReport
  <2> QED BY <1>0, <1>1, <2>1, <2>2, ArriveOwn, Constants
<1>3. CASE HelperAnswers(g)
  <2>1. UNCHANGED <<helper, held>>
    BY <1>3 DEF HelperAnswers, linkVars
  <2>2. PICK d \in Clients :
          \E r \in {[gated |-> TRUE, failed |-> FALSE, snap |-> helper[g].snap],
                   NoReport, [NoReport EXCEPT !.failed = TRUE]} : Arrive(g, Answer(d, r))
    BY <1>3 DEF HelperAnswers
  <2>3. PICK r : /\ r \in {[gated |-> TRUE, failed |-> FALSE, snap |-> helper[g].snap],
                           NoReport, [NoReport EXCEPT !.failed = TRUE]}
                 /\ Arrive(g, Answer(d, r))
    BY <2>2
  <2>4. r \in Report /\ (r.gated => r.snap = helper[g].snap)
    <3>1. [gated |-> TRUE, failed |-> FALSE, snap |-> helper[g].snap] \in Report
      BY <1>0 DEF Report
    <3>2. NoReport \in Report /\ [NoReport EXCEPT !.failed = TRUE] \in Report
      BY Constants DEF Report
    <3>3. ~NoReport.gated /\ ~[NoReport EXCEPT !.failed = TRUE].gated
      BY DEF NoReport
    <3>4. CASE r = [gated |-> TRUE, failed |-> FALSE, snap |-> helper[g].snap]
      BY <3>1, <3>4
    <3>5. CASE r \in {NoReport, [NoReport EXCEPT !.failed = TRUE]}
      BY <3>2, <3>3, <3>5
    <3> QED BY <2>3, <3>4, <3>5
  <2>5. Answer(d, r) \in Frame
    BY <2>4 DEF Answer, Frame
  <2>6. client[d].pc # "idle" => <<g, helper[g].snap.mode>> \in held[d]
    BY <1>0 DEF ClientsOwn, ClientOwn
  <2>7. FrameOwn(g, Answer(d, r))'
    BY <1>0, <2>1, <2>4, <2>6 DEF FrameOwn, Answer
  <2> QED BY <1>0, <1>1, <2>1, <2>3, <2>5, <2>7, ArriveOwn
<1>4. CASE HelperChangesGate(g)
  <2>0. PICK mode \in ModeOrAbsent :
          LET s == [rev |-> helper[g].snap.rev + 1, mode |-> mode, from |-> g]
          IN  /\ helper' = [helper EXCEPT ![g].snap = s]
              /\ Witness(g, mode)
              /\ IF mode = "absent" THEN UNCHANGED inbox ELSE Arrive(g, GatesUpdated(s))
    BY <1>4 DEF HelperChangesGate
  <2>1. PICK s :
          /\ s = [rev |-> helper[g].snap.rev + 1, mode |-> mode, from |-> g]
          /\ helper' = [helper EXCEPT ![g].snap = s]
          /\ Witness(g, mode)
          /\ IF mode = "absent" THEN UNCHANGED inbox ELSE Arrive(g, GatesUpdated(s))
    BY <2>0
  <2>2. /\ helper'[g].snap = s /\ s.mode = mode /\ s.from = g
        /\ \A d \in Clients : held[d] \subseteq held'[d]
        /\ \A d \in Clients : client[d].pc # "idle" => <<g, mode>> \in held'[d]
    BY <1>0, <2>1 DEF Witness, TypeOK
  <2>3. s \in Snapshot
    BY <1>0, <1>4, <2>1, BoundAssumption DEF HelperChangesGate, Snapshot, Gens, GenOrNone
  <2>4. LinkOwn'
    BY <1>0, <2>2 DEF LinkOwn
  <2>5. ClientsOwn'
    BY <1>0, <2>2 DEF ClientsOwn, ClientOwn
  <2>6. FramesOwn'
    <3>1. CASE mode = "absent"
      BY <1>0, <2>1, <2>2, <3>1 DEF FramesOwn, FrameOwn
    <3>2. CASE mode # "absent"
      <4>1. [NoReport EXCEPT !.snap = s] \in Report
            /\ [NoReport EXCEPT !.snap = s].snap = s /\ ~[NoReport EXCEPT !.snap = s].gated
        BY <2>3, Constants DEF Report, NoReport
      <4>2. GatesUpdated(s) \in Frame /\ FrameOwn(g, GatesUpdated(s))'
        BY <2>2, <4>1 DEF GatesUpdated, Frame, FrameOwn
      <4> QED BY <1>0, <2>1, <2>2, <3>2, <4>2, ArriveOwn
    <3> QED BY <3>1, <3>2
  <2> QED BY <2>4, <2>5, <2>6
<1> QED BY <1>2, <1>3, <1>4 DEF Helper

\* A frame that is read reaches the status of its own connection only, and the
\* client that waits on that connection.
LEMMA ReadOwn ==
  ASSUME TypeOK, Own, NEW g \in Gens, ReadFrame(g)
  PROVE  Own'
<1>1. PICK f \in Frame : f = Head(inbox[g])
  BY DEF ReadFrame, TypeOK
<1>2. /\ status' = Capture(g, f) /\ UNCHANGED <<generation, conn, helper, held>>
      /\ inbox' = [inbox EXCEPT ![g] = Tail(@)]
      /\ \/ client' = client
         \/ /\ f.to \in Clients /\ client[f.to].pc = "waiting" /\ client[f.to].gen = g
            /\ client' = [client EXCEPT ![f.to].pc = "replied", ![f.to].report = f.report]
  BY <1>1 DEF ReadFrame, Frame
<1>3. FrameOwn(g, f)
  <2>1. inbox[g] \in Seq(Frame) /\ inbox[g] # <<>>
    BY DEF ReadFrame, TypeOK
  <2>2. 1 \in DOMAIN inbox[g] /\ f = inbox[g][1]
    BY <1>1, <2>1
  <2> QED BY <2>2 DEF Own, FramesOwn
<1>4. /\ status'.gen = status.gen
      /\ status'.snap = status.snap \/ (status.gen = g /\ status'.snap.from = g)
  <2>1. f.report.snap \in Snapshot /\ f.type \in {"build", "gates", "caps"} /\ status \in Status
    BY DEF Frame, Report, TypeOK
  <2>2. CASE f.type = "gates" /\ status.gen = g
    <3>1. status'.snap \in {status.snap, f.report.snap}
      BY <1>2, <2>1, <2>2 DEF Capture, ApplySnapshot, Newer, Status
    <3> QED BY <1>2, <1>3, <2>2, <3>1, CaptureTypes DEF FrameOwn
  <2>3. CASE ~(f.type = "gates" /\ status.gen = g)
    BY <1>2, <2>1, <2>3 DEF Capture, Status
  <2> QED BY <2>2, <2>3
<1>5. LinkOwn'
  BY <1>2, <1>4 DEF Own, LinkOwn, Gens
<1>6. ASSUME NEW d \in Clients
      PROVE  /\ client'[d].gen = client[d].gen /\ client'[d].before = client[d].before
             /\ client'[d].decision = client[d].decision
             /\ \/ client'[d].pc = client[d].pc /\ client'[d].report = client[d].report
                \/ /\ client[d].pc = "waiting" /\ client'[d].pc = "replied"
                   /\ f.to = d /\ client[d].gen = g /\ client'[d].report = f.report
  <2>1. client[d] \in ClientState
    BY DEF TypeOK
  <2>2. \/ client'[d] = client[d]
        \/ /\ f.to = d /\ client[d].pc = "waiting" /\ client[d].gen = g
           /\ client'[d] = [client[d] EXCEPT !.pc = "replied", !.report = f.report]
    BY <1>2 DEF TypeOK
  <2> QED BY <2>1, <2>2 DEF ClientState
<1>7. ASSUME NEW d \in Clients PROVE ClientOwn(d)'
  <2>1. ClientOwn(d)
    BY DEF Own, ClientsOwn
  <2>2. CASE client'[d].pc = client[d].pc /\ client'[d].report = client[d].report
    BY <1>2, <1>4, <1>6, <2>1, <2>2 DEF ClientOwn
  <2>3. CASE client[d].pc = "waiting" /\ client'[d].pc = "replied"
    BY <1>2, <1>3, <1>4, <1>6, <2>1, <2>3 DEF ClientOwn, FrameOwn
  <2> QED BY <1>6, <2>2, <2>3
<1>8. ASSUME NEW x \in Gens, NEW i \in DOMAIN inbox'[x] PROVE FrameOwn(x, inbox[x][i])'
  <2>1. PICK j \in DOMAIN inbox[x] : inbox'[x][i] = inbox[x][j]
    <3>1. CASE x = g
      <4>1. inbox[g] \in Seq(Frame) /\ inbox[g] # <<>> /\ inbox'[g] = Tail(inbox[g])
        BY <1>2 DEF ReadFrame, TypeOK
      <4>2. i + 1 \in DOMAIN inbox[g] /\ inbox'[g][i] = inbox[g][i + 1]
        BY <1>8, <3>1, <4>1
      <4> QED BY <3>1, <4>2
    <3>2. CASE x # g
      BY <1>2, <3>2 DEF TypeOK
    <3> QED BY <3>1, <3>2
  <2>2. FrameOwn(x, inbox[x][j])
    BY <2>1 DEF Own, FramesOwn
  <2> QED BY <1>2, <1>6, <2>1, <2>2 DEF FrameOwn
<1> QED BY <1>5, <1>7, <1>8 DEF Own, ClientsOwn, FramesOwn

\* Gates stay with the tab they came from, in every reachable state.
LEMMA OwnInvariant == Spec => []Own
<1>1. Init => Own
  <2> SUFFICES ASSUME Init PROVE Own
    OBVIOUS
  <2>1. LinkOwn
    BY DEF Init, LinkOwn, FreshStatus, NoSnapshot
  <2>2. FramesOwn
    BY DEF Init, FramesOwn
  <2>3. ClientsOwn
    BY DEF Init, ClientsOwn, ClientOwn, IdleClient, NoReport
  <2> QED BY <2>1, <2>2, <2>3 DEF Own
<1>2. TypeOK /\ Own /\ [Next]_vars => Own'
  <2> SUFFICES ASSUME TypeOK, Own, [Next]_vars PROVE Own'
    OBVIOUS
  <2>1. CASE Next
    BY <2>1, AttachOwn, DetachOwn, ResetOwn, HelperOwn, ReadOwn, ClientStepOwn DEF Next
  <2>2. CASE UNCHANGED vars
    BY <2>2 DEF vars, Own, LinkOwn, FramesOwn, FrameOwn, ClientsOwn, ClientOwn
  <2> QED BY <2>1, <2>2
<1> QED BY <1>1, <1>2, TypeCorrect, PTL DEF Spec

\* An action goes out in a mode that its helper had since the action's preflight
\* began, and the gates shown for the installed connection came over it, for any
\* clients, reconnections and late frames (preflight, request_bound).
THEOREM GatesBelong == Spec => []GatesOfOwnTab
<1>1. Own /\ TypeOK => GatesOfOwnTab
  <2> SUFFICES ASSUME Own, TypeOK PROVE DispatchReflectsRefresh /\ StatusFromOwnTab
    BY DEF GatesOfOwnTab
  <2>1. DispatchReflectsRefresh
    BY DEF Own, ClientsOwn, ClientOwn, DispatchReflectsRefresh
  <2>2. StatusFromOwnTab
    BY Ordered DEF Own, LinkOwn, StatusFromOwnTab
  <2> QED BY <2>1, <2>2
<1> QED BY <1>1, OwnInvariant, TypeCorrect, PTL

----------------------------------------------------------------------------
(* A tab that was found to have gates.                                      *)

\* A generation found to have gates is known as gated, or is not the status's
\* any more.
LearnedKnown ==
  \A g \in learned : g <= status.gen /\ (g = status.gen => status.support = "gated")

\* The status moves on to newer generations only.
LEMMA StatusAdvances ==
  ASSUME TypeOK, [Next]_vars
  PROVE  status.gen \in Nat /\ status'.gen \in Nat /\ status.gen <= status'.gen
<1>1. status.gen \in Nat /\ generation \in Nat
  BY Ordered
<1>2. ASSUME NEW d \in Clients, Client(d) PROVE status'.gen = status.gen
  <2>1. \/ UNCHANGED status \/ ClassifyLegacy(d)
        \/ CapsWithGates(d) /\ status.gen = client[d].before.gen
    BY <1>2 DEF Client, Preflight, AskCapabilities, AskFails, CapsTimeout, CapsWithoutGates,
         CapsWithGates, CapsFailed, TakeLegacyLock, Dispatch, Finish, Retry, linkVars
  <2>2. status \in Status
    BY DEF TypeOK
  <2> QED BY <2>1, <2>2 DEF ClassifyLegacy, CapsWithGates, ApplySnapshot, Status
<1>3. ASSUME NEW g \in Gens, ReadFrame(g) PROVE status'.gen = status.gen
  <2>1. Head(inbox[g]) \in Frame /\ status' = Capture(g, Head(inbox[g]))
    BY <1>3 DEF ReadFrame, TypeOK
  <2> QED BY <2>1, CaptureTypes
<1>4. ResetStatus => status.gen < generation /\ status'.gen = generation
  BY DEF ResetStatus, FreshStatus
<1>5. Attach \/ Detach \/ (\E g \in Gens : Helper(g)) \/ UNCHANGED vars => UNCHANGED status
  BY DEF vars, Attach, Detach, Helper, HelperPushesBuild, HelperChangesGate, HelperAnswers
<1>6. status'.gen = status.gen \/ (status.gen < generation /\ status'.gen = generation)
  BY <1>2, <1>3, <1>4, <1>5 DEF Next
<1> QED BY <1>1, <1>6

\* What is learned is learned of the generation that the status is about.
LEMMA LearnedStep ==
  ASSUME TypeOK, [Next]_vars
  PROVE  \/ learned' \subseteq learned
         \/ learned' = learned \cup {status'.gen} /\ status'.support = "gated"
<1>1. ASSUME NEW g \in Gens, ReadFrame(g)
      PROVE  \/ learned' = learned
             \/ learned' = learned \cup {status'.gen} /\ status'.support = "gated"
  <2>1. /\ status' = Capture(g, Head(inbox[g])) /\ status \in Status
        /\ learned' = learned \cup (IF Head(inbox[g]) = Build /\ status.gen = g THEN {g} ELSE {})
    BY <1>1 DEF ReadFrame, TypeOK
  <2>2. CASE Head(inbox[g]) = Build /\ status.gen = g
    <3>1. status' = [status EXCEPT !.adv = TRUE, !.support = "gated"]
      BY <2>1, <2>2 DEF Capture, Build
    <3>2. status'.gen = g /\ status'.support = "gated"
      BY <2>1, <2>2, <3>1 DEF Status
    <3> QED BY <2>1, <2>2, <3>2
  <2>3. CASE ~(Head(inbox[g]) = Build /\ status.gen = g)
    BY <2>1, <2>3
  <2> QED BY <2>2, <2>3
<1>2. ASSUME NEW d \in Clients, CapsWithGates(d), status.gen = client[d].before.gen
      PROVE  learned' = learned \cup {status'.gen} /\ status'.support = "gated"
  <2>1. /\ status' = ApplySnapshot([status EXCEPT !.support = "gated"], client[d].report.snap)
        /\ learned' = learned \cup {status.gen} /\ status \in Status
    BY <1>2 DEF CapsWithGates, TypeOK
  <2>2. status'.gen = status.gen /\ status'.support = "gated"
    BY <2>1 DEF ApplySnapshot, Status
  <2> QED BY <2>1, <2>2
<1>3. ASSUME NEW d \in Clients, Client(d),
             ~(CapsWithGates(d) /\ status.gen = client[d].before.gen)
      PROVE  learned' = learned
  BY <1>3 DEF Client, Preflight, AskCapabilities, AskFails, CapsTimeout, CapsWithoutGates,
       CapsWithGates, CapsFailed, TakeLegacyLock, Dispatch, Finish, Retry
<1>4. Attach \/ ResetStatus \/ Detach \/ (\E g \in Gens : Helper(g)) \/ UNCHANGED vars
        => learned' \subseteq learned
  BY DEF Attach, ResetStatus, Detach, Helper, HelperPushesBuild, HelperChangesGate,
       HelperAnswers, vars
<1> QED BY <1>1, <1>2, <1>3, <1>4 DEF Next

\* What was learned stays known.
LEMMA KnownStep ==
  ASSUME TypeOK, LearnedKnown, [Next]_vars
  PROVE  LearnedKnown'
<1>0. /\ status.gen \in Nat /\ status'.gen \in Nat /\ status.gen <= status'.gen
      /\ learned \subseteq Nat
  BY StatusAdvances, BoundAssumption DEF GenOrNone, TypeOK
<1>1. ASSUME NEW g \in learned
      PROVE  g <= status'.gen /\ (g = status'.gen => status'.support = "gated")
  <2>1. g <= status.gen /\ (g = status.gen => status.support = "gated") /\ g \in Nat
    BY <1>0 DEF LearnedKnown
  <2>2. g = status'.gen => g = status.gen
    BY <1>0, <2>1
  <2>3. status'.gen = status.gen /\ status.support = "gated" => status'.support = "gated"
    BY StatusStep
  <2> QED BY <1>0, <2>1, <2>2, <2>3
<1>2. ASSUME NEW g \in learned'
      PROVE  g <= status'.gen /\ (g = status'.gen => status'.support = "gated")
  <2>1. \/ g \in learned
        \/ g = status'.gen /\ status'.support = "gated"
    BY <1>2, LearnedStep
  <2>2. CASE g \in learned
    BY <1>1, <2>2
  <2>3. CASE g = status'.gen /\ status'.support = "gated"
    BY <1>0, <2>3
  <2> QED BY <2>1, <2>2, <2>3
<1> QED BY <1>2 DEF LearnedKnown

\* A tab that was found to have gates, by its build info or by an answer, gets
\* no legacy request on that connection, for any clients, reconnections and late
\* frames (negotiate_capabilities, request_bound).
THEOREM LearnedFailsClosed == Spec => LearnedNeverLegacy
<1>1. Init => LearnedKnown
  BY DEF Init, LearnedKnown
<1>2. TypeOK /\ LearnedKnown /\ [Next]_vars => LearnedKnown'
  BY KnownStep
<1>3. ASSUME TypeOK, LearnedKnown, [Next]_vars, NEW d \in Clients,
             client[d].pc = "dispatch", client[d].legacy, client'[d].pc = "sent"
      PROVE  client'[d].gen \notin learned
  <2>1. Dispatch(d) /\ MayDispatch(d)
    <3>1. ASSUME NEW e \in Clients, Client(e), ~(e = d /\ Dispatch(d) /\ MayDispatch(d))
          PROVE  FALSE
      <4>1. CASE e # d
        <5>1. client'[d] = client[d]
          BY <1>3, <3>1, <4>1 DEF Client, Preflight, AskCapabilities, AskFails, CapsTimeout,
               CapsWithoutGates, CapsWithGates, CapsFailed, TakeLegacyLock, Dispatch, Finish,
               Retry, ClassifyLegacy, Decide, Done, TypeOK
        <5> QED BY <1>3, <5>1
      <4>2. CASE e = d
        <5>1. Dispatch(d)
          BY <1>3, <3>1, <4>2 DEF Client, Preflight, AskCapabilities, AskFails, CapsTimeout,
               CapsWithoutGates, CapsWithGates, CapsFailed, TakeLegacyLock, Finish, Retry
        <5>2. Done(d)
          BY <3>1, <4>2, <5>1 DEF Dispatch
        <5>3. client'[d] = IdleClient
          BY <1>3, <5>2 DEF Done, TypeOK
        <5> QED BY <1>3, <5>3 DEF IdleClient
      <4> QED BY <4>1, <4>2
    <3>2. ASSUME NEW g \in Gens, ReadFrame(g) PROVE client'[d].pc # "sent"
      <4>1. \/ client' = client
            \/ \E e \in Clients : /\ client[e].pc = "waiting"
                  /\ client' = [client EXCEPT ![e].pc = "replied",
                                             ![e].report = Head(inbox[g]).report]
        <5>1. Head(inbox[g]) \in Frame
          BY <1>3, <3>2 DEF ReadFrame, TypeOK
        <5> QED BY <3>2, <5>1 DEF ReadFrame, Frame
      <4>2. ASSUME NEW e \in Clients, client[e].pc = "waiting",
                   client' = [client EXCEPT ![e].pc = "replied",
                                            ![e].report = Head(inbox[g]).report]
            PROVE  client'[d].pc # "sent"
        <5>1. e # d
          BY <1>3, <4>2
        <5> QED BY <1>3, <4>2, <5>1 DEF TypeOK
      <4> QED BY <1>3, <4>1, <4>2
    <3>3. Attach \/ Detach => client'[d].pc # "sent"
      BY <1>3 DEF Attach, Detach, LoseWaiters, TypeOK
    <3>4. ResetStatus \/ (\E g \in Gens : Helper(g)) \/ UNCHANGED vars => client' = client
      BY DEF ResetStatus, Helper, HelperPushesBuild, HelperChangesGate, HelperAnswers, vars
    <3> QED BY <1>3, <3>1, <3>2, <3>3, <3>4 DEF Next
  <2>2. conn = status.gen /\ status.support = "legacy" /\ client'[d].gen = conn
    BY <1>3, <2>1 DEF Dispatch, MayDispatch, TypeOK, ClientState
  <2> QED BY <1>3, <2>2 DEF LearnedKnown
<1>4. TypeOK /\ LearnedKnown /\ [Next]_vars =>
        [\A d \in Clients :
           /\ client[d].pc = "dispatch" /\ client[d].legacy /\ client'[d].pc = "sent"
           => client'[d].gen \notin learned]_vars
  BY <1>3
<1> QED BY <1>1, <1>2, <1>4, TypeCorrect, PTL DEF Spec, LearnedNeverLegacy
=============================================================================
