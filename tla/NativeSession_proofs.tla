------------------------- MODULE NativeSession_proofs -------------------------
(* Proofs about NativeSession, for any processes, contexts, operations and     *)
(* bounds.                                                                     *)
EXTENDS NativeSession, SequenceTheorems, TLAPS

----------------------------------------------------------------------------
(* The inductive invariant                                                   *)

Inspects == {"bootstrap", "user", "pickers", "home"}

\* What is left of a command: nothing but an inspection follows the PUT, the
\* PUT follows nothing, and a session is not stored right after a login.
Shape(c) ==
  /\ c.puts <= 1 /\ (c.puts = 1 => c.selected \in Ids)
  /\ \A k \in DOMAIN c.todo :
       /\ c.todo[k] \notin Inspects => c.puts = 0
       /\ k > 1 /\ c.todo[1] = "put" => c.todo[k] \in Inspects
       /\ c.todo[k] = "put" => k = 1 /\ c.selected \in Ids
       /\ c.todo[k] = "persist" => c.op \in {"login", "attach", "forget"}
       /\ c.todo[k] = "login" => c.op \in {"login", "basic"}
       /\ k > 1 /\ c.todo[k] = "persist" => c.todo[k - 1] # "login"

\* What a running switch has seen was so since it began, or since its PUT.
Progress(c, seen) ==
  /\ c.outcome \in {"none", "switched", "uncertain"}
  /\ c.puts = 0 => c.before \in seen \cup {None}
  /\ c.outcome = "switched" => c.puts = 1 /\ c.selected \in seen

Report(c, seen) ==
  /\ c.outcome = "switched" => c.puts = 1 /\ c.selected \in seen
  /\ c.outcome = "current" => c.puts = 0 /\ c.selected \in seen
  /\ c.outcome = "refused" => c.puts = 0

Honest(c, seen) == IF c.todo = <<>> THEN Report(c, seen) ELSE Progress(c, seen)

SwitchInv ==
  \A p \in Procs : /\ Shape(cmd[p]) /\ Honest(cmd[p], since[p])
                   /\ Running(p) => ctx \in since[p]

\* A cookie that ServiceNow accepts was issued.
LiveIssued == live \subseteq 1 .. issued

\* As long as nothing disturbed the sessions: one command runs at a time, it
\* uses the stored session or leaves it alone, and what it is about to store is a
\* session that ServiceNow accepts.
Undisturbed ==
  ~disturbed =>
    /\ stored # 0 => stored \in live
    /\ \A p, q \in Procs : Running(p) /\ Running(q) => p = q
    /\ \A p \in Procs : Running(p) =>
         /\ ProfileBound(p) => cmd[p].jar = stored /\ stored # 0
         /\ ~ProfileBound(p) => cmd[p].jar # stored \/ stored = 0
         /\ Next_(p) = "persist" /\ cmd[p].op # "forget" => cmd[p].jar \in live

IInv == TypeOK /\ SwitchInv /\ LiveIssued /\ Undisturbed

----------------------------------------------------------------------------
(* Commands                                                                  *)

LEMMA TailFacts ==
  ASSUME NEW s \in Seq(Request), s # <<>>
  PROVE  /\ Tail(s) \in Seq(Request) /\ Head(s) = s[1] /\ s[1] \in Request
         /\ 1 \in DOMAIN s
         /\ \A k \in DOMAIN Tail(s) : k + 1 \in DOMAIN s /\ Tail(s)[k] = s[k + 1] /\ k \in Nat \ {0}
<1> HIDE DEF Request
<1> QED OBVIOUS

LEMMA InspectionFacts ==
  /\ Inspection \in Seq(Request) /\ Len(Inspection) = 4
  /\ Inspection[1] = "bootstrap" /\ Inspection[2] = "user"
  /\ Inspection[3] = "pickers" /\ Inspection[4] = "home"
BY DEF Inspection, Request

LEMMA ConcatFacts ==
  ASSUME NEW a \in Seq(Request), NEW b \in Seq(Request)
  PROVE  /\ a \o b \in Seq(Request) /\ Len(a \o b) = Len(a) + Len(b)
         /\ DOMAIN (a \o b) = 1 .. Len(a) + Len(b)
         /\ \A k \in 1 .. Len(a) + Len(b) : (a \o b)[k] = IF k <= Len(a) THEN a[k] ELSE b[k - Len(a)]
<1> HIDE DEF Request
<1>1. a \o b \in Seq(Request)
  BY ConcatProperties
<1> QED BY <1>1, ConcatProperties, LenProperties

\* An inspection and what follows it.
LEMMA InspectThen ==
  ASSUME NEW s \in Seq(Request)
  PROVE  LET t == Inspection \o s IN
         /\ t \in Seq(Request) /\ t # <<>> /\ t[1] = "bootstrap"
         /\ \A k \in DOMAIN t :
              /\ k \in Nat \ {0}
              /\ (k <= 4 => t[k] \in Inspects) /\ (k > 4 => k - 4 \in DOMAIN s /\ t[k] = s[k - 4])
<1> DEFINE t == Inspection \o s
<1>0. /\ t \in Seq(Request) /\ DOMAIN t = 1 .. Len(Inspection) + Len(s)
      /\ \A k \in 1 .. Len(Inspection) + Len(s) :
           t[k] = IF k <= Len(Inspection) THEN Inspection[k] ELSE s[k - Len(Inspection)]
  BY InspectionFacts, ConcatFacts, Zenon
<1> HIDE DEF t
<1>1. /\ t \in Seq(Request) /\ DOMAIN t = 1 .. 4 + Len(s)
      /\ \A k \in 1 .. 4 + Len(s) : t[k] = IF k <= 4 THEN Inspection[k] ELSE s[k - 4]
  BY <1>0, InspectionFacts
<1>2. Len(s) \in Nat /\ DOMAIN s = 1 .. Len(s)
  BY LenProperties
<1>3. \A k \in 1 .. 4 : Inspection[k] \in Inspects
  BY InspectionFacts DEF Inspects
<1>4. t # <<>> /\ t[1] = "bootstrap"
  BY <1>1, <1>2, InspectionFacts
<1>5. ASSUME NEW k \in DOMAIN t
      PROVE  /\ k \in Nat \ {0}
             /\ (k <= 4 => t[k] \in Inspects) /\ (k > 4 => k - 4 \in DOMAIN s /\ t[k] = s[k - 4])
  <2>1. k \in 1 .. 4 + Len(s) /\ k \in Nat \ {0}
    BY <1>1, <1>2
  <2>2. CASE k <= 4
    BY <1>1, <1>3, <2>1, <2>2
  <2>3. CASE k > 4
    BY <1>1, <1>2, <2>1, <2>3
  <2> QED BY <2>1, <2>2, <2>3
<1> QED BY <1>1, <1>4, <1>5 DEF t

\* Every plan is a list of requests, and is one for Shape.
LEMMA PlanFacts ==
  ASSUME NEW op \in AllOperations
  PROVE  /\ Plan(op) \in Seq(Request) /\ Plan(op) # <<>>
         /\ \A k \in DOMAIN Plan(op) :
              /\ Plan(op)[k] # "put"
              /\ Plan(op)[k] = "persist" => op \in {"login", "attach", "forget"}
              /\ Plan(op)[k] = "login" => op \in {"login", "basic"}
              /\ k > 1 /\ Plan(op)[k] = "persist" => Plan(op)[k - 1] # "login"
         /\ Plan(op)[1] = "persist" => op = "forget"
<1>1. CASE op = "switch"
  <2>1. Plan(op) = Inspection \o <<"bootstrap", "options">>
    BY <1>1 DEF Plan
  <2> DEFINE s == <<"bootstrap", "options">>
  <2>2. s \in Seq(Request)
    BY DEF Request
  <2>3. (\A k \in DOMAIN s : s[k] \in {"bootstrap", "options"}) /\ Plan(op) = Inspection \o s
    BY <2>1
  <2> HIDE DEF s
  <2>4. \A k \in DOMAIN Plan(op) : Plan(op)[k] \in Inspects \cup {"bootstrap", "options"}
    BY <2>2, <2>3, InspectThen
  <2>5. Plan(op) \in Seq(Request) /\ Plan(op) # <<>> /\ Plan(op)[1] = "bootstrap"
    BY <2>2, <2>3, InspectThen
  <2> QED BY <2>4, <2>5 DEF Inspects
<1>2. CASE op = "attach"
  <2>1. Plan(op) = Inspection \o <<"persist">>
    BY <1>2 DEF Plan
  <2> DEFINE s == <<"persist">>
  <2>2. s \in Seq(Request)
    BY DEF Request
  <2>3. DOMAIN s = {1} /\ s[1] = "persist" /\ Plan(op) = Inspection \o s
    BY <2>1
  <2> HIDE DEF s
  <2>4. ASSUME NEW k \in DOMAIN Plan(op)
        PROVE  Plan(op)[k] \notin {"put", "login"} /\ (k > 1 /\ Plan(op)[k] = "persist" => Plan(op)[k - 1] # "login")
    <3>1. k \in Nat \ {0} /\ ((k <= 4 /\ Plan(op)[k] \in Inspects) \/ (k = 5 /\ Plan(op)[k] = "persist"))
      <4>2. /\ k \in Nat \ {0}
            /\ (k <= 4 => Plan(op)[k] \in Inspects) /\ (k > 4 => k - 4 \in DOMAIN s /\ Plan(op)[k] = s[k - 4])
        BY <2>3, <2>2, InspectThen
      <4>3. CASE k <= 4
        BY <4>2, <4>3
      <4>4. CASE k > 4
        <5>1. k - 4 = 1 /\ Plan(op)[k] = "persist"
          BY <2>3, <4>2, <4>4
        <5> QED BY <4>2, <5>1
      <4> QED BY <4>2, <4>3, <4>4
    <3>2. k = 5 => Plan(op)[4] = "home"
      <4>1. 4 \in 1 .. Len(Inspection) + Len(s) /\ 4 <= Len(Inspection)
        BY <2>2, InspectionFacts, LenProperties
      <4>2. Plan(op)[4] = Inspection[4]
        BY <2>2, <2>3, <4>1, InspectionFacts, ConcatFacts, Zenon
      <4> QED BY <4>2, InspectionFacts
    <3> QED BY <3>1, <3>2 DEF Inspects
  <2>5. Plan(op) \in Seq(Request) /\ Plan(op) # <<>> /\ Plan(op)[1] = "bootstrap"
    BY <2>2, <2>3, InspectThen
  <2> QED BY <1>2, <2>4, <2>5
<1>3. CASE op = "show"
  <2>1. Plan(op) = Inspection
    BY <1>3 DEF Plan
  <2>2. DOMAIN Inspection = 1 .. 4
    BY InspectionFacts
  <2>3. \A k \in 1 .. 4 : Inspection[k] \in Inspects
    BY InspectionFacts DEF Inspects
  <2>4. Plan(op) # <<>>
    BY <2>1, InspectionFacts
  <2>5. \A k \in DOMAIN Plan(op) : Plan(op)[k] \in Inspects
    BY <2>1, <2>2, <2>3
  <2> QED BY <2>1, <2>4, <2>5, InspectionFacts DEF Inspects
<1>4. CASE op = "options"
  <2>1. Plan(op) = <<"bootstrap", "options">>
    BY <1>4 DEF Plan
  <2> QED BY <2>1 DEF Request
<1>5. CASE op \in {"form", "basic"}
  <2>1. Plan(op) = <<"form", "submit">>
    BY <1>5 DEF Plan
  <2> QED BY <2>1 DEF Request
<1>6. CASE op = "login"
  <2>1. Plan(op) = <<"login", "bootstrap", "user", "persist">>
    BY <1>6 DEF Plan
  <2> QED BY <1>6, <2>1 DEF Request
<1>7. CASE op = "forget"
  <2>1. Plan(op) = <<"persist">>
    BY <1>7 DEF Plan
  <2> DEFINE s == <<"persist">>
  <2>2. s \in Seq(Request) /\ s # <<>> /\ DOMAIN s = {1} /\ s[1] = "persist" /\ Plan(op) = s
    BY <2>1 DEF Request
  <2> HIDE DEF s
  <2> QED BY <1>7, <2>2
<1> QED BY <1>1, <1>2, <1>3, <1>4, <1>5, <1>6, <1>7 DEF AllOperations

LEMMA SwitchPlanFacts ==
  /\ SwitchPlan \in Seq(Request) /\ SwitchPlan # <<>> /\ SwitchPlan[1] = "put"
  /\ \A k \in DOMAIN SwitchPlan :
       /\ SwitchPlan[k] \notin {"persist", "login"}
       /\ k > 1 => SwitchPlan[k] \in Inspects
       /\ SwitchPlan[k] = "put" => k = 1
<1> DEFINE s == <<"put">>
<1>0. s \in Seq(Request) /\ Len(s) = 1 /\ s[1] = "put" /\ SwitchPlan = s \o Inspection
  BY DEF Request, SwitchPlan
<1> HIDE DEF s
<1>1. /\ SwitchPlan \in Seq(Request) /\ DOMAIN SwitchPlan = 1 .. Len(s) + Len(Inspection)
      /\ \A k \in 1 .. Len(s) + Len(Inspection) :
           SwitchPlan[k] = IF k <= Len(s) THEN s[k] ELSE Inspection[k - Len(s)]
  BY <1>0, InspectionFacts, ConcatFacts, Zenon
<1>2. /\ SwitchPlan \in Seq(Request) /\ DOMAIN SwitchPlan = 1 .. 5
      /\ \A k \in 1 .. 5 : SwitchPlan[k] = IF k = 1 THEN "put" ELSE Inspection[k - 1]
  BY <1>0, <1>1, InspectionFacts
<1>3. \A k \in 1 .. 4 : Inspection[k] \in Inspects
  BY InspectionFacts DEF Inspects
<1>5. \A k \in 1 .. 5 : (k = 1 /\ SwitchPlan[k] = "put") \/ (k > 1 /\ SwitchPlan[k] \in Inspects)
  BY <1>2, <1>3
<1>6. SwitchPlan # <<>>
  BY <1>2
<1> QED BY <1>2, <1>5, <1>6 DEF Inspects

\* What is left after a request was answered.
LEMMA TailKeepsShape ==
  ASSUME NEW c \in Command, NEW d \in Command, Shape(c), c.todo # <<>>,
         d.todo = Tail(c.todo), d.op = c.op, d.selected = c.selected,
         d.puts = c.puts \/ (c.todo[1] = "put" /\ d.puts = 1)
  PROVE  Shape(d)
<1>1. c.todo \in Seq(Request)
  BY DEF Command
<1>2. /\ 1 \in DOMAIN c.todo
      /\ \A k \in DOMAIN d.todo : k + 1 \in DOMAIN c.todo /\ d.todo[k] = c.todo[k + 1] /\ k \in Nat \ {0}
  BY <1>1, TailFacts
<1>3. d.puts <= 1 /\ (d.puts = 1 => d.selected \in Ids)
  BY <1>2 DEF Shape
<1>4. ASSUME NEW k \in DOMAIN d.todo
      PROVE  /\ d.todo[k] \notin Inspects => d.puts = 0
             /\ k > 1 /\ d.todo[1] = "put" => d.todo[k] \in Inspects
             /\ d.todo[k] = "put" => k = 1 /\ d.selected \in Ids
             /\ d.todo[k] = "persist" => d.op \in {"login", "attach", "forget"}
             /\ d.todo[k] = "login" => d.op \in {"login", "basic"}
             /\ k > 1 /\ d.todo[k] = "persist" => d.todo[k - 1] # "login"
  <2>1. k \in Nat \ {0} /\ k + 1 \in DOMAIN c.todo /\ d.todo[k] = c.todo[k + 1]
    BY <1>2
  <2>2. d.todo[k] # "put"
    BY <2>1 DEF Shape
  <2>3. d.todo[k] \notin Inspects => d.puts = 0
    BY <1>2, <2>1 DEF Shape
  <2>4. ASSUME k > 1 PROVE d.todo[1] # "put" /\ (d.todo[k] = "persist" => d.todo[k - 1] # "login")
    <3>1. k - 1 \in DOMAIN d.todo /\ 1 \in DOMAIN d.todo
      <4>1. d.todo \in Seq(Request)
        BY DEF Command
      <4> HIDE DEF Request
      <4> QED BY <2>1, <2>4, <4>1
    <3>2. d.todo[k - 1] = c.todo[k] /\ d.todo[1] = c.todo[2]
      BY <1>2, <3>1, <2>1
    <3>3. 2 \in DOMAIN c.todo
      BY <1>2, <3>1
    <3> QED BY <2>1, <2>4, <3>2, <3>3 DEF Shape
  <2> QED BY <2>1, <2>2, <2>3, <2>4 DEF Shape
<1> QED BY <1>3, <1>4 DEF Shape

LEMMA EndKeepsShape ==
  ASSUME NEW d, d.todo = <<>>, d.puts <= 1, d.puts = 1 => d.selected \in Ids
  PROVE  Shape(d)
BY DEF Shape

\* What a switch has seen stays seen.
LEMMA HonestGrows ==
  ASSUME NEW c, NEW S, NEW T, Honest(c, S), S \subseteq T
  PROVE  Honest(c, T)
BY DEF Honest, Report, Progress

\* A step that changes one command.
LEMMA OneCommand ==
  ASSUME TypeOK, SwitchInv, NEW p \in Procs, NEW c,
         cmd' = [cmd EXCEPT ![p] = c],
         Shape(c), Honest(c, since'[p]), c.todo # <<>> => ctx' \in since'[p],
         \A q \in Procs \ {p} : since[q] \subseteq since'[q] /\ (ctx' = ctx \/ ctx' \in since'[q])
  PROVE  SwitchInv'
<1> SUFFICES ASSUME NEW q \in Procs
             PROVE  /\ Shape(cmd'[q]) /\ Honest(cmd'[q], since'[q])
                    /\ cmd'[q].todo # <<>> => ctx' \in since'[q]
  BY DEF SwitchInv, Running
<1>1. CASE q = p
  BY <1>1 DEF TypeOK
<1>2. CASE q # p
  <2>1. cmd'[q] = cmd[q]
    BY <1>2 DEF TypeOK
  <2>2. Shape(cmd[q]) /\ Honest(cmd[q], since[q]) /\ (cmd[q].todo # <<>> => ctx \in since[q])
    BY DEF SwitchInv, Running
  <2> HIDE DEF Shape
  <2> QED BY <1>2, <2>1, <2>2, HonestGrows
<1> QED BY <1>1, <1>2

\* What ends a command, and what a request leaves of it.
LEMMA EndIs ==
  ASSUME TypeOK, NEW p \in Procs, NEW jar \in Jar, NEW outcome \in Outcome, End(p, jar, outcome)
  PROVE  LET c == cmd'[p] IN
         /\ c \in Command /\ cmd' = [cmd EXCEPT ![p] = c]
         /\ c.todo = <<>> /\ c.jar = jar /\ c.outcome = outcome
         /\ c.op = cmd[p].op /\ c.puts = cmd[p].puts /\ c.selected = cmd[p].selected
<1>1. cmd[p] \in Command
  BY DEF TypeOK
<1>2. <<>> \in Seq(Request)
  OBVIOUS
<1>3. cmd' = [cmd EXCEPT ![p] = [cmd[p] EXCEPT !.jar = jar, !.todo = <<>>, !.outcome = outcome]]
  BY DEF End, TypeOK
<1> QED BY <1>1, <1>2, <1>3 DEF TypeOK, Command

LEMMA ContinueIs ==
  ASSUME TypeOK, NEW p \in Procs, NEW jar \in Jar, NEW todo \in Seq(Request), Continue(p, jar, todo)
  PROVE  LET c == cmd'[p] IN
         /\ c \in Command /\ cmd' = [cmd EXCEPT ![p] = c]
         /\ c.todo = todo /\ c.jar = jar /\ c.outcome = cmd[p].outcome /\ c.before = cmd[p].before
         /\ c.op = cmd[p].op /\ c.puts = cmd[p].puts /\ c.selected = cmd[p].selected
<1>1. cmd[p] \in Command
  BY DEF TypeOK
<1>3. cmd' = [cmd EXCEPT ![p] = [cmd[p] EXCEPT !.jar = jar, !.todo = todo]]
  BY DEF Continue, TypeOK
<1> QED BY <1>1, <1>3 DEF TypeOK, Command

\* A step that changes the command of p, to a sound one.
Sound(p, jar) ==
  LET c == cmd'[p] IN
  /\ c \in Command /\ cmd' = [cmd EXCEPT ![p] = c]
  /\ c.op = cmd[p].op /\ c.jar = jar
  /\ Shape(c) /\ Honest(c, since[p])

LEMMA EndSound ==
  ASSUME TypeOK, SwitchInv, NEW p \in Procs, Running(p), NEW jar \in Jar, NEW outcome \in Outcome,
         End(p, jar, outcome),
         outcome = "refused" => cmd[p].puts = 0,
         outcome = "current" => FALSE,
         outcome = "switched" => cmd[p].outcome = "switched"
  PROVE  Sound(p, jar)
<1>1. Shape(cmd[p]) /\ Progress(cmd[p], since[p])
  BY DEF SwitchInv, Running, Honest
<1>2. Shape(cmd'[p])
  BY <1>1, EndIs, EndKeepsShape DEF Shape
<1>3. Report(cmd'[p], since[p])
  BY <1>1, EndIs DEF Report, Progress
<1> QED BY <1>2, <1>3, EndIs DEF Sound, Honest

LEMMA AdvanceSound ==
  ASSUME TypeOK, SwitchInv, NEW p \in Procs, Running(p), NEW jar \in Jar, Advance(p, jar),
         cmd[p].todo[1] # "put"
  PROVE  Sound(p, jar)
<1>1. Shape(cmd[p]) /\ Progress(cmd[p], since[p]) /\ cmd[p] \in Command /\ cmd[p].todo \in Seq(Request)
  BY DEF SwitchInv, Running, Honest, TypeOK, Command
<1>2. CASE End(p, jar, "ok")
  BY <1>2, EndSound DEF Outcome
<1>3. CASE Continue(p, jar, Tail(cmd[p].todo)) /\ Len(cmd[p].todo) # 1
  <2>1. Tail(cmd[p].todo) \in Seq(Request)
    BY <1>1, TailFacts DEF Running
  <2> DEFINE c == cmd'[p]
  <2>0. /\ c \in Command /\ c.todo = Tail(cmd[p].todo) /\ c.op = cmd[p].op
        /\ c.puts = cmd[p].puts /\ c.selected = cmd[p].selected
    BY <1>3, <2>1, ContinueIs
  <2> HIDE DEF c
  <2>2. Shape(c)
    BY <1>1, <2>0, TailKeepsShape DEF Running
  <2>3. Progress(cmd'[p], since[p])
    BY <1>1, <1>3, <2>1, ContinueIs DEF Progress
  <2>4. cmd'[p].todo # <<>>
    <3>1. Len(Tail(cmd[p].todo)) = Len(cmd[p].todo) - 1 /\ Len(cmd[p].todo) \in Nat \ {0}
      BY <1>1, HeadTailProperties, EmptySeq DEF Running
    <3>2. Tail(cmd[p].todo) # <<>>
      <4>1. Len(Tail(cmd[p].todo)) # 0
        BY <1>3, <3>1
      <4> QED BY <4>1, EmptySeq
    <3> QED BY <2>0, <3>2 DEF c
  <2> QED BY <1>3, <2>1, <2>2, <2>3, <2>4, ContinueIs DEF Sound, Honest, c
<1> QED BY <1>2, <1>3 DEF Advance

\* A failure that the command reports as an ordinary one comes before its PUT.
LEMMA FailedSound ==
  ASSUME TypeOK, SwitchInv, NEW p \in Procs, Running(p), NEW jar \in Jar, End(p, jar, Failed(p))
  PROVE  Sound(p, jar)
<1>1. Failed(p) \in Outcome \ {"current", "switched"}
  BY DEF Failed, Outcome
<1>2. cmd[p].puts \in 0 .. 2
  BY DEF TypeOK, Command
<1>3. Failed(p) = "refused" => cmd[p].puts = 0
  BY <1>2 DEF Failed
<1> QED BY <1>1, <1>3, EndSound

\* Every answer that does not move the session leaves a sound command.
LEMMA AnswerSound ==
  ASSUME TypeOK, SwitchInv, NEW p \in Procs, Running(p), NEW jar \in Jar,
         \/ PageAnswered(p, jar) \/ PickersAnswered(p, jar)
         \/ HomeAnswered(p, jar) \/ OptionsAnswered(p, jar)
  PROVE  Sound(p, jar)
<1>0. /\ cmd[p] \in Command /\ cmd[p].todo \in Seq(Request) /\ cmd[p].todo # <<>>
      /\ Next_(p) = cmd[p].todo[1] /\ 1 \in DOMAIN cmd[p].todo
      /\ Tail(cmd[p].todo) \in Seq(Request)
      /\ Shape(cmd[p]) /\ Progress(cmd[p], since[p]) /\ ctx \in since[p] /\ ctx \in Ids
  BY TailFacts DEF TypeOK, Command, Running, Next_, SwitchInv, Honest
<1>1. CASE PageAnswered(p, jar)
  BY <1>0, <1>1, AdvanceSound, FailedSound DEF PageAnswered
<1>2. CASE PickersAnswered(p, jar)
  <2>1. CASE End(p, jar, Failed(p))
    BY <2>1, FailedSound
  <2>2. CASE Advance(p, jar)
    BY <1>0, <1>2, <2>2, AdvanceSound DEF PickersAnswered
  <2>3. ASSUME NEW seen \in {ctx, None}, cmd[p].puts = 0,
               cmd' = [cmd EXCEPT ![p].jar = jar, ![p].before = seen, ![p].todo = Tail(cmd[p].todo)]
        PROVE  Sound(p, jar)
    <3> DEFINE c == cmd'[p]
    <3>1. cmd' = [cmd EXCEPT ![p] = [cmd[p] EXCEPT !.jar = jar, !.before = seen, !.todo = Tail(cmd[p].todo)]]
      BY <2>3 DEF TypeOK
    <3>2. /\ c \in Command /\ cmd' = [cmd EXCEPT ![p] = c] /\ c.jar = jar /\ c.before = seen
          /\ c.todo = Tail(cmd[p].todo) /\ c.op = cmd[p].op /\ c.puts = cmd[p].puts
          /\ c.selected = cmd[p].selected /\ c.outcome = cmd[p].outcome
      BY <1>0, <3>1 DEF TypeOK, Command
    <3> HIDE DEF c
    <3>3. Shape(c)
      BY <1>0, <3>2, TailKeepsShape
    <3>4. Progress(c, since[p]) /\ Report(c, since[p])
      BY <1>0, <2>3, <3>2 DEF Progress, Report
    <3> QED BY <3>2, <3>3, <3>4 DEF Sound, Honest, c
  <2>4. ASSUME NEW seen \in {ctx, None}, cmd[p].puts # 0,
               cmd' = [cmd EXCEPT ![p].jar = jar, ![p].todo = Tail(cmd[p].todo),
                                  ![p].outcome = IF Verified(p, seen) THEN "switched" ELSE "uncertain"]
        PROVE  Sound(p, jar)
    <3> DEFINE c == cmd'[p]
    <3>1. cmd' = [cmd EXCEPT ![p] = [cmd[p] EXCEPT !.jar = jar, !.todo = Tail(cmd[p].todo),
                                        !.outcome = IF Verified(p, seen) THEN "switched" ELSE "uncertain"]]
      BY <2>4 DEF TypeOK
    <3>2. /\ c \in Command /\ cmd' = [cmd EXCEPT ![p] = c] /\ c.jar = jar
          /\ c.todo = Tail(cmd[p].todo) /\ c.op = cmd[p].op /\ c.puts = cmd[p].puts
          /\ c.selected = cmd[p].selected
          /\ c.outcome = IF Verified(p, seen) THEN "switched" ELSE "uncertain"
      BY <1>0, <3>1 DEF TypeOK, Command, Outcome
    <3> HIDE DEF c
    <3>3. Shape(c)
      BY <1>0, <3>2, TailKeepsShape
    <3>4. c.puts = 1 /\ c.selected \in Ids
      BY <1>0, <2>4, <3>2 DEF Shape, Command
    <3>5. c.outcome = "switched" => c.selected \in since[p]
      BY <1>0, <3>2, <3>4, NoneAssumption DEF Verified
    <3>6. c.outcome \in {"switched", "uncertain"}
      BY <3>2
    <3> QED BY <3>2, <3>3, <3>4, <3>5, <3>6 DEF Sound, Honest, Progress, Report, c
  <2> QED BY <1>2, <2>1, <2>2, <2>3, <2>4 DEF PickersAnswered
<1>3. CASE HomeAnswered(p, jar)
  <2>1. CASE cmd[p].puts > 0 /\ End(p, jar, cmd[p].outcome)
    BY <1>0, <2>1, EndSound DEF Progress, Outcome
  <2>2. CASE End(p, jar, "refused") /\ cmd[p].puts = 0
    BY <2>2, EndSound DEF Outcome
  <2> QED BY <1>0, <1>3, <2>1, <2>2, AdvanceSound, FailedSound DEF HomeAnswered
<1>4. CASE OptionsAnswered(p, jar)
  <2>0. cmd[p].todo[1] = "options" /\ cmd[p].puts = 0
    BY <1>0, <1>4 DEF OptionsAnswered, Shape, Inspects
  <2>1. ASSUME NEW options \in SUBSET Ids, Choose(p, jar, options)
        PROVE  Sound(p, jar)
    <3>1. CASE End(p, jar, "refused")
      BY <2>0, <3>1, EndSound DEF Outcome
    <3>2. ASSUME NEW i \in Ids,
                 cmd' = [cmd EXCEPT ![p].jar = jar, ![p].selected = i,
                                    ![p].todo = IF cmd[p].before = i THEN <<>> ELSE SwitchPlan,
                                    ![p].outcome = IF cmd[p].before = i THEN "current" ELSE "none"]
          PROVE  Sound(p, jar)
      <4> DEFINE c == cmd'[p]
                 todo == IF cmd[p].before = i THEN <<>> ELSE SwitchPlan
                 outcome == IF cmd[p].before = i THEN "current" ELSE "none"
      <4>1. todo \in Seq(Request) /\ outcome \in Outcome
        BY SwitchPlanFacts DEF Outcome
      <4>2. cmd' = [cmd EXCEPT ![p] = [cmd[p] EXCEPT !.jar = jar, !.selected = i, !.todo = todo,
                                                     !.outcome = outcome]]
        BY <3>2 DEF TypeOK
      <4> HIDE DEF todo, outcome
      <4>3. /\ c \in Command /\ cmd' = [cmd EXCEPT ![p] = c] /\ c.jar = jar /\ c.selected = i
            /\ c.todo = todo /\ c.op = cmd[p].op /\ c.puts = 0 /\ c.outcome = outcome
            /\ c.before = cmd[p].before
        BY <1>0, <2>0, <4>1, <4>2 DEF TypeOK, Command
      <4> HIDE DEF c
      <4>4. cmd[p].before \in since[p] \cup {None}
        BY <1>0, <2>0 DEF Progress
      <4>5. CASE cmd[p].before = i
        <5>1. todo = <<>> /\ outcome = "current" /\ i \in since[p]
          BY <4>4, <4>5, NoneAssumption DEF todo, outcome
        <5>2. Shape(c) /\ Report(c, since[p])
          BY <4>3, <5>1, EndKeepsShape DEF Report
        <5> QED BY <4>3, <5>1, <5>2 DEF Sound, Honest, c
      <4>6. CASE cmd[p].before # i
        <5>1. todo = SwitchPlan /\ outcome = "none"
          BY <4>6 DEF todo, outcome
        <5>2. Shape(c)
          BY <4>3, <5>1, SwitchPlanFacts DEF Shape
        <5>3. Progress(c, since[p]) /\ c.todo # <<>>
          BY <4>3, <4>4, <5>1, SwitchPlanFacts DEF Progress
        <5> QED BY <4>3, <5>1, <5>2, <5>3 DEF Sound, Honest, c
      <4> QED BY <4>5, <4>6
    <3> QED BY <2>1, <3>1, <3>2 DEF Choose
  <2> QED BY <1>0, <1>4, <2>0, <2>1, AdvanceSound, FailedSound DEF OptionsAnswered
<1> QED BY <1>1, <1>2, <1>3, <1>4

----------------------------------------------------------------------------
(* Steps                                                                     *)

\* ServiceNow accepts the cookie of the answer, and no other one is ended.
LEMMA Rotation ==
  ASSUME TypeOK, LiveIssued, NEW p \in Procs, Authenticated(p),
         NEW jar \in Rotated(p), Accept(p, jar)
  PROVE  /\ jar \in Jar /\ jar # 0 /\ jar \in live' /\ live' \subseteq 1 .. MaxCookies
         /\ issued' \in 0 .. MaxCookies /\ LiveIssued'
         /\ live \ {cmd[p].jar} \subseteq live' /\ (jar # cmd[p].jar => jar \notin live)
<1>1. /\ issued \in 0 .. MaxCookies /\ live \subseteq 1 .. issued /\ cmd[p].jar \in live
      /\ MaxCookies \in Nat \ {0}
  BY NativeBounds DEF TypeOK, LiveIssued, Authenticated
<1>2. CASE jar = cmd[p].jar
  <2>1. live' = live /\ issued' = issued
    BY <1>2 DEF Accept
  <2>2. jar \in 1 .. MaxCookies /\ jar \in Jar /\ jar # 0
    <3>1. jar \in 1 .. issued
      BY <1>1, <1>2
    <3> QED BY <1>1, <3>1 DEF Jar, Guest
  <2>3. live' \subseteq 1 .. issued' /\ live' \subseteq 1 .. MaxCookies
    BY <1>1, <2>1 DEF TypeOK
  <2> QED BY <1>1, <1>2, <2>1, <2>2, <2>3 DEF LiveIssued
<1>3. CASE jar # cmd[p].jar
  <2>1. jar = issued + 1 /\ issued < MaxCookies
    BY <1>1, <1>3 DEF Rotated
  <2>2. live' = (live \ {cmd[p].jar}) \cup {jar} /\ issued' = issued + 1
    BY <1>3, <2>1 DEF Accept
  <2>3. jar \in 1 .. MaxCookies /\ jar \in Jar /\ jar # 0 /\ jar \notin live /\ issued' \in 0 .. MaxCookies
    BY <1>1, <2>1, <2>2 DEF Jar, Guest
  <2>4. live' \subseteq 1 .. issued'
    <3>1. ASSUME NEW x \in live' PROVE x \in 1 .. issued'
      <4>1. x \in 1 .. issued \/ x = issued + 1
        BY <1>1, <2>1, <2>2
      <4> QED BY <1>1, <2>2, <4>1
    <3> QED BY <3>1
  <2>5. live' \subseteq 1 .. MaxCookies
    BY <2>3, <2>2 DEF TypeOK
  <2> QED BY <1>3, <2>2, <2>3, <2>4, <2>5 DEF LiveIssued
<1> QED BY <1>2, <1>3

\* A fresh session.
LEMMA Issue ==
  ASSUME TypeOK, LiveIssued, issued < MaxCookies, issued' = issued + 1, live' = live \cup {issued'}
  PROVE  /\ issued' \in Jar /\ issued' \in live' /\ live' \subseteq 1 .. MaxCookies
         /\ issued' \in 0 .. MaxCookies /\ LiveIssued' /\ issued' \notin live /\ issued' # 0
BY NativeBounds DEF TypeOK, LiveIssued, Jar, Guest

LEMMA ObserveStored ==
  ASSUME TypeOK, NEW p \in Procs, NEW jar \in Jar, NEW newToken \in BOOLEAN, Observe(p, jar, newToken)
  PROVE  stored' \in Jar
BY DEF Observe, TypeOK

\* The first requests of what is left.
LEMMA RunningFacts ==
  ASSUME TypeOK, SwitchInv, NEW p \in Procs, Running(p)
  PROVE  /\ cmd[p] \in Command /\ cmd[p].todo \in Seq(Request) /\ cmd[p].todo # <<>>
         /\ Next_(p) = cmd[p].todo[1] /\ 1 \in DOMAIN cmd[p].todo
         /\ Tail(cmd[p].todo) \in Seq(Request)
         /\ Shape(cmd[p]) /\ Progress(cmd[p], since[p]) /\ ctx \in since[p] /\ ctx \in Ids
         /\ (Next_(p) \notin Inspects => cmd[p].puts = 0)
<1>1. /\ cmd[p] \in Command /\ cmd[p].todo \in Seq(Request) /\ cmd[p].todo # <<>>
      /\ Shape(cmd[p]) /\ Progress(cmd[p], since[p]) /\ ctx \in since[p] /\ ctx \in Ids
  BY DEF TypeOK, Command, Running, SwitchInv, Honest
<1>2. /\ Next_(p) = cmd[p].todo[1] /\ 1 \in DOMAIN cmd[p].todo /\ Tail(cmd[p].todo) \in Seq(Request)
  BY <1>1, TailFacts DEF Next_
<1>3. Next_(p) \notin Inspects => cmd[p].puts = 0
  BY <1>1, <1>2 DEF Shape
<1> QED BY <1>1, <1>2, <1>3

\* A sound command, while what others have seen stays seen.
LEMMA SoundStep ==
  ASSUME TypeOK, SwitchInv, NEW p \in Procs, Running(p), NEW jar \in Jar, Sound(p, jar),
         \A q \in Procs : since[q] \subseteq since'[q] /\ (ctx' = ctx \/ ctx' \in since'[q])
  PROVE  SwitchInv' /\ cmd' \in [Procs -> Command]
<1>1. cmd' \in [Procs -> Command]
  BY DEF Sound, TypeOK
<1>2. ctx' \in since'[p]
  BY RunningFacts
<1>3. Honest(cmd'[p], since'[p])
  BY HonestGrows DEF Sound
<1> QED BY <1>1, <1>2, <1>3, OneCommand DEF Sound

\* The answers to everything but a PUT.
LEMMA AnsweredKeeps ==
  ASSUME IInv, NEW p \in Procs, Answered(p)
  PROVE  TypeOK' /\ SwitchInv' /\ LiveIssued'
<1>1. PICK jar \in Rotated(p), newToken \in BOOLEAN :
        /\ Accept(p, jar) /\ Observe(p, jar, newToken)
        /\ \/ PageAnswered(p, jar) \/ PickersAnswered(p, jar)
           \/ HomeAnswered(p, jar) \/ OptionsAnswered(p, jar)
  BY DEF Answered
<1>2. Running(p) /\ Authenticated(p) /\ UNCHANGED <<ctx, since, disturbed>> /\ TypeOK /\ SwitchInv /\ LiveIssued
  BY DEF Answered, IInv
<1>3. jar \in Jar /\ live' \subseteq 1 .. MaxCookies /\ issued' \in 0 .. MaxCookies /\ LiveIssued'
  BY <1>1, <1>2, Rotation
<1>4. Sound(p, jar)
  BY <1>1, <1>2, <1>3, AnswerSound
<1>5. SwitchInv' /\ cmd' \in [Procs -> Command]
  BY <1>2, <1>3, <1>4, SoundStep
<1>6. stored' \in Jar
  BY <1>1, <1>2, <1>3, ObserveStored
<1> QED BY <1>2, <1>3, <1>5, <1>6 DEF TypeOK

\* The PUT was sent.
Sent(p, jar, todo, outcome) ==
  cmd' = [cmd EXCEPT ![p] = [cmd[p] EXCEPT !.jar = jar, !.puts = 1, !.todo = todo, !.outcome = outcome]]

LEMMA PutIs ==
  ASSUME TypeOK, NEW p \in Procs, NEW jar \in Jar, NEW todo \in Seq(Request), NEW outcome \in Outcome,
         Sent(p, jar, todo, outcome)
  PROVE  LET c == cmd'[p] IN
         /\ c \in Command /\ cmd' = [cmd EXCEPT ![p] = c] /\ c.puts = 1 /\ c.todo = todo
         /\ c.outcome = outcome /\ c.op = cmd[p].op /\ c.selected = cmd[p].selected
<1> DEFINE c == cmd'[p]
<1>1. cmd[p] \in Command /\ 1 \in 0 .. 2
  BY DEF TypeOK
<1>2. c = [cmd[p] EXCEPT !.jar = jar, !.puts = 1, !.todo = todo, !.outcome = outcome]
  BY DEF TypeOK, Sent
<1>3. cmd' = [cmd EXCEPT ![p] = c]
  BY <1>2 DEF Sent
<1> HIDE DEF c
<1>4. c.puts = 1 /\ c.todo = todo /\ c.outcome = outcome /\ c.op = cmd[p].op /\ c.selected = cmd[p].selected
  BY <1>1, <1>2 DEF Command
<1>5. c \in Command
  BY <1>1, <1>2, Zenon DEF Command
<1> QED BY <1>3, <1>4, <1>5 DEF c

\* A PUT, answered or not: the contexts seen are those since then.
LEMMA PutSound ==
  ASSUME TypeOK, SwitchInv, NEW p \in Procs, Running(p), Next_(p) = "put", NEW jar \in Jar,
         NEW todo \in {<<>>, Tail(cmd[p].todo)},
         NEW outcome \in {"uncertain", cmd[p].outcome},
         Sent(p, jar, todo, outcome),
         ctx' \in {ctx, cmd[p].selected}, ctx' \in since'[p],
         \A q \in Procs \ {p} : since[q] \subseteq since'[q] /\ (ctx' = ctx \/ ctx' \in since'[q])
  PROVE  SwitchInv' /\ cmd' \in [Procs -> Command] /\ ctx' \in Ids
<1> DEFINE c == cmd'[p]
<1>1. /\ cmd[p] \in Command /\ cmd[p].todo \in Seq(Request) /\ cmd[p].todo # <<>>
      /\ cmd[p].todo[1] = "put" /\ 1 \in DOMAIN cmd[p].todo /\ Tail(cmd[p].todo) \in Seq(Request)
      /\ Shape(cmd[p]) /\ Progress(cmd[p], since[p]) /\ ctx \in Ids /\ cmd[p].puts = 0
  BY RunningFacts DEF Inspects
<1>2. /\ c \in Command /\ cmd' = [cmd EXCEPT ![p] = c] /\ c.puts = 1 /\ c.todo = todo
      /\ c.outcome = outcome /\ c.op = cmd[p].op /\ c.selected = cmd[p].selected
  <2>2. todo \in Seq(Request)
    <3>1. <<>> \in Seq(Request)
      OBVIOUS
    <3> QED BY <1>1, <3>1
  <2>3. outcome \in Outcome
    BY <1>1 DEF Command, Outcome
  <2> QED BY <2>2, <2>3, PutIs
<1> HIDE DEF c
<1>3. cmd[p].selected \in Ids
  BY <1>1 DEF Shape
<1>4. Shape(c)
  <2>1. CASE todo = <<>>
    BY <1>2, <1>3, <2>1, EndKeepsShape
  <2>2. CASE todo = Tail(cmd[p].todo)
    BY <1>1, <1>2, <2>2, TailKeepsShape
  <2> QED BY <2>1, <2>2
<1>5. outcome \in {"uncertain", "none"}
  BY <1>1 DEF Progress
<1>6. Honest(c, since'[p])
  BY <1>2, <1>5 DEF Honest, Report, Progress
<1>7. SwitchInv'
  BY <1>2, <1>4, <1>6, OneCommand
<1> QED BY <1>1, <1>2, <1>3, <1>7 DEF TypeOK

LEMMA PutKeeps ==
  ASSUME IInv, NEW p \in Procs, PutAnswered(p)
  PROVE  TypeOK' /\ SwitchInv' /\ LiveIssued'
<1>1. PICK jar \in Rotated(p), c \in {ctx, cmd[p].selected} :
        /\ Accept(p, jar) /\ Observe(p, jar, FALSE) /\ ctx' = c
        /\ since' = [q \in Procs |-> IF q = p THEN {c} ELSE since[q] \cup {c}]
        /\ \/ cmd' = [cmd EXCEPT ![p].jar = jar, ![p].puts = @ + 1, ![p].todo = Tail(cmd[p].todo)]
           \/ cmd' = [cmd EXCEPT ![p].jar = jar, ![p].puts = @ + 1, ![p].todo = <<>>,
                                 ![p].outcome = "uncertain"]
  BY DEF PutAnswered
<1>2. /\ Running(p) /\ Authenticated(p) /\ Next_(p) = "put" /\ UNCHANGED disturbed
      /\ TypeOK /\ SwitchInv /\ LiveIssued
  BY DEF PutAnswered, IInv
<1>3. jar \in Jar /\ live' \subseteq 1 .. MaxCookies /\ issued' \in 0 .. MaxCookies /\ LiveIssued'
  BY <1>1, <1>2, Rotation
<1>4. PICK todo \in {<<>>, Tail(cmd[p].todo)}, outcome \in {"uncertain", cmd[p].outcome} :
        Sent(p, jar, todo, outcome)
  <2>0. cmd[p] \in Command /\ cmd[p].puts = 0
    BY <1>2, RunningFacts DEF Inspects
  <2>1. CASE cmd' = [cmd EXCEPT ![p].jar = jar, ![p].puts = @ + 1, ![p].todo = Tail(cmd[p].todo)]
    <3>1. [cmd[p] EXCEPT !.jar = jar, !.puts = 1, !.todo = Tail(cmd[p].todo)] =
          [cmd[p] EXCEPT !.jar = jar, !.puts = 1, !.todo = Tail(cmd[p].todo), !.outcome = cmd[p].outcome]
      BY <2>0 DEF Command
    <3>2. cmd' = [cmd EXCEPT ![p] = [cmd[p] EXCEPT !.jar = jar, !.puts = 1, !.todo = Tail(cmd[p].todo)]]
      <4>1. cmd' = [cmd EXCEPT ![p] = [cmd[p] EXCEPT !.jar = jar, !.puts = @ + 1, !.todo = Tail(cmd[p].todo)]]
        BY <1>2, <2>1 DEF TypeOK
      <4> QED BY <2>0, <4>1
    <3>3. Sent(p, jar, Tail(cmd[p].todo), cmd[p].outcome)
      BY <3>1, <3>2 DEF Sent
    <3> QED BY <3>3
  <2>2. CASE cmd' = [cmd EXCEPT ![p].jar = jar, ![p].puts = @ + 1, ![p].todo = <<>>,
                                ![p].outcome = "uncertain"]
    <3>1. Sent(p, jar, <<>>, "uncertain")
      <4>1. cmd' = [cmd EXCEPT ![p] = [cmd[p] EXCEPT !.jar = jar, !.puts = @ + 1, !.todo = <<>>,
                                                     !.outcome = "uncertain"]]
        BY <1>2, <2>2 DEF TypeOK
      <4> QED BY <2>0, <4>1 DEF Sent
    <3> QED BY <3>1
  <2> QED BY <1>1, <2>1, <2>2
<1>5. SwitchInv' /\ cmd' \in [Procs -> Command] /\ ctx' \in Ids
  BY <1>1, <1>2, <1>3, <1>4, PutSound
<1>6. stored' \in Jar
  BY <1>1, <1>2, <1>3, ObserveStored
<1>7. since' \in [Procs -> SUBSET Ids]
  BY <1>1, <1>2, <1>5 DEF TypeOK
<1> QED BY <1>2, <1>3, <1>5, <1>6, <1>7 DEF TypeOK

\* What goes on with what is left.
LEMMA TailSound ==
  ASSUME TypeOK, SwitchInv, NEW p \in Procs, Running(p), NEW jar \in Jar,
         Continue(p, jar, Tail(cmd[p].todo)), Next_(p) # "put"
  PROVE  Sound(p, jar)
<1> DEFINE c == cmd'[p]
<1>1. /\ cmd[p] \in Command /\ cmd[p].todo # <<>> /\ cmd[p].todo[1] # "put" /\ Shape(cmd[p])
      /\ Progress(cmd[p], since[p]) /\ Tail(cmd[p].todo) \in Seq(Request)
  BY RunningFacts
<1>2. /\ c \in Command /\ cmd' = [cmd EXCEPT ![p] = c] /\ c.todo = Tail(cmd[p].todo) /\ c.jar = jar
      /\ c.outcome = cmd[p].outcome /\ c.before = cmd[p].before /\ c.op = cmd[p].op
      /\ c.puts = cmd[p].puts /\ c.selected = cmd[p].selected
  BY <1>1, ContinueIs
<1> HIDE DEF c
<1>3. Shape(c)
  BY <1>1, <1>2, TailKeepsShape
<1>4. Progress(c, since[p]) /\ Report(c, since[p])
  BY <1>1, <1>2 DEF Progress, Report
<1> QED BY <1>2, <1>3, <1>4 DEF Sound, Honest, c

\* A command that stops where it is.
LEMMA StopIsEnd ==
  ASSUME TypeOK, NEW p \in Procs, NEW outcome \in Outcome,
         cmd' = [cmd EXCEPT ![p].todo = <<>>, ![p].outcome = outcome]
  PROVE  End(p, cmd[p].jar, outcome) /\ cmd[p].jar \in Jar
<1>1. cmd[p] \in Command
  BY DEF TypeOK
<1>2. [cmd[p] EXCEPT !.todo = <<>>, !.outcome = outcome] =
      [cmd[p] EXCEPT !.jar = cmd[p].jar, !.todo = <<>>, !.outcome = outcome]
  BY <1>1 DEF Command
<1>3. cmd' = [cmd EXCEPT ![p] = [cmd[p] EXCEPT !.todo = <<>>, !.outcome = outcome]]
  BY DEF TypeOK
<1>4. cmd' = [cmd EXCEPT ![p] = [cmd[p] EXCEPT !.jar = cmd[p].jar, !.todo = <<>>, !.outcome = outcome]]
  BY <1>2, <1>3
<1>5. End(p, cmd[p].jar, outcome)
  BY <1>4 DEF TypeOK, End
<1> QED BY <1>1, <1>5 DEF Command

\* The command a process begins.
NewCommand(op, jar, application, target, n) ==
  [NoCommand EXCEPT !.op = op, !.todo = Plan(op), !.jar = jar, !.application = application,
                    !.target = target, !.n = n]

LEMMA NewCommandIs ==
  ASSUME NEW op \in AllOperations, NEW jar \in Jar, NEW application \in BOOLEAN,
         NEW target \in Ids \cup Names, NEW n \in 0 .. MaxCommands
  PROVE  LET c == NewCommand(op, jar, application, target, n) IN
         /\ c \in Command /\ c.op = op /\ c.jar = jar /\ c.todo = Plan(op) /\ c.puts = 0
         /\ c.before = None /\ c.outcome = "none"
<1> DEFINE c == NewCommand(op, jar, application, target, n)
<1>1. Plan(op) \in Seq(Request)
  BY PlanFacts
<1>2. NoCommand \in Command
  <2>1. 0 \in Jar /\ <<>> \in Seq(Request) /\ 0 \in 0 .. MaxCommands /\ 0 \in 0 .. 2 /\ "none" \in Outcome
    BY NativeBounds DEF Jar, Guest, Outcome
  <2> QED BY <2>1 DEF NoCommand, Command
<1>3. c \in Command
  BY <1>1, <1>2 DEF NewCommand, Command
<1>4. c.op = op /\ c.jar = jar /\ c.todo = Plan(op)
  BY <1>2 DEF NewCommand, Command
<1>5. c.puts = NoCommand.puts /\ c.before = NoCommand.before /\ c.outcome = NoCommand.outcome
  BY <1>2 DEF NewCommand, Command
<1> QED BY <1>3, <1>4, <1>5 DEF NoCommand

Begun(p, op, jar, application, target) ==
  /\ cmd' = [cmd EXCEPT ![p] = NewCommand(op, jar, application, target, cmd[p].n + 1)]
  /\ disturbed' = (disturbed \/ (\E q \in Procs : Running(q)) \/ (op = "attach" /\ jar = stored))

LEMMA BeginIs ==
  ASSUME NEW p \in Procs, Begin(p)
  PROVE  \E op \in Operations : \E jar \in FirstJar(op) :
         \E application \in BOOLEAN, target \in Ids \cup Names : Begun(p, op, jar, application, target)
BY DEF Begin, Begun, NewCommand

LEMMA BeginKeeps ==
  ASSUME IInv, NEW p \in Procs, Begin(p)
  PROVE  TypeOK' /\ SwitchInv' /\ LiveIssued'
<1>11. PICK op \in Operations : \E jar \in FirstJar(op) :
        \E application \in BOOLEAN, target \in Ids \cup Names : Begun(p, op, jar, application, target)
  BY BeginIs
<1>12. PICK jar \in FirstJar(op) :
        \E application \in BOOLEAN, target \in Ids \cup Names : Begun(p, op, jar, application, target)
  BY <1>11
<1>13. PICK application \in BOOLEAN, target \in Ids \cup Names : Begun(p, op, jar, application, target)
  BY <1>12
<1>1. cmd' = [cmd EXCEPT ![p] = NewCommand(op, jar, application, target, cmd[p].n + 1)]
  BY <1>13 DEF Begun
<1>2. /\ cmd[p].n < MaxCommands /\ since' = [since EXCEPT ![p] = {ctx}]
      /\ UNCHANGED <<stored, live, issued, ctx>> /\ disturbed' \in BOOLEAN
      /\ TypeOK /\ SwitchInv /\ LiveIssued
  BY DEF Begin, IInv, TypeOK
<1>3. op \in AllOperations /\ jar \in Jar
  <2>1. FirstJar(op) \subseteq Jar
    BY <1>2, NativeBounds DEF TypeOK, FirstJar, Jar, Guest
  <2> QED BY <2>1, OperationAssumption
<1>4. cmd[p].n + 1 \in 0 .. MaxCommands
  BY <1>2, NativeBounds DEF TypeOK, Command
<1> DEFINE c == NewCommand(op, jar, application, target, cmd[p].n + 1)
<1>5. /\ c \in Command /\ c.op = op /\ c.jar = jar /\ c.todo = Plan(op) /\ c.puts = 0
      /\ c.before = None /\ c.outcome = "none"
  BY <1>3, <1>4, NewCommandIs
<1> HIDE DEF c
<1>6. /\ Plan(op) # <<>> /\ 1 \in DOMAIN Plan(op)
      /\ \A k \in DOMAIN Plan(op) :
           /\ Plan(op)[k] # "put"
           /\ Plan(op)[k] = "persist" => op \in {"login", "attach", "forget"}
           /\ Plan(op)[k] = "login" => op \in {"login", "basic"}
           /\ k > 1 /\ Plan(op)[k] = "persist" => Plan(op)[k - 1] # "login"
  BY <1>3, PlanFacts, TailFacts
<1>7. Shape(c)
  BY <1>5, <1>6 DEF Shape
<1>8. Honest(c, since'[p])
  BY <1>5, <1>6 DEF Honest, Progress
<1>9. SwitchInv'
  <2>1. cmd' = [cmd EXCEPT ![p] = c] /\ ctx' \in since'[p]
    BY <1>1, <1>2 DEF c, TypeOK
  <2>2. \A q \in Procs \ {p} : since[q] \subseteq since'[q] /\ (ctx' = ctx \/ ctx' \in since'[q])
    BY <1>2 DEF TypeOK
  <2> QED BY <1>2, <1>7, <1>8, <2>1, <2>2, OneCommand
<1>10. cmd' \in [Procs -> Command] /\ since' \in [Procs -> SUBSET Ids]
  BY <1>1, <1>2, <1>5 DEF c, TypeOK
<1> QED BY <1>2, <1>9, <1>10 DEF TypeOK, LiveIssued

LEMMA RefusedKeeps ==
  ASSUME IInv, NEW p \in Procs, Refused(p)
  PROVE  TypeOK' /\ SwitchInv' /\ LiveIssued'
<1>1. PICK jar \in GuestCookies(p) : Observe(p, jar, FALSE) /\ End(p, jar, Failed(p))
  BY DEF Refused
<1>2. /\ Running(p) /\ UNCHANGED <<live, issued, ctx, since, disturbed>>
      /\ TypeOK /\ SwitchInv /\ LiveIssued
  BY DEF Refused, IInv
<1>3. jar \in Jar
  BY <1>2, NativeBounds DEF GuestCookies, TypeOK, Command, Jar, Guest
<1>4. SwitchInv' /\ cmd' \in [Procs -> Command]
  BY <1>1, <1>2, <1>3, FailedSound, SoundStep
<1>5. stored' \in Jar
  BY <1>1, <1>2, <1>3, ObserveStored
<1> QED BY <1>2, <1>4, <1>5 DEF TypeOK, LiveIssued

LEMMA LostKeeps ==
  ASSUME IInv, NEW p \in Procs, AnswerLost(p)
  PROVE  TypeOK' /\ SwitchInv' /\ LiveIssued'
<1>1. PICK jar \in Rotated(p) : Accept(p, jar)
  BY DEF AnswerLost
<1>2. /\ Running(p) /\ Authenticated(p) /\ disturbed' = TRUE /\ UNCHANGED stored
      /\ cmd' = [cmd EXCEPT ![p].todo = <<>>, ![p].outcome = Failed(p),
                            ![p].puts = IF Next_(p) = "put" THEN @ + 1 ELSE @]
      /\ Move(IF Next_(p) = "put" THEN cmd[p].selected ELSE ctx) \/ UNCHANGED <<ctx, since>>
      /\ TypeOK /\ SwitchInv /\ LiveIssued
  BY DEF AnswerLost, IInv
<1>3. live' \subseteq 1 .. MaxCookies /\ issued' \in 0 .. MaxCookies /\ LiveIssued'
  BY <1>1, <1>2, Rotation
<1>4. /\ \A q \in Procs : since[q] \subseteq since'[q] /\ (ctx' = ctx \/ ctx' \in since'[q])
      /\ ctx' \in {ctx, IF Next_(p) = "put" THEN cmd[p].selected ELSE ctx}
  BY <1>2 DEF Move, TypeOK
<1>5. /\ cmd[p] \in Command /\ cmd[p].jar \in Jar /\ ctx \in since[p]
      /\ (Next_(p) \notin Inspects => cmd[p].puts = 0)
  BY <1>2, RunningFacts DEF Command
<1>6. ASSUME Next_(p) = "put" PROVE SwitchInv' /\ cmd' \in [Procs -> Command] /\ ctx' \in Ids
  <2>1. Failed(p) = "uncertain" /\ cmd[p].puts = 0
    BY <1>5, <1>6 DEF Failed, Inspects
  <2>2. cmd' = [cmd EXCEPT ![p] = [cmd[p] EXCEPT !.todo = <<>>, !.outcome = "uncertain", !.puts = @ + 1]]
    BY <1>2, <1>6, <2>1 DEF TypeOK
  <2>3. cmd' = [cmd EXCEPT ![p] = [cmd[p] EXCEPT !.todo = <<>>, !.outcome = "uncertain", !.puts = 1]]
    BY <2>1, <2>2
  <2>4. [cmd[p] EXCEPT !.todo = <<>>, !.outcome = "uncertain", !.puts = 1] =
        [cmd[p] EXCEPT !.jar = cmd[p].jar, !.puts = 1, !.todo = <<>>, !.outcome = "uncertain"]
    BY <1>5 DEF Command
  <2>5. Sent(p, cmd[p].jar, <<>>, "uncertain")
    BY <2>3, <2>4 DEF Sent
  <2>6. ctx' \in {ctx, cmd[p].selected} /\ ctx' \in since'[p]
    BY <1>4, <1>5, <1>6
  <2> QED BY <1>2, <1>4, <1>5, <1>6, <2>5, <2>6, PutSound
<1>7. ASSUME Next_(p) # "put" PROVE SwitchInv' /\ cmd' \in [Procs -> Command] /\ ctx' \in Ids
  <2>1. Failed(p) \in Outcome
    BY DEF Failed, Outcome
  <2>2. cmd' = [cmd EXCEPT ![p] = [cmd[p] EXCEPT !.todo = <<>>, !.outcome = Failed(p), !.puts = @]]
    BY <1>2, <1>7 DEF TypeOK
  <2>3. [cmd[p] EXCEPT !.todo = <<>>, !.outcome = Failed(p), !.puts = @] =
        [cmd[p] EXCEPT !.jar = cmd[p].jar, !.todo = <<>>, !.outcome = Failed(p)]
    BY <1>5 DEF Command
  <2>4. End(p, cmd[p].jar, Failed(p))
    BY <1>2, <2>2, <2>3 DEF End, TypeOK
  <2>5. SwitchInv' /\ cmd' \in [Procs -> Command]
    BY <1>2, <1>4, <1>5, <2>4, FailedSound, SoundStep
  <2>6. ctx' \in Ids
    BY <1>2, <1>4, <1>7 DEF TypeOK
  <2> QED BY <2>5, <2>6
<1>8. since' \in [Procs -> SUBSET Ids]
  <2>1. ctx' \in Ids
    BY <1>6, <1>7
  <2> QED BY <1>2, <2>1 DEF TypeOK, Move
<1> QED BY <1>2, <1>3, <1>6, <1>7, <1>8 DEF TypeOK

LEMMA BasicFormKeeps ==
  ASSUME IInv, NEW p \in Procs, BasicForm(p)
  PROVE  TypeOK' /\ SwitchInv' /\ LiveIssued'
<1>1. /\ Running(p) /\ Next_(p) = "form" /\ cmd[p].op = "basic" /\ UNCHANGED <<stored, ctx, since, disturbed>>
      /\ TypeOK /\ SwitchInv /\ LiveIssued
  BY DEF BasicForm, IInv
<1>2. cmd[p] \in Command /\ cmd[p].puts = 0 /\ Progress(cmd[p], since[p])
  BY <1>1, RunningFacts DEF Inspects
<1>3. 0 \in Jar /\ "refused" \in Outcome
  BY NativeBounds DEF Jar, Guest, Outcome
<1>4. CASE issued < MaxCookies /\ issued' = issued + 1 /\ live' = live \cup {issued'}
           /\ Continue(p, issued', Tail(cmd[p].todo))
  <2>1. issued' \in Jar /\ live' \subseteq 1 .. MaxCookies /\ issued' \in 0 .. MaxCookies /\ LiveIssued'
    BY <1>1, <1>4, Issue
  <2>2. Sound(p, issued')
    BY <1>1, <1>4, <2>1, TailSound
  <2>3. SwitchInv' /\ cmd' \in [Procs -> Command]
    BY <1>1, <2>1, <2>2, SoundStep
  <2> QED BY <1>1, <2>1, <2>3 DEF TypeOK
<1>5. CASE Continue(p, 0, <<"login", "form_cookie", "submit">>) /\ UNCHANGED <<live, issued>>
  <2> DEFINE s == <<"login", "form_cookie", "submit">>
             c == cmd'[p]
  <2>1. /\ s \in Seq(Request) /\ s # <<>>
        /\ \A k \in DOMAIN s : s[k] \in {"login", "form_cookie", "submit"}
        /\ s[1] = "login"
    BY DEF Request
  <2>2. Continue(p, 0, s)
    BY <1>5
  <2> HIDE DEF s
  <2>3. /\ c \in Command /\ cmd' = [cmd EXCEPT ![p] = c] /\ c.todo = s /\ c.jar = 0
        /\ c.outcome = cmd[p].outcome /\ c.before = cmd[p].before /\ c.op = cmd[p].op
        /\ c.puts = 0 /\ c.selected = cmd[p].selected /\ c.op = "basic"
    BY <1>1, <1>2, <1>3, <2>1, <2>2, ContinueIs
  <2> HIDE DEF c
  <2>4. Shape(c)
    BY <2>1, <2>3 DEF Shape
  <2>5. Progress(c, since[p])
    BY <1>2, <2>3 DEF Progress
  <2>6. Sound(p, 0)
    BY <2>1, <2>3, <2>4, <2>5 DEF Sound, Honest, c
  <2>7. SwitchInv' /\ cmd' \in [Procs -> Command]
    BY <1>1, <1>3, <2>6, SoundStep
  <2> QED BY <1>1, <1>5, <2>7 DEF TypeOK, LiveIssued
<1>6. CASE End(p, 0, "refused") /\ UNCHANGED <<live, issued>>
  <2>1. Sound(p, 0)
    BY <1>1, <1>2, <1>3, <1>6, EndSound
  <2>2. SwitchInv' /\ cmd' \in [Procs -> Command]
    BY <1>1, <1>3, <2>1, SoundStep
  <2> QED BY <1>1, <1>6, <2>2 DEF TypeOK, LiveIssued
<1> QED BY <1>4, <1>5, <1>6 DEF BasicForm

LEMMA FormLoginKeeps ==
  ASSUME IInv, NEW p \in Procs, FormLogin(p)
  PROVE  TypeOK' /\ SwitchInv' /\ LiveIssued'
<1>1. /\ Running(p) /\ Next_(p) = "login" /\ UNCHANGED <<stored, ctx, since, disturbed>>
      /\ TypeOK /\ SwitchInv /\ LiveIssued
  BY DEF FormLogin, IInv
<1>2. cmd[p].puts = 0
  BY <1>1, RunningFacts DEF Inspects
<1>3. 0 \in Jar /\ Guest \in Jar /\ "refused" \in Outcome
  BY NativeBounds DEF Jar, Guest, Outcome
<1>4. CASE issued < MaxCookies /\ issued' = issued + 1 /\ live' = live \cup {issued'}
           /\ Continue(p, issued', Tail(cmd[p].todo))
  <2>1. issued' \in Jar /\ live' \subseteq 1 .. MaxCookies /\ issued' \in 0 .. MaxCookies /\ LiveIssued'
    BY <1>1, <1>4, Issue
  <2>2. Sound(p, issued')
    BY <1>1, <1>4, <2>1, TailSound
  <2>3. SwitchInv' /\ cmd' \in [Procs -> Command]
    BY <1>1, <2>1, <2>2, SoundStep
  <2> QED BY <1>1, <2>1, <2>3 DEF TypeOK
<1>5. CASE Continue(p, Guest, Tail(cmd[p].todo)) /\ UNCHANGED <<live, issued>>
  <2>1. Sound(p, Guest)
    BY <1>1, <1>3, <1>5, TailSound
  <2>2. SwitchInv' /\ cmd' \in [Procs -> Command]
    BY <1>1, <1>3, <2>1, SoundStep
  <2> QED BY <1>1, <1>5, <2>2 DEF TypeOK, LiveIssued
<1>6. CASE End(p, 0, "refused") /\ UNCHANGED <<live, issued>>
  <2>1. Sound(p, 0)
    BY <1>1, <1>2, <1>3, <1>6, EndSound
  <2>2. SwitchInv' /\ cmd' \in [Procs -> Command]
    BY <1>1, <1>3, <2>1, SoundStep
  <2> QED BY <1>1, <1>6, <2>2 DEF TypeOK, LiveIssued
<1> QED BY <1>4, <1>5, <1>6 DEF FormLogin

LEMMA PersistKeeps ==
  ASSUME IInv, NEW p \in Procs, Persist(p)
  PROVE  TypeOK' /\ SwitchInv' /\ LiveIssued'
<1>1. /\ Running(p) /\ Next_(p) = "persist" /\ UNCHANGED <<live, issued, ctx, since, disturbed>>
      /\ stored' \in {stored, Persisted(p)} /\ \E o \in {"ok", "refused"} : End(p, cmd[p].jar, o)
      /\ TypeOK /\ SwitchInv /\ LiveIssued
  BY DEF Persist, IInv
<1>2. cmd[p].puts = 0 /\ cmd[p].jar \in Jar /\ 0 \in Jar /\ {"ok", "refused"} \subseteq Outcome
  BY <1>1, RunningFacts, NativeBounds DEF Inspects, Command, Outcome, Jar, Guest
<1>3. Sound(p, cmd[p].jar)
  BY <1>1, <1>2, EndSound
<1>4. SwitchInv' /\ cmd' \in [Procs -> Command]
  BY <1>1, <1>2, <1>3, SoundStep
<1> QED BY <1>1, <1>2, <1>4 DEF TypeOK, LiveIssued, Persisted

LEMMA KillKeeps ==
  ASSUME IInv, NEW p \in Procs, Kill(p)
  PROVE  TypeOK' /\ SwitchInv' /\ LiveIssued'
<1>1. /\ Running(p) /\ disturbed' = TRUE /\ UNCHANGED <<stored, live, issued, ctx, since>>
      /\ cmd' = [cmd EXCEPT ![p].todo = <<>>, ![p].outcome = "none"]
      /\ TypeOK /\ SwitchInv /\ LiveIssued /\ "none" \in Outcome
  BY DEF Kill, IInv, Outcome
<1>2. cmd[p].jar \in Jar /\ Sound(p, cmd[p].jar)
  BY <1>1, StopIsEnd, EndSound
<1>3. SwitchInv' /\ cmd' \in [Procs -> Command]
  BY <1>1, <1>2, SoundStep
<1> QED BY <1>1, <1>3 DEF TypeOK, LiveIssued

LEMMA OutsideKeeps ==
  ASSUME IInv, SessionEnds \/ BrowserLogsIn \/ BrowserSwitches
  PROVE  TypeOK' /\ SwitchInv' /\ LiveIssued'
<1>0. TypeOK /\ SwitchInv /\ LiveIssued
  BY DEF IInv
<1>1. CASE SessionEnds
  <2>1. live' \subseteq live /\ disturbed' = TRUE /\ UNCHANGED <<stored, issued, ctx, cmd, since>>
    BY <1>1 DEF SessionEnds
  <2>2. TypeOK' /\ LiveIssued'
    BY <1>0, <2>1 DEF TypeOK, LiveIssued
  <2>3. SwitchInv'
    BY <1>0, <2>1 DEF SwitchInv, Running
  <2> QED BY <2>2, <2>3
<1>2. CASE BrowserLogsIn
  <2>1. /\ issued < MaxCookies /\ issued' = issued + 1 /\ live' = live \cup {issued'}
        /\ UNCHANGED <<stored, ctx, cmd, since, disturbed>>
    BY <1>2 DEF BrowserLogsIn
  <2>2. TypeOK' /\ LiveIssued'
    BY <1>0, <2>1, Issue DEF TypeOK
  <2>3. SwitchInv'
    BY <1>0, <2>1 DEF SwitchInv, Running
  <2> QED BY <2>2, <2>3
<1>3. CASE BrowserSwitches
  <2>1. PICK c \in Ids : Move(c) /\ UNCHANGED <<stored, live, issued, cmd, disturbed>>
    BY <1>3 DEF BrowserSwitches
  <2>2. TypeOK' /\ LiveIssued'
    BY <1>0, <2>1 DEF TypeOK, LiveIssued, Move
  <2>3. SwitchInv'
    <3> SUFFICES ASSUME NEW q \in Procs
                 PROVE  /\ Shape(cmd'[q]) /\ Honest(cmd'[q], since'[q])
                        /\ cmd'[q].todo # <<>> => ctx' \in since'[q]
      BY DEF SwitchInv, Running
    <3>1. since'[q] = since[q] \cup {c} /\ ctx' = c /\ cmd' = cmd
      BY <2>1 DEF Move
    <3>2. Shape(cmd[q]) /\ Honest(cmd[q], since[q])
      BY <1>0 DEF SwitchInv
    <3> QED BY <3>1, <3>2, HonestGrows
  <2> QED BY <2>2, <2>3
<1> QED BY <1>1, <1>2, <1>3

----------------------------------------------------------------------------
(* The stored session                                                        *)

\* A command that ends leaves no one running.
LEMMA EndedUndisturbed ==
  ASSUME IInv, NEW p \in Procs, Running(p), cmd'[p].todo = <<>>,
         \A q \in Procs \ {p} : cmd'[q] = cmd[q],
         ~disturbed => (stored' # 0 => stored' \in live'), disturbed' = disturbed
  PROVE  Undisturbed'
<1> SUFFICES ASSUME ~disturbed PROVE Undisturbed'
  BY DEF Undisturbed
<1>1. \A q \in Procs : ~(cmd'[q].todo # <<>>)
  <2> SUFFICES ASSUME NEW q \in Procs, q # p PROVE cmd[q].todo = <<>>
    OBVIOUS
  <2> QED BY DEF IInv, Undisturbed, Running
<1> QED BY <1>1 DEF Undisturbed, Running

\* An answer that ServiceNow gives to the session of p.
LEMMA AnswerUndisturbed ==
  ASSUME IInv, NEW p \in Procs, Running(p), Authenticated(p), NEW jar \in Rotated(p), Accept(p, jar),
         NEW newToken \in BOOLEAN, Observe(p, jar, newToken), disturbed' = disturbed,
         cmd'[p].op = cmd[p].op, cmd'[p].jar = jar, \A q \in Procs \ {p} : cmd'[q] = cmd[q]
  PROVE  Undisturbed'
<1> SUFFICES ASSUME ~disturbed PROVE Undisturbed'
  BY DEF Undisturbed
<1>1. /\ jar \in live' /\ jar # 0 /\ live \ {cmd[p].jar} \subseteq live'
      /\ (jar # cmd[p].jar => jar \notin live)
  BY Rotation DEF IInv
<1>2. /\ stored # 0 => stored \in live
      /\ \A q \in Procs \ {p} : cmd'[q].todo = <<>>
      /\ ProfileBound(p) => cmd[p].jar = stored /\ stored # 0
      /\ ~ProfileBound(p) => cmd[p].jar # stored \/ stored = 0
  BY DEF IInv, Undisturbed, Running
<1>3. ProfileBound(p)' <=> ProfileBound(p)
  BY DEF ProfileBound
<1>4. CASE ProfileBound(p)
  <2>1. stored' = jar
    BY <1>2, <1>4 DEF Observe
  <2> QED BY <1>1, <1>2, <1>3, <1>4, <2>1 DEF Undisturbed, Running
<1>5. CASE ~ProfileBound(p)
  <2>1. stored' = stored
    BY <1>5 DEF Observe
  <2>2. (stored # 0 => stored \in live') /\ (jar # stored \/ stored = 0)
    BY <1>1, <1>2, <1>5
  <2> QED BY <1>1, <1>2, <1>3, <1>5, <2>1, <2>2 DEF Undisturbed, Running
<1> QED BY <1>4, <1>5

\* A session that is opened beside the stored one.
LEMMA OpenedUndisturbed ==
  ASSUME IInv, NEW p \in Procs, Running(p), ~ProfileBound(p), stored' = stored, disturbed' = disturbed,
         live \subseteq live', cmd'[p].op = cmd[p].op, \A q \in Procs \ {p} : cmd'[q] = cmd[q],
         cmd'[p].jar \notin live,
         cmd'[p].todo # <<>> /\ Head(cmd'[p].todo) = "persist" => cmd'[p].jar \in live'
  PROVE  Undisturbed'
<1> SUFFICES ASSUME ~disturbed PROVE Undisturbed'
  BY DEF Undisturbed
<1>1. (stored # 0 => stored \in live) /\ \A q \in Procs \ {p} : cmd'[q].todo = <<>>
  BY DEF IInv, Undisturbed, Running
<1>2. ~ProfileBound(p)'
  BY DEF ProfileBound
<1> QED BY <1>1, <1>2 DEF Undisturbed, Running, Next_

LEMMA BeginUndisturbed ==
  ASSUME IInv, NEW p \in Procs, Begin(p)
  PROVE  Undisturbed'
<1> SUFFICES ASSUME ~disturbed' PROVE Undisturbed'
  BY DEF Undisturbed
<1>11. PICK op \in Operations : \E jar \in FirstJar(op) :
        \E application \in BOOLEAN, target \in Ids \cup Names : Begun(p, op, jar, application, target)
  BY BeginIs
<1>12. PICK jar \in FirstJar(op) :
        \E application \in BOOLEAN, target \in Ids \cup Names : Begun(p, op, jar, application, target)
  BY <1>11
<1>13. PICK application \in BOOLEAN, target \in Ids \cup Names : Begun(p, op, jar, application, target)
  BY <1>12
<1>1. cmd' = [cmd EXCEPT ![p] = NewCommand(op, jar, application, target, cmd[p].n + 1)]
  BY <1>13 DEF Begun
<1>2. ~disturbed /\ (\A q \in Procs : ~Running(q)) /\ ~(op = "attach" /\ jar = stored)
  BY <1>13 DEF Begun
<1>3. UNCHANGED <<stored, live>> /\ op \in AllOperations /\ TypeOK
  BY OperationAssumption DEF Begin, IInv
<1>4. cmd'[p].op = op /\ cmd'[p].todo = Plan(op) /\ cmd'[p].jar = jar
  BY <1>1, <1>3 DEF TypeOK, NewCommand, NoCommand
<1>5. \A q \in Procs \ {p} : cmd'[q].todo = <<>>
  BY <1>1, <1>2, <1>3 DEF TypeOK, Running
<1>6. (stored # 0 => stored \in live) /\ stored' = stored /\ live' = live
  BY <1>2, <1>3 DEF IInv, Undisturbed
<1>7. Next_(p)' = "persist" => op = "forget"
  BY <1>3, <1>4, PlanFacts, TailFacts DEF Next_
<1>8. ProfileBound(p)' => jar = stored /\ stored # 0
  BY <1>4 DEF ProfileBound, FirstJar
<1>9. ~ProfileBound(p)' => jar # stored \/ stored = 0
  BY <1>2, <1>4 DEF ProfileBound, FirstJar
<1> QED BY <1>4, <1>5, <1>6, <1>7, <1>8, <1>9 DEF Undisturbed, Running

LEMMA AnsweredUndisturbed ==
  ASSUME IInv, NEW p \in Procs, Answered(p)
  PROVE  Undisturbed'
<1>1. PICK jar \in Rotated(p), newToken \in BOOLEAN :
        /\ Accept(p, jar) /\ Observe(p, jar, newToken)
        /\ \/ PageAnswered(p, jar) \/ PickersAnswered(p, jar)
           \/ HomeAnswered(p, jar) \/ OptionsAnswered(p, jar)
  BY DEF Answered
<1>2. Running(p) /\ Authenticated(p) /\ disturbed' = disturbed /\ TypeOK /\ SwitchInv /\ LiveIssued
  BY DEF Answered, IInv
<1>3. Sound(p, jar)
  BY <1>1, <1>2, Rotation, AnswerSound
<1>4. cmd'[p].op = cmd[p].op /\ cmd'[p].jar = jar /\ \A q \in Procs \ {p} : cmd'[q] = cmd[q]
  BY <1>2, <1>3 DEF Sound, TypeOK
<1> QED BY <1>1, <1>2, <1>4, AnswerUndisturbed

LEMMA PutUndisturbed ==
  ASSUME IInv, NEW p \in Procs, PutAnswered(p)
  PROVE  Undisturbed'
<1>1. PICK jar \in Rotated(p) :
        /\ Accept(p, jar) /\ Observe(p, jar, FALSE)
        /\ \/ cmd' = [cmd EXCEPT ![p].jar = jar, ![p].puts = @ + 1, ![p].todo = Tail(cmd[p].todo)]
           \/ cmd' = [cmd EXCEPT ![p].jar = jar, ![p].puts = @ + 1, ![p].todo = <<>>,
                                 ![p].outcome = "uncertain"]
  BY DEF PutAnswered
<1>2. Running(p) /\ Authenticated(p) /\ disturbed' = disturbed /\ TypeOK
  BY DEF PutAnswered, IInv
<1>3. cmd'[p].op = cmd[p].op /\ cmd'[p].jar = jar /\ \A q \in Procs \ {p} : cmd'[q] = cmd[q]
  <2>1. cmd[p] \in Command
    BY <1>2 DEF TypeOK
  <2> QED BY <1>1, <1>2, <2>1 DEF TypeOK, Command
<1> QED BY <1>1, <1>2, <1>3, AnswerUndisturbed

LEMMA RefusedUndisturbed ==
  ASSUME IInv, NEW p \in Procs, Refused(p)
  PROVE  Undisturbed'
<1>1. PICK jar \in GuestCookies(p) : Observe(p, jar, FALSE) /\ End(p, jar, Failed(p))
  BY DEF Refused
<1>2. /\ Running(p) /\ cmd[p].jar \notin live /\ live' = live /\ disturbed' = disturbed /\ TypeOK
  BY DEF Refused, IInv, Authenticated
<1>3. ~disturbed => (stored' # 0 => stored' \in live')
  BY <1>1, <1>2 DEF IInv, Undisturbed, Observe
<1>4. jar \in Jar /\ Failed(p) \in Outcome
  BY <1>2, NativeBounds DEF GuestCookies, TypeOK, Command, Jar, Guest, Failed, Outcome
<1>5. cmd'[p].todo = <<>> /\ \A q \in Procs \ {p} : cmd'[q] = cmd[q]
  BY <1>1, <1>2, <1>4, EndIs DEF TypeOK
<1> QED BY <1>2, <1>3, <1>5, EndedUndisturbed

LEMMA BasicFormUndisturbed ==
  ASSUME IInv, NEW p \in Procs, BasicForm(p)
  PROVE  Undisturbed'
<1>1. /\ Running(p) /\ ~ProfileBound(p) /\ stored' = stored /\ disturbed' = disturbed
      /\ TypeOK /\ SwitchInv /\ LiveIssued
  BY DEF BasicForm, IInv, ProfileBound
<1>2. 0 \in Jar /\ "refused" \in Outcome /\ Tail(cmd[p].todo) \in Seq(Request) /\ 0 \notin live
  BY <1>1, RunningFacts, NativeBounds DEF Jar, Guest, Outcome, TypeOK
<1>3. CASE issued < MaxCookies /\ issued' = issued + 1 /\ live' = live \cup {issued'}
           /\ Continue(p, issued', Tail(cmd[p].todo))
  <2>1. issued' \in Jar /\ issued' \in live' /\ issued' \notin live
    BY <1>1, <1>3, Issue
  <2>2. cmd'[p].op = cmd[p].op /\ cmd'[p].jar = issued' /\ \A q \in Procs \ {p} : cmd'[q] = cmd[q]
    BY <1>1, <1>2, <1>3, <2>1, ContinueIs DEF TypeOK
  <2> QED BY <1>1, <1>3, <2>1, <2>2, OpenedUndisturbed
<1>4. CASE Continue(p, 0, <<"login", "form_cookie", "submit">>) /\ UNCHANGED <<live, issued>>
  <2> DEFINE s == <<"login", "form_cookie", "submit">>
  <2>1. s \in Seq(Request) /\ Head(s) = "login"
    BY DEF Request
  <2>2. Continue(p, 0, s)
    BY <1>4
  <2> HIDE DEF s
  <2>3. cmd'[p].op = cmd[p].op /\ cmd'[p].jar = 0 /\ cmd'[p].todo = s
        /\ \A q \in Procs \ {p} : cmd'[q] = cmd[q]
    BY <1>1, <1>2, <2>1, <2>2, ContinueIs DEF TypeOK
  <2> QED BY <1>1, <1>2, <1>4, <2>1, <2>3, OpenedUndisturbed
<1>5. CASE End(p, 0, "refused") /\ UNCHANGED <<live, issued>>
  <2>1. cmd'[p].todo = <<>> /\ \A q \in Procs \ {p} : cmd'[q] = cmd[q]
    BY <1>1, <1>2, <1>5, EndIs DEF TypeOK
  <2>2. ~disturbed => (stored' # 0 => stored' \in live')
    BY <1>1, <1>5 DEF IInv, Undisturbed
  <2> QED BY <1>1, <2>1, <2>2, EndedUndisturbed
<1> QED BY <1>3, <1>4, <1>5 DEF BasicForm

LEMMA FormLoginUndisturbed ==
  ASSUME IInv, NEW p \in Procs, FormLogin(p)
  PROVE  Undisturbed'
<1>1. /\ Running(p) /\ Next_(p) = "login" /\ stored' = stored /\ disturbed' = disturbed
      /\ TypeOK /\ SwitchInv /\ LiveIssued
  BY DEF FormLogin, IInv
<1>2. /\ cmd[p].todo \in Seq(Request) /\ cmd[p].todo # <<>> /\ cmd[p].todo[1] = "login"
      /\ 1 \in DOMAIN cmd[p].todo /\ Shape(cmd[p]) /\ Tail(cmd[p].todo) \in Seq(Request)
  BY <1>1, RunningFacts
<1>3. ~ProfileBound(p)
  BY <1>2 DEF Shape, ProfileBound
<1>4. Tail(cmd[p].todo) # <<>> => Head(Tail(cmd[p].todo)) # "persist"
  <2> SUFFICES ASSUME Tail(cmd[p].todo) # <<>> PROVE Head(Tail(cmd[p].todo)) # "persist"
    OBVIOUS
  <2>1. Head(Tail(cmd[p].todo)) = Tail(cmd[p].todo)[1] /\ 1 \in DOMAIN Tail(cmd[p].todo)
    BY <1>2, TailFacts
  <2>2. Tail(cmd[p].todo)[1] = cmd[p].todo[2] /\ 2 \in DOMAIN cmd[p].todo
    BY <1>2, <2>1, TailFacts
  <2> QED BY <1>2, <2>1, <2>2 DEF Shape
<1>5. 0 \in Jar /\ Guest \in Jar /\ "refused" \in Outcome /\ Guest \notin live
  BY <1>1, NativeBounds DEF Jar, Guest, Outcome, TypeOK
<1>6. CASE issued < MaxCookies /\ issued' = issued + 1 /\ live' = live \cup {issued'}
           /\ Continue(p, issued', Tail(cmd[p].todo))
  <2>1. issued' \in Jar /\ issued' \in live' /\ issued' \notin live
    BY <1>1, <1>6, Issue
  <2>2. cmd'[p].op = cmd[p].op /\ cmd'[p].jar = issued' /\ \A q \in Procs \ {p} : cmd'[q] = cmd[q]
    BY <1>1, <1>2, <1>6, <2>1, ContinueIs DEF TypeOK
  <2> QED BY <1>1, <1>3, <1>6, <2>1, <2>2, OpenedUndisturbed
<1>7. CASE Continue(p, Guest, Tail(cmd[p].todo)) /\ UNCHANGED <<live, issued>>
  <2>1. cmd'[p].op = cmd[p].op /\ cmd'[p].jar = Guest /\ cmd'[p].todo = Tail(cmd[p].todo)
        /\ \A q \in Procs \ {p} : cmd'[q] = cmd[q]
    BY <1>1, <1>2, <1>5, <1>7, ContinueIs DEF TypeOK
  <2> QED BY <1>1, <1>3, <1>4, <1>5, <1>7, <2>1, OpenedUndisturbed
<1>8. CASE End(p, 0, "refused") /\ UNCHANGED <<live, issued>>
  <2>1. cmd'[p].todo = <<>> /\ \A q \in Procs \ {p} : cmd'[q] = cmd[q]
    BY <1>1, <1>5, <1>8, EndIs DEF TypeOK
  <2>2. ~disturbed => (stored' # 0 => stored' \in live')
    BY <1>1, <1>8 DEF IInv, Undisturbed
  <2> QED BY <1>1, <2>1, <2>2, EndedUndisturbed
<1> QED BY <1>6, <1>7, <1>8 DEF FormLogin

LEMMA PersistUndisturbed ==
  ASSUME IInv, NEW p \in Procs, Persist(p)
  PROVE  Undisturbed'
<1>1. /\ Running(p) /\ Next_(p) = "persist" /\ live' = live /\ disturbed' = disturbed
      /\ stored' \in {stored, Persisted(p)} /\ \E o \in {"ok", "refused"} : End(p, cmd[p].jar, o)
      /\ TypeOK
  BY DEF Persist, IInv
<1>2. cmd[p].jar \in Jar /\ {"ok", "refused"} \subseteq Outcome
  BY <1>1 DEF TypeOK, Command, Outcome
<1>3. cmd'[p].todo = <<>> /\ \A q \in Procs \ {p} : cmd'[q] = cmd[q]
  BY <1>1, <1>2, EndIs DEF TypeOK
<1>4. ~disturbed => (stored' # 0 => stored' \in live')
  BY <1>1 DEF IInv, Undisturbed, Persisted
<1> QED BY <1>1, <1>3, <1>4, EndedUndisturbed

LEMMA OutsideUndisturbed ==
  ASSUME IInv, SessionEnds \/ BrowserLogsIn \/ BrowserSwitches
  PROVE  Undisturbed'
<1>1. CASE SessionEnds
  BY <1>1 DEF SessionEnds, Undisturbed
<1>2. CASE (live \subseteq live') /\ UNCHANGED <<stored, cmd, disturbed>>
  BY <1>2 DEF IInv, Undisturbed, Running, ProfileBound, Next_
<1>3. CASE BrowserLogsIn
  BY <1>2, <1>3 DEF BrowserLogsIn
<1>4. CASE BrowserSwitches
  BY <1>2, <1>4 DEF BrowserSwitches
<1> QED BY <1>1, <1>3, <1>4

----------------------------------------------------------------------------
(* The theorems                                                              *)

LEMMA InitInv ==
  ASSUME Init
  PROVE  IInv
<1>1. TypeOK
  <2>1. NoCommand \in Command
    <3>1. 0 \in Jar /\ <<>> \in Seq(Request) /\ 0 \in 0 .. MaxCommands /\ 0 \in 0 .. 2 /\ "none" \in Outcome
      BY NativeBounds DEF Jar, Guest, Outcome
    <3> QED BY <3>1 DEF NoCommand, Command
  <2>2. stored \in Jar /\ live \subseteq 1 .. MaxCookies /\ issued \in 0 .. MaxCookies
    BY NativeBounds DEF Init, Jar, Guest
  <2> QED BY <2>1, <2>2 DEF Init, TypeOK
<1>2. \A p \in Procs : cmd[p].todo = <<>> /\ cmd[p].puts = 0 /\ cmd[p].outcome = "none"
  BY DEF Init, NoCommand
<1>3. SwitchInv
  <2> SUFFICES ASSUME NEW p \in Procs
               PROVE  Shape(cmd[p]) /\ Honest(cmd[p], since[p]) /\ cmd[p].todo = <<>>
    BY DEF SwitchInv, Running
  <2>1. cmd[p].todo = <<>> /\ cmd[p].puts = 0 /\ cmd[p].outcome = "none"
    BY <1>2
  <2>2. Shape(cmd[p])
    BY <2>1, EndKeepsShape
  <2> QED BY <2>1, <2>2 DEF Honest, Report
<1>4. LiveIssued /\ Undisturbed
  BY <1>2 DEF Init, LiveIssued, Undisturbed, Running
<1> QED BY <1>1, <1>3, <1>4 DEF IInv

LEMMA NextInv ==
  ASSUME IInv, [Next]_vars
  PROVE  IInv'
<1>1. CASE Next
  <2>1. ASSUME NEW p \in Procs,
               \/ Begin(p) \/ Answered(p) \/ PutAnswered(p) \/ Refused(p) \/ AnswerLost(p)
               \/ BasicForm(p) \/ FormLogin(p) \/ Persist(p) \/ Kill(p)
        PROVE  IInv'
    <3>1. CASE Begin(p)
      BY <3>1, BeginKeeps, BeginUndisturbed DEF IInv
    <3>2. CASE Answered(p)
      BY <3>2, AnsweredKeeps, AnsweredUndisturbed DEF IInv
    <3>3. CASE PutAnswered(p)
      BY <3>3, PutKeeps, PutUndisturbed DEF IInv
    <3>4. CASE Refused(p)
      BY <3>4, RefusedKeeps, RefusedUndisturbed DEF IInv
    <3>5. CASE AnswerLost(p)
      BY <3>5, LostKeeps DEF IInv, AnswerLost, Undisturbed
    <3>6. CASE BasicForm(p)
      BY <3>6, BasicFormKeeps, BasicFormUndisturbed DEF IInv
    <3>7. CASE FormLogin(p)
      BY <3>7, FormLoginKeeps, FormLoginUndisturbed DEF IInv
    <3>8. CASE Persist(p)
      BY <3>8, PersistKeeps, PersistUndisturbed DEF IInv
    <3>9. CASE Kill(p)
      BY <3>9, KillKeeps DEF IInv, Kill, Undisturbed
    <3> QED BY <2>1, <3>1, <3>2, <3>3, <3>4, <3>5, <3>6, <3>7, <3>8, <3>9
  <2>2. CASE SessionEnds \/ BrowserLogsIn \/ BrowserSwitches
    BY <2>2, OutsideKeeps, OutsideUndisturbed DEF IInv
  <2> QED BY <1>1, <2>1, <2>2 DEF Next
<1>2. CASE UNCHANGED vars
  BY <1>2 DEF vars, IInv, TypeOK, SwitchInv, LiveIssued, Undisturbed, Running, ProfileBound, Next_
<1> QED BY <1>1, <1>2

LEMMA Invariance == Spec => []IInv
<1>1. Init => IInv
  BY InitInv
<1>2. IInv /\ [Next]_vars => IInv'
  BY NextInv
<1> QED BY <1>1, <1>2, PTL DEF Spec

\* Every command, jar and record of a session stays what the code declares
\* it to be, whatever the processes and ServiceNow do.
THEOREM TypeCorrect == Spec => []TypeOK
<1>1. IInv => TypeOK
  BY DEF IInv
<1> QED BY <1>1, Invariance, PTL

\* What `session switch` reports is so, for any number of processes, contexts and
\* commands: "switched" after exactly one PUT and a context read after it that ServiceNow
\* held, "already current" and an ordinary error without a PUT, and the PUT is
\* sent once (NativeSessionSwitchError: no automatic retry).
THEOREM SwitchIsHonest == Spec => []HonestSwitch
<1>1. IInv => HonestSwitch
  <2> SUFFICES ASSUME IInv, NEW p \in Procs
               PROVE  /\ cmd[p].puts <= 1
                      /\ cmd[p].todo = <<>> => Report(cmd[p], since[p])
    BY DEF HonestSwitch, Report
  <2> QED BY DEF IInv, SwitchInv, Shape, Honest
<1> QED BY <1>1, Invariance, PTL

\* Rotation loses no session: while commands do not overlap, no answer is lost and
\* ServiceNow ends no session, what the keychain holds is a session that ServiceNow
\* accepts (observe_response_headers, persist).
THEOREM SessionStays == Spec => []SessionKept
<1>1. IInv => SessionKept
  BY DEF IInv, Undisturbed, SessionKept
<1> QED BY <1>1, Invariance, PTL
=============================================================================
