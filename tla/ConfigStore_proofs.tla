-------------------------- MODULE ConfigStore_proofs --------------------------
(* Proofs about ConfigStore, for any processes, profiles, instances and        *)
(* beginnings.                                                                 *)
EXTENDS ConfigStore, SequenceTheorems, FiniteSetTheorems, TLAPS

----------------------------------------------------------------------------
(* The inductive invariant                                                   *)

Secrets == Secret \cup {NoSecret}
Keychain == [Names \X CredentialTypes -> Secrets]
Sdk == [Names -> Alias \cup {NoAlias}]
Files == Config \cup {Absent} \cup Unreadable

Write == [what : {"browser", "file", "keychain", "sdk"}, name : Names \cup {None},
          type : CredentialTypes \cup {None}, config : Config \cup {Absent},
          secret : Secrets, aliases : Sdk, lax : BOOLEAN]

ListedKinds == {"default", "output", "delete", "export", "login", "loginSdk", "logout", "forget"}
Kinds == ListedKinds \cup {"set", "session", "import", None}
Pcs == {"idle", "loaded", "do", "fill", "undo", "undoFill"}
Doing == {"do", "fill"}
Undoing == {"undo", "undoFill"}

CommandState == [kind : Kinds, name : Names \cup {None}, profile : Profile \cup {NoProfile},
                 config : Config, file : Config \cup {Absent}]
ProcState == [pc : Pcs, cmd : CommandState, todo : Seq(Write), undo : Seq(Write), n : 0 .. MaxCommands]

WellTyped ==
  /\ file \in Files /\ keychain \in Keychain /\ sdk \in Sdk
  /\ proc \in [Procs -> ProcState]
  /\ before \in [Procs -> {<<>>} \cup (Files \X Keychain \X Sdk)]
  /\ calm \in [Procs -> BOOLEAN] /\ torn \in BOOLEAN
  /\ mixed \in BOOLEAN /\ adrift \in SUBSET Procs

GoodWrite(w) ==
  /\ w.what = "keychain" => w.name \in Names /\ w.type \in CredentialTypes
  /\ w.lax => w.what = "keychain"

\* What a process is about to do has the form that its command gives it.
Formed(p) ==
  /\ proc[p].pc # "idle" => proc[p].n < MaxCommands
  /\ proc[p].pc = "loaded" =>
       /\ Cmd(p).kind \in ListedKinds => /\ Cmd(p).name \in Listed(Cmd(p).config)
                                         /\ Cmd(p).profile = Cmd(p).config.profiles[Cmd(p).name]
       /\ Cmd(p).kind \in {"set", "session"} => Cmd(p).name \in Names /\ Cmd(p).profile \in Profile
       /\ Cmd(p).kind = "session" => Listed(Cmd(p).config) # {}
  /\ proc[p].pc \in Doing \cup Undoing =>
       \A w \in ToSet(proc[p].todo) \cup ToSet(proc[p].undo) : GoodWrite(w)
  /\ proc[p].pc \in {"fill", "undoFill"} =>
       List(p) # <<>> /\ NextWrite(p).what = "file" /\ NextWrite(p).config # Absent

\* No file names a default that is not a profile, unless a write was cut; it
\* lacks a default beside its profiles only once two writes met.
Sound(c) == c.default \in Listed(c) \/ (c.default = None /\ (mixed \/ Listed(c) = {}))
Consistent(c) == c \in {Absent} \cup Unreadable \/ Sound(c)
FilesNamed(W) == \A w \in W : w.what = "file" => Consistent(w.config)
Named(p) ==
  /\ proc[p].pc = "loaded" => Sound(Cmd(p).config) /\ Consistent(Cmd(p).file)
  /\ proc[p].pc \in Doing \cup Undoing =>
       FilesNamed(ToSet(proc[p].todo) \cup ToSet(proc[p].undo))

\* The secrets that a delete has still to remove.
Deletes(w, n) == w.what = "keychain" => w.secret = NoSecret /\ w.name = n
Cleaning(p) ==
  Cmd(p).kind = "delete" /\ proc[p].pc \in Doing \cup Undoing =>
    /\ proc[p].pc \in Doing /\ proc[p].undo = <<>> /\ Cmd(p).name \in Names
    /\ calm[p] => \A w \in ToSet(proc[p].todo) : Deletes(w, Cmd(p).name)
    /\ calm[p] => \A t \in CredentialTypes :
         \/ keychain[<<Cmd(p).name, t>>] = NoSecret
         \/ \E w \in ToSet(proc[p].todo) : w.what = "keychain" /\ w.type = t

\* What a command that rolls back has changed, its undo restores.
Restores(w, b) ==
  /\ w.what = "file" => w.config = b[1]
  /\ w.what = "keychain" => w.secret = b[2][<<w.name, w.type>>]
  /\ w.what = "sdk" => w.aliases = b[3]
Touches(W, what) == \E w \in W : w.what = what
TouchesKey(W, n, t) == \E w \in W : w.what = "keychain" /\ w.name = n /\ w.type = t
KeychainRestored(W, b) ==
  \A n \in Names, t \in CredentialTypes : keychain[<<n, t>>] # b[2][<<n, t>>] => TouchesKey(W, n, t)
SdkRestored(W, b) == sdk # b[3] => Touches(W, "sdk")
FileRestored(W, b) == file # b[1] => Touches(W, "file")
Covered(w, W, session) ==
  /\ w.what = "file" => session \/ Touches(W, "file")
  /\ w.what = "keychain" => TouchesKey(W, w.name, w.type)
  /\ w.what = "sdk" => Touches(W, "sdk")

Guarded(p) == calm[p] /\ RollsBack(p) /\ (Cmd(p).kind = "session" => ~torn)
IsSession(p) == Cmd(p).kind = "session"
SessionFile(s) == Len(s) <= 2 /\ (Len(s) = 2 => s[1].what # "file")

Restoring(p) ==
  Guarded(p) =>
    /\ proc[p].pc = "loaded" => before[p] = stores /\ Cmd(p).file = file
    /\ proc[p].pc \in Doing \cup Undoing =>
         before[p] # <<>> /\ \A w \in ToSet(proc[p].undo) : Restores(w, before[p])
    /\ proc[p].pc \in Doing /\ IsSession(p) => SessionFile(proc[p].todo)
    /\ proc[p].pc \in Doing /\ proc[p].todo # <<>> =>
         /\ KeychainRestored(ToSet(proc[p].undo), before[p]) /\ SdkRestored(ToSet(proc[p].undo), before[p])
         /\ ~(IsSession(p) /\ proc[p].pc = "fill") => FileRestored(ToSet(proc[p].undo), before[p])
         /\ \A w \in ToSet(proc[p].todo) : Covered(w, ToSet(proc[p].undo), IsSession(p))
    /\ proc[p].pc \in Undoing =>
         /\ KeychainRestored(ToSet(proc[p].undo), before[p]) /\ SdkRestored(ToSet(proc[p].undo), before[p])
         /\ FileRestored(ToSet(proc[p].undo), before[p])

\* Only an open file is adrift, and one that nobody disturbed is there, empty.
Alone(p) ==
  /\ p \in adrift => proc[p].pc \in {"fill", "undoFill"}
  /\ calm[p] /\ proc[p].pc \in {"fill", "undoFill"} => file = Emptied /\ p \notin adrift

Good(p) == Formed(p) /\ (~torn => Named(p)) /\ Cleaning(p) /\ Restoring(p) /\ Alone(p)

IInv == WellTyped /\ (~torn => Consistent(file)) /\ \A p \in Procs : Good(p)

----------------------------------------------------------------------------
(* Sequences and the sets of their elements                                  *)

LEMMA SetOfConcat ==
  ASSUME NEW S, NEW a \in Seq(S), NEW b \in Seq(S)
  PROVE  a \o b \in Seq(S) /\ ToSet(a \o b) = ToSet(a) \cup ToSet(b)
<1>1. /\ a \o b \in Seq(S) /\ Len(a \o b) = Len(a) + Len(b)
      /\ \A k \in 1 .. Len(a) + Len(b) : (a \o b)[k] = IF k <= Len(a) THEN a[k] ELSE b[k - Len(a)]
  BY ConcatProperties
<1>2. /\ DOMAIN a = 1 .. Len(a) /\ DOMAIN b = 1 .. Len(b) /\ Len(a) \in Nat /\ Len(b) \in Nat
      /\ DOMAIN (a \o b) = 1 .. Len(a) + Len(b)
  BY <1>1, LenProperties
<1> DEFINE c == a \o b
<1> HIDE DEF c
<1>3. ASSUME NEW x \in ToSet(c) PROVE x \in ToSet(a) \cup ToSet(b)
  <2>1. PICK k \in 1 .. Len(a) + Len(b) : x = c[k]
    BY <1>2 DEF ToSet, c
  <2>2. CASE k <= Len(a)
    BY <1>1, <1>2, <2>1, <2>2 DEF ToSet, c
  <2>3. CASE ~(k <= Len(a))
    <3>1. k - Len(a) \in DOMAIN b /\ x = b[k - Len(a)]
      BY <1>1, <1>2, <2>1, <2>3 DEF c
    <3> QED BY <3>1 DEF ToSet
  <2> QED BY <2>2, <2>3
<1>4. ASSUME NEW x \in ToSet(a) PROVE x \in ToSet(c)
  <2>1. PICK k \in 1 .. Len(a) : x = a[k]
    BY <1>2 DEF ToSet
  <2>2. k \in 1 .. Len(a) + Len(b) /\ c[k] = x
    BY <1>1, <1>2, <2>1 DEF c
  <2> QED BY <1>2, <2>2 DEF ToSet, c
<1>5. ASSUME NEW x \in ToSet(b) PROVE x \in ToSet(c)
  <2>1. PICK k \in 1 .. Len(b) : x = b[k]
    BY <1>2 DEF ToSet
  <2>2. k + Len(a) \in 1 .. Len(a) + Len(b) /\ c[k + Len(a)] = x
    BY <1>1, <1>2, <2>1 DEF c
  <2> QED BY <1>2, <2>2 DEF ToSet, c
<1>6. ToSet(c) = ToSet(a) \cup ToSet(b)
  BY <1>3, <1>4, <1>5
<1> QED BY <1>1, <1>6 DEF c

LEMMA SetOfOne ==
  ASSUME NEW S, NEW x \in S
  PROVE  <<x>> \in Seq(S) /\ <<x>> # <<>> /\ Len(<<x>>) = 1 /\ ToSet(<<x>>) = {x} /\ <<x>>[1] = x
BY DEF ToSet

LEMMA SetOfNone == ToSet(<<>>) = {}
BY DEF ToSet

LEMMA SetOfTail ==
  ASSUME NEW S, NEW l \in Seq(S), l # <<>>
  PROVE  /\ Head(l) \in S /\ Tail(l) \in Seq(S) /\ Head(l) = l[1] /\ Len(Tail(l)) = Len(l) - 1
         /\ Len(l) \in Nat \ {0} /\ ToSet(l) = {Head(l)} \cup ToSet(Tail(l)) /\ ToSet(l) \subseteq S
<1>1. /\ Head(l) \in S /\ Tail(l) \in Seq(S) /\ Head(l) = l[1] /\ Len(Tail(l)) = Len(l) - 1
      /\ Len(l) \in Nat \ {0} /\ DOMAIN l = 1 .. Len(l) /\ DOMAIN Tail(l) = 1 .. Len(l) - 1
      /\ \A k \in 1 .. Len(l) - 1 : Tail(l)[k] = l[k + 1]
  OBVIOUS
<1> DEFINE t == Tail(l)
<1> HIDE DEF t
<1>2. ASSUME NEW x \in ToSet(l) PROVE x \in {Head(l)} \cup ToSet(t)
  <2>1. PICK k \in 1 .. Len(l) : x = l[k]
    BY <1>1 DEF ToSet
  <2>2. CASE k = 1
    BY <1>1, <2>1, <2>2
  <2>3. CASE k # 1
    <3>1. k - 1 \in DOMAIN t /\ t[k - 1] = x
      BY <1>1, <2>1, <2>3 DEF t
    <3> QED BY <3>1 DEF ToSet
  <2> QED BY <2>2, <2>3
<1>3. Head(l) \in ToSet(l)
  BY <1>1 DEF ToSet
<1>4. ASSUME NEW x \in ToSet(t) PROVE x \in ToSet(l)
  <2>1. PICK k \in 1 .. Len(l) - 1 : x = t[k]
    BY <1>1 DEF ToSet, t
  <2>2. k + 1 \in DOMAIN l /\ l[k + 1] = x
    BY <1>1, <2>1 DEF t
  <2> QED BY <2>2 DEF ToSet
<1>5. ToSet(l) \subseteq S
  BY DEF ToSet
<1> QED BY <1>1, <1>2, <1>3, <1>4, <1>5 DEF t

----------------------------------------------------------------------------
(* Steps of one process                                                      *)

\* A step of p sets only open files of the others adrift, and forgets no
\* writes that met.
Aside(p) ==
  /\ adrift' \in SUBSET Procs /\ \A q \in Procs \ {p} : q \in adrift' => q \in adrift \/ Filling(q)
  /\ mixed' \in BOOLEAN /\ (mixed => mixed')

LEMMA QuietAside ==
  ASSUME IInv, NEW p \in Procs, UNCHANGED <<adrift, mixed>>
  PROVE  Aside(p)
BY DEF IInv, WellTyped, Aside

LEMMA CloseAside ==
  ASSUME IInv, NEW p \in Procs, Close(p)
  PROVE  Aside(p) /\ p \notin adrift' /\ \A q \in Procs : q \in adrift' => q \in adrift
BY DEF IInv, WellTyped, Close, Aside

\* How a step of p changes what belongs to p.
Moves(p, d) ==
  /\ d \in ProcState /\ proc' = [proc EXCEPT ![p] = d]
  /\ \A q \in Procs \ {p} : before'[q] = before[q]
  /\ calm' \in [Procs -> BOOLEAN] /\ Aside(p)
  /\ \A q \in Procs \ {p} : calm'[q] => calm[q] /\ UNCHANGED stores /\ (q \in adrift' => q \in adrift)
  /\ before' \in [Procs -> {<<>>} \cup (Files \X Keychain \X Sdk)]
  /\ torn' \in BOOLEAN /\ (torn => torn')

\* Nothing that another process does changes what a process may rely on.
LEMMA OthersKeep ==
  ASSUME IInv, NEW p \in Procs, NEW d, Moves(p, d), NEW q \in Procs, q # p
  PROVE  Good(q)'
<1>1. /\ proc'[q] = proc[q] /\ before'[q] = before[q] /\ (calm'[q] => calm[q] /\ UNCHANGED stores)
      /\ (torn => torn') /\ (mixed => mixed') /\ Good(q)
      /\ (q \in adrift' => q \in adrift \/ Filling(q)) /\ (calm'[q] /\ q \in adrift' => q \in adrift)
  BY DEF Moves, Aside, IInv, WellTyped
<1>2. Formed(q)'
  BY <1>1 DEF Good, Formed, Cmd, List, NextWrite
<1>3. ~torn' => Named(q)'
  BY <1>1 DEF Good, Named, FilesNamed, Consistent, Sound, Cmd
<1>4. Cleaning(q)'
  BY <1>1 DEF Good, Cleaning, Cmd, stores
<1>5. Restoring(q)'
  <2> SUFFICES ASSUME Guarded(q)' PROVE Restoring(q)'
    BY DEF Restoring
  <2>1. calm'[q] /\ Guarded(q) /\ UNCHANGED stores
    BY <1>1 DEF Guarded, RollsBack, Cmd
  <2>2. UNCHANGED <<file, keychain, sdk>>
    BY <2>1 DEF stores
  <2> QED BY <1>1, <2>1, <2>2 DEF Good, Restoring, Cmd, IsSession, stores, KeychainRestored, SdkRestored, FileRestored
<1>6. Alone(q)'
  BY <1>1 DEF Good, Alone, Filling, Performing, stores
<1> QED BY <1>2, <1>3, <1>4, <1>5, <1>6 DEF Good

\* What is to show of a step.
LEMMA StepKeeps ==
  ASSUME IInv, NEW p \in Procs, NEW d, Moves(p, d),
         file' \in Files, keychain' \in Keychain, sdk' \in Sdk, ~torn' => Consistent(file)', Good(p)'
  PROVE  IInv'
<1>1. proc' \in [Procs -> ProcState]
  BY DEF Moves, IInv, WellTyped
<1>2. WellTyped'
  BY <1>1 DEF Moves, Aside, WellTyped
<1>3. \A q \in Procs : Good(q)'
  BY OthersKeep
<1> QED BY <1>2, <1>3 DEF IInv

----------------------------------------------------------------------------
(* A command ends                                                            *)

LEMMA NoCommandTyped ==
  /\ EmptyConfig \in Config /\ Absent \notin Config /\ Config \cap Unreadable = {} /\ Absent \notin Unreadable
  /\ Emptied # Torn /\ NoCommand \in CommandState /\ Sound(EmptyConfig) /\ NoProfile \notin Profile
<1>1. EmptyConfig \in Config /\ Sound(EmptyConfig)
  BY DEF EmptyConfig, Config, Sound, Listed
<1>2. Absent.default = "no file" /\ Torn.default = "unreadable" /\ Emptied.default = "empty"
  BY DEF Absent, Torn, Emptied, EmptyConfig
<1>3. \A c \in Config : c.default \in Names \cup {"none"}
  BY DEF Config, None
<1>4. /\ Absent \notin Config /\ Config \cap Unreadable = {} /\ Absent \notin Unreadable
      /\ Emptied # Torn
  BY <1>2, <1>3, NamesAssumption DEF Unreadable
<1>5. NoProfile \notin Profile
  BY NamesAssumption DEF NoProfile, Profile, None
<1>6. NoCommand \in CommandState
  BY <1>1 DEF NoCommand, CommandState, Kinds
<1> QED BY <1>1, <1>4, <1>5, <1>6

LEMMA FinishKeeps ==
  ASSUME IInv, NEW p \in Procs, NEW wrote \in BOOLEAN, Finish(p, wrote), proc[p].pc # "idle",
         ~wrote => UNCHANGED stores,
         file' \in Files, keychain' \in Keychain, sdk' \in Sdk, ~torn' => Consistent(file)',
         torn' \in BOOLEAN, torn => torn', Aside(p), p \notin adrift',
         \A q \in Procs : q \in adrift' => q \in adrift
  PROVE  IInv'
<1> DEFINE d == [IdleProc EXCEPT !.n = proc[p].n + 1]
<1>1. proc[p] \in ProcState /\ proc[p].n < MaxCommands /\ WellTyped
  BY DEF IInv, WellTyped, Good, Formed
<1>2. proc[p].n + 1 \in 0 .. MaxCommands
  BY <1>1, BoundAssumption DEF ProcState
<1>3. <<>> \in Seq(Write)
  OBVIOUS
<1>4. d \in ProcState /\ d.pc = "idle" /\ d.cmd = NoCommand
  BY <1>2, <1>3, NoCommandTyped DEF IdleProc, ProcState, Pcs
<1>5. proc' = [proc EXCEPT ![p] = d]
  BY DEF Finish
<1> HIDE DEF d
<1>6. proc'[p] = d
  BY <1>1, <1>5 DEF WellTyped
<1>7. Moves(p, d)
  BY <1>1, <1>4, <1>5 DEF Moves, Finish, Kept, WellTyped
<1>8. Good(p)'
  BY <1>4, <1>6 DEF Good, Formed, Named, Cleaning, Restoring, Alone, Guarded, RollsBack, Cmd, NoCommand, Doing,
                    Undoing, None
<1> QED BY <1>7, <1>8, StepKeeps

----------------------------------------------------------------------------
(* A command begins                                                          *)

LoadedCommand(kind, n, profile, config, f) ==
  [Command(kind, n, profile) EXCEPT !.config = config, !.file = f]

LEMMA CommandIs ==
  ASSUME NEW kind \in Kinds, NEW n \in Names \cup {None}, NEW profile \in Profile \cup {NoProfile},
         NEW config \in Config, NEW f \in Config \cup {Absent}
  PROVE  LET c == LoadedCommand(kind, n, profile, config, f) IN
         /\ c \in CommandState /\ c.kind = kind /\ c.name = n /\ c.profile = profile
         /\ c.config = config /\ c.file = f
<1> DEFINE c == LoadedCommand(kind, n, profile, config, f)
<1>1. c.kind = kind /\ c.name = n /\ c.profile = profile /\ c.config = config /\ c.file = f
  BY DEF LoadedCommand, Command, NoCommand
<1>2. c \in CommandState
  BY NoCommandTyped DEF LoadedCommand, Command, CommandState
<1> QED BY <1>1, <1>2

LEMMA LoadedIs ==
  ASSUME IInv, file \notin Unreadable
  PROVE  /\ Loaded(file) \in Config /\ file \in Config \cup {Absent}
         /\ ~torn => Sound(Loaded(file)) /\ Consistent(file)
<1>1. file \in Files /\ (~torn => Consistent(file))
  BY DEF IInv, WellTyped
<1> QED BY <1>1, NoCommandTyped DEF Loaded, Files, Consistent

LEMMA BeginKeeps ==
  ASSUME IInv, NEW p \in Procs,
         NEW kind \in Kinds, NEW n \in Names \cup {None}, NEW profile \in Profile \cup {NoProfile},
         Begin(p, Command(kind, n, profile)),
         kind \in ListedKinds => n \in Listed(Loaded(file)) /\ profile = Loaded(file).profiles[n],
         kind \in {"set", "session"} => n \in Names /\ profile \in Profile,
         kind = "session" => Listed(Loaded(file)) # {}
  PROVE  IInv'
<1> DEFINE c == LoadedCommand(kind, n, profile, Loaded(file), file)
           d == [proc[p] EXCEPT !.pc = "loaded", !.cmd = c]
<1>1. /\ proc[p].pc = "idle" /\ proc[p].n < MaxCommands /\ file \notin Unreadable
      /\ proc' = [proc EXCEPT ![p].pc = "loaded", ![p].cmd = c]
      /\ before' = [before EXCEPT ![p] = stores]
      /\ calm' = [calm EXCEPT ![p] = TRUE] /\ UNCHANGED <<stores, torn, adrift, mixed>>
  BY DEF Begin, LoadedCommand
<1>2. WellTyped /\ proc[p] \in ProcState
  BY DEF IInv, WellTyped
<1>3. /\ c \in CommandState /\ c.kind = kind /\ c.name = n /\ c.profile = profile
      /\ c.config = Loaded(file) /\ c.file = file
  BY <1>1, LoadedIs, CommandIs
<1> HIDE DEF c
<1>4. proc' = [proc EXCEPT ![p] = d]
  BY <1>1, <1>2 DEF WellTyped
<1>5. d \in ProcState /\ d.pc = "loaded" /\ d.cmd = c /\ d.n = proc[p].n
  BY <1>2, <1>3 DEF ProcState, Pcs
<1> HIDE DEF d
<1>6. UNCHANGED <<file, keychain, sdk>>
  BY <1>1 DEF stores
<1>7. Moves(p, d)
  <2>1. stores \in Files \X Keychain \X Sdk
    BY <1>2 DEF stores, WellTyped
  <2> QED BY <1>1, <1>2, <1>4, <1>5, <2>1, QuietAside DEF Moves, WellTyped
<1>8. proc'[p] = d /\ before'[p] = stores' /\ Cmd(p)' = c
  BY <1>1, <1>2, <1>4, <1>5 DEF WellTyped, Cmd
<1>9. Good(p)'
  <2>1. Formed(p)'
    BY <1>1, <1>3, <1>5, <1>8 DEF Formed, Doing, Undoing
  <2>2. ~torn' => Named(p)'
    BY <1>1, <1>3, <1>5, <1>8, LoadedIs DEF Named, Consistent, Sound, Doing, Undoing
  <2>3. Cleaning(p)'
    BY <1>5, <1>8 DEF Cleaning, Doing, Undoing
  <2>4. Restoring(p)'
    BY <1>3, <1>5, <1>6, <1>8 DEF Restoring, Doing, Undoing
  <2>5. Alone(p)'
    BY <1>1, <1>5, <1>8 DEF IInv, Good, Alone
  <2> QED BY <2>1, <2>2, <2>3, <2>4, <2>5 DEF Good
<1>10. ~torn' => Consistent(file)'
  BY <1>1, <1>6, LoadedIs DEF Consistent, Sound
<1> QED BY <1>2, <1>6, <1>7, <1>9, <1>10, StepKeeps DEF WellTyped

LEMMA BeginCommandKeeps ==
  ASSUME IInv, NEW p \in Procs, BeginCommand(p)
  PROVE  IInv'
<1>1. CASE BeginSetProfile(p)
  <2> DEFINE profile(n, i, m) == LET old == Loaded(file).profiles[n] IN
               [instance |-> IF i = None THEN old.instance ELSE i, method |-> IF m = None THEN old.method ELSE m]
  <2>1. PICK n \in Names, i \in Instances \cup {None}, m \in Methods \cup {None} :
          /\ Loaded(file).profiles[n] = NoProfile => i # None /\ m # None
          /\ Begin(p, Command("set", n, profile(n, i, m)))
    BY <1>1 DEF BeginSetProfile
  <2>2. profile(n, i, m) \in Profile
    <3>1. Loaded(file).profiles[n] \in Profile \cup {NoProfile}
      BY <2>1, LoadedIs DEF Begin, Config
    <3> QED BY <2>1, <3>1, MethodsAssumption DEF Profile
  <2> HIDE DEF profile
  <2> QED BY <2>1, <2>2, BeginKeeps DEF Kinds, ListedKinds
<1>2. CASE BeginSession(p)
  <2> DEFINE profile(i) == [instance |-> i, method |-> "session"]
  <2>1. PICK source \in Listed(Loaded(file)), n \in Names, i \in Instances :
          Begin(p, Command("session", n, profile(i)))
    BY <1>2 DEF BeginSession
  <2>2. profile(i) \in Profile
    BY DEF Profile, AllMethods
  <2> HIDE DEF profile
  <2> QED BY <2>1, <2>2, BeginKeeps DEF Kinds, ListedKinds
<1>3. CASE Begin(p, Command("import", None, NoProfile))
  BY <1>3, BeginKeeps DEF Kinds, ListedKinds
<1>4. ASSUME NEW kind \in ListedKinds, BeginListed(p, kind)
      PROVE  IInv'
  <2>1. PICK n \in Listed(Loaded(file)) : Begin(p, Command(kind, n, Loaded(file).profiles[n]))
    BY <1>4 DEF BeginListed
  <2>2. n \in Names /\ Loaded(file).profiles[n] \in Profile \cup {NoProfile}
    BY <2>1, LoadedIs DEF Begin, Config, Listed
  <2> QED BY <1>4, <2>1, <2>2, BeginKeeps DEF Kinds, ListedKinds
<1> QED BY <1>1, <1>2, <1>3, <1>4 DEF BeginCommand, ListedKinds

----------------------------------------------------------------------------
(* A command makes its plan                                                  *)

Planned(p, todo, undo) ==
  [proc[p] EXCEPT !.pc = "do", !.todo = todo, !.undo = undo,
                  !.cmd = Command(Cmd(p).kind, Cmd(p).name, Cmd(p).profile)]

\* What the plan of a delete, and of a command that rolls back, has to be.
DeletePlan(p, todo, undo) ==
  Cmd(p).kind = "delete" =>
    /\ undo = <<>> /\ Cmd(p).name \in Names
    /\ \A w \in ToSet(todo) : Deletes(w, Cmd(p).name)
    /\ \A t \in CredentialTypes : \E w \in ToSet(todo) : w.what = "keychain" /\ w.type = t
RestoringPlan(p, todo, undo) ==
  Guarded(p) =>
    /\ \A w \in ToSet(undo) : Restores(w, stores)
    /\ \A w \in ToSet(todo) : Covered(w, ToSet(undo), IsSession(p))
    /\ IsSession(p) => SessionFile(todo)

LEMMA PlanKeeps ==
  ASSUME IInv, NEW p \in Procs, NEW todo \in Seq(Write), NEW undo \in Seq(Write),
         proc[p].pc = "loaded", Plan(p, todo, undo),
         \A w \in ToSet(todo) \cup ToSet(undo) : GoodWrite(w),
         ~torn => FilesNamed(ToSet(todo) \cup ToSet(undo)),
         DeletePlan(p, todo, undo), RestoringPlan(p, todo, undo)
  PROVE  IInv'
<1> DEFINE d == Planned(p, todo, undo)
<1>1. WellTyped /\ proc[p] \in ProcState /\ Good(p) /\ Cmd(p) \in CommandState
  BY DEF IInv, WellTyped, ProcState, Cmd
<1>2. /\ Command(Cmd(p).kind, Cmd(p).name, Cmd(p).profile) \in CommandState
      /\ Command(Cmd(p).kind, Cmd(p).name, Cmd(p).profile).kind = Cmd(p).kind
      /\ Command(Cmd(p).kind, Cmd(p).name, Cmd(p).profile).name = Cmd(p).name
  BY <1>1, NoCommandTyped DEF Command, NoCommand, CommandState
<1>3. proc' = [proc EXCEPT ![p] = d] /\ UNCHANGED <<stores, adrift, history>>
  BY <1>1 DEF Plan, Planned, WellTyped
<1>4. /\ d \in ProcState /\ d.pc = "do" /\ d.todo = todo /\ d.undo = undo /\ d.n = proc[p].n
      /\ d.cmd.kind = Cmd(p).kind /\ d.cmd.name = Cmd(p).name
  BY <1>1, <1>2 DEF Planned, ProcState, Pcs
<1> HIDE DEF d
<1>5. UNCHANGED <<file, keychain, sdk, before, calm, torn, adrift, mixed>>
  BY <1>3 DEF stores, history
<1>6. Moves(p, d)
  BY <1>1, <1>3, <1>4, <1>5, QuietAside DEF Moves, WellTyped
<1>7. proc'[p] = d /\ Cmd(p)' = d.cmd
  BY <1>1, <1>3 DEF WellTyped, Cmd
<1>8. Formed(p)'
  BY <1>1, <1>4, <1>7 DEF Formed, Good
<1>9. ~torn' => Named(p)'
  BY <1>4, <1>5, <1>7 DEF Named, FilesNamed, Consistent, Sound
<1>10. Cleaning(p)'
  BY <1>4, <1>5, <1>7 DEF Cleaning, DeletePlan, Doing
<1>11. Restoring(p)'
  <2> SUFFICES ASSUME Guarded(p)' PROVE Restoring(p)'
    BY DEF Restoring
  <2>1. Guarded(p) /\ IsSession(p)' = IsSession(p)
    BY <1>4, <1>5, <1>7 DEF Guarded, RollsBack, Cmd, IsSession
  <2>2. before'[p] = stores /\ stores' = stores
    BY <1>1, <1>3, <1>5, <2>1 DEF Good, Restoring
  <2>3. /\ before'[p][1] = file' /\ before'[p][2] = keychain' /\ before'[p][3] = sdk' /\ before'[p] # <<>>
    BY <1>5, <2>2 DEF stores
  <2>4. /\ \A w \in ToSet(undo) : Restores(w, before'[p])
        /\ \A w \in ToSet(todo) : Covered(w, ToSet(undo), IsSession(p))
        /\ IsSession(p) => SessionFile(todo)
    BY <2>1, <2>2 DEF RestoringPlan
  <2>5. /\ KeychainRestored(ToSet(undo), before[p])' /\ SdkRestored(ToSet(undo), before[p])'
        /\ FileRestored(ToSet(undo), before[p])'
    BY <1>5, <2>3 DEF KeychainRestored, SdkRestored, FileRestored
  <2> QED BY <1>4, <1>7, <2>1, <2>3, <2>4, <2>5 DEF Restoring, Doing, Undoing, KeychainRestored, SdkRestored, FileRestored
<1>12. ~torn' => Consistent(file)'
  BY <1>5 DEF IInv, Consistent, Sound
<1>13. Alone(p)'
  BY <1>1, <1>4, <1>5, <1>7 DEF Good, Alone
<1> QED BY <1>1, <1>5, <1>6, <1>8, <1>9, <1>10, <1>11, <1>12, <1>13, StepKeeps DEF WellTyped, Good

----------------------------------------------------------------------------
(* The writes                                                                *)

LEMMA NoWriteTyped ==
  /\ NoWrite \in Write /\ NoSecret \in Secrets /\ NoSecret \notin Secret
  /\ NoWrite.what = "browser" /\ NoWrite.name = None /\ NoWrite.type = None /\ NoWrite.config = EmptyConfig
  /\ NoWrite.secret = NoSecret /\ NoWrite.lax = FALSE
<1>1. NoSecret \notin Secret
  BY NamesAssumption DEF NoSecret, Secret, None
<1>2. [n \in Names |-> NoAlias] \in Sdk
  BY DEF Sdk
<1>3. NoWrite \in Write
  BY <1>2, NoCommandTyped DEF NoWrite, Write, Secrets
<1> QED BY <1>1, <1>3 DEF NoWrite, Secrets

LEMMA FileWrite ==
  ASSUME NEW c \in Config \cup {Absent}
  PROVE  ToFile(c) \in Write /\ ToFile(c).what = "file" /\ ToFile(c).config = c /\ ToFile(c).lax = FALSE
BY NoWriteTyped DEF ToFile, Write

IsPut(w, n, t, s) ==
  w \in Write /\ w.what = "keychain" /\ w.name = n /\ w.type = t /\ w.secret = s /\ w.lax = FALSE

LEMMA KeychainWrite ==
  ASSUME NEW n \in Names, NEW t \in CredentialTypes, NEW s \in Secrets
  PROVE  IsPut(ToKeychain(n, t, s), n, t, s)
BY NoWriteTyped DEF ToKeychain, Write, Secrets, IsPut

LEMMA SdkWrite ==
  ASSUME NEW a \in Sdk
  PROVE  /\ ToSdk(a) \in Write /\ ToSdk(a).what = "sdk" /\ ToSdk(a).aliases = a
         /\ ToSdk(a).lax = FALSE
BY NoWriteTyped DEF ToSdk, Write

----------------------------------------------------------------------------
(* profile add, edit, default, output                                        *)

LEMMA OneFilePlan ==
  ASSUME IInv, NEW p \in Procs, NEW c \in Config, proc[p].pc = "loaded",
         Plan(p, <<ToFile(c)>>, <<>>), Cmd(p).kind \in {"set", "default", "output"},
         ~torn => Sound(c)
  PROVE  IInv'
<1> DEFINE w == ToFile(c)
           todo == <<w>>
<1>1. w \in Write /\ w.what = "file" /\ w.config = c /\ w.lax = FALSE
  BY FileWrite
<1> HIDE DEF w
<1>2. todo \in Seq(Write) /\ ToSet(todo) = {w} /\ <<>> \in Seq(Write) /\ ToSet(<<>>) = {}
  BY <1>1, SetOfOne, SetOfNone
<1>3. Plan(p, todo, <<>>)
  BY DEF w
<1> HIDE DEF todo
<1>4. \A x \in ToSet(todo) \cup ToSet(<<>>) : GoodWrite(x)
  BY <1>1, <1>2 DEF GoodWrite
<1>5. ~torn => FilesNamed(ToSet(todo) \cup ToSet(<<>>))
  BY <1>1, <1>2 DEF FilesNamed, Consistent
<1>6. DeletePlan(p, todo, <<>>) /\ RestoringPlan(p, todo, <<>>)
  BY DEF DeletePlan, RestoringPlan, Guarded, RollsBack, Cmd
<1> QED BY <1>2, <1>3, <1>4, <1>5, <1>6, PlanKeeps

\* What a command that is running knows.
LEMMA Knows ==
  ASSUME IInv, NEW p \in Procs, proc[p].pc = "loaded"
  PROVE  /\ Cmd(p) \in CommandState /\ Cmd(p).config \in Config /\ Cmd(p).file \in Config \cup {Absent}
         /\ Cmd(p).kind \in ListedKinds => /\ Cmd(p).name \in Listed(Cmd(p).config) /\ Cmd(p).name \in Names
                                           /\ Cmd(p).profile = Cmd(p).config.profiles[Cmd(p).name]
                                           /\ Cmd(p).profile \in Profile
         /\ Cmd(p).kind \in {"set", "session"} => Cmd(p).name \in Names /\ Cmd(p).profile \in Profile
         /\ Cmd(p).kind = "session" => Listed(Cmd(p).config) # {}
         /\ ~torn => Sound(Cmd(p).config) /\ Consistent(Cmd(p).file)
         /\ keychain \in Keychain /\ sdk \in Sdk /\ None \notin Names
         /\ Guarded(p) => before[p] = stores /\ Cmd(p).file = file
<1>1. WellTyped /\ Good(p) /\ Cmd(p) \in CommandState
  BY DEF IInv, WellTyped, ProcState, Cmd
<1>2. Cmd(p).config \in Config /\ Cmd(p).file \in Config \cup {Absent}
  BY <1>1 DEF CommandState
<1>3. \A n \in Listed(Cmd(p).config) : n \in Names /\ Cmd(p).config.profiles[n] \in Profile
  BY <1>2 DEF Listed, Config
<1>4. None \notin Names
  BY NamesAssumption DEF None
<1> QED BY <1>1, <1>2, <1>3, <1>4 DEF Good, Formed, Named, Restoring, WellTyped

LEMMA Put ==
  ASSUME NEW c \in Config, NEW n \in Names, NEW profile \in Profile \cup {NoProfile}
  PROVE  /\ PutProfile(c, n, profile) \in Config /\ PutProfile(c, n, profile).default = c.default
         /\ PutProfile(c, n, profile).profiles[n] = profile
         /\ \A m \in Names \ {n} : PutProfile(c, n, profile).profiles[m] = c.profiles[m]
         /\ \A m \in Names : m # n => (m \in Listed(PutProfile(c, n, profile)) <=> m \in Listed(c))
         /\ n \in Listed(PutProfile(c, n, profile)) <=> profile # NoProfile
<1> DEFINE q == PutProfile(c, n, profile)
<1>1. q.default = c.default /\ q.profiles = [c.profiles EXCEPT ![n] = profile] /\ q \in Config
  BY DEF PutProfile, Config
<1>2. c.profiles \in [Names -> Profile \cup {NoProfile}]
  BY DEF Config
<1> HIDE DEF q
<1>3. q.profiles[n] = profile /\ \A m \in Names \ {n} : q.profiles[m] = c.profiles[m]
  BY <1>1, <1>2
<1>4. /\ \A m \in Names : m # n => (m \in Listed(q) <=> m \in Listed(c))
      /\ n \in Listed(q) <=> profile # NoProfile
  BY <1>3 DEF Listed
<1> QED BY <1>1, <1>3, <1>4 DEF q

LEMMA Defaulted ==
  ASSUME NEW c \in Config, NEW d \in Names \cup {None}
  PROVE  /\ [c EXCEPT !.default = d] \in Config /\ [c EXCEPT !.default = d].default = d
         /\ Listed([c EXCEPT !.default = d]) = Listed(c)
BY DEF Config, Listed

LEMMA SetProfileKeeps ==
  ASSUME IInv, NEW p \in Procs, SetProfile(p)
  PROVE  IInv'
<1> DEFINE n == Cmd(p).name
           c == PutProfile(Cmd(p).config, n, Cmd(p).profile)
           d == IF c.default = None \/ Listed(c) = {n} THEN n ELSE c.default
           e == [c EXCEPT !.default = d]
<1>1. /\ proc[p].pc = "loaded" /\ Cmd(p).kind = "set"
      /\ Plan(p, <<ToFile([c EXCEPT !.default = IF c.default = None \/ Listed(c) = {n} THEN n ELSE @])>>, <<>>)
  BY DEF SetProfile, Running, Cmd
<1>2. [c EXCEPT !.default = IF c.default = None \/ Listed(c) = {n} THEN n ELSE @] = e
  OBVIOUS
<1>3. n \in Names /\ Cmd(p).profile \in Profile /\ Cmd(p).config \in Config
      /\ (~torn => Sound(Cmd(p).config)) /\ NoProfile \notin Profile
  BY <1>1, Knows, NoCommandTyped
<1>4. /\ c \in Config /\ c.default = Cmd(p).config.default /\ n \in Listed(c)
      /\ \A m \in Names : m # n => (m \in Listed(c) <=> m \in Listed(Cmd(p).config))
  BY <1>3, Put
<1>5. c.default \in Names \cup {None}
  BY <1>4 DEF Config
<1>6. d \in Names \cup {None}
  BY <1>3, <1>5
<1>7. ~torn => d \in Listed(c)
  <2> HIDE DEF n
  <2>1. CASE c.default = None \/ Listed(c) = {n}
    BY <1>4, <2>1
  <2>2. CASE ~(c.default = None \/ Listed(c) = {n})
    <3>1. ~torn => c.default \in Listed(Cmd(p).config)
      BY <1>3, <1>4, <2>2 DEF Sound
    <3>2. Listed(Cmd(p).config) \subseteq Names
      BY DEF Listed
    <3> HIDE DEF c
    <3> QED BY <1>4, <2>2, <3>1, <3>2
  <2> QED BY <2>1, <2>2
<1> HIDE DEF c, d
<1>8. e \in Config /\ e.default = d /\ Listed(e) = Listed(c)
  BY <1>4, <1>6, Defaulted
<1> HIDE DEF e
<1>9. ~torn => Sound(e)
  BY <1>7, <1>8 DEF Sound
<1>10. Plan(p, <<ToFile(e)>>, <<>>)
  BY <1>1, <1>2
<1> QED BY <1>1, <1>8, <1>9, <1>10, OneFilePlan

LEMMA UseProfileKeeps ==
  ASSUME IInv, NEW p \in Procs, UseProfile(p)
  PROVE  IInv'
<1> DEFINE e == [Cmd(p).config EXCEPT !.default = Cmd(p).name]
<1>1. proc[p].pc = "loaded" /\ Cmd(p).kind = "default" /\ Plan(p, <<ToFile(e)>>, <<>>)
  BY DEF UseProfile, Running, Cmd
<1>2. Cmd(p).config \in Config /\ Cmd(p).name \in Listed(Cmd(p).config) /\ Cmd(p).name \in Names
  BY <1>1, Knows DEF ListedKinds
<1>3. e \in Config /\ e.default = Cmd(p).name /\ Listed(e) = Listed(Cmd(p).config)
  BY <1>2, Defaulted
<1> HIDE DEF e
<1>4. Sound(e)
  BY <1>2, <1>3 DEF Sound
<1> QED BY <1>1, <1>3, <1>4, OneFilePlan

LEMMA SetOutputKeeps ==
  ASSUME IInv, NEW p \in Procs, SetOutput(p)
  PROVE  IInv'
<1>1. proc[p].pc = "loaded" /\ Cmd(p).kind = "output" /\ Plan(p, <<ToFile(Cmd(p).config)>>, <<>>)
  BY DEF SetOutput, Running, Cmd
<1>2. Cmd(p).config \in Config /\ (~torn => Sound(Cmd(p).config))
  BY <1>1, Knows DEF ListedKinds
<1> QED BY <1>1, <1>2, OneFilePlan

----------------------------------------------------------------------------
(* Sequences of writes to the keychain                                       *)

IsTable(s, m, S) ==
  /\ s \in Seq(S) /\ Len(s) = m /\ DOMAIN s = 1 .. m
  /\ \A x \in ToSet(s) : \E k \in 1 .. m : x = s[k]
  /\ \A k \in 1 .. m : s[k] \in ToSet(s)

LEMMA Tabulated ==
  ASSUME NEW S, NEW m \in Nat, NEW s \in [1 .. m -> S]
  PROVE  IsTable(s, m, S)
BY DEF ToSet, IsTable

LEMMA TypesTable ==
  ASSUME NEW types \in Seq(CredentialTypes)
  PROVE  /\ Len(types) \in Nat /\ DOMAIN types = 1 .. Len(types)
         /\ \A k \in 1 .. Len(types) : types[k] \in CredentialTypes /\ types[k] \in ToSet(types)
         /\ \A t \in ToSet(types) : \E k \in 1 .. Len(types) : t = types[k]
BY DEF ToSet

\* One credential after the other, for one profile.
Puts(n, types, s) == [k \in 1 .. Len(types) |-> ToKeychain(n, types[k], s)]
ArePuts(l, n, types, s) ==
  /\ l \in Seq(Write) /\ Len(l) = Len(types)
  /\ \A w \in ToSet(l) : IsPut(w, n, w.type, s) /\ w.type \in ToSet(types) /\ w.type \in CredentialTypes

LEMMA PutsAre ==
  ASSUME NEW n \in Names, NEW types \in Seq(CredentialTypes), NEW s \in Secrets
  PROVE  ArePuts(Puts(n, types, s), n, types, s)
<1> DEFINE l == Puts(n, types, s)
           m == Len(types)
<1>1. /\ m \in Nat /\ DOMAIN types = 1 .. m
      /\ \A k \in 1 .. m : types[k] \in CredentialTypes /\ types[k] \in ToSet(types)
  BY TypesTable
<1>2. l = [k \in 1 .. m |-> ToKeychain(n, types[k], s)]
  BY DEF Puts
<1>3. ASSUME NEW k \in 1 .. m PROVE IsPut(l[k], n, types[k], s)
  BY <1>1, <1>2, KeychainWrite
<1> HIDE DEF m, l
<1>4. l \in [1 .. m -> Write]
  BY <1>2, <1>3 DEF IsPut
<1>5. IsTable(l, m, Write)
  BY <1>1, <1>4, Tabulated
<1>6. ASSUME NEW w \in ToSet(l)
      PROVE  IsPut(w, n, w.type, s) /\ w.type \in ToSet(types) /\ w.type \in CredentialTypes
  <2>1. PICK k \in 1 .. m : w = l[k]
    BY <1>5 DEF IsTable
  <2> QED BY <1>1, <1>3, <2>1 DEF IsPut
<1> QED BY <1>5, <1>6 DEF l, m, ArePuts, IsTable

Deletion(n, t) == [ToKeychain(n, t, NoSecret) EXCEPT !.lax = TRUE]
IsDeletion(w, n, t) ==
  w \in Write /\ w.what = "keychain" /\ w.name = n /\ w.type = t /\ w.secret = NoSecret
AreDeletions(l, n, types) ==
  /\ l \in Seq(Write)
  /\ \A w \in ToSet(l) : IsDeletion(w, n, w.type) /\ w.type \in CredentialTypes
  /\ \A t \in ToSet(types) : \E w \in ToSet(l) : IsDeletion(w, n, t)

LEMMA DeletionIs ==
  ASSUME NEW n \in Names, NEW t \in CredentialTypes
  PROVE  IsDeletion(Deletion(n, t), n, t)
<1> DEFINE w == ToKeychain(n, t, NoSecret)
<1>1. IsPut(w, n, t, NoSecret)
  BY KeychainWrite DEF Secrets
<1> HIDE DEF w
<1>2. Deletion(n, t) = [w EXCEPT !.lax = TRUE]
  BY DEF Deletion, w
<1> QED BY <1>1, <1>2 DEF IsPut, IsDeletion, Write

LEMMA DeleteAllIs ==
  ASSUME NEW n \in Names, NEW types \in Seq(CredentialTypes)
  PROVE  AreDeletions(DeleteAll(n, types), n, types)
<1> DEFINE l == DeleteAll(n, types)
           m == Len(types)
<1>1. /\ m \in Nat /\ DOMAIN types = 1 .. m
      /\ \A k \in 1 .. m : types[k] \in CredentialTypes
      /\ \A t \in ToSet(types) : \E k \in 1 .. m : t = types[k]
  BY TypesTable
<1>2. l = [k \in 1 .. m |-> Deletion(n, types[k])]
  BY DEF DeleteAll, Deletion
<1>3. ASSUME NEW k \in 1 .. m PROVE IsDeletion(l[k], n, types[k])
  BY <1>1, <1>2, DeletionIs
<1> HIDE DEF m, l
<1>4. l \in [1 .. m -> Write]
  BY <1>2, <1>3 DEF IsDeletion
<1>5. IsTable(l, m, Write)
  BY <1>1, <1>4, Tabulated
<1>6. ASSUME NEW w \in ToSet(l) PROVE IsDeletion(w, n, w.type) /\ w.type \in CredentialTypes
  <2>1. PICK k \in 1 .. m : w = l[k]
    BY <1>5 DEF IsTable
  <2> QED BY <1>1, <1>3, <2>1 DEF IsDeletion
<1>7. ASSUME NEW t \in ToSet(types) PROVE \E w \in ToSet(l) : IsDeletion(w, n, t)
  <2>1. PICK k \in 1 .. m : t = types[k]
    BY <1>1
  <2> QED BY <1>3, <1>5, <2>1 DEF IsTable
<1> QED BY <1>5, <1>6, <1>7 DEF l, AreDeletions, IsTable

LEMMA DeletedTypesAre == DeletedTypes \in Seq(CredentialTypes) /\ ToSet(DeletedTypes) = CredentialTypes
<1>1. DeletedTypes \in Seq(CredentialTypes)
  BY DEF DeletedTypes, CredentialTypes
<1>2. /\ DOMAIN DeletedTypes = 1 .. 5 /\ DeletedTypes[1] = "password" /\ DeletedTypes[2] = "api_token"
      /\ DeletedTypes[3] = "client_secret" /\ DeletedTypes[4] = "oauth_token"
      /\ DeletedTypes[5] = "native_session"
  BY DEF DeletedTypes
<1> DEFINE l == DeletedTypes
<1> HIDE DEF l
<1>3. CredentialTypes \subseteq ToSet(l)
  BY <1>2 DEF ToSet, CredentialTypes, l
<1>4. ToSet(l) \subseteq CredentialTypes
  BY <1>1 DEF ToSet, l
<1> QED BY <1>3, <1>4 DEF l

\* credential_types_for_auth names types of credentials, at most two.
LEMMA TypesForAre ==
  ASSUME NEW m
  PROVE  TypesFor(m) \in Seq(CredentialTypes)
<1>1. /\ <<"password">> \in Seq(CredentialTypes) /\ <<"api_token">> \in Seq(CredentialTypes)
      /\ <<"client_secret">> \in Seq(CredentialTypes) /\ <<"client_secret", "password">> \in Seq(CredentialTypes)
      /\ <<"oauth_token">> \in Seq(CredentialTypes) /\ <<"native_session">> \in Seq(CredentialTypes)
      /\ <<>> \in Seq(CredentialTypes)
  BY DEF CredentialTypes
<1> QED BY <1>1 DEF TypesFor

----------------------------------------------------------------------------
(* profile delete                                                            *)

LEMMA DeleteProfileKeeps ==
  ASSUME IInv, NEW p \in Procs, DeleteProfile(p)
  PROVE  IInv'
<1> DEFINE n == Cmd(p).name
           c == PutProfile(Cmd(p).config, n, NoProfile)
           e(d) == [c EXCEPT !.default = d]
           f(d) == <<ToFile(e(d))>>
           l == DeleteAll(n, DeletedTypes)
<1>1. proc[p].pc = "loaded" /\ Cmd(p).kind = "delete"
  BY DEF DeleteProfile, Running, Cmd
<1>2. PICK d \in ReplacedDefault(c, n) : Plan(p, f(d) \o l, <<>>)
  BY DEF DeleteProfile
<1>3. n \in Names /\ Cmd(p).config \in Config /\ None \notin Names /\ (~torn => Sound(Cmd(p).config))
  BY <1>1, Knows DEF ListedKinds
<1>4. /\ c \in Config /\ c.default = Cmd(p).config.default /\ n \notin Listed(c)
      /\ \A m \in Names : m # n => (m \in Listed(c) <=> m \in Listed(Cmd(p).config))
  BY <1>3, Put
<1>5. d \in Names \cup {None} /\ (~torn => d \in Listed(c) \/ (d = None /\ (mixed \/ Listed(c) = {})))
  <2>1. Listed(c) \subseteq Names /\ c.default \in Names \cup {None} /\ Listed(Cmd(p).config) \subseteq Names
    BY <1>4 DEF Listed, Config
  <2> HIDE DEF c, n
  <2> QED BY <1>2, <1>3, <1>4, <2>1 DEF ReplacedDefault, Sound
<1> HIDE DEF c
<1>6. e(d) \in Config /\ e(d).default = d /\ Listed(e(d)) = Listed(c)
  BY <1>4, <1>5, Defaulted
<1>7. ~torn => Sound(e(d))
  BY <1>5, <1>6 DEF Sound
<1> HIDE DEF e
<1>8. /\ ToFile(e(d)) \in Write /\ ToFile(e(d)).what = "file" /\ ToFile(e(d)).config = e(d)
      /\ ToFile(e(d)).lax = FALSE
  BY <1>6, FileWrite
<1>9. f(d) \in Seq(Write) /\ ToSet(f(d)) = {ToFile(e(d))}
  BY <1>8, SetOfOne
<1>10. /\ l \in Seq(Write)
       /\ \A w \in ToSet(l) : w.what = "keychain" /\ w.name = n /\ w.secret = NoSecret /\ w.type \in CredentialTypes
       /\ \A t \in CredentialTypes : \E w \in ToSet(l) : w.what = "keychain" /\ w.type = t
  <2>1. AreDeletions(l, n, DeletedTypes) /\ ToSet(DeletedTypes) = CredentialTypes
    BY <1>3, DeletedTypesAre, DeleteAllIs
  <2> QED BY <2>1 DEF AreDeletions, IsDeletion
<1> HIDE DEF f, l
<1> DEFINE todo == f(d) \o l
<1>11. todo \in Seq(Write) /\ ToSet(todo) = {ToFile(e(d))} \cup ToSet(l) /\ Plan(p, todo, <<>>)
  BY <1>2, <1>9, <1>10, SetOfConcat
<1> HIDE DEF todo
<1>12. <<>> \in Seq(Write) /\ ToSet(<<>>) = {}
  BY SetOfNone
<1>13. \A w \in ToSet(todo) \cup ToSet(<<>>) : GoodWrite(w)
  BY <1>3, <1>8, <1>10, <1>11, <1>12 DEF GoodWrite
<1>14. ~torn => FilesNamed(ToSet(todo) \cup ToSet(<<>>))
  BY <1>7, <1>8, <1>10, <1>11, <1>12 DEF FilesNamed, Consistent
<1>15. DeletePlan(p, todo, <<>>)
  BY <1>3, <1>8, <1>10, <1>11 DEF DeletePlan, Deletes
<1>16. RestoringPlan(p, todo, <<>>)
  BY <1>1 DEF RestoringPlan, Guarded, RollsBack, Cmd
<1> QED BY <1>1, <1>11, <1>12, <1>13, <1>14, <1>15, <1>16, PlanKeeps

----------------------------------------------------------------------------
(* auth login, logout, session forget                                        *)

LEMMA SetOfTwo ==
  ASSUME NEW S, NEW x \in S, NEW y \in S
  PROVE  <<x, y>> \in Seq(S) /\ ToSet(<<x, y>>) = {x, y} /\ Len(<<x, y>>) = 2 /\ <<x, y>>[1] = x
<1> DEFINE s == <<x, y>>
<1>1. s \in Seq(S) /\ DOMAIN s = 1 .. 2 /\ s[1] = x /\ s[2] = y /\ Len(s) = 2
  OBVIOUS
<1> HIDE DEF s
<1>2. ToSet(s) = {x, y}
  BY <1>1 DEF ToSet
<1> QED BY <1>1, <1>2 DEF s

\* A plan without files and without an undo.
LEMMA KeychainPlan ==
  ASSUME IInv, NEW p \in Procs, NEW todo \in Seq(Write), proc[p].pc = "loaded",
         Plan(p, todo, <<>>), Cmd(p).kind \in {"login", "logout", "forget"},
         \A w \in ToSet(todo) : w.what # "file" /\ GoodWrite(w)
  PROVE  IInv'
<1>1. <<>> \in Seq(Write) /\ ToSet(<<>>) = {}
  BY SetOfNone
<1>2. FilesNamed(ToSet(todo) \cup ToSet(<<>>))
  BY <1>1 DEF FilesNamed
<1>3. DeletePlan(p, todo, <<>>) /\ RestoringPlan(p, todo, <<>>)
  BY DEF DeletePlan, RestoringPlan, Guarded, RollsBack, Cmd
<1>4. \A w \in ToSet(todo) \cup ToSet(<<>>) : GoodWrite(w)
  BY <1>1
<1> QED BY <1>1, <1>2, <1>3, <1>4, PlanKeeps

LEMMA LogoutKeeps ==
  ASSUME IInv, NEW p \in Procs, Logout(p)
  PROVE  IInv'
<1> DEFINE n == Cmd(p).name
           m == Cmd(p).profile.method
           types == TypesFor(m) \o (IF m = "code" THEN <<"client_secret">> ELSE <<>>)
           todo == Puts(n, types, NoSecret)
<1>1. proc[p].pc = "loaded" /\ Cmd(p).kind = "logout" /\ Plan(p, todo, <<>>)
  BY DEF Logout, Running, Cmd, Puts
<1>2. n \in Names
  BY <1>1, Knows DEF ListedKinds
<1>3. types \in Seq(CredentialTypes)
  <2>1. <<"client_secret">> \in Seq(CredentialTypes) /\ <<>> \in Seq(CredentialTypes)
    BY DEF CredentialTypes
  <2>2. TypesFor(m) \in Seq(CredentialTypes)
    BY TypesForAre
  <2> HIDE DEF m
  <2> QED BY <2>1, <2>2, ConcatProperties
<1> HIDE DEF types
<1>4. ArePuts(todo, n, types, NoSecret)
  BY <1>2, <1>3, PutsAre DEF Secrets
<1> HIDE DEF todo, n
<1>5. \A w \in ToSet(todo) : w.what # "file" /\ GoodWrite(w)
  BY <1>2, <1>4 DEF ArePuts, IsPut, GoodWrite
<1> QED BY <1>1, <1>4, <1>5, KeychainPlan DEF ArePuts

LEMMA ForgetKeeps ==
  ASSUME IInv, NEW p \in Procs, Forget(p)
  PROVE  IInv'
<1> DEFINE n == Cmd(p).name
           w == ToKeychain(n, "native_session", NoSecret)
           todo == <<w>>
<1>1. proc[p].pc = "loaded" /\ Cmd(p).kind = "forget" /\ Plan(p, todo, <<>>)
  BY DEF Forget, Running, Cmd
<1>2. n \in Names /\ "native_session" \in CredentialTypes /\ NoSecret \in Secrets
  BY <1>1, Knows DEF ListedKinds, CredentialTypes, Secrets
<1>3. IsPut(w, n, "native_session", NoSecret)
  BY <1>2, KeychainWrite
<1> HIDE DEF w
<1>4. todo \in Seq(Write) /\ ToSet(todo) = {w}
  BY <1>3, SetOfOne DEF IsPut
<1> HIDE DEF todo, n
<1>5. \A x \in ToSet(todo) : x.what # "file" /\ GoodWrite(x)
  BY <1>2, <1>3, <1>4 DEF IsPut, GoodWrite
<1> QED BY <1>1, <1>4, <1>5, KeychainPlan

\* A stored profile has a method and an instance, so what is stored is a secret for it.
LEMMA NewSecretIs ==
  ASSUME NEW p \in Procs, Cmd(p).profile \in Profile
  PROVE  NewSecret(p) \in Secrets /\ NewSecret(p) \in Secret
BY DEF NewSecret, Secrets, Secret, Profile

LEMMA StoreIs ==
  ASSUME NEW p \in Procs, Cmd(p).profile \in Profile, Cmd(p).name \in Names,
         NEW types \in Seq(CredentialTypes)
  PROVE  ArePuts(Store(p, types), Cmd(p).name, types, NewSecret(p))
<1>1. Store(p, types) = Puts(Cmd(p).name, types, NewSecret(p))
  BY DEF Store, Puts
<1> QED BY <1>1, NewSecretIs, PutsAre

LEMMA LoginKeeps ==
  ASSUME IInv, NEW p \in Procs, Login(p)
  PROVE  IInv'
<1> DEFINE n == Cmd(p).name
           m == Cmd(p).profile.method
<1>1. proc[p].pc = "loaded" /\ Cmd(p).kind = "login"
  BY DEF Login, Running, Cmd
<1>2. PICK todo \in LoginPlan(p) : Plan(p, todo, <<>>)
  BY DEF Login
<1>3. n \in Names /\ Cmd(p).profile \in Profile
  BY <1>1, Knows DEF ListedKinds
<1>4. todo \in Seq(Write) /\ \A w \in ToSet(todo) : w.what # "file" /\ GoodWrite(w)
  <2>1. CASE m # "code"
    <3>1. todo = Store(p, TypesFor(m)) /\ TypesFor(m) \in Seq(CredentialTypes)
      BY <1>2, <2>1, TypesForAre DEF LoginPlan
    <3>2. ArePuts(todo, n, TypesFor(m), NewSecret(p))
      BY <1>3, <3>1, StoreIs
    <3> HIDE DEF m, n
    <3> QED BY <1>3, <3>2 DEF ArePuts, IsPut, GoodWrite
  <2>2. CASE m = "code"
    <3> DEFINE l == Store(p, <<"oauth_token">>)
               w(s) == ToKeychain(n, "client_secret", s)
               h(s) == <<w(s), Browser>>
    <3>1. PICK s \in {NoSecret, NewSecret(p)} : todo = h(s) \o l
      BY <1>2, <2>2 DEF LoginPlan
    <3>2. /\ s \in Secrets /\ "client_secret" \in CredentialTypes
          /\ <<"oauth_token">> \in Seq(CredentialTypes)
      BY <1>3, NewSecretIs DEF Secrets, CredentialTypes
    <3>3. ArePuts(l, n, <<"oauth_token">>, NewSecret(p)) /\ IsPut(w(s), n, "client_secret", s)
      BY <1>3, <3>2, StoreIs, KeychainWrite
    <3> HIDE DEF l, w, n
    <3>4. Browser \in Write /\ Browser.what = "browser" /\ Browser.lax = FALSE
      BY NoWriteTyped DEF Browser
    <3>5. h(s) \in Seq(Write) /\ ToSet(h(s)) = {w(s), Browser}
      BY <3>3, <3>4, SetOfTwo DEF IsPut
    <3> HIDE DEF h
    <3>6. todo \in Seq(Write) /\ ToSet(todo) = {w(s), Browser} \cup ToSet(l)
      BY <3>1, <3>3, <3>5, SetOfConcat DEF ArePuts
    <3> QED BY <1>3, <3>2, <3>3, <3>4, <3>6 DEF ArePuts, IsPut, GoodWrite
  <2> QED BY <2>1, <2>2
<1> QED BY <1>1, <1>2, <1>4, KeychainPlan

----------------------------------------------------------------------------
(* profile sdk export, basic login, session login                            *)

LEMMA SameAlias ==
  ASSUME NEW a, NEW s, NEW d
  PROVE  [[auth |-> a, secret |-> s, default |-> d] EXCEPT !.default = d] = [auth |-> a, secret |-> s, default |-> d]
OBVIOUS

LEMMA UpsertIs ==
  ASSUME sdk \in Sdk, NEW n \in Names, NEW secret \in Secret, NEW setDefault \in BOOLEAN
  PROVE  Upsert(n, secret, setDefault) \in Sdk
<1>1. ASSUME NEW a \in Names
      PROVE  /\ sdk[a] \in Alias \cup {NoAlias} /\ sdk[a].default \in BOOLEAN
             /\ [sdk[a] EXCEPT !.default = FALSE] \in Alias \cup {NoAlias}
  <2>1. sdk[a] \in Alias \cup {NoAlias}
    BY DEF Sdk
  <2> DEFINE x == sdk[a]
  <2> HIDE DEF x
  <2>2. CASE x \in Alias
    <3>1. x.default \in BOOLEAN /\ [x EXCEPT !.default = FALSE] \in Alias
      BY <2>2 DEF Alias
    <3> QED BY <2>1, <3>1 DEF x
  <2>3. CASE x = NoAlias
    <3>1. NoAlias.default \in BOOLEAN
      BY DEF NoAlias
    <3>2. [NoAlias EXCEPT !.default = FALSE] = NoAlias
      BY SameAlias DEF NoAlias
    <3> QED BY <2>1, <2>3, <3>1, <3>2 DEF x
  <2> QED BY <2>1, <2>2, <2>3 DEF x
<1>2. [auth |-> "basic", secret |-> secret, default |-> setDefault \/ sdk[n].default] \in Alias
  <2> DEFINE d == setDefault \/ sdk[n].default
  <2>1. d \in BOOLEAN
    BY <1>1
  <2> HIDE DEF d
  <2>2. [auth |-> "basic", secret |-> secret, default |-> d] \in Alias
    BY <2>1 DEF Alias
  <2> QED BY <2>2 DEF d
<1> QED BY <1>1, <1>2 DEF Upsert, Sdk

\* What stands in the keychain and in the store of now-sdk, written back.
LEMMA WrittenBack ==
  ASSUME sdk \in Sdk, keychain \in Keychain, NEW n \in Names, NEW t \in CredentialTypes
  PROVE  /\ OfType(n, t) \in Secrets /\ IsPut(ToKeychain(n, t, OfType(n, t)), n, t, keychain[<<n, t>>])
         /\ GoodWrite(ToKeychain(n, t, OfType(n, t))) /\ Restores(ToKeychain(n, t, OfType(n, t)), stores)
         /\ ToSdk(sdk) \in Write /\ ToSdk(sdk).what = "sdk"
         /\ GoodWrite(ToSdk(sdk)) /\ Restores(ToSdk(sdk), stores)
<1> DEFINE s == OfType(n, t)
           w == ToKeychain(n, t, s)
           u == ToSdk(sdk)
<1>1. s \in Secrets /\ s = keychain[<<n, t>>]
  BY DEF OfType, Keychain
<1> HIDE DEF s
<1>2. IsPut(w, n, t, s)
  BY <1>1, KeychainWrite
<1>3. u \in Write /\ u.what = "sdk" /\ u.aliases = sdk /\ u.lax = FALSE
  BY SdkWrite
<1> HIDE DEF w, u
<1>4. stores[2] = keychain /\ stores[3] = sdk
  BY DEF stores
<1>5. GoodWrite(w) /\ Restores(w, stores)
  BY <1>1, <1>2, <1>4 DEF GoodWrite, Restores, IsPut
<1>6. GoodWrite(u) /\ Restores(u, stores)
  BY <1>3, <1>4 DEF GoodWrite, Restores
<1> QED BY <1>1, <1>2, <1>3, <1>5, <1>6 DEF s, w, u

LEMMA ExportKeeps ==
  ASSUME IInv, NEW p \in Procs, Export(p)
  PROVE  IInv'
<1> DEFINE secret == [OfType(Cmd(p).name, "password") EXCEPT !.instance = Cmd(p).profile.instance]
           a(alias, setDefault) == Upsert(alias, secret, setDefault)
<1>1. proc[p].pc = "loaded" /\ Cmd(p).kind = "export"
  BY DEF Export, Running, Cmd
<1>2. PICK alias \in Names, setDefault \in BOOLEAN :
        Plan(p, <<ToSdk(a(alias, setDefault))>>, <<ToSdk(sdk)>>)
  BY DEF Export
<1>3. Cmd(p).name \in Names /\ Cmd(p).profile \in Profile /\ keychain \in Keychain /\ sdk \in Sdk
  BY <1>1, Knows DEF ListedKinds
<1>4. secret \in Secret
  <2>1. OfType(Cmd(p).name, "password") \in Secret
    BY <1>3 DEF Export, OfType, Keychain, Secrets, CredentialTypes
  <2> QED BY <1>3, <2>1 DEF Secret, Profile
<1> HIDE DEF secret
<1>5. a(alias, setDefault) \in Sdk
  BY <1>3, <1>4, UpsertIs
<1> HIDE DEF a
<1> DEFINE w == ToSdk(a(alias, setDefault))
           u == ToSdk(sdk)
           todo == <<w>>
           undo == <<u>>
<1>6. w \in Write /\ w.what = "sdk" /\ w.lax = FALSE
  BY <1>5, SdkWrite
<1>7. u \in Write /\ u.what = "sdk" /\ GoodWrite(u) /\ Restores(u, stores)
  BY <1>3, WrittenBack DEF CredentialTypes
<1>8. Plan(p, todo, undo)
  BY <1>2
<1> HIDE DEF w, u
<1>9. todo \in Seq(Write) /\ ToSet(todo) = {w} /\ undo \in Seq(Write) /\ ToSet(undo) = {u}
  BY <1>6, <1>7, SetOfOne
<1> HIDE DEF todo, undo
<1>10. \A x \in ToSet(todo) \cup ToSet(undo) : GoodWrite(x)
  BY <1>6, <1>7, <1>9 DEF GoodWrite
<1>11. FilesNamed(ToSet(todo) \cup ToSet(undo))
  BY <1>6, <1>7, <1>9 DEF FilesNamed
<1>12. DeletePlan(p, todo, undo)
  BY <1>1 DEF DeletePlan
<1>13. RestoringPlan(p, todo, undo)
  BY <1>1, <1>6, <1>7, <1>9 DEF RestoringPlan, Covered, Touches, IsSession
<1> QED BY <1>1, <1>8, <1>9, <1>10, <1>11, <1>12, <1>13, PlanKeeps

LEMMA LoginSdkKeeps ==
  ASSUME IInv, NEW p \in Procs, LoginSdk(p)
  PROVE  IInv'
<1> DEFINE n == Cmd(p).name
           l == Store(p, <<"password">>)
           w(alias, setDefault) == ToSdk(Upsert(alias, NewSecret(p), setDefault))
           more(alias, also, setDefault) == IF also THEN <<w(alias, setDefault)>> ELSE <<>>
           u == ToKeychain(n, "password", OfType(n, "password"))
           v == ToSdk(sdk)
           back(also) == IF also THEN <<u, v>> ELSE <<u>>
<1>1. proc[p].pc = "loaded" /\ Cmd(p).kind = "loginSdk"
  BY DEF LoginSdk, Running, Cmd
<1>2. PICK alias \in Names, also \in BOOLEAN, setDefault \in BOOLEAN :
        Plan(p, l \o more(alias, also, setDefault), back(also))
  BY DEF LoginSdk, UndoLogin
<1>3. n \in Names /\ Cmd(p).profile \in Profile /\ keychain \in Keychain /\ sdk \in Sdk
      /\ "password" \in CredentialTypes /\ <<"password">> \in Seq(CredentialTypes) /\ ToSet(<<"password">>) = {"password"}
  BY <1>1, Knows, SetOfOne DEF ListedKinds, CredentialTypes
<1>4. ArePuts(l, n, <<"password">>, NewSecret(p))
  BY <1>3, StoreIs
<1>5. /\ w(alias, setDefault) \in Write /\ w(alias, setDefault).what = "sdk"
      /\ w(alias, setDefault).lax = FALSE
  <2>1. Upsert(alias, NewSecret(p), setDefault) \in Sdk
    BY <1>3, NewSecretIs, UpsertIs
  <2> QED BY <2>1, SdkWrite
<1>6. /\ IsPut(u, n, "password", keychain[<<n, "password">>]) /\ GoodWrite(u) /\ Restores(u, stores)
      /\ v \in Write /\ v.what = "sdk" /\ GoodWrite(v) /\ Restores(v, stores)
  BY <1>3, WrittenBack
<1> HIDE DEF n, l, w, u, v
<1> DEFINE m == more(alias, also, setDefault)
           undo == back(also)
           W == IF also THEN {w(alias, setDefault)} ELSE {}
           U == IF also THEN {u, v} ELSE {u}
<1>7. m \in Seq(Write) /\ ToSet(m) = W /\ undo \in Seq(Write) /\ ToSet(undo) = U
  <2>1. <<w(alias, setDefault)>> \in Seq(Write) /\ ToSet(<<w(alias, setDefault)>>) = {w(alias, setDefault)}
        /\ <<>> \in Seq(Write) /\ ToSet(<<>>) = {}
    BY <1>5, SetOfOne, SetOfNone
  <2>2. <<u>> \in Seq(Write) /\ ToSet(<<u>>) = {u} /\ <<u, v>> \in Seq(Write) /\ ToSet(<<u, v>>) = {u, v}
    BY <1>6, SetOfOne, SetOfTwo DEF IsPut
  <2> QED BY <2>1, <2>2
<1> DEFINE todo == l \o m
<1>8. Plan(p, todo, undo)
  BY <1>2
<1> HIDE DEF m, undo
<1>9. todo \in Seq(Write) /\ ToSet(todo) = ToSet(l) \cup W
  BY <1>4, <1>7, SetOfConcat DEF ArePuts
<1> HIDE DEF todo
<1>10. \A x \in ToSet(l) : x.what = "keychain" /\ x.name = n /\ x.type = "password" /\ x.lax = FALSE
  BY <1>3, <1>4 DEF ArePuts, IsPut
<1>11. \A x \in ToSet(todo) \cup ToSet(undo) : GoodWrite(x) /\ x.what # "file"
  BY <1>3, <1>5, <1>6, <1>7, <1>9, <1>10 DEF GoodWrite, IsPut
<1>12. FilesNamed(ToSet(todo) \cup ToSet(undo))
  BY <1>11 DEF FilesNamed
<1>13. DeletePlan(p, todo, undo)
  BY <1>1 DEF DeletePlan
<1>14. RestoringPlan(p, todo, undo)
  <2>1. \A x \in ToSet(undo) : Restores(x, stores)
    BY <1>6, <1>7
  <2>2. \A x \in ToSet(l) : Covered(x, ToSet(undo), FALSE)
    BY <1>6, <1>7, <1>10 DEF Covered, TouchesKey, IsPut
  <2>3. \A x \in W : Covered(x, ToSet(undo), FALSE)
    BY <1>5, <1>6, <1>7 DEF Covered, Touches
  <2> QED BY <1>1, <1>9, <2>1, <2>2, <2>3 DEF RestoringPlan, IsSession
<1> QED BY <1>1, <1>7, <1>8, <1>9, <1>11, <1>12, <1>13, <1>14, PlanKeeps

LEMMA ConcatOne ==
  ASSUME NEW S, NEW a \in Seq(S), NEW b \in Seq(S), Len(a) = 1, Len(b) = 1
  PROVE  Len(a \o b) = 2 /\ (a \o b)[1] = a[1]
BY ConcatProperties

LEMMA SessionKeeps ==
  ASSUME IInv, NEW p \in Procs, Session(p)
  PROVE  IInv'
<1> DEFINE n == Cmd(p).name
           l == Store(p, <<"native_session">>)
           c == PutProfile(Cmd(p).config, n, Cmd(p).profile)
           w == ToFile(c)
           m == <<w>>
           u == ToKeychain(n, "native_session", OfType(n, "native_session"))
           undo == <<u>>
           todo == l \o m
<1>1. proc[p].pc = "loaded" /\ Cmd(p).kind = "session" /\ Plan(p, todo, undo)
  BY DEF Session, Running, Cmd
<1>2. /\ n \in Names /\ Cmd(p).profile \in Profile /\ keychain \in Keychain /\ sdk \in Sdk
      /\ Cmd(p).config \in Config /\ (~torn => Sound(Cmd(p).config)) /\ Listed(Cmd(p).config) # {}
  BY <1>1, Knows
<1>3. "native_session" \in CredentialTypes /\ <<"native_session">> \in Seq(CredentialTypes)
      /\ ToSet(<<"native_session">>) = {"native_session"} /\ Len(<<"native_session">>) = 1
  BY SetOfOne DEF CredentialTypes
<1>4. ArePuts(l, n, <<"native_session">>, NewSecret(p))
  BY <1>2, <1>3, StoreIs
<1>5. c \in Config /\ (~torn => Sound(c))
  <2>1. /\ c \in Config /\ c.default = Cmd(p).config.default /\ (n \in Listed(c) <=> Cmd(p).profile # NoProfile)
        /\ \A q \in Names : q # n => (q \in Listed(c) <=> q \in Listed(Cmd(p).config))
    BY <1>2, Put
  <2>2. n \in Listed(c)
    BY <1>2, <2>1, NoCommandTyped
  <2>3. Listed(Cmd(p).config) \subseteq Names
    BY DEF Listed
  <2> HIDE DEF c, n
  <2> QED BY <1>2, <2>1, <2>2, <2>3 DEF Sound
<1> HIDE DEF c
<1>6. w \in Write /\ w.what = "file" /\ w.config = c /\ w.lax = FALSE
  BY <1>5, FileWrite
<1>7. IsPut(u, n, "native_session", keychain[<<n, "native_session">>]) /\ GoodWrite(u) /\ Restores(u, stores)
  BY <1>2, <1>3, WrittenBack
<1> HIDE DEF n, l, w, u
<1>8. m \in Seq(Write) /\ ToSet(m) = {w} /\ Len(m) = 1 /\ undo \in Seq(Write) /\ ToSet(undo) = {u}
  BY <1>6, <1>7, SetOfOne DEF IsPut
<1> HIDE DEF m, undo
<1>9. todo \in Seq(Write) /\ ToSet(todo) = ToSet(l) \cup {w}
  BY <1>4, <1>8, SetOfConcat DEF ArePuts
<1>10. l \in Seq(Write) /\ Len(l) = 1
       /\ \A x \in ToSet(l) : x.what = "keychain" /\ x.name = n /\ x.type = "native_session" /\ x.lax = FALSE
  BY <1>3, <1>4 DEF ArePuts, IsPut
<1>11. SessionFile(todo)
  <2>1. Len(todo) = 2 /\ todo[1] = l[1]
    BY <1>8, <1>10, ConcatOne
  <2>2. l[1] \in ToSet(l)
    BY <1>10 DEF ToSet
  <2> HIDE DEF todo
  <2> QED BY <1>10, <2>1, <2>2 DEF SessionFile
<1> HIDE DEF todo
<1>12. \A x \in ToSet(todo) \cup ToSet(undo) : GoodWrite(x)
  BY <1>2, <1>3, <1>6, <1>7, <1>8, <1>9, <1>10 DEF GoodWrite
<1>13. ~torn => FilesNamed(ToSet(todo) \cup ToSet(undo))
  BY <1>5, <1>6, <1>7, <1>8, <1>9, <1>10 DEF FilesNamed, Consistent, IsPut
<1>14. DeletePlan(p, todo, undo)
  BY <1>1 DEF DeletePlan
<1>15. RestoringPlan(p, todo, undo)
  <2>1. \A x \in ToSet(undo) : Restores(x, stores)
    BY <1>7, <1>8
  <2>2. \A x \in ToSet(l) : Covered(x, ToSet(undo), TRUE)
    BY <1>7, <1>8, <1>10 DEF Covered, TouchesKey, IsPut
  <2>3. Covered(w, ToSet(undo), TRUE)
    BY <1>6 DEF Covered
  <2> QED BY <1>1, <1>9, <1>11, <2>1, <2>2, <2>3 DEF RestoringPlan, IsSession
<1> QED BY <1>1, <1>8, <1>9, <1>12, <1>13, <1>14, <1>15, PlanKeeps

----------------------------------------------------------------------------
(* profile sdk import                                                        *)

\* The passwords of some profiles, one after the other.
Passwords(names, secrets) == [k \in 1 .. Len(names) |-> ToKeychain(names[k], "password", secrets[k])]
ArePasswords(l, names) ==
  /\ l \in Seq(Write)
  /\ \A w \in ToSet(l) : \E k \in DOMAIN names : IsPut(w, names[k], "password", w.secret)
  /\ \A k \in DOMAIN names : \E w \in ToSet(l) : IsPut(w, names[k], "password", w.secret)

LEMMA PasswordsAre ==
  ASSUME NEW m \in Nat, NEW names \in [1 .. m -> Names], NEW secrets \in [1 .. m -> Secrets]
  PROVE  LET l == Passwords(names, secrets) IN
         /\ ArePasswords(l, names) /\ IsTable(l, m, Write) /\ DOMAIN names = 1 .. m
         /\ \A k \in 1 .. m : IsPut(l[k], names[k], "password", secrets[k])
<1> DEFINE l == Passwords(names, secrets)
<1>1. Len(names) = m /\ DOMAIN names = 1 .. m /\ "password" \in CredentialTypes
  BY DEF CredentialTypes
<1>2. l = [k \in 1 .. m |-> ToKeychain(names[k], "password", secrets[k])]
  BY <1>1 DEF Passwords
<1>3. ASSUME NEW k \in 1 .. m
      PROVE  IsPut(l[k], names[k], "password", secrets[k]) /\ IsPut(l[k], names[k], "password", l[k].secret)
  <2>1. names[k] \in Names /\ secrets[k] \in Secrets
    OBVIOUS
  <2>2. l[k] = ToKeychain(names[k], "password", secrets[k])
    BY <1>2
  <2>3. IsPut(l[k], names[k], "password", secrets[k])
    BY <1>1, <2>1, <2>2, KeychainWrite
  <2> HIDE DEF l
  <2> QED BY <2>3 DEF IsPut
<1> HIDE DEF l
<1>4. l \in [1 .. m -> Write]
  BY <1>2, <1>3 DEF IsPut
<1>5. IsTable(l, m, Write)
  BY <1>4, Tabulated
<1>6. ASSUME NEW w \in ToSet(l) PROVE \E k \in DOMAIN names : IsPut(w, names[k], "password", w.secret)
  <2>1. PICK k \in 1 .. m : w = l[k]
    BY <1>5 DEF IsTable
  <2> QED BY <1>1, <1>3, <2>1
<1>7. ASSUME NEW k \in DOMAIN names PROVE \E w \in ToSet(l) : IsPut(w, names[k], "password", w.secret)
  BY <1>1, <1>3, <1>5 DEF IsTable
<1>8. ArePasswords(l, names)
  BY <1>5, <1>6, <1>7 DEF ArePasswords, IsTable
<1> QED BY <1>1, <1>3, <1>5, <1>8 DEF l

\* The names are read in some order.
LEMMA Ordered ==
  ASSUME NEW chosen \in SUBSET Names, chosen # {}, NEW names \in SetToSeqs(chosen)
  PROVE  /\ Len(names) \in Nat \ {0} /\ names \in [1 .. Len(names) -> Names]
         /\ DOMAIN names = 1 .. Len(names) /\ \A k \in 1 .. Len(names) : names[k] \in chosen
         /\ ToSet(names) \subseteq chosen /\ names[1] \in ToSet(names)
<1> DEFINE m == Cardinality(chosen)
<1>1. IsFiniteSet(chosen)
  BY NamesAssumption, FS_Subset
<1>2. m \in Nat
  BY <1>1, FS_CardinalityType
<1>3. m # 0
  BY <1>1, FS_EmptySet
<1>4. names \in [1 .. m -> chosen]
  BY DEF SetToSeqs
<1> HIDE DEF m
<1>5. Len(names) = m /\ DOMAIN names = 1 .. m /\ \A k \in 1 .. m : names[k] \in chosen
  BY <1>2, <1>4
<1>6. names \in [1 .. m -> Names]
  BY <1>4
<1>7. ToSet(names) \subseteq chosen
  BY <1>5 DEF ToSet
<1>8. 1 \in DOMAIN names
  BY <1>2, <1>3, <1>5
<1>9. names[1] \in ToSet(names)
  BY <1>8 DEF ToSet
<1> QED BY <1>2, <1>3, <1>5, <1>6, <1>7, <1>9

\* upsert_profiles keeps what is listed and adds the names.
LEMMA ImportedIs ==
  ASSUME NEW c \in Config, NEW names, NEW default \in Names \cup {None},
         ToSet(names) \subseteq {n \in Names : sdk[n] \in Alias}
  PROVE  /\ Imported(c, names, default) \in Config /\ Imported(c, names, default).default = default
         /\ Listed(c) \cup ToSet(names) \subseteq Listed(Imported(c, names, default))
<1> DEFINE q == Imported(c, names, default)
           b(n) == [instance |-> sdk[n].secret.instance, method |-> "basic"]
<1>1. c.profiles \in [Names -> Profile \cup {NoProfile}]
  BY DEF Config
<1>2. ASSUME NEW n \in ToSet(names) PROVE b(n) \in Profile /\ n \in Names
  <2>1. sdk[n] \in Alias /\ n \in Names
    OBVIOUS
  <2>2. sdk[n].secret \in Secret
    BY <2>1 DEF Alias
  <2>3. sdk[n].secret.instance \in Instances
    BY <2>2 DEF Secret
  <2> QED BY <2>1, <2>3 DEF Profile, AllMethods
<1>3. /\ q.default = default
      /\ q.profiles = [n \in Names |-> IF n \in ToSet(names) THEN b(n) ELSE c.profiles[n]]
      /\ q = [default |-> q.default, profiles |-> q.profiles]
  BY DEF Imported
<1> HIDE DEF q, b
<1>4. q.profiles \in [Names -> Profile \cup {NoProfile}]
  BY <1>1, <1>2, <1>3
<1>5. q \in Config
  BY <1>3, <1>4 DEF Config
<1>6. ASSUME NEW n \in Listed(c) \cup ToSet(names) PROVE n \in Listed(q)
  <2>1. n \in Names
    BY <1>2 DEF Listed
  <2>2. n \in ToSet(names) => b(n) # NoProfile
    BY <1>2, NoCommandTyped
  <2>3. q.profiles[n] = IF n \in ToSet(names) THEN b(n) ELSE c.profiles[n]
    BY <1>3, <2>1
  <2> QED BY <2>1, <2>2, <2>3 DEF Listed
<1> QED BY <1>3, <1>5, <1>6 DEF q

LEMMA ImportKeeps ==
  ASSUME IInv, NEW p \in Procs, Import(p)
  PROVE  IInv'
<1> DEFINE old == Cmd(p).config.default
           A == {n \in Names : sdk[n] # NoAlias}
           new(names) == [k \in 1 .. Len(names) |-> ToKeychain(names[k], "password", sdk[names[k]].secret)]
           d(names, first, setDefault) ==
             IF setDefault THEN names[1] ELSE IF old = None THEN first ELSE old
           c(names, first, setDefault) == Imported(Cmd(p).config, names, d(names, first, setDefault))
<1>1. proc[p].pc = "loaded" /\ Cmd(p).kind = "import"
  BY DEF Import, Running, Cmd
<1>2. PICK chosen \in (SUBSET A) \ {{}}, setDefault \in BOOLEAN :
        \E names \in SetToSeqs(chosen) : \E first \in FirstDefault(names) :
          Plan(p, new(names) \o <<ToFile(c(names, first, setDefault))>>, UndoImport(Cmd(p).file, names))
  BY DEF Import
<1>3. PICK names \in SetToSeqs(chosen) :
        \E first \in FirstDefault(names) :
          Plan(p, new(names) \o <<ToFile(c(names, first, setDefault))>>, UndoImport(Cmd(p).file, names))
  BY <1>2
<1>4. PICK first \in FirstDefault(names) :
        Plan(p, new(names) \o <<ToFile(c(names, first, setDefault))>>, UndoImport(Cmd(p).file, names))
  BY <1>3
<1>5. /\ Cmd(p).config \in Config /\ Cmd(p).file \in Config \cup {Absent}
      /\ (~torn => Sound(Cmd(p).config) /\ Consistent(Cmd(p).file))
      /\ keychain \in Keychain /\ sdk \in Sdk /\ None \notin Names
      /\ (Guarded(p) => Cmd(p).file = file)
  BY <1>1, Knows
<1> DEFINE m == Len(names)
<1>6. /\ m \in Nat \ {0} /\ names \in [1 .. m -> Names] /\ DOMAIN names = 1 .. m
      /\ (\A k \in 1 .. m : names[k] \in chosen) /\ ToSet(names) \subseteq chosen
      /\ names[1] \in ToSet(names)
  BY <1>2, Ordered
<1>7. first \in ToSet(names)
  BY <1>6 DEF FirstDefault, ToSet
<1>8. chosen \subseteq {n \in Names : sdk[n] \in Alias}
  BY <1>2, <1>5 DEF Sdk
<1> DEFINE e == d(names, first, setDefault)
           f == c(names, first, setDefault)
<1>9. old \in Names \cup {None}
  BY <1>5 DEF Config
<1>10. e \in Names \cup {None} /\ (~torn => e \in ToSet(names) \cup Listed(Cmd(p).config))
  <2>1. ToSet(names) \subseteq Names /\ Listed(Cmd(p).config) \subseteq Names
    BY <1>6, <1>8 DEF Listed
  <2>2. old # None /\ ~torn => old \in Listed(Cmd(p).config)
    BY <1>5, <1>9 DEF Sound
  <2> HIDE DEF old
  <2> QED BY <1>6, <1>7, <1>9, <2>1, <2>2
<1>11. f = Imported(Cmd(p).config, names, e)
  OBVIOUS
<1> HIDE DEF d, c, old
<1>12. f \in Config /\ (~torn => Sound(f))
  <2> HIDE DEF e
  <2>1. ToSet(names) \subseteq {n \in Names : sdk[n] \in Alias}
    BY <1>6, <1>8
  <2>2. f \in Config /\ f.default = e /\ Listed(Cmd(p).config) \cup ToSet(names) \subseteq Listed(f)
    BY <1>5, <1>10, <1>11, <2>1, ImportedIs
  <2> QED BY <1>10, <2>2 DEF Sound
<1> HIDE DEF e, f
<1> DEFINE w == ToFile(f)
           u == ToFile(Cmd(p).file)
           news == [k \in 1 .. m |-> sdk[names[k]].secret]
           olds == [k \in 1 .. m |-> OfType(names[k], "password")]
           l == Passwords(names, news)
           r == Passwords(names, olds)
           todo == l \o <<w>>
           undo == r \o <<u>>
<1>13. \A k \in 1 .. m : news[k] \in Secrets /\ olds[k] \in Secrets /\ olds[k] = keychain[<<names[k], "password">>]
  <2> HIDE DEF m
  <2> SUFFICES ASSUME NEW k \in 1 .. m
               PROVE  /\ sdk[names[k]].secret \in Secrets /\ OfType(names[k], "password") \in Secrets
                      /\ OfType(names[k], "password") = keychain[<<names[k], "password">>]
    OBVIOUS
  <2>1. sdk[names[k]] \in Alias /\ names[k] \in Names
    BY <1>6, <1>8
  <2>2. sdk[names[k]].secret \in Secrets
    BY <2>1 DEF Alias, Secrets
  <2> QED BY <1>5, <2>1, <2>2 DEF OfType, Keychain, CredentialTypes
<1>14. Plan(p, todo, undo)
  BY <1>4 DEF Passwords, UndoImport, f
<1> HIDE DEF m
<1>15. news \in [1 .. m -> Secrets] /\ olds \in [1 .. m -> Secrets]
  BY <1>13
<1> HIDE DEF news, olds
<1>16. ArePasswords(l, names) /\ ArePasswords(r, names)
  BY <1>6, <1>15, PasswordsAre
<1>17. IsTable(r, m, Write) /\ \A k \in 1 .. m : IsPut(r[k], names[k], "password", olds[k])
  BY <1>6, <1>15, PasswordsAre
<1>18. /\ w \in Write /\ w.what = "file" /\ w.config = f /\ w.lax = FALSE
       /\ u \in Write /\ u.what = "file" /\ u.config = Cmd(p).file /\ u.lax = FALSE
  BY <1>5, <1>12, FileWrite
<1> HIDE DEF w, u, l, r
<1>19. todo \in Seq(Write) /\ ToSet(todo) = ToSet(l) \cup {w} /\ undo \in Seq(Write) /\ ToSet(undo) = ToSet(r) \cup {u}
  <2> DEFINE h == <<w>>
             t == <<u>>
  <2>1. h \in Seq(Write) /\ ToSet(h) = {w} /\ t \in Seq(Write) /\ ToSet(t) = {u}
    BY <1>18, SetOfOne
  <2> HIDE DEF h, t
  <2>2. l \in Seq(Write) /\ r \in Seq(Write)
    BY <1>16 DEF ArePasswords
  <2>3. l \o h \in Seq(Write) /\ ToSet(l \o h) = ToSet(l) \cup {w}
    BY <2>1, <2>2, SetOfConcat
  <2>4. r \o t \in Seq(Write) /\ ToSet(r \o t) = ToSet(r) \cup {u}
    BY <2>1, <2>2, SetOfConcat
  <2> QED BY <2>3, <2>4 DEF h, t
<1> HIDE DEF todo, undo
<1>20. \A x \in ToSet(l) \cup ToSet(r) : x.what = "keychain" /\ GoodWrite(x) /\ x.type = "password"
  BY <1>6, <1>16 DEF ArePasswords, IsPut, GoodWrite, CredentialTypes
<1>21. \A x \in ToSet(todo) \cup ToSet(undo) : GoodWrite(x)
  BY <1>18, <1>19, <1>20 DEF GoodWrite
<1>22. ~torn => FilesNamed(ToSet(todo) \cup ToSet(undo))
  BY <1>5, <1>12, <1>18, <1>19, <1>20 DEF FilesNamed, Consistent
<1>23. DeletePlan(p, todo, undo)
  BY <1>1 DEF DeletePlan
<1>24. RestoringPlan(p, todo, undo)
  <2>1. stores[1] = file /\ stores[2] = keychain
    BY DEF stores
  <2>2. ASSUME Guarded(p) PROVE Restores(u, stores)
    BY <1>5, <1>18, <2>1, <2>2 DEF Restores
  <2>3. ASSUME NEW x \in ToSet(r) PROVE Restores(x, stores)
    <3>1. PICK k \in 1 .. m : x = r[k]
      BY <1>17 DEF IsTable
    <3> QED BY <1>13, <1>17, <2>1, <3>1 DEF Restores, IsPut, olds
  <2>4. ASSUME NEW x \in ToSet(l) PROVE Covered(x, ToSet(undo), FALSE)
    <3>1. PICK k \in DOMAIN names : x.what = "keychain" /\ x.name = names[k] /\ x.type = "password"
      BY <1>16 DEF ArePasswords, IsPut
    <3>2. PICK y \in ToSet(r) : y.what = "keychain" /\ y.name = names[k] /\ y.type = "password"
      BY <1>16 DEF ArePasswords, IsPut
    <3> QED BY <1>19, <3>1, <3>2 DEF Covered, TouchesKey
  <2>5. Covered(w, ToSet(undo), FALSE)
    BY <1>18, <1>19 DEF Covered, Touches
  <2> QED BY <1>1, <1>19, <2>2, <2>3, <2>4, <2>5 DEF RestoringPlan, IsSession
<1> QED BY <1>1, <1>14, <1>19, <1>21, <1>22, <1>23, <1>24, PlanKeeps

----------------------------------------------------------------------------
(* Performing the plan                                                       *)

Did(p) == [proc[p] EXCEPT !.pc = "do", !.todo = Tail(proc[p].todo)]
Undid(p) == [proc[p] EXCEPT !.pc = "undo", !.undo = Tail(proc[p].undo)]

\* What a process with writes to perform knows.
LEMMA KnowsWrites ==
  ASSUME IInv, NEW p \in Procs, Performing(p, Doing \cup Undoing)
  PROVE  /\ proc[p] \in ProcState /\ Cmd(p) \in CommandState
         /\ proc[p].todo \in Seq(Write) /\ proc[p].undo \in Seq(Write)
         /\ NextWrite(p) \in Write /\ GoodWrite(NextWrite(p))
         /\ ~torn /\ NextWrite(p).what = "file" => Consistent(NextWrite(p).config)
         /\ proc[p].pc \in Doing =>
              /\ proc[p].todo # <<>> /\ NextWrite(p) = Head(proc[p].todo)
              /\ NextWrite(p) \in ToSet(proc[p].todo)
              /\ ToSet(proc[p].todo) = {NextWrite(p)} \cup ToSet(Tail(proc[p].todo))
              /\ Tail(proc[p].todo) \in Seq(Write)
              /\ Len(Tail(proc[p].todo)) = Len(proc[p].todo) - 1 /\ Len(proc[p].todo) \in Nat \ {0}
              /\ NextWrite(p) = proc[p].todo[1]
         /\ proc[p].pc \in Undoing =>
              /\ proc[p].undo # <<>> /\ NextWrite(p) = Head(proc[p].undo)
              /\ NextWrite(p) \in ToSet(proc[p].undo)
              /\ ToSet(proc[p].undo) = {NextWrite(p)} \cup ToSet(Tail(proc[p].undo))
              /\ Tail(proc[p].undo) \in Seq(Write)
<1>1. WellTyped /\ Good(p) /\ proc[p] \in ProcState
  BY DEF IInv, WellTyped
<1>2. proc[p].todo \in Seq(Write) /\ proc[p].undo \in Seq(Write) /\ Cmd(p) \in CommandState
  BY <1>1 DEF ProcState, Cmd
<1>3. /\ proc[p].pc \in Doing => List(p) = proc[p].todo
      /\ proc[p].pc \in Undoing => List(p) = proc[p].undo
      /\ proc[p].pc \in Doing \cup Undoing /\ List(p) # <<>> /\ NextWrite(p) = Head(List(p))
  BY DEF List, Doing, Undoing, Performing, NextWrite
<1>4. List(p) \in Seq(Write)
  BY <1>2, <1>3
<1> DEFINE l == List(p)
<1> HIDE DEF l
<1>5. /\ Head(l) \in Write /\ Tail(l) \in Seq(Write) /\ Head(l) = l[1] /\ Len(Tail(l)) = Len(l) - 1
      /\ Len(l) \in Nat \ {0} /\ ToSet(l) = {Head(l)} \cup ToSet(Tail(l)) /\ Head(l) \in ToSet(l)
  BY <1>3, <1>4, SetOfTail DEF l
<1>6. ToSet(l) \subseteq ToSet(proc[p].todo) \cup ToSet(proc[p].undo)
  BY <1>3 DEF l
<1>7. GoodWrite(NextWrite(p)) /\ (~torn /\ NextWrite(p).what = "file" => Consistent(NextWrite(p).config))
  BY <1>1, <1>3, <1>5, <1>6 DEF Good, Formed, Named, FilesNamed, l
<1> QED BY <1>1, <1>2, <1>3, <1>5, <1>7 DEF l

LEMMA ProceedIs ==
  ASSUME IInv, NEW p \in Procs, Performing(p, Doing \cup Undoing), Proceed(p)
  PROVE  /\ proc[p].pc \in Doing =>
              /\ Did(p) \in ProcState /\ proc' = [proc EXCEPT ![p] = Did(p)] /\ proc'[p] = Did(p)
              /\ Did(p).pc = "do" /\ Did(p).cmd = Cmd(p) /\ Did(p).todo = Tail(proc[p].todo)
              /\ Did(p).undo = proc[p].undo /\ Did(p).n = proc[p].n
         /\ proc[p].pc \in Undoing =>
              /\ Undid(p) \in ProcState /\ proc' = [proc EXCEPT ![p] = Undid(p)] /\ proc'[p] = Undid(p)
              /\ Undid(p).pc = "undo" /\ Undid(p).cmd = Cmd(p) /\ Undid(p).undo = Tail(proc[p].undo)
              /\ Undid(p).todo = proc[p].todo /\ Undid(p).n = proc[p].n
<1>1. WellTyped /\ proc[p] \in ProcState /\ proc \in [Procs -> ProcState]
  BY DEF IInv, WellTyped
<1>2. ASSUME proc[p].pc \in Doing
      PROVE  /\ Did(p) \in ProcState /\ proc' = [proc EXCEPT ![p] = Did(p)] /\ proc'[p] = Did(p)
             /\ Did(p).pc = "do" /\ Did(p).cmd = Cmd(p) /\ Did(p).todo = Tail(proc[p].todo)
             /\ Did(p).undo = proc[p].undo /\ Did(p).n = proc[p].n
  <2>1. Tail(proc[p].todo) \in Seq(Write)
    BY <1>2, KnowsWrites
  <2>2. proc' = [proc EXCEPT ![p] = Did(p)]
    BY <1>1, <1>2 DEF Proceed, Did, Doing, ProcState
  <2>3. proc'[p] = Did(p)
    BY <1>1, <2>2
  <2>4. Did(p) \in ProcState
    BY <1>1, <2>1 DEF Did, ProcState, Pcs
  <2>5. /\ Did(p).pc = "do" /\ Did(p).cmd = Cmd(p) /\ Did(p).todo = Tail(proc[p].todo)
        /\ Did(p).undo = proc[p].undo /\ Did(p).n = proc[p].n
    BY <1>1 DEF Did, ProcState, Cmd
  <2> QED BY <2>2, <2>3, <2>4, <2>5
<1>3. ASSUME proc[p].pc \in Undoing
      PROVE  /\ Undid(p) \in ProcState /\ proc' = [proc EXCEPT ![p] = Undid(p)] /\ proc'[p] = Undid(p)
             /\ Undid(p).pc = "undo" /\ Undid(p).cmd = Cmd(p) /\ Undid(p).undo = Tail(proc[p].undo)
             /\ Undid(p).todo = proc[p].todo /\ Undid(p).n = proc[p].n
  <2>1. Tail(proc[p].undo) \in Seq(Write)
    BY <1>3, KnowsWrites
  <2>2. proc' = [proc EXCEPT ![p] = Undid(p)]
    BY <1>1, <1>3 DEF Proceed, Undid, Undoing, ProcState
  <2>3. proc'[p] = Undid(p)
    BY <1>1, <2>2
  <2>4. Undid(p) \in ProcState
    BY <1>1, <2>1 DEF Undid, ProcState, Pcs
  <2>5. /\ Undid(p).pc = "undo" /\ Undid(p).cmd = Cmd(p) /\ Undid(p).undo = Tail(proc[p].undo)
        /\ Undid(p).todo = proc[p].todo /\ Undid(p).n = proc[p].n
    BY <1>1 DEF Undid, ProcState, Cmd
  <2> QED BY <2>2, <2>3, <2>4, <2>5
<1> QED BY <1>2, <1>3

LEMMA ProceedForms ==
  ASSUME IInv, NEW p \in Procs, Performing(p, Doing \cup Undoing), Proceed(p), torn => torn', mixed => mixed',
         p \notin adrift'
  PROVE  Formed(p)' /\ (~torn' => Named(p)') /\ Alone(p)'
<1>1. Good(p) /\ proc[p].pc \in Doing \cup Undoing
  BY DEF IInv, Performing
<1> DEFINE d == proc'[p]
<1>2. /\ d.pc \in {"do", "undo"} /\ d.n = proc[p].n
      /\ ToSet(d.todo) \cup ToSet(d.undo) \subseteq ToSet(proc[p].todo) \cup ToSet(proc[p].undo)
  <2>1. CASE proc[p].pc \in Doing
    <3>1. ToSet(Tail(proc[p].todo)) \subseteq ToSet(proc[p].todo)
      BY <2>1, KnowsWrites
    <3>2. d.pc = "do" /\ d.n = proc[p].n /\ d.todo = Tail(proc[p].todo) /\ d.undo = proc[p].undo
      BY <2>1, ProceedIs
    <3> HIDE DEF d
    <3> QED BY <3>1, <3>2
  <2>2. CASE proc[p].pc \in Undoing
    <3>1. ToSet(Tail(proc[p].undo)) \subseteq ToSet(proc[p].undo)
      BY <2>2, KnowsWrites
    <3>2. d.pc = "undo" /\ d.n = proc[p].n /\ d.undo = Tail(proc[p].undo) /\ d.todo = proc[p].todo
      BY <2>2, ProceedIs
    <3> HIDE DEF d
    <3> QED BY <3>1, <3>2
  <2> QED BY <1>1, <2>1, <2>2
<1> HIDE DEF d
<1>3. proc[p].pc # "idle"
  BY <1>1 DEF Doing, Undoing
<1>4. Formed(p)'
  BY <1>1, <1>2, <1>3 DEF Good, Formed, d
<1>5. ~torn' => Named(p)'
  BY <1>1, <1>2 DEF Good, Named, FilesNamed, Consistent, Sound, d
<1>6. Alone(p)'
  BY <1>2 DEF Alone, d
<1> QED BY <1>4, <1>5, <1>6

\* A write that was performed.
Performed(w) ==
  /\ file' = IF w.what = "file" THEN w.config ELSE file
  /\ keychain' = IF w.what = "keychain" THEN [keychain EXCEPT ![<<w.name, w.type>>] = w.secret] ELSE keychain
  /\ sdk' = IF w.what = "sdk" THEN w.aliases ELSE sdk

LEMMA Entry ==
  ASSUME keychain \in Keychain, NEW w, Performed(w), NEW n \in Names, NEW t \in CredentialTypes
  PROVE  keychain'[<<n, t>>] = IF w.what = "keychain" /\ w.name = n /\ w.type = t
                               THEN w.secret ELSE keychain[<<n, t>>]
BY DEF Performed, Keychain

LEMMA PerformedTyped ==
  ASSUME IInv, NEW w \in Write, GoodWrite(w), Performed(w)
  PROVE  file' \in Files /\ keychain' \in Keychain /\ sdk' \in Sdk
<1>1. file \in Files /\ keychain \in Keychain /\ sdk \in Sdk
  BY DEF IInv, WellTyped
<1>2. w.config \in Config \cup {Absent} /\ w.aliases \in Sdk /\ w.secret \in Secrets
  BY DEF Write
<1>3. file' \in Files /\ sdk' \in Sdk
  BY <1>1, <1>2 DEF Performed, Files
<1>4. keychain' \in Keychain
  <2>1. CASE w.what = "keychain"
    <3>1. keychain' = [keychain EXCEPT ![<<w.name, w.type>>] = w.secret]
      BY <2>1 DEF Performed
    <3> QED BY <1>1, <1>2, <3>1 DEF Keychain
  <2>2. CASE w.what # "keychain"
    BY <1>1, <2>2 DEF Performed
  <2> QED BY <2>1, <2>2
<1> QED BY <1>3, <1>4

\* How a performed write is known to the rest.
LEMMA DisturbIs ==
  ASSUME IInv, NEW p \in Procs, NEW d \in ProcState, proc' = [proc EXCEPT ![p] = d],
         Disturb(p), UNCHANGED <<before, torn>>, Aside(p)
  PROVE  Moves(p, d) /\ calm'[p] = calm[p]
<1>1. calm \in [Procs -> BOOLEAN] /\ torn \in BOOLEAN /\ before \in [Procs -> {<<>>} \cup (Files \X Keychain \X Sdk)]
  BY DEF IInv, WellTyped
<1>2. calm' \in [Procs -> BOOLEAN] /\ calm'[p] = calm[p] /\ \A q \in Procs \ {p} : ~calm'[q]
  BY <1>1 DEF Disturb, Kept
<1> QED BY <1>1, <1>2 DEF Moves

LEMMA DoneCleans ==
  ASSUME IInv, NEW p \in Procs, Performing(p, Doing), Proceed(p), calm'[p] => calm[p] /\ Performed(NextWrite(p))
  PROVE  Cleaning(p)'
<1> DEFINE w == NextWrite(p)
<1>1. Cleaning(p) /\ keychain \in Keychain
  BY DEF IInv, WellTyped, Good
<1>2. proc[p].pc \in Doing /\ Performing(p, Doing \cup Undoing)
  BY DEF Performing
<1>3. /\ ToSet(proc[p].todo) = {w} \cup ToSet(Tail(proc[p].todo))
      /\ proc'[p].todo = Tail(proc[p].todo) /\ proc'[p].undo = proc[p].undo /\ proc'[p].cmd = Cmd(p)
      /\ proc'[p].pc = "do"
  BY <1>2, KnowsWrites, ProceedIs
<1> DEFINE n == Cmd(p).name
           T == ToSet(proc'[p].todo)
<1> SUFFICES ASSUME Cmd(p).kind = "delete"
             PROVE  /\ "do" \in Doing /\ proc'[p].undo = <<>> /\ n \in Names
                    /\ calm'[p] => \A x \in T : Deletes(x, n)
                    /\ calm'[p] => \A t \in CredentialTypes :
                         keychain'[<<n, t>>] = NoSecret \/ \E x \in T : x.what = "keychain" /\ x.type = t
  BY <1>3 DEF Cleaning, Cmd
<1>4. /\ proc[p].undo = <<>> /\ n \in Names
      /\ calm[p] => \A x \in ToSet(proc[p].todo) : Deletes(x, n)
      /\ calm[p] => \A t \in CredentialTypes :
           keychain[<<n, t>>] = NoSecret \/ \E x \in ToSet(proc[p].todo) : x.what = "keychain" /\ x.type = t
  BY <1>1, <1>2 DEF Cleaning
<1> HIDE DEF w, n, T
<1>5. ToSet(proc[p].todo) = {w} \cup T
  BY <1>3 DEF T
<1>6. ASSUME calm'[p], NEW t \in CredentialTypes
      PROVE  keychain'[<<n, t>>] = NoSecret \/ \E x \in T : x.what = "keychain" /\ x.type = t
  <2>1. keychain'[<<n, t>>] = IF w.what = "keychain" /\ w.name = n /\ w.type = t
                              THEN w.secret ELSE keychain[<<n, t>>]
    BY <1>1, <1>4, <1>6, Entry DEF w
  <2>2. Deletes(w, n) /\ (keychain[<<n, t>>] = NoSecret \/ \E x \in {w} \cup T : x.what = "keychain" /\ x.type = t)
    BY <1>4, <1>5, <1>6
  <2> QED BY <2>1, <2>2 DEF Deletes
<1>7. calm'[p] => \A x \in T : Deletes(x, n)
  BY <1>4, <1>5
<1> QED BY <1>3, <1>4, <1>6, <1>7 DEF Doing

LEMMA DoneRestores ==
  ASSUME IInv, NEW p \in Procs, Performing(p, Doing), Proceed(p), calm'[p] => calm[p] /\ Performed(NextWrite(p)),
         UNCHANGED <<before, torn>>
  PROVE  Restoring(p)'
<1> DEFINE w == NextWrite(p)
           U == ToSet(proc[p].undo)
           T == ToSet(Tail(proc[p].todo))
           b == before[p]
           session == IsSession(p)
<1>1. Good(p) /\ keychain \in Keychain /\ proc[p].pc \in Doing /\ Performing(p, Doing \cup Undoing)
  BY DEF IInv, WellTyped, Performing
<1>2. /\ ToSet(proc[p].todo) = {w} \cup T /\ proc[p].todo # <<>>
      /\ Len(Tail(proc[p].todo)) = Len(proc[p].todo) - 1 /\ Len(proc[p].todo) \in Nat \ {0}
      /\ w = proc[p].todo[1] /\ Tail(proc[p].todo) \in Seq(Write)
  BY <1>1, KnowsWrites
<1>3. /\ proc'[p].todo = Tail(proc[p].todo) /\ proc'[p].undo = proc[p].undo /\ Cmd(p)' = Cmd(p)
      /\ proc'[p].pc = "do" /\ before'[p] = b
  BY <1>1, ProceedIs DEF Cmd
<1> SUFFICES ASSUME Guarded(p)'
             PROVE  /\ b # <<>> /\ \A x \in U : Restores(x, b)
                    /\ session => SessionFile(Tail(proc[p].todo))
                    /\ Tail(proc[p].todo) # <<>> =>
                         /\ \A n \in Names, t \in CredentialTypes :
                              keychain'[<<n, t>>] # b[2][<<n, t>>] => TouchesKey(U, n, t)
                         /\ sdk' # b[3] => Touches(U, "sdk")
                         /\ file' # b[1] => Touches(U, "file")
                         /\ \A x \in T : Covered(x, U, session)
  BY <1>3 DEF Restoring, IsSession, Doing, Undoing, KeychainRestored, SdkRestored, FileRestored
<1>4. Guarded(p)
  BY <1>3 DEF Guarded, RollsBack, Cmd
<1>5. /\ b # <<>> /\ \A x \in U : Restores(x, b)
      /\ session => SessionFile(proc[p].todo)
      /\ KeychainRestored(U, b) /\ SdkRestored(U, b)
      /\ ~(session /\ proc[p].pc = "fill") => FileRestored(U, b)
      /\ \A x \in {w} \cup T : Covered(x, U, session)
  BY <1>1, <1>2, <1>4 DEF Good, Restoring
<1>6. proc[p].pc = "fill" => w.what = "file"
  BY <1>1 DEF Good, Formed
<1>7. session => SessionFile(Tail(proc[p].todo)) /\ (Tail(proc[p].todo) # <<>> => w.what # "file")
  <2> DEFINE l == Tail(proc[p].todo)
             o == proc[p].todo
  <2>1. Len(l) = 0 => l = <<>>
    BY <1>2, EmptySeq
  <2>2. Len(l) = Len(o) - 1 /\ Len(o) \in Nat \ {0} /\ w = o[1]
    BY <1>2
  <2> HIDE DEF l, o
  <2> SUFFICES ASSUME session PROVE SessionFile(l) /\ (l # <<>> => w.what # "file")
    BY DEF l
  <2>3. Len(o) <= 2 /\ (Len(o) = 2 => o[1].what # "file")
    BY <1>5 DEF SessionFile, o
  <2>4. Len(l) <= 1
    <3>1. Len(o) \in Nat /\ Len(o) <= 2 /\ Len(l) = Len(o) - 1
      BY <2>2, <2>3
    <3> QED BY <3>1
  <2>5. SessionFile(l)
    <3>1. Len(l) \in Nat
      BY <2>2
    <3>2. Len(l) <= 2 /\ Len(l) # 2
      BY <2>4, <3>1
    <3> QED BY <3>2 DEF SessionFile
  <2>6. ASSUME l # <<>> PROVE w.what # "file"
    <3>1. Len(l) # 0
      BY <2>1, <2>6
    <3>2. Len(o) \in Nat /\ Len(o) = 2
      BY <2>2, <2>4, <3>1
    <3> QED BY <2>2, <2>3, <3>2
  <2> QED BY <2>5, <2>6
<1>11. Performed(w)
  BY DEF Guarded
<1> HIDE DEF w, U, T, b, session
<1>8. ASSUME NEW n \in Names, NEW t \in CredentialTypes, keychain'[<<n, t>>] # b[2][<<n, t>>]
      PROVE  TouchesKey(U, n, t)
  <2>1. keychain'[<<n, t>>] = IF w.what = "keychain" /\ w.name = n /\ w.type = t
                              THEN w.secret ELSE keychain[<<n, t>>]
    BY <1>1, <1>11, Entry
  <2> QED BY <1>5, <1>8, <2>1 DEF KeychainRestored, Covered
<1>9. sdk' # b[3] => Touches(U, "sdk")
  BY <1>5, <1>11 DEF SdkRestored, Covered, Performed
<1>10. Tail(proc[p].todo) # <<>> => (file' # b[1] => Touches(U, "file"))
  BY <1>5, <1>6, <1>7, <1>11 DEF FileRestored, Covered, Performed
<1> QED BY <1>5, <1>7, <1>8, <1>9, <1>10

\* In Undoing no command is a delete, and what is undone was not yet.
LEMMA UndoneRestores ==
  ASSUME IInv, NEW p \in Procs, Performing(p, Undoing), Proceed(p), calm'[p] => calm[p] /\ Performed(NextWrite(p)),
         UNCHANGED <<before, torn>>
  PROVE  Restoring(p)'
<1> DEFINE w == NextWrite(p)
           U == ToSet(proc[p].undo)
           T == ToSet(Tail(proc[p].undo))
           b == before[p]
<1>1. Good(p) /\ keychain \in Keychain /\ proc[p].pc \in Undoing /\ Performing(p, Doing \cup Undoing)
  BY DEF IInv, WellTyped, Performing
<1>2. U = {w} \cup T
  BY <1>1, KnowsWrites
<1>3. proc'[p].undo = Tail(proc[p].undo) /\ Cmd(p)' = Cmd(p) /\ proc'[p].pc = "undo" /\ before'[p] = b
  BY <1>1, ProceedIs DEF Cmd
<1> SUFFICES ASSUME Guarded(p)'
             PROVE  /\ b # <<>> /\ \A x \in T : Restores(x, b)
                    /\ \A n \in Names, t \in CredentialTypes :
                         keychain'[<<n, t>>] # b[2][<<n, t>>] => TouchesKey(T, n, t)
                    /\ sdk' # b[3] => Touches(T, "sdk")
                    /\ file' # b[1] => Touches(T, "file")
  BY <1>3 DEF Restoring, IsSession, Doing, Undoing, KeychainRestored, SdkRestored, FileRestored
<1>4. Guarded(p)
  BY <1>3 DEF Guarded, RollsBack, Cmd
<1>5. /\ b # <<>> /\ \A x \in U : Restores(x, b)
      /\ KeychainRestored(U, b) /\ SdkRestored(U, b) /\ FileRestored(U, b)
  BY <1>1, <1>4 DEF Good, Restoring
<1>6. Performed(w)
  BY DEF Guarded
<1> HIDE DEF w, U, T, b
<1>7. Restores(w, b)
  BY <1>2, <1>5
<1>8. ASSUME NEW n \in Names, NEW t \in CredentialTypes, keychain'[<<n, t>>] # b[2][<<n, t>>]
      PROVE  TouchesKey(T, n, t)
  <2>1. keychain'[<<n, t>>] = IF w.what = "keychain" /\ w.name = n /\ w.type = t
                              THEN w.secret ELSE keychain[<<n, t>>]
    BY <1>1, <1>6, Entry
  <2>2. ~(w.what = "keychain" /\ w.name = n /\ w.type = t)
    BY <1>7, <1>8, <2>1 DEF Restores
  <2>3. TouchesKey(U, n, t)
    BY <1>5, <1>8, <2>1, <2>2 DEF KeychainRestored
  <2> QED BY <1>2, <2>2, <2>3 DEF TouchesKey
<1>9. sdk' # b[3] => Touches(T, "sdk")
  BY <1>2, <1>5, <1>6, <1>7 DEF SdkRestored, Restores, Touches, Performed
<1>10. file' # b[1] => Touches(T, "file")
  BY <1>2, <1>5, <1>6, <1>7 DEF FileRestored, Restores, Touches, Performed
<1> QED BY <1>2, <1>5, <1>8, <1>9, <1>10

\* A write of p is through; the file is what it wrote if nobody disturbed it.
LEMMA WrittenKeeps ==
  ASSUME IInv, NEW p \in Procs, Performing(p, Doing \cup Undoing), calm[p] => Performed(NextWrite(p)),
         file' \in Files, keychain' \in Keychain, sdk' \in Sdk, ~torn' => Consistent(file)',
         Proceed(p), Disturb(p), UNCHANGED <<before, torn>>, Aside(p), p \notin adrift'
  PROVE  IInv'
<1>1. WellTyped /\ Good(p) /\ proc[p].pc \in Doing \cup Undoing
  BY DEF IInv, Performing
<1>5. Formed(p)' /\ (~torn' => Named(p)') /\ Alone(p)'
  BY ProceedForms DEF Aside
<1>6. CASE proc[p].pc \in Doing
  <2>1. Did(p) \in ProcState /\ proc' = [proc EXCEPT ![p] = Did(p)]
    BY <1>6, ProceedIs
  <2>2. Moves(p, Did(p)) /\ calm'[p] = calm[p]
    BY <2>1, DisturbIs
  <2>3. Performing(p, Doing)
    BY <1>6 DEF Performing
  <2>4. Good(p)'
    BY <1>5, <2>2, <2>3, DoneCleans, DoneRestores DEF Good
  <2> QED BY <2>2, <2>4, StepKeeps
<1>7. CASE proc[p].pc \in Undoing
  <2>1. /\ Undid(p) \in ProcState /\ proc' = [proc EXCEPT ![p] = Undid(p)]
        /\ proc'[p].pc = "undo" /\ proc'[p].cmd = Cmd(p)
    BY <1>7, ProceedIs
  <2>2. Moves(p, Undid(p)) /\ calm'[p] = calm[p]
    BY <2>1, DisturbIs
  <2>3. Performing(p, Undoing)
    BY <1>7 DEF Performing
  <2>4. Cmd(p).kind # "delete"
    BY <1>1, <1>7 DEF Good, Cleaning, Doing, Undoing
  <2>5. Cleaning(p)'
    BY <2>1, <2>4 DEF Cleaning, Cmd
  <2>6. Good(p)'
    BY <1>5, <2>2, <2>3, <2>5, UndoneRestores DEF Good
  <2> QED BY <2>2, <2>6, StepKeeps
<1> QED BY <1>1, <1>6, <1>7

LEMMA PerformedKeeps ==
  ASSUME IInv, NEW p \in Procs, Performing(p, Doing \cup Undoing), Performed(NextWrite(p)),
         Proceed(p), Disturb(p), UNCHANGED <<before, torn>>, Aside(p), p \notin adrift'
  PROVE  IInv'
<1> DEFINE w == NextWrite(p)
<1>1. w \in Write /\ GoodWrite(w) /\ (~torn /\ w.what = "file" => Consistent(w.config))
  BY KnowsWrites
<1>2. file' \in Files /\ keychain' \in Keychain /\ sdk' \in Sdk
  BY <1>1, PerformedTyped
<1>3. ~torn' => Consistent(file)'
  <2>1. ~torn => Consistent(file)
    BY DEF IInv
  <2>2. file' = IF w.what = "file" THEN w.config ELSE file
    BY DEF Performed
  <2> HIDE DEF w
  <2>3. CASE w.what = "file"
    BY <1>1, <2>2, <2>3 DEF Consistent, Sound, Aside
  <2>4. CASE w.what # "file"
    BY <2>1, <2>2, <2>4 DEF Consistent, Sound, Aside
  <2> QED BY <2>3, <2>4
<1> QED BY <1>2, <1>3, WrittenKeeps

LEMMA PutSecretKeeps ==
  ASSUME IInv, NEW p \in Procs, PutSecret(p)
  PROVE  IInv'
<1>1. Performing(p, Doing \cup Undoing)
  BY DEF PutSecret, Performing, Doing, Undoing
<1>2. Performed(NextWrite(p))
  BY DEF PutSecret, Performed
<1>3. Aside(p) /\ p \notin adrift'
  <2>1. UNCHANGED <<adrift, mixed>> /\ proc[p].pc \in {"do", "undo"} /\ Alone(p)
    BY DEF PutSecret, Performing, IInv, Good
  <2> QED BY <2>1, QuietAside DEF Alone
<1> QED BY <1>1, <1>2, <1>3, PerformedKeeps DEF PutSecret

----------------------------------------------------------------------------
(* Filling the file                                                          *)

LEMMA PartTyped ==
  ASSUME NEW c \in Config, NEW kept \in SUBSET Listed(c)
  PROVE  [n \in Names |-> IF n \in kept THEN c.profiles[n] ELSE NoProfile] \in [Names -> Profile \cup {NoProfile}]
BY DEF Config

LEMMA CutIs ==
  ASSUME NEW c \in Config, NEW f \in Cut(c)
  PROVE  f \in Config \cup {Torn}
<1>1. CASE f = Torn
  BY <1>1
<1>2. CASE f # Torn
  <2>1. PICK kept \in SUBSET Listed(c) :
          f = [c EXCEPT !.profiles = [n \in Names |-> IF n \in kept THEN @[n] ELSE NoProfile]]
    BY <1>2 DEF Cut
  <2> DEFINE q == [n \in Names |-> IF n \in kept THEN c.profiles[n] ELSE NoProfile]
  <2>2. f = [c EXCEPT !.profiles = q] /\ q \in [Names -> Profile \cup {NoProfile}]
    BY <2>1, PartTyped
  <2> HIDE DEF q
  <2>3. f \in Config
    BY <2>2 DEF Config
  <2> QED BY <2>3
<1> QED BY <1>1, <1>2

\* A tail adds profiles and leaves the default as it is.
LEMMA OverlaidIs ==
  ASSUME NEW c \in Config \cup {Torn}, NEW old \in Files, NEW f \in Overlaid(c, old), f # Torn
  PROVE  c \in Config /\ f \in Config /\ f.default = c.default /\ Listed(c) \subseteq Listed(f)
<1>1. old.profiles \in [Names -> Profile \cup {NoProfile}]
  <2>1. /\ EmptyConfig.profiles = [n \in Names |-> NoProfile] /\ Absent.profiles = EmptyConfig.profiles
        /\ Emptied.profiles = EmptyConfig.profiles /\ Torn.profiles = EmptyConfig.profiles
    BY DEF Absent, Emptied, Torn, EmptyConfig
  <2>2. EmptyConfig.profiles \in [Names -> Profile \cup {NoProfile}]
    BY <2>1
  <2> QED BY <2>1, <2>2 DEF Files, Config, Unreadable
<1>2. PICK tail \in IF c = Torn THEN {} ELSE Tails(old) :
        f = [c EXCEPT !.profiles = [n \in Names |-> IF @[n] # NoProfile THEN @[n] ELSE tail[n]]]
  BY DEF Overlaid
<1>3. c \in Config /\ tail \in Tails(old)
  BY <1>2
<1>4. tail \in [Names -> Profile \cup {NoProfile}]
  BY <1>1, <1>3 DEF Tails
<1> DEFINE q == [n \in Names |-> IF c.profiles[n] # NoProfile THEN c.profiles[n] ELSE tail[n]]
<1>5. f = [c EXCEPT !.profiles = q]
  BY <1>2
<1>6. q \in [Names -> Profile \cup {NoProfile}]
  BY <1>3, <1>4 DEF Config
<1>7. \A n \in Names : c.profiles[n] # NoProfile => q[n] # NoProfile
  OBVIOUS
<1> HIDE DEF q
<1>8. f \in Config /\ f.default = c.default /\ f.profiles = q
  BY <1>3, <1>5, <1>6 DEF Config
<1> QED BY <1>3, <1>7, <1>8 DEF Listed

\* What a process that fills a file may leave there.
LEMMA PouredIs ==
  ASSUME IInv, NEW p \in Procs, NEW texts \in SUBSET (Config \cup {Torn}), NEW f \in Poured(p, texts), f # Torn
  PROVE  \/ f = file /\ p \in adrift
         \/ f \in texts /\ p \notin adrift /\ file = Emptied
         \/ /\ f \in Config /\ p \notin adrift /\ file # Emptied
            /\ \E c \in texts : c \in Config /\ f.default = c.default /\ Listed(c) \subseteq Listed(f)
<1>1. file \in Files
  BY DEF IInv, WellTyped
<1>2. CASE p \in adrift
  BY <1>2 DEF Poured
<1>3. CASE p \notin adrift /\ file = Emptied
  BY <1>3 DEF Poured
<1>4. CASE p \notin adrift /\ file # Emptied
  <2>1. PICK c \in texts : f \in Overlaid(c, file)
    BY <1>4 DEF Poured
  <2> QED BY <1>1, <1>4, <2>1, OverlaidIs
<1> QED BY <1>2, <1>3, <1>4

\* A process that fills has a configuration to write.
LEMMA FillingIs ==
  ASSUME IInv, NEW p \in Procs, Filling(p)
  PROVE  /\ Performing(p, Doing \cup Undoing) /\ proc[p].pc \in {"fill", "undoFill"} /\ Alone(p)
         /\ NextWrite(p).what = "file" /\ NextWrite(p).config \in Config
         /\ ~torn => Sound(NextWrite(p).config)
<1>1. Performing(p, Doing \cup Undoing) /\ proc[p].pc \in {"fill", "undoFill"} /\ Good(p)
  BY DEF Filling, Performing, Doing, Undoing, IInv
<1>2. NextWrite(p).what = "file" /\ NextWrite(p).config # Absent
  BY <1>1 DEF Good, Formed
<1>3. NextWrite(p).config \in Config
  BY <1>1, <1>2, KnowsWrites DEF Write
<1>4. ~torn => Sound(NextWrite(p).config)
  BY <1>1, <1>2, <1>3, KnowsWrites, NoCommandTyped DEF Consistent
<1> QED BY <1>1, <1>2, <1>3, <1>4 DEF Good

LEMMA FillKeeps ==
  ASSUME IInv, NEW p \in Procs, Fill(p)
  PROVE  IInv'
<1> DEFINE c == NextWrite(p).config
<1>1. /\ Performing(p, Doing \cup Undoing) /\ proc[p].pc \in {"fill", "undoFill"} /\ Alone(p)
      /\ NextWrite(p).what = "file" /\ c \in Config /\ (~torn => Sound(c))
  BY FillingIs DEF Fill
<1>2. file' \in Poured(p, {c}) /\ Close(p) /\ UNCHANGED <<keychain, sdk, torn>>
  BY DEF Fill
<1>3. WellTyped /\ (~torn => Consistent(file))
  BY DEF IInv
<1>4. calm[p] => Performed(NextWrite(p))
  BY <1>1, <1>2 DEF Alone, Poured, Performed
<1>5. Aside(p) /\ p \notin adrift'
  BY <1>2, CloseAside
<1> HIDE DEF c
<1>6. CASE file' = Torn
  <2>1. file' \in Files /\ Consistent(file)'
    BY <1>6 DEF Files, Unreadable, Consistent
  <2> QED BY <1>1, <1>2, <1>3, <1>4, <1>5, <2>1, WrittenKeeps DEF Fill, WellTyped
<1>7. CASE file' # Torn
  <2>1. \/ file' = file /\ p \in adrift
        \/ file' = c /\ p \notin adrift /\ file = Emptied
        \/ /\ file' \in Config /\ p \notin adrift /\ file # Emptied
           /\ file'.default = c.default /\ Listed(c) \subseteq Listed(file')
    BY <1>1, <1>2, <1>7, PouredIs
  <2>2. mixed => mixed'
    BY <1>5 DEF Aside
  <2>3. CASE file' = file /\ p \in adrift
    <3>1. file' \in Files /\ (~torn' => Consistent(file)')
      BY <1>2, <1>3, <2>2, <2>3 DEF WellTyped, Consistent, Sound
    <3> QED BY <1>1, <1>2, <1>3, <1>4, <1>5, <3>1, WrittenKeeps DEF Fill, WellTyped
  <2>4. CASE file' = c /\ p \notin adrift /\ file = Emptied
    <3>1. file' \in Files /\ (~torn' => Consistent(file)')
      BY <1>1, <1>2, <2>2, <2>4 DEF Files, Consistent, Sound
    <3> QED BY <1>1, <1>2, <1>3, <1>4, <1>5, <3>1, WrittenKeeps DEF Fill, WellTyped
  <2>5. CASE /\ file' \in Config /\ p \notin adrift /\ file # Emptied
             /\ file'.default = c.default /\ Listed(c) \subseteq Listed(file')
    <3>1. mixed'
      BY <1>2, <2>5 DEF Close
    <3>2. file' \in Files /\ (~torn' => Consistent(file)')
      BY <1>1, <1>2, <2>5, <3>1 DEF Files, Consistent, Sound
    <3> QED BY <1>1, <1>2, <1>3, <1>4, <1>5, <3>2, WrittenKeeps DEF Fill, WellTyped
  <2> QED BY <2>1, <2>3, <2>4, <2>5
<1> QED BY <1>6, <1>7

Opened(p) == [proc[p] EXCEPT !.pc = IF proc[p].pc = "do" THEN "fill" ELSE "undoFill"]

LEMMA TruncateKeeps ==
  ASSUME IInv, NEW p \in Procs, Truncate(p)
  PROVE  IInv'
<1> DEFINE w == NextWrite(p)
           d == Opened(p)
<1>1. /\ WellTyped /\ Good(p) /\ proc[p] \in ProcState
      /\ Performing(p, Doing \cup Undoing) /\ proc[p].pc \in {"do", "undo"} /\ w.what = "file"
      /\ Disturb(p) /\ UNCHANGED <<keychain, sdk, before, torn, mixed>>
      /\ p \notin adrift /\ ~Filling(p)
  BY DEF IInv, WellTyped, Truncate, Performing, Doing, Undoing, Good, Alone, Filling
<1>2. CASE w.config = Absent
  <2>1. Performed(w) /\ Proceed(p)
    BY <1>1, <1>2 DEF Truncate, Performed
  <2>2. adrift' = adrift \cup {q \in Procs : Filling(q)}
    BY <1>2 DEF Truncate
  <2>3. Aside(p) /\ p \notin adrift'
    BY <1>1, <2>2 DEF Aside, WellTyped
  <2> QED BY <1>1, <2>1, <2>3, PerformedKeeps
<1>3. CASE w.config # Absent
  <2>1. file' = Emptied /\ UNCHANGED adrift /\ proc' = [proc EXCEPT ![p] = d]
    BY <1>1, <1>3 DEF Truncate, Opened, WellTyped, ProcState
  <2>2. /\ d \in ProcState /\ d.pc = (IF proc[p].pc = "do" THEN "fill" ELSE "undoFill")
        /\ d.cmd = proc[p].cmd /\ d.todo = proc[p].todo /\ d.undo = proc[p].undo /\ d.n = proc[p].n
    BY <1>1 DEF Opened, ProcState, Pcs
  <2>3. Moves(p, d) /\ calm'[p] = calm[p]
    BY <1>1, <2>1, <2>2, QuietAside, DisturbIs
  <2>4. proc'[p] = d
    BY <1>1, <2>1 DEF WellTyped
  <2> HIDE DEF d
  <2>5. List(p)' = List(p) /\ NextWrite(p)' = w /\ List(p) # <<>> /\ Cmd(p)' = Cmd(p) /\ before'[p] = before[p]
    BY <1>1, <2>2, <2>4 DEF List, NextWrite, Performing, Cmd
  <2> HIDE DEF w
  <2>6. Formed(p)'
    BY <1>1, <1>3, <2>2, <2>4, <2>5 DEF Good, Formed, Doing, Undoing
  <2>7. ~torn' => Named(p)'
    BY <1>1, <2>2, <2>4, <2>5 DEF Good, Named, FilesNamed, Consistent, Sound, Doing, Undoing
  <2>8. Cleaning(p)'
    BY <1>1, <2>2, <2>3, <2>4, <2>5 DEF Good, Cleaning, Doing, Undoing
  <2>9. Restoring(p)'
    <3> DEFINE U == ToSet(proc[p].undo)
               b == before[p]
    <3> SUFFICES ASSUME Guarded(p)' PROVE Restoring(p)'
      BY DEF Restoring
    <3>1. Guarded(p)
      BY <1>1, <2>3, <2>5 DEF Guarded, RollsBack, Cmd
    <3>2. b # <<>> /\ \A x \in U : Restores(x, b)
      BY <1>1, <3>1 DEF Good, Restoring, Doing, Undoing
    <3>3. w \in ToSet(List(p))
      BY <1>1, KnowsWrites DEF w, List, Doing, Undoing
    <3>4. CASE proc[p].pc = "do"
      <4>1. /\ (IsSession(p) => SessionFile(proc[p].todo)) /\ proc[p].todo # <<>>
            /\ KeychainRestored(U, b) /\ SdkRestored(U, b)
            /\ \A x \in ToSet(proc[p].todo) : Covered(x, U, IsSession(p))
        BY <1>1, <2>5, <3>1, <3>4 DEF Good, Restoring, Doing, List
      <4>2. w \in ToSet(proc[p].todo)
        BY <3>3, <3>4 DEF List
      <4>3. ~IsSession(p) => Touches(U, "file")
        BY <1>1, <4>1, <4>2 DEF Covered
      <4>4. KeychainRestored(U, b)' /\ SdkRestored(U, b)' /\ (~IsSession(p) => FileRestored(U, b)')
        BY <1>1, <2>2, <2>4, <2>5, <4>1, <4>3 DEF KeychainRestored, SdkRestored, FileRestored
      <4> QED BY <1>1, <2>2, <2>4, <2>5, <3>2, <3>4, <4>1, <4>4 DEF Restoring, IsSession, Doing, Undoing
    <3>5. CASE proc[p].pc = "undo"
      <4>1. KeychainRestored(U, b) /\ SdkRestored(U, b) /\ w \in U
        BY <1>1, <3>1, <3>3, <3>5 DEF Good, Restoring, Undoing, List
      <4>2. KeychainRestored(U, b)' /\ SdkRestored(U, b)' /\ FileRestored(U, b)'
        BY <1>1, <2>2, <2>4, <2>5, <4>1 DEF KeychainRestored, SdkRestored, FileRestored, Touches
      <4> QED BY <1>1, <2>2, <2>4, <2>5, <3>2, <3>5, <4>2 DEF Restoring, IsSession, Doing, Undoing
    <3> QED BY <1>1, <3>4, <3>5
  <2>10. Consistent(file)' /\ file' \in Files
    BY <2>1 DEF Consistent, Files, Unreadable
  <2>11. Alone(p)'
    BY <1>1, <2>1, <2>2, <2>4 DEF Alone
  <2> QED BY <1>1, <2>3, <2>6, <2>7, <2>8, <2>9, <2>10, <2>11, StepKeeps DEF WellTyped, Good
<1> QED BY <1>2, <1>3

----------------------------------------------------------------------------
(* A write fails                                                             *)

\* Where a failure leaves the file: what was written, if it was being filled, is cut.
AfterFile(p) ==
  \/ proc[p].pc \in {"do", "undo"} /\ UNCHANGED <<file, torn, adrift, mixed>>
  \/ Filling(p) /\ CutShort(p)

LEMMA AfterFileTyped ==
  ASSUME IInv, NEW p \in Procs, AfterFile(p)
  PROVE  /\ file' \in Files /\ (~torn' => Consistent(file)') /\ torn' \in BOOLEAN /\ (torn => torn')
         /\ Aside(p) /\ p \notin adrift' /\ \A q \in Procs : q \in adrift' => q \in adrift
<1>1. /\ file \in Files /\ torn \in BOOLEAN /\ (~torn => Consistent(file)) /\ proc[p] \in ProcState
      /\ Good(p)
  BY DEF IInv, WellTyped
<1>2. CASE Filling(p) /\ CutShort(p)
  <2> DEFINE c == NextWrite(p).config
  <2>1. c \in Config
    BY <1>2, FillingIs
  <2>2. file' \in Poured(p, Cut(c)) \cup {file} /\ Close(p) /\ torn' = TRUE
    BY <1>2 DEF CutShort
  <2> HIDE DEF c
  <2>3. Cut(c) \in SUBSET (Config \cup {Torn})
    BY <2>1, CutIs
  <2>4. file' \in Files
    BY <1>1, <2>2, <2>3, PouredIs DEF Files, Unreadable
  <2> QED BY <1>1, <2>2, <2>4, CloseAside
<1>3. CASE proc[p].pc \in {"do", "undo"} /\ UNCHANGED <<file, torn, adrift, mixed>>
  <2>1. ~torn' => Consistent(file)'
    BY <1>1, <1>3 DEF Consistent, Sound
  <2> QED BY <1>1, <1>3, <2>1, QuietAside DEF Good, Alone
<1> QED BY <1>2, <1>3 DEF AfterFile

\* delete: a credential that cannot be deleted is left, with a note.
LEMMA LaxKeeps ==
  ASSUME IInv, NEW p \in Procs, Performing(p, {"do", "undo"}), UNCHANGED <<stores, before, torn, adrift, mixed>>,
         Proceed(p), calm' = [Kept(p, FALSE) EXCEPT ![p] = FALSE]
  PROVE  IInv'
<1>1. WellTyped /\ Good(p) /\ proc[p].pc \in Doing \cup Undoing /\ Performing(p, Doing \cup Undoing)
  BY DEF IInv, Performing, Doing, Undoing
<1>2. UNCHANGED <<file, keychain, sdk>>
  BY DEF stores
<1>3. calm' \in [Procs -> BOOLEAN] /\ ~calm'[p] /\ \A q \in Procs \ {p} : calm'[q] = calm[q]
  BY <1>1 DEF Kept, WellTyped
<1>4. Formed(p)' /\ (~torn' => Named(p)') /\ Alone(p)' /\ Aside(p)
  BY <1>1, ProceedForms, QuietAside DEF Good, Alone, Performing
<1>5. Restoring(p)'
  BY <1>3 DEF Restoring, Guarded
<1>6. CASE proc[p].pc \in Doing
  <2>1. /\ Did(p) \in ProcState /\ proc' = [proc EXCEPT ![p] = Did(p)] /\ proc'[p].pc = "do"
        /\ proc'[p].cmd = Cmd(p) /\ proc'[p].undo = proc[p].undo
    BY <1>1, <1>6, ProceedIs
  <2>2. Moves(p, Did(p))
    BY <1>1, <1>3, <1>4, <2>1 DEF Moves, WellTyped
  <2>3. Cleaning(p)'
    BY <1>1, <1>3, <1>6, <2>1 DEF Good, Cleaning, Cmd, Doing
  <2> QED BY <1>1, <1>2, <1>4, <1>5, <2>2, <2>3, StepKeeps DEF Good, IInv, WellTyped, Consistent, Sound
<1>7. CASE proc[p].pc \in Undoing
  <2>1. /\ Undid(p) \in ProcState /\ proc' = [proc EXCEPT ![p] = Undid(p)] /\ proc'[p].pc = "undo"
        /\ proc'[p].cmd = Cmd(p)
    BY <1>1, <1>7, ProceedIs
  <2>2. Moves(p, Undid(p))
    BY <1>1, <1>3, <1>4, <2>1 DEF Moves, WellTyped
  <2>3. Cleaning(p)'
    BY <1>1, <1>7, <2>1 DEF Good, Cleaning, Cmd, Doing, Undoing
  <2> QED BY <1>1, <1>2, <1>4, <1>5, <2>2, <2>3, StepKeeps DEF Good, IInv, WellTyped, Consistent, Sound
<1> QED BY <1>1, <1>6, <1>7

Turned(p) == [proc[p] EXCEPT !.pc = "undo", !.todo = <<>>]

\* From the first failed write on, the command restores.
LEMMA TurnKeeps ==
  ASSUME IInv, NEW p \in Procs, NEW wrote \in BOOLEAN, Performing(p, Doing), proc[p].undo # <<>>,
         AfterFile(p), wrote <=> proc[p].pc = "fill", UNCHANGED <<keychain, sdk, before>>,
         proc' = [proc EXCEPT ![p].pc = "undo", ![p].todo = <<>>], calm' = Kept(p, wrote)
  PROVE  IInv'
<1> DEFINE d == Turned(p)
           U == ToSet(proc[p].undo)
           b == before[p]
           w == NextWrite(p)
<1>1. /\ WellTyped /\ Good(p) /\ proc[p] \in ProcState /\ proc[p].pc \in Doing
      /\ Performing(p, Doing \cup Undoing)
  BY DEF IInv, WellTyped, Performing
<1>2. proc' = [proc EXCEPT ![p] = d] /\ proc'[p] = d
  BY <1>1 DEF Turned, WellTyped
<1>3. /\ d \in ProcState /\ d.pc = "undo" /\ d.todo = <<>> /\ d.undo = proc[p].undo
      /\ d.cmd = proc[p].cmd /\ d.n = proc[p].n
  <2>1. <<>> \in Seq(Write)
    OBVIOUS
  <2> QED BY <1>1, <2>1 DEF Turned, ProcState, Pcs
<1>4. ToSet(d.todo) = {} /\ Cmd(p)' = Cmd(p)
  BY <1>2, <1>3, SetOfNone DEF Cmd
<1> HIDE DEF d
<1>5. /\ file' \in Files /\ (~torn' => Consistent(file)') /\ torn' \in BOOLEAN /\ (torn => torn')
      /\ Aside(p) /\ p \notin adrift' /\ \A q \in Procs : q \in adrift' => q \in adrift
  BY AfterFileTyped
<1>6. calm' \in [Procs -> BOOLEAN] /\ calm'[p] = calm[p] /\ \A q \in Procs \ {p} : calm'[q] => calm[q] /\ ~wrote
  BY <1>1 DEF Kept, WellTyped
<1>7. ~wrote => UNCHANGED stores
  BY <1>1 DEF AfterFile, Filling, Performing, stores, Doing
<1>8. Moves(p, d)
  BY <1>1, <1>2, <1>3, <1>5, <1>6, <1>7 DEF Moves, WellTyped
<1>9. Formed(p)'
  BY <1>1, <1>2, <1>3, <1>4 DEF Good, Formed, Doing
<1>10. ~torn' => Named(p)'
  BY <1>1, <1>2, <1>3, <1>4, <1>5 DEF Good, Named, FilesNamed, Consistent, Sound, Aside, Doing
<1>11. Cleaning(p)'
  BY <1>1, <1>2, <1>3, <1>4 DEF Good, Cleaning, Doing
<1>12. Restoring(p)'
  <2> SUFFICES ASSUME Guarded(p)'
               PROVE  /\ b # <<>> /\ \A x \in U : Restores(x, b)
                      /\ \A n \in Names, t \in CredentialTypes :
                           keychain'[<<n, t>>] # b[2][<<n, t>>] => TouchesKey(U, n, t)
                      /\ sdk' # b[3] => Touches(U, "sdk")
                      /\ file' # b[1] => Touches(U, "file")
    BY <1>2, <1>3 DEF Restoring, Doing, Undoing, KeychainRestored, SdkRestored, FileRestored
  <2>1. Guarded(p) /\ (IsSession(p) => ~torn')
    BY <1>4, <1>5, <1>6 DEF Guarded, RollsBack, Cmd, IsSession
  <2>2. proc[p].todo # <<>> /\ w \in ToSet(proc[p].todo)
    BY <1>1, KnowsWrites
  <2>3. /\ b # <<>> /\ (\A x \in U : Restores(x, b)) /\ KeychainRestored(U, b) /\ SdkRestored(U, b)
        /\ ~(IsSession(p) /\ proc[p].pc = "fill") => FileRestored(U, b)
        /\ \A x \in ToSet(proc[p].todo) : Covered(x, U, IsSession(p))
    BY <1>1, <2>1, <2>2 DEF Good, Restoring
  <2>4. file' # b[1] => Touches(U, "file")
    <3>1. CASE proc[p].pc = "fill"
      <4>1. w.what = "file" /\ ~IsSession(p)
        BY <1>1, <2>1, <3>1 DEF Good, Formed, AfterFile, CutShort
      <4> QED BY <2>2, <2>3, <4>1 DEF Covered
    <3>2. CASE proc[p].pc = "do"
      BY <2>3, <3>2 DEF FileRestored, AfterFile, Filling, Performing
    <3> QED BY <1>1, <3>1, <3>2 DEF Doing
  <2> QED BY <2>3, <2>4 DEF KeychainRestored, SdkRestored
<1>13. Alone(p)'
  BY <1>2, <1>3, <1>5 DEF Alone
<1> QED BY <1>1, <1>5, <1>8, <1>9, <1>10, <1>11, <1>12, <1>13, StepKeeps DEF Good, WellTyped

LEMMA WriteFailsKeeps ==
  ASSUME IInv, NEW p \in Procs, WriteFails(p)
  PROVE  IInv'
<1>1. /\ Performing(p, {"do", "undo"}) /\ AfterFailure(p, FALSE) /\ UNCHANGED <<stores, torn, adrift, mixed>>
      /\ proc[p].pc # "idle" /\ AfterFile(p)
  BY DEF WriteFails, Performing, AfterFile, stores
<1>2. UNCHANGED <<file, keychain, sdk>> /\ WellTyped /\ (~torn => Consistent(file))
  BY <1>1 DEF stores, IInv
<1>3. CASE NextWrite(p).lax
  BY <1>1, <1>3, LaxKeeps DEF AfterFailure
<1>4. CASE ~NextWrite(p).lax /\ proc[p].pc \in Doing /\ proc[p].undo # <<>>
  <2>1. /\ proc' = [proc EXCEPT ![p].pc = "undo", ![p].todo = <<>>]
        /\ calm' = Kept(p, FALSE) /\ UNCHANGED before
    BY <1>1, <1>4 DEF AfterFailure, Doing
  <2>2. Performing(p, Doing) /\ AfterFile(p) /\ (FALSE <=> proc[p].pc = "fill")
    BY <1>1, <1>2, <1>4 DEF Performing, AfterFile, Doing
  <2> QED BY <1>2, <1>4, <2>1, <2>2, TurnKeeps
<1>5. CASE ~NextWrite(p).lax /\ ~(proc[p].pc \in Doing /\ proc[p].undo # <<>>)
  <2>1. Finish(p, FALSE)
    BY <1>1, <1>5 DEF AfterFailure, Doing
  <2> QED BY <1>1, <1>2, <2>1, AfterFileTyped, FinishKeeps DEF WellTyped
<1> QED BY <1>3, <1>4, <1>5

LEMMA FillFailsKeeps ==
  ASSUME IInv, NEW p \in Procs, FillFails(p)
  PROVE  IInv'
<1>1. /\ Performing(p, {"fill", "undoFill"}) /\ AfterFailure(p, TRUE) /\ UNCHANGED <<keychain, sdk>>
      /\ proc[p].pc # "idle" /\ AfterFile(p) /\ Performing(p, Doing \cup Undoing)
  BY DEF FillFails, Filling, Performing, AfterFile, Doing, Undoing
<1>2. /\ WellTyped /\ file' \in Files /\ (~torn' => Consistent(file)') /\ torn' \in BOOLEAN /\ (torn => torn')
      /\ Aside(p) /\ p \notin adrift' /\ \A q \in Procs : q \in adrift' => q \in adrift
  BY <1>1, AfterFileTyped DEF IInv
<1>3. ~NextWrite(p).lax
  <2>1. NextWrite(p).what = "file" /\ GoodWrite(NextWrite(p)) /\ NextWrite(p) \in Write
    BY <1>1, KnowsWrites DEF IInv, Good, Formed, Performing
  <2> QED BY <2>1 DEF GoodWrite
<1>4. CASE proc[p].pc \in Doing /\ proc[p].undo # <<>>
  <2>1. /\ proc' = [proc EXCEPT ![p].pc = "undo", ![p].todo = <<>>]
        /\ calm' = Kept(p, TRUE) /\ UNCHANGED before
    BY <1>1, <1>3, <1>4 DEF AfterFailure, Doing
  <2>2. Performing(p, Doing) /\ (TRUE <=> proc[p].pc = "fill")
    BY <1>1, <1>4 DEF Performing, Doing
  <2> QED BY <1>1, <1>4, <2>1, <2>2, TurnKeeps
<1>5. CASE ~(proc[p].pc \in Doing /\ proc[p].undo # <<>>)
  <2>1. Finish(p, TRUE)
    BY <1>1, <1>3, <1>5 DEF AfterFailure, Doing
  <2> QED BY <1>1, <1>2, <2>1, FinishKeeps DEF WellTyped
<1> QED BY <1>4, <1>5

----------------------------------------------------------------------------
(* A command ends                                                            *)

LEMMA QuietEndKeeps ==
  ASSUME IInv, NEW p \in Procs, proc[p].pc \notin {"idle", "fill", "undoFill"}, Finish(p, FALSE),
         UNCHANGED <<stores, adrift, torn, mixed>>
  PROVE  IInv'
<1>1. WellTyped /\ (~torn => Consistent(file)) /\ Alone(p) /\ UNCHANGED <<file, keychain, sdk>>
  BY DEF IInv, Good, stores
<1>2. /\ file' \in Files /\ keychain' \in Keychain /\ sdk' \in Sdk /\ torn' \in BOOLEAN
      /\ (~torn' => Consistent(file)') /\ (torn => torn')
  BY <1>1 DEF WellTyped, Consistent, Sound
<1>3. FALSE \in BOOLEAN /\ Aside(p) /\ p \notin adrift'
  BY <1>1, QuietAside DEF Alone
<1> QED BY <1>2, <1>3, FinishKeeps

LEMMA KillKeeps ==
  ASSUME IInv, NEW p \in Procs, Kill(p)
  PROVE  IInv'
<1>1. proc[p].pc # "idle" /\ Finish(p, Filling(p)) /\ UNCHANGED <<keychain, sdk>>
  BY DEF Kill
<1>2. WellTyped /\ Good(p)
  BY DEF IInv
<1>3. CASE Filling(p)
  <2>1. AfterFile(p) /\ Finish(p, TRUE)
    BY <1>1, <1>3 DEF Kill, AfterFile, Finish, Kept
  <2> QED BY <1>1, <1>2, <2>1, AfterFileTyped, FinishKeeps DEF WellTyped
<1>4. CASE ~Filling(p)
  <2>1. UNCHANGED <<stores, adrift, torn, mixed>> /\ Finish(p, FALSE)
    BY <1>1, <1>4 DEF Kill, stores, Finish, Kept
  <2>2. proc[p].pc \notin {"fill", "undoFill"}
    BY <1>2, <1>4 DEF Good, Formed, Filling, Performing
  <2> QED BY <1>1, <2>1, <2>2, QuietEndKeeps
<1> QED BY <1>3, <1>4

----------------------------------------------------------------------------
(* The invariant                                                             *)

LEMMA PerformKeeps ==
  ASSUME IInv, NEW p \in Procs, Perform(p)
  PROVE  IInv'
<1>1. CASE PutSecret(p)
  BY <1>1, PutSecretKeeps
<1>2. CASE Truncate(p)
  BY <1>2, TruncateKeeps
<1>3. CASE Fill(p)
  BY <1>3, FillKeeps
<1>4. CASE WriteFails(p)
  BY <1>4, WriteFailsKeeps
<1>5. CASE FillFails(p)
  BY <1>5, FillFailsKeeps
<1>6. CASE EndCommand(p)
  BY <1>6, QuietEndKeeps DEF EndCommand
<1>7. CASE Kill(p)
  BY <1>7, KillKeeps
<1> QED BY <1>1, <1>2, <1>3, <1>4, <1>5, <1>6, <1>7 DEF Perform

LEMMA PlanCommandKeeps ==
  ASSUME IInv, NEW p \in Procs, PlanCommand(p)
  PROVE  IInv'
<1>1. CASE SetProfile(p)
  BY <1>1, SetProfileKeeps
<1>2. CASE UseProfile(p)
  BY <1>2, UseProfileKeeps
<1>3. CASE SetOutput(p)
  BY <1>3, SetOutputKeeps
<1>4. CASE DeleteProfile(p)
  BY <1>4, DeleteProfileKeeps
<1>5. CASE Import(p)
  BY <1>5, ImportKeeps
<1>6. CASE Export(p)
  BY <1>6, ExportKeeps
<1>7. CASE Login(p)
  BY <1>7, LoginKeeps
<1>8. CASE LoginSdk(p)
  BY <1>8, LoginSdkKeeps
<1>9. CASE Logout(p)
  BY <1>9, LogoutKeeps
<1>10. CASE Session(p)
  BY <1>10, SessionKeeps
<1>11. CASE Forget(p)
  BY <1>11, ForgetKeeps
<1>12. CASE GiveUp(p)
  BY <1>12, QuietEndKeeps DEF GiveUp
<1> QED BY <1>1, <1>2, <1>3, <1>4, <1>5, <1>6, <1>7, <1>8, <1>9, <1>10, <1>11, <1>12 DEF PlanCommand

LEMMA InitInv == Init => IInv
<1> SUFFICES ASSUME Init PROVE IInv
  OBVIOUS
<1>1. file \in Configs \cup {Absent} /\ sdk \in Aliases
      /\ proc = [p \in Procs |-> IdleProc]
      /\ before = [p \in Procs |-> <<>>] /\ calm = [p \in Procs |-> FALSE] /\ torn = FALSE
      /\ adrift = {} /\ mixed = FALSE
  BY DEF Init
<1>2. file \in Config \cup {Absent} /\ Consistent(file) /\ sdk \in Sdk
  BY <1>1, BeginningAssumption DEF Consistent, Sound, DefaultNamed, Sdk
<1>3. keychain \in Keychain
  <2>1. PICK loggedIn \in {{}, Listed(file)} :
          keychain = [k \in Names \X CredentialTypes |->
            IF k[1] \in loggedIn /\ k[2] \in ToSet(TypesFor(file.profiles[k[1]].method))
            THEN [by |-> "before", instance |-> file.profiles[k[1]].instance] ELSE NoSecret]
    BY DEF Init
  <2>2. ASSUME NEW n \in Listed(file)
        PROVE  [by |-> "before", instance |-> file.profiles[n].instance] \in Secrets
    <3>1. file \in Config
      <4>1. Listed(Absent) = {}
        BY DEF Listed, Absent, EmptyConfig
      <4> QED BY <1>2, <2>2, <4>1
    <3>2. file.profiles[n] \in Profile
      BY <3>1 DEF Config, Listed
    <3> QED BY <3>2 DEF Profile, Secrets, Secret
  <2>3. ASSUME NEW k \in Names \X CredentialTypes
        PROVE  (IF k[1] \in loggedIn /\ k[2] \in ToSet(TypesFor(file.profiles[k[1]].method))
                THEN [by |-> "before", instance |-> file.profiles[k[1]].instance] ELSE NoSecret) \in Secrets
    <3>1. k[1] \in loggedIn => k[1] \in Listed(file)
      BY <2>1
    <3>2. NoSecret \in Secrets
      BY DEF Secrets
    <3> QED BY <2>2, <3>1, <3>2
  <2> QED BY <2>1, <2>3 DEF Keychain
<1>4. IdleProc \in ProcState /\ IdleProc.pc = "idle" /\ IdleProc.cmd = NoCommand
  <2>1. <<>> \in Seq(Write) /\ 0 \in 0 .. MaxCommands
    BY BoundAssumption
  <2> QED BY <2>1, NoCommandTyped DEF IdleProc, ProcState, Pcs
<1>5. WellTyped
  <2>1. proc \in [Procs -> ProcState]
    BY <1>1, <1>4
  <2>2. before \in [Procs -> {<<>>} \cup (Files \X Keychain \X Sdk)]
    BY <1>1
  <2>3. calm \in [Procs -> BOOLEAN] /\ torn \in BOOLEAN /\ mixed \in BOOLEAN /\ adrift \in SUBSET Procs
    BY <1>1
  <2> QED BY <1>2, <1>3, <2>1, <2>2, <2>3 DEF WellTyped, Files
<1>6. ASSUME NEW p \in Procs PROVE Good(p)
  <2>1. proc[p].pc = "idle" /\ Cmd(p).kind = None /\ ~calm[p]
    BY <1>1, <1>4 DEF Cmd, NoCommand
  <2> QED BY <1>1, <2>1 DEF Good, Formed, Named, Cleaning, Restoring, Alone, Guarded, Doing, Undoing, None
<1> QED BY <1>2, <1>5, <1>6 DEF IInv

LEMMA NextInv == IInv /\ [Next]_vars => IInv'
<1> SUFFICES ASSUME IInv, [Next]_vars PROVE IInv'
  OBVIOUS
<1>1. ASSUME NEW p \in Procs, BeginCommand(p) \/ PlanCommand(p) \/ Perform(p)
      PROVE  IInv'
  BY <1>1, BeginCommandKeeps, PlanCommandKeeps, PerformKeeps
<1>2. CASE UNCHANGED vars
  <2>1. UNCHANGED <<file, keychain, sdk, proc, before, calm, torn, adrift, mixed>>
    BY <1>2 DEF vars, stores, history
  <2>2. ASSUME NEW p \in Procs PROVE Good(p)'
    <3>1. Good(p)
      BY DEF IInv
    <3> QED BY <2>1, <3>1 DEF Good, Formed, Named, Cleaning, Restoring, Alone, Guarded, RollsBack, Cmd, List, NextWrite,
              FilesNamed, Consistent, Sound, IsSession, KeychainRestored, SdkRestored, FileRestored, stores
  <2> QED BY <2>1, <2>2 DEF IInv, WellTyped, Consistent, Sound
<1> QED BY <1>1, <1>2 DEF Next

LEMMA Invariance == Spec => []IInv
BY InitInv, NextInv, PTL DEF Spec

----------------------------------------------------------------------------
(* What it says                                                              *)

LEMMA TypeInv == IInv => TypeOK
<1> SUFFICES ASSUME IInv PROVE TypeOK
  OBVIOUS
<1>1. WellTyped
  BY DEF IInv
<1>2. ASSUME NEW p \in Procs
      PROVE  proc[p].pc \in {"idle", "loaded", "do", "fill", "undo", "undoFill"} /\ proc[p].cmd.config \in Config
             /\ proc[p].n \in 0 .. MaxCommands
  BY <1>1 DEF WellTyped, ProcState, CommandState, Pcs
<1> QED BY <1>1, <1>2 DEF WellTyped, TypeOK, Files, Keychain, Sdk, Secrets

LEMMA TraceInv == IInv => FailureLeavesNoTrace
<1> SUFFICES ASSUME IInv, NEW p \in Procs, proc[p].pc = "undo", proc[p].undo = <<>>, RollsBack(p), calm[p],
                    Cmd(p).kind = "session" => ~torn
             PROVE  before[p] = stores
  BY DEF FailureLeavesNoTrace
<1>1. Guarded(p) /\ Good(p) /\ WellTyped
  BY DEF IInv, Guarded
<1>2. ToSet(proc[p].undo) = {}
  BY SetOfNone
<1>3. /\ before[p] # <<>> /\ KeychainRestored({}, before[p]) /\ SdkRestored({}, before[p])
      /\ FileRestored({}, before[p])
  BY <1>1, <1>2 DEF Good, Restoring, Undoing
<1>4. before[p] \in Files \X Keychain \X Sdk
  BY <1>1, <1>3 DEF WellTyped
<1>5. file = before[p][1] /\ sdk = before[p][3]
  BY <1>3 DEF SdkRestored, FileRestored, Touches
<1>6. keychain = before[p][2]
  <2>1. \A n \in Names, t \in CredentialTypes : keychain[<<n, t>>] = before[p][2][<<n, t>>]
    BY <1>3 DEF KeychainRestored, TouchesKey
  <2>2. keychain \in Keychain /\ before[p][2] \in Keychain
    BY <1>1, <1>4 DEF WellTyped
  <2> QED BY <2>1, <2>2 DEF Keychain
<1> QED BY <1>4, <1>5, <1>6 DEF stores

LEMMA DefaultInv == IInv => DefaultIsAProfile
BY NoCommandTyped DEF IInv, DefaultIsAProfile, Consistent, Sound

LEMMA CleanStep ==
  ASSUME IInv, NEW p \in Procs, EndCommand(p), Cmd(p).kind = "delete", calm[p], NEW t \in CredentialTypes
  PROVE  keychain[<<Cmd(p).name, t>>] = NoSecret
<1>1. Cleaning(p) /\ proc[p].pc \in {"do", "undo"} /\ List(p) = <<>>
  BY DEF IInv, Good, EndCommand
<1>2. proc[p].pc = "do" /\ ToSet(proc[p].todo) = {}
  BY <1>1, SetOfNone DEF Cleaning, Doing, Undoing, List
<1> QED BY <1>1, <1>2 DEF Cleaning, Doing, Undoing

\* The configuration, the credentials and the alias store keep their form,
\* whatever commands write them and fail (config.rs, credentials.rs).
THEOREM TypeCorrect == Spec => []TypeOK
BY Invariance, TypeInv, PTL

\* sdk import, sdk export, basic login and session login, when a write fails:
\* once the undo is through, the file, the keychain and the alias store are
\* what they were when the command loaded them, if nobody else wrote and no
\* failure was ignored meanwhile (restore_profiles_after_failed_import,
\* store_basic_login, persist).
THEOREM RollbackLeavesNoTrace == Spec => []FailureLeavesNoTrace
BY Invariance, TraceInv, PTL

\* Unless a write of the file was cut short, no order of commands and of their
\* writes, overlapping ones included, leaves a file that parses with a default
\* profile that is not listed, or with profiles and no default before two
\* writes met (profile add, edit, default, delete, import, session login).
THEOREM DefaultStaysNamed == Spec => []DefaultIsAProfile
BY Invariance, DefaultInv, PTL

\* profile delete leaves none of ALL_CREDENTIAL_TYPES for a later profile of
\* the same name, when its deletions succeeded and nobody else wrote.
THEOREM DeleteLeavesNoSecret == Spec => DeletedIsClean
<1>1. IInv /\ [Next]_vars =>
        [\A p \in Procs : EndCommand(p) /\ Cmd(p).kind = "delete" /\ calm[p] =>
           \A t \in CredentialTypes : keychain[<<Cmd(p).name, t>>] = NoSecret]_vars
  BY CleanStep
<1> QED BY <1>1, Invariance, PTL DEF Spec, DeletedIsClean
=============================================================================
