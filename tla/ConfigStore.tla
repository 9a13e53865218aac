------------------------------ MODULE ConfigStore ------------------------------
(***************************************************************************)
(* The configuration file, the keychain entries beside it, and the          *)
(* commands that change them: profile (src/cli/commands/config), auth       *)
(* login/logout (auth.rs), session login/attach/forget (session.rs).        *)
(*                                                                         *)
(* A command loads the file, reads the keychain, and then performs a plan:  *)
(* a sequence of writes, each of which may fail, and an undo sequence for   *)
(* that case.  std::fs::write first truncates the file and then fills it    *)
(* from its beginning; nothing locks it, so a fill may find what another    *)
(* process filled in between and leave its tail behind.  A profile is       *)
(* reduced to its instance and method; the optional fields that such a tail *)
(* can add to the last profile before it are not told apart.                *)
(***************************************************************************)
EXTENDS Naturals, Sequences, FiniteSets, SequencesExt

CONSTANTS
  Procs,      \* snow-cli processes
  Names,      \* profile names, which are also the aliases of now-sdk
  Instances,  \* instance origins
  Methods,    \* authentication methods in use
  Configs,    \* configurations at the beginning
  Aliases,    \* now-sdk stores at the beginning
  MaxCommands \* bound: commands of one process

AllMethods == {"basic", "api_key", "oauth", "password", "code", "session", "browser"}
ASSUME MethodsAssumption == Methods \subseteq AllMethods
ASSUME BeforeAssumption == "before" \notin Procs
ASSUME BoundAssumption == MaxCommands \in Nat
ASSUME NamesAssumption == /\ IsFiniteSet(Names) /\ "none" \notin Instances
                          /\ Names \cap {"none", "no file", "empty", "unreadable"} = {}

VARIABLES
  file,      \* config.toml
  keychain,  \* the credentials of each profile, by type
  sdk,       \* the alias store of now-sdk, one keychain entry
  proc,      \* the command each process runs
  before,    \* what a command found when it loaded the file (history)
  calm,      \* nobody else wrote since, no failure was ignored (history)
  adrift,    \* processes that fill a file which was removed meanwhile
  torn,      \* some write of the file did not complete (history)
  mixed      \* some write of the file met that of another process (history)

stores == <<file, keychain, sdk>>
history == <<before, calm, torn, mixed>>
vars == <<stores, proc, adrift, history>>

None == "none"
NoProfile == [instance |-> None, method |-> None]
Profile == [instance : Instances, method : AllMethods]
Config == [default : Names \cup {None}, profiles : [Names -> Profile \cup {NoProfile}]]
EmptyConfig == [default |-> None, profiles |-> [n \in Names |-> NoProfile]]
Absent == [EmptyConfig EXCEPT !.default = "no file"]
Listed(c) == {n \in Names : c.profiles[n] # NoProfile}
DefaultNamed(c) == IF Listed(c) = {} THEN c.default = None ELSE c.default \in Listed(c)

\* CONFIG_INVALID: a truncated file, as default_profile is a required field,
\* and text that does not parse.
Emptied == [EmptyConfig EXCEPT !.default = "empty"]
Torn == [EmptyConfig EXCEPT !.default = "unreadable"]
Unreadable == {Emptied, Torn}

\* A secret is known by who stored it and the instance it is for.
Secret == [by : Procs \cup {"before"}, instance : Instances]
NoSecret == [by |-> None, instance |-> None]
CredentialTypes == {"password", "api_token", "client_secret", "oauth_token", "native_session"}

Alias == [auth : {"basic", "oauth"}, secret : Secret, default : BOOLEAN]
NoAlias == [auth |-> None, secret |-> NoSecret, default |-> FALSE]

\* What earlier commands left.
ASSUME BeginningAssumption ==
  /\ Configs \subseteq Config /\ \A c \in Configs : DefaultNamed(c)
  /\ Aliases \subseteq [Names -> Alias \cup {NoAlias}]

\* credential_types_for_auth
TypesFor(method) ==
  CASE method = "basic" -> <<"password">>
    [] method = "api_key" -> <<"api_token">>
    [] method = "oauth" -> <<"client_secret">>
    [] method = "password" -> <<"client_secret", "password">>
    [] method = "code" -> <<"oauth_token">>
    [] method = "session" -> <<"native_session">>
    [] OTHER -> <<>>

----------------------------------------------------------------------------
(* Writes: to the file, of one credential, of the alias store; "browser" is *)
(* an authorization in the browser, which may fail like a write.            *)

NoWrite == [what |-> "browser", name |-> None, type |-> None, config |-> EmptyConfig,
            secret |-> NoSecret, aliases |-> [n \in Names |-> NoAlias], lax |-> FALSE]
Browser == NoWrite
ToFile(c) == [NoWrite EXCEPT !.what = "file", !.config = c]
ToKeychain(n, t, s) ==
  [NoWrite EXCEPT !.what = "keychain", !.name = n, !.type = t, !.secret = s]
ToSdk(a) == [NoWrite EXCEPT !.what = "sdk", !.aliases = a]

NoCommand == [kind |-> None, name |-> None, profile |-> NoProfile, config |-> EmptyConfig,
              file |-> Absent]
IdleProc == [pc |-> "idle", cmd |-> NoCommand, todo |-> <<>>, undo |-> <<>>, n |-> 0]

\* Kinds that restore what they changed when one of their writes fails.
RollsBack(p) == proc[p].cmd.kind \in {"import", "export", "loginSdk", "session"}

TypeOK ==
  /\ file \in Config \cup {Absent} \cup Unreadable
  /\ keychain \in [Names \X CredentialTypes -> Secret \cup {NoSecret}]
  /\ sdk \in [Names -> Alias \cup {NoAlias}]
  /\ \A p \in Procs : /\ proc[p].pc \in {"idle", "loaded", "do", "fill", "undo", "undoFill"}
                      /\ proc[p].cmd.config \in Config /\ proc[p].n \in 0 .. MaxCommands
  /\ calm \in [Procs -> BOOLEAN] /\ adrift \in SUBSET Procs
  /\ torn \in BOOLEAN /\ mixed \in BOOLEAN

\* The profiles may have been logged in before.
Init ==
  /\ file \in Configs \cup {Absent} /\ sdk \in Aliases
  /\ \E loggedIn \in {{}, Listed(file)} :
       keychain = [k \in Names \X CredentialTypes |->
         IF k[1] \in loggedIn /\ k[2] \in ToSet(TypesFor(file.profiles[k[1]].method))
         THEN [by |-> "before", instance |-> file.profiles[k[1]].instance] ELSE NoSecret]
  /\ proc = [p \in Procs |-> IdleProc]
  /\ before = [p \in Procs |-> <<>>] /\ calm = [p \in Procs |-> FALSE]
  /\ adrift = {} /\ torn = FALSE /\ mixed = FALSE

----------------------------------------------------------------------------
(* Beginning and end of a command.                                         *)

BadLoaded(c) == c   \* a missing file is not an empty configuration
Loaded(c) == IF c = Absent THEN EmptyConfig ELSE c

\* AppConfig::load.  An unreadable file ends every command, which changes
\* nothing; so does a profile that is not listed.
Begin(p, cmd) ==
  /\ proc[p].pc = "idle" /\ proc[p].n < MaxCommands /\ file \notin Unreadable
  /\ proc' = [proc EXCEPT ![p].pc = "loaded",
                          ![p].cmd = [cmd EXCEPT !.config = Loaded(file), !.file = file]]
  /\ before' = [before EXCEPT ![p] = stores]
  /\ calm' = [calm EXCEPT ![p] = TRUE]
  /\ UNCHANGED <<stores, adrift, torn, mixed>>

Command(kind, n, profile) == [NoCommand EXCEPT !.kind = kind, !.name = n, !.profile = profile]

\* What a write of p leaves of the calm of the others.
Kept(p, wrote) == [q \in Procs |-> calm[q] /\ (q = p \/ ~wrote)]

Finish(p, wrote) ==
  /\ proc' = [proc EXCEPT ![p] = [IdleProc EXCEPT !.n = proc[p].n + 1]]
  /\ before' = [before EXCEPT ![p] = <<>>] /\ calm' = [Kept(p, wrote) EXCEPT ![p] = FALSE]

Cmd(p) == proc[p].cmd

Plan(p, todo, undo) ==
  /\ proc' = [proc EXCEPT ![p].pc = "do", ![p].todo = todo, ![p].undo = undo,
                          ![p].cmd = Command(Cmd(p).kind, Cmd(p).name, Cmd(p).profile)]
  /\ UNCHANGED <<stores, adrift, history>>

Running(p, kind) == proc[p].pc = "loaded" /\ proc[p].cmd.kind = kind
OfType(n, t) == keychain[<<n, t>>]
PutProfile(c, n, profile) == [c EXCEPT !.profiles[n] = profile]

----------------------------------------------------------------------------
(* profile add, edit, default, delete, output, config init                  *)

\* add wants a new name, edit an old one, config init no file at all; only an
\* old profile may leave the instance or the method as they are.
BeginSetProfile(p) ==
  \E n \in Names, i \in Instances \cup {None}, m \in Methods \cup {None} :
    LET old == Loaded(file).profiles[n] IN
    /\ old = NoProfile => i # None /\ m # None
    /\ m # "session"
    /\ Begin(p, Command("set", n, [instance |-> IF i = None THEN old.instance ELSE i,
                                   method |-> IF m = None THEN old.method ELSE m]))

SetProfile(p) ==
  /\ Running(p, "set")
  /\ LET c == PutProfile(Cmd(p).config, Cmd(p).name, Cmd(p).profile)
     IN  Plan(p, <<ToFile([c EXCEPT !.default =
           IF c.default = None \/ Listed(c) = {Cmd(p).name} THEN Cmd(p).name ELSE @])>>, <<>>)

BeginListed(p, kind) ==
  \E n \in Listed(Loaded(file)) : Begin(p, Command(kind, n, Loaded(file).profiles[n]))

UseProfile(p) ==
  /\ Running(p, "default")
  /\ Plan(p, <<ToFile([Cmd(p).config EXCEPT !.default = Cmd(p).name])>>, <<>>)

\* config output: rewrites the file with another default_output.
SetOutput(p) == Running(p, "output") /\ Plan(p, <<ToFile(Cmd(p).config)>>, <<>>)

DeleteAll(n, types) == [k \in 1 .. Len(types) |-> [ToKeychain(n, types[k], NoSecret) EXCEPT !.lax = TRUE]]

BadDeletedTypes == <<"password", "api_token", "client_secret", "oauth_token">>   \* one forgotten
DeletedTypes ==   \* ALL_CREDENTIAL_TYPES
  <<"password", "api_token", "client_secret", "oauth_token", "native_session">>

BadReplacedDefault(c, n) == IF Listed(c) = {} THEN {None} ELSE {c.default}
\* --new-default, needed for the default profile unless it is the last one.
ReplacedDefault(c, n) ==
  IF Listed(c) = {} THEN {None} ELSE IF c.default = n THEN Listed(c) ELSE {c.default}

DeleteProfile(p) ==
  /\ Running(p, "delete")
  /\ LET n == Cmd(p).name
         c == PutProfile(Cmd(p).config, n, NoProfile)
     IN  \E d \in ReplacedDefault(c, n) :
           Plan(p, <<ToFile([c EXCEPT !.default = d])>> \o DeleteAll(n, DeletedTypes), <<>>)

----------------------------------------------------------------------------
(* profile sdk import, export                                              *)

BadUndoImport(old, names) ==   \* the passwords stay
  <<ToFile(old)>>
\* restore_profiles_after_failed_import; a file that was not there is removed.
UndoImport(old, names) ==
  [k \in 1 .. Len(names) |-> ToKeychain(names[k], "password", OfType(names[k], "password"))]
    \o <<ToFile(old)>>

Imported(c, names, default) ==
  [default |-> default,
   profiles |-> [n \in Names |->
     IF n \in ToSet(names) THEN [instance |-> sdk[n].secret.instance, method |-> "basic"]
     ELSE c.profiles[n]]]

\* imported_default_alias: the first alias that is the default of now-sdk, else the first.
FirstDefault(names) ==
  LET marked == {k \in DOMAIN names : sdk[names[k]].default}
  IN  IF marked = {} THEN {names[1]} ELSE {names[k] : k \in {m \in marked : \A j \in marked : m <= j}}

\* One alias, which may be made the default, or all, in the order of their names; a
\* single alias that is not basic fails them all.
Import(p) ==
  /\ Running(p, "import")
  /\ \E chosen \in (SUBSET {n \in Names : sdk[n] # NoAlias}) \ {{}}, setDefault \in BOOLEAN :
     \E names \in SetToSeqs(chosen) : \E first \in FirstDefault(names) :
       LET old == Cmd(p).config.default IN
       /\ \A n \in chosen : sdk[n].auth = "basic"
       /\ Len(names) = 1 \/ (~setDefault /\ \A n \in Names : sdk[n] # NoAlias => n \in chosen)
       /\ Plan(p, [k \in 1 .. Len(names) |-> ToKeychain(names[k], "password", sdk[names[k]].secret)]
                  \o <<ToFile(Imported(Cmd(p).config, names,
                         IF setDefault THEN names[1] ELSE IF old = None THEN first ELSE old))>>,
               UndoImport(Cmd(p).file, names))

\* upsert_basic_alias
Upsert(n, secret, setDefault) ==
  [a \in Names |->
    IF a = n THEN [auth |-> "basic", secret |-> secret, default |-> setDefault \/ sdk[n].default]
    ELSE IF setDefault THEN [sdk[a] EXCEPT !.default = FALSE] ELSE sdk[a]]

\* The password may also come from the environment; here it is in the keychain.
Export(p) ==
  /\ Running(p, "export") /\ Cmd(p).profile.method = "basic"
  /\ OfType(Cmd(p).name, "password") # NoSecret
  /\ \E alias \in Names, setDefault \in BOOLEAN :
       Plan(p, <<ToSdk(Upsert(alias, [OfType(Cmd(p).name, "password") EXCEPT
                                        !.instance = Cmd(p).profile.instance], setDefault))>>,
            <<ToSdk(sdk)>>)

----------------------------------------------------------------------------
(* auth login, logout                                                      *)

NewSecret(p) == [by |-> p, instance |-> Cmd(p).profile.instance]
Store(p, types) == [k \in 1 .. Len(types) |-> ToKeychain(Cmd(p).name, types[k], NewSecret(p))]

\* With authorization code the client secret is stored, or an old one deleted,
\* before the browser is opened.
LoginPlan(p) ==
  IF Cmd(p).profile.method = "code"
  THEN {<<ToKeychain(Cmd(p).name, "client_secret", s), Browser>> \o Store(p, <<"oauth_token">>) :
          s \in {NoSecret, NewSecret(p)}}
  ELSE {Store(p, TypesFor(Cmd(p).profile.method))}

Login(p) ==
  /\ Running(p, "login") /\ Cmd(p).profile.method \notin {"session", "browser", "basic"}
  /\ \E todo \in LoginPlan(p) : Plan(p, todo, <<>>)

UndoLogin(p) == <<ToKeychain(Cmd(p).name, "password", OfType(Cmd(p).name, "password")), ToSdk(sdk)>>

\* store_basic_login, with --also-now-sdk (else its undo restores what is there).
LoginSdk(p) ==
  /\ Running(p, "loginSdk") /\ Cmd(p).profile.method = "basic"
  /\ \E alias \in Names, also, setDefault \in BOOLEAN :
       Plan(p, Store(p, <<"password">>)
               \o (IF also THEN <<ToSdk(Upsert(alias, NewSecret(p), setDefault))>> ELSE <<>>),
            IF also THEN UndoLogin(p) ELSE <<Head(UndoLogin(p))>>)

\* Stops at the first entry that cannot be deleted.
Logout(p) ==
  /\ Running(p, "logout")
  /\ LET m == Cmd(p).profile.method
         types == TypesFor(m) \o (IF m = "code" THEN <<"client_secret">> ELSE <<>>)
     IN  Plan(p, [k \in 1 .. Len(types) |-> ToKeychain(Cmd(p).name, types[k], NoSecret)], <<>>)

----------------------------------------------------------------------------
(* session login, attach, forget                                           *)

\* validate_target: a separate name, which is new or a session of this instance.
\* login needs a Basic source and its password, attach a cookie.
BeginSession(p) ==
  \E source \in Listed(Loaded(file)), n \in Names, i \in Instances :
    LET c == Loaded(file) IN
    /\ n # source
    /\ c.profiles[n] \in {NoProfile, [instance |-> i, method |-> "session"]}
    /\ Begin(p, Command("session", n, [instance |-> i, method |-> "session"]))

\* persist, after the instance answered; the file was loaded before.
Session(p) ==
  /\ Running(p, "session")
  /\ Plan(p, Store(p, <<"native_session">>)
             \o <<ToFile(PutProfile(Cmd(p).config, Cmd(p).name, Cmd(p).profile))>>,
          <<ToKeychain(Cmd(p).name, "native_session", OfType(Cmd(p).name, "native_session"))>>)

Forget(p) ==
  /\ Running(p, "forget") /\ Cmd(p).profile.method = "session"
  /\ Plan(p, <<ToKeychain(Cmd(p).name, "native_session", NoSecret)>>, <<>>)

\* A guard of the command does not hold, a prompt is left, or the network fails.
GiveUp(p) ==
  /\ proc[p].pc = "loaded"
  /\ Finish(p, FALSE) /\ UNCHANGED <<stores, adrift, torn, mixed>>

----------------------------------------------------------------------------
(* Performing the plan.                                                    *)

List(p) == IF proc[p].pc \in {"do", "fill"} THEN proc[p].todo ELSE proc[p].undo
NextWrite(p) == Head(List(p))
Performing(p, pcs) == proc[p].pc \in pcs /\ List(p) # <<>>

Filling(p) == Performing(p, {"fill", "undoFill"})

Disturb(p) == calm' = Kept(p, TRUE)

\* The next of the writes to perform.
Proceed(p) ==
  proc' = [proc EXCEPT ![p].pc = IF @ \in {"do", "fill"} THEN "do" ELSE "undo",
                       ![p].todo = IF proc[p].pc \in {"do", "fill"} THEN Tail(@) ELSE @,
                       ![p].undo = IF proc[p].pc \in {"do", "fill"} THEN @ ELSE Tail(@)]

PutSecret(p) ==
  /\ Performing(p, {"do", "undo"}) /\ NextWrite(p).what # "file"
  /\ keychain' = IF NextWrite(p).what = "keychain"
                 THEN [keychain EXCEPT ![<<NextWrite(p).name, NextWrite(p).type>>] = NextWrite(p).secret]
                 ELSE keychain
  /\ sdk' = IF NextWrite(p).what = "sdk" THEN NextWrite(p).aliases ELSE sdk
  /\ Proceed(p) /\ Disturb(p)
  /\ UNCHANGED <<file, before, adrift, torn, mixed>>

\* create_dir_all, open and truncate; or remove_file, which leaves those who
\* have the file open with one that nobody reads.
Truncate(p) ==
  /\ Performing(p, {"do", "undo"}) /\ NextWrite(p).what = "file"
  /\ IF NextWrite(p).config = Absent
     THEN /\ file' = Absent /\ Proceed(p)
          /\ adrift' = adrift \cup {q \in Procs : Filling(q)}
     ELSE /\ file' = Emptied
          /\ proc' = [proc EXCEPT ![p].pc = IF @ = "do" THEN "fill" ELSE "undoFill"]
          /\ UNCHANGED adrift
  /\ Disturb(p)
  /\ UNCHANGED <<keychain, sdk, before, torn, mixed>>

\* What the first bytes of a file parse to: profiles come last, in any order.
Cut(c) ==
  {Torn} \cup {[c EXCEPT !.profiles = [n \in Names |-> IF n \in kept THEN @[n] ELSE NoProfile]] :
                 kept \in SUBSET Listed(c)}

\* The profiles in a tail of the text old, which may be any if it does not parse.
Tails(old) ==
  IF old = Torn
  THEN [Names -> Profile \cup {NoProfile}]
  ELSE {[n \in Names |-> IF n \in kept THEN old.profiles[n] ELSE NoProfile] : kept \in SUBSET Listed(old)}

\* c written from the beginning of a file that holds old: profiles that c does
\* not list may follow behind its end; any other tail does not parse.
Overlaid(c, old) ==
  {Torn} \cup {[c EXCEPT !.profiles = [n \in Names |-> IF @[n] # NoProfile THEN @[n] ELSE tail[n]]] :
                 tail \in IF c = Torn THEN {} ELSE Tails(old)}

\* The file once process p wrote one of the texts into what it opened.
Poured(p, texts) ==
  IF p \in adrift THEN {file}
  ELSE IF file = Emptied THEN texts
  ELSE UNION {Overlaid(c, file) : c \in texts}

Close(p) ==
  /\ mixed' = (mixed \/ (p \notin adrift /\ file # Emptied))
  /\ adrift' = adrift \ {p}

Fill(p) ==
  /\ Filling(p)
  /\ file' \in Poured(p, {NextWrite(p).config}) /\ Close(p)
  /\ Proceed(p) /\ Disturb(p)
  /\ UNCHANGED <<keychain, sdk, before, torn>>

\* The write ends early, maybe before its first byte.
CutShort(p) ==
  /\ file' \in Poured(p, Cut(NextWrite(p).config)) \cup {file} /\ Close(p)
  /\ torn' = TRUE

AfterFailure(p, wrote) ==
  IF NextWrite(p).lax
  THEN Proceed(p) /\ calm' = [Kept(p, wrote) EXCEPT ![p] = FALSE] /\ UNCHANGED before
  ELSE IF proc[p].pc \in {"do", "fill"} /\ proc[p].undo # <<>>
  THEN /\ proc' = [proc EXCEPT ![p].pc = "undo", ![p].todo = <<>>]
       /\ calm' = Kept(p, wrote) /\ UNCHANGED before
  ELSE Finish(p, wrote)

WriteFails(p) ==
  /\ Performing(p, {"do", "undo"})
  /\ AfterFailure(p, FALSE)
  /\ UNCHANGED <<stores, adrift, torn, mixed>>

FillFails(p) ==
  /\ Filling(p)
  /\ CutShort(p)
  /\ UNCHANGED <<keychain, sdk>>
  /\ AfterFailure(p, TRUE)

EndCommand(p) ==
  /\ proc[p].pc \in {"do", "undo"} /\ List(p) = <<>>
  /\ Finish(p, FALSE) /\ UNCHANGED <<stores, adrift, torn, mixed>>

Kill(p) ==
  /\ proc[p].pc # "idle"
  /\ IF Filling(p)
     THEN CutShort(p)
     ELSE UNCHANGED <<file, adrift, torn, mixed>>
  /\ UNCHANGED <<keychain, sdk>>
  /\ Finish(p, Filling(p))

BeginCommand(p) ==
  \/ BeginSetProfile(p) \/ BeginSession(p) \/ Begin(p, Command("import", None, NoProfile))
  \/ \E kind \in {"default", "output", "delete", "export", "login", "loginSdk", "logout",
                  "forget"} : BeginListed(p, kind)

PlanCommand(p) ==
  \/ SetProfile(p) \/ UseProfile(p) \/ SetOutput(p) \/ DeleteProfile(p)
  \/ Import(p) \/ Export(p) \/ Login(p) \/ LoginSdk(p) \/ Logout(p)
  \/ Session(p) \/ Forget(p) \/ GiveUp(p)

Perform(p) ==
  \/ PutSecret(p) \/ Truncate(p) \/ Fill(p) \/ WriteFails(p) \/ FillFails(p)
  \/ EndCommand(p) \/ Kill(p)

Next == \E p \in Procs : BeginCommand(p) \/ PlanCommand(p) \/ Perform(p)
Spec == Init /\ [][Next]_vars

----------------------------------------------------------------------------
(* Properties.                                                             *)

\* A command that restores after a failed write (sdk import and export, basic
\* login, session login) and is done restoring has left no trace: file,
\* keychain and alias store are what they were, if nobody else wrote meanwhile.
\* A session login does not restore a file that broke while it was filled.
FailureLeavesNoTrace ==
  \A p \in Procs :
    /\ proc[p].pc = "undo" /\ proc[p].undo = <<>> /\ RollsBack(p) /\ calm[p]
    /\ Cmd(p).kind = "session" => ~torn
    => before[p] = stores

\* After a delete whose writes all succeeded, no secret is left that a later
\* profile of that name would inherit (ALL_CREDENTIAL_TYPES).
DeletedIsClean ==
  [][\A p \in Procs : EndCommand(p) /\ Cmd(p).kind = "delete" /\ calm[p] =>
       \A t \in CredentialTypes : keychain[<<Cmd(p).name, t>>] = NoSecret]_vars

\* However the commands of several processes and their writes of the file cross,
\* a file that parses names no default profile that is not listed.  Profiles
\* without any default are left only where one write met another, unless a
\* write of the file was cut short.
DefaultIsAProfile ==
  file \in Config /\ ~torn =>
    \/ file.default \in Listed(file)
    \/ file.default = None /\ (mixed \/ Listed(file) = {})
=============================================================================
