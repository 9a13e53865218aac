# A verification development for snow-cli

snow-cli is a command-line client of ServiceNow. Most commands are one process
making a few HTTP requests; what is hard about them is failure: an answer that is
lost, a step of several that fails, a process killed between two writes, two
processes on one keychain. The `snu` family is different: a background *broker*
process owns a WebSocket to a browser tab (the SN-Utils helper), keeps browser
session tokens, and serves many short-lived CLI processes at once. This
development models both.

Contents: [1 the system](#1-the-system), [2 the modules](#2-the-modules),
[3 the runs](#3-the-runs), [4 the proofs](#4-the-proofs),
[5 where code and documentation disagree](#5-where-code-and-documentation-disagree),
[6 what is not modelled](#6-what-is-not-modelled), [7 the plan](#7-the-plan).

To check: `tlc -config X.cfg M.tla` for each row of the table in section 3,
`tlapm M_proofs.tla` for the proof modules. `PROJECT.json` lists the source
lines behind every definition.

## 1. The system

| component | source | state it keeps | operations | talks to |
|---|---|---|---|---|
| connection manager | `src/snu/bridge.rs` | installed connection and its generation, connected flag, queued banner, waiters, helper status | accept loop, attach, detach, reader, writer, heartbeat, `request*`, `wait_for_session`, `send_banner` | helper tab (WebSocket), broker (calls, `sessions_tx`) |
| gates | `src/snu/gates.rs`, `negotiate_capabilities`, `preflight`, `dispatch` | helper support, gate snapshots with revisions, legacy lock | negotiate, preflight, generation-bound dispatch, legacy fallback, retry | connection manager |
| session cache | `src/snu/broker.rs` | sessions by origin, freshness, latest origin, cache file | wait, refresh, verify, clear, action with refresh, session task, restore | connection manager, disk |
| broker process, IPC | `src/snu/broker.rs` | IPC port, client and request counters, last activity, shutdown | connect or spawn, ping, accept, serve, idle out, stop | CLI processes (TCP) |
| HTTP client | `src/client/*.rs` | HTTP session cookies, form session | request with one 401 retry, pagination, uploads | ServiceNow, authenticators |
| authenticators | `src/auth/*.rs` | cached and stored OAuth tokens | authenticate, refresh, fall back | ServiceNow, keychain |
| native sessions | `src/client/native_session.rs`, `src/config/native_session.rs` | stored cookies and CSRF token | inspect, switch domain/scope/update set, merge cookies | ServiceNow, credential store |
| configuration | `src/config/*.rs` | profiles file, credentials | load, change, save, resolve a profile | disk, keychain |
| policy | `src/policy.rs`, `src/cli/readonly_args.rs` | none | allow or refuse a command or request | every command |
| datasets | `src/cli/commands/data/*.rs` | package files | export, validate, order, import with remapped references | HTTP client, disk |
| seed runs | `src/cli/commands/seed.rs` | run tracking file | plan, apply, cleanup | HTTP client, disk |
| other commands | `src/cli/commands/**` | none | one request each, confirmation, output | HTTP client or broker |

How the parts of the broker interact. A command connects to the IPC port,
spawning a broker if nothing answers, and writes one request line. The broker
serves it on a task of its own, which may read or change the session cache, ask
the manager for the helper's gates, send an action and wait for the reply. The
manager's reader task routes each frame to the waiters whose matcher accepts it,
captures gate metadata in the helper status and sends every session it sees to
the broker's session task. Accept loop, reader and heartbeat all install or
remove the connection. Locks are short: nothing is held across a wait for the
helper except the legacy lock, so almost every pair of steps of two tasks can
interleave.

What is hard, and what must hold, per component:

* **connection manager** - reconnects racing the end of the old socket, tasks
  that abort themselves, flag and connection updated apart, replies that come
  late or over another connection. A working connection is kept, a dead one
  goes, each call is settled once with its own answer, a `/token` wait survives
  reconnects, nothing is left waiting or queued.
* **gates** - the tab reconnects or its gates change between being asked and
  being used. An action goes out only as its own preflight allowed, on the
  connection that was asked; a helper with gates is never taken for one without.
* **session cache** - values read before an await and stored after it, eviction
  by origin rather than by token, two file writers, restarts. Freshness belongs
  to a token, origins do not mix, memory and disk stay consistent.
* **process lifecycle** - double spawn, idle shutdown against new clients,
  clients that die. Commands and brokers end, and no served client is cut off.
* **HTTP client and authenticators** - a request is repeated after a 401, tokens
  expire between two looks at them, a refresh may rotate the stored refresh token
  while another process uses it. Nothing is carried out twice, the refused token is
  not tried again, the login is not lost.
* **native sessions** - every response may rotate the cookie, and a switch is a
  PUT whose answer may be lost. What the command reports is so; the stored cookie
  stays one that ServiceNow accepts.
* **configuration** - one file without a lock and a keychain beside it, changed by a
  sequence of writes of which any may fail, and two of which may overlap in the file. Undo leaves no trace, a deleted profile
  leaves no secret, no default is named that does not exist.
* **datasets and seed runs** - records are created one by one, references are
  rewritten to what was created, a file tracks it. References lead where they led on
  the source, reports count truly, and a run can be cleaned up wherever it stopped.
* **other commands** - validation, policy, confirmation, request, output, in some order, each
  of which may fail. Read-only changes nothing, as far as snow-cli itself asks for it; an error that says
  "never retry" means nothing was done; a listing that is not complete says so.

The full list of hazards, each with its line, is in `PROJECT.json`.

## 2. The modules

A step of a model is the code between two points at which another task can run:
an `.await` that may suspend, or the release of a lock. Timers are abstracted to
"may fire now".

### SnuBridge (implements SnuCalls)

`conn`, `connected`, `banner`, `generation`, `waiters` are the fields of `Inner`.
`attacher`, `reader[g]`, `heartbeat` and `caller[c]` are the program counters of
the tasks; `aborted` holds the readers on which `abort()` was called. The helper
is `socket`, `inbox`, `sent` and `replied` (external).

| action | code |
|---|---|
| `BindFails`, `BindSucceeds` | `accept_loop` up to the listener |
| `AttachSpawn`, `AttachInstall`, `AttachFailPrevious`, `AttachGreet` | `attach_connection`, cut at its three lock scopes |
| `ReaderDeliver`, `ReaderEnds` | `reader_loop`, `deliver_message` |
| `ReaderDetach`, `ReaderClearsFlag`, `ReaderFailsWaiters` and the same three of the heartbeat | `detach_connection`, cut after the connection lock and before the waiters lock |
| `ReaderCancelled` | an aborted task dropped at an await |
| `HeartbeatPings`, `HeartbeatReaps` | one round of `heartbeat_loop` |
| `Request*`, `CallTimeout` | `request_bound` without an expected generation |
| `Session*` | `wait_for_session`, `never_connected_within` |
| `SendBanner` | `send_banner` with nothing installed |

`SnuCalls` is the promise to a caller: a call is settled once, its request goes
on the wire at most once, only a request that went out is answered. The mapping
ends `SnuBridge` (`Abstract`). A request is an asker's only if its reply is correlated:
an action-matched one may be settled by the reply to another request (section 5), so
nothing is promised of what answers it.

### SnuGates

The same connections seen by gate negotiation. `client[d]` goes through preflight
(`caps`, `waiting`, `replied`), possibly the legacy `lock`, `dispatch` and
`sent`. The true gate of each connection's helper is `helper[g].snap`; `held[d]`
is a history variable, the modes the helper had since the client's preflight
began. `Capture` is `capture_helper_metadata`, `MayBeLegacy` the three checks
that guard a classification as legacy, `MayDispatch` the checks that
`request_bound` makes under its locks. The tab may push its build info at any moment, also
before the status is reset for its generation, when it is dropped; `advertised` (history) are the connections
whose build info was read, `learned` (history) those that were found to have gates while the status was about them,
by build info or by an answer to any client; both are forgotten with the next connection. Detach and replacement are single steps
here, because the cut that matters to gates is the one between installing a
connection and resetting the helper status (`Attach`, `ResetStatus`). `LoadLeft`
is a bound and models no code: a third connection-or-client at a time (`MaxLoad`) is not started.

### SnuSessions

`session`, `meta`, `latest` are `BrokerState`; `persist[p]` is a task inside
`persist_broker_sessions`, one file operation per step, with the POSIX meaning
of writing to a file that another writer has truncated or renamed; `client[c]`
is a request in `dispatch`. Tokens of an origin are numbered by login and only
the newest is accepted (`browser`, external). `proven` is a history variable.
`Restart` may happen at any moment and loads what the file then holds.

### SnuLifecycle

`broker[b]` are processes with the counters of `BrokerState`, `port` is the one
IPC port, `link[l]` a TCP connection and its handler task, `command[c]` a CLI
process in `connect_or_spawn`, `connect_existing` or `request`. `expired` stands
for "no activity for the idle timeout". The initial states include a broker left
behind by an earlier command. `late` is a history variable. Its top-level names begin with
`Lifecycle` (`LifecycleInit`, `LifecycleNext`, `LifecycleTypeOK`), because `SnuBroker_proofs` holds the
proofs about this module beside those about `SnuSessions`: the two models of one process, of which neither
reads what the other keeps.

### HttpAuth

`call[p]` is one process inside `request_inner` or one of the operations that send
once; `cached[p]` is its authenticator's token, `stored` the keychain entry that
processes of one profile share. Access tokens are numbered as they are issued and
`refreshOf` gives the refresh token that came with each, so "the same token" and
"a rotated one" are visible. The token endpoint (`Issue`, external) repeats,
rotates or omits the refresh token (`answer`). `Expire` is the local clock; a 401
may come for any reason (`Unauthorized`). `effects` counts what ServiceNow carried
out for the current call; `gone` is a history variable: the newest refresh token never
reached the keychain.

| action | code |
|---|---|
| `StaticAuthenticate`, `UseCached`, `FetchToken`, `ReadStored` | `authenticate` of the authenticators |
| `Refresh`, `TokenIssued`, `TokenRefused`, `TokenLost` | `refresh`, `send_oauth_token_request`, fallback to the full grant |
| `SaveToken`, `SaveFails` | `store_oauth_token`, then the cache |
| `CarriedOut`, `NotCarriedOut`, `Unauthorized` | the send and the 401 branch of `request_inner` |

### ConfigStore

Every command that changes `config.toml`, the keychain or the now-sdk alias store is a
*plan*: after loading the file it computes a sequence of writes and a sequence that
undoes them (`SetProfile`, `UseProfile`, `SetOutput`, `DeleteProfile`, `Import`, `Export`, `Login`,
`LoginSdk`, `Logout`, `Session`, `Forget`). `PutSecret`, `Truncate` and `Fill` perform one
write; `WriteFails` and `FillFails` fail it, `Kill` ends the process between any
two. `std::fs::write` truncates the file and then writes at its own offset 0: a fill that finds the file
empty makes it its text (`Poured`), one that finds what another process filled in since overwrites the beginning and
leaves the tail of a longer text (`Overlaid`): profiles that the shorter text does not list, or nothing that parses.
`adrift` are the processes that fill a file which a rollback has removed meanwhile; what they write is lost.
`before`, `calm`, `torn` and `mixed` are history variables: what the command found,
whether anybody else wrote since, whether a write of the file was cut short, whether one met another.

### NativeSession

`cmd[p]` holds the requests a command still has to send (`Plan`, `SwitchPlan`) and its own copy
of the cookie jar. Each answer may rotate the cookie (`Rotated`, `Observe`), each
request may be refused or lose its answer. A switch inspects, chooses a candidate,
sends its PUT and inspects again (`PickersAnswered`, `HomeAnswered`, `OptionsAnswered`,
`PutAnswered`); `BrowserSwitches` is the user in the browser. `since` and `disturbed` are
history variables.

### Dataset and SeedRuns

`Dataset` is one process running the data commands against a source and a
target instance. An export fetches its tables one after the other while the source
changes, then writes one file per table and the manifest; any of these may be cut.
An import checks the package, orders the tables, and creates records one by one,
remembering source keys (`Remember`) and mapping references (`Mapped`). A flat import may go through a staging
table (`staged`): `RowAccepted` is a row whose status is not "error", which is counted as created although the transform
map may have ignored it, skipped it or matched it to a record that was there. Each created row
carries, as history, the source record it was made from and what its references meant there.
The code has two ordering algorithms. `IsImportOrder` says which order `topo_sort_dependencies`
returns: a table is enqueued when the last table it depends on leaves the queue, and those enqueued together
are in the order of their names. `IsSeedOrder` says it of `topological_order`: at every place the first table, by name,
whose targets are placed. `ImportOrder` and `SeedOrder` choose the sequence that is so, and there is at
most one; a spec for which there is none is refused (`IsAcceptable`, `IsPlannable`). Two assumptions of
`MCSeedRuns` (`ImportOrderIsRight`, `SeedOrderIsRight`) let TLC compare them with the loops of the code,
written recursively there (`TopoSort` with its queue, `Place`), and with the definition of a topological order
(`IsOrderOf`), for every relation on three tables: the order is the one the loop finds, and
a spec is refused exactly if it has a cycle.

`SeedRuns` adds `seed apply` and `seed cleanup`: create, then write the tracking file; delete, then
write it again. A request may be carried out without its answer arriving, and
the process may be killed anywhere.

### Listing

The page loop of `get_table_records` (`Ask`, `Page`, `PageFails`, `Truncated`) over rows that
others add and delete between two pages and that access control hides; and the scope
inventory, which runs the same loop once per chunk of a query under one row limit per table
(`BeginScan`, `ScanQuery`, `ScanTake`, `ScanCapped`, `ScanWarns`).

### CommandTable and Commands (with Listing)

`CommandTable` holds the errors and the commands, `Commands` performs them. A command is a sequence of steps, each with the errors it can end in; a step that
asks ServiceNow for a change may also lose its answer. `AllCommands` has one entry
per command that reaches an instance or a browser, options that change the steps being commands of their own; what
the session, data and seed commands do with their own state is in the modules above, here they are seen from the policy
and the error contract. `Parse`,
`PolicyDenies`, `NoConfig` and `Dispatch` are `run` in `lib.rs`; `Stopped` is the policy check of
the HTTP client, which broker requests do not pass. What a step does is taken from the handler, not from the policy
table: `snu slash` sends any slash command to be run at once and `snu tab activate` opens or reloads any URL, so both
are acts like `snu page navigate`. `several` are the steps that make several requests (login, the deletions of a
cleanup), of which a later one may be refused; a `verdict` may fail for the rows an answer reported, a
`tally` does exactly if some record failed. `Pass`, `Fail`, `Decline`, `CarriedOut`,
`PartlyCarriedOut`, `AnswerLost`, ... perform a step. An error is its code, class, exit status
and retry advice, as `error.rs` and `client/error.rs` give them.

## 3. The runs

| run | module, configuration | bounds | checks |
|---|---|---|---|
| bridge | `MCSnuBridge`, `MCSnuBridge.cfg` | 1 request, 1 `/token` wait, 2 connections, 1 push | `TypeOK`, `GoneWaitersFailing`, `NoBannerStranded`, `SessionWaitSurvives`, `HealthyConnectionKept`, `ImplementsCalls` |
| bridge_live | `MCSnuBridge`, `SnuBridgeLive.cfg` | 1 request, 2 connections | `DeadConnectionReaped`, `AbandonedWaitersSwept` |
| gates | `MCSnuGates`, `MCSnuGates.cfg` | 2 interchangeable clients, 2 connections, 3 of these at a time, 1 gate change each | `TypeOK`, `GatesOfOwnTab`, `LegacySerialized`, `StatusOnlyLearns`, `LearnedNeverLegacy` |
| sessions | `MCSnuSessions`, `MCSnuSessions.cfg` | 2 origins, 1 client with 2 requests, 2 tokens per origin, 2 pushes, 1 restart | `TypeOK`, `LatestIsCached`, `VerifiedThisLifetime`, `SessionsKeptApart` |
| lifecycle | `MCSnuLifecycle`, `MCSnuLifecycle.cfg` | 1 working and 1 stopping command, 2 brokers, 3 connections | `LifecycleTypeOK`, `AtMostOneLate`, `IdleOutUnserved`, `EveryoneEnds` |
| http | `MCHttpAuth`, `MCHttpAuth.cfg` | 2 processes, 4 tokens, 1 call each | `TypeOK`, `EffectAtMostOnce`, `RetryWithNewToken`, `LiveGrantKept` |
| config | `MCConfigStore`, `MCConfigStore.cfg` | 2 processes with 1 command each, 2 names, 1 instance, 2 methods | `TypeOK`, `FailureLeavesNoTrace`, `DefaultIsAProfile`, `DeletedIsClean` |
| native | `MCNativeSession`, `MCNativeSession.cfg` | 2 processes with 1 command each, 2 contexts, 2 cookies | `TypeOK`, `HonestSwitch`, `SessionKept` |
| data | `MCSeedRuns`, `MCSeedRuns.cfg` | 3 tables, 3 source records, 4 created rows, 3 commands, 1 seed run, 1 change of the source, 1 deletion by others | `TypeOK`, `ReferencesFaithful`, `ReportHonest`, `TrackingSound` |
| cli | `MCCommands`, `MCCommands.cfg` | pages of 2 rows, up to 4 rows, 2 changes by others, limits below, at and above a page | `TypeOK`, `ReadOnlyKeepsInstance`, `OutcomeHonest`, `ListingHonest` |
| bridge_flag | `MCSnuBridge`, `SnuBridgeFlag.cfg` | the smallest that shows it | section 5 |
| cli_decode | `MCCommands`, `CliDecode.cfg` | as cli | section 5 |

Every property is stated with a comment that names the code it is about.

**Why the bounds are enough.** Two connections are one replacement: an old
generation, a new one and every task of both; a third adds no new relation,
because generations are only compared for equality or with the newest (the proofs
of section 4 cover every number of them). One unread frame is a frame late
by any amount. Two gate revisions are an older and a newer one. Two clients meet in
the legacy lock, and one of them while the tab is replaced meets everything else;
`MaxLoad` leaves out only two clients during a replacement, which share nothing
but the status both read. Two session tokens are a dead and a live one, and
two writers (the session task and a client) already meet in every file
operation. Three connections to a broker are the ping of a
command, its request and one more of the other command, so any two can overlap.
Four access tokens are the stored one, one refresh of each process and one more
after it. One instance is enough for the configuration: a profile differs by its method, and a secret by who stored it. Two processes on one file, keychain or cookie are a reader and a writer that
overtake each other; a command that came before is an initial state. Three
tables make a chain of references, four rows a chain with one record created twice;
three commands are an export, an import and one more, or an apply and two cleanups. Four rows
are two full pages, three a full and a short one.

No deadlock check: the bounds on generations, calls, tokens and commands end a
behaviour, and the program itself may be idle for ever.

**Symmetry** is used in gates, http, config and native, whose clients or processes
are interchangeable: they appear in no initial state, no property names one,
and no run with symmetry has a liveness property.

**Fairness.** `SnuBridge!FairSpec`: the runtime polls every ready task (readers,
the attaching accept loop, a heartbeat inside `detach_connection`), a sleep ends
(heartbeat), a waiting call has a timer. A silent connection is reaped because silence only
lasts: nothing can be heard from it again. No fairness for the helper, the network, the port's
other owner or the wish to make a call. `SnuLifecycle!FairSpec`: started
commands run until they end, accept loops and handler tasks are polled, the idle timeout
elapses when nothing happens; nothing makes a process die. The number of
connections stands for the deadline of `wait_until_ready`. The other modules state no
liveness: their processes are sequential and every step of theirs ends.

**Each property can fail.** For every property of a passing run `PROJECT.json` names a mutant, an
operator `Bad...` beside the one it would replace: a dropped check, a missing reset, a
swapped order that a change of the code could introduce. TLC finds the
property violated under each of them.

## 4. The proofs

TLAPS checks, for every value of the constants (any number of callers, clients,
generations, calls, frames, processes, tokens, rows, page sizes):

| theorem | property |
|---|---|
| `SnuBridge_proofs!Invariance` | the inductive invariant `IInv` |
| `SnuBridge_proofs!TypeCorrect` | `TypeOK` |
| `SnuBridge_proofs!GoneWaitersFail` | `GoneWaitersFailing` |
| `SnuBridge_proofs!BannerDelivered` | `NoBannerStranded` |
| `SnuBridge_proofs!SessionWaitsSurvive` | `SessionWaitSurvives` |
| `SnuBridge_proofs!HealthyConnectionStays` | `HealthyConnectionKept` |
| `SnuBridge_proofs!CallsImplemented` | `ImplementsCalls` |
| `SnuGates_proofs!TypeCorrect` | `TypeOK` |
| `SnuGates_proofs!LegacyOneAtATime` | `LegacySerialized` |
| `SnuGates_proofs!StatusLearns` | `StatusOnlyLearns` |
| `SnuGates_proofs!GatesBelong` | `GatesOfOwnTab` |
| `SnuGates_proofs!LearnedFailsClosed` | `LearnedNeverLegacy` |
| `HttpAuth_proofs!TypeCorrect` | `TypeOK` |
| `HttpAuth_proofs!EffectOnce` | `EffectAtMostOnce` |
| `HttpAuth_proofs!RetriedWithNewToken` | `RetryWithNewToken` |
| `HttpAuth_proofs!LoginKept` | `LiveGrantKept` |
| `SnuBroker_proofs!TypeCorrect` | `TypeOK` |
| `SnuBroker_proofs!LatestStaysCached` | `LatestIsCached` |
| `SnuBroker_proofs!VerifiedMeansAccepted` | `VerifiedThisLifetime` |
| `SnuBroker_proofs!KeptApart` | `SessionsKeptApart` |
| `NativeSession_proofs!TypeCorrect` | `TypeOK` |
| `NativeSession_proofs!SwitchIsHonest` | `HonestSwitch` |
| `NativeSession_proofs!SessionStays` | `SessionKept` |
| `ConfigStore_proofs!TypeCorrect` | `TypeOK` |
| `ConfigStore_proofs!RollbackLeavesNoTrace` | `FailureLeavesNoTrace` |
| `ConfigStore_proofs!DefaultStaysNamed` | `DefaultIsAProfile` |
| `ConfigStore_proofs!DeleteLeavesNoSecret` | `DeletedIsClean` |
| `Commands_proofs!TypeCorrect` | `TypeOK` |
| `Commands_proofs!ReadOnlySafe` | `ReadOnlyKeepsInstance` |
| `Commands_proofs!OutcomesHonest` | `OutcomeHonest` |
| `Commands_proofs!ListingsHonest` | `ListingHonest` |
| `SnuBroker_proofs!LifecycleTypeCorrect` | `LifecycleTypeOK` |
| `SnuBroker_proofs!OneLate` | `AtMostOneLate` |
| `SnuBroker_proofs!EndsUnserved` | `IdleOutUnserved` |
| `SeedRuns_proofs!TypesHold` | `TypeOK` (of `SeedRuns` and `Dataset`) |
| `SeedRuns_proofs!ReferencesHold` | `ReferencesFaithful` |
| `SeedRuns_proofs!ReportsHold` | `ReportHonest` |
| `SeedRuns_proofs!TrackingHolds` | `TrackingSound` |

The only assumptions are the named ones of the modules: the kinds of callers,
protocols, authentication methods and answers to a refresh, the bounds are naturals, there is at least one broker process, the
modes under which an action is sent do not include "off" or "absent", no origin is
called "none", profile names are finitely many and none of the words the model reserves, the
files from which `ConfigStore` begins name a default profile if they have profiles, rows, limits and
offsets are naturals, a page holds at least one row, an inventory asks at least one query
per table, and a query finds a row once. For the datasets: tables and records are numbers and finitely many,
there is at least one table (`validate_dataset_export_spec` refuses a spec without any), every record has a table, the
specs and the initial source instances are records of the right form, the bounds are naturals
(`TablesAssumption`, `IdsAssumption`, `InputAssumption`, `BoundAssumption`, `SeedAssumption`). Nothing is
assumed of the relations a spec describes, of the data of a source, or of the schemas.

**The bridge invariant.** None of the safety properties is inductive alone.
`GoneWaitersFailing` says that a live waiter of a removed connection is about to
be failed; to preserve it one must know which task will do it. `IInv` adds:

* `TaskGens` - the generations in the hands of accept loop, heartbeat and
  readers have been handed out, and the one being attached is newer than the
  installed one;
* `DetachTargets` - a task that is about to detach a connection targets one
  whose socket no longer works;
* `CallsBegun`, `WaitersBehindCalls` - no waiter is ahead of its caller's calls,
  and a call that has not sent its request has no waiter yet, so a new call of
  the same caller never revives an old waiter;
* `SessionWaits` - callers in a session wait are idle or waiting, their waiters
  carry generation 0 and exist for as long as they wait, and their outcome is
  never "disconnected": failing a generation cannot touch them.

`HealthyConnectionKept` then follows: a task that removes the installed
connection met the end of its stream or its silence, and a socket never recovers.

**The refinement.** `CallsImplemented` maps every step of the bridge to a step of `SnuCalls`
or to none. Besides `IInv` it uses `OpenUnanswered` (an open call has not been answered),
`RepliesSent` (a reply on its way answers a request that was sent) and `SentBehindCalls` (a
call about to send has not sent yet). Steps that settle calls are all alike (`CallsEnd`): a
frame answers some waiters, a lost connection gives some up, a timer gives up one.

**The gates invariants.** `LegacySerialized` rests on `LegacyHolders` (a client
that dispatches, or has sent, a legacy payload holds the lock from before its
first send to its end, its retry included) and `FirstUndecided` (before the
first decision no client is legacy). `StatusOnlyLearns` is the conjunction of
`GatedIsSticky` and `RevisionsGrow`, each proved step by step from type correctness
(`GatedStays`, `RevisionsOrdered`).

`GatesOfOwnTab` needs to follow a gate from the tab to the dispatch. `Own` says: the
installed connection is the newest one (`LinkOwn`); what a tab sends is marked with its own
connection, and an answer a client waits for holds a mode that client has witnessed
(`FrameOwn`); a client has witnessed the installed tab's gate, the gate it was answered and,
on the newest generation, the one it is about to go by (`ClientOwn`). The crossing case is an answer read
between the attachment of a connection and the reset of the status: the preflight then
stores the new tab's gates in the status of the old generation. This is harmless because that generation is
never installed again, so `LinkOwn` claims the status's gates for the newest generation only,
and a decision made then is on a generation that `MayDispatch` refuses.
`LearnedNeverLegacy` rests on `LearnedKnown`: whatever generation was found to have gates, the status is about
it and says gated, or is about a newer one, and never goes back (`StatusAdvances`). A client classified as legacy before
that holds a decision which `MayDispatch` compares with the status again, under its lock. The stronger sentence of the
code, that a tab which advertised is never classified as legacy, is violated (section 5).

**The authenticated call's invariant.** `LiveGrantKept` and `RetryWithNewToken`
speak of what several processes hold at once. Their invariant (`IInv` of
`HttpAuth_proofs`) adds:

* `Phases` - a running call has had no effect and no outcome, it refreshes in its
  first attempt only, and with the authorization-code grant it never asks for a
  token without a refresh token;
* `Known` - every token in a cache, a call or the keychain has been issued, so a
  new one is equal to none of them;
* `Private` - a token that waits to be stored is in no cache, no other call and not
  in the keychain; if refresh tokens rotate, nobody else is using the one it came with;
* `Replaced` - while a call makes its second attempt, neither its cache nor the
  keychain holds the token that was refused;
* `Grants` - ServiceNow accepts at most one refresh token of a login, and every
  process about to store a token holds that one.

Steps that neither issue nor store a token are covered by one lemma (`Quiet`);
issuing (`Fresh`) and storing (`SaveTokenKeeps`) have one each. Two processes that
refresh at once are the interesting case: the second to be answered gets a token
only if its refresh token was not rotated away by the first (`Grants`), and then
both are about to store the same refresh token. `EffectAtMostOnce` needs `Phases`
only: a call that was carried out has ended.

**The session cache's invariant.** `LatestIsCached` speaks of memory, snapshots and files
at once, and a snapshot is taken from memory, written, renamed, removed and loaded again by
steps of different tasks; `FilesOK` therefore carries the same fact with every copy. For
`VerifiedThisLifetime` one has to know that whoever is about to mark an origin as verified
has a token that was accepted and that the mark of a session that was cleared meanwhile
stays off: `Sound` follows a request from the session it read to the mark, `MemoryOK` says
that what is verified is cached. `KeptApart` proves `FreshStep` and `ApartStep` of every step;
a restart forgets which tokens were accepted, and with them every mark. One lemma per
operation of `BrokerState` and of the file (`RememberKeeps`, `ClearKeeps`, `MarkKeeps`,
`PersistKeeps`), then one per step of a request.

**The lifecycle's invariant.** `IdleOutUnserved` says that an idle broker ends with nobody
counted; the code only looks at two numbers. `CountersAgree` ties them to the handlers: each
counter is the cardinality of the set of links between the call that counts up and the one
that counts down, so a link that changes its stage changes the counter it enters or leaves by
one, and a client that dies is counted down by its handler. `NobodyElsewhere` covers brokers that do not
listen. `LateChecks` says that a broker which accepted a client after it was told
to end reads the flag next, hence `AtMostOneLate`.

**The session switch's invariant.** What a command may report depends on what it still has to
send: `Shape` says that only inspections follow the PUT, that nothing is persisted right
after a login, and which commands log in at all. `Progress` ties the number of PUTs to that, and
`Report` says of every outcome what has been seen: `HonestSwitch` is `Report` where nothing is
left to send. `SessionKept` needs the whole of `Undisturbed`: while commands do not
overlap, a command bound to the profile holds the stored cookie, or a newer one that is
accepted and about to be stored; a command that is not leaves the stored one alone.

**The configuration's invariant.** `FailureLeavesNoTrace` speaks of the end of an undo. `Restoring`
says why it works at every step before it: each element of the undo writes back what the
command found, and whatever differs from what the command found is touched by an element
still to come, be it a credential (`KeychainRestored`), the alias store or the file. Each write
of the plan is one the undo covers (`Covered`); the session login is the
exception the code makes, its file comes last and is not restored (`SessionFile`).
`Cleaning` follows a delete: a credential is gone, or its deletion is still in
the plan. `Named` carries `DefaultIsAProfile` through the
loaded configuration and every file in a plan or an undo, since two processes may write each
other's. Where two fills overlap the text of the last one comes first and only adds profiles to it (`OverlaidIs`), so
its default stays listed; if it has none, profiles may appear beside no default, which is what `mixed` records (`Sound`).
`Alone` says that a command nobody disturbed finds the file as empty as it left it, which is
why its own write is whole. One lemma (`PlanKeeps`) says what a plan must be like, one per command shows that its
plan is; the steps that perform, fail or cut a write are proved once for all commands.
`OthersKeep` is the interference: a step of another process ends the calm that the
promises about the keychain and the alias store rest on, and never helps or harms otherwise.
The attempt found an error in the model's history: a fill that failed or was killed changed the
file without ending the calm of the other commands (`Kept` does so now), and two
processes with one command each, the bounds of the run, were too few to show it.

**The command's invariant.** `OutcomeHonest` and `ReadOnlyKeepsInstance` hold because of the order in
which each command takes its steps. `Ordered` says of a command that whatever follows a change
changes nothing and can only end in an error that may be printed after a change (`Late`); so
there is at most one change, and it is behind everything that can be refused. A login and the deletions of a cleanup are
several requests in one step, and `OutcomeHonest` excepts their refusals. The lemmas `HttpReads`, `HttpChanges`,
`SnuReads` and `SnuChanges` show it of every command, and that those the command table lets a read-only process
run have no change but what the client stops, but for the two that drive a tab, which snow-cli-ro does not parse (`CommandKinds`,
`MayChange`). `ProcessInv` counts: what was
changed is what the steps so far change, unless the answer said less. A change that were moved before a check, or a new error
after one, breaks `Ordered` of that command.

**The listing's invariant.** With a total, `ListingHonest` is a counting argument. Every row read was there
at the first page and was read once (`Fresh`), because what is still to be asked for was
not read yet (`AheadUnread`): deletions move rows towards the front, never back. The total of the first page bounds
the rows that matched (`TotalBounds`), hidden ones included. A listing that ends untruncated has as
many rows as that, so it has all of them. Rows deleted before they were reached only make it
end truncated. Without totals the argument is contiguity: nothing moves, and the pages so far hold everything
before the offset (`Contiguous`, `ReadAll`); `FirstPage` and `Sized` carry offsets and limits.
`Visible` is given by positions, since the prover cannot expand `SelectSeq`; `MCCommands` checks that they
agree. Its lemma `WhatIsVisible` says that a page loses some of its rows and repeats none.

**The import's invariant.** `ReferencesFaithful` speaks of rows; the reason is in the files and, before that, in what the
export fetched. `PackageInv` says that two files written by the same export resolve each other's placeholders
(`Linked`): a placeholder in one is the key of a record in the other, and of the very record the reference meant.
While the export writes, both files are functions of the same fetched data (`Artifact`), and the export
fails at a reference it cannot resolve (`IsExportable`); afterwards the files do not change. Changes of the
source between two fetches do no harm, because keys are taken from the fetched records, not from the
source. A cut file keeps its content but not its state, and an older file in the same directory has
an older number, so `IsExact` tells them apart. `RememberedInv` then follows an import: each remembered
sys_id is that of a row made from a record of the file with that key (`Known`). With unique keys this
is the record the placeholder stands for; an answer without a sys_id is remembered as empty and leads nowhere. The property is an
invariant of its own, because rows never change.

`ReportInv` counts rows: those a command has created are at least those it calls created, and at most those plus
the failed ones, where the records are posted to their table. `CountInv` counts records: what is created or failed so far is the
number of records of the file or package that are done with (`Done`), those of earlier tables and those before the
current one, which the order of the tables lists once. `ReportHonest` is what both say at the end of the command. They rest on the data and the seed
commands excluding each other (`CommandInv`), as they are one process.

**The seed run's invariant.** `TrackingSound` allows one record of difference at any cut, so the invariant
names it. `RunInv` says of a run at rest: its file lists rows of the run in the order of creation, each after
the rows it refers to; at most one row of the run is neither listed nor gone; and only the last row it lists may be
gone. `ApplyInv` says of a running apply which row that is (`new`, between the POST and the write of the
file), and that the targets of each table to come are already made or come before it, which is where
the order of the plan is used: without it the round-robin reference has nothing to choose from. `CleanupInv` is the same
for a cleanup, between the DELETE and the write. Deleting in reverse order of creation keeps the references of
what is left, as each row refers to earlier ones only. A run's directory name is used once, hence a second apply
adds no row to an old run; `meddled` excludes what others delete. The lemmas about operators
(`AsSequence`, `Elements`, `Appended`, `TailIs`, `FrontIs`, `AscendingLists`, `AtMostOne`, ...) say what the
sequence operators do to lengths, places and elements, and each step has a lemma for the part of the state it changes and for what it
leaves alone.

**Only model-checked.** Liveness under fairness, since the prover does not treat `ENABLED`: `DeadConnectionReaped`,
`AbandonedWaitersSwept`, `EveryoneEnds`. That the orders of `Dataset` and `SeedRuns` are those which the loops of the code
find is an induction over the loop, which is out of the prover's reach with recursive operators: TLC checks it on
every relation over three tables. The properties of section 5 are violated and so are not theorems.

## 5. Where code and documentation disagree

Some sentences of the repository do not hold of the code in every behaviour. Two are
runs of this development:

1. *bridge_flag* - `browser_connected` can stay false with a working tab
   installed (or true with none): `detach_connection` clears the flag after
   releasing the lock under which it took the connection.
2. *cli_decode* - `docs/adr/0010-runtime-error-contract.md:91-92` says that response decode
   failures are distinguished from invalid local JSON. `error.rs:388` takes any
   JSON error in the chain for invalid input; the answer of the broker
   (`snu/broker.rs:525`) and the output of a background script (`snu/mutations.rs:296`) are parsed without
   the wrapper that would tell them apart. The change was made and the exit status says nothing was sent.

Further ones have a configuration of their own; TLC finds the property violated:

| configuration, module, property | sentence | what happens |
|---|---|---|
| `SnuBridgeLegacy.cfg`, `MCSnuBridge`, `ActionReplyIsOwn` | "only one may be in flight or concurrent callers could consume each other's action-matched response" (`snu/broker.rs:173-175`) | the lock ends with the caller, not with the request: the late reply to one that timed out is consumed by the next |
| `SnuGatesEarlyPush.cfg`, `MCSnuGates`, `AdvertisedNeverLegacy` | "a current helper advertising gates fails closed when refresh is unavailable" (`snu/bridge.rs:346-347`) | a helper pushes its build info "immediately after connection" (`snu/gates.rs:87`); what is read before the status is reset for the new connection is dropped (`bridge.rs:982`) and the helper settled as legacy. Once the broker has learned of the gates the claim holds (`LearnedNeverLegacy`) |
| `SnuSessionsEvict.cfg`, `MCSnuSessions`, `EvictsOnlyProbedToken` | "only a probe-confirmed dead token evicts the session" (`snu/broker.rs:1017`) | eviction goes by origin: the second of two failed actions evicts the fresh token of the first |
| `SnuSessionsClear.cfg`, `MCSnuSessions`, `ClearClearsDisk` | "An empty snapshot removes the file so `snu broker clear` clears disk too" (`snu/broker.rs:1568`) | a snapshot taken before the clear is written after it |
| `SnuSessionsTorn.cfg`, `MCSnuSessions`, `WritesAreAtomic` | "Write the session snapshot atomically (temp file + rename)" (`snu/broker.rs:1567`) | two writers share the temporary file; the cache file can end up unparseable |
| `ScopeSilent.cfg`, `MCCommands`, `SkippedTablesWarned` | "Tables truncated at the cap are listed in `warnings`." (`docs/site/src/content/docs/commands/scope.md:129-130`) | a chunk that fills the limit exactly is not truncated itself, and the chunks after it are skipped in silence (`scope/inventory.rs:763-765`, `810-813`) |
| `SeedCleanup.cfg`, `MCSeedRuns`, `PartialRunsCleanable` | "The run file is updated after each successful create so partial runs remain cleanable" (`docs/design/data-import-export.md:395-396`) | a cleanup cut between a DELETE and its write of the file leaves a tracked record that is gone; the next cleanup ends at its 404 (`seed.rs:457`) |

| `SeedStaged.cfg`, `MCSeedRuns`, `CreatedExist` | "Return per-run counts for created, failed, and skipped records." (`docs/design/data-import-export.md:91`) | a row of an Import Set is counted as created unless its status is "error" (`data/flat.rs:405-430`): ignored and skipped rows are reported as created, and none as skipped |
| `ReadOnlySlash.cfg`, `MCCommands`, `ReadOnlyPreventsChanges` | "Prevent ServiceNow mutations through snow-cli when read-only policy is active." (`docs/design/read-only-mode.md:18`) | the table allows `snu slash` and `snu tab` (`policy.rs:337-338`): any slash command of the extension runs, any URL is loaded in a tab where the user is logged in (`snu/mod.rs:195-248`). `docs/site/src/content/docs/commands/snu.md:251-253` says of page navigation, which is denied, that it can have side effects. `snow-cli-ro` has neither command |

Seen while modelling, and allowed by the models rather than stated as properties:

* An OAuth refresh answered without a refresh token stores none, and the next expiry
  needs a new login (`auth/oauth2.rs`); `LiveGrantKept` speaks of answers that bring one.
* `client/pagination.rs:25` documents `truncated` more strongly than the loop computes it when every row of
  the first page is hidden; commands that use the plain record list drop it altogether.
* `docs/site/.../data.md:113,128` says that failed rows without `--fail-on-error` exit 0; a flat
  import ends with an error whenever a row failed.
* `snu execute-bg-script` prints whatever the script returned and exits 0.
* Two processes that change the configuration at the same time lose one of the changes: nothing
  locks the file. If their writes overlap, the file may hold profiles of both, or not parse at all. The properties of
  `ConfigStore` hold for commands nobody interferes with, but for `DefaultIsAProfile`, which holds
  whatever overlaps, as long as no write is cut short.

## 6. What is not modelled

* Wording, parsing and formatting of messages; authentication and licence
  details of the helper; the writer task (a frame is sent or the socket is gone);
  Ping/Pong frames beyond their effect on `last_seen`.
* Which gate a payload needs (`gate_for_payload`) and origin normalisation.
* In `SnuLifecycle`, the moment between the computation of an answer and its
  write: a process that ends there loses the answer of a request that is no
  longer in flight; it is drawn together with the write.
* Age limits of the session file (whether it is restored is a free choice).
* The values of fields, scripts and payloads, generators of seed values, cookie
  syntax, JSON and CSV conversions: they change no state beyond succeeding or failing.
* What a slash command or a loaded page does to the instance: it may change something or not.
* Optional fields of a profile, which the tail of another write may add to the last profile before it; an import of
  a package takes its files to stay what they were when it validated them.
* Overflow of row offsets (`usize`); the extra request for column names in count mode.
* Argument declarations (`cli/args`), output formats, truncation of wide values, spinners, HTTP debug recording,
  the skill installer and shell completions: no state shared with anything and no protocol.
* Identifiers and validation of names (`models`): a name is valid or the command fails at once.

## 7. The plan

Modelled and checked: all components of section 1. Proved: every safety property that a passing run checks, and that
`SnuBridge` implements `SnuCalls`. What is left:

1. Weaker statements that do hold where section 5 shows a sentence of the repository violated (what is evicted,
   cleared, torn, or left by an interrupted cleanup), with the mutant that breaks each.
2. An abstract specification of a seed run (a set of records, created and deleted) that `SeedRuns` implements.
3. The moment between the computation of an answer and its write when a broker ends (section 6).
