-------------------------------- MODULE Commands --------------------------------
(***************************************************************************)
(* One run of snow-cli from its arguments to its end: policy, configuration,  *)
(* the steps of the command and the exit code.                               *)
(*                                                                         *)
(* What each command does is in CommandTable; here its steps are performed,  *)
(* its lists and inventories are those of Listing.                           *)
(***************************************************************************)
EXTENDS Listing, CommandTable

VARIABLES
  pc,       \* "start", "policy", "run" or "ended"
  entry,    \* "snow-cli", "snow-cli --read-only" or "snow-cli-ro"
  command,
  left,     \* steps still to do
  changed,  \* changes ServiceNow carried out (history)
  short,    \* the server reported that part of the change was not made
  result    \* how the process ended

procVars == <<pc, entry, command, left, changed, short, result>>
vars == <<procVars, listVars>>

----------------------------------------------------------------------------
(* Read-only mode                                                          *)

Entries == {"snow-cli", "snow-cli --read-only", "snow-cli-ro"}
ReadOnly == entry # "snow-cli"

\* read_only_command_decision
WritingHttp ==
  {TableCreate, TableUpdate, TableDelete, TableDeleteYes, ScopeMoveFile, ScopeMoveFileDryRun,
   AttachmentUpload, ImportSetLoad, ImportSetLoadAll, ImportSetTransform, ApiWrite, ApiDelete,
   Graphql, ScriptRun, SessionLogin, SessionSwitchCurrent, SessionSwitch, DataImportDryRun, DataImport,
   SeedApplyDryRun, SeedApply, SeedCleanup, SeedCleanupDryRun}
WritingSnu ==
  {SnuRestWrite, SnuPageAct, SnuAttachmentUpload, SnuCreate, SnuUpdate, SnuUpdateAwait, SnuDelete,
   SnuDeleteDryRun, SnuBulkDelete, SnuExecuteScript}
BadReadOnlyDenied == WritingHttp \cup WritingSnu
ReadOnlyDenied == WritingHttp \cup WritingSnu \cup {SnuContextSwitch}

\* What snow-cli-ro parses at all.
RoHttp ==
  {TableList, TableListDomain, TableGet, TableSchema, TableStats, DomainList, DomainInspect,
   DomainTable, DomainStatus, ScopeList, ScopeInspect, ScopeInspectFull, ScopeInventory, Codesearch,
   AttachmentList, AttachmentDownload, ApiGet, ApiGetOverride, SessionShow, SessionOptions,
   SessionAttach, SessionForget, DataExport, DataExportReady, DataExportPackage, DataValidate}
RoSnu ==
  {SnuCheckConnection, SnuInstanceInfo, SnuWaitToken, SnuQuery, SnuListTables, SnuGetRecord,
   SnuSchema, SnuAppMeta, SnuContextGet, SnuRestGet, SnuFormState, SnuParentOptions, SnuScreenshot}
Surface(e) == IF e = "snow-cli-ro" THEN RoHttp \cup RoSnu ELSE AllCommands

\* ensure_request_allowed and ensure_raw_api_headers_allowed
Stopped(step) == ReadOnly /\ step.kind \in {"change", "several", "partial", "override"}

----------------------------------------------------------------------------
(* A process                                                               *)

NoCommand == Command("", <<>>)

Init ==
  /\ pc = "start" /\ entry = "snow-cli" /\ command = NoCommand /\ left = <<>>
  /\ changed = 0 /\ short = FALSE /\ result = Running
  /\ ListInit

Parse ==
  /\ pc = "start"
  /\ \E e \in Entries : entry' = e /\ command' \in Surface(e)
  /\ left' = command'.steps /\ pc' = "policy"
  /\ UNCHANGED <<changed, short, result, listVars>>

\* The process prints the error and ends with its exit code.
End(outcome) == pc' = "ended" /\ result' = outcome /\ UNCHANGED <<entry, command, left, short>>

PolicyDenies ==
  /\ pc = "policy" /\ ReadOnly /\ command \in ReadOnlyDenied
  /\ End(Denied) /\ UNCHANGED <<changed, listVars>>

Dispatch ==
  /\ pc = "policy" /\ ~(ReadOnly /\ command \in ReadOnlyDenied)
  /\ pc' = "run"
  /\ UNCHANGED <<entry, command, left, changed, short, result, listVars>>

\* config.toml is read before the command, for every command.
NoConfig ==
  /\ pc = "policy" /\ ~(ReadOnly /\ command \in ReadOnlyDenied)
  /\ End(ConfigBad) /\ UNCHANGED <<changed, listVars>>

At(kinds) == pc = "run" /\ left # <<>> /\ Head(left).kind \in kinds
Advance == left' = Tail(left) /\ UNCHANGED <<pc, entry, command, result>>

Unchanging == {"local", "confirm", "get", "verdict", "tally"}
Changing == {"change", "several", "override", "partial", "act", "script"}

\* A verdict passes rows that were ignored or skipped, a tally nothing.
Pass ==
  /\ At(Unchanging) /\ ~(Head(left).kind = "tally" /\ short)
  /\ Advance /\ UNCHANGED <<changed, short, listVars>>

Fail ==
  /\ At(Unchanging \cup Changing \cup {"inspect", "inventory"}) /\ ~Stopped(Head(left))
  /\ Head(left).kind \in {"verdict", "tally"} => short
  /\ scan.pc = "idle"
  /\ \E e \in Head(left).fails : End(e)
  /\ UNCHANGED <<changed, listVars>>

Decline ==
  /\ At({"confirm"})
  /\ End(Declined) /\ UNCHANGED <<changed, listVars>>

RequestDenied ==
  /\ At(Changing) /\ Stopped(Head(left))
  /\ End(Denied) /\ UNCHANGED <<changed, listVars>>

CarriedOut ==
  /\ At(Changing) /\ ~Stopped(Head(left))
  /\ changed' = changed + 1
  /\ Advance /\ UNCHANGED <<short, listVars>>

\* The answer says which part was not carried out.
PartlyCarriedOut ==
  /\ At({"partial", "script"}) /\ ~Stopped(Head(left))
  /\ changed' \in {changed, changed + 1} /\ short' = TRUE
  /\ Advance /\ UNCHANGED listVars

AnswerLost ==
  /\ At(Changing) /\ ~Stopped(Head(left))
  /\ changed' \in {changed, changed + 1}
  /\ \E e \in Head(left).loses : End(e)
  /\ UNCHANGED listVars

StartList ==
  /\ At({"list"}) /\ read.pc = "idle"
  /\ \E q \in Queries : Ask(q.limit, q.offset)
  /\ UNCHANGED <<procVars, scan>>

EndList ==
  /\ At({"list"})
  /\ read.pc = "done" \/ (read.pc = "failed" /\ Head(left).fails = {})
  /\ Forget /\ Advance
  /\ UNCHANGED <<changed, short, scan>>

FailList ==
  /\ At({"list"}) /\ read.pc = "failed"
  /\ \E e \in Head(left).fails : End(e)
  /\ Forget /\ UNCHANGED <<changed, scan>>

StartScan ==
  /\ scan.pc = "idle"
  /\ \/ At({"inspect"}) /\ BeginScan("count")
     \/ At({"inventory"}) /\ BeginScan("enumerate")
  /\ UNCHANGED procVars

EndScan ==
  /\ At({"inspect", "inventory"}) /\ scan.pc = "done"
  /\ scan' = NoScan
  /\ Advance /\ UNCHANGED <<changed, short, found, read, changes>>

Finish ==
  /\ pc = "run" /\ left = <<>>
  /\ End(Success) /\ UNCHANGED <<changed, listVars>>

Next ==
  \/ Parse \/ PolicyDenies \/ NoConfig \/ Dispatch
  \/ Pass \/ Fail \/ Decline \/ RequestDenied \/ CarriedOut \/ PartlyCarriedOut \/ AnswerLost
  \/ StartList \/ EndList \/ FailList \/ StartScan \/ EndScan \/ Finish
  \/ (ListNext /\ UNCHANGED procVars)

Spec == Init /\ [][Next]_vars

----------------------------------------------------------------------------
(* Properties                                                              *)

Errors ==
  {Validation, ConfigBad, RowErrors, ScriptFailed, SwitchUncertain, Denied, NotFound, Rejected, ServerBusy, OddStatus,
   GraphqlFailed, Interrupted, Undecodable, AuthFailed, BrokerFailed, InvalidJson, IoFailed, Internal,
   Success, Declined}

ProcessTypeOK ==
  /\ pc \in {"start", "policy", "run", "ended"} /\ entry \in Entries
  /\ command \in AllCommands \cup {NoCommand} /\ changed \in Nat /\ short \in BOOLEAN
  /\ \E n \in 0 .. Len(command.steps) : left = SubSeq(command.steps, n + 1, Len(command.steps))
  /\ IF pc = "ended" THEN result \in Errors ELSE result = Running

\* Types, and what each phase of a process holds.
TypeOK == ProcessTypeOK /\ ListTypeOK

\* snow-cli-ro changes nothing on the instance, and snow-cli --read-only nothing
\* but through the tabs of the browser: what goes through the broker, which has
\* no check of its own, is stopped by the command table, and a GET whose headers
\* ask for another method by the client.
DrivesTab == {SnuSlash, SnuTab}
ReadOnlyKeepsInstance ==
  ReadOnly => changed = 0 \/ (entry = "snow-cli --read-only" /\ command \in DrivesTab)

\* read-only-mode.md: "Prevent ServiceNow mutations through snow-cli when
\* read-only policy is active."
ReadOnlyPreventsChanges == ReadOnly => changed = 0

\* An error that says never to retry is not printed after a change: asking again
\* would repeat it.  Two commands make several requests, of which a later one may
\* be refused as it will be again; INVALID_JSON is not meant to follow a
\* request (InvalidJsonIsLocal).  A process that ends well carried out every
\* change of its command, was told not to, or reported which part was not.
SeveralRequests == \E i \in DOMAIN command.steps : command.steps[i].kind = "several"
OutcomeHonest ==
  /\ pc = "ended" /\ result.retry = "never" /\ result # InvalidJson /\ ~SeveralRequests => changed = 0
  /\ pc = "ended" /\ result = Success
       => \/ short
          \/ changed = Cardinality({i \in DOMAIN command.steps : command.steps[i].kind \in Changing})

\* 0010-runtime-error-contract.md: "Response decode failures are distinguished
\* from invalid local JSON."  It is a validation error: nothing was sent.
InvalidJsonIsLocal == pc = "ended" /\ result = InvalidJson => changed = 0
=============================================================================
