------------------------------ MODULE CommandTable -------------------------------
(***************************************************************************)
(* The commands of snow-cli and the error contract.                          *)
(*                                                                         *)
(* A command is a sequence of steps.  A step either goes on, or fails with   *)
(* one of the errors it names; a step that asks ServiceNow for a change may  *)
(* also lose the answer: such an error says nothing of whether the change    *)
(* was carried out.  Options that change the steps are commands of their     *)
(* own.  What session, data and seed commands do with their own state is in   *)
(* NativeSession, Dataset and SeedRuns; profile and auth commands, which      *)
(* change no instance, are in ConfigStore and HttpAuth.                      *)
(***************************************************************************)
EXTENDS Integers, Sequences

----------------------------------------------------------------------------
(* The error contract                                                      *)

Error(code, class, exit, retry) == [code |-> code, class |-> class, exit |-> exit, retry |-> retry]

Validation == Error("VALIDATION_ERROR", "validation", 2, "never")
ConfigBad == Error("CONFIG", "config", 2, "never")
RowErrors == Error("IMPORT_SET_ROW_ERRORS", "command", 1, "manual_review")
ScriptFailed == Error("SCRIPT_EXECUTION_FAILED", "command", 1, "manual_review")
SwitchUncertain == Error("SESSION_SWITCH_UNCERTAIN", "command", 1, "manual_review")
Denied == Error("POLICY_DENIED", "policy", 7, "never")
NotFound == Error("NOT_FOUND", "api", 4, "never")
Rejected == Error("BAD_REQUEST", "api", 5, "never")
ServerBusy == Error("SERVER_ERROR", "api", 5, "safe_reads_only")
OddStatus == Error("UNKNOWN_ERROR", "api", 5, "unknown")
GraphqlFailed == Error("GRAPHQL", "api", 5, "manual_review")
Interrupted == Error("REQUEST_TIMEOUT", "transport", 5, "safe_reads_only")
Undecodable == Error("INVALID_RESPONSE", "transport", 5, "unknown")
AuthFailed == Error("AUTH_FAILED", "auth", 3, "never")
BrokerFailed == Error("SNU_BROKER_ERROR", "command", 1, "unknown")
InvalidJson == Error("INVALID_JSON", "validation", 2, "never")
IoFailed == Error("IO_ERROR", "io", 6, "unknown")
Internal == Error("INTERNAL_ERROR", "internal", 1, "unknown")
Success == Error("", "none", 0, "none")
Declined == Error("", "declined", 0, "none")
Running == Error("", "none", -1, "none")

\* Statuses that refuse a request, and what leaves its fate open.
Refusals == {NotFound, Rejected, AuthFailed}
Losses == {ServerBusy, OddStatus, Interrupted, Undecodable}
BrokerErrors == {BrokerFailed, InvalidJson, IoFailed, Internal}

----------------------------------------------------------------------------
(* Steps                                                                   *)

Step(kind, fails, loses) == [kind |-> kind, fails |-> fails, loses |-> loses]

Local(fails) == Step("local", fails, {})
Client == Local({ConfigBad, AuthFailed, Internal})
Input == Local({Validation, IoFailed})
Valid == Local({Validation})
Show == Local({Internal, IoFailed})
Preview == Local({Validation})
Confirm == Step("confirm", {Validation, IoFailed}, {})
Get == Step("get", Refusals \cup Losses \cup {Internal}, {})
Change == Step("change", Refusals, Losses)
List == Step("list", Losses \cup Refusals, {})

\* Requests through the broker: to look, and to act in the browser.
Connect == Step("get", BrokerErrors, {})
Look == Step("get", BrokerErrors, {})
Act == Step("act", {}, BrokerErrors)

----------------------------------------------------------------------------
(* Commands over HTTP                                                      *)

Command(name, steps) == [name |-> name, steps |-> steps]

DomainField == Step("get", {Validation, Internal} \cup Refusals \cup Losses, {})
TableList == Command("table list", <<Preview, Client, List, Show>>)
TableListDomain == Command("table list --domain", <<Preview, Client, DomainField, List, Show>>)
TableGet == Command("table get", <<Preview, Client, Get, Show>>)
TableCreate == Command("table create", <<Input, Valid, Client, Change, Show>>)
TableUpdate == Command("table update", <<Input, Valid, Client, Change, Show>>)
TableDelete == Command("table delete", <<Confirm, Client, Change, Show>>)
TableDeleteYes == Command("table delete --yes", <<Client, Change, Show>>)
Hierarchy == Get
Columns == Get
TableSchema == Command("table schema", <<Client, Hierarchy, Columns, Show>>)
TableStats == Command("table stats", <<Client, DomainField, Get, Show>>)

DomainList == Command("domain list", <<Client, Valid, List, Show>>)
DomainInspect == Command("domain inspect", <<Client, Valid, List, List, List, List, Show>>)
DomainTable == Command("domain table", <<Client, Hierarchy, Get, Show>>)
DomainStatus == Command("domain status", <<Client, Get, Get, Show>>)

Optional == Step("list", {}, {})  \* failures become warnings
ScopeList == Command("scope list", <<Client, List, Optional, Optional, Show>>)
ResolveScope == Get
Count == Step("inspect", {}, {})
Enumerate == Step("inventory", {Internal}, {})  \* a platform scope without a limit
ScopeInspect == Command("scope inspect", <<Client, ResolveScope, Count, Show>>)
ScopeInspectFull == Command("scope inspect --details full", <<Client, ResolveScope, Enumerate, Show>>)
ScopeInventory == Command("scope inventory", <<Client, ResolveScope, Enumerate, Show>>)

Codesearch == Command("codesearch search", <<Preview, Client, Get, Show>>)
AttachmentList == Command("attachment list", <<Valid, Client, Get, Show>>)
SaveDownload == Local({IoFailed, Internal})
AttachmentDownload == Command("attachment download", <<Client, Get, Get, SaveDownload, Show>>)
UploadFile == Local({Internal})
UploadAnswer == Local({Internal})
AttachmentUpload == Command("attachment upload", <<UploadFile, Client, Change, UploadAnswer, Show>>)

Headers == Local({Validation})
ApiBody == Local({Validation, IoFailed})
ApiShow == Local({Internal, IoFailed})
ApiGet == Command("api get", <<Headers, Client, Get, ApiShow>>)
\* A GET whose headers ask for another method.
ApiGetOverride == Command("api get -H", <<Headers, Client, Step("override", Refusals, Losses), ApiShow>>)
ApiWrite == Command("api post", <<ApiBody, Headers, Client, Change, ApiShow>>)
ApiDelete == Command("api delete", <<Headers, Client, Change, ApiShow>>)

Variables == Local({Validation})
Document == Local({Validation, IoFailed})
Graphql == Command("graphql", <<Variables, Document, Client, Step("change", Refusals, Losses \cup {GraphqlFailed}), Show>>)

\* Some rows may fail; they are counted before the output and judged after it.
NotCsv == Local({Validation})
LoadRows == Step("partial", Refusals, Losses)
RowVerdict == Step("verdict", {RowErrors}, {})
BadImportSetLoad == Command("import-set load", <<Input, Valid, Client, LoadRows, NotCsv, Show, RowVerdict>>)
ImportSetLoad == Command("import-set load", <<NotCsv, Input, Valid, Client, LoadRows, Show, RowVerdict>>)
ImportSetTransform == Command("import-set transform", <<Local({Internal})>>)  \* not implemented
ImportSetLoadAll == Command("import-set load --allow-row-errors", <<NotCsv, Input, Valid, Client, LoadRows, Show>>)

\* The form session is opened by reads; what the script did is judged by its
\* output, or not at all on an endpoint that is not the form.
ScriptText == Local({Validation, IoFailed})
FormScope == Get
FormSession == Get
Judged == {ScriptFailed, Internal}
RunScript == Step("change", Refusals, Losses \cup Judged)
ScriptShow == Local({Internal, IoFailed})
ScriptRun == Command("script run", <<ScriptText, Client, FormScope, FormSession, RunScript, ScriptShow>>)

\* The script moves the record only after its own checks.
MoveFile == RunScript
TryMove == Step("get", Refusals \cup Losses \cup Judged, {})
ScopeMoveFile == Command("scope move-file", <<Client, FormSession, MoveFile, Show>>)
ScopeMoveFileDryRun == Command("scope move-file --dry-run", <<Client, FormSession, TryMove, Show>>)

\* Sessions of the native UI.  login.do opens one and pages verify it: a later
\* request may be refused.  The PUT of a switch, and what follows it, have an
\* error of their own; the context that is already current needs no PUT.
NativeProfile == Local({ConfigBad, Validation})
Inspect == Get
Options == Get
StoreSession == Local({Internal, IoFailed})
SessionShow == Command("session show", <<NativeProfile, Client, Inspect, Show>>)
SessionOptions == Command("session options", <<NativeProfile, Client, Options, Show>>)
SessionAttach == Command("session attach", <<NativeProfile, Input, Inspect, StoreSession, Show>>)
SessionForget == Command("session forget", <<NativeProfile, StoreSession, Show>>)
LoginSecret == Local({Validation, IoFailed, Internal})
OpenSession == Step("several", Refusals, Losses \cup Refusals \cup {Internal})
SessionLogin ==
  Command("session login", <<NativeProfile, LoginSecret, Client, OpenSession, StoreSession, Show>>)
OneCandidate == Local({Validation, Internal})
SessionSwitchCurrent ==
  Command("session switch, to the current one", <<NativeProfile, Client, Inspect, Options, OneCandidate, Show>>)
PutContext == Step("change", {}, {SwitchUncertain})
Verify == Step("get", {SwitchUncertain}, {})
SessionSwitch ==
  Command("session switch",
          <<NativeProfile, Client, Inspect, Options, OneCandidate, PutContext, Verify, Show>>)

\* Data sets.  Records that could not be created are counted, and judged after
\* the output; a reference without a target ends an import before that.  The
\* files are those that were validated.  A staged import is in Dataset only.
SaveExport == Local({Internal, IoFailed})
DataExport == Command("data export", <<Client, List, SaveExport, Show>>)
DataExportReady == Command("data export --import-ready", <<Valid, Client, List, Columns, Valid, SaveExport, Show>>)
ExportSpec == Local({Validation, IoFailed, Internal})
DataExportPackage == Command("data export-package", <<ExportSpec, Client, List, List, SaveExport, Show>>)
ReadDataset == Local({Validation, IoFailed, InvalidJson})
DataValidate == Command("data validate", <<ReadDataset, Client, Columns, Show>>)
DataImportDryRun == Command("data import --dry-run", <<ReadDataset, Client, Columns, Valid, Show>>)
CreateRecords == Step("partial", {}, {Internal})
Tally == Step("tally", {Internal}, {})
DataImport ==
  Command("data import", <<ReadDataset, Client, Columns, Valid, Client, CreateRecords, Show, Tally>>)

\* Seed runs.  Any error of a creation is wrapped; the error of a deletion is
\* not, and may be a refusal after other deletions.
SeedSpec == Local({Internal})
ConfirmSeed == Local({Internal, IoFailed})
TrackingFile == Local({Internal, IoFailed})
SeedPlan == Command("seed plan", <<SeedSpec, Show>>)
SeedApplyDryRun == Command("seed apply --dry-run", <<SeedSpec, Show>>)
CreateSeeds == Step("change", {}, {Internal, IoFailed})
SeedApply ==
  Command("seed apply", <<SeedSpec, ConfirmSeed, Client, TrackingFile, CreateSeeds, Show>>)
DeleteSeeds == Step("several", Refusals, Losses \cup Refusals \cup {Internal, IoFailed})
SeedCleanup ==
  Command("seed cleanup", <<ConfirmSeed, TrackingFile, Client, DeleteSeeds, TrackingFile, Show>>)
SeedCleanupDryRun == Command("seed cleanup --dry-run", <<TrackingFile, Show>>)

OverHttp ==
  {TableList, TableListDomain, TableGet, TableCreate, TableUpdate, TableDelete, TableDeleteYes,
   TableSchema, TableStats, DomainList, DomainInspect, DomainTable, DomainStatus, ScopeList,
   ScopeInspect, ScopeInspectFull, ScopeInventory, ScopeMoveFile, ScopeMoveFileDryRun, Codesearch,
   AttachmentList, AttachmentDownload, AttachmentUpload, ApiGet, ApiGetOverride, ApiWrite, ApiDelete,
   Graphql, ImportSetLoad, ImportSetLoadAll, ImportSetTransform, ScriptRun, SessionShow,
   SessionOptions, SessionAttach, SessionForget, SessionLogin, SessionSwitchCurrent, SessionSwitch,
   DataExport, DataExportReady, DataExportPackage, DataValidate, DataImportDryRun, DataImport,
   SeedPlan, SeedApplyDryRun, SeedApply, SeedCleanup, SeedCleanupDryRun}

----------------------------------------------------------------------------
(* Commands through the SN-Utils broker                                    *)

Origin == Local({Internal})
SnuScript == Local({Internal, Validation, IoFailed})
SnuData == Local({Internal, InvalidJson, Validation, IoFailed})
SnuCommand(name, steps) == Command(name, <<Origin>> \o steps)

SnuQuery == SnuCommand("snu query", <<Connect, Look, Show>>)
SnuSchema == SnuCommand("snu schema", <<Connect, Look, Show>>)
SnuAppMeta == SnuCommand("snu app-meta", <<Connect, Look, Show>>)
SnuListTables == SnuCommand("snu list-tables", <<Connect, Look, Show>>)
SnuGetRecord == SnuCommand("snu get-record", <<Connect, Look, Show>>)
SnuParentOptions == SnuCommand("snu records parent-options", <<Connect, Look, Show>>)
SnuFormState == SnuCommand("snu page form-state", <<Connect, Look, Show>>)
SnuContextGet == SnuCommand("snu context get", <<Connect, Look, Show>>)
InstanceInfo == Local({Internal})
SnuInstanceInfo == SnuCommand("snu get-instance-info", <<Connect, Look, InstanceInfo, Show>>)
SnuWaitToken == SnuCommand("snu wait-token", <<Connect, Show>>)
\* The banner, the verification and the capabilities only mark the snapshot.
SnuCheckConnection == SnuCommand("snu check-connection", <<Connect, Look, Show>>)
Target == Local({Internal})
SaveImage == Local({Internal, IoFailed})
SnuScreenshot == SnuCommand("snu screenshot", <<Target, Connect, Look, SaveImage, Show>>)
\* Run any slash command of the extension, or load any page, in a tab where the
\* user is logged in.
SnuSlash == SnuCommand("snu slash", <<Connect, Act, Show>>)
SnuTab == SnuCommand("snu tab activate", <<Connect, Act, Show>>)
SnuBroker == SnuCommand("snu broker", <<Local({Internal}), Look, Show>>)

RestPath == Local({Internal})
RestBody == Local({InvalidJson})
SnuRestGet == SnuCommand("snu rest get", <<RestPath, Connect, Look, Show>>)
SnuRestWrite == SnuCommand("snu rest post", <<RestBody, RestPath, Connect, Act, Show>>)
SnuPageAct == SnuCommand("snu page click", <<Connect, Act, Show>>)
SnuContextSwitch == SnuCommand("snu context switch", <<Connect, Act, Show>>)
ReadFile == Local({Internal, IoFailed})
SnuAttachmentUpload == SnuCommand("snu attachment upload", <<Connect, ReadFile, Act, Show>>)

CreateAnswer == Local({Internal})
SnuCreate == SnuCommand("snu create-record", <<SnuData, Connect, Act, CreateAnswer, Show>>)
\* A generated script does the change and prints its result as JSON.
Mutation == Act
Fields == Local({Internal, InvalidJson})
Persisted == Look
SnuUpdate == SnuCommand("snu update-record", <<Fields, Connect, Mutation, Show>>)
SnuUpdateAwait == SnuCommand("snu update-record --await", <<Fields, Connect, Mutation, Persisted, Show>>)
SnuDelete == SnuCommand("snu delete-record", <<Connect, Mutation, Show>>)
SnuDeleteDryRun == SnuCommand("snu delete-record --dry-run", <<Connect, Look, Show>>)
\* The records that matched before and were not deleted are reported as failed.
BulkChecks == Local({Internal})
BulkMutation == Step("script", {}, BrokerErrors)
SnuBulkDelete == SnuCommand("snu delete-record --query", <<Connect, BulkChecks, Look, BulkMutation, Show>>)
\* What the script printed is the output, whatever it says.
RawScript == Step("script", {}, BrokerErrors)
Verbatim == Local({Internal})
SnuExecuteScript == SnuCommand("snu execute-bg-script", <<SnuScript, Connect, RawScript, Verbatim>>)

ThroughBroker ==
  {SnuQuery, SnuSchema, SnuAppMeta, SnuListTables, SnuGetRecord, SnuParentOptions, SnuFormState,
   SnuContextGet, SnuInstanceInfo, SnuWaitToken, SnuCheckConnection, SnuScreenshot, SnuSlash, SnuTab,
   SnuBroker, SnuRestGet, SnuRestWrite, SnuPageAct, SnuContextSwitch, SnuAttachmentUpload, SnuCreate,
   SnuUpdate, SnuUpdateAwait, SnuDelete, SnuDeleteDryRun, SnuBulkDelete, SnuExecuteScript}

AllCommands == OverHttp \cup ThroughBroker
=================================================================================
