---------------------------- MODULE Commands_proofs ----------------------------
(* Proofs about Commands and Listing, for any answers, limits, page sizes and *)
(* changes by others.                                                        *)
EXTENDS Commands, FiniteSetTheorems, SequenceTheorems, TLAPS

----------------------------------------------------------------------------
(* Steps                                                                   *)

\* Errors a command may fail with.
Failures == {e \in Errors : e.exit # 0}

\* Errors a process may end with although a change was carried out.
Late == {e \in Failures : e.retry = "never" => e = InvalidJson}

Kinds == {"local", "confirm", "get", "list", "inspect", "inventory", "verdict", "tally",
          "change", "several", "override", "partial", "act", "script"}
StepRecord == [kind : Kinds, fails : SUBSET Failures, loses : SUBSET Failures]

\* Steps that change nothing; those that may follow a change; those that change.
Quiet == {s \in StepRecord : s.kind \notin Changing}
After == {s \in Quiet : s.fails \subseteq Late}
Acting == {s \in StepRecord : s.kind \in Changing /\ (s.kind = "several" \/ s.loses \subseteq Late)}

\* Steps that change nothing are Quiet, whatever they may fail with.
LEMMA QuietSorts ==
  ASSUME NEW F, NEW L, F \subseteq Failures, L \subseteq Failures
  PROVE
         /\ Step("local", F, L) \in Quiet /\ (F \subseteq Late => Step("local", F, L) \in After)
         /\ Step("confirm", F, L) \in Quiet /\ (F \subseteq Late => Step("confirm", F, L) \in After)
         /\ Step("get", F, L) \in Quiet /\ (F \subseteq Late => Step("get", F, L) \in After)
         /\ Step("list", F, L) \in Quiet /\ (F \subseteq Late => Step("list", F, L) \in After)
         /\ Step("inspect", F, L) \in Quiet /\ (F \subseteq Late => Step("inspect", F, L) \in After)
         /\ Step("inventory", F, L) \in Quiet /\ (F \subseteq Late => Step("inventory", F, L) \in After)
         /\ Step("verdict", F, L) \in Quiet /\ (F \subseteq Late => Step("verdict", F, L) \in After)
         /\ Step("tally", F, L) \in Quiet /\ (F \subseteq Late => Step("tally", F, L) \in After)
<1>1. Step("local", F, L) \in StepRecord
  BY DEF Step, StepRecord, Kinds
<1>2. Step("confirm", F, L) \in StepRecord
  BY DEF Step, StepRecord, Kinds
<1>3. Step("get", F, L) \in StepRecord
  BY DEF Step, StepRecord, Kinds
<1>4. Step("list", F, L) \in StepRecord
  BY DEF Step, StepRecord, Kinds
<1>5. Step("inspect", F, L) \in StepRecord
  BY DEF Step, StepRecord, Kinds
<1>6. Step("inventory", F, L) \in StepRecord
  BY DEF Step, StepRecord, Kinds
<1>7. Step("verdict", F, L) \in StepRecord /\ Step("tally", F, L) \in StepRecord
  BY DEF Step, StepRecord, Kinds
<1>8. /\ Step("local", F, L).kind \notin Changing
      /\ Step("confirm", F, L).kind \notin Changing
      /\ Step("get", F, L).kind \notin Changing
      /\ Step("list", F, L).kind \notin Changing
      /\ Step("inspect", F, L).kind \notin Changing
      /\ Step("inventory", F, L).kind \notin Changing
      /\ Step("verdict", F, L).kind \notin Changing
      /\ Step("tally", F, L).kind \notin Changing
  BY DEF Step, Changing
<1>9. \A k : Step(k, F, L).fails = F /\ Step(k, F, L).loses = L
  BY DEF Step
<1> QED BY <1>1, <1>2, <1>3, <1>4, <1>5, <1>6, <1>7, <1>8, <1>9 DEF Quiet, After

\* Steps that change something are Acting, if their lost answers are Late.
LEMMA ActingSorts ==
  ASSUME NEW F, NEW L, F \subseteq Failures, L \subseteq Failures
  PROVE
         /\ L \subseteq Late => Step("change", F, L) \in Acting
         /\ Step("several", F, L) \in Acting
         /\ L \subseteq Late => Step("override", F, L) \in Acting
         /\ L \subseteq Late => Step("partial", F, L) \in Acting
         /\ L \subseteq Late => Step("act", F, L) \in Acting
         /\ L \subseteq Late => Step("script", F, L) \in Acting
<1>1. Step("change", F, L) \in StepRecord /\ Step("several", F, L) \in StepRecord
  BY DEF Step, StepRecord, Kinds
<1>2. Step("override", F, L) \in StepRecord
  BY DEF Step, StepRecord, Kinds
<1>3. Step("partial", F, L) \in StepRecord
  BY DEF Step, StepRecord, Kinds
<1>4. Step("act", F, L) \in StepRecord
  BY DEF Step, StepRecord, Kinds
<1>5. Step("script", F, L) \in StepRecord
  BY DEF Step, StepRecord, Kinds
<1>6. /\ Step("change", F, L).kind \in Changing /\ Step("several", F, L).kind \in Changing
      /\ Step("several", F, L).kind = "several"
      /\ Step("override", F, L).kind \in Changing
      /\ Step("partial", F, L).kind \in Changing
      /\ Step("act", F, L).kind \in Changing
      /\ Step("script", F, L).kind \in Changing
  BY DEF Step, Changing
<1>7. \A k : Step(k, F, L).fails = F /\ Step(k, F, L).loses = L
  BY DEF Step
<1> QED BY <1>1, <1>2, <1>3, <1>4, <1>5, <1>6, <1>7 DEF Acting

\* Errors by what they may follow, and the others.
LEMMA ErrorsAfter ==
  /\ Losses \subseteq Late /\ BrokerErrors \subseteq Late /\ Judged \subseteq Late
  /\ {RowErrors, GraphqlFailed, InvalidJson, IoFailed, Internal, SwitchUncertain} \subseteq Late
  /\ Refusals \subseteq Failures /\ {Validation, ConfigBad, AuthFailed} \subseteq Failures
<1>1. /\ ServerBusy.exit # 0 /\ OddStatus.exit # 0 /\ Interrupted.exit # 0 /\ Undecodable.exit # 0
      /\ BrokerFailed.exit # 0 /\ IoFailed.exit # 0 /\ Internal.exit # 0 /\ ScriptFailed.exit # 0
      /\ RowErrors.exit # 0 /\ GraphqlFailed.exit # 0 /\ InvalidJson.exit # 0
      /\ SwitchUncertain.exit # 0
  BY DEF Error, SwitchUncertain, ServerBusy, OddStatus, Interrupted, Undecodable, BrokerFailed, IoFailed, Internal,
         ScriptFailed, RowErrors, GraphqlFailed, InvalidJson
<1>2. /\ NotFound.exit # 0 /\ Rejected.exit # 0 /\ AuthFailed.exit # 0 /\ Validation.exit # 0
      /\ ConfigBad.exit # 0
  BY DEF Error, NotFound, Rejected, AuthFailed, Validation, ConfigBad
<1>3. /\ ServerBusy.retry # "never" /\ OddStatus.retry # "never" /\ Interrupted.retry # "never"
      /\ Undecodable.retry # "never" /\ BrokerFailed.retry # "never" /\ IoFailed.retry # "never"
      /\ Internal.retry # "never" /\ ScriptFailed.retry # "never" /\ RowErrors.retry # "never"
      /\ GraphqlFailed.retry # "never" /\ SwitchUncertain.retry # "never"
  BY DEF Error, SwitchUncertain, ServerBusy, OddStatus, Interrupted, Undecodable, BrokerFailed, IoFailed, Internal,
         ScriptFailed, RowErrors, GraphqlFailed
<1>4. {ServerBusy, OddStatus, Interrupted, Undecodable, BrokerFailed, InvalidJson, IoFailed, Internal,
       ScriptFailed, RowErrors, GraphqlFailed, SwitchUncertain} \subseteq Late
  BY <1>1, <1>3 DEF Late, Failures, Errors
<1>5. Refusals \subseteq Failures /\ {Validation, ConfigBad, AuthFailed} \subseteq Failures
  BY <1>2 DEF Refusals, Failures, Errors
<1> QED BY <1>4, <1>5 DEF Losses, BrokerErrors, Judged

\* Steps before a change, or of a command without one.
LEMMA QuietSteps ==
  /\ Client \in Quiet /\ Input \in Quiet /\ Valid \in Quiet /\ Show \in Quiet /\ Preview \in Quiet
  /\ Confirm \in Quiet /\ Get \in Quiet /\ List \in Quiet /\ Connect \in Quiet /\ Look \in Quiet
  /\ DomainField \in Quiet /\ Hierarchy \in Quiet /\ Columns \in Quiet /\ Optional \in Quiet
  /\ ResolveScope \in Quiet /\ Count \in Quiet /\ Enumerate \in Quiet /\ SaveDownload \in Quiet
  /\ UploadFile \in Quiet /\ Headers \in Quiet /\ ApiBody \in Quiet /\ ApiShow \in Quiet
  /\ Variables \in Quiet /\ Document \in Quiet /\ NotCsv \in Quiet /\ Local({Internal}) \in Quiet
  /\ ScriptText \in Quiet /\ FormScope \in Quiet /\ FormSession \in Quiet /\ TryMove \in Quiet
  /\ Origin \in Quiet /\ SnuScript \in Quiet /\ SnuData \in Quiet /\ InstanceInfo \in Quiet
  /\ Target \in Quiet /\ SaveImage \in Quiet /\ RestPath \in Quiet /\ RestBody \in Quiet
  /\ ReadFile \in Quiet /\ Fields \in Quiet /\ BulkChecks \in Quiet
  /\ NativeProfile \in Quiet /\ Inspect \in Quiet /\ Options \in Quiet /\ StoreSession \in Quiet
  /\ LoginSecret \in Quiet /\ OneCandidate \in Quiet /\ SaveExport \in Quiet /\ ExportSpec \in Quiet
  /\ ReadDataset \in Quiet /\ SeedSpec \in Quiet /\ ConfirmSeed \in Quiet /\ TrackingFile \in Quiet
<1>1. {} \subseteq Failures /\ Losses \subseteq Failures /\ BrokerErrors \subseteq Failures /\ Judged \subseteq Failures
      /\ Refusals \subseteq Failures
      /\ {Validation, ConfigBad, AuthFailed, InvalidJson, IoFailed, Internal} \subseteq Failures
  BY ErrorsAfter DEF Late
<1>2. /\ Client \in Quiet /\ Input \in Quiet /\ Valid \in Quiet /\ Show \in Quiet /\ Preview \in Quiet
      /\ SaveDownload \in Quiet /\ UploadFile \in Quiet /\ Headers \in Quiet /\ ApiBody \in Quiet
      /\ ApiShow \in Quiet /\ Variables \in Quiet /\ Document \in Quiet /\ NotCsv \in Quiet
      /\ Local({Internal}) \in Quiet /\ ScriptText \in Quiet
  BY <1>1, QuietSorts DEF Local, Client, Input, Valid, Show, Preview, SaveDownload, UploadFile, Headers,
     ApiBody, ApiShow, Variables, Document, NotCsv, ScriptText
<1>3. /\ Origin \in Quiet /\ SnuScript \in Quiet /\ SnuData \in Quiet /\ InstanceInfo \in Quiet
      /\ Target \in Quiet /\ SaveImage \in Quiet /\ RestPath \in Quiet /\ RestBody \in Quiet
      /\ ReadFile \in Quiet /\ Fields \in Quiet /\ BulkChecks \in Quiet
  BY <1>1, QuietSorts DEF Local, Origin, SnuScript, SnuData, InstanceInfo, Target, SaveImage, RestPath,
     RestBody, ReadFile, Fields, BulkChecks
<1>4. Confirm \in Quiet /\ Get \in Quiet /\ List \in Quiet /\ Connect \in Quiet /\ Look \in Quiet
  BY <1>1, QuietSorts DEF Confirm, Get, List, Connect, Look
<1>6. /\ NativeProfile \in Quiet /\ StoreSession \in Quiet /\ LoginSecret \in Quiet
      /\ OneCandidate \in Quiet /\ SaveExport \in Quiet /\ ExportSpec \in Quiet /\ ReadDataset \in Quiet
      /\ SeedSpec \in Quiet /\ ConfirmSeed \in Quiet /\ TrackingFile \in Quiet
  BY <1>1, QuietSorts DEF Local, NativeProfile, StoreSession, LoginSecret, OneCandidate, SaveExport,
     ExportSpec, ReadDataset, SeedSpec, ConfirmSeed, TrackingFile
<1>5. DomainField \in Quiet /\ Optional \in Quiet /\ Count \in Quiet /\ Enumerate \in Quiet
      /\ TryMove \in Quiet
  BY <1>1, QuietSorts DEF DomainField, Optional, Count, Enumerate, TryMove
<1> QED BY <1>2, <1>3, <1>4, <1>5, <1>6 DEF Hierarchy, Columns, ResolveScope, FormScope, FormSession,
                                         Inspect, Options

\* Changes, and steps that may follow one.
LEMMA ChangingSteps ==
  /\ Change \in Acting /\ Act \in Acting /\ Step("override", Refusals, Losses) \in Acting
  /\ Step("change", Refusals, Losses \cup {GraphqlFailed}) \in Acting /\ LoadRows \in Acting
  /\ RunScript \in Acting /\ MoveFile \in Acting /\ Mutation \in Acting /\ BulkMutation \in Acting
  /\ RawScript \in Acting
  /\ Show \in After /\ ApiShow \in After /\ ScriptShow \in After /\ UploadAnswer \in After
  /\ RowVerdict \in After /\ CreateAnswer \in After /\ Persisted \in After /\ Verbatim \in After
  /\ OpenSession \in Acting /\ PutContext \in Acting /\ CreateRecords \in Acting
  /\ CreateSeeds \in Acting /\ DeleteSeeds \in Acting
  /\ Verify \in After /\ StoreSession \in After /\ Tally \in After /\ TrackingFile \in After
<1>1. Late \subseteq Failures /\ {} \subseteq Failures
  BY DEF Late
<1>2. Change \in Acting /\ Act \in Acting /\ Step("override", Refusals, Losses) \in Acting
      /\ LoadRows \in Acting /\ BulkMutation \in Acting /\ RawScript \in Acting
  BY <1>1, ErrorsAfter, ActingSorts DEF Change, Act, LoadRows, BulkMutation, RawScript
<1>3. Step("change", Refusals, Losses \cup {GraphqlFailed}) \in Acting /\ RunScript \in Acting
  BY <1>1, ErrorsAfter, ActingSorts DEF RunScript
<1>4. Show \in After /\ ApiShow \in After /\ ScriptShow \in After /\ UploadAnswer \in After
      /\ CreateAnswer \in After /\ Verbatim \in After
  BY <1>1, ErrorsAfter, QuietSorts DEF Local, Show, ApiShow, ScriptShow, UploadAnswer, CreateAnswer, Verbatim
<1>5. RowVerdict \in After /\ Look \in After /\ Verify \in After /\ Tally \in After
  BY <1>1, ErrorsAfter, QuietSorts DEF RowVerdict, Look, Verify, Tally
<1>6. PutContext \in Acting /\ CreateRecords \in Acting /\ CreateSeeds \in Acting
  BY <1>1, ErrorsAfter, ActingSorts DEF PutContext, CreateRecords, CreateSeeds
<1>7. OpenSession \in Acting /\ DeleteSeeds \in Acting
  BY <1>1, ErrorsAfter, ActingSorts DEF OpenSession, DeleteSeeds
<1>8. StoreSession \in After /\ TrackingFile \in After
  BY <1>1, ErrorsAfter, QuietSorts DEF Local, StoreSession, TrackingFile
<1> QED BY <1>2, <1>3, <1>4, <1>5, <1>6, <1>7, <1>8 DEF MoveFile, Mutation, Persisted

----------------------------------------------------------------------------
(* Commands                                                                *)

\* Nothing but what may follow a change follows one: so there is one at most.
Ordered(steps) ==
  /\ steps \in Seq(Quiet \cup Acting)
  /\ \A i, j \in DOMAIN steps : i < j /\ steps[i] \in Acting => steps[j] \in After

\* Changes the client of a read-only process stops.
Stoppable == {s \in Acting : s.kind \in {"change", "several", "partial", "override"}}

\* Commands that change nothing, and those that do.
HttpReaders ==
  {TableList, TableListDomain, TableGet, TableSchema, TableStats, DomainList, DomainInspect,
   DomainTable, DomainStatus, ScopeList, ScopeInspect, ScopeInspectFull, ScopeInventory,
   Codesearch, AttachmentList, AttachmentDownload, ApiGet, ImportSetTransform,
   ScopeMoveFileDryRun, SessionShow, SessionOptions, SessionAttach, SessionForget,
   SessionSwitchCurrent, DataExport, DataExportReady, DataExportPackage, DataValidate,
   DataImportDryRun, SeedPlan, SeedApplyDryRun, SeedCleanupDryRun, NoCommand}
HttpChangers ==
  {TableCreate, TableUpdate, TableDelete, TableDeleteYes, AttachmentUpload, ApiGetOverride,
   ApiWrite, ApiDelete, Graphql, ImportSetLoad, ImportSetLoadAll, ScriptRun, ScopeMoveFile,
   SessionLogin, SessionSwitch, DataImport, SeedApply, SeedCleanup}
SnuReaders ==
  {SnuQuery, SnuSchema, SnuAppMeta, SnuListTables, SnuGetRecord, SnuParentOptions, SnuFormState,
   SnuContextGet, SnuInstanceInfo, SnuWaitToken, SnuCheckConnection, SnuScreenshot,
   SnuBroker, SnuRestGet, SnuDeleteDryRun}
SnuChangers ==
  {SnuRestWrite, SnuPageAct, SnuContextSwitch, SnuAttachmentUpload, SnuCreate, SnuUpdate,
   SnuUpdateAwait, SnuDelete, SnuBulkDelete, SnuExecuteScript, SnuSlash, SnuTab}

\* The sorts of steps exclude or contain each other.
LEMMA Sorts == Quiet \cap Acting = {} /\ After \subseteq Quiet /\ Stoppable \subseteq Acting
BY DEF Quiet, Acting, After, Stoppable

\* The origin is resolved first.
LEMMA OriginFirst ==
  ASSUME NEW t \in Seq(Quiet \cup Acting)
  PROVE  /\ t \in Seq(Quiet) => <<Origin>> \o t \in Seq(Quiet)
         /\ Ordered(t) => Ordered(<<Origin>> \o t)
<1>1. <<Origin>> \in Seq(Quiet) /\ <<Origin>> \in Seq(Quiet \cup Acting) /\ Len(<<Origin>>) = 1
      /\ <<Origin>>[1] = Origin /\ Origin \notin Acting
  BY QuietSteps, Sorts
<1>2. t \in Seq(Quiet) => <<Origin>> \o t \in Seq(Quiet)
  BY <1>1, ConcatProperties
<1>3. ASSUME Ordered(t)
      PROVE  Ordered(<<Origin>> \o t)
  <2> DEFINE s == <<Origin>> \o t
  <2>1. /\ s \in Seq(Quiet \cup Acting) /\ Len(s) = 1 + Len(t)
        /\ \A i \in 1 .. Len(s) : s[i] = IF i <= 1 THEN Origin ELSE t[i - 1]
    BY <1>1, ConcatProperties
  <2> HIDE DEF s
  <2>2. DOMAIN s = 1 .. Len(s) /\ DOMAIN t = 1 .. Len(t) /\ Len(t) \in Nat
    BY <2>1, LenProperties
  <2>3. ASSUME NEW i \in DOMAIN s, NEW j \in DOMAIN s, i < j, s[i] \in Acting
        PROVE  s[j] \in After
    <3>1. i > 1 /\ s[i] = t[i - 1] /\ i - 1 \in DOMAIN t
      BY <1>1, <2>1, <2>2, <2>3
    <3>2. j - 1 \in DOMAIN t /\ i - 1 < j - 1 /\ s[j] = t[j - 1]
      BY <2>1, <2>2, <2>3, <3>1
    <3> QED BY <1>3, <2>3, <3>1, <3>2 DEF Ordered
  <2>4. Ordered(s)
    BY <2>1, <2>3 DEF Ordered
  <2> QED BY <2>4 DEF s
<1> QED BY <1>2, <1>3

\* Resolving the origin first leaves a command ordered.
LEMMA OriginOrdered == \A t : Ordered(t) => Ordered(<<Origin>> \o t)
BY OriginFirst DEF Ordered

\* The changes of the HTTP commands are stopped in a read-only process.
LEMMA StoppedSteps ==
  /\ Change \in Stoppable /\ LoadRows \in Stoppable /\ RunScript \in Stoppable
  /\ MoveFile \in Stoppable /\ Step("override", Refusals, Losses) \in Stoppable
  /\ Step("change", Refusals, Losses \cup {GraphqlFailed}) \in Stoppable
  /\ OpenSession \in Stoppable /\ PutContext \in Stoppable /\ CreateRecords \in Stoppable
  /\ CreateSeeds \in Stoppable /\ DeleteSeeds \in Stoppable
<1>1. \A F, L : /\ Step("change", F, L).kind = "change" /\ Step("partial", F, L).kind = "partial"
                /\ Step("override", F, L).kind = "override" /\ Step("several", F, L).kind = "several"
  BY DEF Step
<1>2. \A s \in Acting : s.kind \in {"change", "several", "partial", "override"} => s \in Stoppable
  BY DEF Stoppable
<1>3. /\ Change.kind = "change" /\ LoadRows.kind = "partial" /\ RunScript.kind = "change"
      /\ MoveFile.kind = "change" /\ PutContext.kind = "change" /\ CreateSeeds.kind = "change"
      /\ CreateRecords.kind = "partial" /\ OpenSession.kind = "several" /\ DeleteSeeds.kind = "several"
  BY <1>1 DEF Change, LoadRows, RunScript, MoveFile, PutContext, CreateSeeds, CreateRecords,
     OpenSession, DeleteSeeds
<1> QED BY <1>1, <1>2, <1>3, ChangingSteps

\* Commands over HTTP that only read.
LEMMA HttpReads == \A c \in HttpReaders : c.steps \in Seq(Quiet)
<1>1. /\ TableList.steps \in Seq(Quiet) /\ TableListDomain.steps \in Seq(Quiet)
      /\ TableGet.steps \in Seq(Quiet) /\ TableSchema.steps \in Seq(Quiet)
      /\ TableStats.steps \in Seq(Quiet) /\ DomainList.steps \in Seq(Quiet)
  BY QuietSteps DEF Command, TableList, TableListDomain, TableGet, TableSchema, TableStats, DomainList
<1>2. /\ DomainInspect.steps \in Seq(Quiet) /\ DomainTable.steps \in Seq(Quiet)
      /\ DomainStatus.steps \in Seq(Quiet) /\ ScopeList.steps \in Seq(Quiet)
      /\ ScopeInspect.steps \in Seq(Quiet) /\ ScopeInspectFull.steps \in Seq(Quiet)
  BY QuietSteps DEF Command, DomainInspect, DomainTable, DomainStatus, ScopeList, ScopeInspect,
     ScopeInspectFull
<1>3. /\ ScopeInventory.steps \in Seq(Quiet) /\ Codesearch.steps \in Seq(Quiet)
      /\ AttachmentList.steps \in Seq(Quiet) /\ AttachmentDownload.steps \in Seq(Quiet)
      /\ ApiGet.steps \in Seq(Quiet) /\ ImportSetTransform.steps \in Seq(Quiet)
  BY QuietSteps DEF Command, ScopeInventory, Codesearch, AttachmentList, AttachmentDownload, ApiGet,
     ImportSetTransform
<1>4. /\ ScopeMoveFileDryRun.steps \in Seq(Quiet) /\ NoCommand.steps \in Seq(Quiet)
  BY QuietSteps DEF Command, ScopeMoveFileDryRun, NoCommand
<1>5. /\ SessionShow.steps \in Seq(Quiet) /\ SessionOptions.steps \in Seq(Quiet)
      /\ SessionAttach.steps \in Seq(Quiet) /\ SessionForget.steps \in Seq(Quiet)
      /\ SessionSwitchCurrent.steps \in Seq(Quiet)
  BY QuietSteps DEF Command, SessionShow, SessionOptions, SessionAttach, SessionForget,
     SessionSwitchCurrent
<1>6. /\ DataExport.steps \in Seq(Quiet) /\ DataExportReady.steps \in Seq(Quiet)
      /\ DataExportPackage.steps \in Seq(Quiet) /\ DataValidate.steps \in Seq(Quiet)
      /\ DataImportDryRun.steps \in Seq(Quiet)
  BY QuietSteps DEF Command, DataExport, DataExportReady, DataExportPackage, DataValidate,
     DataImportDryRun
<1>7. /\ SeedPlan.steps \in Seq(Quiet) /\ SeedApplyDryRun.steps \in Seq(Quiet)
      /\ SeedCleanupDryRun.steps \in Seq(Quiet)
  BY QuietSteps DEF Command, SeedPlan, SeedApplyDryRun, SeedCleanupDryRun
<1> QED BY <1>1, <1>2, <1>3, <1>4, <1>5, <1>6, <1>7 DEF HttpReaders

\* Commands through the broker that only look.
LEMMA SnuReads == \A c \in SnuReaders : c.steps \in Seq(Quiet)
<1>1. /\ <<Connect, Look, Show>> \in Seq(Quiet)
      /\ <<Connect, Look, InstanceInfo, Show>> \in Seq(Quiet)
      /\ <<Connect, Show>> \in Seq(Quiet)
      /\ <<Target, Connect, Look, SaveImage, Show>> \in Seq(Quiet)
      /\ <<Local({Internal}), Look, Show>> \in Seq(Quiet)
      /\ <<RestPath, Connect, Look, Show>> \in Seq(Quiet)
  BY QuietSteps
<1>2. \A t \in Seq(Quiet) : <<Origin>> \o t \in Seq(Quiet)
  BY OriginFirst
<1>3. /\ SnuQuery.steps \in Seq(Quiet) /\ SnuSchema.steps \in Seq(Quiet)
      /\ SnuAppMeta.steps \in Seq(Quiet) /\ SnuListTables.steps \in Seq(Quiet)
      /\ SnuGetRecord.steps \in Seq(Quiet) /\ SnuParentOptions.steps \in Seq(Quiet)
  BY <1>1, <1>2 DEF SnuCommand, Command, SnuQuery, SnuSchema, SnuAppMeta, SnuListTables, SnuGetRecord,
     SnuParentOptions
<1>4. /\ SnuFormState.steps \in Seq(Quiet) /\ SnuContextGet.steps \in Seq(Quiet)
      /\ SnuInstanceInfo.steps \in Seq(Quiet) /\ SnuWaitToken.steps \in Seq(Quiet)
      /\ SnuCheckConnection.steps \in Seq(Quiet) /\ SnuScreenshot.steps \in Seq(Quiet)
  BY <1>1, <1>2 DEF SnuCommand, Command, SnuFormState, SnuContextGet, SnuInstanceInfo, SnuWaitToken,
     SnuCheckConnection, SnuScreenshot
<1>5. /\ SnuBroker.steps \in Seq(Quiet) /\ SnuRestGet.steps \in Seq(Quiet)
      /\ SnuDeleteDryRun.steps \in Seq(Quiet)
  BY <1>1, <1>2 DEF SnuCommand, Command, SnuBroker, SnuRestGet, SnuDeleteDryRun
<1> QED BY <1>3, <1>4, <1>5 DEF SnuReaders

\* Commands over HTTP that change the instance: a read-only process stops the change.
LEMMA HttpChanges ==
  \A c \in HttpChangers : Ordered(c.steps) /\ c.steps \in Seq(Quiet \cup Stoppable)
<1>1. Ordered(TableCreate.steps) /\ TableCreate.steps \in Seq(Quiet \cup Stoppable)
  <2>1. TableCreate.steps = <<Input, Valid, Client, Change, Show>>
    BY DEF TableCreate, Command
  <2> QED BY <2>1, QuietSteps, ChangingSteps, StoppedSteps, Sorts DEF Ordered
<1>2. Ordered(TableUpdate.steps) /\ TableUpdate.steps \in Seq(Quiet \cup Stoppable)
  <2>1. TableUpdate.steps = <<Input, Valid, Client, Change, Show>>
    BY DEF TableUpdate, Command
  <2> QED BY <2>1, QuietSteps, ChangingSteps, StoppedSteps, Sorts DEF Ordered
<1>3. Ordered(TableDelete.steps) /\ TableDelete.steps \in Seq(Quiet \cup Stoppable)
  <2>1. TableDelete.steps = <<Confirm, Client, Change, Show>>
    BY DEF TableDelete, Command
  <2> QED BY <2>1, QuietSteps, ChangingSteps, StoppedSteps, Sorts DEF Ordered
<1>4. Ordered(TableDeleteYes.steps) /\ TableDeleteYes.steps \in Seq(Quiet \cup Stoppable)
  <2>1. TableDeleteYes.steps = <<Client, Change, Show>>
    BY DEF TableDeleteYes, Command
  <2> QED BY <2>1, QuietSteps, ChangingSteps, StoppedSteps, Sorts DEF Ordered
<1>5. Ordered(AttachmentUpload.steps) /\ AttachmentUpload.steps \in Seq(Quiet \cup Stoppable)
  <2>1. AttachmentUpload.steps = <<UploadFile, Client, Change, UploadAnswer, Show>>
    BY DEF AttachmentUpload, Command
  <2> QED BY <2>1, QuietSteps, ChangingSteps, StoppedSteps, Sorts DEF Ordered
<1>6. Ordered(ApiGetOverride.steps) /\ ApiGetOverride.steps \in Seq(Quiet \cup Stoppable)
  <2>1. ApiGetOverride.steps = <<Headers, Client, Step("override", Refusals, Losses), ApiShow>>
    BY DEF ApiGetOverride, Command
  <2> QED BY <2>1, QuietSteps, ChangingSteps, StoppedSteps, Sorts DEF Ordered
<1>7. Ordered(ApiWrite.steps) /\ ApiWrite.steps \in Seq(Quiet \cup Stoppable)
  <2>1. ApiWrite.steps = <<ApiBody, Headers, Client, Change, ApiShow>>
    BY DEF ApiWrite, Command
  <2> QED BY <2>1, QuietSteps, ChangingSteps, StoppedSteps, Sorts DEF Ordered
<1>8. Ordered(ApiDelete.steps) /\ ApiDelete.steps \in Seq(Quiet \cup Stoppable)
  <2>1. ApiDelete.steps = <<Headers, Client, Change, ApiShow>>
    BY DEF ApiDelete, Command
  <2> QED BY <2>1, QuietSteps, ChangingSteps, StoppedSteps, Sorts DEF Ordered
<1>9. Ordered(Graphql.steps) /\ Graphql.steps \in Seq(Quiet \cup Stoppable)
  <2>1. Graphql.steps = <<Variables, Document, Client, Step("change", Refusals, Losses \cup {GraphqlFailed}), Show>>
    BY DEF Graphql, Command
  <2> QED BY <2>1, QuietSteps, ChangingSteps, StoppedSteps, Sorts DEF Ordered
<1>10. Ordered(ImportSetLoad.steps) /\ ImportSetLoad.steps \in Seq(Quiet \cup Stoppable)
  <2>1. ImportSetLoad.steps = <<NotCsv, Input, Valid, Client, LoadRows, Show, RowVerdict>>
    BY DEF ImportSetLoad, Command
  <2> QED BY <2>1, QuietSteps, ChangingSteps, StoppedSteps, Sorts DEF Ordered
<1>11. Ordered(ImportSetLoadAll.steps) /\ ImportSetLoadAll.steps \in Seq(Quiet \cup Stoppable)
  <2>1. ImportSetLoadAll.steps = <<NotCsv, Input, Valid, Client, LoadRows, Show>>
    BY DEF ImportSetLoadAll, Command
  <2> QED BY <2>1, QuietSteps, ChangingSteps, StoppedSteps, Sorts DEF Ordered
<1>12. Ordered(ScriptRun.steps) /\ ScriptRun.steps \in Seq(Quiet \cup Stoppable)
  <2>1. ScriptRun.steps = <<ScriptText, Client, FormScope, FormSession, RunScript, ScriptShow>>
    BY DEF ScriptRun, Command
  <2> QED BY <2>1, QuietSteps, ChangingSteps, StoppedSteps, Sorts DEF Ordered
<1>13. Ordered(ScopeMoveFile.steps) /\ ScopeMoveFile.steps \in Seq(Quiet \cup Stoppable)
  <2>1. ScopeMoveFile.steps = <<Client, FormSession, MoveFile, Show>>
    BY DEF ScopeMoveFile, Command
  <2> QED BY <2>1, QuietSteps, ChangingSteps, StoppedSteps, Sorts DEF Ordered
<1>14. Ordered(SessionLogin.steps) /\ SessionLogin.steps \in Seq(Quiet \cup Stoppable)
  <2>1. SessionLogin.steps = <<NativeProfile, LoginSecret, Client, OpenSession, StoreSession, Show>>
    BY DEF SessionLogin, Command
  <2> QED BY <2>1, QuietSteps, ChangingSteps, StoppedSteps, Sorts DEF Ordered
<1>15. Ordered(SessionSwitch.steps) /\ SessionSwitch.steps \in Seq(Quiet \cup Stoppable)
  <2>1. SessionSwitch.steps = <<NativeProfile, Client, Inspect, Options, OneCandidate, PutContext, Verify, Show>>
    BY DEF SessionSwitch, Command
  <2> QED BY <2>1, QuietSteps, ChangingSteps, StoppedSteps, Sorts DEF Ordered
<1>16. Ordered(DataImport.steps) /\ DataImport.steps \in Seq(Quiet \cup Stoppable)
  <2>1. DataImport.steps = <<ReadDataset, Client, Columns, Valid, Client, CreateRecords, Show, Tally>>
    BY DEF DataImport, Command
  <2> QED BY <2>1, QuietSteps, ChangingSteps, StoppedSteps, Sorts DEF Ordered
<1>17. Ordered(SeedApply.steps) /\ SeedApply.steps \in Seq(Quiet \cup Stoppable)
  <2>1. SeedApply.steps = <<SeedSpec, ConfirmSeed, Client, TrackingFile, CreateSeeds, Show>>
    BY DEF SeedApply, Command
  <2> QED BY <2>1, QuietSteps, ChangingSteps, StoppedSteps, Sorts DEF Ordered
<1>18. Ordered(SeedCleanup.steps) /\ SeedCleanup.steps \in Seq(Quiet \cup Stoppable)
  <2>1. SeedCleanup.steps = <<ConfirmSeed, TrackingFile, Client, DeleteSeeds, TrackingFile, Show>>
    BY DEF SeedCleanup, Command
  <2> QED BY <2>1, QuietSteps, ChangingSteps, StoppedSteps, Sorts DEF Ordered
<1> QED BY <1>1, <1>2, <1>3, <1>4, <1>5, <1>6, <1>7, <1>8, <1>9, <1>10, <1>11, <1>12, <1>13, <1>14,
           <1>15, <1>16, <1>17, <1>18 DEF HttpChangers

\* Commands through the broker that change the instance.
LEMMA SnuChanges == \A c \in SnuChangers : Ordered(c.steps)
<1>1. Ordered(SnuRestWrite.steps)
  <2>1. Ordered(<<RestBody, RestPath, Connect, Act, Show>>)
    BY QuietSteps, ChangingSteps, Sorts DEF Ordered
  <2> QED BY <2>1, OriginOrdered DEF SnuRestWrite, SnuCommand, Command
<1>2. Ordered(SnuPageAct.steps)
  <2>1. Ordered(<<Connect, Act, Show>>)
    BY QuietSteps, ChangingSteps, Sorts DEF Ordered
  <2> QED BY <2>1, OriginOrdered DEF SnuPageAct, SnuCommand, Command
<1>3. Ordered(SnuContextSwitch.steps)
  <2>1. Ordered(<<Connect, Act, Show>>)
    BY QuietSteps, ChangingSteps, Sorts DEF Ordered
  <2> QED BY <2>1, OriginOrdered DEF SnuContextSwitch, SnuCommand, Command
<1>4. Ordered(SnuAttachmentUpload.steps)
  <2>1. Ordered(<<Connect, ReadFile, Act, Show>>)
    BY QuietSteps, ChangingSteps, Sorts DEF Ordered
  <2> QED BY <2>1, OriginOrdered DEF SnuAttachmentUpload, SnuCommand, Command
<1>5. Ordered(SnuCreate.steps)
  <2>1. Ordered(<<SnuData, Connect, Act, CreateAnswer, Show>>)
    BY QuietSteps, ChangingSteps, Sorts DEF Ordered
  <2> QED BY <2>1, OriginOrdered DEF SnuCreate, SnuCommand, Command
<1>6. Ordered(SnuUpdate.steps)
  <2>1. Ordered(<<Fields, Connect, Mutation, Show>>)
    BY QuietSteps, ChangingSteps, Sorts DEF Ordered
  <2> QED BY <2>1, OriginOrdered DEF SnuUpdate, SnuCommand, Command
<1>7. Ordered(SnuUpdateAwait.steps)
  <2>1. Ordered(<<Fields, Connect, Mutation, Persisted, Show>>)
    BY QuietSteps, ChangingSteps, Sorts DEF Ordered
  <2> QED BY <2>1, OriginOrdered DEF SnuUpdateAwait, SnuCommand, Command
<1>8. Ordered(SnuDelete.steps)
  <2>1. Ordered(<<Connect, Mutation, Show>>)
    BY QuietSteps, ChangingSteps, Sorts DEF Ordered
  <2> QED BY <2>1, OriginOrdered DEF SnuDelete, SnuCommand, Command
<1>9. Ordered(SnuBulkDelete.steps)
  <2>1. Ordered(<<Connect, BulkChecks, Look, BulkMutation, Show>>)
    BY QuietSteps, ChangingSteps, Sorts DEF Ordered
  <2> QED BY <2>1, OriginOrdered DEF SnuBulkDelete, SnuCommand, Command
<1>10. Ordered(SnuExecuteScript.steps)
  <2>1. Ordered(<<SnuScript, Connect, RawScript, Verbatim>>)
    BY QuietSteps, ChangingSteps, Sorts DEF Ordered
  <2> QED BY <2>1, OriginOrdered DEF SnuExecuteScript, SnuCommand, Command
<1>11. Ordered(SnuSlash.steps) /\ Ordered(SnuTab.steps)
  <2>1. Ordered(<<Connect, Act, Show>>)
    BY QuietSteps, ChangingSteps, Sorts DEF Ordered
  <2> QED BY <2>1, OriginOrdered DEF SnuSlash, SnuTab, SnuCommand, Command
<1> QED BY <1>1, <1>2, <1>3, <1>4, <1>5, <1>6, <1>7, <1>8, <1>9, <1>10, <1>11 DEF SnuChangers

----------------------------------------------------------------------------
(* A process                                                               *)

Passed == Len(command.steps) - Len(left)
ChangesIn(steps, n) == {i \in 1 .. n : steps[i].kind \in Changing}

\* What a running process has changed is what its steps so far have, unless the
\* server reported less; and nothing is changed before a step that changes.
ProcessInv ==
  /\ pc \in {"start", "policy"} => changed = 0 /\ Passed = 0
  /\ pc # "start" => command \in Surface(entry)
  /\ pc = "run" => /\ short \/ changed = Cardinality(ChangesIn(command.steps, Passed))
                   /\ changed > 0 => ChangesIn(command.steps, Passed) # {}
                   /\ ReadOnly => command \notin ReadOnlyDenied

Process == ProcessTypeOK /\ ProcessInv /\ ReadOnlyKeepsInstance /\ OutcomeHonest

\* Every command is ordered; what the command table lets a read-only process run
\* drives a tab, or has no change but what its client stops; and snow-cli-ro has
\* no command that drives a tab.
LEMMA CommandKinds ==
  /\ \A c \in AllCommands : Ordered(c.steps)
  /\ \A c \in AllCommands \ (ReadOnlyDenied \cup DrivesTab) : c.steps \in Seq(Quiet \cup Stoppable)
  /\ \A c \in Surface("snow-cli-ro") : c \in AllCommands /\ c.steps \in Seq(Quiet \cup Stoppable)
<1>1. AllCommands \subseteq HttpReaders \cup HttpChangers \cup SnuReaders \cup SnuChangers
  BY DEF AllCommands, OverHttp, ThroughBroker, HttpReaders, HttpChangers, SnuReaders, SnuChangers
<1>2. SnuChangers \subseteq ReadOnlyDenied \cup DrivesTab
  BY DEF SnuChangers, ReadOnlyDenied, WritingSnu, DrivesTab
<1>3. \A t \in Seq(Quiet) : t \in Seq(Quiet \cup Acting) /\ t \in Seq(Quiet \cup Stoppable)
  OBVIOUS
<1>4. \A t \in Seq(Quiet) : \A i \in DOMAIN t : t[i] \in Quiet
  OBVIOUS
<1>5. \A t \in Seq(Quiet) : Ordered(t)
  BY <1>3, <1>4, Sorts DEF Ordered
<1>6. \A c \in HttpReaders \cup SnuReaders : c.steps \in Seq(Quiet)
  BY HttpReads, SnuReads
<1>7. RoHttp \cup RoSnu \subseteq AllCommands
  BY DEF RoHttp, RoSnu, AllCommands, OverHttp, ThroughBroker
<1>8. RoHttp \cup RoSnu \subseteq HttpReaders \cup HttpChangers \cup SnuReaders
  BY DEF RoHttp, RoSnu, HttpReaders, HttpChangers, SnuReaders
<1>9. \A c \in Surface("snow-cli-ro") : c \in AllCommands /\ c.steps \in Seq(Quiet \cup Stoppable)
  BY <1>3, <1>6, <1>7, <1>8, HttpChanges DEF Surface
<1> QED BY <1>1, <1>2, <1>3, <1>5, <1>6, <1>9, HttpChanges, SnuChanges

\* The command of a process is ordered.
LEMMA CommandShape ==
  ASSUME ProcessTypeOK
  PROVE  Ordered(command.steps) /\ Len(command.steps) \in Nat
<1>1. NoCommand.steps = <<>>
  BY DEF NoCommand, Command
<1>2. Ordered(<<>>)
  BY DEF Ordered
<1>3. Ordered(command.steps)
  BY <1>1, <1>2, CommandKinds DEF ProcessTypeOK
<1> QED BY <1>3 DEF Ordered

\* What is left of a command after its first n steps.
LeftAfter(n) == SubSeq(command.steps, n + 1, Len(command.steps))

\* What is left of a command are the steps after those that passed.
LEMMA WhatIsLeft ==
  ASSUME ProcessTypeOK
  PROVE  /\ Passed \in 0 .. Len(command.steps) /\ left = LeftAfter(Passed)
         /\ left \in Seq(Quiet \cup Acting) /\ Len(left) = Len(command.steps) - Passed
<1> DEFINE s == command.steps  m == Len(command.steps)
<1>1. s \in Seq(Quiet \cup Acting) /\ m \in Nat /\ Len(s) = m
  BY CommandShape DEF Ordered
<1>2. PICK n \in 0 .. m : left = SubSeq(s, n + 1, m)
  BY DEF ProcessTypeOK
<1> HIDE DEF s, m
<1>3. SubSeq(s, n + 1, m) \in Seq(Quiet \cup Acting) /\ Len(SubSeq(s, n + 1, m)) = m - n
  BY <1>1, <1>2, SubSeqProperties
<1>4. Passed = n
  BY <1>1, <1>2, <1>3 DEF Passed, m
<1> QED BY <1>1, <1>2, <1>3, <1>4 DEF LeftAfter, s, m

\* The next step, and what is left after it.
LEMMA NextStep ==
  ASSUME ProcessTypeOK, left # <<>>
  PROVE  /\ Passed \in Nat /\ Passed + 1 \in 1 .. Len(command.steps)
         /\ Head(left) = command.steps[Passed + 1] /\ Head(left) \in Quiet \cup Acting
         /\ Len(Tail(left)) = Len(command.steps) - (Passed + 1) /\ Tail(left) = LeftAfter(Passed + 1)
<1> DEFINE s == command.steps  m == Len(command.steps)
<1>1. s \in Seq(Quiet \cup Acting) /\ m \in Nat /\ Len(s) = m
  BY CommandShape DEF Ordered
<1>2. Passed \in 0 .. m /\ left = SubSeq(s, Passed + 1, m) /\ Len(left) = m - Passed
      /\ left \in Seq(Quiet \cup Acting)
  BY WhatIsLeft DEF LeftAfter
<1> HIDE DEF s, m
<1>3. Passed + 1 \in 1 .. m
  BY <1>1, <1>2
<1>4. Head(left) = s[Passed + 1] /\ Tail(left) = SubSeq(s, Passed + 2, m)
  BY <1>1, <1>2, <1>3
<1>5. Len(Tail(left)) = m - (Passed + 1)
  BY <1>1, <1>2, <1>3
<1>6. s[Passed + 1] \in Quiet \cup Acting
  BY <1>1, <1>3
<1> QED BY <1>2, <1>3, <1>4, <1>5, <1>6 DEF LeftAfter, s, m

\* The places of a sequence of n elements are n.
LEMMA Interval ==
  ASSUME NEW n \in Nat
  PROVE  IsFiniteSet(1 .. n) /\ Cardinality(1 .. n) = n
<1>1. 1 \in Int /\ n \in Int
  OBVIOUS
<1>2. IsFiniteSet(1 .. n) /\ Cardinality(1 .. n) = IF 1 > n THEN 0 ELSE n - 1 + 1
  BY <1>1, FS_Interval
<1>3. (IF 1 > n THEN 0 ELSE n - 1 + 1) = n
  OBVIOUS
<1> QED BY <1>2, <1>3

\* The changes among the first n + 1 steps.
LEMMA CountChanges ==
  ASSUME NEW steps, NEW n \in Nat
  PROVE  /\ ChangesIn(steps, 0) = {} /\ Cardinality(ChangesIn(steps, 0)) = 0
         /\ Cardinality(ChangesIn(steps, n)) \in Nat
         /\ steps[n + 1].kind \in Changing =>
              /\ ChangesIn(steps, n + 1) # {}
              /\ Cardinality(ChangesIn(steps, n + 1)) = Cardinality(ChangesIn(steps, n)) + 1
         /\ steps[n + 1].kind \notin Changing => ChangesIn(steps, n + 1) = ChangesIn(steps, n)
<1>1. ChangesIn(steps, 0) = {} /\ Cardinality({}) = 0
  BY FS_EmptySet DEF ChangesIn
<1>2. IsFiniteSet(1 .. n)
  BY Interval
<1>3. IsFiniteSet(ChangesIn(steps, n))
  BY <1>2, FS_Subset DEF ChangesIn
<1>4. Cardinality(ChangesIn(steps, n)) \in Nat
  BY <1>3, FS_CardinalityType
<1>5. n + 1 \notin ChangesIn(steps, n)
  BY DEF ChangesIn
<1>6. 1 .. n + 1 = (1 .. n) \cup {n + 1}
  OBVIOUS
<1>7. ASSUME steps[n + 1].kind \in Changing
      PROVE  ChangesIn(steps, n + 1) = ChangesIn(steps, n) \cup {n + 1}
  BY <1>6, <1>7 DEF ChangesIn
<1>8. Cardinality(ChangesIn(steps, n) \cup {n + 1}) = Cardinality(ChangesIn(steps, n)) + 1
  BY <1>3, <1>5, FS_AddElement
<1>9. ASSUME steps[n + 1].kind \notin Changing
      PROVE  ChangesIn(steps, n + 1) = ChangesIn(steps, n)
  BY <1>6, <1>9 DEF ChangesIn
<1> QED BY <1>1, <1>4, <1>7, <1>8, <1>9

\* After a change, the next step changes nothing and fails accordingly.
LEMMA AfterChange ==
  ASSUME ProcessTypeOK, left # <<>>, ChangesIn(command.steps, Passed) # {}
  PROVE  Head(left) \in After
<1>1. PICK i \in 1 .. Passed : command.steps[i].kind \in Changing
  BY DEF ChangesIn
<1>2. Ordered(command.steps) /\ Len(command.steps) \in Nat
      /\ DOMAIN command.steps = 1 .. Len(command.steps)
  BY CommandShape, LenProperties DEF Ordered
<1>3. Passed \in Nat /\ Passed + 1 \in 1 .. Len(command.steps) /\ Head(left) = command.steps[Passed + 1]
  BY NextStep
<1>4. i \in DOMAIN command.steps /\ Passed + 1 \in DOMAIN command.steps /\ i < Passed + 1
  BY <1>1, <1>2, <1>3
<1>5. command.steps[i] \in Quiet \cup Acting
  BY <1>2, <1>4 DEF Ordered
<1>6. command.steps[i] \in Acting
  BY <1>1, <1>5 DEF Quiet
<1> QED BY <1>2, <1>3, <1>4, <1>6 DEF Ordered

\* What a process may change: in read-only mode, what it does through a tab.
MayChange == ReadOnly => entry = "snow-cli --read-only" /\ command \in DrivesTab
KeepsInstance == changed = 0 \/ MayChange

\* The read-only property, by what a process may change.
LEMMA KeepsInstanceIs == ReadOnlyKeepsInstance <=> KeepsInstance
BY DEF ReadOnlyKeepsInstance, KeepsInstance, MayChange

\* A process that gets past a change may change something.
LEMMA PastChange ==
  ASSUME ProcessTypeOK, ProcessInv, At(Changing), ~Stopped(Head(left))
  PROVE  MayChange
<1> SUFFICES ASSUME ReadOnly PROVE entry = "snow-cli --read-only" /\ command \in DrivesTab
  BY DEF MayChange
<1>1. /\ command \in Surface(entry) /\ command \notin ReadOnlyDenied /\ left # <<>>
      /\ Head(left).kind \in Changing /\ entry \in {"snow-cli --read-only", "snow-cli-ro"}
  BY DEF ProcessTypeOK, ProcessInv, At, ReadOnly, Entries
<1>2. ~(command.steps \in Seq(Quiet \cup Stoppable))
  <2> SUFFICES ASSUME command.steps \in Seq(Quiet \cup Stoppable) PROVE FALSE
    OBVIOUS
  <2>1. Head(left) \in Quiet \cup Stoppable
    <3>1. Passed + 1 \in 1 .. Len(command.steps) /\ Head(left) = command.steps[Passed + 1]
      BY <1>1, NextStep
    <3>2. \A t \in Seq(Quiet \cup Stoppable) : \A i \in 1 .. Len(t) : t[i] \in Quiet \cup Stoppable
      OBVIOUS
    <3> QED BY <3>1, <3>2
  <2>2. Head(left).kind \in {"change", "several", "partial", "override"}
    BY <1>1, <2>1 DEF Quiet, Stoppable
  <2> QED BY <2>2 DEF Stopped
<1>3. CASE entry = "snow-cli-ro"
  BY <1>1, <1>2, <1>3, CommandKinds
<1>4. CASE entry = "snow-cli --read-only"
  <2>1. command \in AllCommands
    BY <1>1, <1>4 DEF Surface
  <2> QED BY <1>1, <1>2, <1>4, <2>1, CommandKinds
<1> QED BY <1>1, <1>3, <1>4

\* Nothing was changed before a step that changes.
LEMMA ChangesLast ==
  ASSUME ProcessTypeOK, ProcessInv, pc = "run", left # <<>>, Head(left).kind \in Changing
  PROVE  changed = 0
<1>1. ChangesIn(command.steps, Passed) = {}
  BY AfterChange DEF After, Quiet
<1> QED BY <1>1 DEF ProcessInv, ProcessTypeOK

\* A step that goes on: it changes nothing, changes something, or some of it.
LEMMA GoesOn ==
  ASSUME Process, pc = "run", left # <<>>, Advance,
         \/ Head(left).kind \notin Changing /\ changed' = changed /\ short' = short
         \/ /\ Head(left).kind \in Changing /\ ~Stopped(Head(left))
            /\ \/ changed' = changed + 1 /\ short' = short
               \/ changed' \in {changed, changed + 1} /\ short' = TRUE
  PROVE  Process'
<1> USE DEF Process
<1>1. /\ Passed \in Nat /\ Passed + 1 \in 1 .. Len(command.steps)
      /\ Head(left) = command.steps[Passed + 1] /\ Head(left) \in Quiet \cup Acting
      /\ Len(Tail(left)) = Len(command.steps) - (Passed + 1) /\ Tail(left) = LeftAfter(Passed + 1)
      /\ Len(command.steps) \in Nat
  BY NextStep, CommandShape
<1>2. UNCHANGED <<pc, entry, command, result>> /\ left' = Tail(left)
  BY DEF Advance
<1>3. Passed' = Passed + 1
  BY <1>1, <1>2 DEF Passed
<1>4. changed \in Nat /\ changed' \in Nat /\ short \in BOOLEAN /\ short' \in BOOLEAN
  <2>1. changed \in Nat /\ short \in BOOLEAN
    BY DEF ProcessTypeOK
  <2>2. changed' \in Nat
    BY <2>1
  <2>3. short' \in {short, TRUE}
    OBVIOUS
  <2> QED BY <2>1, <2>2, <2>3, Zenon
<1>5. ProcessTypeOK'
  <2>1. Passed + 1 \in 0 .. Len(command'.steps)
        /\ left' = SubSeq(command'.steps, (Passed + 1) + 1, Len(command'.steps))
    <3>1. Passed + 1 \in 0 .. Len(command.steps)
      BY <1>1
    <3>2. left' = SubSeq(command.steps, (Passed + 1) + 1, Len(command.steps))
      BY <1>1, <1>2, Zenon DEF LeftAfter
    <3> QED BY <1>2, <3>1, <3>2
  <2>2. /\ pc \in {"start", "policy", "run", "ended"} /\ entry \in Entries
        /\ command \in AllCommands \cup {NoCommand}
        /\ IF pc = "ended" THEN result \in Errors ELSE result = Running
    BY DEF ProcessTypeOK
  <2> QED BY <1>2, <1>4, <2>1, <2>2 DEF ProcessTypeOK
<1>6. ReadOnlyKeepsInstance'
  <2>1. MayChange' <=> MayChange
    BY <1>2 DEF MayChange, ReadOnly
  <2>2. changed' = changed \/ MayChange
    BY PastChange DEF At
  <2>3. KeepsInstance
    BY KeepsInstanceIs
  <2>4. KeepsInstance'
    BY <2>1, <2>2, <2>3 DEF KeepsInstance
  <2> QED BY <2>4 DEF ReadOnlyKeepsInstance, KeepsInstance, MayChange
<1>7. OutcomeHonest'
  BY <1>2 DEF OutcomeHonest
<1>8. /\ short' \/ changed' = Cardinality(ChangesIn(command'.steps, Passed'))
      /\ changed' > 0 => ChangesIn(command'.steps, Passed') # {}
  <2>1. ChangesIn(command'.steps, Passed') = ChangesIn(command.steps, Passed + 1)
    BY <1>2, <1>3
  <2>2. /\ short \/ changed = Cardinality(ChangesIn(command.steps, Passed))
        /\ changed > 0 => ChangesIn(command.steps, Passed) # {}
    BY DEF ProcessInv
  <2>3. CASE Head(left).kind \notin Changing
    <3>1. ChangesIn(command.steps, Passed + 1) = ChangesIn(command.steps, Passed)
      BY <1>1, <2>3, CountChanges
    <3> QED BY <2>1, <2>2, <2>3, <3>1
  <2>4. CASE Head(left).kind \in Changing
    <3>1. /\ ChangesIn(command.steps, Passed + 1) # {}
          /\ Cardinality(ChangesIn(command.steps, Passed + 1))
               = Cardinality(ChangesIn(command.steps, Passed)) + 1
      BY <1>1, <2>4, CountChanges
    <3> QED BY <1>4, <2>1, <2>2, <2>4, <3>1
  <2> QED BY <2>3, <2>4
<1>9. ProcessInv'
  BY <1>2, <1>8 DEF ProcessInv, ReadOnly
<1> QED BY <1>5, <1>6, <1>7, <1>9

\* The process ends with an error that may be printed now.
LEMMA EndsWell ==
  ASSUME Process, NEW e \in Errors, pc # "start", pc # "ended", End(e),
         changed' \in Nat, changed' = 0 \/ MayChange,
         e.retry = "never" /\ e # InvalidJson /\ ~SeveralRequests => changed' = 0,
         e = Success =>
           short \/ changed' = Cardinality({i \in DOMAIN command.steps : command.steps[i].kind \in Changing})
  PROVE  Process'
<1> USE DEF Process
<1>1. pc' = "ended" /\ result' = e /\ UNCHANGED <<entry, command, left, short>>
  BY DEF End
<1>2. ProcessTypeOK'
  BY <1>1 DEF ProcessTypeOK
<1>3. ProcessInv'
  BY <1>1 DEF ProcessInv
<1>4. ReadOnlyKeepsInstance'
  BY <1>1 DEF ReadOnlyKeepsInstance, ReadOnly, MayChange
<1>5. OutcomeHonest'
  BY <1>1 DEF OutcomeHonest, SeveralRequests
<1> QED BY <1>2, <1>3, <1>4, <1>5

\* The errors a process may end with.
LEMMA Ends ==
  /\ \A e \in Failures : e \in Errors /\ e # Success
  /\ \A e \in Late : e \in Failures /\ (e.retry = "never" => e = InvalidJson)
  /\ Denied \in Errors /\ Denied # Success /\ ConfigBad \in Errors /\ ConfigBad # Success
  /\ Declined \in Errors /\ Declined # Success /\ Declined.retry # "never" /\ Success \in Errors
  /\ Success.retry # "never"
<1>1. Success.exit = 0 /\ Denied.exit # 0 /\ ConfigBad.exit # 0
  BY DEF Success, Denied, ConfigBad, Error
<1>2. Declined # Success /\ Declined.retry # "never" /\ Success.retry # "never"
  BY DEF Declined, Success, Error
<1> QED BY <1>1, <1>2 DEF Failures, Late, Errors

\* A step fails, and what was changed before allows the error.
LEMMA FailsWell ==
  ASSUME Process, pc = "run", left # <<>>, NEW e \in Head(left).fails, End(e), UNCHANGED changed
  PROVE  Process'
<1> USE DEF Process
<1>1. Head(left) \in Quiet \cup Acting
  BY NextStep
<1>2. e \in Failures
  BY <1>1 DEF Quiet, Acting, StepRecord
<1>3. changed \in Nat
  BY DEF ProcessTypeOK
<1>4. changed > 0 => e \in Late
  BY AfterChange DEF ProcessInv, After
<1>5. e \in Errors /\ e # Success /\ (e \in Late /\ e.retry = "never" => e = InvalidJson)
  BY <1>2, Ends
<1>6. changed' = 0 \/ MayChange
  BY KeepsInstanceIs DEF KeepsInstance
<1>7. e.retry = "never" /\ e # InvalidJson => changed' = 0
  BY <1>3, <1>4, <1>5
<1> HIDE DEF Process
<1> QED BY <1>3, <1>5, <1>6, <1>7, EndsWell

\* The process invariant holds at the start.
LEMMA InitProcess == Init => Process
<1> SUFFICES ASSUME Init PROVE Process
  OBVIOUS
<1> USE DEF Init
<1>1. command.steps = <<>> /\ Len(command.steps) = 0 /\ Len(left) = 0
      /\ left = SubSeq(command.steps, 0 + 1, Len(command.steps))
  <2>1. command.steps = <<>>
    BY DEF NoCommand, Command
  <2>2. SubSeq(<<>>, 0 + 1, 0) = <<>> /\ Len(<<>>) = 0
    OBVIOUS
  <2> QED BY <2>1, <2>2
<1>2. ProcessTypeOK
  <2>1. \E n \in 0 .. Len(command.steps) : left = SubSeq(command.steps, n + 1, Len(command.steps))
    <3> WITNESS 0 \in 0 .. Len(command.steps)
    <3> QED BY <1>1
  <2>2. /\ pc \in {"start", "policy", "run", "ended"} /\ entry \in Entries
        /\ command \in AllCommands \cup {NoCommand} /\ changed \in Nat /\ short \in BOOLEAN
        /\ IF pc = "ended" THEN result \in Errors ELSE result = Running
    BY DEF Entries
  <2> QED BY <2>1, <2>2 DEF ProcessTypeOK
<1>3. ProcessInv
  BY <1>1 DEF ProcessInv, Passed
<1> QED BY <1>2, <1>3 DEF Process, ReadOnlyKeepsInstance, OutcomeHonest

\* A parsed command has all its steps before it.
LEMMA ParseKeeps ==
  ASSUME Process, Parse
  PROVE  Process'
<1>1. PICK e \in Entries : entry' = e /\ command' \in Surface(e)
  BY DEF Parse
<1>2. /\ pc = "start" /\ left' = command'.steps /\ pc' = "policy"
      /\ UNCHANGED <<changed, short, result>>
  BY DEF Parse
<1>4. command' \in AllCommands
  BY <1>1, CommandKinds DEF Surface
<1>5. command'.steps \in Seq(Quiet \cup Acting) /\ Len(command'.steps) \in Nat
  BY <1>4, CommandKinds DEF Ordered
<1>6. left' = SubSeq(command'.steps, 0 + 1, Len(command'.steps)) /\ 0 \in 0 .. Len(command'.steps)
  BY <1>2, <1>5, SubSeqFull
<1>7. changed = 0
  BY <1>2 DEF Process, ProcessInv
<1>8. ProcessTypeOK'
  BY <1>1, <1>2, <1>4, <1>6 DEF Process, ProcessTypeOK
<1>9. ProcessInv'
  BY <1>1, <1>2, <1>4, <1>5, <1>7 DEF ProcessInv, Passed
<1> QED BY <1>2, <1>7, <1>8, <1>9 DEF Process, ReadOnlyKeepsInstance, OutcomeHonest

\* Nothing is changed before a command runs.
LEMMA PolicyKeeps ==
  ASSUME Process, PolicyDenies \/ NoConfig \/ Dispatch
  PROVE  Process'
<1>1. pc = "policy" /\ changed = 0 /\ UNCHANGED changed /\ Passed = 0
  BY DEF PolicyDenies, NoConfig, Dispatch, Process, ProcessInv
<1>2. changed' \in Nat /\ changed' = 0 /\ pc # "start" /\ pc # "ended"
  BY <1>1
<1>3. CASE PolicyDenies
  <2>1. End(Denied)
    BY <1>3 DEF PolicyDenies
  <2> QED BY <1>2, <2>1, Ends, EndsWell
<1>4. CASE NoConfig
  <2>1. End(ConfigBad)
    BY <1>4 DEF NoConfig
  <2> QED BY <1>2, <2>1, Ends, EndsWell
<1>5. CASE Dispatch
  <2>1. pc' = "run" /\ UNCHANGED <<entry, command, left, short, result>>
        /\ ~(ReadOnly /\ command \in ReadOnlyDenied)
    BY <1>5 DEF Dispatch
  <2>2. ProcessTypeOK'
    BY <1>1, <2>1 DEF Process, ProcessTypeOK
  <2>3. ProcessInv'
    BY <1>1, <2>1, CountChanges DEF Process, ProcessInv, Passed, ReadOnly
  <2> QED
    BY <1>1, <2>1, <2>2, <2>3 DEF Process, ReadOnlyKeepsInstance, OutcomeHonest, ReadOnly
<1> QED BY <1>3, <1>4, <1>5

\* Every way to finish a step of a command keeps the process invariant.
LEMMA StepKeeps ==
  ASSUME Process, Pass \/ CarriedOut \/ PartlyCarriedOut \/ EndList \/ EndScan
  PROVE  Process'
<1>1. pc = "run" /\ left # <<>> /\ Advance
  BY DEF Pass, CarriedOut, PartlyCarriedOut, EndList, EndScan, At
<1>2. CASE Pass
  <2>1. Head(left).kind \notin Changing
    BY <1>2 DEF Pass, At, Unchanging, Changing
  <2> QED BY <1>1, <1>2, <2>1, GoesOn DEF Pass
<1>3. CASE CarriedOut
  BY <1>1, <1>3, GoesOn DEF CarriedOut, At
<1>4. CASE PartlyCarriedOut
  <2>1. Head(left).kind \in Changing
    BY <1>4 DEF PartlyCarriedOut, At, Changing
  <2> QED BY <1>1, <1>4, <2>1, GoesOn DEF PartlyCarriedOut
<1>5. CASE EndList
  <2>1. Head(left).kind \notin Changing
    BY <1>5 DEF EndList, At, Changing
  <2> QED BY <1>1, <1>5, <2>1, GoesOn DEF EndList
<1>6. CASE EndScan
  <2>1. Head(left).kind \notin Changing
    BY <1>6 DEF EndScan, At, Changing
  <2> QED BY <1>1, <1>6, <2>1, GoesOn DEF EndScan
<1> QED BY <1>2, <1>3, <1>4, <1>5, <1>6

\* Every way to end a running process keeps the process invariant.
LEMMA EndKeeps ==
  ASSUME Process, Fail \/ FailList \/ Decline \/ RequestDenied \/ AnswerLost \/ Finish
  PROVE  Process'
<1>1. pc = "run" /\ changed \in Nat
  BY DEF Fail, FailList, Decline, RequestDenied, AnswerLost, Finish, At, Process, ProcessTypeOK
<1>2. CASE Fail
  BY <1>1, <1>2, FailsWell DEF Fail, At
<1>3. CASE FailList
  BY <1>1, <1>3, FailsWell DEF FailList, At
<1>4. CASE Decline
  BY <1>1, <1>4, Ends, EndsWell DEF Decline, Process, ReadOnlyKeepsInstance, MayChange
<1>5. CASE RequestDenied
  <2>1. At(Changing) /\ End(Denied) /\ UNCHANGED changed
    BY <1>5 DEF RequestDenied
  <2>2. changed = 0
    BY <1>1, <2>1, ChangesLast DEF Process, At
  <2> QED BY <1>1, <2>1, <2>2, Ends, EndsWell
<1>6. CASE AnswerLost
  <2>1. left # <<>> /\ Head(left).kind \in Changing /\ ~Stopped(Head(left)) /\ At(Changing)
        /\ changed' \in {changed, changed + 1}
    BY <1>6 DEF AnswerLost, At
  <2>2. PICK e \in Head(left).loses : End(e)
    BY <1>6 DEF AnswerLost
  <2>3. Head(left) \in Acting
    BY <2>1, NextStep DEF Process, Quiet
  <2>4. e \in Failures /\ (e \in Late \/ SeveralRequests)
    <3>1. e \in Failures /\ (e \in Late \/ Head(left).kind = "several")
      BY <2>2, <2>3 DEF Acting, StepRecord, Late
    <3>2. /\ Passed + 1 \in 1 .. Len(command.steps) /\ Head(left) = command.steps[Passed + 1]
          /\ command.steps \in Seq(Quiet \cup Acting)
      BY <2>1, NextStep, CommandShape DEF Process, Ordered
    <3>3. Passed + 1 \in DOMAIN command.steps
      BY <3>2, LenProperties
    <3> QED BY <3>1, <3>2, <3>3 DEF SeveralRequests
  <2>5. /\ e \in Errors /\ e # Success
        /\ e.retry = "never" /\ e # InvalidJson => SeveralRequests
    BY <2>4, Ends
  <2>6. MayChange
    BY <2>1, PastChange DEF Process
  <2>7. changed' \in Nat /\ pc # "start" /\ pc # "ended"
    BY <1>1, <2>1
  <2> QED BY <2>2, <2>5, <2>6, <2>7, EndsWell
<1>7. CASE Finish
  <2>1. left = <<>> /\ End(Success) /\ UNCHANGED changed
    BY <1>7 DEF Finish
  <2>2. Len(command.steps) \in Nat /\ DOMAIN command.steps = 1 .. Len(command.steps)
    BY CommandShape, LenProperties DEF Process, Ordered
  <2>3. Passed = Len(command.steps)
    BY <2>1, <2>2 DEF Passed
  <2>4. ChangesIn(command.steps, Passed) = {i \in DOMAIN command.steps : command.steps[i].kind \in Changing}
    BY <2>2, <2>3 DEF ChangesIn
  <2>5. short \/ changed' = Cardinality({i \in DOMAIN command.steps : command.steps[i].kind \in Changing})
    BY <1>1, <2>1, <2>4 DEF Process, ProcessInv
  <2>6. changed' = 0 \/ MayChange
    BY <2>1, KeepsInstanceIs DEF Process, KeepsInstance
  <2> QED BY <1>1, <2>1, <2>5, <2>6, Ends, EndsWell
<1> QED BY <1>2, <1>3, <1>4, <1>5, <1>6, <1>7

\* The process invariant is inductive.
LEMMA ProcessStep == Process /\ [Next]_vars => Process'
<1> SUFFICES ASSUME Process, [Next]_vars
             PROVE  Process'
  OBVIOUS
<1>1. ASSUME UNCHANGED procVars
      PROVE  Process'
  BY <1>1 DEF procVars, Process, ProcessTypeOK, ProcessInv, Passed, ReadOnlyKeepsInstance, OutcomeHonest,
     ReadOnly, SeveralRequests
<1>2. CASE StartList \/ StartScan \/ (ListNext /\ UNCHANGED procVars) \/ UNCHANGED vars
  BY <1>1, <1>2 DEF StartList, StartScan, vars, procVars
<1> QED BY <1>2, ParseKeeps, PolicyKeeps, StepKeeps, EndKeeps DEF Next

----------------------------------------------------------------------------
(* A listing                                                               *)

\* Rows at positions from i on, and up to i, of a sequence.
From(s, i) == {s[k] : k \in i .. Len(s)}
Between(s, i, j) == {s[k] : k \in i .. j}

\* A page is asked for while the limit is not reached.
Sized ==
  read.pc = "page" /\ read.limit # Unlimited =>
    IF read.limit = 0 THEN read.records = <<>> ELSE Len(read.records) < read.limit

FirstPage ==
  read.pc = "page" =>
    /\ read.offset >= read.start
    /\ read.offset = read.start => read.records = <<>> /\ read.total = Unknown
    /\ read.offset > read.start /\ found.counted => read.total # Unknown

\* A row was read once, and what was read matched at the first page.
Fresh ==
  changes.added = 0 =>
    /\ read.pc = "page" => IsInjective(found.rows)
    /\ read.pc \in {"page", "done"} =>
         IsInjective(read.records) /\ ToSet(read.records) \subseteq read.seen

\* What is still to be asked for was not read, and matched at the first page.
AheadUnread ==
  changes.added = 0 /\ read.pc = "page" /\ read.offset > read.start =>
    From(found.rows, read.offset + 1) \subseteq read.seen \ ToSet(read.records)

\* The total of the first page bounds what matched.
TotalBounds ==
  read.pc \in {"page", "done"} /\ read.total # Unknown =>
    /\ IsFiniteSet(read.seen)
    /\ Cardinality(read.seen) <= IF read.total > read.start THEN read.total - read.start ELSE 0

\* Where nobody changes or hides anything, the rows so far are read.
NothingChanged == changes.added = 0 /\ changes.deleted = 0 /\ found.hidden = {}
Contiguous ==
  NothingChanged /\ read.pc = "page" /\ read.offset > read.start =>
    /\ read.offset <= Len(found.rows)
    /\ read.seen = From(found.rows, read.start + 1)
    /\ Between(found.rows, read.start + 1, read.offset) \subseteq ToSet(read.records)
ReadAll == NothingChanged /\ read.pc = "done" /\ ~read.more => Complete

\* A query of the inventory runs for a table that is left.
QueryLeft == scan.pc = "reading" => scan.groups # <<>>

ReadInv == Sized /\ FirstPage /\ Fresh /\ AheadUnread /\ TotalBounds /\ Contiguous /\ ReadAll
Lists == ListTypeOK /\ ReadInv /\ QueryLeft

\* The elements of a part of a sequence.
LEMMA PartOf ==
  ASSUME NEW S, NEW s \in Seq(S), NEW a \in Nat, NEW b \in Nat, a <= b, b <= Len(s)
  PROVE  /\ SubSeq(s, a + 1, b) \in Seq(S) /\ Len(SubSeq(s, a + 1, b)) = b - a
         /\ \A k \in 1 .. b - a : SubSeq(s, a + 1, b)[k] = s[a + k]
<1>1. /\ a + 1 \in Int /\ b \in Int /\ b - (a + 1) + 1 = b - a
      /\ \A k \in 1 .. b - a : (a + 1) + k - 1 = a + k
      /\ a + 1 <= b \/ b - a = 0
  OBVIOUS
<1>2. \A i \in a + 1 .. b : s[i] \in S
  OBVIOUS
<1>3. /\ SubSeq(s, a + 1, b) \in Seq(S)
      /\ Len(SubSeq(s, a + 1, b)) = IF a + 1 <= b THEN b - (a + 1) + 1 ELSE 0
      /\ \A k \in 1 .. b - (a + 1) + 1 : SubSeq(s, a + 1, b)[k] = s[(a + 1) + k - 1]
  BY <1>1, <1>2, SubSeqProperties
<1> QED BY <1>1, <1>3

\* The number of distinct elements of a sequence.
LEMMA Elements ==
  ASSUME NEW S, NEW t \in Seq(S)
  PROVE  /\ IsFiniteSet(ToSet(t)) /\ Cardinality(ToSet(t)) \in Nat
         /\ Cardinality(ToSet(t)) <= Len(t)
         /\ IsInjective(t) => Cardinality(ToSet(t)) = Len(t)
         /\ ToSet(t) \subseteq S
<1>1. Len(t) \in Nat /\ DOMAIN t = 1 .. Len(t) /\ t \in [1 .. Len(t) -> S]
  BY LenProperties
<1>2. IsFiniteSet(1 .. Len(t)) /\ Cardinality(1 .. Len(t)) = Len(t)
  BY <1>1, Interval
<1>3. t \in [1 .. Len(t) -> ToSet(t)]
  BY <1>1 DEF ToSet
<1>4. t \in Surjection(1 .. Len(t), ToSet(t))
  BY <1>1, <1>3 DEF Surjection, ToSet
<1>5. /\ IsFiniteSet(ToSet(t)) /\ Cardinality(ToSet(t)) <= Cardinality(1 .. Len(t))
      /\ Cardinality(ToSet(t)) = Cardinality(1 .. Len(t)) <=> t \in Injection(1 .. Len(t), ToSet(t))
  BY <1>2, <1>4, FS_Surjection
<1>6. IsInjective(t) => t \in Injection(1 .. Len(t), ToSet(t))
  BY <1>1, <1>3 DEF Injection, IsInjective
<1>7. Cardinality(ToSet(t)) \in Nat
  BY <1>5, FS_CardinalityType
<1>8. ToSet(t) \subseteq S
  BY <1>1 DEF ToSet
<1> QED BY <1>2, <1>5, <1>6, <1>7, <1>8

Kept(rows, hidden) == {i \in DOMAIN rows : rows[i] \notin hidden}
Place(kept, i) == Cardinality({j \in kept : j <= i})

\* The places of the elements of a set of positions are 1, 2, ...
LEMMA Places ==
  ASSUME NEW n \in Nat, NEW kept \in SUBSET (1 .. n)
  PROVE  /\ IsFiniteSet(kept) /\ Cardinality(kept) \in Nat /\ Cardinality(kept) <= n
         /\ \A i \in kept : Place(kept, i) \in 1 .. Cardinality(kept)
         /\ \A i, j \in kept : Place(kept, i) = Place(kept, j) => i = j
         /\ \A k \in 1 .. Cardinality(kept) : \E i \in kept : Place(kept, i) = k
<1> DEFINE upTo(i) == {j \in kept : j <= i}
<1>1. IsFiniteSet(1 .. n) /\ Cardinality(1 .. n) = n
  BY Interval
<1>2. IsFiniteSet(kept) /\ Cardinality(kept) <= n /\ Cardinality(kept) \in Nat
  BY <1>1, FS_Subset, FS_CardinalityType
<1>3. ASSUME NEW T \in SUBSET kept
      PROVE  IsFiniteSet(T) /\ Cardinality(T) \in Nat /\ Cardinality(T) <= Cardinality(kept)
  BY <1>2, FS_Subset, FS_CardinalityType
<1>4. ASSUME NEW i \in kept
      PROVE  Place(kept, i) \in 1 .. Cardinality(kept)
  <2>1. upTo(i) \in SUBSET kept /\ i \in upTo(i) /\ i \in Int
    OBVIOUS
  <2>2. IsFiniteSet(upTo(i)) /\ Cardinality(upTo(i)) \in Nat /\ Cardinality(upTo(i)) <= Cardinality(kept)
    BY <2>1, <1>3
  <2>3. Cardinality(upTo(i)) # 0
    BY <2>1, <2>2, FS_EmptySet
  <2> QED BY <1>2, <2>2, <2>3 DEF Place
<1>5. ASSUME NEW i \in kept, NEW j \in kept, i < j
      PROVE  Place(kept, i) < Place(kept, j)
  <2>1. i \in Int /\ j \in Int /\ \A k \in kept : k \in Int
    OBVIOUS
  <2>2. upTo(i) \in SUBSET kept /\ upTo(j) \in SUBSET kept
    OBVIOUS
  <2>3. j \in upTo(j)
    BY <2>1
  <2>4. j \notin upTo(i)
    BY <1>5, <2>1
  <2>5. ASSUME NEW k \in kept, k <= i
        PROVE  k <= j
    BY <1>5, <2>1, <2>5
  <2>6. upTo(i) \subseteq upTo(j)
    BY <2>5
  <2>7. upTo(i) \in SUBSET kept /\ j \notin upTo(i) /\ upTo(i) \cup {j} \in SUBSET upTo(j)
        /\ upTo(j) \in SUBSET kept /\ upTo(i) \cup {j} \in SUBSET kept
    BY <2>2, <2>4, <2>3, <2>6
  <2>8. IsFiniteSet(upTo(i)) /\ IsFiniteSet(upTo(j)) /\ Cardinality(upTo(i)) \in Nat
        /\ Cardinality(upTo(j)) \in Nat
    BY <2>7, <1>3
  <2>9. Cardinality(upTo(i) \cup {j}) = Cardinality(upTo(i)) + 1
    BY <2>7, <2>8, FS_AddElement
  <2>10. Cardinality(upTo(i) \cup {j}) <= Cardinality(upTo(j))
    BY <2>7, <2>8, FS_Subset
  <2> QED BY <2>8, <2>9, <2>10 DEF Place
<1>6. \A i, j \in kept : Place(kept, i) = Place(kept, j) => i = j
  <2> SUFFICES ASSUME NEW i \in kept, NEW j \in kept, Place(kept, i) = Place(kept, j), i # j
               PROVE  FALSE
    OBVIOUS
  <2>1. i < j \/ j < i
    OBVIOUS
  <2>2. Place(kept, i) \in Int
    BY <1>4
  <2> QED BY <1>5, <2>1, <2>2
<1>7. \A k \in 1 .. Cardinality(kept) : \E i \in kept : Place(kept, i) = k
  <2> DEFINE f == [i \in kept |-> Place(kept, i)]
  <2>1. f \in Injection(kept, 1 .. Cardinality(kept))
    BY <1>4, <1>6 DEF Injection, IsInjective
  <2>2. IsFiniteSet(1 .. Cardinality(kept)) /\ Cardinality(1 .. Cardinality(kept)) = Cardinality(kept)
    BY <1>2, Interval
  <2>3. f \in Surjection(kept, 1 .. Cardinality(kept))
    BY <2>1, <2>2, FS_Injection
  <2> QED BY <2>3 DEF Surjection
<1> QED BY <1>2, <1>4, <1>6, <1>7

\* What is visible of a page: some of its rows, once each; all if none is hidden.
LEMMA WhatIsVisible ==
  ASSUME NEW S, NEW rows \in Seq(S), NEW hidden
  PROVE  /\ Visible(rows, hidden) \in Seq(S) /\ Len(Visible(rows, hidden)) <= Len(rows)
         /\ ToSet(Visible(rows, hidden)) \subseteq ToSet(rows)
         /\ IsInjective(rows) => IsInjective(Visible(rows, hidden))
         /\ hidden = {} => /\ Len(Visible(rows, hidden)) = Len(rows)
                           /\ ToSet(Visible(rows, hidden)) = ToSet(rows)
<1> DEFINE kept == Kept(rows, hidden)  m == Cardinality(kept)
           at(k) == CHOOSE i \in kept : Place(kept, i) = k
           v == Visible(rows, hidden)
<1>1. Len(rows) \in Nat /\ DOMAIN rows = 1 .. Len(rows) /\ rows \in [1 .. Len(rows) -> S]
  BY LenProperties
<1>2. kept \in SUBSET (1 .. Len(rows))
  BY <1>1 DEF Kept
<1>3. v = [k \in 1 .. m |-> rows[at(k)]]
  BY DEF Visible, Kept, Place
<1>4. hidden = {} => kept = 1 .. Len(rows)
  BY <1>1 DEF Kept
<1> HIDE DEF kept, v
<1>5. /\ IsFiniteSet(kept) /\ m \in Nat /\ m <= Len(rows)
      /\ \A i \in kept : Place(kept, i) \in 1 .. m
      /\ \A i, j \in kept : Place(kept, i) = Place(kept, j) => i = j
      /\ \A k \in 1 .. m : \E i \in kept : Place(kept, i) = k
  BY <1>1, <1>2, Places
<1>6. \A k \in 1 .. m : at(k) \in kept /\ Place(kept, at(k)) = k
  BY <1>5
<1>7. \A i \in kept : at(Place(kept, i)) = i
  BY <1>5, <1>6
<1>8. hidden = {} => m = Len(rows)
  <2>1. Cardinality(1 .. Len(rows)) = Len(rows)
    BY <1>1, Interval
  <2> QED BY <2>1, <1>4
<1> HIDE DEF at, m
<1>9. v \in [1 .. m -> S] /\ v \in Seq(S) /\ Len(v) = m /\ DOMAIN v = 1 .. m
  <2>1. \A k \in 1 .. m : rows[at(k)] \in S
    BY <1>1, <1>2, <1>6
  <2>2. v \in [1 .. m -> S] /\ m \in Nat
    BY <1>3, <1>5, <2>1
  <2> QED BY <2>2, IsASeq
<1>10. ToSet(v) \subseteq ToSet(rows)
  BY <1>1, <1>2, <1>3, <1>6, <1>9 DEF ToSet
<1>11. IsInjective(rows) => IsInjective(v)
  BY <1>1, <1>2, <1>3, <1>6, <1>9 DEF IsInjective
<1>12. ASSUME hidden = {}
       PROVE  ToSet(rows) \subseteq ToSet(v)
  <2> SUFFICES ASSUME NEW i \in 1 .. Len(rows) PROVE rows[i] \in ToSet(v)
    BY <1>1 DEF ToSet
  <2>1. i \in kept /\ Place(kept, i) \in 1 .. m
    BY <1>4, <1>5, <1>12
  <2>2. v[Place(kept, i)] = rows[i]
    BY <1>3, <1>7, <2>1
  <2> QED BY <1>9, <2>1, <2>2 DEF ToSet
<1> QED BY <1>5, <1>8, <1>9, <1>10, <1>11, <1>12 DEF v

----------------------------------------------------------------------------
(* The steps of a listing                                                  *)

\* A listing or none: nothing is left of the one before.
LEMMA AskKeeps ==
  ASSUME NEW limit \in Nat \cup {Unlimited}, NEW offset \in Nat, Ask(limit, offset)
  PROVE  /\ found' \in Answer /\ read' \in Read
         /\ changes' \in [added : 0 .. MaxChanges, deleted : 0 .. MaxChanges]
         /\ ReadInv'
<1>1. found' \in Answer /\ IsInjective(found'.rows)
  BY AnswerAssumption DEF Ask
<1>2. /\ read'.pc = "page" /\ read'.limit = limit /\ read'.start = offset /\ read'.offset = offset
      /\ read'.records = <<>> /\ read'.total = Unknown /\ read'.seen = {}
  BY DEF Ask, NoRead
<1>3. read' \in Read
  <2>1. NoRead \in Read
    BY DEF NoRead, Read
  <2>2. \A r \in Read : [r EXCEPT !.pc = "page", !.limit = limit, !.start = offset, !.offset = offset] \in Read
    BY DEF Read
  <2> QED BY <2>1, <2>2 DEF Ask
<1>4. changes' = NoChanges /\ NoChanges \in [added : 0 .. MaxChanges, deleted : 0 .. MaxChanges]
  BY LimitAssumption DEF Ask, NoChanges
<1>5. IsInjective(<<>>) /\ ToSet(<<>>) = {}
  BY DEF IsInjective, ToSet
<1>6. Sized' /\ FirstPage'
  BY <1>2 DEF Sized, FirstPage, Unlimited
<1>7. Fresh' /\ AheadUnread' /\ TotalBounds' /\ Contiguous' /\ ReadAll'
  BY <1>1, <1>2, <1>5 DEF Fresh, AheadUnread, TotalBounds, Contiguous, ReadAll
<1> QED BY <1>1, <1>3, <1>4, <1>6, <1>7 DEF ReadInv

\* No listing is left of one that ended.
LEMMA ForgetKeeps ==
  ASSUME Forget
  PROVE  /\ found' \in Answer /\ read' \in Read
         /\ changes' \in [added : 0 .. MaxChanges, deleted : 0 .. MaxChanges]
         /\ ReadInv'
<1>1. found' \in Answer
  BY DEF Forget, Nothing, Answer
<1>2. read'.pc = "idle"
  BY DEF Forget, NoRead
<1>3. read' \in Read
  BY DEF Forget, NoRead, Read
<1>4. changes' = NoChanges /\ NoChanges \in [added : 0 .. MaxChanges, deleted : 0 .. MaxChanges]
  BY LimitAssumption DEF Forget, NoChanges
<1>5. ReadInv'
  BY <1>2 DEF ReadInv, Sized, FirstPage, Fresh, AheadUnread, TotalBounds, Contiguous, ReadAll
<1> QED BY <1>1, <1>3, <1>4, <1>5

\* Nothing of the listing changes.
LEMMA SameList ==
  ASSUME ListTypeOK, ReadInv, UNCHANGED <<found, read, changes>>
  PROVE  /\ found' \in Answer /\ read' \in Read
         /\ changes' \in [added : 0 .. MaxChanges, deleted : 0 .. MaxChanges]
         /\ ReadInv'
BY DEF ListTypeOK, ReadInv, Sized, FirstPage, Fresh, AheadUnread, TotalBounds, Contiguous, ReadAll,
   NothingChanged, Complete

\* A failed page ends its listing.
LEMMA PageFailsKeeps ==
  ASSUME ListTypeOK, ReadInv, PageFails
  PROVE  /\ found' \in Answer /\ read' \in Read
         /\ changes' \in [added : 0 .. MaxChanges, deleted : 0 .. MaxChanges]
         /\ ReadInv'
<1>1. read'.pc = "failed" /\ read' \in Read /\ UNCHANGED <<found, changes>>
  BY DEF PageFails, ListTypeOK, Read
<1> QED BY <1>1 DEF ListTypeOK, ReadInv, Sized, FirstPage, Fresh, AheadUnread, TotalBounds,
  Contiguous, ReadAll

\* A row is taken out of a sequence, or put in.
LEMMA Removed ==
  ASSUME NEW S, NEW s \in Seq(S), NEW i \in DOMAIN s
  PROVE  /\ RemoveAt(s, i) \in Seq(S)
         /\ IsInjective(s) => IsInjective(RemoveAt(s, i))
         /\ \A n \in Nat \ {0} : From(RemoveAt(s, i), n) \subseteq From(s, n)
<1> DEFINE t == RemoveAt(s, i)  m == Len(s)
<1>1. m \in Nat /\ DOMAIN s = 1 .. m /\ i \in 1 .. m
  BY LenProperties
<1> DEFINE front == SubSeq(s, 0 + 1, i - 1)  back == SubSeq(s, i + 1, m)
<1>2. /\ front \in Seq(S) /\ Len(front) = i - 1 /\ \A k \in 1 .. i - 1 : front[k] = s[k]
      /\ back \in Seq(S) /\ Len(back) = m - i /\ \A k \in 1 .. m - i : back[k] = s[k + i]
  <2>1. i - 1 \in Nat /\ i \in Nat /\ i - 1 <= m /\ i <= m /\ (i - 1) - 0 = i - 1
        /\ \A k \in 1 .. i - 1 : 0 + k = k
    BY <1>1
  <2>2. front \in Seq(S) /\ Len(front) = (i - 1) - 0 /\ \A k \in 1 .. (i - 1) - 0 : front[k] = s[0 + k]
    BY <2>1, PartOf
  <2>3. back \in Seq(S) /\ Len(back) = m - i /\ \A k \in 1 .. m - i : back[k] = s[i + k]
    <3>1. m \in Nat /\ m <= Len(s) /\ i \in Nat /\ i <= m
      BY <1>1, <2>1
    <3> HIDE DEF m
    <3> QED BY <3>1, PartOf
  <2>4. \A k \in 1 .. m - i : i + k = k + i
    BY <1>1
  <2> HIDE DEF front, back, m
  <2> QED BY <2>1, <2>2, <2>3, <2>4
<1>3. /\ t \in Seq(S) /\ Len(t) = m - 1
      /\ \A k \in 1 .. m - 1 : t[k] = IF k < i THEN s[k] ELSE s[k + 1]
  <2>1. t = front \o back
    BY DEF RemoveAt
  <2> HIDE DEF front, back, t, m
  <2>2. /\ t \in Seq(S) /\ Len(t) = Len(front) + Len(back)
        /\ \A k \in 1 .. Len(front) + Len(back) :
              t[k] = IF k <= Len(front) THEN front[k] ELSE back[k - Len(front)]
    <3>1. front \in Seq(S) /\ back \in Seq(S)
      BY <1>2
    <3> QED BY <2>1, <3>1, ConcatProperties
  <2>3. Len(front) = i - 1 /\ Len(back) = m - i
    BY <1>2
  <2>4. /\ t \in Seq(S) /\ Len(t) = (i - 1) + (m - i)
        /\ \A k \in 1 .. (i - 1) + (m - i) : t[k] = IF k <= i - 1 THEN front[k] ELSE back[k - (i - 1)]
    BY <2>2, <2>3
  <2>5. Len(t) = m - 1
    BY <1>1, <2>4
  <2>6. ASSUME NEW k \in 1 .. m - 1
        PROVE  t[k] = IF k < i THEN s[k] ELSE s[k + 1]
    <3>1. CASE k < i
      <4>1. k \in 1 .. (i - 1) + (m - i) /\ k <= i - 1 /\ k \in 1 .. i - 1
        BY <1>1, <3>1
      <4> QED BY <1>2, <2>4, <3>1, <4>1
    <3>2. CASE ~(k < i)
      <4>1. k - (i - 1) \in 1 .. m - i /\ (k - (i - 1)) + i = k + 1
        BY <1>1, <3>2
      <4>2. t[k] = back[k - (i - 1)]
        <5>1. k \in 1 .. (i - 1) + (m - i) /\ ~(k <= i - 1)
          BY <1>1, <3>2
        <5> QED BY <2>4, <5>1
      <4> QED BY <1>2, <3>2, <4>1, <4>2
    <3> QED BY <3>1, <3>2
  <2> QED BY <2>4, <2>5, <2>6
<1> HIDE DEF t, m
<1>4. DOMAIN t = 1 .. m - 1
  BY <1>1, <1>3, LenProperties
<1>5. ASSUME IsInjective(s)
      PROVE  IsInjective(t)
  <2> SUFFICES ASSUME NEW a \in 1 .. m - 1, NEW b \in 1 .. m - 1, t[a] = t[b]
               PROVE  a = b
    BY <1>4 DEF IsInjective
  <2> DEFINE from(k) == IF k < i THEN k ELSE k + 1
  <2>1. from(a) \in 1 .. m /\ from(b) \in 1 .. m /\ t[a] = s[from(a)] /\ t[b] = s[from(b)]
    BY <1>1, <1>3
  <2>2. from(a) = from(b)
    BY <1>1, <1>5, <2>1 DEF IsInjective
  <2> QED BY <1>1, <2>2
<1>6. ASSUME NEW n \in Nat \ {0}
      PROVE  From(t, n) \subseteq From(s, n)
  <2> SUFFICES ASSUME NEW k \in n .. m - 1 PROVE t[k] \in From(s, n)
    BY <1>3 DEF From
  <2>1. (k \in n .. m /\ t[k] = s[k]) \/ (k + 1 \in n .. m /\ t[k] = s[k + 1])
    BY <1>1, <1>3
  <2> QED BY <2>1 DEF From, m
<1> QED BY <1>3, <1>5, <1>6 DEF t

\* What others do between pages keeps what is known of a listing.
LEMMA OthersKeepList ==
  ASSUME ListTypeOK, ReadInv, OthersDelete \/ OthersAdd
  PROVE  /\ found' \in Answer /\ read' \in Read
         /\ changes' \in [added : 0 .. MaxChanges, deleted : 0 .. MaxChanges]
         /\ ReadInv'
<1>1. /\ found \in Answer /\ read \in Read /\ read.pc = "page" /\ read' = read
      /\ changes.added \in Nat /\ changes.deleted \in Nat /\ changes.added + changes.deleted < MaxChanges
      /\ changes \in [added : 0 .. MaxChanges, deleted : 0 .. MaxChanges] /\ MaxChanges \in Nat
      /\ found.rows \in Seq(Row) /\ Len(found.rows) \in Nat /\ read.offset \in Nat /\ read.start \in Nat
  BY LimitAssumption, LenProperties DEF OthersDelete, OthersAdd, ListTypeOK, Answer, Read
<1>2. Sized' /\ TotalBounds'
  BY <1>1 DEF ReadInv, Sized, TotalBounds
<1>3. CASE OthersDelete
  <2>1. PICK i \in DOMAIN found.rows : found' = [found EXCEPT !.rows = RemoveAt(@, i)]
    BY <1>3 DEF OthersDelete
  <2>2. RemoveAt(found.rows, i) \in Seq(Row)
        /\ (IsInjective(found.rows) => IsInjective(RemoveAt(found.rows, i)))
        /\ From(RemoveAt(found.rows, i), read.offset + 1) \subseteq From(found.rows, read.offset + 1)
    BY <1>1, Removed
  <2>3. found' \in Answer /\ found'.rows = RemoveAt(found.rows, i) /\ found'.counted = found.counted
    BY <1>1, <2>1, <2>2 DEF Answer
  <2>4. changes'.added = changes.added /\ changes'.deleted > 0
        /\ changes' \in [added : 0 .. MaxChanges, deleted : 0 .. MaxChanges]
    BY <1>1, <1>3 DEF OthersDelete
  <2>5. FirstPage' /\ Fresh' /\ AheadUnread'
    BY <1>1, <2>2, <2>3, <2>4 DEF ReadInv, FirstPage, Fresh, AheadUnread
  <2>6. Contiguous' /\ ReadAll'
    BY <1>1, <2>4 DEF Contiguous, ReadAll, NothingChanged
  <2> QED BY <1>1, <1>2, <2>3, <2>4, <2>5, <2>6 DEF ReadInv
<1>4. CASE OthersAdd
  <2>1. PICK r \in Row, i \in 1 .. Len(found.rows) + 1 : found' = [found EXCEPT !.rows = InsertAt(@, i, r)]
    BY <1>4 DEF OthersAdd
  <2>2. InsertAt(found.rows, i, r) \in Seq(Row)
    <3>1. /\ SubSeq(found.rows, 1, i - 1) \in Seq(Row) /\ <<r>> \in Seq(Row)
          /\ SubSeq(found.rows, i, Len(found.rows)) \in Seq(Row)
      BY <1>1, <2>1, SubSeqProperties
    <3> QED BY <3>1, ConcatProperties DEF InsertAt
  <2>3. found' \in Answer /\ found'.counted = found.counted
    BY <1>1, <2>1, <2>2 DEF Answer
  <2>4. changes'.added > 0 /\ changes' \in [added : 0 .. MaxChanges, deleted : 0 .. MaxChanges]
    <3>1. changes' = [changes EXCEPT !.added = @ + 1]
      BY <1>4 DEF OthersAdd
    <3>2. changes.added + 1 > 0 /\ changes.added + 1 \in 0 .. MaxChanges
      BY <1>1
    <3> QED BY <1>1, <3>1, <3>2
  <2>5. FirstPage'
    BY <1>1, <2>3 DEF ReadInv, FirstPage
  <2>6. Fresh' /\ AheadUnread' /\ Contiguous' /\ ReadAll'
    BY <2>4 DEF Fresh, AheadUnread, Contiguous, ReadAll, NothingChanged
  <2> QED BY <1>1, <1>2, <2>3, <2>4, <2>5, <2>6 DEF ReadInv
<1> QED BY <1>3, <1>4

\* The rows between two offsets, and what a page may hold.
LEMMA WhatIsAsked ==
  ASSUME ListTypeOK, Sized, read.pc = "page"
  PROVE  /\ RequestSize \in Nat
         /\ read.limit # 0 => RequestSize > 0
         /\ read.limit # Unlimited => RequestSize <= read.limit - Len(read.records)
         /\ Slice \in Seq(Row) /\ Len(Slice) <= RequestSize
         /\ read.offset + Len(Slice) <= Len(found.rows) \/ Len(Slice) = 0
         /\ Len(Slice) < RequestSize => read.offset + Len(Slice) >= Len(found.rows)
         /\ ToSet(Slice) = Between(found.rows, read.offset + 1, read.offset + Len(Slice))
         /\ IsInjective(found.rows) => IsInjective(Slice)
<1> DEFINE rows == found.rows  n == Len(found.rows)  o == read.offset  z == RequestSize
           e == Smaller(n, o + z)
<1>1. /\ rows \in Seq(Row) /\ n \in Nat /\ DOMAIN rows = 1 .. n /\ o \in Nat
      /\ read.limit \in Nat \cup {Unlimited} /\ Len(read.records) \in Nat
  BY LenProperties DEF ListTypeOK, Answer, Read
<1>2. PageSize \in Nat /\ PageSize > 0
  BY PageAssumption
<1>3. Len(<<>>) = 0
  OBVIOUS
<1>4. /\ z \in Nat
      /\ read.limit # 0 => z > 0
      /\ read.limit # Unlimited => z <= read.limit - Len(read.records)
  <2>1. CASE read.limit = Unlimited
    BY <1>2, <2>1 DEF RequestSize
  <2>2. CASE read.limit = 0
    BY <1>2, <1>3, <2>2 DEF Sized, RequestSize, Smaller, Unlimited
  <2>3. CASE read.limit # Unlimited /\ read.limit # 0
    BY <1>1, <1>2, <2>3 DEF Sized, RequestSize, Smaller
  <2> QED BY <2>1, <2>2, <2>3
<1>5. Slice = SubSeq(rows, o + 1, e)
  BY DEF Slice
<1> HIDE DEF rows, n, o, z
<1>6. e \in 0 .. n /\ e <= o + z /\ (e = n \/ e = o + z)
  BY <1>1, <1>4 DEF Smaller
<1> HIDE DEF e
<1>7. CASE o + 1 <= e
  <2>1. /\ Slice \in Seq(Row) /\ Len(Slice) = e - o
        /\ \A k \in 1 .. e - o : Slice[k] = rows[o + k]
    <3>1. e \in Nat /\ o <= e /\ e <= Len(rows)
      BY <1>1, <1>6, <1>7 DEF rows, n
    <3> QED BY <1>1, <1>5, <3>1, PartOf
  <2>2. DOMAIN Slice = 1 .. e - o
    BY <2>1, LenProperties
  <2>3. ToSet(Slice) = Between(rows, o + 1, o + Len(Slice))
    <3>1. ASSUME NEW k \in o + 1 .. e
          PROVE  k - o \in 1 .. e - o /\ rows[k] = Slice[k - o]
      <4>1. k - o \in 1 .. e - o /\ o + (k - o) = k
        BY <1>1, <1>6
      <4> QED BY <2>1, <4>1
    <3>2. \A k \in 1 .. e - o : o + k \in o + 1 .. e
      BY <1>1, <1>6
    <3>3. o + Len(Slice) = e
      BY <1>1, <1>6, <2>1
    <3> QED BY <2>1, <2>2, <3>1, <3>2, <3>3 DEF ToSet, Between
  <2>4. ASSUME IsInjective(rows)
        PROVE  IsInjective(Slice)
    <3> SUFFICES ASSUME NEW a \in 1 .. e - o, NEW b \in 1 .. e - o, Slice[a] = Slice[b]
                 PROVE  a = b
      BY <2>2 DEF IsInjective
    <3>1. o + a \in 1 .. n /\ o + b \in 1 .. n
      BY <1>1, <1>6
    <3>2. o + a = o + b
      BY <1>1, <2>1, <2>4, <3>1 DEF IsInjective
    <3> QED BY <1>1, <3>2
  <2> QED BY <1>1, <1>4, <1>6, <1>7, <2>1, <2>3, <2>4 DEF rows, n, o, z
<1>8. CASE ~(o + 1 <= e)
  <2>1. Slice = <<>>
    BY <1>1, <1>5, <1>6, <1>8, SubSeqEmpty
  <2>2. Slice \in Seq(Row) /\ Len(Slice) = 0 /\ ToSet(Slice) = {} /\ IsInjective(Slice)
    BY <2>1 DEF ToSet, IsInjective
  <2>3. Between(rows, o + 1, o + 0) = {}
    BY <1>1 DEF Between
  <2>4. 0 < z => o >= n
    BY <1>1, <1>4, <1>6, <1>8
  <2>5. o + Len(Slice) = o + 0 /\ o + 0 = o
    BY <1>1, <2>2
  <2> QED BY <1>1, <1>4, <2>2, <2>3, <2>4, <2>5 DEF rows, n, o, z
<1> QED BY <1>6, <1>1, <1>7, <1>8

\* The rows so far and those of a page.
LEMMA PageAdds ==
  ASSUME ListTypeOK, ReadInv, read.pc = "page", NEW all, all = read.records \o Answered
  PROVE  /\ all \in Seq(Row) /\ Len(all) = Len(read.records) + Len(Answered)
         /\ Answered \in Seq(Row) /\ Len(Answered) <= RequestSize /\ Len(Answered) <= Len(Slice)
         /\ ToSet(all) = ToSet(read.records) \cup ToSet(Answered)
         /\ ToSet(Answered) \subseteq From(found.rows, read.offset + 1)
         /\ Len(Answered) = RequestSize =>
              ToSet(Answered) \subseteq Between(found.rows, read.offset + 1, read.offset + RequestSize)
         /\ changes.added = 0 => IsInjective(all)
         /\ found.hidden = {} => /\ Len(Answered) = Len(Slice)
                                 /\ ToSet(Answered) = ToSet(Slice)
<1> DEFINE a == Answered  r == read.records  rows == found.rows  o == read.offset  z == RequestSize
<1>1. /\ z \in Nat /\ Slice \in Seq(Row) /\ Len(Slice) <= z /\ Len(Slice) \in Nat
      /\ o + Len(Slice) <= Len(rows) \/ Len(Slice) = 0
      /\ ToSet(Slice) = Between(rows, o + 1, o + Len(Slice))
      /\ IsInjective(rows) => IsInjective(Slice)
  BY WhatIsAsked, LenProperties DEF ReadInv
<1>2. /\ a \in Seq(Row) /\ Len(a) <= Len(Slice) /\ ToSet(a) \subseteq ToSet(Slice)
      /\ IsInjective(Slice) => IsInjective(a)
      /\ found.hidden = {} => Len(a) = Len(Slice) /\ ToSet(a) = ToSet(Slice)
  BY <1>1, WhatIsVisible DEF Answered
<1>3. /\ r \in Seq(Row) /\ Len(r) \in Nat /\ Len(a) \in Nat /\ o \in Nat /\ Len(rows) \in Nat
      /\ DOMAIN r = 1 .. Len(r) /\ DOMAIN a = 1 .. Len(a)
  BY <1>2, LenProperties DEF ListTypeOK, Read, Answer
<1>4. all = r \o a
  OBVIOUS
<1> HIDE DEF a, r, rows, o, z
<1>5. /\ all \in Seq(Row) /\ Len(all) = Len(r) + Len(a)
      /\ \A i \in 1 .. Len(r) + Len(a) : all[i] = IF i <= Len(r) THEN r[i] ELSE a[i - Len(r)]
  BY <1>2, <1>3, <1>4, ConcatProperties
<1>6. DOMAIN all = 1 .. Len(r) + Len(a)
  BY <1>5, LenProperties
<1>7. ToSet(all) = ToSet(r) \cup ToSet(a)
  <2>1. ToSet(all) \subseteq ToSet(r) \cup ToSet(a)
    <3> SUFFICES ASSUME NEW i \in 1 .. Len(r) + Len(a) PROVE all[i] \in ToSet(r) \cup ToSet(a)
      BY <1>6 DEF ToSet
    <3>1. CASE i <= Len(r)
      <4>1. i \in 1 .. Len(r)
        BY <1>3, <3>1
      <4> QED BY <1>3, <1>5, <3>1, <4>1 DEF ToSet
    <3>2. CASE ~(i <= Len(r))
      <4>1. i - Len(r) \in 1 .. Len(a)
        BY <1>3, <3>2
      <4> QED BY <1>3, <1>5, <3>2, <4>1 DEF ToSet
    <3> QED BY <3>1, <3>2
  <2>2. ASSUME NEW i \in 1 .. Len(r)
        PROVE  r[i] \in ToSet(all)
    <3>1. i \in 1 .. Len(r) + Len(a) /\ i <= Len(r)
      BY <1>3
    <3>2. all[i] = r[i]
      BY <1>5, <3>1
    <3> QED BY <1>6, <3>1, <3>2 DEF ToSet
  <2>3. ASSUME NEW i \in 1 .. Len(a)
        PROVE  a[i] \in ToSet(all)
    <3>1. Len(r) + i \in 1 .. Len(r) + Len(a) /\ ~(Len(r) + i <= Len(r)) /\ (Len(r) + i) - Len(r) = i
      BY <1>3
    <3>2. all[Len(r) + i] = a[i]
      BY <1>5, <3>1
    <3>3. Len(r) + i \in DOMAIN all
      BY <1>6, <3>1
    <3> QED BY <3>2, <3>3, Zenon DEF ToSet
  <2>4. ToSet(r) \subseteq ToSet(all)
    BY <1>3, <2>2 DEF ToSet
  <2>5. ToSet(a) \subseteq ToSet(all)
    BY <1>3, <2>3 DEF ToSet
  <2> QED BY <2>1, <2>4, <2>5
<1>8. ToSet(a) \subseteq From(rows, o + 1)
  <2>1. Between(rows, o + 1, o + Len(Slice)) \subseteq From(rows, o + 1)
    BY <1>1, <1>3 DEF Between, From
  <2> QED BY <1>1, <1>2, <2>1
<1>9. Len(a) = z => ToSet(a) \subseteq Between(rows, o + 1, o + z)
  <2>1. Len(a) = z => Len(Slice) = z
    BY <1>1, <1>2, <1>3
  <2> QED BY <1>1, <1>2, <2>1
<1>10. ASSUME changes.added = 0
       PROVE  IsInjective(all)
  <2>1. IsInjective(rows) /\ IsInjective(r)
    BY <1>10 DEF ReadInv, Fresh, rows, r
  <2>2. IsInjective(a)
    BY <1>1, <1>2, <2>1
  <2>3. ToSet(a) \cap ToSet(r) = {}
    <3>1. CASE read.offset > read.start
      BY <1>8, <1>10, <3>1 DEF ReadInv, AheadUnread, rows, r, o
    <3>2. CASE ~(read.offset > read.start)
      <4>1. read.offset = read.start
        BY <3>2 DEF ReadInv, FirstPage, ListTypeOK, Read
      <4>2. r = <<>>
        BY <4>1 DEF ReadInv, FirstPage, r
      <4> QED BY <4>2 DEF ToSet
    <3> QED BY <3>1, <3>2
  <2>4. \A i \in 1 .. Len(r), k \in 1 .. Len(a) : r[i] # a[k]
    BY <1>3, <2>3 DEF ToSet
  <2> SUFFICES ASSUME NEW i \in 1 .. Len(r) + Len(a), NEW j \in 1 .. Len(r) + Len(a), all[i] = all[j]
               PROVE  i = j
    BY <1>6 DEF IsInjective
  <2>5. i <= Len(r) \/ i - Len(r) \in 1 .. Len(a)
    BY <1>3
  <2>6. j <= Len(r) \/ j - Len(r) \in 1 .. Len(a)
    BY <1>3
  <2>7. CASE i <= Len(r) /\ j <= Len(r)
    <3>1. i \in 1 .. Len(r) /\ j \in 1 .. Len(r)
      BY <1>3, <2>7
    <3> QED BY <1>3, <1>5, <2>1, <2>7, <3>1 DEF IsInjective
  <2>8. CASE ~(i <= Len(r)) /\ ~(j <= Len(r))
    <3>1. a[i - Len(r)] = a[j - Len(r)] /\ i - Len(r) \in 1 .. Len(a) /\ j - Len(r) \in 1 .. Len(a)
      BY <1>5, <2>5, <2>6, <2>8
    <3>2. i - Len(r) = j - Len(r)
      BY <1>3, <2>2, <3>1 DEF IsInjective
    <3> QED BY <1>3, <3>2
  <2>9. CASE i <= Len(r) /\ ~(j <= Len(r))
    <3>1. i \in 1 .. Len(r)
      BY <1>3, <2>9
    <3> QED BY <1>5, <2>4, <2>6, <2>9, <3>1
  <2>10. CASE ~(i <= Len(r)) /\ j <= Len(r)
    <3>1. j \in 1 .. Len(r)
      BY <1>3, <2>10
    <3> QED BY <1>5, <2>4, <2>5, <2>10, <3>1
  <2> QED BY <2>7, <2>8, <2>9, <2>10
<1>11. Len(a) <= z
  BY <1>1, <1>2, <1>3
<1> QED BY <1>2, <1>5, <1>7, <1>8, <1>9, <1>10, <1>11 DEF a, r, rows, o, z

\* The elements of the end of a sequence.
LEMMA EndOfSequence ==
  ASSUME NEW S, NEW s \in Seq(S), NEW k \in Nat
  PROVE  /\ SubSeq(s, k + 1, Len(s)) \in Seq(S)
         /\ ToSet(SubSeq(s, k + 1, Len(s))) = From(s, k + 1)
         /\ Len(SubSeq(s, k + 1, Len(s))) = IF Len(s) > k THEN Len(s) - k ELSE 0
<1> DEFINE n == Len(s)  t == SubSeq(s, k + 1, n)
<1>1. n \in Nat
  BY LenProperties
<1> HIDE DEF n
<1>2. CASE k + 1 <= n
  <2>1. t \in Seq(S) /\ Len(t) = n - k /\ \A i \in 1 .. n - k : t[i] = s[k + i]
    BY <1>1, <1>2, PartOf DEF n
  <2>2. DOMAIN t = 1 .. n - k
    BY <2>1, LenProperties
  <2>3. /\ \A i \in k + 1 .. n : i - k \in 1 .. n - k /\ s[i] = t[i - k]
        /\ \A i \in 1 .. n - k : k + i \in k + 1 .. n
    BY <1>1, <2>1
  <2> HIDE DEF t
  <2>4. ToSet(t) = {s[i] : i \in k + 1 .. n}
    <3>1. \A x \in ToSet(t) : \E i \in k + 1 .. n : x = s[i]
      BY <2>1, <2>2, <2>3 DEF ToSet
    <3>2. \A i \in k + 1 .. n : s[i] \in ToSet(t)
      BY <2>2, <2>3 DEF ToSet
    <3> QED BY <3>1, <3>2
  <2>5. From(s, k + 1) = {s[i] : i \in k + 1 .. n}
    BY DEF From, n
  <2>6. n > k
    BY <1>1, <1>2
  <2>7. t \in Seq(S) /\ ToSet(t) = From(s, k + 1) /\ Len(t) = IF n > k THEN n - k ELSE 0
    BY <2>1, <2>4, <2>5, <2>6
  <2> QED BY <2>7 DEF t, n
<1>3. CASE ~(k + 1 <= n)
  <2>1. t = <<>>
    BY <1>1, <1>3, SubSeqEmpty DEF n
  <2>2. ToSet(t) = {} /\ {s[i] : i \in k + 1 .. n} = {} /\ Len(t) = 0 /\ t \in Seq(S)
    BY <1>1, <1>3, <2>1 DEF ToSet
  <2> QED BY <1>1, <1>3, <2>2 DEF From, n
<1> QED BY <1>2, <1>3

\* What a page does to the listing.
Limited(all) == read.limit # Unlimited /\ Len(all) >= read.limit
LastPage(all) == Limited(all) \/ Len(Answered) < RequestSize

\* What a page assigns, and that it has the types of a listing.
LEMMA WhatPageDoes ==
  ASSUME ListTypeOK, ReadInv, Page, NEW all, all = read.records \o Answered
  PROVE  /\ read.pc = "page" /\ UNCHANGED <<found, scan, changes>>
         /\ read'.pc \in {"page", "done"} /\ (read'.pc = "page" <=> ~LastPage(all))
         /\ read'.limit = read.limit /\ read'.start = read.start /\ read'.total = TotalOf
         /\ read'.records = IF Limited(all) THEN SubSeq(all, 1, read.limit) ELSE all
         /\ read'.more = (Limited(all) /\ (Len(all) > read.limit \/ Len(Answered) = RequestSize))
         /\ read'.offset = IF LastPage(all) THEN read.offset ELSE read.offset + RequestSize
         /\ read'.seen = IF read.offset = read.start THEN From(found.rows, read.start + 1) ELSE read.seen
         /\ read' \in Read
<1> DEFINE fresh == ToSet(SubSeq(found.rows, read.start + 1, Len(found.rows)))
<1>1. /\ read.pc = "page" /\ UNCHANGED <<found, scan, changes>>
      /\ read' = [read EXCEPT
           !.pc = IF Limited(all) \/ Len(Answered) < RequestSize THEN "done" ELSE "page",
           !.records = IF Limited(all) THEN SubSeq(all, 1, read.limit) ELSE all,
           !.more = Limited(all) /\ (Len(all) > read.limit \/ Len(Answered) = RequestSize),
           !.offset = IF Limited(all) \/ Len(Answered) < RequestSize THEN @ ELSE @ + RequestSize,
           !.total = TotalOf,
           !.seen = IF read.offset = read.start THEN fresh ELSE @]
  BY DEF Page, Limited
<1>2. /\ found.rows \in Seq(Row) /\ Len(found.rows) \in Nat /\ read.start \in Nat /\ read \in Read
      /\ read.offset \in Nat /\ read.limit \in Nat \cup {Unlimited} /\ read.total \in Nat \cup {Unknown}
      /\ read.seen \in SUBSET Row
  BY LenProperties DEF ListTypeOK, Answer, Read
<1>3. all \in Seq(Row) /\ RequestSize \in Nat /\ Len(all) \in Nat
  BY <1>1, PageAdds, WhatIsAsked, LenProperties DEF ReadInv
<1>4. fresh = From(found.rows, read.start + 1) /\ fresh \in SUBSET Row
  <2>1. SubSeq(found.rows, read.start + 1, Len(found.rows)) \in Seq(Row)
        /\ fresh = From(found.rows, read.start + 1)
    BY <1>2, EndOfSequence
  <2>2. fresh \subseteq Row
    BY <2>1, Elements
  <2> QED BY <2>1, <2>2
<1>5. Limited(all) => SubSeq(all, 1, read.limit) \in Seq(Row)
  <2> SUFFICES ASSUME Limited(all) PROVE SubSeq(all, 1, read.limit) \in Seq(Row)
    OBVIOUS
  <2>1. read.limit \in Nat /\ 0 \in Nat /\ 0 <= read.limit /\ read.limit <= Len(all) /\ 0 + 1 = 1
    BY <1>2, <1>3 DEF Limited, Unlimited
  <2>2. SubSeq(all, 0 + 1, read.limit) \in Seq(Row)
    BY <1>3, <2>1, PartOf
  <2> QED BY <2>1, <2>2
<1>6. TotalOf \in Nat \cup {Unknown}
  BY <1>2 DEF TotalOf
<1> DEFINE p == IF LastPage(all) THEN "done" ELSE "page"
           q == IF Limited(all) THEN SubSeq(all, 1, read.limit) ELSE all
           b == Limited(all) /\ (Len(all) > read.limit \/ Len(Answered) = RequestSize)
           o == IF LastPage(all) THEN read.offset ELSE read.offset + RequestSize
           m == IF read.offset = read.start THEN fresh ELSE read.seen
<1>7. read' = [read EXCEPT !.pc = p, !.records = q, !.more = b, !.offset = o, !.total = TotalOf, !.seen = m]
  BY <1>1 DEF LastPage
<1>8. p \in {"page", "done"} /\ (p = "page" <=> ~LastPage(all)) /\ q \in Seq(Row) /\ o \in Nat
      /\ m \in SUBSET Row
  <2>1. p \in {"page", "done"} /\ (p = "page" <=> ~LastPage(all))
    OBVIOUS
  <2>2. q \in Seq(Row)
    BY <1>3, <1>5
  <2>3. o \in Nat
    BY <1>2, <1>3
  <2>4. m \in SUBSET Row
    BY <1>2, <1>4
  <2> QED BY <2>1, <2>2, <2>3, <2>4
<1>9. b \in BOOLEAN
  OBVIOUS
<1>10. m = IF read.offset = read.start THEN From(found.rows, read.start + 1) ELSE read.seen
  BY <1>4
<1>11. q = (IF Limited(all) THEN SubSeq(all, 1, read.limit) ELSE all)
       /\ b = (Limited(all) /\ (Len(all) > read.limit \/ Len(Answered) = RequestSize))
       /\ o = (IF LastPage(all) THEN read.offset ELSE read.offset + RequestSize)
  OBVIOUS
<1> HIDE DEF p, q, b, o, m
<1>12. /\ read'.pc = p /\ read'.records = q /\ read'.more = b /\ read'.offset = o /\ read'.total = TotalOf
       /\ read'.seen = m /\ read'.limit = read.limit /\ read'.start = read.start /\ read' \in Read
  <2>1. read \in Read
    BY <1>2
  <2>2. /\ read'.pc = p /\ read'.records = q /\ read'.more = b /\ read'.offset = o
        /\ read'.total = TotalOf /\ read'.seen = m /\ read'.limit = read.limit
        /\ read'.start = read.start
    BY <2>1, <1>7 DEF Read
  <2>3. read' \in Read
    <3>1. \A x \in BOOLEAN : [read EXCEPT !.pc = p, !.records = q, !.more = x, !.offset = o,
                                          !.total = TotalOf, !.seen = m] \in Read
      BY <2>1, <1>6, <1>8 DEF Read
    <3> QED BY <1>7, <1>9, <3>1
  <2> QED BY <2>2, <2>3
<1> QED BY <1>1, <1>8, <1>10, <1>11, <1>12

\* A page that is not the last is full, and the limit is not reached.
LEMMA NotLast ==
  ASSUME ListTypeOK, ReadInv, read.pc = "page", NEW all, all = read.records \o Answered, ~LastPage(all)
  PROVE  /\ Len(Answered) = RequestSize /\ Len(Slice) = RequestSize /\ RequestSize > 0
         /\ read.limit # Unlimited => Len(all) < read.limit /\ read.limit # 0
<1>1. /\ Len(Answered) \in Nat /\ Len(Slice) \in Nat /\ RequestSize \in Nat /\ Len(all) \in Nat
      /\ Len(Answered) <= RequestSize /\ Len(Answered) <= Len(Slice) /\ Len(Slice) <= RequestSize
      /\ read.limit # 0 => RequestSize > 0
  BY PageAdds, WhatIsAsked, LenProperties DEF ReadInv
<1>2. read.limit \in Nat \cup {Unlimited}
  BY DEF ListTypeOK, Read
<1>3. read.limit # Unlimited => Len(all) < read.limit /\ read.limit # 0
  BY <1>1, <1>2 DEF LastPage, Limited, Unlimited
<1>4. Len(Answered) = RequestSize
  BY <1>1 DEF LastPage
<1> QED BY <1>1, <1>3, <1>4 DEF Unlimited

\* A page keeps the sizes, the offsets and the bound of the total.
LEMMA PageKeepsProgress ==
  ASSUME ListTypeOK, ReadInv, Page
  PROVE  Sized' /\ FirstPage' /\ TotalBounds'
<1> DEFINE all == read.records \o Answered
<1>1. /\ read.pc = "page" /\ UNCHANGED <<found, scan, changes>>
      /\ read'.pc \in {"page", "done"} /\ (read'.pc = "page" <=> ~LastPage(all))
      /\ read'.limit = read.limit /\ read'.start = read.start /\ read'.total = TotalOf
      /\ read'.records = IF Limited(all) THEN SubSeq(all, 1, read.limit) ELSE all
      /\ read'.offset = IF LastPage(all) THEN read.offset ELSE read.offset + RequestSize
      /\ read'.seen = IF read.offset = read.start THEN From(found.rows, read.start + 1) ELSE read.seen
  BY WhatPageDoes
<1>2. ~LastPage(all) =>
        /\ RequestSize > 0 /\ ~Limited(all)
        /\ read.limit # Unlimited => Len(all) < read.limit /\ read.limit # 0
  BY <1>1, NotLast DEF LastPage
<1>3. RequestSize \in Nat /\ read.offset \in Nat /\ read.start \in Nat /\ read.offset >= read.start
      /\ found.rows \in Seq(Row) /\ Len(found.rows) \in Nat
  BY <1>1, WhatIsAsked, LenProperties DEF ReadInv, FirstPage, ListTypeOK, Read, Answer
<1>4. read.offset = read.start => read.total = Unknown
  BY <1>1 DEF ReadInv, FirstPage
<1>5. read.offset # read.start => read.offset > read.start
  BY <1>3
<1> HIDE DEF all
<1>6. Sized'
  BY <1>1, <1>2 DEF Sized
<1>7. FirstPage'
  <2> SUFFICES ASSUME read'.pc = "page" PROVE FirstPage'
    BY DEF FirstPage
  <2>1. read'.offset > read'.start
    BY <1>1, <1>2, <1>3
  <2>2. found.counted => TotalOf # Unknown
    BY <1>3 DEF TotalOf, Unknown
  <2>3. read'.offset \in Nat /\ read'.start \in Nat
    BY <1>1, <1>3
  <2> QED BY <1>1, <2>1, <2>2, <2>3 DEF FirstPage
<1>8. TotalBounds'
  <2> DEFINE size(total) == IF total > read.start THEN total - read.start ELSE 0
  <2> SUFFICES ASSUME TotalOf # Unknown
               PROVE  IsFiniteSet(read'.seen) /\ Cardinality(read'.seen) <= size(TotalOf)
    BY <1>1 DEF TotalBounds
  <2>1. CASE read.offset = read.start
    <3>1. TotalOf = Len(found.rows)
      BY <1>4, <2>1 DEF TotalOf
    <3>2. /\ SubSeq(found.rows, read.start + 1, Len(found.rows)) \in Seq(Row)
          /\ ToSet(SubSeq(found.rows, read.start + 1, Len(found.rows))) = From(found.rows, read.start + 1)
          /\ Len(SubSeq(found.rows, read.start + 1, Len(found.rows))) = size(Len(found.rows))
      BY <1>3, EndOfSequence
    <3>3. read'.seen = From(found.rows, read.start + 1)
      BY <1>1, <2>1
    <3> QED BY <3>1, <3>2, <3>3, Elements
  <2>2. CASE read.offset # read.start
    <3>1. read.total # Unknown
      BY <1>1, <1>5, <2>2 DEF ReadInv, FirstPage, TotalOf
    <3>2. TotalOf = read.total /\ read'.seen = read.seen
      BY <1>1, <2>2, <3>1 DEF TotalOf
    <3> QED BY <1>1, <3>1, <3>2 DEF ReadInv, TotalBounds
  <2> QED BY <2>1, <2>2
<1> QED BY <1>6, <1>7, <1>8

\* A page reads rows that were not read before and matched at the first page.
LEMMA PageKeepsFresh ==
  ASSUME ListTypeOK, ReadInv, Page
  PROVE  Fresh' /\ AheadUnread'
<1> DEFINE all == read.records \o Answered
<1>1. /\ read.pc = "page" /\ UNCHANGED <<found, scan, changes>>
      /\ read'.pc \in {"page", "done"} /\ (read'.pc = "page" <=> ~LastPage(all))
      /\ read'.start = read.start
      /\ read'.records = IF Limited(all) THEN SubSeq(all, 1, read.limit) ELSE all
      /\ read'.offset = IF LastPage(all) THEN read.offset ELSE read.offset + RequestSize
      /\ read'.seen = IF read.offset = read.start THEN From(found.rows, read.start + 1) ELSE read.seen
  BY WhatPageDoes
<1>2. /\ all \in Seq(Row) /\ ToSet(all) = ToSet(read.records) \cup ToSet(Answered)
      /\ ToSet(Answered) \subseteq From(found.rows, read.offset + 1)
      /\ Len(Answered) = RequestSize =>
           ToSet(Answered) \subseteq Between(found.rows, read.offset + 1, read.offset + RequestSize)
      /\ changes.added = 0 => IsInjective(all)
  BY <1>1, PageAdds
<1>3. ~LastPage(all) => Len(Answered) = RequestSize /\ Len(Slice) = RequestSize /\ ~Limited(all)
  BY <1>1, NotLast DEF LastPage
<1>4. /\ RequestSize \in Nat /\ read.offset \in Nat /\ read.start \in Nat /\ Len(found.rows) \in Nat
      /\ DOMAIN found.rows = 1 .. Len(found.rows) /\ read.offset >= read.start
      /\ read.limit \in Nat \cup {Unlimited} /\ Len(all) \in Nat /\ DOMAIN all = 1 .. Len(all)
      /\ read.offset + Len(Slice) <= Len(found.rows) \/ Len(Slice) = 0
  BY <1>1, <1>2, WhatIsAsked, LenProperties DEF ReadInv, FirstPage, ListTypeOK, Read, Answer
<1>5. read.offset = read.start => read.records = <<>>
  BY <1>1 DEF ReadInv, FirstPage
<1> HIDE DEF all
<1> SUFFICES ASSUME changes.added = 0
             PROVE  Fresh' /\ AheadUnread'
  BY <1>1 DEF Fresh, AheadUnread
<1>6. IsInjective(found.rows) /\ IsInjective(all) /\ ToSet(read.records) \subseteq read.seen
  BY <1>1, <1>2 DEF ReadInv, Fresh
<1>7. ToSet(all) \subseteq read'.seen /\ From(found.rows, read.offset + 1) \subseteq read'.seen
      /\ From(found.rows, read.offset + 1) \cap ToSet(read.records) = {}
  <2>1. CASE read.offset = read.start
    <3>1. ToSet(read.records) = {}
      BY <1>5, <2>1 DEF ToSet
    <3> QED BY <1>1, <1>2, <2>1, <3>1
  <2>2. CASE read.offset # read.start
    <3>1. From(found.rows, read.offset + 1) \subseteq read.seen \ ToSet(read.records)
      BY <1>1, <1>4, <2>2 DEF ReadInv, AheadUnread
    <3> QED BY <1>1, <1>2, <1>6, <2>2, <3>1
  <2> QED BY <2>1, <2>2
<1>8. IsInjective(read'.records) /\ ToSet(read'.records) \subseteq ToSet(all)
  <2>1. CASE Limited(all)
    <3> DEFINE t == SubSeq(all, 1, read.limit)
    <3>1. read.limit \in 0 .. Len(all)
      BY <1>4, <2>1 DEF Limited
    <3>2. DOMAIN t = 1 .. read.limit /\ \A i \in 1 .. read.limit : t[i] = all[i] /\ i \in 1 .. Len(all)
      BY <1>2, <1>4, <3>1
    <3> HIDE DEF t
    <3>3. IsInjective(t) /\ ToSet(t) \subseteq ToSet(all)
      BY <1>4, <1>6, <3>2 DEF IsInjective, ToSet
    <3> QED BY <1>1, <2>1, <3>3 DEF t
  <2>2. CASE ~Limited(all)
    <3>1. read'.records = all
      BY <1>1, <2>2
    <3> QED BY <1>6, <3>1
  <2> QED BY <2>1, <2>2
<1>9. Fresh'
  BY <1>1, <1>6, <1>7, <1>8 DEF Fresh
<1>10. AheadUnread'
  <2> SUFFICES ASSUME ~LastPage(all)
               PROVE  From(found.rows, read'.offset + 1) \subseteq read'.seen \ ToSet(read'.records)
    <3>1. read'.pc = "page" => ~LastPage(all)
      BY <1>1
    <3>2. found' = found
      BY <1>1
    <3> QED BY <3>1, <3>2 DEF AheadUnread
  <2>1. read'.offset = read.offset + RequestSize /\ read'.records = all
    <3>1. ~Limited(all)
      BY <1>3
    <3> QED BY <1>1, <3>1
  <2>2. From(found.rows, read'.offset + 1) \subseteq From(found.rows, read.offset + 1)
    BY <1>4, <2>1 DEF From
  <2>3. ASSUME NEW i \in read'.offset + 1 .. Len(found.rows),
               NEW j \in read.offset + 1 .. read.offset + RequestSize
        PROVE  found.rows[i] # found.rows[j]
    <3>1. i \in 1 .. Len(found.rows) /\ j \in 1 .. Len(found.rows) /\ i # j
      BY <1>3, <1>4, <2>1
    <3> QED BY <1>4, <1>6, <3>1 DEF IsInjective
  <2>4. From(found.rows, read'.offset + 1) \cap ToSet(Answered) = {}
    BY <1>2, <1>3, <2>3 DEF From, Between
  <2> QED BY <1>2, <1>7, <2>1, <2>2, <2>4
<1> QED BY <1>9, <1>10

\* Where nobody changes or hides anything, a page leaves no gap behind it.
LEMMA PageKeepsAll ==
  ASSUME ListTypeOK, ReadInv, Page
  PROVE  Contiguous' /\ ReadAll'
<1> DEFINE all == read.records \o Answered
<1>1. /\ read.pc = "page" /\ UNCHANGED <<found, scan, changes>>
      /\ read'.pc \in {"page", "done"} /\ (read'.pc = "page" <=> ~LastPage(all))
      /\ read'.start = read.start
      /\ read'.records = IF Limited(all) THEN SubSeq(all, 1, read.limit) ELSE all
      /\ read'.more = (Limited(all) /\ (Len(all) > read.limit \/ Len(Answered) = RequestSize))
      /\ read'.offset = IF LastPage(all) THEN read.offset ELSE read.offset + RequestSize
      /\ read'.seen = IF read.offset = read.start THEN From(found.rows, read.start + 1) ELSE read.seen
  BY WhatPageDoes
<1>2. /\ all \in Seq(Row) /\ Len(all) = Len(read.records) + Len(Answered)
      /\ ToSet(all) = ToSet(read.records) \cup ToSet(Answered) /\ Len(Answered) <= RequestSize
      /\ found.hidden = {} => Len(Answered) = Len(Slice) /\ ToSet(Answered) = ToSet(Slice)
  BY <1>1, PageAdds
<1>3. ~LastPage(all) => Len(Slice) = RequestSize /\ RequestSize > 0 /\ ~Limited(all)
  BY <1>1, NotLast DEF LastPage
<1>4. /\ RequestSize \in Nat /\ read.offset \in Nat /\ read.start \in Nat /\ Len(found.rows) \in Nat
      /\ read.offset >= read.start /\ DOMAIN found.rows = 1 .. Len(found.rows)
      /\ read.limit \in Nat \cup {Unlimited} /\ Len(read.records) \in Nat /\ Len(Answered) \in Nat
      /\ Len(Slice) \in Nat
      /\ read.limit # Unlimited => RequestSize <= read.limit - Len(read.records)
      /\ read.offset + Len(Slice) <= Len(found.rows) \/ Len(Slice) = 0
      /\ Len(Slice) < RequestSize => read.offset + Len(Slice) >= Len(found.rows)
      /\ ToSet(Slice) = Between(found.rows, read.offset + 1, read.offset + Len(Slice))
  BY <1>1, PageAdds, WhatIsAsked, LenProperties DEF ReadInv, FirstPage, ListTypeOK, Read, Answer
<1> HIDE DEF all
<1> SUFFICES ASSUME NothingChanged
             PROVE  Contiguous' /\ ReadAll'
  BY <1>1 DEF Contiguous, ReadAll, NothingChanged
<1>5. Len(Answered) = Len(Slice) /\ ToSet(Answered) = ToSet(Slice)
  BY <1>2 DEF NothingChanged
<1>6. read'.seen = From(found.rows, read.start + 1)
      /\ Between(found.rows, read.start + 1, read.offset) \subseteq ToSet(read.records)
  <2>1. CASE read.offset = read.start
    <3>1. Between(found.rows, read.start + 1, read.offset) = {}
      BY <1>4, <2>1 DEF Between
    <3> QED BY <1>1, <2>1, <3>1
  <2>2. CASE read.offset # read.start
    BY <1>1, <1>4, <2>2 DEF ReadInv, Contiguous
  <2> QED BY <2>1, <2>2
<1>7. Contiguous'
  <2> SUFFICES ASSUME ~LastPage(all)
               PROVE  /\ read'.offset <= Len(found.rows)
                      /\ Between(found.rows, read.start + 1, read'.offset) \subseteq ToSet(read'.records)
    BY <1>1, <1>6 DEF Contiguous
  <2>1. read'.offset = read.offset + RequestSize /\ read'.records = all
    BY <1>1, <1>3
  <2>2. read'.offset <= Len(found.rows)
    BY <1>3, <1>4, <2>1
  <2>3. Between(found.rows, read.start + 1, read'.offset)
          \subseteq Between(found.rows, read.start + 1, read.offset)
                      \cup Between(found.rows, read.offset + 1, read'.offset)
    BY <1>4, <2>1 DEF Between
  <2>4. Between(found.rows, read.offset + 1, read'.offset) = ToSet(Answered)
    BY <1>3, <1>4, <1>5, <2>1
  <2> QED BY <1>2, <1>6, <2>1, <2>2, <2>3, <2>4
<1>8. ReadAll'
  <2> SUFFICES ASSUME LastPage(all), ~read'.more
               PROVE  Complete'
    BY <1>1 DEF ReadAll
  <2>1. ~Limited(all)
    <3> SUFFICES ASSUME Limited(all)
                 PROVE  FALSE
      OBVIOUS
    <3>1. read.limit \in Nat /\ Len(all) >= read.limit /\ RequestSize <= read.limit - Len(read.records)
      BY <1>4 DEF Limited
    <3>2. Len(all) > read.limit \/ Len(Answered) = RequestSize
      BY <1>2, <1>4, <3>1
    <3>3. read'.more
      BY <1>1, <3>2, Zenon
    <3> QED BY <3>3
  <2>2. Len(Answered) < RequestSize /\ read'.records = all
    BY <1>1, <2>1 DEF LastPage
  <2>3. read.offset + Len(Slice) >= Len(found.rows)
    BY <1>4, <1>5, <2>2
  <2>4. From(found.rows, read.start + 1)
          \subseteq Between(found.rows, read.start + 1, read.offset)
                      \cup Between(found.rows, read.offset + 1, read.offset + Len(Slice))
    BY <1>4, <2>3 DEF From, Between
  <2>5. read'.seen \subseteq ToSet(read'.records)
    BY <1>2, <1>4, <1>5, <1>6, <2>2, <2>4
  <2> QED BY <2>5 DEF Complete
<1> QED BY <1>7, <1>8

----------------------------------------------------------------------------
(* The inventory                                                           *)

\* The next query of an inventory is one of those left.
LEMMA NextQueryTyped ==
  ASSUME NEW st \in Scan, st.groups # <<>>
  PROVE  NextQuery(st) \in Scan /\ NextQuery(st).pc = "next"
<1> DEFINE left0 == Head(st.groups) - 1
           groups == IF left0 = 0 THEN Tail(st.groups) ELSE <<left0>> \o Tail(st.groups)
           got == IF left0 = 0 THEN 0 ELSE st.got
<1>1. st.groups \in Seq(Nat \ {0}) /\ st.got \in Nat
  BY DEF Scan
<1>2. Head(st.groups) \in Nat \ {0} /\ Tail(st.groups) \in Seq(Nat \ {0})
  BY <1>1, HeadTailProperties
<1>3. left0 \in Nat
  BY <1>2
<1>4. groups \in Seq(Nat \ {0})
  <2>1. CASE left0 = 0
    BY <1>2, <2>1
  <2>2. CASE left0 # 0
    <3>1. left0 \in Nat \ {0}
      BY <1>3, <2>2
    <3> HIDE DEF left0
    <3>2. <<left0>> \in Seq(Nat \ {0})
      BY <3>1
    <3>3. <<left0>> \o Tail(st.groups) \in Seq(Nat \ {0})
      BY <1>2, <3>2, ConcatProperties
    <3> QED BY <2>2, <3>3
  <2> QED BY <2>1, <2>2
<1>5. got \in Nat
  BY <1>1
<1>6. NextQuery(st) = [st EXCEPT !.pc = "next", !.groups = groups, !.got = got]
  BY DEF NextQuery
<1> HIDE DEF left0, groups, got
<1> QED BY <1>4, <1>5, <1>6 DEF Scan

\* The steps of an inventory keep the invariant of listings.
LEMMA ScanKeeps ==
  ASSUME Lists,
         SkipPlatformTables \/ ScanQuery \/ ScanTake \/ ScanFilter \/ ScanWarns \/ ScanCapped \/ ScanEnds
  PROVE  Lists'
<1> USE DEF Lists
<1>1. /\ scan \in Scan /\ read \in Read /\ scan.groups \in Seq(Nat \ {0}) /\ scan.got \in Nat
      /\ scan.limit \in Nat \cup {Unlimited} /\ read.records \in Seq(Row) /\ Len(read.records) \in Nat
      /\ scan.warned \in BOOLEAN /\ scan.skipped \in BOOLEAN
  BY LenProperties DEF ListTypeOK, Scan, Read
<1>2. ASSUME UNCHANGED <<found, read, changes>>, scan' \in Scan, scan'.pc # "reading"
      PROVE  Lists'
  BY <1>2, SameList DEF ListTypeOK, QueryLeft
<1>3. ASSUME Forget, scan' \in Scan, scan'.pc # "reading"
      PROVE  Lists'
  BY <1>3, ForgetKeeps DEF ListTypeOK, QueryLeft
<1>4. ASSUME NEW st \in Scan, st.groups = scan.groups, scan.pc = "reading", scan' = NextQuery(st)
      PROVE  scan' \in Scan /\ scan'.pc # "reading"
  BY <1>4, NextQueryTyped DEF QueryLeft
<1>5. CASE SkipPlatformTables
  <2>1. scan' = [scan EXCEPT !.groups = <<>>, !.warned = TRUE] /\ scan.pc = "next"
    BY <1>5 DEF SkipPlatformTables
  <2>2. <<>> \in Seq(Nat \ {0})
    OBVIOUS
  <2>3. \A g \in Seq(Nat \ {0}) :
          /\ [scan EXCEPT !.groups = g, !.warned = TRUE] \in Scan
          /\ [scan EXCEPT !.groups = g, !.warned = TRUE].pc = scan.pc
    BY <1>1 DEF Scan
  <2> DEFINE none == <<>>
  <2>4. scan' = [scan EXCEPT !.groups = none, !.warned = TRUE] /\ scan.pc # "reading" /\ none \in Seq(Nat \ {0})
    BY <2>1, <2>2
  <2> HIDE DEF none
  <2>5. scan' \in Scan /\ scan'.pc # "reading"
    BY <2>3, <2>4
  <2> QED BY <1>2, <1>5, <2>5 DEF SkipPlatformTables
<1>6. CASE ScanQuery
  <2>1. Ask(Remaining, 0) /\ Remaining > 0 /\ scan.groups # <<>>
        /\ scan' = [scan EXCEPT !.pc = "reading"]
    BY <1>6 DEF ScanQuery
  <2>2. Remaining \in Nat
    BY <1>1, <2>1 DEF Remaining, Unlimited
  <2>3. scan' \in Scan /\ scan'.groups # <<>>
    BY <1>1, <2>1 DEF Scan
  <2> QED BY <2>1, <2>2, <2>3, AskKeeps DEF ListTypeOK, QueryLeft
<1>7. CASE ScanTake
  <2> DEFINE short0 == IF scan.mode = "count" THEN read.total = Unknown ELSE Truncated
             warned == scan.warned \/ short0
             st == [scan EXCEPT !.got = scan.got + Len(read.records), !.warned = warned]
  <2>1. scan' = NextQuery(st) /\ scan.pc = "reading" /\ Forget
    BY <1>7 DEF ScanTake
  <2>2. warned \in BOOLEAN
    OBVIOUS
  <2>3. \A n \in Nat, w \in BOOLEAN : [scan EXCEPT !.got = n, !.warned = w] \in Scan
    BY <1>1 DEF Scan
  <2>4. st \in Scan
    <3>1. scan.got + Len(read.records) \in Nat
      BY <1>1
    <3>2. st = [scan EXCEPT !.got = scan.got + Len(read.records), !.warned = warned]
      OBVIOUS
    <3> HIDE DEF st, warned
    <3> QED BY <2>2, <2>3, <3>1, <3>2
  <2>5. st.groups = scan.groups
    BY <1>1 DEF Scan
  <2> HIDE DEF st
  <2> QED BY <1>3, <1>4, <2>1, <2>4, <2>5
<1>8. CASE ScanFilter \/ ScanWarns
  <2> DEFINE st == [scan EXCEPT !.warned = TRUE]
  <2>1. scan' = NextQuery(st) /\ scan.pc = "reading" /\ Forget
    BY <1>8 DEF ScanFilter, ScanWarns
  <2>2. st \in Scan /\ st.groups = scan.groups
    BY <1>1 DEF Scan
  <2> HIDE DEF st
  <2> QED BY <1>3, <1>4, <2>1, <2>2
<1>9. CASE ScanCapped
  <2>1. PICK answer \in Answers :
          scan' = [scan EXCEPT !.groups = Tail(@), !.got = 0, !.skipped = @ \/ answer.rows # <<>>]
    BY <1>9, Zenon DEF ScanCapped
  <2> DEFINE skipped == scan.skipped \/ answer.rows # <<>>
  <2>2. skipped \in BOOLEAN
    OBVIOUS
  <2>3. scan.pc = "next" /\ scan.groups # <<>> /\ UNCHANGED <<found, read, changes>>
    BY <1>9, Zenon DEF ScanCapped
  <2>4. scan.pc # "reading" /\ Tail(scan.groups) \in Seq(Nat \ {0})
    BY <1>1, <2>3, HeadTailProperties
  <2>5. \A s \in BOOLEAN : /\ [scan EXCEPT !.groups = Tail(scan.groups), !.got = 0, !.skipped = s] \in Scan
                           /\ [scan EXCEPT !.groups = Tail(scan.groups), !.got = 0, !.skipped = s].pc = scan.pc
    BY <1>1, <2>4 DEF Scan
  <2>6. scan' = [scan EXCEPT !.groups = Tail(scan.groups), !.got = 0, !.skipped = skipped]
    BY <2>1
  <2> HIDE DEF skipped
  <2>7. scan' \in Scan /\ scan'.pc # "reading"
    BY <2>2, <2>4, <2>5, <2>6
  <2> QED BY <1>2, <2>3, <2>7
<1>10. CASE ScanEnds
  <2>1. scan' = [scan EXCEPT !.pc = "done"]
    BY <1>10 DEF ScanEnds
  <2>2. scan' \in Scan /\ scan'.pc # "reading"
    BY <1>1, <2>1 DEF Scan
  <2> QED BY <1>2, <1>10, <2>2 DEF ScanEnds
<1> QED BY <1>5, <1>6, <1>7, <1>8, <1>9, <1>10

\* A page keeps the invariant of listings.
LEMMA PageKeeps ==
  ASSUME Lists, Page
  PROVE  Lists'
<1>1. ListTypeOK /\ ReadInv /\ QueryLeft
  BY DEF Lists
<1> DEFINE all == read.records \o Answered
<1>2. read' \in Read /\ UNCHANGED <<found, scan, changes>>
  BY <1>1, WhatPageDoes
<1>3. ReadInv'
  BY <1>1, PageKeepsProgress, PageKeepsFresh, PageKeepsAll DEF ReadInv
<1>4. ListTypeOK'
  BY <1>1, <1>2 DEF ListTypeOK
<1> QED BY <1>1, <1>2, <1>3, <1>4 DEF Lists, QueryLeft

\* An inventory begins with the queries of all its tables.
LEMMA StartScanKeeps ==
  ASSUME Lists, StartScan
  PROVE  Lists'
<1>1. PICK mode \in {"count", "enumerate"} : BeginScan(mode)
  BY DEF StartScan
<1>2. UNCHANGED <<found, read, changes>>
  BY <1>1 DEF BeginScan
<1>3. PICK limit \in Limits :
        scan' = [NoScan EXCEPT !.pc = "next", !.mode = mode, !.groups = Chunks,
                               !.limit = IF mode = "count" THEN 1 ELSE limit]
  BY <1>1 DEF BeginScan
<1>4. NoScan \in Scan
  BY DEF NoScan, Scan
<1> DEFINE most == IF mode = "count" THEN 1 ELSE limit
<1>5. most \in Nat /\ Chunks \in Seq(Nat \ {0})
  BY LimitAssumption, ChunkAssumption
<1>6. scan' = [NoScan EXCEPT !.pc = "next", !.mode = mode, !.groups = Chunks, !.limit = most]
  BY <1>3
<1> HIDE DEF most
<1>7. \A st \in Scan :
        /\ [st EXCEPT !.pc = "next", !.mode = mode, !.groups = Chunks, !.limit = most] \in Scan
        /\ [st EXCEPT !.pc = "next", !.mode = mode, !.groups = Chunks, !.limit = most].pc = "next"
  BY <1>5 DEF Scan
<1>8. scan' \in Scan /\ scan'.pc = "next"
  BY <1>4, <1>6, <1>7
<1> QED BY <1>2, <1>8, SameList DEF Lists, ListTypeOK, QueryLeft

\* The invariant of listings is inductive.
LEMMA ListStep == Lists /\ [Next]_vars => Lists'
<1> SUFFICES ASSUME Lists, [Next]_vars
             PROVE  Lists'
  OBVIOUS
<1>1. ListTypeOK /\ ReadInv /\ QueryLeft
  BY DEF Lists
<1>2. ASSUME UNCHANGED scan,
             /\ found' \in Answer /\ read' \in Read
             /\ changes' \in [added : 0 .. MaxChanges, deleted : 0 .. MaxChanges]
             /\ ReadInv'
      PROVE  Lists'
  BY <1>1, <1>2 DEF Lists, ListTypeOK, QueryLeft
<1>3. ASSUME UNCHANGED listVars
      PROVE  Lists'
  BY <1>1, <1>2, <1>3, SameList DEF listVars
<1>4. CASE \/ Parse \/ PolicyDenies \/ NoConfig \/ Dispatch \/ Pass \/ Fail \/ Decline \/ RequestDenied
           \/ CarriedOut \/ PartlyCarriedOut \/ AnswerLost \/ Finish \/ UNCHANGED vars
  BY <1>3, <1>4 DEF Parse, PolicyDenies, NoConfig, Dispatch, Pass, Fail, Decline, RequestDenied, CarriedOut,
     PartlyCarriedOut, AnswerLost, Finish, vars, listVars
<1>5. CASE StartList
  <2>1. PICK q \in Queries : Ask(q.limit, q.offset)
    BY <1>5 DEF StartList
  <2>2. q.limit \in Nat \cup {Unlimited} /\ q.offset \in Nat /\ UNCHANGED scan
    BY <1>5, LimitAssumption DEF StartList
  <2> QED BY <1>2, <2>1, <2>2, AskKeeps
<1>6. CASE EndList \/ FailList
  BY <1>2, <1>6, ForgetKeeps DEF EndList, FailList
<1>7. CASE StartScan
  BY <1>7, StartScanKeeps
<1>8. CASE EndScan
  <2>1. scan' \in Scan /\ scan'.pc # "reading" /\ UNCHANGED <<found, read, changes>>
    BY <1>8 DEF EndScan, NoScan, Scan
  <2> QED BY <1>1, <2>1, SameList DEF Lists, ListTypeOK, QueryLeft
<1>9. CASE Page
  BY <1>9, PageKeeps
<1>10. CASE PageFails
  BY <1>1, <1>2, <1>10, PageFailsKeeps DEF PageFails
<1>11. CASE OthersDelete \/ OthersAdd
  BY <1>1, <1>2, <1>11, OthersKeepList DEF OthersDelete, OthersAdd
<1>12. CASE SkipPlatformTables \/ ScanQuery \/ ScanTake \/ ScanFilter \/ ScanWarns \/ ScanCapped \/ ScanEnds
  BY <1>12, ScanKeeps
<1> QED BY <1>4, <1>5, <1>6, <1>7, <1>8, <1>9, <1>10, <1>11, <1>12 DEF Next, ListNext

\* The invariant of listings holds at the start.
LEMMA InitLists == Init => Lists
<1> SUFFICES ASSUME ListInit PROVE Lists
  BY DEF Init
<1>1. found \in Answer
  BY DEF ListInit, Nothing, Answer
<1>2. read \in Read /\ read.pc = "idle"
  BY DEF ListInit, NoRead, Read
<1>3. scan \in Scan /\ scan.pc # "reading"
  BY DEF ListInit, NoScan, Scan
<1>4. changes \in [added : 0 .. MaxChanges, deleted : 0 .. MaxChanges]
  BY LimitAssumption DEF ListInit, NoChanges
<1>5. ReadInv
  BY <1>2 DEF ReadInv, Sized, FirstPage, Fresh, AheadUnread, TotalBounds, Contiguous, ReadAll
<1> QED BY <1>1, <1>2, <1>3, <1>4, <1>5 DEF Lists, ListTypeOK, QueryLeft

\* With a total, as many rows as matched at the first page were read, each of
\* them once, so all of them were; without, ReadAll says it.
LEMMA WhatListsShow == Lists => ListingHonest
<1> SUFFICES ASSUME Lists, read.pc = "done", ~Truncated, changes.added = 0,
                    IF read.total # Unknown THEN read.records # <<>>
                                            ELSE changes.deleted = 0 /\ found.hidden = {}
             PROVE  Complete
  BY DEF ListingHonest
<1>1. read \in Read /\ read.records \in Seq(Row) /\ Len(read.records) \in Nat /\ read.start \in Nat
  BY LenProperties DEF Lists, ListTypeOK, Read
<1>2. CASE read.total # Unknown
  <2>1. read.total \in Nat /\ Len(read.records) # 0
    BY <1>1, <1>2 DEF Read
  <2>2. read.start + Len(read.records) >= read.total
    BY <1>1, <1>2, <2>1 DEF Truncated
  <2>3. IsInjective(read.records) /\ ToSet(read.records) \subseteq read.seen
    BY DEF Lists, ReadInv, Fresh
  <2>4. Cardinality(ToSet(read.records)) = Len(read.records)
    BY <1>1, <2>3, Elements
  <2>5. /\ IsFiniteSet(read.seen)
        /\ Cardinality(read.seen) <= IF read.total > read.start THEN read.total - read.start ELSE 0
    BY <1>2 DEF Lists, ReadInv, TotalBounds
  <2>6. Cardinality(read.seen) \in Nat
    BY <2>5, FS_CardinalityType
  <2>7. Cardinality(read.seen) <= Cardinality(ToSet(read.records))
    BY <1>1, <2>1, <2>2, <2>4, <2>5, <2>6
  <2>8. ToSet(read.records) = read.seen
    BY <1>1, <2>3, <2>4, <2>5, <2>6, <2>7, FS_Subset
  <2> QED BY <2>8 DEF Complete
<1>3. CASE read.total = Unknown
  <2>1. ~read.more
    BY <1>3 DEF Truncated
  <2>2. NothingChanged
    BY <1>3 DEF NothingChanged
  <2> QED BY <2>1, <2>2 DEF Lists, ReadInv, ReadAll
<1> QED BY <1>2, <1>3

----------------------------------------------------------------------------
(* Theorems                                                                *)

\* Both invariants hold of every process.
LEMMA ProcessAndLists == Spec => [](Process /\ Lists)
<1>1. Init => Process /\ Lists
  BY InitProcess, InitLists
<1>2. (Process /\ Lists) /\ [Next]_vars => (Process /\ Lists)'
  BY ProcessStep, ListStep
<1> QED BY <1>1, <1>2, PTL DEF Spec

\* Every variable of a process, of its listing and of its inventory has its
\* type, and what is left of a command is the end of its steps.
THEOREM TypeCorrect == Spec => []TypeOK
<1>1. Process /\ Lists => TypeOK
  BY DEF Process, Lists, TypeOK
<1> QED BY <1>1, ProcessAndLists, PTL

\* snow-cli-ro changes nothing on the instance, and snow-cli --read-only nothing but
\* through the tabs that `snu slash` and `snu tab activate` drive: any other command
\* is refused by the command table or has no change that the client lets through.
THEOREM ReadOnlySafe == Spec => []ReadOnlyKeepsInstance
<1>1. Process => ReadOnlyKeepsInstance
  BY DEF Process
<1> QED BY <1>1, ProcessAndLists, PTL

\* A process says what it did: no "never retry" after a change (but by login and
\* cleanup, which make several requests, and INVALID_JSON), and success only
\* after every change of the command, or with a report of what is missing.
THEOREM OutcomesHonest == Spec => []OutcomeHonest
<1>1. Process => OutcomeHonest
  BY DEF Process
<1> QED BY <1>1, ProcessAndLists, PTL

\* The page loop of client/table.rs: a listing that does not say that it is
\* truncated is complete, for any answers, limit, offset and page size.
THEOREM ListingsHonest == Spec => []ListingHonest
<1> QED BY WhatListsShow, ProcessAndLists, PTL
=============================================================================
