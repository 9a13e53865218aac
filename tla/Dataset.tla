-------------------------------- MODULE Dataset --------------------------------
(***************************************************************************)
(* The data commands: export, export-package, validate and import           *)
(* (src/cli/commands/data).  A package carries references by the value of   *)
(* a source key instead of by sys_id; the import creates the tables in      *)
(* dependency order and maps every value to the sys_id just created.        *)
(*                                                                         *)
(* One process runs one command at a time and may be killed at any step;    *)
(* the source instance changes while tables are fetched.  A record has one  *)
(* source key and one reference field per table it refers to.  Tables are   *)
(* numbered in the order of their names.                                    *)
(***************************************************************************)
EXTENDS Naturals, Sequences, FiniteSets, SequencesExt

CONSTANTS
  Tables,      \* table numbers
  Ids,         \* numbers of the records that match the query of the export
  TableOf,     \* the table of each
  Keys,        \* values of source keys, display fields and the like
  Shapes,      \* export specs: a relation "refers to" and one "depends on"
  Sources,     \* source instances at the beginning
  Schemas,     \* fields that can be written, on the source and the target
  MaxRows,     \* bound: records created on the target
  MaxChanges,  \* bound: changes of the source instance
  MaxCommands  \* bound: commands

Missing == 0   \* a table a spec refers to but does not list
None == 0      \* no record, no key, an empty sys_id
Shape == [refs : SUBSET (Tables \X (Tables \cup {Missing})),
          after : SUBSET (Tables \X (Tables \cup {Missing}))]
SourceRecord == [here : BOOLEAN, key : Keys \cup {None}, to : [Tables -> Ids \cup {None}]]

ASSUME TablesAssumption ==
  Tables \subseteq Nat \ {Missing} /\ IsFiniteSet(Tables) /\ Tables # {}
ASSUME IdsAssumption ==
  Ids \subseteq Nat \ {None} /\ IsFiniteSet(Ids) /\ TableOf \in [Ids -> Tables]
ASSUME InputAssumption == Shapes \subseteq Shape /\ Sources \subseteq [Ids -> SourceRecord]
ASSUME BoundAssumption == MaxRows \in Nat /\ MaxChanges \in Nat /\ MaxCommands \in Nat

VARIABLES
  source,   \* records of the source instance that match
  schema,   \* writable fields of both instances
  dir,      \* the package directory and the file of a flat export
  rows,     \* records created on the target, in order
  cmd,      \* the command that runs
  count     \* [commands, changes, exports so far]

dataVars == <<source, schema, dir, rows, cmd, count>>

Fields == {"key", "link", "system"}
NoShape == [refs |-> {}, after |-> {}]
NoFile == [state |-> "absent", by |-> 0, table |-> Missing, fields |-> {}, records |-> <<>>]
NoManifest == [state |-> "absent", by |-> 0, shape |-> NoShape]

NoCommand == [op |-> "none", pc |-> "idle", shape |-> NoShape,
              todo |-> <<>>,                         \* tables still to process
              raw |-> [t \in Tables |-> <<>>],       \* raw_records_by_table
              index |-> 1,                           \* next record of the table
              ids |-> {},                            \* source_to_target_ids
              first |-> 1,                           \* the first row it may create (history)
              staged |-> FALSE,                      \* --import-set-table
              created |-> 0, failed |-> 0, outcome |-> "none"]

----------------------------------------------------------------------------
(* Dependency order.                                                       *)

DependsOn(shape) == shape.refs \cup shape.after
Orders == [1 .. Cardinality(Tables) -> Tables]

\* The place of the last table that the table at place i depends on.
ReadyAfter(order, i, deps) == Max({0} \cup {j \in DOMAIN order : <<order[i], order[j]>> \in deps})

\* topo_sort_dependencies: tables leave the queue in the order in which they
\* became ready, those that became ready together by their names.
IsImportOrder(order, deps) ==
  /\ IsInjective(order)
  /\ \A i \in DOMAIN order : ReadyAfter(order, i, deps) < i
  /\ \A i, j \in DOMAIN order :
       i < j => \/ ReadyAfter(order, i, deps) < ReadyAfter(order, j, deps)
                \/ ReadyAfter(order, i, deps) = ReadyAfter(order, j, deps) /\ order[i] < order[j]

\* topological_table_order, topological_manifest_order
OrderOf(shape) == CHOOSE order \in Orders : IsImportOrder(order, DependsOn(shape))
IsAcceptable(shape) ==
  /\ \A d \in DependsOn(shape) : d[2] # Missing
  /\ \E order \in Orders : IsImportOrder(order, DependsOn(shape))
Acceptable == {shape \in Shapes : IsAcceptable(shape)}
ImportOrder == [shape \in Acceptable |-> OrderOf(shape)]

----------------------------------------------------------------------------
(* Commands.                                                               *)

At(op, pc) == cmd.op = op /\ cmd.pc = pc

Start(command) ==
  /\ cmd.pc = "idle" /\ count.commands < MaxCommands
  /\ cmd' = [command EXCEPT !.first = Len(rows) + 1]
  /\ count' = [count EXCEPT !.commands = @ + 1]

End(outcome) == cmd' = [NoCommand EXCEPT !.op = cmd.op, !.outcome = outcome, !.first = cmd.first,
                                         !.created = cmd.created, !.failed = cmd.failed,
                                         !.staged = cmd.staged]
Unchanged == UNCHANGED <<source, schema, count>>

\* A request or an access to a file fails, or the process is killed.
Fails ==
  /\ cmd.pc \in {"fetch", "write", "import"} /\ End("aborted")
  /\ UNCHANGED <<dir, rows>> /\ Unchanged

----------------------------------------------------------------------------
(* data export-package                                                     *)

BeginExport ==
  \E shape \in Shapes :
    /\ Start(IF shape \in Acceptable
             THEN [NoCommand EXCEPT !.op = "package", !.pc = "fetch", !.shape = shape,
                                    !.todo = ImportOrder[shape]]
             ELSE [NoCommand EXCEPT !.op = "package", !.outcome = "failed"])
    /\ UNCHANGED <<source, schema, dir, rows>>

\* A set of numbers in ascending order.
Ascending(S) == [k \in 1 .. Cardinality(S) |-> CHOOSE i \in S : Cardinality({j \in S : j <= i}) = k]

\* What a query for a table returns now.
Selected(table) ==
  LET ids == Ascending({i \in Ids : TableOf[i] = table /\ source[i].here})
  IN  [k \in DOMAIN ids |-> [from |-> ids[k], key |-> source[ids[k]].key, to |-> source[ids[k]].to]]

FetchTable ==
  /\ At("package", "fetch")
  /\ cmd' = LET fetched == [cmd EXCEPT !.raw[Head(cmd.todo)] = Selected(Head(cmd.todo))]
            IN  IF Len(cmd.todo) > 1 THEN [fetched EXCEPT !.todo = Tail(@)]
                ELSE [fetched EXCEPT !.pc = "write", !.todo = ImportOrder[cmd.shape]]
  /\ UNCHANGED <<dir, rows>> /\ Unchanged

Targets(shape, table) == {t \in Tables : <<table, t>> \in shape.refs}

\* source_value_indexes: the key of a record among those that were fetched.
WithKey(table, id) == {r \in ToSet(cmd.raw[table]) : r.from = id /\ r.key # None}
IsExportable(table) ==
  \A r \in ToSet(cmd.raw[table]), t \in Targets(cmd.shape, table) :
    r.to[t] = None \/ WithKey(t, r.to[t]) # {}

\* build_dataset_table_artifact: references become placeholders, an empty one
\* null.  "meant" is not in the file: it is what the placeholder stands for.
Artifact(table, number) ==
  LET meant(r) == [t \in Tables |-> IF t \in Targets(cmd.shape, table) THEN r.to[t] ELSE None]
      value(t, id) == IF id = None THEN None ELSE (CHOOSE r \in WithKey(t, id) : TRUE).key
  IN  [state |-> "whole", by |-> number, table |-> table, fields |-> Fields \ {"system"},
       records |-> [k \in DOMAIN cmd.raw[table] |->
         LET r == cmd.raw[table][k]
         IN  [from |-> r.from, key |-> r.key, meant |-> meant(r),
              values |-> [t \in Tables |-> value(t, meant(r)[t])]]]]

\* Files are numbered by the command that wrote them (history).
WriteTable ==
  /\ At("package", "write") /\ cmd.todo # <<>>
  /\ LET table == Head(cmd.todo)
     IN  IF IsExportable(table)
         THEN /\ dir' = [dir EXCEPT !.files[table] = Artifact(table, count.commands)]
              /\ cmd' = [cmd EXCEPT !.todo = Tail(@)]
         ELSE End("failed") /\ UNCHANGED dir
  /\ UNCHANGED rows /\ Unchanged

WriteManifest ==
  /\ At("package", "write") /\ cmd.todo = <<>>
  /\ dir' = [dir EXCEPT !.manifest = [state |-> "whole", by |-> count.commands, shape |-> cmd.shape]]
  /\ End("ok")
  /\ UNCHANGED rows /\ Unchanged

\* write_json_file was cut after it had created the file.
WriteCut ==
  /\ At("package", "write") /\ End("failed")
  /\ dir' = IF cmd.todo = <<>> THEN [dir EXCEPT !.manifest.state = "cut"]
            ELSE [dir EXCEPT !.files[Head(cmd.todo)].state = "cut"]
  /\ UNCHANGED rows /\ Unchanged

----------------------------------------------------------------------------
(* data export                                                             *)

\* With --import-ready, prepare_import_ready_export drops what cannot be written.
Prepared(importReady) == IF importReady THEN Fields \cap schema.source ELSE Fields

FlatArtifact(table, importReady) ==
  LET none == [t \in Tables |-> None] IN
  [state |-> "whole", by |-> count.commands + 1, table |-> table, fields |-> Prepared(importReady),
   records |-> [k \in DOMAIN Selected(table) |->
     [from |-> Selected(table)[k].from, key |-> Selected(table)[k].key,
      values |-> none, meant |-> none]]]

ExportFlat ==
  /\ Start([NoCommand EXCEPT !.op = "flat"])
  /\ \/ \E table \in {TableOf[i] : i \in Ids}, importReady \in BOOLEAN :
          dir' = [dir EXCEPT !.flat = FlatArtifact(table, importReady)]
     \/ dir' = [dir EXCEPT !.flat.state = "cut"]
  /\ UNCHANGED <<source, schema, rows>>

----------------------------------------------------------------------------
(* data validate                                                           *)

\* build_table_validation_report: every field can be written, no mandatory field
\* is missing.
IsImportable(file) == file.fields \subseteq schema.target /\ schema.required \subseteq file.fields

\* build_package_validation_report: placeholders match the manifest, none is null,
\* and every value occurs in the file of its target.
IsResolvable(shape, files) ==
  \A t \in Tables : \A k \in DOMAIN files[t].records : \A target \in Targets(shape, t) :
    LET value == files[t].records[k].values[target]
    IN  value # None /\ \E r \in ToSet(files[target].records) : r.key = value

Readable == \A t \in Tables : dir.files[t].state = "whole"
IsReady(flat) ==
  IF flat THEN dir.flat.state = "whole" /\ IsImportable(dir.flat)
  ELSE /\ dir.manifest.state = "whole" /\ Readable
       /\ \A t \in Tables : IsImportable(dir.files[t])
       /\ IsResolvable(dir.manifest.shape, dir.files)

----------------------------------------------------------------------------
(* data import                                                             *)

\* What is not ready is refused before any write; --dry-run and validate end here.
\* Only a flat file can go through a staging table.
BeginImport ==
  \E flat, write, staged \in BOOLEAN :
    /\ staged => flat
    /\ Start(IF IsReady(flat) /\ write
             THEN [NoCommand EXCEPT !.op = IF flat THEN "import" ELSE "importPackage",
                     !.pc = "import", !.staged = staged,
                     !.shape = IF flat THEN NoShape ELSE dir.manifest.shape,
                     !.todo = IF flat THEN <<dir.flat.table>> ELSE ImportOrder[dir.manifest.shape]]
             ELSE [NoCommand EXCEPT !.op = "import",
                     !.outcome = IF IsReady(flat) THEN "checked" ELSE "refused"])
    /\ UNCHANGED <<source, schema, dir, rows>>

FileOf(table) == IF cmd.op = "import" THEN dir.flat ELSE dir.files[table]
File == FileOf(Head(cmd.todo))
Record == File.records[cmd.index]

\* The package was written by one export, and its source keys are unique (history).
IsExact ==
  /\ \A t \in Tables : dir.files[t].by = dir.manifest.by
  /\ \A t \in Tables : \A j, k \in DOMAIN dir.files[t].records :
       dir.files[t].records[j].key = dir.files[t].records[k].key => j = k

\* remap_reference_fields; a value that was mapped twice stands for the last record.
BadMapped(target, value) == {m \in cmd.ids : m.table = target}
Mapped(target, value) == {m \in cmd.ids : m.table = target /\ m.key = value}
ReferenceFields == {t \in Targets(cmd.shape, Head(cmd.todo)) : Record.values[t] # None}
IsMapped == \A t \in ReferenceFields : Mapped(t, Record.values[t]) # {}
Row == [table |-> Head(cmd.todo), by |-> 0, from |-> Record.from, meant |-> Record.meant,
        exact |-> IsExact,
        to |-> [t \in Tables |-> IF t \in ReferenceFields
                                 THEN (CHOOSE m \in Mapped(t, Record.values[t]) : TRUE).id ELSE None]]

BadRemember(id) == cmd.ids \cup {[table |-> Head(cmd.todo), key |-> Record.key, id |-> id]}
Remember(id) ==
  IF Record.key = None THEN cmd.ids
  ELSE (cmd.ids \ Mapped(Head(cmd.todo), Record.key))
         \cup {[table |-> Head(cmd.todo), key |-> Record.key, id |-> id]}

Importing == cmd.pc = "import" /\ cmd.todo # <<>> /\ cmd.index <= Len(File.records)

\* An answer to POST; a row of an Import Set may have made one in the target.  The
\* answer may lack a sys_id, which is taken for an empty one.
RecordCreated ==
  /\ Importing /\ IsMapped /\ Len(rows) < MaxRows
  /\ rows' = Append(rows, Row)
  /\ \E id \in {Len(rows) + 1, None} :
       cmd' = [cmd EXCEPT !.index = @ + 1, !.created = @ + 1, !.ids = Remember(id)]
  /\ UNCHANGED dir /\ Unchanged

\* Every Import Set row whose status is not "error" counts as created: one that the
\* transform map ignored, skipped or matched to a record that was there, too.
RowAccepted ==
  /\ Importing /\ cmd.staged
  /\ cmd' = [cmd EXCEPT !.index = @ + 1, !.created = @ + 1]
  /\ UNCHANGED <<dir, rows>> /\ Unchanged

\* The request is refused, or its answer is an error or lost after the record was
\* created; an Import Set row may report an error either way.
BadRecordFailed ==
  /\ Importing /\ IsMapped
  /\ \/ rows' = Append(rows, Row) /\ Len(rows) < MaxRows
     \/ UNCHANGED rows
  /\ cmd' = [cmd EXCEPT !.index = @ + 1]
  /\ UNCHANGED dir /\ Unchanged
RecordFailed ==
  /\ Importing /\ IsMapped
  /\ \/ rows' = Append(rows, Row) /\ Len(rows) < MaxRows
     \/ UNCHANGED rows
  /\ cmd' = [cmd EXCEPT !.index = @ + 1, !.failed = @ + 1]
  /\ UNCHANGED dir /\ Unchanged

\* A reference to a record that was not created ends the import without a report.
RecordUnmapped ==
  /\ Importing /\ ~IsMapped
  /\ End("aborted")
  /\ UNCHANGED <<dir, rows>> /\ Unchanged

\* Killed while a request was on its way.
KilledInFlight ==
  /\ Importing /\ IsMapped /\ Len(rows) < MaxRows
  /\ rows' = Append(rows, Row) /\ End("aborted")
  /\ UNCHANGED dir /\ Unchanged

NextTable ==
  /\ cmd.pc = "import" /\ cmd.todo # <<>> /\ cmd.index > Len(File.records)
  /\ cmd' = [cmd EXCEPT !.todo = Tail(@), !.index = 1]
  /\ UNCHANGED <<dir, rows>> /\ Unchanged

Report ==
  /\ cmd.pc = "import" /\ cmd.todo = <<>>
  /\ End(IF cmd.failed > 0 THEN "partial" ELSE "ok")
  /\ UNCHANGED <<dir, rows>> /\ Unchanged

SourceChanges ==
  /\ count.changes < MaxChanges /\ cmd.pc = "fetch"
  /\ \E i \in Ids :
       /\ source[i].here
       /\ \/ source' = [source EXCEPT ![i].here = FALSE]
          \/ \E k \in Keys \ {source[i].key} : source' = [source EXCEPT ![i].key = k]
  /\ count' = [count EXCEPT !.changes = @ + 1]
  /\ UNCHANGED <<schema, dir, rows, cmd>>

----------------------------------------------------------------------------
Count == [commands : 0 .. MaxCommands, changes : 0 .. MaxChanges]
FileState == {"absent", "whole", "cut"}
RawRecord == [from : Ids, key : Keys \cup {None}, to : [Tables -> Ids \cup {None}]]
FileRecord == [from : Ids, key : Keys \cup {None}, meant : [Tables -> Ids \cup {None}],
               values : [Tables -> Keys \cup {None}]]
DataFile == [state : FileState, by : 0 .. MaxCommands, table : Tables \cup {Missing},
             fields : SUBSET Fields, records : Seq(FileRecord)]
Manifest == [state : FileState, by : 0 .. MaxCommands, shape : Shape]
Directory == [manifest : Manifest, files : [Tables -> DataFile], flat : DataFile]
TargetRow == [table : Tables, by : Nat, from : Ids \cup {None}, meant : [Tables -> Ids \cup {None}],
              exact : BOOLEAN, to : [Tables -> 0 .. MaxRows]]
TargetId == [table : Tables, key : Keys, id : 0 .. MaxRows]
Command == [op : {"none", "package", "flat", "import", "importPackage"},
            pc : {"idle", "fetch", "write", "import"}, shape : Shape, todo : Seq(Tables),
            raw : [Tables -> Seq(RawRecord)], index : Nat \ {0}, ids : SUBSET TargetId,
            first : Nat \ {0}, staged : BOOLEAN, created : Nat, failed : Nat,
            outcome : {"none", "ok", "checked", "failed", "refused", "partial", "aborted"}]

DatasetTypeOK ==
  /\ source \in [Ids -> SourceRecord] /\ count \in Count
  /\ dir \in Directory
  /\ cmd \in Command
  /\ rows \in Seq(TargetRow) /\ Len(rows) <= MaxRows

DataInit ==
  /\ source \in Sources /\ schema \in Schemas
  /\ dir = [manifest |-> NoManifest, files |-> [t \in Tables |-> NoFile], flat |-> NoFile]
  /\ rows = <<>> /\ cmd = NoCommand /\ count = [commands |-> 0, changes |-> 0]

ExportStep ==
  \/ BeginExport \/ FetchTable \/ WriteTable \/ WriteManifest \/ WriteCut \/ ExportFlat
  \/ SourceChanges
ImportStep ==
  \/ BeginImport \/ RecordCreated \/ RowAccepted \/ RecordFailed \/ RecordUnmapped
  \/ KilledInFlight \/ NextTable \/ Report
DataNext == ExportStep \/ ImportStep \/ Fails

----------------------------------------------------------------------------
(* Properties.                                                             *)

\* A reference that an import wrote leads to the record it led to on the source
\* instance: to the row this import created from that very record, whatever
\* changed between the fetches and whichever requests failed
\* (remap_reference_fields).  The package has to be of one export, and its source keys
\* unique; an answer without sys_id leaves the reference empty.
ReferencesFaithful ==
  \A i \in DOMAIN rows : \A t \in Tables :
    rows[i].exact /\ rows[i].to[t] # None =>
      LET target == rows[i].to[t]
      IN  target < i /\ rows[target].table = t /\ rows[target].from = rows[i].meant[t]

\* The records of the file or package of an import, and the rows it has made of them.
GivenTables == IF cmd.op = "import" THEN {dir.flat.table} ELSE Tables
Given == UNION {{t} \X DOMAIN FileOf(t).records : t \in GivenTables}
RowsMade == Cardinality({i \in cmd.first .. Len(rows) : rows[i].by = 0})

\* The report of an import that was not aborted counts every record of the file or
\* package once, as created or as failed.  Where the records were posted to their
\* table, the instance has got at least a row for each that is called created and
\* at most one for each that is counted; what is refused or only validated has
\* created nothing (handle_import_flat, handle_import_package).  For rows that went
\* through a staging table only the count is claimed: what an accepted row becomes
\* is up to the transform map (CreatedExist).
ReportHonest ==
  cmd.pc = "idle" /\ cmd.op \in {"import", "importPackage"} =>
    /\ cmd.outcome \in {"refused", "checked"} => RowsMade = 0
    /\ cmd.outcome \in {"ok", "partial"} => cmd.created + cmd.failed = Cardinality(Given)
    /\ cmd.outcome = "ok" /\ ~cmd.staged => RowsMade = cmd.created
    /\ cmd.outcome = "partial" /\ ~cmd.staged =>
         cmd.created <= RowsMade /\ RowsMade <= cmd.created + cmd.failed

\* "Return per-run counts for created, failed, and skipped records": what a report
\* calls created exists, for an Import Set too (SeedStaged.cfg finds that it does not).
CreatedExist ==
  cmd.pc = "idle" /\ cmd.op \in {"import", "importPackage"} /\ cmd.outcome \in {"ok", "partial"} =>
    cmd.created <= RowsMade
=============================================================================
