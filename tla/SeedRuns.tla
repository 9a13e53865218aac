------------------------------- MODULE SeedRuns --------------------------------
(***************************************************************************)
(* Seed runs (src/cli/commands/seed.rs) beside the data commands: apply     *)
(* creates records on the target instance and tracks them in a file of the  *)
(* run, cleanup deletes what the file tracks, last one first.               *)
(***************************************************************************)
EXTENDS Dataset

CONSTANTS
  SeedShapes,  \* references of seed specs
  Counts,      \* records of each table of a spec
  MaxRuns,     \* bound: seed runs
  MaxMeddling  \* bound: records deleted by others

ASSUME SeedAssumption ==
  /\ SeedShapes \subseteq Shape /\ Counts \subseteq [Tables -> Nat]
  /\ MaxRuns \in Nat /\ MaxMeddling \in Nat

VARIABLES
  seed,       \* the seed command that runs
  runs,       \* tracking files, by run
  deleted,    \* rows deleted on the target
  meddled     \* how many of them by others (history)

seedVars == <<seed, runs, deleted, meddled>>
vars == <<dataVars, seedVars>>

Run == 1 .. MaxRuns
NoRun == [exists |-> FALSE, records |-> <<>>]
NoSeed == [op |-> "none", pc |-> "idle", run |-> 0, shape |-> NoShape, counts |-> [t \in Tables |-> 0],
           todo |-> <<>>, made |-> [t \in Tables |-> <<>>], new |-> None, records |-> <<>>]

Idle == seed.pc = "idle" /\ cmd.pc = "idle"
EndSeed == seed' = NoSeed

\* A seed command is one of the commands that MaxCommands bounds.
StartSeed(command) ==
  /\ Idle /\ count.commands < MaxCommands
  /\ seed' = command /\ cmd' = NoCommand
  /\ count' = [count EXCEPT !.commands = @ + 1]

\* write_run: a temporary file, renamed.
Track(run, records) == runs' = [runs EXCEPT ![run] = [exists |-> TRUE, records |-> records]]

\* topological_order: again and again the first table whose targets are placed.
IsSeedOrder(order, shape) ==
  \A i \in DOMAIN order :
    LET placed == {order[j] : j \in 1 .. i - 1}
        ready == {t \in Tables \ placed : Targets(shape, t) \subseteq placed}
    IN  order[i] \in ready /\ \A t \in ready : order[i] <= t
PlaceAll(shape) == CHOOSE order \in Orders : IsSeedOrder(order, shape)

\* build_plan
IsPlannable(shape) ==
  /\ \A d \in shape.refs : d[2] # Missing /\ d[1] # d[2]
  /\ \E order \in Orders : IsSeedOrder(order, shape)
Plannable == {shape \in SeedShapes : IsPlannable(shape)}
SeedOrder == [shape \in Plannable |-> PlaceAll(shape)]

----------------------------------------------------------------------------
(* seed apply                                                              *)

\* A refused plan, or a prompt answered with no, changes nothing.
BeginApply ==
  /\ \E shape \in Plannable, counts \in Counts, run \in Run :
       /\ ~runs[run].exists /\ \A i \in DOMAIN rows : rows[i].by # run
       /\ StartSeed([NoSeed EXCEPT !.op = "apply", !.pc = "create", !.run = run, !.shape = shape,
                                   !.counts = counts, !.todo = SeedOrder[shape]])
       /\ Track(run, <<>>)
  /\ UNCHANGED <<source, schema, dir, rows, deleted, meddled>>

Creating == seed.pc = "create" /\ seed.todo # <<>>
Made(t) == seed.made[t]

\* Record number Len(Made) of its table, with round_robin references.
SeedRow ==
  LET table == Head(seed.todo)
      next(t) == Made(t)[(Len(Made(table)) % Len(Made(t))) + 1]
  IN  [table |-> table, by |-> seed.run, from |-> None, meant |-> [t \in Tables |-> None],
       exact |-> FALSE,
       to |-> [t \in Tables |-> IF t \in Targets(seed.shape, table) THEN next(t) ELSE None]]

CreateRow == Creating /\ Len(rows) < MaxRows /\ rows' = Append(rows, SeedRow)

SeedCreated ==
  /\ CreateRow
  /\ seed' = [seed EXCEPT !.pc = "track", !.new = Len(rows) + 1]
  /\ UNCHANGED <<source, schema, dir, cmd, count, runs, deleted, meddled>>

\* Created, but the answer is lost or without a sys_id: apply ends.
SeedLost ==
  /\ CreateRow /\ EndSeed
  /\ UNCHANGED <<source, schema, dir, cmd, count, runs, deleted, meddled>>

BadSeedTracked ==
  /\ seed.pc = "track"
  /\ LET table == Head(seed.todo)
         made == Append(Made(table), seed.new)
         records == Append(seed.records, seed.new)
         complete == Len(made) = seed.counts[table]
     IN  /\ IF complete THEN Track(seed.run, records) ELSE UNCHANGED runs
         /\ seed' = [seed EXCEPT !.pc = "create", !.made[table] = made, !.records = records,
                                 !.todo = IF complete THEN Tail(@) ELSE @]
  /\ UNCHANGED <<dataVars, deleted, meddled>>
SeedTracked ==
  /\ seed.pc = "track"
  /\ LET table == Head(seed.todo)
         made == Append(Made(table), seed.new)
         records == Append(seed.records, seed.new)
     IN  /\ Track(seed.run, records)
         /\ seed' = [seed EXCEPT !.pc = "create", !.made[table] = made, !.records = records,
                                 !.todo = IF Len(made) = seed.counts[table] THEN Tail(@) ELSE @]
  /\ UNCHANGED <<dataVars, deleted, meddled>>

EndApply ==
  /\ seed.pc = "create" /\ seed.todo = <<>> /\ EndSeed
  /\ UNCHANGED <<dataVars, runs, deleted, meddled>>

----------------------------------------------------------------------------
(* seed cleanup                                                            *)

\* read_run; a run of another instance is refused.
BeginCleanup ==
  /\ \E run \in Run :
       /\ runs[run].exists
       /\ StartSeed([NoSeed EXCEPT !.op = "cleanup", !.pc = "delete", !.run = run,
                                   !.records = runs[run].records])
  /\ UNCHANGED <<source, schema, dir, rows, runs, deleted, meddled>>

DeleteLast ==
  /\ seed.pc = "delete" /\ seed.records # <<>> /\ Last(seed.records) \notin deleted
  /\ deleted' = deleted \cup {Last(seed.records)}

RecordDeleted ==
  /\ DeleteLast
  /\ seed' = [seed EXCEPT !.pc = "untrack", !.records = Front(@)]
  /\ UNCHANGED <<dataVars, runs, meddled>>

DeleteLost ==
  /\ DeleteLast /\ EndSeed
  /\ UNCHANGED <<dataVars, runs, meddled>>

Untracked ==
  /\ seed.pc = "untrack"
  /\ Track(seed.run, seed.records)
  /\ seed' = [seed EXCEPT !.pc = "delete"]
  /\ UNCHANGED <<dataVars, deleted, meddled>>

RemoveRun ==
  /\ seed.pc = "delete" /\ seed.records = <<>>
  /\ runs' = [runs EXCEPT ![seed.run] = NoRun]
  /\ EndSeed
  /\ UNCHANGED <<dataVars, deleted, meddled>>

\* A request is refused (404 for a record that is gone), a file cannot be
\* written, or the process is killed.
SeedFails ==
  /\ seed.pc # "idle" /\ EndSeed
  /\ UNCHANGED <<dataVars, runs, deleted, meddled>>

OthersDelete ==
  /\ meddled < MaxMeddling /\ meddled' = meddled + 1 /\ cmd.op = "none"
  /\ \E i \in DOMAIN rows : rows[i].by # 0 /\ i \notin deleted /\ deleted' = deleted \cup {i}
  /\ UNCHANGED <<dataVars, seed, runs>>

----------------------------------------------------------------------------
SeedCommand == [op : {"none", "apply", "cleanup"},
                pc : {"idle", "create", "track", "delete", "untrack"}, run : 0 .. MaxRuns,
                shape : Shape, counts : [Tables -> Nat], todo : Seq(Tables),
                made : [Tables -> Seq(1 .. MaxRows)], new : 0 .. MaxRows, records : Seq(1 .. MaxRows)]

TypeOK ==
  /\ DatasetTypeOK
  /\ seed \in SeedCommand
  /\ runs \in [Run -> [exists : BOOLEAN, records : Seq(1 .. MaxRows)]]
  /\ deleted \subseteq 1 .. MaxRows /\ meddled \in 0 .. MaxMeddling

Init ==
  /\ DataInit
  /\ seed = NoSeed /\ runs = [r \in Run |-> NoRun] /\ deleted = {} /\ meddled = 0

ApplyStep == BeginApply \/ SeedCreated \/ SeedLost \/ SeedTracked \/ EndApply
CleanupStep == BeginCleanup \/ RecordDeleted \/ DeleteLost \/ Untracked \/ RemoveRun

Next ==
  \/ seed.pc = "idle" /\ DataNext /\ UNCHANGED seedVars
  \/ ApplyStep \/ CleanupStep \/ SeedFails \/ OthersDelete

Spec == Init /\ [][Next]_vars

----------------------------------------------------------------------------
(* Properties.                                                             *)

Live(run) == {i \in DOMAIN rows : rows[i].by = run /\ i \notin deleted}
Tracked(run) == ToSet(runs[run].records)

\* The tracking file of a run and the instance agree but for one record, wherever
\* apply or cleanup was cut; and unless others delete, what a tracked record
\* refers to is still there, so that cleanup never leaves a dangling reference
\* in a record it knows (apply_seed, cleanup_seed: reverse creation order).
TrackingSound ==
  \A run \in Run :
    /\ Cardinality(Live(run) \ Tracked(run)) <= 1
    /\ meddled = 0 =>
         /\ Cardinality(Tracked(run) \ Live(run)) <= 1
         /\ \A i \in Tracked(run) \cap Live(run), t \in Tables :
              rows[i].to[t] # None => rows[i].to[t] \notin deleted

\* "The run file is updated after each successful create so partial runs remain
\* cleanable": the record that the next cleanup deletes first exists, or else its
\* DELETE is answered 404 and no cleanup gets any further.
PartialRunsCleanable ==
  meddled = 0 /\ seed.pc = "idle" =>
    \A run \in Run : runs[run].records # <<>> => Last(runs[run].records) \notin deleted
=============================================================================
