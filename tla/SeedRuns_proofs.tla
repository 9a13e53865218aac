---------------------------- MODULE SeedRuns_proofs -----------------------------
(* Proofs about the data commands and seed runs, for every value of the           *)
(* constants.                                                                     *)
EXTENDS SeedRuns, FiniteSetTheorems, SequenceTheorems, TLAPS

----------------------------------------------------------------------------
(* The inductive invariant.                                                *)

\* What the steps of a data command leave to each other: an order is only asked
\* for a spec that has one, there is always a table to fetch, a flat import has
\* no references, and a seed run has the machine to itself.
CommandInv ==
  /\ cmd.pc \in {"fetch", "write"} => cmd.op = "package" /\ cmd.shape \in Acceptable
  /\ cmd.pc = "fetch" => cmd.todo # <<>>
  /\ cmd.pc = "import" => cmd.op \in {"import", "importPackage"}
  /\ cmd.pc = "import" /\ cmd.op = "import" => cmd.shape = NoShape
  /\ cmd.pc = "idle" => cmd.ids = {}
  /\ dir.manifest.state = "whole" => dir.manifest.shape \in Acceptable
  /\ dir.flat.state = "whole" => dir.flat.table \in Tables
  /\ seed.pc # "idle" => cmd.op = "none" /\ cmd.pc = "idle"

\* A placeholder of file a that points into file b: b has the record it stands for.
Linked(a, b) ==
  \A r \in ToSet(dir.files[a].records) :
    r.values[b] # None =>
      \E q \in ToSet(dir.files[b].records) : q.key = r.values[b] /\ q.from = r.meant[b]

\* Files that one export wrote resolve each other's placeholders, whatever order
\* they were written in and wherever the export was cut.
PackageInv ==
  /\ \A t \in Tables : dir.files[t].by <= count.commands
  /\ cmd.pc = "fetch" => \A t \in Tables : dir.files[t].by < count.commands
  /\ cmd.pc = "write" =>
       \A t \in Tables :
         dir.files[t].by = count.commands =>
           IsExportable(t) /\ dir.files[t].records = Artifact(t, count.commands).records
  /\ \A a, b \in Tables : dir.files[a].by = dir.files[b].by => Linked(a, b)

\* A sys_id that the import remembers is that of a row made from a record of the
\* file with that key.
Known(m) ==
  /\ m.id \in DOMAIN rows /\ rows[m.id].table = m.table
  /\ \E q \in ToSet(dir.files[m.table].records) : q.key = m.key /\ q.from = rows[m.id].from
RememberedInv ==
  cmd.op = "importPackage" => \A m \in cmd.ids : m.id # None => Known(m)

\* The rows that a command has created, against what it counts.
CreatedRows == Len(rows) + 1 - cmd.first
ReportInv ==
  /\ cmd.first <= Len(rows) + 1
  /\ cmd.op \in {"import", "importPackage"} =>
       /\ \A i \in cmd.first .. Len(rows) : rows[i].by = 0
       /\ cmd.pc = "idle" /\ cmd.outcome \in {"refused", "checked"} => CreatedRows = 0
       /\ cmd.pc = "idle" /\ cmd.outcome = "ok" => cmd.failed = 0
       /\ (cmd.pc = "import" \/ cmd.outcome \in {"ok", "partial"}) /\ ~cmd.staged =>
            cmd.created <= CreatedRows /\ CreatedRows <= cmd.created + cmd.failed

\* The records that an import has done with: those of the tables that are not to do
\* any more, and those of the current table before the next one.  Each is counted once.
Done == {r \in Given : r[1] \notin ToSet(cmd.todo) \/ (r[1] = Head(cmd.todo) /\ r[2] < cmd.index)}
Counting ==
  cmd.op \in {"import", "importPackage"} /\ (cmd.pc = "import" \/ cmd.outcome \in {"ok", "partial"})
CountInv ==
  Counting =>
    /\ IsFiniteSet(Done) /\ cmd.created + cmd.failed = Cardinality(Done)
    /\ ToSet(cmd.todo) \subseteq GivenTables /\ IsInjective(cmd.todo)
    /\ cmd.pc = "idle" => cmd.todo = <<>>

\* A tracking file lists rows of its run in the order of their creation, each
\* after the rows it refers to; one row of the run may be missing in it, and only
\* the last one it lists may be gone.
RowsOf(run) == {i \in DOMAIN rows : rows[i].by = run}
RunInv(run) ==
  LET records == runs[run].records IN
  /\ ToSet(records) \subseteq RowsOf(run)
  /\ \A j, k \in DOMAIN records : j < k => records[j] < records[k]
  /\ \A k \in DOMAIN records, t \in Tables :
       rows[records[k]].to[t] # None => \E j \in 1 .. k - 1 : records[j] = rows[records[k]].to[t]
  /\ \E x \in Nat : RowsOf(run) \ (ToSet(records) \cup deleted) \subseteq {x}
  /\ meddled = 0 => \A k \in DOMAIN records : k < Len(records) => records[k] \notin deleted

\* While apply runs, the file lists every row of the run but the one just created,
\* and the targets of every table to come are tracked or come before it.
ApplyInv ==
  seed.op = "apply" =>
    /\ seed.pc \in {"create", "track"} /\ seed.run \in Run
    /\ seed.records = runs[seed.run].records
    /\ meddled = 0 => RowsOf(seed.run) \cap deleted = {}
    /\ seed.pc = "create" => RowsOf(seed.run) \ deleted \subseteq ToSet(seed.records)
    /\ seed.pc = "track" =>
         /\ seed.todo # <<>> /\ seed.new \in RowsOf(seed.run)
         /\ RowsOf(seed.run) \ deleted \subseteq ToSet(seed.records) \cup {seed.new}
         /\ \A i \in ToSet(seed.records) : i < seed.new
         /\ \A t \in Tables : rows[seed.new].to[t] # None => rows[seed.new].to[t] \in ToSet(seed.records)
    /\ \A t \in Tables : ToSet(seed.made[t]) \subseteq ToSet(seed.records)
    /\ \A i \in DOMAIN seed.todo : \A t \in Targets(seed.shape, seed.todo[i]) :
         seed.made[t] # <<>> \/ \E j \in 1 .. i - 1 : seed.todo[j] = t

\* Cleanup holds what the file lists, but for the record it has just deleted.
CleanupInv ==
  seed.op = "cleanup" =>
    /\ seed.pc \in {"delete", "untrack"} /\ seed.run \in Run
    /\ seed.pc = "delete" => seed.records = runs[seed.run].records
    /\ seed.pc = "untrack" =>
         /\ runs[seed.run].records # <<>> /\ seed.records = Front(runs[seed.run].records)
         /\ Last(runs[seed.run].records) \in deleted

TrackingInv ==
  /\ seed.op = "none" <=> seed.pc = "idle"
  /\ deleted \subseteq DOMAIN rows
  /\ \A run \in Run : RunInv(run)
  /\ ApplyInv /\ CleanupInv

\* What the data commands keep, and the whole.
DataInv ==
  /\ DatasetTypeOK /\ CommandInv /\ PackageInv /\ RememberedInv /\ ReferencesFaithful
  /\ ReportInv /\ CountInv
SeedTypes ==
  /\ seed \in SeedCommand
  /\ runs \in [Run -> [exists : BOOLEAN, records : Seq(1 .. MaxRows)]]
  /\ deleted \subseteq 1 .. MaxRows /\ meddled \in 0 .. MaxMeddling
IInv == DataInv /\ SeedTypes /\ TrackingInv

----------------------------------------------------------------------------
(* Sequences and sets.                                                     *)

\* A function on 1 .. n is a sequence.
LEMMA AsSequence ==
  ASSUME NEW S, NEW n \in Nat, NEW f \in [1 .. n -> S]
  PROVE  f \in Seq(S) /\ Len(f) = n /\ DOMAIN f = 1 .. n
OBVIOUS

\* The length, places and elements of a sequence.
LEMMA Elements ==
  ASSUME NEW S, NEW s \in Seq(S)
  PROVE  /\ Len(s) \in Nat /\ DOMAIN s = 1 .. Len(s) /\ \A i \in DOMAIN s : s[i] \in S
         /\ ToSet(s) \subseteq S /\ ToSet(s) = {s[i] : i \in DOMAIN s}
         /\ s = <<>> <=> Len(s) = 0
<1>1. Len(s) \in Nat /\ DOMAIN s = 1 .. Len(s) /\ \A i \in DOMAIN s : s[i] \in S
  BY LenProperties, ElementOfSeq
<1>2. s = <<>> <=> Len(s) = 0
  BY EmptySeq, <1>1
<1> QED BY <1>1, <1>2 DEF ToSet

\* One more element at the end.
LEMMA Appended ==
  ASSUME NEW S, NEW s \in Seq(S), NEW e \in S
  PROVE  /\ Append(s, e) \in Seq(S) /\ Append(s, e) # <<>> /\ Len(Append(s, e)) = Len(s) + 1
         /\ DOMAIN Append(s, e) = 1 .. Len(s) + 1
         /\ \A i \in DOMAIN s : Append(s, e)[i] = s[i]
         /\ Append(s, e)[Len(s) + 1] = e
         /\ ToSet(Append(s, e)) = ToSet(s) \cup {e}
<1>1. /\ Append(s, e) \in Seq(S) /\ Append(s, e) # <<>> /\ Len(Append(s, e)) = Len(s) + 1
      /\ \A i \in 1 .. Len(s) : Append(s, e)[i] = s[i]
      /\ Append(s, e)[Len(s) + 1] = e
  BY AppendProperties
<1>2. Len(s) \in Nat /\ DOMAIN s = 1 .. Len(s) /\ DOMAIN Append(s, e) = 1 .. Len(s) + 1
  BY <1>1, LenProperties
<1>3. 1 .. Len(s) + 1 = (1 .. Len(s)) \cup {Len(s) + 1}
  BY <1>2
<1>4. ToSet(Append(s, e)) = ToSet(s) \cup {e}
  BY <1>1, <1>2, <1>3 DEF ToSet
<1> QED BY <1>1, <1>2, <1>4

\* The first element and the rest.
LEMMA TailIs ==
  ASSUME NEW S, NEW s \in Seq(S), s # <<>>
  PROVE  /\ Head(s) = s[1] /\ Head(s) \in S /\ 1 \in DOMAIN s
         /\ Tail(s) \in Seq(S) /\ Len(Tail(s)) = Len(s) - 1
         /\ \A i \in DOMAIN Tail(s) : i + 1 \in DOMAIN s /\ Tail(s)[i] = s[i + 1]
<1>1. Len(s) \in Nat /\ Len(s) # 0 /\ DOMAIN s = 1 .. Len(s)
  BY Elements
<1>2. /\ Head(s) \in S /\ Tail(s) \in Seq(S) /\ Len(Tail(s)) = Len(s) - 1
      /\ \A i \in 1 .. Len(Tail(s)) : Tail(s)[i] = s[i + 1]
  BY HeadTailProperties
<1>3. DOMAIN Tail(s) = 1 .. Len(s) - 1
  BY <1>2, LenProperties
<1>4. Head(s) = s[1]
  OBVIOUS
<1> QED BY <1>1, <1>2, <1>3, <1>4

\* The last element and what comes before it.
LEMMA FrontIs ==
  ASSUME NEW S, NEW s \in Seq(S), s # <<>>
  PROVE  /\ Front(s) \in Seq(S) /\ Len(Front(s)) = Len(s) - 1 /\ DOMAIN Front(s) = 1 .. Len(s) - 1
         /\ \A i \in DOMAIN Front(s) : i \in DOMAIN s /\ i < Len(s) /\ Front(s)[i] = s[i]
         /\ Last(s) = s[Len(s)] /\ Last(s) \in S /\ Len(s) \in DOMAIN s
         /\ ToSet(s) = ToSet(Front(s)) \cup {Last(s)}
<1> DEFINE m == Len(s)  front == Front(s)
<1>1. m \in Nat /\ m # 0 /\ DOMAIN s = 1 .. m /\ \A i \in DOMAIN s : s[i] \in S
  BY Elements
<1>2. 1 \in Int /\ m - 1 \in Int /\ \A i \in 1 .. m - 1 : s[i] \in S
  BY <1>1
<1>3. front = SubSeq(s, 1, m - 1)
  BY DEF Front
<1>4. Last(s) = s[m]
  BY DEF Last
<1> HIDE DEF m, front
<1>5. /\ front \in Seq(S)
      /\ Len(front) = IF 1 <= m - 1 THEN (m - 1) - 1 + 1 ELSE 0
      /\ \A i \in 1 .. (m - 1) - 1 + 1 : front[i] = s[1 + i - 1]
  BY <1>2, <1>3, SubSeqProperties
<1>6. Len(front) = m - 1
  BY <1>1, <1>5
<1>7. DOMAIN front = 1 .. m - 1
  BY <1>5, <1>6, Elements
<1>8. ASSUME NEW i \in 1 .. m - 1
      PROVE  i \in 1 .. m /\ i < m /\ front[i] = s[i]
  <2>1. i \in 1 .. m /\ i < m /\ i \in 1 .. (m - 1) - 1 + 1 /\ 1 + i - 1 = i
    BY <1>1
  <2> QED BY <1>5, <2>1
<1>9. m \in 1 .. m /\ 1 .. m = (1 .. m - 1) \cup {m}
  BY <1>1
<1>10. {s[i] : i \in 1 .. m} = {front[i] : i \in 1 .. m - 1} \cup {s[m]}
  BY <1>8, <1>9
<1>11. ToSet(s) = ToSet(front) \cup {Last(s)}
  BY <1>1, <1>4, <1>7, <1>10 DEF ToSet
<1> QED BY <1>1, <1>4, <1>5, <1>6, <1>7, <1>8, <1>9, <1>11 DEF m, front

\* Places 1 .. n are n.
LEMMA Interval ==
  ASSUME NEW a \in Nat, NEW b \in Nat, a <= b + 1
  PROVE  IsFiniteSet(a .. b) /\ Cardinality(a .. b) = b + 1 - a
<1>1. IsFiniteSet(a .. b) /\ Cardinality(a .. b) = IF a > b THEN 0 ELSE b - a + 1
  BY FS_Interval
<1>2. (IF a > b THEN 0 ELSE b - a + 1) = b + 1 - a
  OBVIOUS
<1> QED BY <1>1, <1>2

\* What lies within one element has at most one.
LEMMA AtMostOne ==
  ASSUME NEW x, NEW S, S \subseteq {x}
  PROVE  Cardinality(S) <= 1
<1>1. S = {} \/ S = {x}
  OBVIOUS
<1>2. Cardinality({}) = 0 /\ Cardinality({x}) = 1
  BY FS_EmptySet, FS_Singleton
<1> QED BY <1>1, <1>2

\* The ascending order of a set of numbers lists its elements.
LEMMA AscendingLists ==
  ASSUME NEW S \in SUBSET Nat, IsFiniteSet(S)
  PROVE  Ascending(S) \in [1 .. Cardinality(S) -> S] /\ Cardinality(S) \in Nat
<1> DEFINE n == Cardinality(S)  upTo(i) == {j \in S : j <= i}  rank(i) == Cardinality(upTo(i))
<1>1. n \in Nat
  BY FS_CardinalityType
<1>2. ASSUME NEW T \in SUBSET S
      PROVE  IsFiniteSet(T) /\ Cardinality(T) \in Nat /\ Cardinality(T) <= n
  BY FS_Subset, FS_CardinalityType
<1>3. ASSUME NEW i \in S
      PROVE  rank(i) \in 1 .. n
  <2>1. upTo(i) \in SUBSET S /\ i \in upTo(i)
    OBVIOUS
  <2>2. IsFiniteSet(upTo(i)) /\ rank(i) \in Nat /\ rank(i) <= n
    BY <2>1, <1>2
  <2>3. rank(i) # 0
    BY <2>1, <2>2, FS_EmptySet
  <2> HIDE DEF n, rank
  <2> QED BY <1>1, <2>2, <2>3
<1>4. ASSUME NEW i \in S, NEW j \in S, i < j
      PROVE  rank(i) < rank(j)
  <2>1. \A k \in S : k \in Nat
    OBVIOUS
  <2>2. j \in upTo(j) /\ j \notin upTo(i)
    BY <1>4, <2>1
  <2>3. upTo(i) \subseteq upTo(j)
    <3> SUFFICES ASSUME NEW k \in S, k <= i PROVE k <= j
      OBVIOUS
    <3> QED BY <1>4, <2>1
  <2>4. upTo(i) \cup {j} \in SUBSET upTo(j) /\ upTo(i) \in SUBSET S /\ upTo(j) \in SUBSET S
    BY <2>2, <2>3
  <2>5. IsFiniteSet(upTo(i)) /\ IsFiniteSet(upTo(j)) /\ rank(i) \in Nat /\ rank(j) \in Nat
    BY <2>4, <1>2
  <2>6. Cardinality(upTo(i) \cup {j}) = rank(i) + 1
    BY <2>2, <2>5, FS_AddElement
  <2>7. Cardinality(upTo(i) \cup {j}) <= rank(j)
    BY <2>4, <2>5, FS_Subset
  <2> HIDE DEF rank
  <2> QED BY <2>5, <2>6, <2>7
<1>5. ASSUME NEW k \in 1 .. n
      PROVE  \E i \in S : rank(i) = k
  <2> DEFINE f == [i \in S |-> rank(i)]
  <2>1. \A i, j \in S : rank(i) = rank(j) => i = j
    <3> SUFFICES ASSUME NEW i \in S, NEW j \in S, rank(i) = rank(j), i # j PROVE FALSE
      OBVIOUS
    <3>1. i < j \/ j < i
      OBVIOUS
    <3>2. rank(i) \in Int
      BY <1>3
    <3> HIDE DEF rank
    <3> QED BY <1>4, <3>1, <3>2
  <2>2. f \in Injection(S, 1 .. n)
    <3> HIDE DEF rank, n
    <3> QED BY <1>3, <2>1 DEF Injection, IsInjective
  <2>3. IsFiniteSet(1 .. n) /\ Cardinality(1 .. n) = n
    BY <1>1, Interval
  <2>4. f \in Surjection(S, 1 .. n)
    <3> HIDE DEF f
    <3> QED BY <2>2, <2>3, FS_Injection
  <2> HIDE DEF rank, n
  <2> QED BY <2>4 DEF Surjection
<1>6. \A k \in 1 .. n : (CHOOSE i \in S : rank(i) = k) \in S
  BY <1>5
<1>7. Ascending(S) = [k \in 1 .. n |-> CHOOSE i \in S : rank(i) = k]
  BY DEF Ascending
<1> DEFINE at(k) == CHOOSE i \in S : rank(i) = k
<1>8. Ascending(S) = [k \in 1 .. n |-> at(k)] /\ \A k \in 1 .. n : at(k) \in S
  BY <1>6, <1>7
<1> HIDE DEF rank, at
<1> QED BY <1>1, <1>8
----------------------------------------------------------------------------
(* Orders, queries and files.                                              *)

USE TablesAssumption DEF Missing, None

\* There is a table, and finitely many.
LEMMA TableCount ==
  Cardinality(Tables) \in Nat /\ 1 \in 1 .. Cardinality(Tables)
<1>1. Cardinality(Tables) \in Nat
  BY FS_CardinalityType
<1>2. Cardinality(Tables) # 0
  BY FS_EmptySet
<1> QED BY <1>1, <1>2

\* An order of the tables is a sequence of them.
LEMMA AnOrder ==
  ASSUME NEW order \in Orders
  PROVE  order \in Seq(Tables) /\ order # <<>> /\ DOMAIN order = 1 .. Cardinality(Tables)
<1>1. order \in Seq(Tables) /\ Len(order) = Cardinality(Tables) /\ DOMAIN order = 1 .. Cardinality(Tables)
  BY TableCount, AsSequence DEF Orders
<1>2. order # <<>>
  BY <1>1, TableCount, Elements
<1> QED BY <1>1, <1>2

\* A spec that is accepted has an order (topological_table_order).
LEMMA AnImportOrder ==
  ASSUME NEW shape \in Acceptable
  PROVE  /\ ImportOrder[shape] \in Seq(Tables) /\ ImportOrder[shape] # <<>>
         /\ IsInjective(ImportOrder[shape]) /\ ToSet(ImportOrder[shape]) = Tables
<1> DEFINE order == OrderOf(shape)  n == Cardinality(Tables)
<1>1. order \in Orders /\ IsInjective(order)
  BY DEF Acceptable, IsAcceptable, OrderOf, IsImportOrder
<1>2. ImportOrder[shape] = order
  BY DEF ImportOrder
<1>3. order \in [1 .. n -> Tables]
  BY <1>1 DEF Orders
<1> HIDE DEF order
<1>4. n \in Nat /\ IsFiniteSet(1 .. n) /\ Cardinality(1 .. n) = n
  BY TableCount, Interval
<1> HIDE DEF n
<1>5. order \in Injection(1 .. n, Tables)
  BY <1>1, <1>3 DEF Injection, IsInjective
<1>6. order \in Surjection(1 .. n, Tables)
  BY <1>4, <1>5, FS_Injection DEF n
<1>7. ToSet(order) = Tables
  BY <1>3, <1>6 DEF Surjection, ToSet
<1> QED BY <1>1, <1>2, <1>7, AnOrder

\* A seed spec that is accepted creates every table after those it refers to.
LEMMA ASeedOrder ==
  ASSUME NEW shape \in Plannable
  PROVE  /\ SeedOrder[shape] \in Seq(Tables)
         /\ \A i \in DOMAIN SeedOrder[shape] : \A t \in Targets(shape, SeedOrder[shape][i]) :
              \E j \in 1 .. i - 1 : SeedOrder[shape][j] = t
<1> DEFINE order == PlaceAll(shape)
<1>1. order \in Orders /\ IsSeedOrder(order, shape)
  BY DEF Plannable, IsPlannable, PlaceAll
<1>2. SeedOrder[shape] = order
  BY DEF SeedOrder
<1> HIDE DEF order
<1>3. ASSUME NEW i \in DOMAIN order
      PROVE  Targets(shape, order[i]) \subseteq {order[j] : j \in 1 .. i - 1}
  BY <1>1 DEF IsSeedOrder
<1> QED BY <1>1, <1>2, <1>3, AnOrder

\* A query returns records of the source instance.
LEMMA SelectedIs ==
  ASSUME NEW table \in Tables, source \in [Ids -> SourceRecord]
  PROVE  Selected(table) \in Seq(RawRecord)
<1> DEFINE S == {i \in Ids : TableOf[i] = table /\ source[i].here}
           ids == Ascending(S)
           chosen(i) == [from |-> i, key |-> source[i].key, to |-> source[i].to]
<1>1. S \in SUBSET Nat /\ S \subseteq Ids /\ IsFiniteSet(S)
  BY IdsAssumption, FS_Subset
<1>2. ids \in [1 .. Cardinality(S) -> S] /\ Cardinality(S) \in Nat
  BY <1>1, AscendingLists
<1>3. Selected(table) = [k \in DOMAIN ids |-> chosen(ids[k])]
  BY DEF Selected
<1>4. \A i \in Ids : chosen(i) \in RawRecord
  BY DEF RawRecord, SourceRecord
<1> HIDE DEF ids, S, chosen
<1>5. [k \in DOMAIN ids |-> chosen(ids[k])] \in [1 .. Cardinality(S) -> RawRecord]
  BY <1>1, <1>2, <1>4
<1> QED BY <1>2, <1>3, <1>5, AsSequence

\* The record of a file that stands for a fetched one.
Placeholder(table, r) ==
  LET meant == [t \in Tables |-> IF t \in Targets(cmd.shape, table) THEN r.to[t] ELSE None]
      value(t, id) == IF id = None THEN None ELSE (CHOOSE q \in WithKey(t, id) : TRUE).key
  IN  [from |-> r.from, key |-> r.key, meant |-> meant, values |-> [t \in Tables |-> value(t, meant[t])]]

\* What a placeholder stands for is a fetched record that has its value.
LEMMA PlaceholderIs ==
  ASSUME NEW table \in Tables, cmd \in Command, IsExportable(table), NEW r \in ToSet(cmd.raw[table])
  PROVE  /\ Placeholder(table, r) \in FileRecord
         /\ Placeholder(table, r).from = r.from /\ Placeholder(table, r).key = r.key
         /\ \A t \in Tables : Placeholder(table, r).values[t] # None =>
              \E q \in ToSet(cmd.raw[t]) : /\ q.key = Placeholder(table, r).values[t]
                                           /\ q.from = Placeholder(table, r).meant[t]
<1> DEFINE meant == [t \in Tables |-> IF t \in Targets(cmd.shape, table) THEN r.to[t] ELSE None]
           chosen(t) == CHOOSE q \in WithKey(t, meant[t]) : TRUE
           values == [t \in Tables |-> IF meant[t] = None THEN None ELSE chosen(t).key]
<1>1. Placeholder(table, r) = [from |-> r.from, key |-> r.key, meant |-> meant, values |-> values]
  BY DEF Placeholder
<1>2. \A t \in Tables : cmd.raw[t] \in Seq(RawRecord) /\ ToSet(cmd.raw[t]) \subseteq RawRecord
  BY Elements DEF Command
<1>3. r.from \in Ids /\ r.key \in Keys \cup {None} /\ r.to \in [Tables -> Ids \cup {None}]
  BY <1>2 DEF RawRecord
<1>4. meant \in [Tables -> Ids \cup {None}]
  BY <1>3
<1>5. ASSUME NEW t \in Tables, meant[t] # None
      PROVE  /\ chosen(t) \in ToSet(cmd.raw[t]) /\ chosen(t).from = meant[t]
             /\ chosen(t).key \in Keys /\ chosen(t).key # None
  <2>1. t \in Targets(cmd.shape, table) /\ meant[t] = r.to[t]
    BY <1>5
  <2> HIDE DEF meant
  <2>2. WithKey(t, meant[t]) # {}
    BY <1>5, <2>1 DEF IsExportable
  <2>3. chosen(t) \in WithKey(t, meant[t])
    BY <2>2
  <2> HIDE DEF chosen
  <2>4. chosen(t) \in ToSet(cmd.raw[t]) /\ chosen(t).from = meant[t] /\ chosen(t).key # None
    BY <2>3 DEF WithKey
  <2>5. chosen(t).key \in Keys \cup {None}
    BY <1>2, <2>4 DEF RawRecord
  <2> QED BY <2>4, <2>5
<1> HIDE DEF meant, chosen
<1>6. values \in [Tables -> Keys \cup {None}]
  BY <1>5
<1>7. \A t \in Tables : values[t] # None => meant[t] # None /\ values[t] = chosen(t).key
  OBVIOUS
<1> HIDE DEF values
<1>8. Placeholder(table, r) \in FileRecord
  BY <1>1, <1>3, <1>4, <1>6 DEF FileRecord
<1> QED BY <1>1, <1>5, <1>7, <1>8

\* A file that can be exported has whole records.
LEMMA ArtifactIs ==
  ASSUME NEW table \in Tables, cmd \in Command, count \in Count, IsExportable(table)
  PROVE  /\ Artifact(table, count.commands) \in DataFile
         /\ Artifact(table, count.commands).by = count.commands
         /\ Artifact(table, count.commands).state = "whole"
<1> DEFINE raw == cmd.raw[table]  n == Len(raw)
           records == [k \in DOMAIN raw |-> Placeholder(table, raw[k])]
<1>1. Artifact(table, count.commands) =
        [state |-> "whole", by |-> count.commands, table |-> table, fields |-> Fields \ {"system"},
         records |-> records]
  BY DEF Artifact, Placeholder
<1>2. raw \in Seq(RawRecord) /\ n \in Nat /\ DOMAIN raw = 1 .. n /\ \A k \in 1 .. n : raw[k] \in ToSet(raw)
  BY Elements DEF Command
<1>3. \A k \in 1 .. n : Placeholder(table, raw[k]) \in FileRecord
  BY <1>2, PlaceholderIs
<1>4. records \in Seq(FileRecord)
  <2>1. records \in [1 .. n -> FileRecord]
    BY <1>2, <1>3
  <2> QED BY <1>2, <2>1, AsSequence
<1> HIDE DEF records
<1> QED BY <1>1, <1>4 DEF DataFile, FileState, Count

\* So has the file of a flat export.
LEMMA FlatArtifactIs ==
  ASSUME NEW table \in Tables, NEW importReady \in BOOLEAN, source \in [Ids -> SourceRecord],
         count \in Count, count.commands < MaxCommands
  PROVE  /\ FlatArtifact(table, importReady) \in DataFile
         /\ FlatArtifact(table, importReady).table = table
<1> DEFINE raw == Selected(table)  n == Len(raw)  none == [t \in Tables |-> None]
           records == [k \in DOMAIN raw |->
                         [from |-> raw[k].from, key |-> raw[k].key, values |-> none, meant |-> none]]
<1>1. FlatArtifact(table, importReady) =
        [state |-> "whole", by |-> count.commands + 1, table |-> table,
         fields |-> Prepared(importReady), records |-> records]
  BY DEF FlatArtifact
<1>2. raw \in Seq(RawRecord)
  BY SelectedIs
<1> HIDE DEF raw
<1>3. n \in Nat /\ DOMAIN raw = 1 .. n /\ \A k \in 1 .. n : raw[k] \in RawRecord
  BY <1>2, Elements
<1>4. records \in Seq(FileRecord)
  <2>1. none \in [Tables -> Ids \cup {None}] /\ none \in [Tables -> Keys \cup {None}]
    OBVIOUS
  <2> HIDE DEF none
  <2>2. records \in [1 .. n -> FileRecord]
    BY <1>3, <2>1 DEF RawRecord, FileRecord
  <2> QED BY <1>3, <2>2, AsSequence
<1> HIDE DEF records
<1>5. Prepared(importReady) \in SUBSET Fields
  BY DEF Prepared
<1>6. count.commands + 1 \in 0 .. MaxCommands
  BY BoundAssumption DEF Count
<1> QED BY <1>1, <1>4, <1>5, <1>6 DEF DataFile, FileState
----------------------------------------------------------------------------
(* Type correctness of the data commands.                                  *)

Outcomes == {"none", "ok", "checked", "failed", "refused", "partial", "aborted"}

\* The idle command is a command.
LEMMA NoCommandIs ==
  NoCommand \in Command /\ NoShape \in Shape
<1>1. NoShape \in Shape
  BY DEF NoShape, Shape
<1>2. <<>> \in Seq(Tables) /\ [t \in Tables |-> <<>>] \in [Tables -> Seq(RawRecord)]
  BY EmptySeq
<1> HIDE DEF Shape, NoShape
<1> QED BY <1>1, <1>2 DEF NoCommand, Command

\* How a command ends.
LEMMA EndIs ==
  ASSUME cmd \in Command, NEW outcome \in Outcomes, End(outcome)
  PROVE  /\ cmd' \in Command
         /\ cmd'.op = cmd.op /\ cmd'.pc = "idle" /\ cmd'.outcome = outcome /\ cmd'.ids = {}
         /\ cmd'.first = cmd.first /\ cmd'.created = cmd.created /\ cmd'.failed = cmd.failed
         /\ cmd'.staged = cmd.staged /\ cmd'.todo = <<>>
<1>1. cmd' = [NoCommand EXCEPT !.op = cmd.op, !.outcome = outcome, !.first = cmd.first,
                               !.created = cmd.created, !.failed = cmd.failed,
                               !.staged = cmd.staged]
  BY DEF End
<1>2. NoCommand.pc = "idle" /\ NoCommand.ids = {} /\ NoCommand.todo = <<>>
  BY DEF NoCommand
<1> QED BY <1>1, <1>2, NoCommandIs DEF Command, Outcomes

\* How a command starts.
LEMMA StartIs ==
  ASSUME NEW command \in Command, rows \in Seq(TargetRow), count \in Count, Start(command)
  PROVE  /\ cmd' \in Command /\ cmd'.first = Len(rows) + 1
         /\ cmd' = [command EXCEPT !.first = Len(rows) + 1]
         /\ count' \in Count /\ count'.commands = count.commands + 1 /\ count.commands < MaxCommands
         /\ cmd.pc = "idle"
<1>1. Len(rows) \in Nat
  BY Elements
<1>2. cmd' = [command EXCEPT !.first = Len(rows) + 1] /\ cmd.pc = "idle" /\ count.commands < MaxCommands
      /\ count' = [count EXCEPT !.commands = @ + 1]
  BY DEF Start
<1>3. cmd' \in Command /\ cmd'.first = Len(rows) + 1
  <2>1. PICK n \in Nat \ {0} : n = Len(rows) + 1
    BY <1>1
  <2>2. cmd' = [command EXCEPT !.first = n]
    BY <1>2, <2>1
  <2>3. cmd' \in Command /\ cmd'.first = n
    BY <2>2 DEF Command
  <2> QED BY <2>1, <2>3
<1>4. count' \in Count /\ count'.commands = count.commands + 1
  BY <1>2, BoundAssumption DEF Count
<1> QED BY <1>2, <1>3, <1>4

\* The record an import is at, its file, and the row it makes of it.
LEMMA ImportIs ==
  ASSUME DatasetTypeOK, CommandInv, Importing
  PROVE  /\ Head(cmd.todo) \in Tables /\ File \in DataFile
         /\ Record \in FileRecord /\ Record \in ToSet(File.records)
         /\ cmd.op \in {"import", "importPackage"}
         /\ cmd.op = "importPackage" => File = dir.files[Head(cmd.todo)]
         /\ cmd.op = "import" => ReferenceFields = {}
         /\ ReferenceFields \subseteq Tables
<1>1. cmd.todo \in Seq(Tables) /\ cmd.todo # <<>> /\ cmd.pc = "import" /\ cmd.index \in Nat \ {0}
      /\ cmd.index <= Len(File.records)
  BY DEF DatasetTypeOK, Command, Importing
<1>2. Head(cmd.todo) \in Tables
  BY <1>1, TailIs
<1>3. cmd.op \in {"import", "importPackage"}
  BY <1>1 DEF CommandInv
<1>4. File \in DataFile /\ (cmd.op = "importPackage" => File = dir.files[Head(cmd.todo)])
  BY <1>2, <1>3 DEF DatasetTypeOK, Directory, File, FileOf
<1>5. File.records \in Seq(FileRecord)
  BY <1>4 DEF DataFile
<1>6. Record \in FileRecord /\ Record \in ToSet(File.records)
  <2>1. cmd.index \in DOMAIN File.records
    BY <1>1, <1>5, Elements
  <2> QED BY <1>5, <2>1, Elements DEF Record
<1>7. cmd.op = "import" => ReferenceFields = {}
  BY <1>1 DEF CommandInv, ReferenceFields, Targets, NoShape
<1>8. ReferenceFields \subseteq Tables
  BY DEF ReferenceFields, Targets
<1> QED BY <1>2, <1>3, <1>4, <1>6, <1>7, <1>8

\* The row that an import creates, and where its references come from.
LEMMA RowIs ==
  ASSUME DatasetTypeOK, CommandInv, Importing, IsMapped
  PROVE  /\ Row \in TargetRow /\ Row.by = 0
         /\ Row.table = Head(cmd.todo) /\ Row.from = Record.from /\ Row.meant = Record.meant
         /\ Row.exact = IsExact
         /\ \A t \in Tables : Row.to[t] # None =>
              t \in ReferenceFields /\ \E m \in Mapped(t, Record.values[t]) : m.id = Row.to[t]
<1> DEFINE chosen(t) == CHOOSE m \in Mapped(t, Record.values[t]) : TRUE
           to == [t \in Tables |-> IF t \in ReferenceFields THEN chosen(t).id ELSE None]
<1>1. Row = [table |-> Head(cmd.todo), by |-> 0, from |-> Record.from, meant |-> Record.meant,
             exact |-> IsExact, to |-> to]
  BY DEF Row
<1>2. Head(cmd.todo) \in Tables /\ Record \in FileRecord
  BY ImportIs
<1>3. \A t \in ReferenceFields : chosen(t) \in Mapped(t, Record.values[t])
  BY DEF IsMapped
<1>4. cmd.ids \in SUBSET TargetId
  BY DEF DatasetTypeOK, Command
<1> HIDE DEF chosen
<1>5. \A t \in ReferenceFields : chosen(t).id \in 0 .. MaxRows
  BY <1>3, <1>4 DEF Mapped, TargetId
<1>6. to \in [Tables -> 0 .. MaxRows]
  BY <1>5, BoundAssumption
<1>7. \A t \in Tables : to[t] # None => t \in ReferenceFields /\ to[t] = chosen(t).id
  OBVIOUS
<1>8. IsExact \in BOOLEAN
  BY DEF IsExact
<1> HIDE DEF to
<1>9. Row \in TargetRow
  BY <1>1, <1>2, <1>6, <1>8 DEF TargetRow, FileRecord
<1> QED BY <1>1, <1>3, <1>7, <1>9

\* A row is added where there is room for it.
LEMMA RowAdded ==
  ASSUME rows \in Seq(TargetRow), Len(rows) <= MaxRows,
         \/ UNCHANGED rows
         \/ Len(rows) < MaxRows /\ \E row \in TargetRow : rows' = Append(rows, row)
  PROVE  /\ rows' \in Seq(TargetRow) /\ Len(rows') <= MaxRows /\ Len(rows) <= Len(rows')
         /\ Len(rows) \in Nat /\ Len(rows') \in Nat
         /\ DOMAIN rows = 1 .. Len(rows) /\ DOMAIN rows' = 1 .. Len(rows')
         /\ \A i \in DOMAIN rows : i \in DOMAIN rows' /\ rows'[i] = rows[i]
<1>1. Len(rows) \in Nat /\ DOMAIN rows = 1 .. Len(rows) /\ MaxRows \in Nat
  BY Elements, BoundAssumption
<1>2. CASE UNCHANGED rows
  BY <1>1, <1>2
<1>3. ASSUME NEW row \in TargetRow, Len(rows) < MaxRows, rows' = Append(rows, row)
      PROVE  /\ rows' \in Seq(TargetRow) /\ Len(rows') = Len(rows) + 1
             /\ DOMAIN rows' = 1 .. Len(rows) + 1
             /\ \A i \in DOMAIN rows : rows'[i] = rows[i]
  BY <1>3, Appended
<1>4. CASE Len(rows) < MaxRows /\ \E row \in TargetRow : rows' = Append(rows, row)
  <2>1. PICK row \in TargetRow : rows' = Append(rows, row)
    BY <1>4
  <2>2. /\ rows' \in Seq(TargetRow) /\ Len(rows') = Len(rows) + 1
        /\ DOMAIN rows' = 1 .. Len(rows) + 1
        /\ \A i \in DOMAIN rows : rows'[i] = rows[i]
    BY <1>3, <1>4, <2>1
  <2>3. \A i \in DOMAIN rows : i \in DOMAIN rows' /\ rows'[i] = rows[i]
    BY <1>1, <2>2
  <2>4. Len(rows) < MaxRows
    BY <1>4
  <2>5. Len(rows') \in Nat /\ Len(rows') <= MaxRows /\ Len(rows) <= Len(rows') /\ DOMAIN rows' = 1 .. Len(rows')
    BY <1>1, <2>2, <2>4
  <2> QED BY <1>1, <2>2, <2>3, <2>5
<1> QED BY <1>2, <1>4

\* What an import adds to what it remembers.
LEMMA RememberIs ==
  ASSUME DatasetTypeOK, CommandInv, Importing, NEW id \in 0 .. MaxRows
  PROVE  /\ Remember(id) \in SUBSET TargetId
         /\ \A m \in Remember(id) :
              m \in cmd.ids \/ (m.table = Head(cmd.todo) /\ m.key = Record.key /\ m.id = id)
<1>1. Head(cmd.todo) \in Tables /\ Record.key \in Keys \cup {None}
  BY ImportIs DEF FileRecord
<1>2. cmd.ids \in SUBSET TargetId
  BY DEF DatasetTypeOK, Command
<1>3. Record.key # None => [table |-> Head(cmd.todo), key |-> Record.key, id |-> id] \in TargetId
  BY <1>1 DEF TargetId
<1> QED BY <1>2, <1>3 DEF Remember
----------------------------------------------------------------------------
(* Types and the progress of a command, step by step.                      *)

\* An export starts with an order of its tables.
LEMMA BeginExportKeepsTypes ==
  ASSUME DatasetTypeOK, CommandInv, BeginExport, UNCHANGED seedVars, seed.pc = "idle"
  PROVE  DatasetTypeOK' /\ CommandInv'
<1>1. PICK shape \in Shapes :
        Start(IF shape \in Acceptable
              THEN [NoCommand EXCEPT !.op = "package", !.pc = "fetch", !.shape = shape,
                                     !.todo = ImportOrder[shape]]
              ELSE [NoCommand EXCEPT !.op = "package", !.outcome = "failed"])
  BY DEF BeginExport
<1>2. UNCHANGED <<source, dir, rows, seed>>
  BY DEF BeginExport, seedVars
<1>3. shape \in Shape
  BY InputAssumption
<1>4. NoCommand.ids = {}
  BY DEF NoCommand
<1>5. CASE shape \in Acceptable
  <2> DEFINE command == [NoCommand EXCEPT !.op = "package", !.pc = "fetch", !.shape = shape,
                                          !.todo = ImportOrder[shape]]
  <2>1. ImportOrder[shape] \in Seq(Tables) /\ ImportOrder[shape] # <<>>
    BY <1>5, AnImportOrder
  <2>2. /\ command \in Command /\ command.op = "package" /\ command.pc = "fetch"
        /\ command.shape = shape /\ command.todo # <<>>
    BY <1>3, <2>1, NoCommandIs DEF Command
  <2>3. Start(command)
    BY <1>1, <1>5
  <2> HIDE DEF command
  <2>4. cmd' \in Command /\ cmd' = [command EXCEPT !.first = Len(rows) + 1] /\ count' \in Count
    BY <2>2, <2>3, StartIs DEF DatasetTypeOK
  <2>5. cmd'.op = "package" /\ cmd'.pc = "fetch" /\ cmd'.shape = shape /\ cmd'.todo # <<>>
    BY <2>2, <2>4 DEF Command
  <2> QED BY <1>2, <1>5, <2>4, <2>5 DEF DatasetTypeOK, CommandInv
<1>6. CASE shape \notin Acceptable
  <2> DEFINE command == [NoCommand EXCEPT !.op = "package", !.outcome = "failed"]
  <2>1. command \in Command /\ command.pc = "idle" /\ command.ids = {}
    BY <1>4, NoCommandIs DEF Command, NoCommand
  <2>2. Start(command)
    BY <1>1, <1>6
  <2> HIDE DEF command
  <2>3. cmd' \in Command /\ cmd' = [command EXCEPT !.first = Len(rows) + 1] /\ count' \in Count
    BY <2>1, <2>2, StartIs DEF DatasetTypeOK
  <2>4. cmd'.pc = "idle" /\ cmd'.ids = {}
    BY <2>1, <2>3 DEF Command
  <2> QED BY <1>2, <2>3, <2>4 DEF DatasetTypeOK, CommandInv
<1> QED BY <1>5, <1>6

\* Fetching goes on while there is a table to fetch.
LEMMA FetchTableKeepsTypes ==
  ASSUME DatasetTypeOK, CommandInv, FetchTable, UNCHANGED seedVars
  PROVE  DatasetTypeOK' /\ CommandInv'
<1> DEFINE table == Head(cmd.todo)
           fetched == [cmd EXCEPT !.raw[table] = Selected(table)]
<1>1. /\ cmd.op = "package" /\ cmd.pc = "fetch" /\ cmd.shape \in Acceptable /\ cmd.todo # <<>>
      /\ cmd \in Command /\ cmd.todo \in Seq(Tables) /\ source \in [Ids -> SourceRecord]
      /\ seed.pc = "idle"
  BY DEF FetchTable, At, CommandInv, DatasetTypeOK, Command
<1>2. table \in Tables /\ Tail(cmd.todo) \in Seq(Tables) /\ Len(Tail(cmd.todo)) = Len(cmd.todo) - 1
  BY <1>1, TailIs
<1>3. Selected(table) \in Seq(RawRecord)
  BY <1>1, <1>2, SelectedIs
<1>4. cmd' = IF Len(cmd.todo) > 1 THEN [fetched EXCEPT !.todo = Tail(@)]
             ELSE [fetched EXCEPT !.pc = "write", !.todo = ImportOrder[cmd.shape]]
  BY DEF FetchTable
<1>5. UNCHANGED <<source, dir, rows, count, seed>>
  BY DEF FetchTable, Unchanged, seedVars
<1> HIDE DEF table
<1>6. /\ fetched \in Command /\ fetched.op = "package" /\ fetched.pc = "fetch"
      /\ fetched.shape = cmd.shape /\ fetched.todo = cmd.todo
  BY <1>1, <1>2, <1>3 DEF Command
<1> HIDE DEF fetched
<1>7. ImportOrder[cmd.shape] \in Seq(Tables)
  BY <1>1, AnImportOrder
<1>8. CASE Len(cmd.todo) > 1
  <2>1. cmd' = [fetched EXCEPT !.todo = Tail(cmd.todo)]
    BY <1>4, <1>6, <1>8
  <2>2. Tail(cmd.todo) # <<>>
    <3>1. Len(Tail(cmd.todo)) # 0
      BY <1>1, <1>2, <1>8, Elements
    <3> QED BY <1>2, <3>1, Elements
  <2>3. /\ cmd' \in Command /\ cmd'.op = "package" /\ cmd'.pc = "fetch" /\ cmd'.shape = cmd.shape
        /\ cmd'.todo # <<>>
    BY <1>2, <1>6, <2>1, <2>2 DEF Command
  <2> QED BY <1>1, <1>5, <2>3 DEF DatasetTypeOK, CommandInv
<1>9. CASE ~(Len(cmd.todo) > 1)
  <2>1. cmd' = [fetched EXCEPT !.pc = "write", !.todo = ImportOrder[cmd.shape]]
    BY <1>4, <1>9
  <2>2. cmd' \in Command /\ cmd'.op = "package" /\ cmd'.pc = "write" /\ cmd'.shape = cmd.shape
    BY <1>6, <1>7, <2>1 DEF Command
  <2> QED BY <1>1, <1>5, <2>2 DEF DatasetTypeOK, CommandInv
<1> QED BY <1>8, <1>9

\* A step that ends the command and leaves the directory alone, or writes there
\* what may be in it.
LEMMA EndKeepsTypes ==
  ASSUME DatasetTypeOK, CommandInv, NEW outcome \in Outcomes, End(outcome), cmd.pc # "idle",
         UNCHANGED <<source, count>>, UNCHANGED seedVars,
         dir' \in Directory, dir'.manifest.state = "whole" => dir'.manifest.shape \in Acceptable,
         dir'.flat = dir.flat,
         \/ UNCHANGED rows
         \/ Len(rows) < MaxRows /\ \E row \in TargetRow : rows' = Append(rows, row)
  PROVE  DatasetTypeOK' /\ CommandInv'
<1>1. cmd' \in Command /\ cmd'.pc = "idle" /\ cmd'.ids = {}
  BY EndIs DEF DatasetTypeOK
<1>2. rows' \in Seq(TargetRow) /\ Len(rows') <= MaxRows
  BY RowAdded DEF DatasetTypeOK
<1>3. seed.pc = "idle" /\ seed' = seed
  BY DEF CommandInv, seedVars
<1> QED BY <1>1, <1>2, <1>3 DEF DatasetTypeOK, CommandInv

\* A table is written, or cannot be exported.
LEMMA WriteTableKeepsTypes ==
  ASSUME DatasetTypeOK, CommandInv, WriteTable, UNCHANGED seedVars
  PROVE  DatasetTypeOK' /\ CommandInv'
<1> DEFINE table == Head(cmd.todo)
<1>1. /\ cmd.op = "package" /\ cmd.pc = "write" /\ cmd.shape \in Acceptable /\ cmd.todo # <<>>
      /\ cmd \in Command /\ cmd.todo \in Seq(Tables) /\ count \in Count /\ dir \in Directory
      /\ seed.pc = "idle"
  BY DEF WriteTable, At, CommandInv, DatasetTypeOK, Command
<1>2. table \in Tables /\ Tail(cmd.todo) \in Seq(Tables)
  BY <1>1, TailIs
<1>3. UNCHANGED <<source, rows, count, seed>>
  BY DEF WriteTable, Unchanged, seedVars
<1>4. CASE IsExportable(table)
  <2>1. /\ dir' = [dir EXCEPT !.files[table] = Artifact(table, count.commands)]
        /\ cmd' = [cmd EXCEPT !.todo = Tail(cmd.todo)]
    BY <1>4 DEF WriteTable
  <2>2. Artifact(table, count.commands) \in DataFile
    BY <1>1, <1>2, <1>4, ArtifactIs
  <2> HIDE DEF table
  <2>3. dir' \in Directory /\ dir'.manifest = dir.manifest /\ dir'.flat = dir.flat
    BY <1>1, <1>2, <2>1, <2>2 DEF Directory
  <2>4. cmd' \in Command /\ cmd'.op = "package" /\ cmd'.pc = "write" /\ cmd'.shape = cmd.shape
    BY <1>1, <1>2, <2>1 DEF Command
  <2> QED BY <1>1, <1>3, <2>3, <2>4 DEF DatasetTypeOK, CommandInv
<1>5. CASE ~IsExportable(table)
  <2>1. End("failed") /\ UNCHANGED dir
    BY <1>5 DEF WriteTable
  <2> QED BY <1>1, <1>3, <2>1, EndKeepsTypes DEF Outcomes, CommandInv
<1> QED BY <1>4, <1>5

\* The manifest has a spec that was accepted.
LEMMA WriteManifestKeepsTypes ==
  ASSUME DatasetTypeOK, CommandInv, WriteManifest, UNCHANGED seedVars
  PROVE  DatasetTypeOK' /\ CommandInv'
<1>1. /\ cmd.pc = "write" /\ cmd.shape \in Acceptable /\ cmd.shape \in Shape
      /\ cmd \in Command /\ count.commands \in 0 .. MaxCommands /\ dir \in Directory
  BY DEF WriteManifest, At, CommandInv, DatasetTypeOK, Command, Count
<1>2. dir' = [dir EXCEPT !.manifest = [state |-> "whole", by |-> count.commands, shape |-> cmd.shape]]
  BY DEF WriteManifest
<1>3. dir' \in Directory /\ dir'.manifest.shape = cmd.shape /\ dir'.flat = dir.flat
  BY <1>1, <1>2 DEF Directory, Manifest, FileState
<1>4. End("ok") /\ UNCHANGED <<source, count, rows>>
  BY DEF WriteManifest, Unchanged
<1> QED BY <1>1, <1>3, <1>4, EndKeepsTypes DEF Outcomes

\* A file that was cut is still a file.
LEMMA WriteCutKeepsTypes ==
  ASSUME DatasetTypeOK, CommandInv, WriteCut, UNCHANGED seedVars
  PROVE  DatasetTypeOK' /\ CommandInv'
<1>1. /\ cmd.pc = "write" /\ cmd.todo \in Seq(Tables) /\ dir \in Directory
      /\ End("failed") /\ UNCHANGED <<source, count, rows>>
  BY DEF WriteCut, At, Unchanged, DatasetTypeOK, Command
<1>2. CASE cmd.todo = <<>>
  <2>1. dir' = [dir EXCEPT !.manifest.state = "cut"]
    BY <1>2 DEF WriteCut
  <2>2. dir' \in Directory /\ dir'.manifest.state = "cut" /\ dir'.flat = dir.flat
    BY <1>1, <2>1 DEF Directory, Manifest, FileState
  <2> QED BY <1>1, <2>2, EndKeepsTypes DEF Outcomes
<1>3. CASE cmd.todo # <<>>
  <2> DEFINE table == Head(cmd.todo)
  <2>1. table \in Tables
    BY <1>1, <1>3, TailIs
  <2>2. dir' = [dir EXCEPT !.files[table].state = "cut"]
    BY <1>3 DEF WriteCut
  <2> HIDE DEF table
  <2>3. dir.files[table] \in DataFile
    BY <1>1, <2>1 DEF Directory
  <2>4. [dir.files[table] EXCEPT !.state = "cut"] \in DataFile
    BY <2>3 DEF DataFile, FileState
  <2>5. dir' = [dir EXCEPT !.files[table] = [dir.files[table] EXCEPT !.state = "cut"]]
    BY <2>2
  <2>6. dir' \in Directory /\ dir'.manifest = dir.manifest /\ dir'.flat = dir.flat
    BY <1>1, <2>1, <2>4, <2>5 DEF Directory
  <2> QED BY <1>1, <2>6, EndKeepsTypes DEF Outcomes, CommandInv
<1> QED BY <1>2, <1>3

\* A flat export has one table.
LEMMA ExportFlatKeepsTypes ==
  ASSUME DatasetTypeOK, CommandInv, ExportFlat, UNCHANGED seedVars, seed.pc = "idle"
  PROVE  DatasetTypeOK' /\ CommandInv'
<1> DEFINE command == [NoCommand EXCEPT !.op = "flat"]
<1>1. Start(command) /\ UNCHANGED <<source, rows, seed>> /\ dir \in Directory
  BY DEF ExportFlat, seedVars, DatasetTypeOK
<1>2. command \in Command /\ command.pc = "idle" /\ command.ids = {}
  BY NoCommandIs DEF Command, NoCommand
<1> HIDE DEF command
<1>3. /\ cmd' \in Command /\ cmd' = [command EXCEPT !.first = Len(rows) + 1] /\ count' \in Count
      /\ count.commands < MaxCommands
  BY <1>1, <1>2, StartIs DEF DatasetTypeOK
<1>4. cmd'.pc = "idle" /\ cmd'.ids = {}
  BY <1>2, <1>3 DEF Command
<1>5. /\ dir' \in Directory /\ dir'.manifest = dir.manifest
      /\ dir'.flat.state = "whole" => dir'.flat.table \in Tables
  <2>1. ASSUME NEW table \in {TableOf[i] : i \in Ids}, NEW importReady \in BOOLEAN,
               dir' = [dir EXCEPT !.flat = FlatArtifact(table, importReady)]
        PROVE  dir' \in Directory /\ dir'.manifest = dir.manifest /\ dir'.flat.table \in Tables
    <3>1. table \in Tables
      BY IdsAssumption
    <3>2. FlatArtifact(table, importReady) \in DataFile /\ FlatArtifact(table, importReady).table = table
      BY <1>3, <3>1, FlatArtifactIs DEF DatasetTypeOK
    <3> QED BY <1>1, <2>1, <3>1, <3>2 DEF Directory
  <2>2. CASE dir' = [dir EXCEPT !.flat.state = "cut"]
    BY <1>1, <2>2 DEF Directory, DataFile, FileState
  <2> QED BY <2>1, <2>2 DEF ExportFlat
<1> QED BY <1>1, <1>3, <1>4, <1>5 DEF DatasetTypeOK, CommandInv

\* The source instance keeps its records' types.
LEMMA SourceChangesKeepsTypes ==
  ASSUME DatasetTypeOK, CommandInv, SourceChanges, UNCHANGED seedVars
  PROVE  DatasetTypeOK' /\ CommandInv'
<1>1. UNCHANGED <<dir, rows, cmd, seed>> /\ count' = [count EXCEPT !.changes = @ + 1]
      /\ count.changes < MaxChanges /\ count \in Count
  BY DEF SourceChanges, seedVars, DatasetTypeOK
<1>2. count' \in Count
  BY <1>1, BoundAssumption DEF Count
<1>3. PICK i \in Ids : \/ source' = [source EXCEPT ![i].here = FALSE]
                       \/ \E k \in Keys \ {source[i].key} : source' = [source EXCEPT ![i].key = k]
  BY DEF SourceChanges
<1>4. source \in [Ids -> SourceRecord]
  BY DEF DatasetTypeOK
<1>5. source' \in [Ids -> SourceRecord]
  <2>1. [source[i] EXCEPT !.here = FALSE] \in SourceRecord
    BY <1>4 DEF SourceRecord
  <2>2. \A k \in Keys : [source[i] EXCEPT !.key = k] \in SourceRecord
    BY <1>4 DEF SourceRecord
  <2>3. CASE source' = [source EXCEPT ![i].here = FALSE]
    BY <1>4, <2>1, <2>3
  <2>4. ASSUME NEW k \in Keys, source' = [source EXCEPT ![i].key = k]
        PROVE  source' \in [Ids -> SourceRecord]
    BY <1>4, <2>2, <2>4
  <2> QED BY <1>3, <2>3, <2>4
<1> QED BY <1>1, <1>2, <1>5 DEF DatasetTypeOK, CommandInv, Acceptable
\* An import starts with the order of the manifest, which has one.
LEMMA BeginImportKeepsTypes ==
  ASSUME DatasetTypeOK, CommandInv, BeginImport, UNCHANGED seedVars, seed.pc = "idle"
  PROVE  DatasetTypeOK' /\ CommandInv'
<1>1. UNCHANGED <<source, dir, rows, seed>> /\ dir \in Directory
  BY DEF BeginImport, seedVars, DatasetTypeOK
<1>2. PICK flat \in BOOLEAN, write \in BOOLEAN, staged \in BOOLEAN :
        Start(IF IsReady(flat) /\ write
              THEN [NoCommand EXCEPT !.op = IF flat THEN "import" ELSE "importPackage",
                      !.pc = "import", !.staged = staged,
                      !.shape = IF flat THEN NoShape ELSE dir.manifest.shape,
                      !.todo = IF flat THEN <<dir.flat.table>> ELSE ImportOrder[dir.manifest.shape]]
              ELSE [NoCommand EXCEPT !.op = "import", !.outcome = IF IsReady(flat) THEN "checked" ELSE "refused"])
  BY DEF BeginImport
<1>3. ASSUME NEW command \in Command, Start(command), command.pc \in {"idle", "import"},
             command.pc = "idle" => command.ids = {},
             command.pc = "import" => command.op \in {"import", "importPackage"},
             command.op = "import" /\ command.pc = "import" => command.shape = NoShape
      PROVE  DatasetTypeOK' /\ CommandInv'
  <2>1. cmd' \in Command /\ cmd' = [command EXCEPT !.first = Len(rows) + 1] /\ count' \in Count
    BY <1>3, StartIs DEF DatasetTypeOK
  <2>2. cmd'.pc = command.pc /\ cmd'.op = command.op /\ cmd'.shape = command.shape /\ cmd'.ids = command.ids
    BY <2>1 DEF Command
  <2> QED BY <1>1, <1>3, <2>1, <2>2 DEF DatasetTypeOK, CommandInv
<1>4. NoCommand.pc = "idle" /\ NoCommand.ids = {}
  BY DEF NoCommand
<1>5. CASE ~(IsReady(flat) /\ write)
  <2> DEFINE command == [NoCommand EXCEPT !.op = "import", !.outcome = IF IsReady(flat) THEN "checked" ELSE "refused"]
  <2>1. command \in Command /\ command.pc = "idle" /\ command.ids = {}
    BY <1>4, NoCommandIs DEF Command
  <2>2. Start(command)
    BY <1>2, <1>5
  <2> HIDE DEF command
  <2> QED BY <1>3, <2>1, <2>2
<1>6. CASE IsReady(flat) /\ write /\ flat
  <2> DEFINE command == [NoCommand EXCEPT !.op = "import", !.pc = "import", !.staged = staged,
                                          !.shape = NoShape,
                                          !.todo = <<dir.flat.table>>]
  <2>1. dir.flat.table \in Tables
    BY <1>6 DEF IsReady, CommandInv
  <2>2. <<dir.flat.table>> \in Seq(Tables)
    BY <2>1
  <2>3. /\ command \in Command /\ command.pc = "import" /\ command.op = "import"
        /\ command.shape = NoShape
    BY <2>2, NoCommandIs DEF Command
  <2>4. Start(command)
    BY <1>2, <1>6
  <2> HIDE DEF command
  <2> QED BY <1>3, <2>3, <2>4
<1>7. CASE IsReady(flat) /\ write /\ ~flat
  <2> DEFINE command == [NoCommand EXCEPT !.op = "importPackage", !.pc = "import", !.staged = staged,
                           !.shape = dir.manifest.shape, !.todo = ImportOrder[dir.manifest.shape]]
  <2>1. dir.manifest.shape \in Acceptable
    BY <1>7 DEF IsReady, CommandInv
  <2>2. ImportOrder[dir.manifest.shape] \in Seq(Tables) /\ dir.manifest.shape \in Shape
    BY <1>1, <2>1, AnImportOrder DEF Directory, Manifest
  <2>3. command \in Command /\ command.pc = "import" /\ command.op = "importPackage"
    BY <2>2, NoCommandIs DEF Command
  <2>4. Start(command)
    BY <1>2, <1>7
  <2> HIDE DEF command
  <2> QED BY <1>3, <2>3, <2>4
<1> QED BY <1>5, <1>6, <1>7

\* A step of an import that goes on.
LEMMA ImportKeepsTypes ==
  ASSUME DatasetTypeOK, CommandInv, cmd.pc = "import", UNCHANGED <<source, count, dir>>,
         UNCHANGED seedVars, cmd' \in Command,
         cmd'.pc = "import" /\ cmd'.op = cmd.op /\ cmd'.shape = cmd.shape,
         \/ UNCHANGED rows
         \/ Len(rows) < MaxRows /\ \E row \in TargetRow : rows' = Append(rows, row)
  PROVE  DatasetTypeOK' /\ CommandInv'
<1>1. rows' \in Seq(TargetRow) /\ Len(rows') <= MaxRows
  BY RowAdded DEF DatasetTypeOK
<1>2. seed.pc = "idle" /\ seed' = seed
  BY DEF CommandInv, seedVars
<1> QED BY <1>1, <1>2 DEF DatasetTypeOK, CommandInv

\* Every step of an import.
LEMMA ImportStepKeepsTypes ==
  ASSUME DatasetTypeOK, CommandInv, ImportStep, ~BeginImport, UNCHANGED seedVars
  PROVE  DatasetTypeOK' /\ CommandInv'
<1>1. cmd \in Command /\ dir \in Directory /\ Len(rows) \in Nat /\ MaxRows \in Nat
  BY BoundAssumption, Elements DEF DatasetTypeOK
<1>2. CASE RecordCreated
  <2>1. /\ Importing /\ IsMapped /\ Len(rows) < MaxRows /\ rows' = Append(rows, Row)
        /\ UNCHANGED <<source, count, dir>>
    BY <1>2 DEF RecordCreated, Unchanged
  <2>2. PICK id \in {Len(rows) + 1, None} :
          cmd' = [cmd EXCEPT !.index = @ + 1, !.created = @ + 1, !.ids = Remember(id)]
    BY <1>2 DEF RecordCreated
  <2>3. id \in 0 .. MaxRows
    BY <1>1, <2>1
  <2>4. Remember(id) \in SUBSET TargetId
    BY <2>1, <2>3, RememberIs
  <2>5. Row \in TargetRow /\ cmd.pc = "import"
    BY <2>1, RowIs DEF Importing
  <2>6. PICK i \in Nat \ {0}, n \in Nat : i = cmd.index + 1 /\ n = cmd.created + 1
    BY <1>1 DEF Command
  <2>7. cmd' = [cmd EXCEPT !.index = i, !.created = n, !.ids = Remember(id)]
    BY <1>1, <2>2, <2>6
  <2>8. cmd' \in Command /\ cmd'.pc = "import" /\ cmd'.op = cmd.op /\ cmd'.shape = cmd.shape
    BY <1>1, <2>7, <2>4, <2>5 DEF Command
  <2> QED BY <2>1, <2>5, <2>8, ImportKeepsTypes
<1>3. CASE RecordFailed
  <2>1. /\ Importing /\ IsMapped /\ UNCHANGED <<source, count, dir>>
        /\ \/ rows' = Append(rows, Row) /\ Len(rows) < MaxRows
           \/ UNCHANGED rows
        /\ cmd' = [cmd EXCEPT !.index = @ + 1, !.failed = @ + 1]
    BY <1>3 DEF RecordFailed, Unchanged
  <2>2. Row \in TargetRow /\ cmd.pc = "import"
    BY <2>1, RowIs DEF Importing
  <2>3. PICK i \in Nat \ {0}, n \in Nat : i = cmd.index + 1 /\ n = cmd.failed + 1
    BY <1>1 DEF Command
  <2>4. cmd' = [cmd EXCEPT !.index = i, !.failed = n]
    BY <1>1, <2>1, <2>3
  <2>5. cmd' \in Command /\ cmd'.pc = "import" /\ cmd'.op = cmd.op /\ cmd'.shape = cmd.shape
    BY <1>1, <2>2, <2>4 DEF Command
  <2> QED BY <2>1, <2>2, <2>5, ImportKeepsTypes
<1>4. CASE RecordUnmapped
  <2>1. End("aborted") /\ UNCHANGED <<source, count, dir, rows>> /\ cmd.pc = "import"
    BY <1>4 DEF RecordUnmapped, Importing, Unchanged
  <2> QED BY <1>1, <2>1, EndKeepsTypes DEF Outcomes, CommandInv
<1>5. CASE KilledInFlight
  <2>1. /\ End("aborted") /\ UNCHANGED <<source, count, dir>> /\ cmd.pc = "import"
        /\ Importing /\ IsMapped /\ rows' = Append(rows, Row) /\ Len(rows) < MaxRows
    BY <1>5 DEF KilledInFlight, Importing, Unchanged
  <2>2. Row \in TargetRow
    BY <2>1, RowIs
  <2> QED BY <1>1, <2>1, <2>2, EndKeepsTypes DEF Outcomes, CommandInv
<1>6. CASE NextTable
  <2>1. /\ cmd.pc = "import" /\ cmd.todo # <<>> /\ cmd.todo \in Seq(Tables)
        /\ cmd' = [cmd EXCEPT !.todo = Tail(@), !.index = 1]
        /\ UNCHANGED <<source, count, dir, rows>>
    BY <1>1, <1>6 DEF NextTable, Unchanged, Command
  <2> DEFINE todo == Tail(cmd.todo)
  <2>2. todo \in Seq(Tables) /\ cmd' = [cmd EXCEPT !.todo = todo, !.index = 1]
    BY <2>1, TailIs
  <2> HIDE DEF todo
  <2>3. cmd.pc = "import" /\ 1 \in Nat \ {0}
    BY <2>1
  <2>4. cmd' \in Command /\ cmd'.pc = "import" /\ cmd'.op = cmd.op /\ cmd'.shape = cmd.shape
    BY <1>1, <2>2, <2>3 DEF Command
  <2> QED BY <2>1, <2>4, ImportKeepsTypes
<1>7. CASE Report
  <2>1. /\ cmd.pc = "import" /\ UNCHANGED <<source, count, dir, rows>>
        /\ End(IF cmd.failed > 0 THEN "partial" ELSE "ok")
    BY <1>7 DEF Report, Unchanged
  <2> QED BY <1>1, <2>1, EndKeepsTypes DEF Outcomes, CommandInv
<1>8. CASE RowAccepted
  <2>1. /\ cmd.pc = "import" /\ UNCHANGED <<source, count, dir, rows>>
        /\ cmd' = [cmd EXCEPT !.index = @ + 1, !.created = @ + 1]
    BY <1>8 DEF RowAccepted, Importing, Unchanged
  <2>2. PICK i \in Nat \ {0}, n \in Nat : i = cmd.index + 1 /\ n = cmd.created + 1
    BY <1>1 DEF Command
  <2>3. cmd' = [cmd EXCEPT !.index = i, !.created = n]
    BY <1>1, <2>1, <2>2
  <2>4. cmd' \in Command /\ cmd'.pc = "import" /\ cmd'.op = cmd.op /\ cmd'.shape = cmd.shape
    BY <1>1, <2>1, <2>3 DEF Command
  <2> QED BY <2>1, <2>4, ImportKeepsTypes
<1> QED BY <1>2, <1>3, <1>4, <1>5, <1>6, <1>7, <1>8 DEF ImportStep

\* Every step of a data command.
LEMMA DataKeepsTypes ==
  ASSUME DatasetTypeOK, CommandInv, DataNext, seed.pc = "idle", UNCHANGED seedVars
  PROVE  DatasetTypeOK' /\ CommandInv'
<1>1. CASE ExportStep
  BY <1>1, BeginExportKeepsTypes, FetchTableKeepsTypes, WriteTableKeepsTypes, WriteManifestKeepsTypes,
     WriteCutKeepsTypes, ExportFlatKeepsTypes, SourceChangesKeepsTypes DEF ExportStep
<1>2. CASE ImportStep
  BY <1>2, BeginImportKeepsTypes, ImportStepKeepsTypes
<1>3. CASE Fails
  <2>1. /\ cmd.pc # "idle" /\ End("aborted") /\ UNCHANGED <<source, count, dir, rows>>
        /\ dir \in Directory
    BY <1>3 DEF Fails, Unchanged, DatasetTypeOK
  <2> QED BY <2>1, EndKeepsTypes DEF Outcomes, CommandInv
<1> QED BY <1>1, <1>2, <1>3 DEF DataNext
----------------------------------------------------------------------------
(* Packages: the files of one export resolve each other's placeholders.    *)

\* The records of a file that was written are those that were fetched.
LEMMA RecordsOf ==
  ASSUME NEW table \in Tables, cmd \in Command, NEW number
  PROVE  ToSet(Artifact(table, number).records) = {Placeholder(table, r) : r \in ToSet(cmd.raw[table])}
<1> DEFINE raw == cmd.raw[table]  records == [k \in DOMAIN raw |-> Placeholder(table, raw[k])]
<1>1. Artifact(table, number).records = records
  BY DEF Artifact, Placeholder
<1>2. raw \in Seq(RawRecord)
  BY DEF Command
<1> HIDE DEF raw
<1>3. ToSet(raw) = {raw[k] : k \in DOMAIN raw}
  BY <1>2, Elements
<1>4. ToSet(records) = {Placeholder(table, raw[k]) : k \in DOMAIN raw}
  BY DEF ToSet
<1> HIDE DEF records
<1> QED BY <1>1, <1>3, <1>4 DEF raw

\* Two files of one export: a placeholder stands for a record that has its key.
LEMMA WrittenLinked ==
  ASSUME NEW a \in Tables, NEW b \in Tables, cmd \in Command, IsExportable(a), IsExportable(b),
         NEW number, NEW r \in ToSet(Artifact(a, number).records), r.values[b] # None
  PROVE  \E q \in ToSet(Artifact(b, number).records) : q.key = r.values[b] /\ q.from = r.meant[b]
<1>1. PICK s \in ToSet(cmd.raw[a]) : r = Placeholder(a, s)
  <2>1. ToSet(Artifact(a, number).records) = {Placeholder(a, s) : s \in ToSet(cmd.raw[a])}
    BY RecordsOf
  <2> QED BY <2>1
<1>2. PICK q \in ToSet(cmd.raw[b]) : q.key = r.values[b] /\ q.from = r.meant[b]
  BY <1>1, PlaceholderIs
<1>3. Placeholder(b, q).key = q.key /\ Placeholder(b, q).from = q.from
  BY PlaceholderIs
<1>4. Placeholder(b, q) \in ToSet(Artifact(b, number).records)
  BY RecordsOf
<1> QED BY <1>2, <1>3, <1>4

\* Steps that leave the records of the files alone.
LEMMA PackageKept ==
  ASSUME DatasetTypeOK, PackageInv,
         \A t \in Tables : dir'.files[t].by = dir.files[t].by /\ dir'.files[t].records = dir.files[t].records,
         count'.commands \in {count.commands, count.commands + 1},
         cmd'.pc = "fetch" => cmd.pc = "fetch" \/ count'.commands = count.commands + 1,
         cmd'.pc = "write" => cmd.pc = "fetch" /\ count'.commands = count.commands
  PROVE  PackageInv'
<1>1. count.commands \in Nat /\ \A t \in Tables : dir.files[t].by \in Nat
  BY DEF DatasetTypeOK, Count, Directory, DataFile
<1>2. ASSUME NEW t \in Tables
      PROVE  dir'.files[t].by <= count'.commands
  <2>1. dir.files[t].by <= count.commands
    BY DEF PackageInv
  <2>2. count'.commands = count.commands \/ count'.commands = count.commands + 1
    OBVIOUS
  <2>3. dir'.files[t].by = dir.files[t].by
    OBVIOUS
  <2>4. \A x, n, m \in Nat : x <= n /\ (m = n \/ m = n + 1) => x <= m
    OBVIOUS
  <2>5. dir.files[t].by \in Nat /\ count.commands \in Nat /\ count'.commands \in Nat
    BY <1>1, <2>2
  <2>6. dir.files[t].by <= count'.commands
    BY <2>1, <2>2, <2>4, <2>5
  <2> QED BY <2>3, <2>6
<1>3. cmd'.pc = "fetch" => \A t \in Tables : dir'.files[t].by < count'.commands
  BY <1>1 DEF PackageInv
<1>4. cmd'.pc = "write" => \A t \in Tables : dir'.files[t].by # count'.commands
  BY <1>1 DEF PackageInv
<1>5. \A a, b \in Tables : dir'.files[a].by = dir'.files[b].by => Linked(a, b)'
  BY DEF PackageInv, Linked
<1> QED BY <1>2, <1>3, <1>4, <1>5 DEF PackageInv

\* A file as a function of what was fetched.
ArtifactOf(raw, shape, table, number) ==
  LET meant(r) == [t \in Tables |-> IF t \in Targets(shape, table) THEN r.to[t] ELSE None]
      value(t, id) == IF id = None THEN None
                      ELSE (CHOOSE r \in {r \in ToSet(raw[t]) : r.from = id /\ r.key # None} : TRUE).key
  IN  [state |-> "whole", by |-> number, table |-> table, fields |-> Fields \ {"system"},
       records |-> [k \in DOMAIN raw[table] |->
         LET r == raw[table][k]
         IN  [from |-> r.from, key |-> r.key, meant |-> meant(r),
              values |-> [t \in Tables |-> value(t, meant(r)[t])]]]]

\* A file is written: it resolves and is resolved by those of its export.
LEMMA WriteKeepsPackage ==
  ASSUME DatasetTypeOK, CommandInv, PackageInv, WriteTable, IsExportable(Head(cmd.todo))
  PROVE  PackageInv'
<1> DEFINE table == Head(cmd.todo)  n == count.commands
<1>1. /\ cmd.pc = "write" /\ cmd.todo # <<>> /\ cmd \in Command /\ cmd.todo \in Seq(Tables)
      /\ count \in Count /\ dir \in Directory
  BY DEF WriteTable, At, DatasetTypeOK, Command
<1>2. /\ dir' = [dir EXCEPT !.files[table] = Artifact(table, n)]
      /\ cmd' = [cmd EXCEPT !.todo = Tail(cmd.todo)] /\ count' = count
  BY DEF WriteTable, Unchanged
<1>3. table \in Tables
  BY <1>1, TailIs
<1>4. Artifact(table, n).by = n
  BY <1>1, <1>3, ArtifactIs
<1> HIDE DEF table
<1>5. /\ dir'.files[table] = Artifact(table, n)
      /\ \A t \in Tables \ {table} : dir'.files[t] = dir.files[t]
  BY <1>1, <1>2, <1>3 DEF Directory
<1>6. cmd'.pc = "write" /\ cmd'.raw = cmd.raw /\ cmd'.shape = cmd.shape
  BY <1>1, <1>2 DEF Command
<1>7. \A t \in Tables : IsExportable(t)' <=> IsExportable(t)
  BY <1>6 DEF IsExportable, WithKey, Targets
<1>8. \A t \in Tables : Artifact(t, count.commands)' = Artifact(t, n)
  <2>1. ASSUME NEW t \in Tables
        PROVE  Artifact(t, count.commands)' = ArtifactOf(cmd'.raw, cmd'.shape, t, count'.commands)
    BY DEF Artifact, ArtifactOf, WithKey
  <2>2. ASSUME NEW t \in Tables
        PROVE  Artifact(t, count.commands) = ArtifactOf(cmd.raw, cmd.shape, t, count.commands)
    BY DEF Artifact, ArtifactOf, WithKey
  <2> QED BY <1>2, <1>6, <2>1, <2>2
<1>9. n \in Nat
  BY <1>1 DEF Count
<1> HIDE DEF n
<1>10. ASSUME NEW t \in Tables, dir'.files[t].by = n
       PROVE  IsExportable(t) /\ dir'.files[t].records = Artifact(t, n).records
  <2>1. CASE t = table
    BY <1>5, <2>1 DEF table
  <2>2. CASE t # table
    BY <1>1, <1>5, <1>10, <2>2 DEF PackageInv, n
  <2> QED BY <2>1, <2>2
<1>11. ASSUME NEW a \in Tables, NEW b \in Tables, dir'.files[a].by = dir'.files[b].by
       PROVE  Linked(a, b)'
  <2>1. CASE dir'.files[a].by = n
    <3>1. /\ IsExportable(a) /\ dir'.files[a].records = Artifact(a, n).records
          /\ IsExportable(b) /\ dir'.files[b].records = Artifact(b, n).records
      BY <1>10, <1>11, <2>1
    <3>2. ASSUME NEW r \in ToSet(Artifact(a, n).records), r.values[b] # None
          PROVE  \E q \in ToSet(Artifact(b, n).records) : q.key = r.values[b] /\ q.from = r.meant[b]
      BY <1>1, <3>1, <3>2, WrittenLinked
    <3> DEFINE ofA == dir'.files[a].records  ofB == dir'.files[b].records
    <3>3. Linked(a, b)' <=>
            \A r \in ToSet(ofA) :
              r.values[b] # None => \E q \in ToSet(ofB) : q.key = r.values[b] /\ q.from = r.meant[b]
      BY DEF Linked
    <3>4. ofA = Artifact(a, n).records /\ ofB = Artifact(b, n).records
      BY <3>1
    <3> HIDE DEF ofA, ofB
    <3> QED BY <3>2, <3>3, <3>4
  <2>2. CASE dir'.files[a].by # n
    <3>1. a # table /\ b # table
      BY <1>4, <1>5, <1>11, <2>2
    <3>2. dir'.files[a] = dir.files[a] /\ dir'.files[b] = dir.files[b]
      BY <1>5, <3>1
    <3>3. Linked(a, b)
      BY <1>11, <3>2 DEF PackageInv
    <3> QED BY <3>2, <3>3 DEF Linked
  <2> QED BY <2>1, <2>2
<1>12. \A t \in Tables : dir'.files[t].by <= n
  <2>1. \A t \in Tables : dir.files[t].by <= n
    BY DEF PackageInv, n
  <2> QED BY <1>4, <1>5, <1>9, <2>1
<1>13. n = count.commands /\ n = count'.commands
  BY <1>2 DEF n
<1>14. \A t \in Tables : dir'.files[t].by = count'.commands =>
         IsExportable(t)' /\ dir'.files[t].records = Artifact(t, count.commands)'.records
  BY <1>7, <1>8, <1>10, <1>13
<1> QED BY <1>6, <1>11, <1>12, <1>13, <1>14 DEF PackageInv

\* Every step of a data command keeps what the files of an export are to each other.
LEMMA DataKeepsPackage ==
  ASSUME DatasetTypeOK, CommandInv, PackageInv, DataNext
  PROVE  PackageInv'
<1>1. cmd \in Command /\ rows \in Seq(TargetRow) /\ count \in Count /\ dir \in Directory
  BY DEF DatasetTypeOK
<1>2. ASSUME NEW outcome \in Outcomes, End(outcome), UNCHANGED <<dir, count>>
      PROVE  PackageInv'
  BY <1>1, <1>2, EndIs, PackageKept
<1>3. ASSUME NEW command \in Command, Start(command), dir'.files = dir.files, command.pc # "write"
      PROVE  PackageInv'
  <2>1. /\ cmd' = [command EXCEPT !.first = Len(rows) + 1]
        /\ count'.commands = count.commands + 1
    BY <1>1, <1>3, StartIs
  <2>2. cmd'.pc = command.pc
    BY <2>1 DEF Command
  <2> QED BY <1>3, <2>1, <2>2, PackageKept
<1>4. CASE BeginExport
  <2>1. PICK shape \in Shapes :
          Start(IF shape \in Acceptable
                THEN [NoCommand EXCEPT !.op = "package", !.pc = "fetch", !.shape = shape,
                                       !.todo = ImportOrder[shape]]
                ELSE [NoCommand EXCEPT !.op = "package", !.outcome = "failed"])
    BY <1>4 DEF BeginExport
  <2>2. dir' = dir /\ count' = [count EXCEPT !.commands = @ + 1]
    BY <1>4 DEF BeginExport, Start
  <2>3. cmd'.pc \in {"fetch", "idle"}
    BY <2>1, NoCommandIs DEF Start, NoCommand
  <2> QED BY <1>1, <2>2, <2>3, PackageKept DEF Count
<1>5. CASE FetchTable
  <2>1. cmd.pc = "fetch" /\ dir' = dir /\ count' = count
    BY <1>5 DEF FetchTable, At, Unchanged
  <2> QED BY <2>1, PackageKept
<1>6. CASE WriteTable
  <2>1. CASE IsExportable(Head(cmd.todo))
    BY <1>6, <2>1, WriteKeepsPackage
  <2>2. CASE ~IsExportable(Head(cmd.todo))
    <3>1. End("failed") /\ UNCHANGED <<dir, count>>
      BY <1>6, <2>2 DEF WriteTable, Unchanged
    <3> QED BY <1>2, <3>1 DEF Outcomes
  <2> QED BY <2>1, <2>2
<1>7. CASE WriteManifest
  <2>1. End("ok") /\ count' = count /\ dir'.files = dir.files
    BY <1>1, <1>7 DEF WriteManifest, Unchanged, Directory
  <2>2. cmd'.pc = "idle"
    BY <1>1, <2>1, EndIs DEF Outcomes
  <2> QED BY <2>1, <2>2, PackageKept
<1>8. CASE WriteCut
  <2>1. End("failed") /\ count' = count
    BY <1>8 DEF WriteCut, Unchanged
  <2>2. cmd'.pc = "idle"
    BY <1>1, <2>1, EndIs DEF Outcomes
  <2>3. \A t \in Tables : dir'.files[t].by = dir.files[t].by /\ dir'.files[t].records = dir.files[t].records
    <3>1. CASE cmd.todo = <<>>
      BY <1>1, <1>8, <3>1 DEF WriteCut, Directory
    <3>2. CASE cmd.todo # <<>>
      BY <1>1, <1>8, <3>2 DEF WriteCut, Directory, DataFile
    <3> QED BY <3>1, <3>2
  <2> QED BY <2>1, <2>2, <2>3, PackageKept
<1>9. CASE ExportFlat
  <2>1. Start([NoCommand EXCEPT !.op = "flat"]) /\ dir'.files = dir.files
    BY <1>1, <1>9 DEF ExportFlat, Directory
  <2>2. [NoCommand EXCEPT !.op = "flat"] \in Command /\ [NoCommand EXCEPT !.op = "flat"].pc = "idle"
    BY NoCommandIs DEF Command, NoCommand
  <2> QED BY <1>3, <2>1, <2>2
<1>10. CASE SourceChanges
  <2>1. cmd.pc = "fetch" /\ dir' = dir /\ cmd' = cmd /\ count' = [count EXCEPT !.changes = @ + 1]
    BY <1>10 DEF SourceChanges
  <2>2. count'.commands = count.commands
    BY <1>1, <2>1 DEF Count
  <2> QED BY <2>1, <2>2, PackageKept
<1>11. CASE BeginImport
  <2>1. dir' = dir /\ count' = [count EXCEPT !.commands = @ + 1]
    BY <1>11 DEF BeginImport, Start
  <2>2. cmd'.pc \in {"import", "idle"}
    BY <1>11 DEF BeginImport, Start, NoCommand
  <2> QED BY <1>1, <2>1, <2>2, PackageKept DEF Count
<1>12. CASE RecordCreated \/ RowAccepted \/ RecordFailed \/ NextTable
  <2>1. dir' = dir /\ count' = count /\ cmd.pc = "import"
    BY <1>12 DEF RecordCreated, RowAccepted, RecordFailed, NextTable, Importing, Unchanged
  <2>2. cmd'.pc = "import"
    BY <1>1, <1>12, <2>1 DEF RecordCreated, RowAccepted, RecordFailed, NextTable, Command
  <2> QED BY <2>1, <2>2, PackageKept
<1>13. CASE RecordUnmapped \/ KilledInFlight \/ Report \/ Fails
  <2>1. dir' = dir /\ count' = count /\ \E outcome \in Outcomes : End(outcome)
    BY <1>13 DEF RecordUnmapped, KilledInFlight, Report, Fails, Unchanged, Outcomes
  <2> QED BY <1>2, <2>1
<1> QED BY <1>4, <1>5, <1>6, <1>7, <1>8, <1>9, <1>10, <1>11, <1>12, <1>13
        DEF DataNext, ExportStep, ImportStep
----------------------------------------------------------------------------
(* References: what an import remembers, and the rows it makes of it.      *)

\* A reference of a new row leads to the row made from the record it led to.
LEMMA NewRowFaithful ==
  ASSUME DatasetTypeOK, CommandInv, PackageInv, RememberedInv, Importing, IsMapped,
         NEW t \in Tables, Row.exact, Row.to[t] # None
  PROVE  /\ Row.to[t] \in DOMAIN rows /\ rows[Row.to[t]].table = t
         /\ rows[Row.to[t]].from = Row.meant[t]
<1> DEFINE h == Head(cmd.todo)  records == dir.files[t].records
<1>1. PICK m \in Mapped(t, Record.values[t]) : m.id = Row.to[t] /\ t \in ReferenceFields
  BY RowIs
<1>2. m \in cmd.ids /\ m.table = t /\ m.key = Record.values[t]
  BY DEF Mapped
<1>3. cmd.op = "importPackage" /\ h \in Tables /\ Record \in ToSet(dir.files[h].records)
  BY <1>1, ImportIs
<1>4. Known(m)
  BY <1>1, <1>2, <1>3 DEF RememberedInv
<1>5. PICK q \in ToSet(records) : q.key = m.key /\ q.from = rows[m.id].from
  BY <1>2, <1>4 DEF Known
<1>6. Record.values[t] # None
  BY <1>1 DEF ReferenceFields
<1>7. IsExact
  BY RowIs
<1>8. dir.files[h].by = dir.files[t].by
  BY <1>3, <1>7 DEF IsExact
<1>9. Linked(h, t)
  BY <1>3, <1>8 DEF PackageInv
<1>10. PICK s \in ToSet(records) : s.key = Record.values[t] /\ s.from = Record.meant[t]
  BY <1>3, <1>6, <1>9 DEF Linked
<1>11. s = q
  <2>1. PICK j \in DOMAIN records, k \in DOMAIN records : records[j] = s /\ records[k] = q
    BY DEF ToSet
  <2>2. records[j].key = records[k].key
    BY <1>2, <1>5, <1>10, <2>1
  <2>3. j = k
    BY <1>7, <2>2 DEF IsExact
  <2> QED BY <2>1, <2>3
<1>12. rows[m.id].from = Row.meant[t]
  BY <1>5, <1>10, <1>11, RowIs
<1> QED BY <1>1, <1>2, <1>4, <1>12 DEF Known

\* A row whose references lead where they should may be added.
LEMMA FaithfulKept ==
  ASSUME rows \in Seq(TargetRow), Len(rows) < MaxRows, ReferencesFaithful,
         NEW row \in TargetRow, rows' = Append(rows, row),
         \A t \in Tables : row.exact /\ row.to[t] # None =>
           /\ row.to[t] \in DOMAIN rows /\ rows[row.to[t]].table = t
           /\ rows[row.to[t]].from = row.meant[t]
  PROVE  ReferencesFaithful'
<1>1. /\ Len(rows) \in Nat /\ DOMAIN rows = 1 .. Len(rows) /\ DOMAIN rows' = 1 .. Len(rows) + 1
      /\ \A i \in DOMAIN rows : rows'[i] = rows[i] /\ rows[i] \in TargetRow
      /\ rows'[Len(rows) + 1] = row
  BY Appended, Elements
<1>2. SUFFICES ASSUME NEW i \in DOMAIN rows', NEW t \in Tables, rows'[i].exact /\ rows'[i].to[t] # None
               PROVE  /\ rows'[i].to[t] < i /\ rows'[rows'[i].to[t]].table = t
                      /\ rows'[rows'[i].to[t]].from = rows'[i].meant[t]
  <2>1. ReferencesFaithful' <=>
          \A i \in DOMAIN rows' : \A t \in Tables :
            rows'[i].exact /\ rows'[i].to[t] # None =>
              /\ rows'[i].to[t] < i /\ rows'[rows'[i].to[t]].table = t
              /\ rows'[rows'[i].to[t]].from = rows'[i].meant[t]
    BY DEF ReferencesFaithful
  <2> QED BY <2>1
<1>3. CASE i \in DOMAIN rows
  <2> DEFINE target == rows[i].to[t]
  <2>1. rows'[i] = rows[i]
    BY <1>1, <1>3
  <2>2. target < i /\ rows[target].table = t /\ rows[target].from = rows[i].meant[t]
    BY <1>2, <1>3, <2>1 DEF ReferencesFaithful
  <2>3. target \in 0 .. MaxRows /\ target # 0 /\ i \in Nat /\ i <= Len(rows)
    BY <1>1, <1>2, <1>3, <2>1 DEF TargetRow
  <2> HIDE DEF target
  <2>4. target \in DOMAIN rows
    BY <1>1, <2>2, <2>3
  <2>5. rows'[target] = rows[target]
    BY <1>1, <2>4
  <2> QED BY <2>1, <2>2, <2>5 DEF target
<1>4. CASE i \notin DOMAIN rows
  <2> DEFINE target == row.to[t]
  <2>1. i = Len(rows) + 1 /\ rows'[i] = row
    BY <1>1, <1>4
  <2>2. target \in DOMAIN rows /\ rows[target].table = t /\ rows[target].from = row.meant[t]
    BY <1>2, <2>1
  <2> HIDE DEF target
  <2>3. target < i /\ rows'[target] = rows[target]
    BY <1>1, <2>1, <2>2
  <2> QED BY <2>1, <2>2, <2>3 DEF target
<1> QED BY <1>3, <1>4

\* A row that an import adds refers to the rows of the records it stood for.
LEMMA ImportKeepsReferences ==
  ASSUME DatasetTypeOK, CommandInv, PackageInv, RememberedInv, ReferencesFaithful, Importing, IsMapped,
         \/ UNCHANGED rows
         \/ Len(rows) < MaxRows /\ rows' = Append(rows, Row)
  PROVE  ReferencesFaithful'
<1>1. CASE UNCHANGED rows
  BY <1>1 DEF ReferencesFaithful
<1>2. CASE Len(rows) < MaxRows /\ rows' = Append(rows, Row)
  <2>1. rows \in Seq(TargetRow) /\ Row \in TargetRow
    BY RowIs DEF DatasetTypeOK
  <2>2. \A t \in Tables : Row.exact /\ Row.to[t] # None =>
          /\ Row.to[t] \in DOMAIN rows /\ rows[Row.to[t]].table = t
          /\ rows[Row.to[t]].from = Row.meant[t]
    BY NewRowFaithful
  <2> QED BY <1>2, <2>1, <2>2, FaithfulKept
<1> QED BY <1>1, <1>2

\* What is remembered stays true while rows are added.
LEMMA RememberedKept ==
  ASSUME DatasetTypeOK, RememberedInv, dir' = dir,
         \/ UNCHANGED rows
         \/ Len(rows) < MaxRows /\ \E row \in TargetRow : rows' = Append(rows, row),
         NEW m \in cmd.ids, cmd.op = "importPackage", m.id # None
  PROVE  Known(m)'
<1>1. Known(m)
  BY DEF RememberedInv
<1>2. m.id \in DOMAIN rows' /\ rows'[m.id] = rows[m.id]
  BY <1>1, RowAdded DEF Known, DatasetTypeOK
<1> QED BY <1>1, <1>2 DEF Known

\* The sys_id of the row just created is remembered for its record.
LEMMA CreatedKeepsRemembered ==
  ASSUME DatasetTypeOK, CommandInv, RememberedInv, RecordCreated
  PROVE  RememberedInv'
<1>1. /\ Importing /\ IsMapped /\ Len(rows) < MaxRows /\ rows' = Append(rows, Row) /\ dir' = dir
      /\ rows \in Seq(TargetRow) /\ cmd \in Command /\ Len(rows) \in Nat
  BY Elements DEF RecordCreated, DatasetTypeOK
<1>2. Row \in TargetRow /\ Row.table = Head(cmd.todo) /\ Row.from = Record.from
  BY <1>1, RowIs
<1>3. PICK id \in {Len(rows) + 1, None} :
        cmd' = [cmd EXCEPT !.index = @ + 1, !.created = @ + 1, !.ids = Remember(id)]
  BY DEF RecordCreated
<1>4. cmd'.ids = Remember(id) /\ cmd'.op = cmd.op
  BY <1>1, <1>3 DEF Command
<1>5. SUFFICES ASSUME cmd.op = "importPackage", NEW m \in Remember(id), m.id # None
               PROVE  Known(m)'
  BY <1>4 DEF RememberedInv
<1>6. id \in 0 .. MaxRows
  BY <1>1, BoundAssumption
<1>7. CASE m \in cmd.ids
  BY <1>1, <1>2, <1>5, <1>7, RememberedKept
<1>8. CASE m.table = Head(cmd.todo) /\ m.key = Record.key /\ m.id = id
  <2>1. m.id = Len(rows) + 1
    BY <1>3, <1>5, <1>8
  <2>2. m.id \in DOMAIN rows' /\ rows'[m.id] = Row
    BY <1>1, <1>2, <2>1, Appended
  <2>3. Record \in ToSet(dir.files[m.table].records)
    BY <1>1, <1>5, <1>8, ImportIs
  <2> QED BY <1>1, <1>2, <1>8, <2>2, <2>3 DEF Known
<1> QED BY <1>1, <1>5, <1>6, <1>7, <1>8, RememberIs

\* References are those of the rows.
LEMMA SameReferences ==
  ASSUME ReferencesFaithful, rows' = rows
  PROVE  ReferencesFaithful'
BY DEF ReferencesFaithful

\* Every step of a data command keeps references faithful.
LEMMA DataKeepsReferences ==
  ASSUME DatasetTypeOK, CommandInv, PackageInv, RememberedInv, ReferencesFaithful, DataNext
  PROVE  RememberedInv' /\ ReferencesFaithful'
<1>1. cmd \in Command
  BY DEF DatasetTypeOK
<1>2. ASSUME rows' = rows
      PROVE  ReferencesFaithful'
  BY <1>2, SameReferences
<1>3. ASSUME cmd'.ids = {}
      PROVE  RememberedInv'
  BY <1>3 DEF RememberedInv
<1>4. ASSUME NEW outcome \in Outcomes, End(outcome)
      PROVE  cmd'.ids = {}
  BY <1>1, <1>4, EndIs
<1>5. CASE BeginExport \/ ExportFlat \/ BeginImport
  <2>1. rows' = rows
    BY <1>5 DEF BeginExport, ExportFlat, BeginImport
  <2>2. cmd'.ids = {}
    <3>1. \E command : Start(command) /\ command.ids = {}
      <4>1. CASE BeginExport
        <5>1. PICK shape \in Shapes :
                Start(IF shape \in Acceptable
                      THEN [NoCommand EXCEPT !.op = "package", !.pc = "fetch", !.shape = shape,
                                             !.todo = ImportOrder[shape]]
                      ELSE [NoCommand EXCEPT !.op = "package", !.outcome = "failed"])
          BY <4>1 DEF BeginExport
        <5> DEFINE good == [NoCommand EXCEPT !.op = "package", !.pc = "fetch", !.shape = shape,
                                             !.todo = ImportOrder[shape]]
                   bad == [NoCommand EXCEPT !.op = "package", !.outcome = "failed"]
        <5>2. good.ids = {} /\ bad.ids = {}
          BY DEF NoCommand
        <5>3. Start(good) \/ Start(bad)
          BY <5>1
        <5> HIDE DEF good, bad
        <5> QED BY <5>2, <5>3
      <4>2. CASE ExportFlat
        BY <4>2 DEF ExportFlat, NoCommand
      <4>3. CASE BeginImport
        <5>1. PICK flat \in BOOLEAN, write \in BOOLEAN, staged \in BOOLEAN :
                Start(IF IsReady(flat) /\ write
                      THEN [NoCommand EXCEPT !.op = IF flat THEN "import" ELSE "importPackage",
                              !.pc = "import", !.staged = staged,
                              !.shape = IF flat THEN NoShape ELSE dir.manifest.shape,
                              !.todo = IF flat THEN <<dir.flat.table>> ELSE ImportOrder[dir.manifest.shape]]
                      ELSE [NoCommand EXCEPT !.op = "import", !.outcome = IF IsReady(flat) THEN "checked" ELSE "refused"])
          BY <4>3 DEF BeginImport
        <5> DEFINE good == [NoCommand EXCEPT !.op = IF flat THEN "import" ELSE "importPackage",
                              !.pc = "import", !.staged = staged,
                              !.shape = IF flat THEN NoShape ELSE dir.manifest.shape,
                              !.todo = IF flat THEN <<dir.flat.table>> ELSE ImportOrder[dir.manifest.shape]]
                   bad == [NoCommand EXCEPT !.op = "import", !.outcome = IF IsReady(flat) THEN "checked" ELSE "refused"]
        <5>2. good.ids = {} /\ bad.ids = {}
          BY DEF NoCommand
        <5>3. Start(good) \/ Start(bad)
          BY <5>1
        <5> HIDE DEF good, bad
        <5> QED BY <5>2, <5>3
      <4> QED BY <1>5, <4>1, <4>2, <4>3
    <3>2. ASSUME NEW command, Start(command)
          PROVE  cmd'.ids = command.ids
      BY <3>2 DEF Start
    <3> QED BY <3>1, <3>2
  <2> QED BY <1>2, <1>3, <2>1, <2>2
<1>6. CASE FetchTable \/ (WriteTable /\ IsExportable(Head(cmd.todo))) \/ SourceChanges
  <2>1. rows' = rows /\ cmd.pc \in {"fetch", "write"}
    BY <1>6 DEF FetchTable, WriteTable, SourceChanges, At
  <2>2. cmd.op = "package"
    BY <2>1 DEF CommandInv
  <2>3. cmd'.op = cmd.op
    BY <1>1, <1>6 DEF FetchTable, WriteTable, SourceChanges, Command
  <2> QED BY <1>2, <2>1, <2>2, <2>3 DEF RememberedInv
<1>7. CASE (WriteTable /\ ~IsExportable(Head(cmd.todo))) \/ WriteManifest \/ WriteCut \/ RecordUnmapped
           \/ Report \/ Fails
  <2>1. rows' = rows /\ \E outcome \in Outcomes : End(outcome)
    BY <1>7 DEF WriteTable, WriteManifest, WriteCut, RecordUnmapped, Report, Fails, Outcomes
  <2> QED BY <1>2, <1>3, <1>4, <2>1
<1>8. CASE KilledInFlight
  <2>1. End("aborted") /\ Importing /\ IsMapped /\ Len(rows) < MaxRows /\ rows' = Append(rows, Row)
    BY <1>8 DEF KilledInFlight
  <2> QED BY <1>3, <1>4, <2>1, ImportKeepsReferences DEF Outcomes
<1>9. CASE RecordCreated
  <2>1. Importing /\ IsMapped /\ Len(rows) < MaxRows /\ rows' = Append(rows, Row)
    BY <1>9 DEF RecordCreated
  <2> QED BY <1>9, <2>1, CreatedKeepsRemembered, ImportKeepsReferences
<1>10. CASE RecordFailed
  <2>1. /\ Importing /\ IsMapped /\ dir' = dir
        /\ \/ UNCHANGED rows
           \/ Len(rows) < MaxRows /\ rows' = Append(rows, Row)
    BY <1>10 DEF RecordFailed
  <2>2. Row \in TargetRow
    BY <2>1, RowIs
  <2>3. cmd'.ids = cmd.ids /\ cmd'.op = cmd.op
    BY <1>1, <1>10 DEF RecordFailed, Command
  <2>4. RememberedInv'
    BY <2>1, <2>2, <2>3, RememberedKept DEF RememberedInv
  <2> QED BY <2>1, <2>4, ImportKeepsReferences
<1>11. CASE NextTable \/ RowAccepted
  <2>1. rows' = rows /\ dir' = dir
    BY <1>11 DEF NextTable, RowAccepted
  <2>2. cmd'.ids = cmd.ids /\ cmd'.op = cmd.op
    BY <1>1, <1>11 DEF NextTable, RowAccepted, Command
  <2>3. RememberedInv'
    BY <2>1, <2>2, RememberedKept DEF RememberedInv
  <2> QED BY <1>2, <2>1, <2>3
<1> QED BY <1>5, <1>6, <1>7, <1>8, <1>9, <1>10, <1>11 DEF DataNext, ExportStep, ImportStep
----------------------------------------------------------------------------
(* Reports: the rows that an import made, against what it counts.          *)

\* Counts are numbers.
LEMMA CountsAre ==
  ASSUME DatasetTypeOK
  PROVE  /\ Len(rows) \in Nat /\ cmd.first \in Nat \ {0} /\ cmd.created \in Nat /\ cmd.failed \in Nat
         /\ cmd.outcome \in Outcomes /\ cmd.staged \in BOOLEAN
  BY Elements DEF DatasetTypeOK, Command, Outcomes

\* The command that starts has made nothing yet.
LEMMA StartKeepsReport ==
  ASSUME DatasetTypeOK, NEW command \in Command, Start(command), rows' = rows,
         command.created = 0, command.failed = 0
  PROVE  ReportInv'
<1>1. cmd' = [command EXCEPT !.first = Len(rows) + 1] /\ cmd' \in Command
  BY StartIs DEF DatasetTypeOK
<1>2. cmd'.first = Len(rows) + 1 /\ cmd'.created = 0 /\ cmd'.failed = 0
  BY <1>1 DEF Command
<1>3. CreatedRows' = 0 /\ Len(rows) \in Nat /\ Len(rows') = Len(rows)
  BY <1>2, CountsAre DEF CreatedRows
<1>4. \A i \in cmd'.first .. Len(rows') : FALSE
  BY <1>2, <1>3
<1> QED BY <1>2, <1>3, <1>4 DEF ReportInv

\* Rows that an import adds are its own.
LEMMA RowsStayOwn ==
  ASSUME DatasetTypeOK, cmd.first <= Len(rows) + 1, cmd'.first = cmd.first,
         \A i \in cmd.first .. Len(rows) : rows[i].by = 0,
         \/ UNCHANGED rows
         \/ Len(rows) < MaxRows /\ \E row \in TargetRow : row.by = 0 /\ rows' = Append(rows, row)
  PROVE  /\ \A i \in cmd'.first .. Len(rows') : rows'[i].by = 0
         /\ cmd'.first <= Len(rows') + 1
<1>1. CASE UNCHANGED rows
  BY <1>1
<1>2. ASSUME NEW row \in TargetRow, row.by = 0, rows' = Append(rows, row)
      PROVE  /\ \A i \in cmd'.first .. Len(rows') : rows'[i].by = 0
             /\ cmd'.first <= Len(rows') + 1
  <2>1. /\ Len(rows) \in Nat /\ DOMAIN rows = 1 .. Len(rows) /\ Len(rows') = Len(rows) + 1
        /\ \A i \in DOMAIN rows : rows'[i] = rows[i]
        /\ rows'[Len(rows) + 1] = row /\ cmd.first \in Nat \ {0}
    BY <1>2, Appended, Elements, CountsAre DEF DatasetTypeOK
  <2>2. \A i \in cmd.first .. Len(rows) + 1 : i \in cmd.first .. Len(rows) \/ i = Len(rows) + 1
    BY <2>1
  <2>3. \A i \in cmd.first .. Len(rows) : i \in DOMAIN rows
    BY <2>1
  <2>4. \A i \in cmd.first .. Len(rows) + 1 : rows'[i].by = 0
    BY <1>2, <2>1, <2>2, <2>3
  <2> QED BY <2>1, <2>4
<1> QED BY <1>1, <1>2

\* A command that ends reports what it counted.
LEMMA EndKeepsReport ==
  ASSUME DatasetTypeOK, CommandInv, ReportInv, NEW outcome \in Outcomes, End(outcome), cmd.pc # "idle",
         \/ UNCHANGED rows
         \/ /\ Len(rows) < MaxRows /\ outcome = "aborted"
            /\ \E row \in TargetRow : row.by = 0 /\ rows' = Append(rows, row),
         outcome \notin {"refused", "checked"},
         cmd.pc = "import" /\ outcome = "ok" => cmd.failed = 0,
         outcome \in {"ok", "partial"} /\ cmd.op # "package" => cmd.pc = "import"
  PROVE  ReportInv'
<1>1. /\ cmd'.op = cmd.op /\ cmd'.pc = "idle" /\ cmd'.outcome = outcome
      /\ cmd'.first = cmd.first /\ cmd'.created = cmd.created /\ cmd'.failed = cmd.failed
  BY EndIs DEF DatasetTypeOK
<1>2. /\ Len(rows) \in Nat /\ cmd.first \in Nat /\ cmd.created \in Nat /\ cmd.failed \in Nat
      /\ cmd.first <= Len(rows) + 1 /\ Len(rows) <= Len(rows') /\ Len(rows') \in Nat
  BY CountsAre, RowAdded DEF ReportInv, DatasetTypeOK
<1>3. cmd'.first <= Len(rows') + 1
  BY <1>1, <1>2
<1>4. ASSUME cmd.op \in {"import", "importPackage"}
      PROVE  \A i \in cmd'.first .. Len(rows') : rows'[i].by = 0
  <2>1. \A i \in cmd.first .. Len(rows) : rows[i].by = 0
    BY <1>4 DEF ReportInv
  <2> QED BY <1>1, <1>2, <2>1, RowsStayOwn
<1>5. ASSUME cmd.op \in {"import", "importPackage"}, outcome \in {"ok", "partial"}, ~cmd.staged
      PROVE  /\ CreatedRows' = CreatedRows /\ CreatedRows \in Int
             /\ cmd.created <= CreatedRows /\ CreatedRows <= cmd.created + cmd.failed
  <2>1. cmd.pc = "import" /\ rows' = rows
    BY <1>5
  <2> QED BY <1>1, <1>2, <1>5, <2>1 DEF ReportInv, CreatedRows
<1>6. ASSUME cmd.op \in {"import", "importPackage"}
      PROVE  /\ cmd'.outcome \notin {"refused", "checked"}
             /\ cmd'.outcome = "ok" => cmd'.failed = 0
             /\ (cmd'.pc = "import" \/ cmd'.outcome \in {"ok", "partial"}) /\ ~cmd'.staged =>
                  cmd'.created <= CreatedRows' /\ CreatedRows' <= cmd'.created + cmd'.failed
  BY <1>1, <1>2, <1>5, <1>6, EndIs DEF DatasetTypeOK
<1> QED BY <1>1, <1>3, <1>4, <1>6 DEF ReportInv

\* One more row is one more record, created or failed.
LEMMA Bounded ==
  ASSUME NEW made \in Int, NEW created \in Nat, NEW failed \in Nat,
         created <= made, made <= created + failed,
         NEW made2, NEW created2, NEW failed2,
         \/ created2 = created /\ failed2 = failed /\ made2 = made
         \/ created2 = created + 1 /\ failed2 = failed /\ made2 = made + 1
         \/ /\ created2 = created /\ failed2 = failed + 1
            /\ made2 = made \/ made2 = made + 1
  PROVE  created2 <= made2 /\ made2 <= created2 + failed2
OBVIOUS

\* An import that goes on counts what it makes.
LEMMA ImportKeepsReport ==
  ASSUME DatasetTypeOK, CommandInv, ReportInv, cmd.pc = "import", cmd' \in Command,
         cmd'.op = cmd.op, cmd'.pc = "import", cmd'.first = cmd.first, cmd'.staged = cmd.staged,
         \/ UNCHANGED rows
         \/ Len(rows) < MaxRows /\ \E row \in TargetRow : row.by = 0 /\ rows' = Append(rows, row),
         \/ cmd.staged
         \/ cmd'.created = cmd.created /\ cmd'.failed = cmd.failed /\ Len(rows') = Len(rows)
         \/ cmd'.created = cmd.created + 1 /\ cmd'.failed = cmd.failed /\ Len(rows') = Len(rows) + 1
         \/ /\ cmd'.created = cmd.created /\ cmd'.failed = cmd.failed + 1
            /\ Len(rows') = Len(rows) \/ Len(rows') = Len(rows) + 1
  PROVE  ReportInv'
<1>1. /\ Len(rows) \in Nat /\ cmd.first \in Nat /\ cmd.created \in Nat /\ cmd.failed \in Nat
      /\ cmd.op \in {"import", "importPackage"}
  BY CountsAre DEF CommandInv
<1>2. /\ \A i \in cmd'.first .. Len(rows') : rows'[i].by = 0
      /\ cmd'.first <= Len(rows') + 1
  BY <1>1, RowsStayOwn DEF ReportInv
<1>3. ~cmd.staged => cmd.created <= CreatedRows /\ CreatedRows <= cmd.created + cmd.failed
  BY <1>1 DEF ReportInv
<1>4. ASSUME ~cmd.staged
      PROVE  cmd'.created <= CreatedRows' /\ CreatedRows' <= cmd'.created + cmd'.failed
  <2>1. CreatedRows = Len(rows) + 1 - cmd.first /\ CreatedRows' = Len(rows') + 1 - cmd.first
    BY DEF CreatedRows
  <2>2. \/ cmd'.created = cmd.created /\ cmd'.failed = cmd.failed /\ CreatedRows' = CreatedRows
        \/ cmd'.created = cmd.created + 1 /\ cmd'.failed = cmd.failed /\ CreatedRows' = CreatedRows + 1
        \/ /\ cmd'.created = cmd.created /\ cmd'.failed = cmd.failed + 1
           /\ CreatedRows' = CreatedRows \/ CreatedRows' = CreatedRows + 1
    <3> DEFINE first == cmd.first  n == Len(rows)
    <3>1. first \in Nat /\ n \in Nat
      BY <1>1
    <3>2. Len(rows') = n => CreatedRows' = CreatedRows
      BY <2>1
    <3>3. Len(rows') = n + 1 => CreatedRows' = CreatedRows + 1
      <4>1. CreatedRows = n + 1 - first
        BY <2>1
      <4>2. Len(rows') = n + 1 => CreatedRows' = n + 1 + 1 - first
        BY <2>1
      <4> HIDE DEF first, n, CreatedRows
      <4>3. n + 1 + 1 - first = (n + 1 - first) + 1
        BY <3>1
      <4> QED BY <4>1, <4>2, <4>3
    <3> QED BY <1>4, <3>2, <3>3
  <2>3. CreatedRows \in Int
    BY <1>1, <2>1
  <2> HIDE DEF CreatedRows
  <2> QED BY <1>1, <1>3, <1>4, <2>2, <2>3, Bounded
<1> QED BY <1>2, <1>4 DEF ReportInv

\* Every step of a data command keeps its counts in step with the rows.
LEMMA DataKeepsReport ==
  ASSUME DatasetTypeOK, CommandInv, ReportInv, DataNext, DatasetTypeOK'
  PROVE  ReportInv'
<1>1. cmd \in Command /\ cmd' \in Command
  BY DEF DatasetTypeOK
<1>2. NoCommand.created = 0 /\ NoCommand.failed = 0
  BY DEF NoCommand
<1>3. CASE BeginExport
  <2>1. PICK shape \in Shapes :
          Start(IF shape \in Acceptable
                THEN [NoCommand EXCEPT !.op = "package", !.pc = "fetch", !.shape = shape,
                                       !.todo = ImportOrder[shape]]
                ELSE [NoCommand EXCEPT !.op = "package", !.outcome = "failed"])
    BY <1>3 DEF BeginExport
  <2>2. rows' = rows /\ cmd'.first = Len(rows) + 1 /\ cmd'.op = "package"
    BY <1>3, <2>1 DEF BeginExport, Start, NoCommand
  <2> QED BY <2>2, CountsAre DEF ReportInv
<1>4. CASE FetchTable \/ SourceChanges \/ (WriteTable /\ IsExportable(Head(cmd.todo)))
  <2>1. cmd.op = "package" /\ rows' = rows
    BY <1>4 DEF FetchTable, SourceChanges, WriteTable, At, CommandInv
  <2>2. cmd'.op = cmd.op /\ cmd'.first = cmd.first
    BY <1>1, <1>4 DEF FetchTable, SourceChanges, WriteTable, Command
  <2> QED BY <2>1, <2>2 DEF ReportInv
<1>5. CASE (WriteTable /\ ~IsExportable(Head(cmd.todo))) \/ WriteManifest \/ WriteCut \/ RecordUnmapped
           \/ Fails
  <2>1. /\ rows' = rows /\ cmd.pc # "idle"
        /\ (End("ok") /\ cmd.op = "package") \/ End("failed") \/ End("aborted")
    BY <1>5 DEF WriteTable, WriteManifest, WriteCut, RecordUnmapped, Fails, At, Importing
  <2>2. CASE End("ok") /\ cmd.op = "package"
    <3>1. cmd.pc # "import"
      BY <2>2 DEF CommandInv
    <3> QED BY <2>1, <2>2, <3>1, EndKeepsReport DEF Outcomes
  <2>3. CASE End("failed") \/ End("aborted")
    BY <2>1, <2>3, EndKeepsReport DEF Outcomes
  <2> QED BY <2>1, <2>2, <2>3
<1>6. CASE ExportFlat
  <2>1. /\ rows' = rows /\ Start([NoCommand EXCEPT !.op = "flat"])
        /\ [NoCommand EXCEPT !.op = "flat"] \in Command
        /\ [NoCommand EXCEPT !.op = "flat"].created = 0 /\ [NoCommand EXCEPT !.op = "flat"].failed = 0
    BY <1>2, <1>6, NoCommandIs DEF ExportFlat, Command
  <2> QED BY <2>1, StartKeepsReport
<1>7. CASE BeginImport
  <2>1. /\ rows' = rows /\ cmd'.first = Len(rows) + 1 /\ cmd'.created = 0 /\ cmd'.failed = 0
    BY <1>7 DEF BeginImport, Start, NoCommand
  <2>2. Len(rows) \in Nat /\ CreatedRows' = 0
    BY <2>1, CountsAre DEF CreatedRows
  <2>3. \A i \in cmd'.first .. Len(rows') : FALSE
    BY <2>1, <2>2
  <2> QED BY <2>1, <2>2, <2>3 DEF ReportInv
<1>8. CASE RecordCreated
  <2>1. Importing /\ IsMapped /\ Len(rows) < MaxRows /\ rows' = Append(rows, Row) /\ cmd.pc = "import"
    BY <1>8 DEF RecordCreated, Importing
  <2>2. /\ cmd'.op = cmd.op /\ cmd'.pc = "import" /\ cmd'.first = cmd.first /\ cmd'.staged = cmd.staged
        /\ cmd'.created = cmd.created + 1 /\ cmd'.failed = cmd.failed
    BY <1>1, <1>8, <2>1 DEF RecordCreated, Command
  <2>3. Row \in TargetRow /\ Row.by = 0
    BY <2>1, RowIs
  <2>4. Len(rows') = Len(rows) + 1
    BY <2>1, <2>3, Appended DEF DatasetTypeOK
  <2> QED BY <1>1, <2>1, <2>2, <2>3, <2>4, ImportKeepsReport
<1>9. CASE RecordFailed
  <2>1. /\ Importing /\ IsMapped /\ cmd.pc = "import"
        /\ \/ rows' = Append(rows, Row) /\ Len(rows) < MaxRows
           \/ UNCHANGED rows
    BY <1>9 DEF RecordFailed, Importing
  <2>2. /\ cmd'.op = cmd.op /\ cmd'.pc = "import" /\ cmd'.first = cmd.first /\ cmd'.staged = cmd.staged
        /\ cmd'.created = cmd.created /\ cmd'.failed = cmd.failed + 1
    BY <1>1, <1>9, <2>1 DEF RecordFailed, Command
  <2>3. Row \in TargetRow /\ Row.by = 0
    BY <2>1, RowIs
  <2>4. Len(rows') = Len(rows) \/ Len(rows') = Len(rows) + 1
    BY <2>1, <2>3, Appended DEF DatasetTypeOK
  <2> QED BY <1>1, <2>1, <2>2, <2>3, <2>4, ImportKeepsReport
<1>10. CASE KilledInFlight
  <2>1. /\ Importing /\ IsMapped /\ Len(rows) < MaxRows /\ rows' = Append(rows, Row)
        /\ cmd.pc # "idle" /\ End("aborted")
    BY <1>10 DEF KilledInFlight, Importing
  <2>2. Row \in TargetRow /\ Row.by = 0
    BY <2>1, RowIs
  <2> QED BY <2>1, <2>2, EndKeepsReport DEF Outcomes
<1>11. CASE NextTable
  <2>1. cmd.pc = "import" /\ rows' = rows
    BY <1>11 DEF NextTable
  <2>2. /\ cmd'.op = cmd.op /\ cmd'.pc = "import" /\ cmd'.first = cmd.first /\ cmd'.staged = cmd.staged
        /\ cmd'.created = cmd.created /\ cmd'.failed = cmd.failed
    BY <1>1, <1>11, <2>1 DEF NextTable, Command
  <2> QED BY <1>1, <2>1, <2>2, ImportKeepsReport
<1>12. CASE Report
  <2>1. cmd.pc = "import" /\ rows' = rows /\ End(IF cmd.failed > 0 THEN "partial" ELSE "ok")
    BY <1>12 DEF Report
  <2>2. CASE cmd.failed > 0
    BY <2>1, <2>2, EndKeepsReport DEF Outcomes
  <2>3. CASE ~(cmd.failed > 0)
    <3>1. cmd.failed = 0
      BY <2>3, CountsAre
    <3> QED BY <2>1, <2>3, <3>1, EndKeepsReport DEF Outcomes
  <2> QED BY <2>2, <2>3
<1>13. CASE RowAccepted
  <2>1. cmd.pc = "import" /\ cmd.staged /\ rows' = rows
    BY <1>13 DEF RowAccepted, Importing
  <2>2. cmd'.op = cmd.op /\ cmd'.pc = "import" /\ cmd'.first = cmd.first /\ cmd'.staged = cmd.staged
    BY <1>1, <1>13, <2>1 DEF RowAccepted, Command
  <2> QED BY <1>1, <2>1, <2>2, ImportKeepsReport
<1> QED BY <1>3, <1>4, <1>5, <1>6, <1>7, <1>8, <1>9, <1>10, <1>11, <1>12, <1>13
        DEF DataNext, ExportStep, ImportStep

\* A record of the file or package: its table, and its place there.
LEMMA GivenIs ==
  ASSUME DatasetTypeOK
  PROVE  /\ \A t \in GivenTables : \A k \in DOMAIN FileOf(t).records : <<t, k>> \in Given
         /\ \A g \in Given :
              /\ g[1] \in GivenTables /\ g = <<g[1], g[2]>>
              /\ g[2] \in Nat \ {0} /\ g[2] <= Len(FileOf(g[1]).records)
<1>1. ASSUME NEW t \in GivenTables
      PROVE  FileOf(t).records \in Seq(FileRecord)
  BY DEF DatasetTypeOK, Directory, DataFile, GivenTables, FileOf
<1>2. ASSUME NEW t \in GivenTables
      PROVE  Len(FileOf(t).records) \in Nat /\ DOMAIN FileOf(t).records = 1 .. Len(FileOf(t).records)
  BY <1>1, Elements
<1>3. ASSUME NEW g \in Given
      PROVE  /\ g[1] \in GivenTables /\ g = <<g[1], g[2]>>
             /\ g[2] \in Nat \ {0} /\ g[2] <= Len(FileOf(g[1]).records)
  <2>1. PICK t \in GivenTables : g \in {t} \X DOMAIN FileOf(t).records
    BY DEF Given
  <2>2. g = <<g[1], g[2]>> /\ g[1] = t /\ g[2] \in DOMAIN FileOf(t).records
    BY <2>1
  <2> QED BY <1>2, <2>2
<1>4. ASSUME NEW t \in GivenTables, NEW k \in DOMAIN FileOf(t).records
      PROVE  <<t, k>> \in Given
  BY DEF Given
<1> QED BY <1>3, <1>4

\* An import that starts has all records before it.
LEMMA BeginImportCounts ==
  ASSUME DatasetTypeOK, CommandInv, BeginImport
  PROVE  CountInv'
<1>1. PICK flat \in BOOLEAN, write \in BOOLEAN, staged \in BOOLEAN :
        Start(IF IsReady(flat) /\ write
              THEN [NoCommand EXCEPT !.op = IF flat THEN "import" ELSE "importPackage",
                      !.pc = "import", !.staged = staged,
                      !.shape = IF flat THEN NoShape ELSE dir.manifest.shape,
                      !.todo = IF flat THEN <<dir.flat.table>> ELSE ImportOrder[dir.manifest.shape]]
              ELSE [NoCommand EXCEPT !.op = "import", !.outcome = IF IsReady(flat) THEN "checked" ELSE "refused"])
  BY DEF BeginImport
<1>2. dir' = dir /\ dir \in Directory
  BY DEF BeginImport, DatasetTypeOK
<1>3. CASE ~(IsReady(flat) /\ write)
  <2>1. cmd'.pc = "idle" /\ cmd'.outcome \in {"checked", "refused"}
    BY <1>1, <1>3 DEF Start, NoCommand
  <2>2. ~Counting'
    BY <2>1 DEF Counting
  <2> QED BY <2>2 DEF CountInv
<1>4. CASE IsReady(flat) /\ write
  <2> DEFINE todo == IF flat THEN <<dir.flat.table>> ELSE ImportOrder[dir.manifest.shape]
  <2>1. /\ cmd'.op = (IF flat THEN "import" ELSE "importPackage") /\ cmd'.pc = "import"
        /\ cmd'.todo = todo /\ cmd'.index = 1 /\ cmd'.created = 0 /\ cmd'.failed = 0
    BY <1>1, <1>4 DEF Start, NoCommand
  <2>2. GivenTables' = ToSet(todo) /\ IsInjective(todo)
    <3>1. CASE flat
      <4>1. todo = <<dir.flat.table>> /\ GivenTables' = {dir.flat.table}
        BY <1>2, <2>1, <3>1 DEF GivenTables
      <4> QED BY <4>1 DEF ToSet, IsInjective
    <3>2. CASE ~flat
      <4>1. dir.manifest.shape \in Acceptable
        BY <1>4, <3>2 DEF IsReady, CommandInv
      <4>2. todo = ImportOrder[dir.manifest.shape] /\ GivenTables' = Tables
        BY <2>1, <3>2 DEF GivenTables
      <4> QED BY <4>1, <4>2, AnImportOrder
    <3> QED BY <3>1, <3>2
  <2> HIDE DEF todo
  <2>3. ASSUME NEW g \in Given'
        PROVE  g[1] \in GivenTables' /\ g[2] \in Nat \ {0}
    <3>1. PICK t \in GivenTables' : g \in {t} \X DOMAIN FileOf(t)'.records
      BY DEF Given
    <3>2. CASE flat
      <4>1. FileOf(t)' = dir.flat
        BY <1>2, <2>1, <3>2 DEF FileOf
      <4>2. DOMAIN dir.flat.records = 1 .. Len(dir.flat.records) /\ Len(dir.flat.records) \in Nat
        BY <1>2, Elements DEF Directory, DataFile
      <4> QED BY <3>1, <4>1, <4>2
    <3>3. CASE ~flat
      <4>1. FileOf(t)' = dir.files[t] /\ t \in Tables
        BY <1>2, <2>1, <3>3 DEF FileOf, GivenTables
      <4>2. dir.files[t].records \in Seq(FileRecord)
        BY <1>2, <4>1 DEF Directory, DataFile
      <4>3. DOMAIN dir.files[t].records = 1 .. Len(dir.files[t].records) /\ Len(dir.files[t].records) \in Nat
        BY <4>2, Elements
      <4> QED BY <3>1, <4>1, <4>3
    <3> QED BY <3>2, <3>3
  <2>4. Done' = {}
    <3>1. Done' = {g \in Given' : g[1] \notin ToSet(todo) \/ (g[1] = Head(todo) /\ g[2] < 1)}
      BY <2>1 DEF Done
    <3> QED BY <2>2, <2>3, <3>1
  <2>5. IsFiniteSet(Done') /\ Cardinality(Done') = 0
    BY <2>4, FS_EmptySet
  <2> QED BY <2>1, <2>2, <2>5 DEF CountInv
<1> QED BY <1>3, <1>4

\* A record that an import has sent is one more, and is counted.
LEMMA RecordCounts ==
  ASSUME DatasetTypeOK, CommandInv, CountInv, Importing, dir' = dir,
         cmd'.op = cmd.op, cmd'.pc = "import", cmd'.todo = cmd.todo, cmd'.index = cmd.index + 1,
         cmd'.created + cmd'.failed = cmd.created + cmd.failed + 1
  PROVE  CountInv'
<1> DEFINE table == Head(cmd.todo)  sent == <<Head(cmd.todo), cmd.index>>
<1>1. /\ cmd.todo \in Seq(Tables) /\ cmd.todo # <<>> /\ cmd.index \in Nat \ {0}
      /\ cmd.index <= Len(FileOf(table).records) /\ cmd.pc = "import"
      /\ cmd.op \in {"import", "importPackage"}
  BY DEF DatasetTypeOK, Command, Importing, CommandInv, File
<1>2. /\ IsFiniteSet(Done) /\ cmd.created + cmd.failed = Cardinality(Done)
      /\ ToSet(cmd.todo) \subseteq GivenTables /\ IsInjective(cmd.todo)
  BY <1>1 DEF CountInv, Counting
<1>3. Given' = Given /\ GivenTables' = GivenTables
  BY DEF Given, GivenTables, FileOf
<1>4. table \in ToSet(cmd.todo)
  BY <1>1, TailIs, Elements
<1>5. sent \in Given
  <2>1. File.records \in Seq(FileRecord) /\ File = FileOf(table)
    BY ImportIs DEF DataFile, File
  <2>2. cmd.index \in DOMAIN FileOf(table).records
    BY <1>1, <2>1, Elements
  <2> QED BY <1>2, <1>4, <2>2, GivenIs
<1>6. Done' = Done \cup {sent}
  <2>1. Done' = {g \in Given : g[1] \notin ToSet(cmd.todo) \/ (g[1] = table /\ g[2] < cmd.index + 1)}
    BY <1>3 DEF Done
  <2>2. ASSUME NEW g \in Given
        PROVE  (g[1] = table /\ g[2] < cmd.index + 1) <=> ((g[1] = table /\ g[2] < cmd.index) \/ g = sent)
    <3>1. g = <<g[1], g[2]>> /\ g[2] \in Nat
      BY GivenIs
    <3> QED BY <1>1, <3>1
  <2> HIDE DEF sent, table
  <2> QED BY <1>5, <2>1, <2>2 DEF Done, table
<1>7. sent \notin Done
  <2>1. sent[1] = table /\ sent[2] = cmd.index /\ ~(cmd.index < cmd.index)
    BY <1>1
  <2> QED BY <1>4, <2>1 DEF Done
<1>8. IsFiniteSet(Done') /\ Cardinality(Done') = Cardinality(Done) + 1
  BY <1>2, <1>6, <1>7, FS_AddElement
<1> QED BY <1>2, <1>3, <1>8 DEF CountInv

\* The records of a table are done when its file has no more.
LEMMA NextTableCounts ==
  ASSUME DatasetTypeOK, CommandInv, CountInv, NextTable
  PROVE  CountInv'
<1> DEFINE table == Head(cmd.todo)  rest == Tail(cmd.todo)
<1>1. /\ cmd.todo \in Seq(Tables) /\ cmd.todo # <<>> /\ cmd.index \in Nat \ {0}
      /\ cmd.index > Len(FileOf(table).records) /\ cmd.pc = "import" /\ dir' = dir
      /\ cmd.op \in {"import", "importPackage"}
  BY DEF DatasetTypeOK, Command, NextTable, CommandInv, File
<1>2. /\ cmd'.todo = rest /\ cmd'.index = 1 /\ cmd'.pc = "import" /\ cmd'.op = cmd.op
      /\ cmd'.created = cmd.created /\ cmd'.failed = cmd.failed
  BY DEF NextTable, DatasetTypeOK, Command
<1>3. /\ IsFiniteSet(Done) /\ cmd.created + cmd.failed = Cardinality(Done)
      /\ ToSet(cmd.todo) \subseteq GivenTables /\ IsInjective(cmd.todo)
  BY <1>1 DEF CountInv, Counting
<1>4. Given' = Given /\ GivenTables' = GivenTables
  BY <1>1, <1>2 DEF Given, GivenTables, FileOf
<1>5. /\ table = cmd.todo[1] /\ rest \in Seq(Tables) /\ Len(rest) = Len(cmd.todo) - 1
      /\ \A i \in DOMAIN rest : i + 1 \in DOMAIN cmd.todo /\ rest[i] = cmd.todo[i + 1]
  BY <1>1, TailIs
<1>6. /\ Len(cmd.todo) \in Nat /\ Len(cmd.todo) # 0 /\ DOMAIN cmd.todo = 1 .. Len(cmd.todo)
      /\ ToSet(cmd.todo) = {cmd.todo[i] : i \in DOMAIN cmd.todo}
  BY <1>1, Elements
<1>7. DOMAIN rest = 1 .. Len(cmd.todo) - 1 /\ ToSet(rest) = {rest[i] : i \in DOMAIN rest}
  BY <1>5, Elements
<1> HIDE DEF table, rest
<1>8. IsInjective(rest)
  <2> SUFFICES ASSUME NEW i \in DOMAIN rest, NEW j \in DOMAIN rest, rest[i] = rest[j]
               PROVE  i = j
    BY DEF IsInjective
  <2>1. i + 1 \in DOMAIN cmd.todo /\ j + 1 \in DOMAIN cmd.todo /\ cmd.todo[i + 1] = cmd.todo[j + 1]
    BY <1>5
  <2>2. i + 1 = j + 1
    BY <1>3, <2>1 DEF IsInjective
  <2> QED BY <1>6, <1>7, <2>2
<1>9. ToSet(rest) = ToSet(cmd.todo) \ {table}
  <2>1. ASSUME NEW i \in DOMAIN rest
        PROVE  rest[i] \in ToSet(cmd.todo) /\ rest[i] # table
    <3>1. i + 1 # 1 /\ 1 \in DOMAIN cmd.todo
      BY <1>6, <1>7
    <3>2. i + 1 \in DOMAIN cmd.todo /\ rest[i] = cmd.todo[i + 1]
      BY <1>5
    <3>3. cmd.todo[i + 1] # cmd.todo[1]
      BY <1>3, <3>1, <3>2 DEF IsInjective
    <3>4. cmd.todo[i + 1] \in ToSet(cmd.todo)
      BY <1>6, <3>2
    <3> QED BY <1>5, <3>2, <3>3, <3>4
  <2>2. ASSUME NEW i \in DOMAIN cmd.todo, cmd.todo[i] # table
        PROVE  cmd.todo[i] \in ToSet(rest)
    <3>1. i # 1 /\ i - 1 \in DOMAIN rest /\ (i - 1) + 1 = i
      BY <1>5, <1>6, <1>7, <2>2
    <3> QED BY <1>5, <1>7, <3>1
  <2> QED BY <1>6, <1>7, <2>1, <2>2
<1>10. Done' = Done
  <2>1. Done' = {g \in Given : g[1] \notin ToSet(rest) \/ (g[1] = Head(rest) /\ g[2] < 1)}
    BY <1>2, <1>4 DEF Done
  <2>2. Done = {g \in Given : g[1] \notin ToSet(cmd.todo) \/ (g[1] = table /\ g[2] < cmd.index)}
    BY DEF Done, table
  <2>3. ASSUME NEW g \in Given
        PROVE  ~(g[2] < 1) /\ (g[1] = table => g[2] < cmd.index)
    <3>1. g[2] \in Nat \ {0} /\ g[2] <= Len(FileOf(g[1]).records)
      BY GivenIs
    <3>2. CASE g[1] = table
      <4>1. g[2] <= Len(FileOf(table).records) /\ FileOf(table).records \in Seq(FileRecord)
        <5>1. table \in GivenTables
          BY <3>2, GivenIs
        <5>2. FileOf(table) \in DataFile
          BY <5>1 DEF DatasetTypeOK, Directory, GivenTables, FileOf
        <5> QED BY <3>1, <3>2, <5>2 DEF DataFile
      <4>2. Len(FileOf(table).records) \in Nat
        BY <4>1, Elements
      <4> QED BY <1>1, <3>1, <4>1, <4>2
    <3> QED BY <3>1, <3>2
  <2>4. \A g \in Given :
          (g[1] \notin ToSet(rest) \/ (g[1] = Head(rest) /\ g[2] < 1))
            <=> (g[1] \notin ToSet(cmd.todo) \/ (g[1] = table /\ g[2] < cmd.index))
    BY <1>9, <2>3
  <2> QED BY <2>1, <2>2, <2>4
<1> QED BY <1>2, <1>3, <1>4, <1>8, <1>9, <1>10 DEF CountInv

\* When there is no table left, all records are done.
LEMMA ReportCounts ==
  ASSUME DatasetTypeOK, CommandInv, CountInv, Report
  PROVE  CountInv'
<1>1. /\ cmd.pc = "import" /\ cmd.todo = <<>> /\ dir' = dir /\ cmd \in Command
      /\ \E outcome \in {"partial", "ok"} : End(outcome)
  BY DEF Report, DatasetTypeOK
<1>2. /\ cmd'.op = cmd.op /\ cmd'.pc = "idle" /\ cmd'.todo = <<>>
      /\ cmd'.created = cmd.created /\ cmd'.failed = cmd.failed
  BY <1>1, EndIs DEF Outcomes
<1>3. cmd.op \in {"import", "importPackage"}
  BY <1>1 DEF CommandInv
<1>4. /\ IsFiniteSet(Done) /\ cmd.created + cmd.failed = Cardinality(Done)
      /\ ToSet(cmd.todo) \subseteq GivenTables /\ IsInjective(cmd.todo)
  BY <1>1, <1>3 DEF CountInv, Counting
<1>5. Given' = Given /\ GivenTables' = GivenTables
  BY <1>1, <1>2 DEF Given, GivenTables, FileOf
<1>6. Done = Given /\ Done' = Given'
  <2>1. ToSet(<<>>) = {}
    BY DEF ToSet
  <2> QED BY <1>1, <1>2, <2>1 DEF Done
<1> QED BY <1>1, <1>2, <1>4, <1>5, <1>6 DEF CountInv

\* Every step of a data command counts every record once.
LEMMA DataKeepsCount ==
  ASSUME DatasetTypeOK, CommandInv, CountInv, DataNext
  PROVE  CountInv'
<1>1. cmd \in Command
  BY DEF DatasetTypeOK
<1>2. ASSUME ~Counting'
      PROVE  CountInv'
  BY <1>2 DEF CountInv
<1>3. CASE BeginExport \/ ExportFlat
  <2>1. cmd'.op \in {"package", "flat"}
    BY <1>3 DEF BeginExport, ExportFlat, Start, NoCommand
  <2> QED BY <1>2, <2>1 DEF Counting
<1>4. CASE FetchTable \/ SourceChanges \/ (WriteTable /\ IsExportable(Head(cmd.todo)))
  <2>1. cmd.op = "package"
    BY <1>4 DEF FetchTable, SourceChanges, WriteTable, At, CommandInv
  <2>2. cmd'.op = cmd.op
    BY <1>1, <1>4 DEF FetchTable, SourceChanges, WriteTable, Command
  <2> QED BY <1>2, <2>1, <2>2 DEF Counting
<1>5. CASE (WriteTable /\ ~IsExportable(Head(cmd.todo))) \/ WriteManifest \/ WriteCut \/ RecordUnmapped
           \/ KilledInFlight \/ Fails
  <2>1. (End("ok") /\ cmd.op = "package") \/ End("failed") \/ End("aborted")
    BY <1>5 DEF WriteTable, WriteManifest, WriteCut, RecordUnmapped, KilledInFlight, Fails, At
  <2>2. cmd'.pc = "idle" /\ (cmd'.op = "package" \/ cmd'.outcome \in {"failed", "aborted"})
    BY <1>1, <2>1, EndIs DEF Outcomes
  <2> QED BY <1>2, <2>2 DEF Counting
<1>6. CASE BeginImport
  BY <1>6, BeginImportCounts
<1>7. CASE RecordCreated \/ RowAccepted \/ RecordFailed
  <2>1. Importing /\ dir' = dir /\ cmd.pc = "import"
    BY <1>7 DEF RecordCreated, RowAccepted, RecordFailed, Importing
  <2>2. cmd'.op = cmd.op /\ cmd'.pc = "import" /\ cmd'.todo = cmd.todo /\ cmd'.index = cmd.index + 1
    BY <1>1, <1>7, <2>1 DEF RecordCreated, RowAccepted, RecordFailed, Command
  <2>3. \/ cmd'.created = cmd.created + 1 /\ cmd'.failed = cmd.failed
        \/ cmd'.created = cmd.created /\ cmd'.failed = cmd.failed + 1
    BY <1>1, <1>7 DEF RecordCreated, RowAccepted, RecordFailed, Command
  <2>4. cmd'.created + cmd'.failed = cmd.created + cmd.failed + 1
    BY <2>3, CountsAre
  <2> QED BY <2>1, <2>2, <2>4, RecordCounts
<1>8. CASE NextTable
  BY <1>8, NextTableCounts
<1>9. CASE Report
  BY <1>9, ReportCounts
<1> QED BY <1>3, <1>4, <1>5, <1>6, <1>7, <1>8, <1>9 DEF DataNext, ExportStep, ImportStep

\* The rows of a command are those from its first, and a report comes when all
\* records are done.
LEMMA HonestReport ==
  ASSUME DatasetTypeOK, ReportInv, CountInv
  PROVE  ReportHonest
<1> SUFFICES ASSUME cmd.pc = "idle", cmd.op \in {"import", "importPackage"}
             PROVE  /\ cmd.outcome \in {"refused", "checked"} => RowsMade = 0
                    /\ cmd.outcome \in {"ok", "partial"} => cmd.created + cmd.failed = Cardinality(Given)
                    /\ cmd.outcome = "ok" /\ ~cmd.staged => RowsMade = cmd.created
                    /\ cmd.outcome = "partial" /\ ~cmd.staged =>
                         cmd.created <= RowsMade /\ RowsMade <= cmd.created + cmd.failed
  BY DEF ReportHonest
<1>1. {i \in cmd.first .. Len(rows) : rows[i].by = 0} = cmd.first .. Len(rows)
  BY DEF ReportInv
<1>2. /\ cmd.first \in Nat /\ Len(rows) \in Nat /\ cmd.first <= Len(rows) + 1
      /\ cmd.created \in Nat /\ cmd.failed \in Nat
  BY CountsAre DEF ReportInv
<1>3. RowsMade = CreatedRows /\ CreatedRows \in Int
  <2>1. RowsMade = Cardinality(cmd.first .. Len(rows))
    BY <1>1 DEF RowsMade
  <2>2. Cardinality(cmd.first .. Len(rows)) = Len(rows) + 1 - cmd.first
    BY <1>2, Interval
  <2> QED BY <1>2, <2>1, <2>2 DEF CreatedRows
<1>4. ASSUME cmd.outcome \in {"ok", "partial"}
      PROVE  cmd.created + cmd.failed = Cardinality(Given)
  <2>1. cmd.created + cmd.failed = Cardinality(Done) /\ cmd.todo = <<>>
    BY <1>4 DEF CountInv, Counting
  <2>2. ToSet(<<>>) = {}
    BY DEF ToSet
  <2>3. Done = Given
    BY <2>1, <2>2 DEF Done
  <2> QED BY <2>1, <2>3
<1>5. cmd.outcome \in {"refused", "checked"} => CreatedRows = 0
  BY DEF ReportInv
<1>6. cmd.outcome \in {"ok", "partial"} /\ ~cmd.staged =>
        cmd.created <= CreatedRows /\ CreatedRows <= cmd.created + cmd.failed
  BY DEF ReportInv
<1>7. cmd.outcome = "ok" => cmd.failed = 0
  BY DEF ReportInv
<1> HIDE DEF CreatedRows, RowsMade
<1>8. cmd.outcome = "ok" /\ ~cmd.staged => CreatedRows = cmd.created
  BY <1>2, <1>3, <1>6, <1>7
<1> QED BY <1>3, <1>4, <1>5, <1>6, <1>8

----------------------------------------------------------------------------
(* What seed runs leave of the data commands.                              *)

\* The data commands keep their invariant.
LEMMA DataKeepsInv ==
  ASSUME DataInv, DataNext, seed.pc = "idle", UNCHANGED seedVars
  PROVE  DataInv'
<1>1. DatasetTypeOK' /\ CommandInv'
  BY DataKeepsTypes DEF DataInv
<1>2. PackageInv'
  BY DataKeepsPackage DEF DataInv
<1>3. RememberedInv' /\ ReferencesFaithful'
  BY DataKeepsReferences DEF DataInv
<1>4. ReportInv'
  BY <1>1, DataKeepsReport DEF DataInv
<1>5. CountInv'
  BY DataKeepsCount DEF DataInv
<1> QED BY <1>1, <1>2, <1>3, <1>4, <1>5 DEF DataInv

\* A seed command starts where no data command runs.
LEMMA SeedStarts ==
  ASSUME DataInv, NEW command, StartSeed(command), UNCHANGED <<source, dir, rows>>
  PROVE  DataInv' /\ seed' = command /\ seed.pc = "idle"
<1>1. /\ cmd' = NoCommand /\ seed' = command /\ seed.pc = "idle"
      /\ count' = [count EXCEPT !.commands = count.commands + 1] /\ count.commands < MaxCommands
  BY DEF StartSeed, Idle
<1>2. NoCommand.op = "none" /\ NoCommand.pc = "idle" /\ NoCommand.ids = {} /\ NoCommand.first = 1
  BY DEF NoCommand
<1>3. DatasetTypeOK /\ CommandInv /\ PackageInv /\ ReferencesFaithful
  BY DEF DataInv
<1>4. count' \in Count /\ count'.commands = count.commands + 1
  BY <1>1, <1>3, BoundAssumption DEF DatasetTypeOK, Count
<1>5. DatasetTypeOK'
  BY <1>1, <1>3, <1>4, NoCommandIs DEF DatasetTypeOK
<1>6. CommandInv'
  BY <1>1, <1>2, <1>3 DEF CommandInv
<1>7. PackageInv'
  BY <1>1, <1>2, <1>3, <1>4, PackageKept
<1>8. RememberedInv' /\ ReferencesFaithful'
  BY <1>1, <1>2, <1>3 DEF RememberedInv, ReferencesFaithful
<1>9. ReportInv'
  <2>1. Len(rows) \in Nat
    BY <1>3, CountsAre
  <2> QED BY <1>1, <1>2, <2>1 DEF ReportInv
<1>10. CountInv'
  BY <1>1, <1>2 DEF CountInv, Counting
<1> QED BY <1>1, <1>5, <1>6, <1>7, <1>8, <1>9, <1>10 DEF DataInv

\* A seed command that goes on adds rows that no import has written.
LEMMA SeedKeepsData ==
  ASSUME DataInv, UNCHANGED <<source, dir, cmd, count>>,
         seed'.pc # "idle" => seed.pc # "idle",
         \/ UNCHANGED rows
         \/ /\ seed.pc # "idle" /\ Len(rows) < MaxRows
            /\ \E row \in TargetRow : ~row.exact /\ rows' = Append(rows, row)
  PROVE  DataInv'
<1>1. /\ DatasetTypeOK /\ CommandInv /\ PackageInv /\ RememberedInv /\ ReferencesFaithful /\ ReportInv
      /\ rows \in Seq(TargetRow) /\ Len(rows) <= MaxRows
  BY DEF DataInv, DatasetTypeOK
<1>2. /\ rows' \in Seq(TargetRow) /\ Len(rows') <= MaxRows /\ Len(rows) <= Len(rows')
      /\ Len(rows) \in Nat /\ Len(rows') \in Nat
  BY <1>1, RowAdded
<1>3. DatasetTypeOK'
  BY <1>1, <1>2 DEF DatasetTypeOK
<1>4. CommandInv'
  BY <1>1 DEF CommandInv
<1>5. PackageInv'
  <2>1. \A t \in Tables : dir'.files[t].by = dir.files[t].by /\ dir'.files[t].records = dir.files[t].records
    OBVIOUS
  <2>2. \A t \in Tables : IsExportable(t)' = IsExportable(t)
    BY DEF IsExportable, WithKey
  <2>3. \A t \in Tables : Artifact(t, count.commands)' = Artifact(t, count.commands)
    BY DEF Artifact, WithKey
  <2>4. \A a, b \in Tables : Linked(a, b)' = Linked(a, b)
    BY DEF Linked
  <2>5. PackageInv <=>
          /\ \A t \in Tables : dir.files[t].by <= count.commands
          /\ cmd.pc = "fetch" => \A t \in Tables : dir.files[t].by < count.commands
          /\ cmd.pc = "write" =>
               \A t \in Tables :
                 dir.files[t].by = count.commands =>
                   IsExportable(t) /\ dir.files[t].records = Artifact(t, count.commands).records
          /\ \A a, b \in Tables : dir.files[a].by = dir.files[b].by => Linked(a, b)
    BY DEF PackageInv
  <2>6. PackageInv' <=>
          /\ \A t \in Tables : dir'.files[t].by <= count'.commands
          /\ cmd'.pc = "fetch" => \A t \in Tables : dir'.files[t].by < count'.commands
          /\ cmd'.pc = "write" =>
               \A t \in Tables :
                 dir'.files[t].by = count'.commands =>
                   IsExportable(t)' /\ dir'.files[t].records = Artifact(t, count.commands)'.records
          /\ \A a, b \in Tables : dir'.files[a].by = dir'.files[b].by => Linked(a, b)'
    BY DEF PackageInv
  <2> QED BY <1>1, <2>1, <2>2, <2>3, <2>4, <2>5, <2>6
<1>6. RememberedInv' /\ ReferencesFaithful'
  <2>1. CASE UNCHANGED rows
    BY <1>1, <2>1 DEF RememberedInv, Known, ReferencesFaithful
  <2>2. CASE seed.pc # "idle" /\ Len(rows) < MaxRows
             /\ \E row \in TargetRow : ~row.exact /\ rows' = Append(rows, row)
    <3>1. PICK row \in TargetRow : ~row.exact /\ rows' = Append(rows, row)
      BY <2>2
    <3>2. ReferencesFaithful'
      BY <1>1, <2>2, <3>1, FaithfulKept
    <3>3. cmd'.op = "none"
      BY <1>1, <2>2 DEF CommandInv
    <3> QED BY <3>2, <3>3 DEF RememberedInv
  <2> QED BY <2>1, <2>2
<1>7. ReportInv'
  <2>1. CASE UNCHANGED rows
    BY <1>1, <2>1 DEF ReportInv, CreatedRows
  <2>2. CASE seed.pc # "idle"
    <3>1. cmd'.op = "none"
      BY <1>1, <2>2 DEF CommandInv
    <3>2. cmd'.first <= Len(rows') + 1
      BY <1>1, <1>2, CountsAre DEF ReportInv
    <3> QED BY <3>1, <3>2 DEF ReportInv
  <2> QED BY <2>1, <2>2
<1>8. CountInv'
  <2>1. Done' = Done /\ GivenTables' = GivenTables
    BY DEF Done, Given, GivenTables, FileOf
  <2> QED BY <2>1 DEF DataInv, CountInv, Counting
<1> QED BY <1>3, <1>4, <1>5, <1>6, <1>7, <1>8 DEF DataInv

----------------------------------------------------------------------------
(* Rows and tracking files.                                                *)

\* The parts of a seed command.
LEMMA SeedIs ==
  ASSUME SeedTypes
  PROVE  /\ seed.todo \in Seq(Tables) /\ seed.records \in Seq(1 .. MaxRows)
         /\ seed.run \in 0 .. MaxRuns /\ seed.new \in 0 .. MaxRows
         /\ \A t \in Tables : seed.made[t] \in Seq(1 .. MaxRows) /\ seed.counts[t] \in Nat
         /\ \A run \in Run : runs[run].records \in Seq(1 .. MaxRows)
         /\ NoSeed \in SeedCommand /\ NoSeed.pc = "idle" /\ NoSeed.op = "none"
<1>1. NoSeed \in SeedCommand
  BY SeedAssumption, BoundAssumption, NoCommandIs DEF NoSeed, SeedCommand
<1> QED BY <1>1 DEF SeedTypes, SeedCommand, NoSeed

\* The rows of the other runs stay as they are.
LEMMA RowsOfKept ==
  ASSUME rows \in Seq(TargetRow), NEW run \in Run,
         \/ UNCHANGED rows
         \/ \E row \in TargetRow : row.by # run /\ rows' = Append(rows, row)
  PROVE  /\ RowsOf(run)' = RowsOf(run)
         /\ \A i \in DOMAIN rows : i \in DOMAIN rows' /\ rows'[i] = rows[i]
<1>1. CASE UNCHANGED rows
  BY <1>1 DEF RowsOf
<1>2. ASSUME NEW row \in TargetRow, row.by # run, rows' = Append(rows, row)
      PROVE  /\ RowsOf(run)' = RowsOf(run)
             /\ \A i \in DOMAIN rows : i \in DOMAIN rows' /\ rows'[i] = rows[i]
  <2>1. /\ Len(rows) \in Nat /\ DOMAIN rows = 1 .. Len(rows) /\ DOMAIN rows' = 1 .. Len(rows) + 1
        /\ \A i \in DOMAIN rows : rows'[i] = rows[i]
        /\ rows'[Len(rows) + 1] = row
    BY <1>2, Appended, Elements
  <2>2. DOMAIN rows' = DOMAIN rows \cup {Len(rows) + 1}
    BY <2>1
  <2> QED BY <1>2, <2>1, <2>2 DEF RowsOf
<1> QED BY <1>1, <1>2

\* A row of the run itself is one more of its rows.
LEMMA RowOfRun ==
  ASSUME rows \in Seq(TargetRow), NEW run \in Run, NEW row \in TargetRow, row.by = run,
         rows' = Append(rows, row), deleted \subseteq DOMAIN rows
  PROVE  /\ RowsOf(run)' = RowsOf(run) \cup {Len(rows) + 1}
         /\ rows'[Len(rows) + 1] = row /\ DOMAIN rows \subseteq DOMAIN rows'
         /\ \A i \in DOMAIN rows : rows'[i] = rows[i] /\ i < Len(rows) + 1
         /\ Len(rows) + 1 \notin deleted
<1>1. /\ Len(rows) \in Nat /\ DOMAIN rows = 1 .. Len(rows) /\ DOMAIN rows' = 1 .. Len(rows) + 1
      /\ \A i \in DOMAIN rows : rows'[i] = rows[i]
      /\ rows'[Len(rows) + 1] = row
  BY Appended, Elements
<1>2. DOMAIN rows' = DOMAIN rows \cup {Len(rows) + 1} /\ Len(rows) + 1 \notin DOMAIN rows
  BY <1>1
<1>3. \A i \in DOMAIN rows : i < Len(rows) + 1
  BY <1>1
<1> QED BY <1>1, <1>2, <1>3 DEF RowsOf

\* A tracking file that stays as it is.
LEMMA SameFile ==
  ASSUME NEW run \in Run, RunInv(run), runs'[run].records = runs[run].records,
         RowsOf(run) \subseteq RowsOf(run)',
         \A i \in DOMAIN rows : i \in DOMAIN rows' /\ rows'[i] = rows[i],
         \E x \in Nat : RowsOf(run)' \ (ToSet(runs[run].records) \cup deleted') \subseteq {x},
         meddled' = 0 => /\ meddled = 0
                         /\ \A k \in DOMAIN runs[run].records :
                              k < Len(runs[run].records) => runs[run].records[k] \notin deleted'
  PROVE  RunInv(run)'
<1> DEFINE records == runs[run].records
<1>1. /\ ToSet(records) \subseteq RowsOf(run)
      /\ \A j, k \in DOMAIN records : j < k => records[j] < records[k]
      /\ \A k \in DOMAIN records, t \in Tables :
           rows[records[k]].to[t] # None => \E j \in 1 .. k - 1 : records[j] = rows[records[k]].to[t]
  BY DEF RunInv
<1>2. \A k \in DOMAIN records : records[k] \in DOMAIN rows /\ rows'[records[k]] = rows[records[k]]
  BY <1>1 DEF RowsOf, ToSet
<1>3. \A k \in DOMAIN records, t \in Tables :
        rows'[records[k]].to[t] # None => \E j \in 1 .. k - 1 : records[j] = rows'[records[k]].to[t]
  BY <1>1, <1>2
<1>4. RunInv(run)' <=>
        /\ ToSet(records) \subseteq RowsOf(run)'
        /\ \A j, k \in DOMAIN records : j < k => records[j] < records[k]
        /\ \A k \in DOMAIN records, t \in Tables :
             rows'[records[k]].to[t] # None => \E j \in 1 .. k - 1 : records[j] = rows'[records[k]].to[t]
        /\ \E x \in Nat : RowsOf(run)' \ (ToSet(records) \cup deleted') \subseteq {x}
        /\ meddled' = 0 => \A k \in DOMAIN records : k < Len(records) => records[k] \notin deleted'
  BY DEF RunInv
<1> HIDE DEF records
<1>5. \E x \in Nat : RowsOf(run)' \ (ToSet(records) \cup deleted') \subseteq {x}
  BY DEF records
<1>6. meddled' = 0 => \A k \in DOMAIN records : k < Len(records) => records[k] \notin deleted'
  BY DEF records
<1> QED BY <1>1, <1>3, <1>4, <1>5, <1>6

\* Nothing of a run changes.
LEMMA RunKept ==
  ASSUME rows \in Seq(TargetRow), NEW run \in Run, RunInv(run),
         runs'[run].records = runs[run].records, UNCHANGED meddled,
         \/ UNCHANGED rows
         \/ \E row \in TargetRow : row.by # run /\ rows' = Append(rows, row),
         deleted \subseteq deleted',
         \A i \in deleted' \ deleted : i \notin RowsOf(run)
  PROVE  RunInv(run)'
<1>1. /\ RowsOf(run)' = RowsOf(run)
      /\ \A i \in DOMAIN rows : i \in DOMAIN rows' /\ rows'[i] = rows[i]
  BY RowsOfKept
<1>2. \E x \in Nat : RowsOf(run)' \ (ToSet(runs[run].records) \cup deleted') \subseteq {x}
  BY <1>1 DEF RunInv
<1>3. \A k \in DOMAIN runs[run].records : runs[run].records[k] \in RowsOf(run)
  BY DEF RunInv, ToSet
<1>4. meddled' = 0 => /\ meddled = 0
                      /\ \A k \in DOMAIN runs[run].records :
                           k < Len(runs[run].records) => runs[run].records[k] \notin deleted'
  BY <1>3 DEF RunInv
<1> QED BY <1>1, <1>2, <1>4, SameFile

\* A data command adds rows that are of no run.
LEMMA DataRows ==
  ASSUME DatasetTypeOK, CommandInv, DataNext
  PROVE  \/ UNCHANGED rows
         \/ \E row \in TargetRow : row.by = 0 /\ rows' = Append(rows, row)
<1>1. CASE Importing /\ IsMapped /\ (RecordCreated \/ RecordFailed \/ KilledInFlight)
  <2>1. Row \in TargetRow /\ Row.by = 0
    BY <1>1, RowIs
  <2>2. rows' = Append(rows, Row) \/ UNCHANGED rows
    BY <1>1 DEF RecordCreated, RecordFailed, KilledInFlight
  <2> QED BY <2>1, <2>2
<1>2. RecordCreated \/ RecordFailed \/ KilledInFlight => Importing /\ IsMapped
  BY DEF RecordCreated, RecordFailed, KilledInFlight
<1>3. CASE BeginExport \/ FetchTable \/ WriteTable \/ WriteManifest \/ WriteCut \/ ExportFlat
           \/ SourceChanges \/ BeginImport \/ RowAccepted \/ RecordUnmapped \/ NextTable \/ Report
           \/ Fails
  BY <1>3 DEF BeginExport, FetchTable, WriteTable, WriteManifest, WriteCut, ExportFlat,
              SourceChanges, BeginImport, RowAccepted, RecordUnmapped, NextTable, Report, Fails
<1> QED BY <1>1, <1>2, <1>3 DEF DataNext, ExportStep, ImportStep

\* A data command leaves the seed runs alone.
LEMMA DataKeepsTracking ==
  ASSUME IInv, DataNext, seed.pc = "idle", UNCHANGED seedVars
  PROVE  SeedTypes' /\ TrackingInv'
<1>1. DatasetTypeOK /\ CommandInv /\ TrackingInv /\ SeedTypes /\ rows \in Seq(TargetRow)
  BY DEF IInv, DataInv, DatasetTypeOK
<1>2. UNCHANGED <<seed, runs, deleted, meddled>> /\ seed.op = "none"
  BY <1>1 DEF seedVars, TrackingInv
<1>3. \/ UNCHANGED rows
      \/ \E row \in TargetRow : row.by = 0 /\ rows' = Append(rows, row)
  BY <1>1, DataRows
<1>4. ASSUME NEW run \in Run
      PROVE  RunInv(run)'
  <2>1. RunInv(run) /\ run # 0
    BY <1>1, BoundAssumption, SeedAssumption DEF TrackingInv, Run
  <2>2. \/ UNCHANGED rows
        \/ \E row \in TargetRow : row.by # run /\ rows' = Append(rows, row)
    BY <1>3, <2>1
  <2>3. deleted \subseteq deleted' /\ (\A i \in deleted' \ deleted : i \notin RowsOf(run))
        /\ runs'[run].records = runs[run].records /\ UNCHANGED meddled
    BY <1>2
  <2> QED BY <1>1, <2>1, <2>2, <2>3, RunKept
<1>5. deleted' \subseteq DOMAIN rows'
  <2>1. \A i \in DOMAIN rows : i \in DOMAIN rows'
    <3>1. CASE UNCHANGED rows
      BY <3>1
    <3>2. ASSUME NEW row \in TargetRow, rows' = Append(rows, row)
          PROVE  \A i \in DOMAIN rows : i \in DOMAIN rows'
      <4>1. /\ Len(rows) \in Nat /\ DOMAIN rows = 1 .. Len(rows) /\ DOMAIN rows' = 1 .. Len(rows) + 1
        BY <1>1, <3>2, Appended, Elements
      <4> QED BY <4>1
    <3> QED BY <1>3, <3>1, <3>2
  <2> QED BY <1>1, <1>2, <2>1 DEF TrackingInv
<1>6. SeedTypes'
  BY <1>1, <1>2 DEF SeedTypes
<1>7. (seed'.op = "none" <=> seed'.pc = "idle") /\ ApplyInv' /\ CleanupInv'
  BY <1>2 DEF ApplyInv, CleanupInv
<1> QED BY <1>4, <1>5, <1>6, <1>7 DEF TrackingInv

----------------------------------------------------------------------------
(* apply.                                                                  *)

\* What apply works on.
LEMMA ApplyRuns ==
  ASSUME SeedTypes, TrackingInv, seed.pc \in {"create", "track"}
  PROVE  seed.op = "apply" /\ seed.run \in Run /\ seed.records = runs[seed.run].records
<1>1. seed.op \in {"none", "apply", "cleanup"}
  BY DEF SeedTypes, SeedCommand
<1> QED BY <1>1 DEF TrackingInv, ApplyInv, CleanupInv

\* round_robin: the next place of a list that is not empty.
LEMMA Wraps ==
  ASSUME NEW a \in Nat, NEW b \in Nat, b # 0
  PROVE  (a % b) + 1 \in 1 .. b
OBVIOUS

\* The references of a new record lead to records that are tracked.
LEMMA SeedRowIs ==
  ASSUME SeedTypes, TrackingInv, Creating
  PROVE  /\ SeedRow \in TargetRow /\ SeedRow.by = seed.run /\ ~SeedRow.exact
         /\ \A t \in Tables : SeedRow.to[t] # None => SeedRow.to[t] \in ToSet(seed.records)
<1>1. /\ seed.op = "apply" /\ seed.run \in Run /\ seed.todo # <<>> /\ seed.pc = "create"
  BY ApplyRuns DEF Creating
<1> DEFINE table == Head(seed.todo)
           next(t) == Made(t)[(Len(Made(table)) % Len(Made(t))) + 1]
           to == [t \in Tables |-> IF t \in Targets(seed.shape, table) THEN next(t) ELSE None]
<1>2. table \in Tables /\ table = seed.todo[1] /\ 1 \in DOMAIN seed.todo
  BY <1>1, SeedIs, TailIs
<1>3. \A t \in Targets(seed.shape, table) : t \in Tables /\ seed.made[t] # <<>>
  <2>1. \A i \in DOMAIN seed.todo : \A t \in Targets(seed.shape, seed.todo[i]) :
          seed.made[t] # <<>> \/ \E j \in 1 .. i - 1 : seed.todo[j] = t
    BY <1>1 DEF TrackingInv, ApplyInv
  <2>2. \A j \in 1 .. 1 - 1 : FALSE
    OBVIOUS
  <2>3. \A t \in Targets(seed.shape, table) : t \in Tables
    BY DEF Targets
  <2> HIDE DEF table
  <2> QED BY <1>2, <2>1, <2>2, <2>3
<1>4. ASSUME NEW t \in Targets(seed.shape, table)
      PROVE  next(t) \in ToSet(seed.made[t]) /\ next(t) \in 1 .. MaxRows /\ t \in Tables
  <2>1. t \in Tables /\ seed.made[t] \in Seq(1 .. MaxRows) /\ seed.made[t] # <<>>
        /\ seed.made[table] \in Seq(1 .. MaxRows)
    BY <1>2, <1>3, SeedIs
  <2>2. /\ Len(seed.made[t]) \in Nat /\ Len(seed.made[t]) # 0
        /\ DOMAIN seed.made[t] = 1 .. Len(seed.made[t])
        /\ \A i \in DOMAIN seed.made[t] : seed.made[t][i] \in 1 .. MaxRows
        /\ ToSet(seed.made[t]) = {seed.made[t][i] : i \in DOMAIN seed.made[t]}
    <3> DEFINE s == seed.made[t]  R == 1 .. MaxRows
    <3> HIDE DEF s, R
    <3>1. s \in Seq(R) /\ s # <<>>
      BY <2>1 DEF s, R
    <3>2. /\ Len(s) \in Nat /\ Len(s) # 0 /\ DOMAIN s = 1 .. Len(s)
          /\ (\A i \in DOMAIN s : s[i] \in R) /\ ToSet(s) = {s[i] : i \in DOMAIN s}
      BY <3>1, Elements
    <3> QED BY <3>2 DEF s, R
  <2>3. Len(seed.made[table]) \in Nat
    BY <2>1, Elements
  <2>4. (Len(seed.made[table]) % Len(seed.made[t])) + 1 \in DOMAIN seed.made[t]
    BY <2>2, <2>3, Wraps
  <2> HIDE DEF table
  <2> QED BY <2>1, <2>2, <2>4 DEF Made
<1>5. SeedRow = [table |-> table, by |-> seed.run, from |-> None, meant |-> [t \in Tables |-> None],
                 exact |-> FALSE, to |-> to]
  BY DEF SeedRow
<1>6. to \in [Tables -> 0 .. MaxRows]
  <2>1. None \in 0 .. MaxRows /\ 1 .. MaxRows \subseteq 0 .. MaxRows
    BY BoundAssumption
  <2> HIDE DEF next, table
  <2> QED BY <1>4, <2>1
<1>7. SeedRow \in TargetRow
  <2>1. seed.run \in Nat
    BY <1>1, SeedAssumption DEF Run
  <2> HIDE DEF to, table
  <2> QED BY <1>2, <1>5, <1>6, <2>1 DEF TargetRow
<1>8. \A t \in Tables : SeedRow.to[t] # None => SeedRow.to[t] \in ToSet(seed.records)
  <2>1. \A t \in Tables : ToSet(seed.made[t]) \subseteq ToSet(seed.records)
    BY <1>1 DEF TrackingInv, ApplyInv
  <2>2. \A t \in Tables : SeedRow.to[t] # None =>
          t \in Targets(seed.shape, table) /\ SeedRow.to[t] = next(t)
    <3> HIDE DEF next, table
    <3> QED BY <1>5
  <2> HIDE DEF next, table
  <2> QED BY <1>4, <2>1, <2>2
<1> QED BY <1>5, <1>7, <1>8

\* A step of one run leaves the others alone.
LEMMA OneRun ==
  ASSUME rows \in Seq(TargetRow), TrackingInv, NEW run \in Run, RunInv(run)',
         \A r \in Run \ {run} : runs'[r].records = runs[r].records, UNCHANGED meddled,
         \/ UNCHANGED rows
         \/ \E row \in TargetRow : row.by = run /\ rows' = Append(rows, row),
         deleted \subseteq deleted', deleted' \ deleted \subseteq RowsOf(run)
  PROVE  \A r \in Run : RunInv(r)'
<1> SUFFICES ASSUME NEW r \in Run, r # run PROVE RunInv(r)'
  OBVIOUS
<1>1. RunInv(r) /\ runs'[r].records = runs[r].records
  BY DEF TrackingInv
<1>2. \A i \in deleted' \ deleted : i \notin RowsOf(r)
  BY DEF RowsOf
<1>3. \/ UNCHANGED rows
      \/ \E row \in TargetRow : row.by # r /\ rows' = Append(rows, row)
  OBVIOUS
<1> QED BY <1>1, <1>2, <1>3, RunKept

\* A tracking file is replaced.
LEMMA TrackIs ==
  ASSUME SeedTypes, NEW run \in Run, NEW records \in Seq(1 .. MaxRows), Track(run, records)
  PROVE  /\ runs' \in [Run -> [exists : BOOLEAN, records : Seq(1 .. MaxRows)]]
         /\ runs'[run].records = records
         /\ \A r \in Run \ {run} : runs'[r].records = runs[r].records
<1> DEFINE entry == [exists |-> TRUE, records |-> records]
           File0 == [exists : BOOLEAN, records : Seq(1 .. MaxRows)]
<1>1. entry \in File0 /\ entry.records = records
  OBVIOUS
<1>2. runs \in [Run -> File0] /\ runs' = [runs EXCEPT ![run] = entry]
  BY DEF SeedTypes, Track
<1> HIDE DEF entry, File0
<1>3. runs' \in [Run -> File0] /\ runs'[run] = entry /\ \A r \in Run \ {run} : runs'[r] = runs[r]
  BY <1>1, <1>2
<1> QED BY <1>1, <1>3 DEF File0

\* A run begins with an empty file and with an order in which every table comes
\* after its targets.
LEMMA BeginApplyKeeps ==
  ASSUME IInv, BeginApply
  PROVE  IInv'
<1>1. PICK shape \in Plannable, counts \in Counts, run \in Run :
        /\ ~runs[run].exists /\ \A i \in DOMAIN rows : rows[i].by # run
        /\ StartSeed([NoSeed EXCEPT !.op = "apply", !.pc = "create", !.run = run, !.shape = shape,
                                    !.counts = counts, !.todo = SeedOrder[shape]])
        /\ Track(run, <<>>)
  BY DEF BeginApply
<1> DEFINE command == [NoSeed EXCEPT !.op = "apply", !.pc = "create", !.run = run, !.shape = shape,
                                     !.counts = counts, !.todo = SeedOrder[shape]]
<1>2. /\ DataInv /\ SeedTypes /\ TrackingInv /\ rows \in Seq(TargetRow)
      /\ UNCHANGED <<source, schema, dir, rows, deleted, meddled>>
  BY DEF IInv, DataInv, DatasetTypeOK, BeginApply
<1>3. /\ command.op = "apply" /\ command.pc = "create" /\ command.run = run /\ command.shape = shape
      /\ command.todo = SeedOrder[shape] /\ command.records = <<>> /\ command.made = [t \in Tables |-> <<>>]
  BY DEF NoSeed
<1>4. command \in SeedCommand
  <2>1. /\ shape \in Shape /\ counts \in [Tables -> Nat] /\ run \in 0 .. MaxRuns
        /\ SeedOrder[shape] \in Seq(Tables) /\ NoSeed \in SeedCommand
    BY <1>2, SeedAssumption, ASeedOrder, SeedIs DEF Plannable, Run
  <2> QED BY <2>1 DEF SeedCommand
<1> HIDE DEF command
<1>5. DataInv' /\ seed' = command
  BY <1>1, <1>2, SeedStarts DEF command
<1>6. /\ runs' \in [Run -> [exists : BOOLEAN, records : Seq(1 .. MaxRows)]]
      /\ runs'[run].records = <<>>
      /\ \A r \in Run \ {run} : runs'[r].records = runs[r].records
  <2>1. <<>> \in Seq(1 .. MaxRows)
    OBVIOUS
  <2> QED BY <1>1, <1>2, <2>1, TrackIs
<1>7. SeedTypes'
  BY <1>2, <1>4, <1>5, <1>6 DEF SeedTypes
<1>8. RowsOf(run)' = {}
  BY <1>1, <1>2 DEF RowsOf
<1>9. ToSet(<<>>) = {} /\ DOMAIN <<>> = {}
  BY DEF ToSet
<1>10. RunInv(run)'
  <2>1. 0 \in Nat /\ RowsOf(run)' \ (ToSet(<<>>) \cup deleted') \subseteq {0}
    BY <1>8
  <2>2. RunInv(run)' <=>
          /\ ToSet(runs'[run].records) \subseteq RowsOf(run)'
          /\ \A j, k \in DOMAIN runs'[run].records : j < k => runs'[run].records[j] < runs'[run].records[k]
          /\ \A k \in DOMAIN runs'[run].records, t \in Tables :
               rows'[runs'[run].records[k]].to[t] # None =>
                 \E j \in 1 .. k - 1 : runs'[run].records[j] = rows'[runs'[run].records[k]].to[t]
          /\ \E x \in Nat : RowsOf(run)' \ (ToSet(runs'[run].records) \cup deleted') \subseteq {x}
          /\ meddled' = 0 => \A k \in DOMAIN runs'[run].records :
                                k < Len(runs'[run].records) => runs'[run].records[k] \notin deleted'
    BY DEF RunInv
  <2>3. runs'[run].records = <<>>
    BY <1>6
  <2> HIDE DEF RunInv
  <2> QED BY <1>8, <1>9, <2>1, <2>2, <2>3
<1>11. \A r \in Run : RunInv(r)'
  BY <1>2, <1>6, <1>10, OneRun
<1>12. ApplyInv'
  <2> DEFINE todo == SeedOrder[shape]
  <2>1. \A i \in DOMAIN todo : \A t \in Targets(shape, todo[i]) : \E j \in 1 .. i - 1 : todo[j] = t
    BY ASeedOrder
  <2>2. /\ seed'.op = "apply" /\ seed'.pc = "create" /\ seed'.run = run /\ seed'.shape = shape
        /\ seed'.todo = todo /\ seed'.records = <<>> /\ \A t \in Tables : seed'.made[t] = <<>>
    BY <1>3, <1>5
  <2> HIDE DEF todo
  <2>3. \A i \in DOMAIN seed'.todo : \A t \in Targets(seed'.shape, seed'.todo[i]) :
          seed'.made[t] # <<>> \/ \E j \in 1 .. i - 1 : seed'.todo[j] = t
    BY <2>1, <2>2
  <2>4. \A t \in Tables : ToSet(seed'.made[t]) \subseteq ToSet(seed'.records)
    BY <2>2
  <2>5. RowsOf(seed.run)' = {}
    BY <1>8, <2>2 DEF RowsOf
  <2>6. seed'.records = runs'[seed'.run].records /\ seed'.run \in Run
    BY <1>6, <2>2
  <2> QED BY <2>2, <2>3, <2>4, <2>5, <2>6 DEF ApplyInv
<1>13. CleanupInv' /\ (seed'.op = "none" <=> seed'.pc = "idle") /\ deleted' \subseteq DOMAIN rows'
  BY <1>2, <1>3, <1>5 DEF CleanupInv, TrackingInv
<1> QED BY <1>5, <1>7, <1>11, <1>12, <1>13 DEF IInv, TrackingInv

\* A command that ends leaves no duty behind.
LEMMA SeedEnds ==
  ASSUME SeedTypes, EndSeed
  PROVE  /\ seed' \in SeedCommand /\ seed'.pc = "idle"
         /\ (seed'.op = "none" <=> seed'.pc = "idle") /\ ApplyInv' /\ CleanupInv'
<1>1. seed' = NoSeed /\ NoSeed \in SeedCommand /\ NoSeed.pc = "idle" /\ NoSeed.op = "none"
  BY SeedIs DEF EndSeed
<1> QED BY <1>1 DEF ApplyInv, CleanupInv

\* The row just created is the one that its file lacks.
LEMMA CreateRowKeeps ==
  ASSUME IInv, CreateRow, UNCHANGED <<source, schema, dir, cmd, count, runs, deleted, meddled>>,
         seed'.pc # "idle" => seed.pc # "idle"
  PROVE  DataInv' /\ (\A r \in Run : RunInv(r)') /\ deleted' \subseteq DOMAIN rows'
<1>1. /\ DataInv /\ SeedTypes /\ TrackingInv /\ rows \in Seq(TargetRow) /\ Creating
      /\ Len(rows) < MaxRows /\ rows' = Append(rows, SeedRow) /\ seed.pc = "create"
  BY DEF IInv, DataInv, DatasetTypeOK, CreateRow, Creating
<1>2. SeedRow \in TargetRow /\ SeedRow.by = seed.run /\ ~SeedRow.exact
  BY <1>1, SeedRowIs
<1>3. seed.op = "apply" /\ seed.run \in Run /\ seed.records = runs[seed.run].records
  BY <1>1, ApplyRuns
<1>4. PICK run \in Run : run = seed.run
  BY <1>3
<1>5. DataInv'
  BY <1>1, <1>2, SeedKeepsData
<1>6. /\ RowsOf(run)' = RowsOf(run) \cup {Len(rows) + 1}
      /\ DOMAIN rows \subseteq DOMAIN rows'
      /\ \A i \in DOMAIN rows : rows'[i] = rows[i]
  <2>1. run \in Run /\ SeedRow.by = run /\ deleted \subseteq DOMAIN rows
    BY <1>4, <1>1, <1>2 DEF TrackingInv
  <2> QED BY <1>1, <1>2, <2>1, RowOfRun
<1>7. RunInv(run)'
  <2>1. RunInv(run) /\ run \in Run
    BY <1>1 DEF TrackingInv
  <2>2. RowsOf(run) \ deleted \subseteq ToSet(runs[run].records)
    BY <1>4, <1>1, <1>3 DEF TrackingInv, ApplyInv
  <2>3. /\ Len(rows) + 1 \in Nat
        /\ RowsOf(run)' \ (ToSet(runs[run].records) \cup deleted') \subseteq {Len(rows) + 1}
    BY <1>1, <1>6, <2>2, Elements
  <2>4. meddled' = 0 => /\ meddled = 0
                        /\ \A k \in DOMAIN runs[run].records :
                             k < Len(runs[run].records) => runs[run].records[k] \notin deleted'
    BY <2>1 DEF RunInv
  <2> QED BY <1>6, <2>1, <2>3, <2>4, SameFile
<1>8. \A r \in Run : RunInv(r)'
  <2>1. run \in Run /\ SeedRow.by = run
    BY <1>4, <1>2
  <2>2. deleted' \ deleted \subseteq RowsOf(run) /\ deleted \subseteq deleted'
        /\ \A r \in Run \ {run} : runs'[r].records = runs[r].records
    OBVIOUS
  <2> QED BY <1>1, <1>2, <1>7, <2>1, <2>2, OneRun
<1>9. deleted' \subseteq DOMAIN rows'
  BY <1>1, <1>6 DEF TrackingInv
<1> QED BY <1>5, <1>8, <1>9

\* The record is created, its answer lost: the file will lack it.
LEMMA SeedLostKeeps ==
  ASSUME IInv, SeedLost
  PROVE  IInv'
<1>1. /\ SeedTypes /\ CreateRow /\ EndSeed
      /\ UNCHANGED <<source, schema, dir, cmd, count, runs, deleted, meddled>>
  BY DEF IInv, SeedLost
<1>2. /\ seed' \in SeedCommand /\ seed'.pc = "idle"
      /\ (seed'.op = "none" <=> seed'.pc = "idle") /\ ApplyInv' /\ CleanupInv'
  BY <1>1, SeedEnds
<1>3. DataInv' /\ (\A r \in Run : RunInv(r)') /\ deleted' \subseteq DOMAIN rows'
  BY <1>1, <1>2, CreateRowKeeps
<1>4. SeedTypes'
  BY <1>1, <1>2 DEF SeedTypes
<1> QED BY <1>2, <1>3, <1>4 DEF IInv, TrackingInv

\* The record is created and about to be tracked.
LEMMA SeedCreatedKeeps ==
  ASSUME IInv, SeedCreated
  PROVE  IInv'
<1>1. /\ DataInv /\ SeedTypes /\ TrackingInv /\ CreateRow /\ Creating /\ seed.pc = "create"
      /\ seed' = [seed EXCEPT !.pc = "track", !.new = Len(rows) + 1]
      /\ UNCHANGED <<source, schema, dir, cmd, count, runs, deleted, meddled>>
      /\ rows \in Seq(TargetRow) /\ Len(rows) < MaxRows /\ rows' = Append(rows, SeedRow)
  BY DEF IInv, SeedCreated, DataInv, DatasetTypeOK, CreateRow, Creating
<1>2. DataInv' /\ (\A r \in Run : RunInv(r)') /\ deleted' \subseteq DOMAIN rows'
  BY <1>1, CreateRowKeeps
<1>3. /\ seed.op = "apply" /\ seed.run \in Run /\ seed.records = runs[seed.run].records
      /\ seed \in SeedCommand /\ seed.todo # <<>>
  BY <1>1, ApplyRuns DEF SeedTypes, Creating
<1>4. Len(rows) \in Nat /\ Len(rows) + 1 \in 0 .. MaxRows
  <2>1. Len(rows) \in Nat
    BY <1>1, Elements
  <2> QED BY <1>1, <2>1, BoundAssumption
<1>5. seed' \in SeedCommand
  BY <1>1, <1>3, <1>4 DEF SeedCommand
<1>6. /\ seed'.op = "apply" /\ seed'.pc = "track" /\ seed'.run = seed.run /\ seed'.shape = seed.shape
      /\ seed'.todo = seed.todo /\ seed'.records = seed.records /\ seed'.made = seed.made
      /\ seed'.new = Len(rows) + 1
  BY <1>1, <1>3 DEF SeedCommand
<1>7. SeedTypes'
  BY <1>1, <1>5 DEF SeedTypes
<1>8. /\ SeedRow \in TargetRow /\ SeedRow.by = seed.run
      /\ \A t \in Tables : SeedRow.to[t] # None => SeedRow.to[t] \in ToSet(seed.records)
  BY <1>1, SeedRowIs
<1>9. PICK run \in Run : run = seed.run
  BY <1>3
<1> DEFINE new == Len(rows) + 1
<1>10. /\ RowsOf(run)' = RowsOf(run) \cup {new} /\ rows'[new] = SeedRow /\ new \notin deleted
      /\ \A i \in DOMAIN rows : i < new
  <2>1. deleted \subseteq DOMAIN rows
    BY <1>1 DEF TrackingInv
  <2> QED BY <1>9, <1>1, <1>8, <2>1, RowOfRun
<1>11. /\ meddled = 0 => RowsOf(run) \cap deleted = {}
       /\ RowsOf(run) \ deleted \subseteq ToSet(seed.records)
       /\ \A t \in Tables : ToSet(seed.made[t]) \subseteq ToSet(seed.records)
       /\ \A i \in DOMAIN seed.todo : \A t \in Targets(seed.shape, seed.todo[i]) :
            seed.made[t] # <<>> \/ \E j \in 1 .. i - 1 : seed.todo[j] = t
  BY <1>9, <1>1, <1>3 DEF TrackingInv, ApplyInv
<1>12. ToSet(seed.records) \subseteq DOMAIN rows
  <2>1. RunInv(seed.run)
    BY <1>1, <1>3 DEF TrackingInv
  <2> QED BY <1>3, <2>1 DEF RunInv, RowsOf
<1>13. RowsOf(seed.run)' = RowsOf(run) \cup {new}
  BY <1>9, <1>6, <1>10 DEF RowsOf
<1> HIDE DEF new
<1>14. /\ meddled' = 0 => RowsOf(seed.run)' \cap deleted' = {}
       /\ RowsOf(seed.run)' \ deleted' \subseteq ToSet(seed'.records) \cup {seed'.new}
       /\ seed'.new \in RowsOf(seed.run)'
  BY <1>1, <1>6, <1>10, <1>11, <1>13 DEF new
<1>15. /\ \A i \in ToSet(seed'.records) : i < seed'.new
       /\ \A t \in Tables : rows'[seed'.new].to[t] # None => rows'[seed'.new].to[t] \in ToSet(seed'.records)
  BY <1>9, <1>6, <1>8, <1>10, <1>12 DEF new
<1>16. /\ \A t \in Tables : ToSet(seed'.made[t]) \subseteq ToSet(seed'.records)
       /\ \A i \in DOMAIN seed'.todo : \A t \in Targets(seed'.shape, seed'.todo[i]) :
            seed'.made[t] # <<>> \/ \E j \in 1 .. i - 1 : seed'.todo[j] = t
  BY <1>6, <1>11
<1>17. seed'.records = runs'[seed'.run].records
  BY <1>1, <1>3, <1>6
<1>18. ApplyInv'
  BY <1>3, <1>6, <1>14, <1>15, <1>16, <1>17 DEF ApplyInv
<1>19. CleanupInv' /\ (seed'.op = "none" <=> seed'.pc = "idle")
  BY <1>6 DEF CleanupInv
<1> QED BY <1>2, <1>7, <1>18, <1>19 DEF IInv, TrackingInv

\* The row that is tracked comes after all that are.
LEMMA SeedTrackedKeeps ==
  ASSUME IInv, SeedTracked
  PROVE  IInv'
<1> DEFINE R == 1 .. MaxRows
<1>1. /\ DataInv /\ SeedTypes /\ TrackingInv /\ seed.pc = "track"
      /\ rows \in Seq(TargetRow) /\ UNCHANGED <<source, schema, dir, rows, cmd, count, deleted, meddled>>
  BY DEF IInv, SeedTracked, DataInv, DatasetTypeOK, dataVars
<1>2. /\ seed.op = "apply" /\ seed.run \in Run /\ seed.records = runs[seed.run].records
      /\ seed \in SeedCommand
  BY <1>1, ApplyRuns DEF SeedTypes
<1>3. PICK run \in Run : run = seed.run
  BY <1>2
<1>4. PICK table, made, records, todo :
        /\ table = Head(seed.todo) /\ made = Append(seed.made[table], seed.new)
        /\ records = Append(seed.records, seed.new)
        /\ todo = IF Len(made) = seed.counts[table] THEN Tail(seed.todo) ELSE seed.todo
        /\ Track(seed.run, records)
        /\ seed' = [seed EXCEPT !.pc = "create", !.made[table] = made, !.records = records, !.todo = todo]
  BY DEF SeedTracked, Made
<1>5. RunInv(run) /\ deleted \subseteq DOMAIN rows
  BY <1>1 DEF TrackingInv
<1>6. /\ meddled = 0 => RowsOf(run) \cap deleted = {}
      /\ seed.todo # <<>> /\ seed.new \in RowsOf(run)
      /\ RowsOf(run) \ deleted \subseteq ToSet(seed.records) \cup {seed.new}
      /\ \A i \in ToSet(seed.records) : i < seed.new
      /\ \A t \in Tables : rows[seed.new].to[t] # None => rows[seed.new].to[t] \in ToSet(seed.records)
      /\ \A t \in Tables : ToSet(seed.made[t]) \subseteq ToSet(seed.records)
  BY <1>1, <1>2, <1>3 DEF TrackingInv, ApplyInv
<1>7. /\ \A i \in DOMAIN seed.todo : \A t \in Targets(seed.shape, seed.todo[i]) :
           seed.made[t] # <<>> \/ \E j \in 1 .. i - 1 : seed.todo[j] = t
  BY <1>1, <1>2 DEF TrackingInv, ApplyInv
<1>8. seed.new \in R
  <2>1. Len(rows) \in Nat /\ DOMAIN rows = 1 .. Len(rows)
    BY <1>1, Elements
  <2>2. seed.new \in DOMAIN rows
    BY <1>6 DEF RowsOf
  <2>3. Len(rows) <= MaxRows
    BY <1>1 DEF DataInv, DatasetTypeOK
  <2> QED BY <2>1, <2>2, <2>3, BoundAssumption
<1>9. /\ seed.todo \in Seq(Tables) /\ seed.records \in Seq(R)
      /\ \A t \in Tables : seed.made[t] \in Seq(R)
      /\ seed.made \in [Tables -> Seq(R)]
  BY <1>2 DEF SeedCommand
<1>10. /\ table \in Tables /\ table = seed.todo[1] /\ Tail(seed.todo) \in Seq(Tables)
       /\ \A i \in DOMAIN Tail(seed.todo) :
            i + 1 \in DOMAIN seed.todo /\ Tail(seed.todo)[i] = seed.todo[i + 1]
  <2>1. seed.todo \in Seq(Tables) /\ seed.todo # <<>>
    BY <1>6, <1>9
  <2>2. /\ Head(seed.todo) = seed.todo[1] /\ Head(seed.todo) \in Tables
        /\ Tail(seed.todo) \in Seq(Tables)
        /\ \A i \in DOMAIN Tail(seed.todo) :
             i + 1 \in DOMAIN seed.todo /\ Tail(seed.todo)[i] = seed.todo[i + 1]
    BY <2>1, TailIs
  <2> QED BY <1>4, <2>2
<1> HIDE DEF R
<1>11. /\ made \in Seq(R) /\ made # <<>> /\ ToSet(made) = ToSet(seed.made[table]) \cup {seed.new}
  <2> DEFINE s == seed.made[table]
  <2>1. s \in Seq(R) /\ made = Append(s, seed.new)
    BY <1>4, <1>9, <1>10
  <2> HIDE DEF s
  <2>2. made \in Seq(R) /\ made # <<>> /\ ToSet(made) = ToSet(s) \cup {seed.new}
    BY <1>8, <2>1, Appended
  <2> QED BY <2>2 DEF s
<1>12. /\ records \in Seq(R) /\ ToSet(records) = ToSet(seed.records) \cup {seed.new}
       /\ DOMAIN records = 1 .. Len(seed.records) + 1 /\ Len(records) = Len(seed.records) + 1
       /\ \A i \in DOMAIN seed.records : records[i] = seed.records[i]
       /\ records[Len(seed.records) + 1] = seed.new
  <2> DEFINE s == seed.records
  <2>1. s \in Seq(R) /\ records = Append(s, seed.new)
    BY <1>4, <1>9
  <2> HIDE DEF s
  <2>2. /\ records \in Seq(R) /\ ToSet(records) = ToSet(s) \cup {seed.new}
        /\ DOMAIN records = 1 .. Len(s) + 1 /\ Len(records) = Len(s) + 1
        /\ \A i \in DOMAIN s : records[i] = s[i]
        /\ records[Len(s) + 1] = seed.new
    BY <1>8, <2>1, Appended
  <2> QED BY <2>2 DEF s
<1>13. /\ Len(seed.records) \in Nat /\ DOMAIN seed.records = 1 .. Len(seed.records)
       /\ \A i \in DOMAIN seed.records : seed.records[i] \in ToSet(seed.records)
       /\ \A q \in ToSet(seed.records) : \E i \in DOMAIN seed.records : seed.records[i] = q
  <2>1. /\ Len(seed.records) \in Nat /\ DOMAIN seed.records = 1 .. Len(seed.records)
        /\ ToSet(seed.records) = {seed.records[i] : i \in DOMAIN seed.records}
    BY <1>9, Elements
  <2> QED BY <2>1
<1>14. todo \in Seq(Tables)
  BY <1>4, <1>9, <1>10
<1>15. seed' \in SeedCommand
  <2>1. [seed.made EXCEPT ![table] = made] \in [Tables -> Seq(R)]
    BY <1>9, <1>11
  <2>2. seed' = [seed EXCEPT !.pc = "create", !.made = [seed.made EXCEPT ![table] = made],
                             !.records = records, !.todo = todo]
    BY <1>2, <1>4 DEF SeedCommand
  <2> QED BY <1>2, <1>12, <1>14, <2>1, <2>2 DEF SeedCommand, R
<1>16. /\ seed'.op = "apply" /\ seed'.pc = "create" /\ seed'.run = run /\ seed'.shape = seed.shape
       /\ seed'.made = [seed.made EXCEPT ![table] = made] /\ seed'.records = records /\ seed'.todo = todo
  BY <1>2, <1>3, <1>4 DEF SeedCommand
<1>17. /\ runs' \in [Run -> [exists : BOOLEAN, records : Seq(R)]]
       /\ runs'[run].records = records
       /\ \A r \in Run \ {run} : runs'[r].records = runs[r].records
  BY <1>1, <1>3, <1>4, <1>12, TrackIs DEF R
<1>18. SeedTypes'
  BY <1>1, <1>15, <1>17 DEF SeedTypes, R
<1>19. DataInv'
  <2>1. seed.pc # "idle"
    BY <1>1
  <2> QED BY <1>1, <2>1, SeedKeepsData
<1>20. RowsOf(run)' = RowsOf(run)
  BY <1>1 DEF RowsOf
<1>21. RunInv(run)'
  <2> DEFINE old == seed.records  n == Len(old)
  <2>1. /\ ToSet(old) \subseteq RowsOf(run)
        /\ \A j, k \in DOMAIN old : j < k => old[j] < old[k]
        /\ \A k \in DOMAIN old, t \in Tables :
             rows[old[k]].to[t] # None => \E j \in 1 .. k - 1 : old[j] = rows[old[k]].to[t]
    <3>1. old = runs[run].records
      BY <1>2, <1>3
    <3> HIDE DEF old
    <3> QED BY <1>5, <3>1 DEF RunInv
  <2>2. RunInv(run)' <=>
          /\ ToSet(records) \subseteq RowsOf(run)
          /\ \A j, k \in DOMAIN records : j < k => records[j] < records[k]
          /\ \A k \in DOMAIN records, t \in Tables :
               rows[records[k]].to[t] # None => \E j \in 1 .. k - 1 : records[j] = rows[records[k]].to[t]
          /\ \E x \in Nat : RowsOf(run) \ (ToSet(records) \cup deleted) \subseteq {x}
          /\ meddled = 0 => \A k \in DOMAIN records : k < Len(records) => records[k] \notin deleted
    BY <1>1, <1>17, <1>20 DEF RunInv
  <2> HIDE DEF RunInv
  <2>3. n \in Nat /\ \A k \in DOMAIN records : k \in DOMAIN old \/ k = n + 1
    BY <1>12, <1>13
  <2>4. ToSet(records) \subseteq RowsOf(run)
    BY <1>6, <1>12, <2>1
  <2>5. ASSUME NEW j \in DOMAIN records, NEW k \in DOMAIN records, j < k
        PROVE  records[j] < records[k]
    <3>1. j \in DOMAIN old
      BY <1>12, <1>13, <2>5
    <3>2. CASE k \in DOMAIN old
      BY <1>12, <2>1, <2>5, <3>1, <3>2
    <3>3. CASE k = n + 1
      BY <1>6, <1>12, <1>13, <3>1, <3>3
    <3> QED BY <2>3, <3>2, <3>3
  <2>6. ASSUME NEW k \in DOMAIN records, NEW t \in Tables, rows[records[k]].to[t] # None
        PROVE  \E j \in 1 .. k - 1 : records[j] = rows[records[k]].to[t]
    <3>1. CASE k \in DOMAIN old
      <4>1. records[k] = old[k]
        BY <1>12, <3>1
      <4>2. PICK j \in 1 .. k - 1 : old[j] = rows[old[k]].to[t]
        BY <2>1, <2>6, <3>1, <4>1
      <4>3. j \in DOMAIN old
        BY <1>13, <3>1
      <4> QED BY <1>12, <4>1, <4>2, <4>3
    <3>2. CASE k = n + 1
      <4>1. records[k] = seed.new
        BY <1>12, <3>2
      <4>2. PICK j \in DOMAIN old : old[j] = rows[seed.new].to[t]
        BY <1>6, <1>13, <2>6, <4>1
      <4>3. j \in 1 .. k - 1
        BY <1>13, <3>2
      <4> QED BY <1>12, <4>1, <4>2, <4>3
    <3> QED BY <2>3, <3>1, <3>2
  <2>7. 0 \in Nat /\ RowsOf(run) \ (ToSet(records) \cup deleted) \subseteq {0}
    BY <1>6, <1>12
  <2>8. ASSUME meddled = 0, NEW k \in DOMAIN records, k < Len(records)
        PROVE  records[k] \notin deleted
    <3>1. k \in DOMAIN old
      BY <1>12, <1>13, <2>8
    <3> QED BY <1>6, <1>12, <1>13, <2>1, <2>8, <3>1
  <2> QED BY <2>2, <2>4, <2>5, <2>6, <2>7, <2>8
<1>22. \A r \in Run : RunInv(r)'
  BY <1>1, <1>17, <1>21, OneRun
<1>23. ASSUME NEW i \in DOMAIN todo, NEW t \in Targets(seed.shape, todo[i]),
              [seed.made EXCEPT ![table] = made][t] = <<>>
       PROVE  \E j \in 1 .. i - 1 : todo[j] = t
  <2>1. t \in Tables
    BY DEF Targets
  <2>2. t # table /\ seed.made[t] = <<>>
    BY <1>9, <1>11, <1>23, <2>1
  <2>3. CASE todo = seed.todo
    BY <1>7, <2>2, <2>3
  <2>4. CASE todo = Tail(seed.todo)
    <3>1. i + 1 \in DOMAIN seed.todo /\ todo[i] = seed.todo[i + 1]
      BY <1>10, <2>4
    <3>2. /\ DOMAIN todo = 1 .. Len(todo) /\ Len(todo) \in Nat
      BY <1>14, Elements
    <3>3. PICK j \in 1 .. (i + 1) - 1 : seed.todo[j] = t
      BY <1>7, <2>2, <3>1
    <3>4. j # 1
      BY <1>10, <2>2, <3>3
    <3>5. j - 1 \in 1 .. i - 1 /\ j - 1 \in DOMAIN todo /\ (j - 1) + 1 = j
      BY <3>2, <3>4
    <3>6. todo[j - 1] = t
      BY <1>10, <2>4, <3>3, <3>5
    <3> QED BY <3>5, <3>6
  <2> QED BY <1>4, <2>3, <2>4
<1>24. /\ \A t \in Tables : ToSet(seed'.made[t]) \subseteq ToSet(seed'.records)
       /\ \A i \in DOMAIN seed'.todo : \A t \in Targets(seed'.shape, seed'.todo[i]) :
            seed'.made[t] # <<>> \/ \E j \in 1 .. i - 1 : seed'.todo[j] = t
  <2>1. \A t \in Tables : seed'.made[t] = IF t = table THEN made ELSE seed.made[t]
    BY <1>9, <1>10, <1>16
  <2>2. \A t \in Tables : ToSet(seed'.made[t]) \subseteq ToSet(seed'.records)
    BY <1>6, <1>10, <1>11, <1>12, <1>16, <2>1
  <2> QED BY <1>16, <1>23, <2>2
<1>25. /\ meddled' = 0 => RowsOf(seed.run)' \cap deleted' = {}
       /\ RowsOf(seed.run)' \ deleted' \subseteq ToSet(seed'.records)
  <2>1. RowsOf(seed.run)' = RowsOf(run)
    BY <1>1, <1>16 DEF RowsOf
  <2> QED BY <1>1, <1>6, <1>12, <1>16, <2>1
<1>26. ApplyInv'
  BY <1>16, <1>17, <1>24, <1>25 DEF ApplyInv
<1>27. CleanupInv' /\ (seed'.op = "none" <=> seed'.pc = "idle") /\ deleted' \subseteq DOMAIN rows'
  BY <1>1, <1>5, <1>16 DEF CleanupInv
<1> QED BY <1>18, <1>19, <1>22, <1>26, <1>27 DEF IInv, TrackingInv

\* A command that ends, wherever it was cut, leaves rows and files as they are.
LEMMA SeedEndsKeeps ==
  ASSUME IInv, seed.pc # "idle", EndSeed, UNCHANGED <<dataVars, runs, deleted, meddled>>
  PROVE  IInv'
<1>1. /\ DataInv /\ SeedTypes /\ TrackingInv /\ rows \in Seq(TargetRow)
      /\ UNCHANGED <<source, schema, dir, rows, cmd, count>>
  BY DEF IInv, DataInv, DatasetTypeOK, dataVars
<1>2. /\ seed' \in SeedCommand /\ seed'.pc = "idle"
      /\ (seed'.op = "none" <=> seed'.pc = "idle") /\ ApplyInv' /\ CleanupInv'
  BY <1>1, SeedEnds
<1>3. DataInv' /\ SeedTypes'
  BY <1>1, <1>2, SeedKeepsData DEF SeedTypes
<1>4. ASSUME NEW r \in Run
      PROVE  RunInv(r)'
  BY <1>1, RunKept DEF TrackingInv
<1> QED BY <1>1, <1>2, <1>3, <1>4 DEF IInv, TrackingInv

\* What others delete may be any row of a run: from then on the runs promise less.
LEMMA OthersDeleteKeeps ==
  ASSUME IInv, OthersDelete
  PROVE  IInv'
<1>1. /\ DataInv /\ SeedTypes /\ TrackingInv /\ rows \in Seq(TargetRow)
      /\ UNCHANGED <<source, schema, dir, rows, cmd, count, seed, runs>>
      /\ meddled < MaxMeddling /\ meddled' = meddled + 1 /\ meddled \in Nat
  BY SeedAssumption DEF IInv, DataInv, DatasetTypeOK, dataVars, OthersDelete, SeedTypes
<1>2. PICK i \in DOMAIN rows : deleted' = deleted \cup {i}
  BY DEF OthersDelete
<1>3. DataInv'
  BY <1>1, SeedKeepsData
<1>4. meddled' # 0 /\ meddled' \in 0 .. MaxMeddling
  BY <1>1, SeedAssumption
<1>5. deleted' \subseteq DOMAIN rows'
  BY <1>1, <1>2 DEF TrackingInv
<1>6. SeedTypes'
  <2>1. DOMAIN rows \subseteq 1 .. MaxRows
    <3>1. Len(rows) \in Nat /\ DOMAIN rows = 1 .. Len(rows)
      BY <1>1, Elements
    <3>2. Len(rows) <= MaxRows
      BY <1>1 DEF DataInv, DatasetTypeOK
    <3> QED BY <3>1, <3>2, BoundAssumption
  <2> QED BY <1>1, <1>4, <1>5, <2>1 DEF SeedTypes
<1>7. ASSUME NEW r \in Run
      PROVE  RunInv(r)'
  <2>1. RunInv(r) /\ RowsOf(r)' = RowsOf(r)
    BY <1>1 DEF TrackingInv, RowsOf
  <2>2. \E x \in Nat : RowsOf(r)' \ (ToSet(runs[r].records) \cup deleted') \subseteq {x}
    BY <1>2, <2>1 DEF RunInv
  <2>3. \A k \in DOMAIN rows : k \in DOMAIN rows' /\ rows'[k] = rows[k]
    BY <1>1
  <2>4. runs'[r].records = runs[r].records
    BY <1>1
  <2> QED BY <1>4, <2>1, <2>2, <2>3, <2>4, SameFile
<1>8. ApplyInv'
  <2>1. CASE seed.op # "apply"
    BY <1>1, <2>1 DEF ApplyInv
  <2>2. CASE seed.op = "apply"
    <3>1. RowsOf(seed.run)' = RowsOf(seed.run)
      BY <1>1 DEF RowsOf
    <3>2. ApplyInv
      BY <1>1 DEF TrackingInv
    <3>3. /\ seed.pc \in {"create", "track"} /\ seed.run \in Run
          /\ seed.records = runs[seed.run].records
          /\ seed.pc = "create" => RowsOf(seed.run) \ deleted' \subseteq ToSet(seed.records)
          /\ seed.pc = "track" =>
               /\ seed.todo # <<>> /\ seed.new \in RowsOf(seed.run)
               /\ RowsOf(seed.run) \ deleted' \subseteq ToSet(seed.records) \cup {seed.new}
               /\ \A k \in ToSet(seed.records) : k < seed.new
               /\ \A t \in Tables : rows[seed.new].to[t] # None => rows[seed.new].to[t] \in ToSet(seed.records)
          /\ \A t \in Tables : ToSet(seed.made[t]) \subseteq ToSet(seed.records)
          /\ \A k \in DOMAIN seed.todo : \A t \in Targets(seed.shape, seed.todo[k]) :
               seed.made[t] # <<>> \/ \E j \in 1 .. k - 1 : seed.todo[j] = t
      BY <1>2, <2>2, <3>2 DEF ApplyInv
    <3> QED BY <1>1, <1>4, <3>1, <3>3 DEF ApplyInv
  <2> QED BY <2>1, <2>2
<1>9. CleanupInv' /\ (seed'.op = "none" <=> seed'.pc = "idle")
  BY <1>1, <1>2 DEF CleanupInv, TrackingInv
<1> QED BY <1>3, <1>5, <1>6, <1>7, <1>8, <1>9 DEF IInv, TrackingInv

----------------------------------------------------------------------------
(* cleanup.                                                                *)

\* What cleanup works on.
LEMMA CleanupRuns ==
  ASSUME SeedTypes, TrackingInv, seed.pc \in {"delete", "untrack"}
  PROVE  seed.op = "cleanup" /\ seed.run \in Run
<1>1. seed.op \in {"none", "apply", "cleanup"}
  BY DEF SeedTypes, SeedCommand
<1> QED BY <1>1 DEF TrackingInv, ApplyInv, CleanupInv

\* Cleanup starts with what the file lists.
LEMMA BeginCleanupKeeps ==
  ASSUME IInv, BeginCleanup
  PROVE  IInv'
<1>1. PICK run \in Run :
        /\ runs[run].exists
        /\ StartSeed([NoSeed EXCEPT !.op = "cleanup", !.pc = "delete", !.run = run,
                                    !.records = runs[run].records])
  BY DEF BeginCleanup
<1> DEFINE command == [NoSeed EXCEPT !.op = "cleanup", !.pc = "delete", !.run = run,
                                     !.records = runs[run].records]
<1>2. /\ DataInv /\ SeedTypes /\ TrackingInv /\ rows \in Seq(TargetRow)
      /\ UNCHANGED <<source, schema, dir, rows, runs, deleted, meddled>>
  BY DEF IInv, DataInv, DatasetTypeOK, BeginCleanup
<1>3. /\ command.op = "cleanup" /\ command.pc = "delete" /\ command.run = run
      /\ command.records = runs[run].records
  BY DEF NoSeed
<1>4. command \in SeedCommand
  <2>1. NoSeed \in SeedCommand /\ runs[run].records \in Seq(1 .. MaxRows) /\ run \in 0 .. MaxRuns
    BY <1>2, SeedIs DEF Run
  <2> QED BY <2>1 DEF SeedCommand
<1> HIDE DEF command
<1>5. DataInv' /\ seed' = command
  BY <1>1, <1>2, SeedStarts DEF command
<1>6. SeedTypes'
  BY <1>2, <1>4, <1>5 DEF SeedTypes
<1>7. ASSUME NEW r \in Run
      PROVE  RunInv(r)'
  BY <1>2, RunKept DEF TrackingInv
<1>8. CleanupInv' /\ ApplyInv' /\ (seed'.op = "none" <=> seed'.pc = "idle") /\ deleted' \subseteq DOMAIN rows'
  BY <1>2, <1>3, <1>5 DEF CleanupInv, ApplyInv, TrackingInv
<1> QED BY <1>5, <1>6, <1>7, <1>8 DEF IInv, TrackingInv

\* The last record of the file goes: those before it are still there.
LEMMA DeleteLastKeeps ==
  ASSUME IInv, DeleteLast, UNCHANGED <<dataVars, runs, meddled>>, seed'.pc # "idle" => seed.pc # "idle"
  PROVE  /\ DataInv' /\ (\A r \in Run : RunInv(r)') /\ deleted' \subseteq DOMAIN rows'
         /\ deleted' \subseteq 1 .. MaxRows
<1>1. /\ DataInv /\ SeedTypes /\ TrackingInv /\ rows \in Seq(TargetRow)
      /\ UNCHANGED <<source, schema, dir, rows, cmd, count, runs, meddled>>
      /\ seed.pc = "delete" /\ seed.records # <<>> /\ deleted' = deleted \cup {Last(seed.records)}
  BY DEF IInv, DataInv, DatasetTypeOK, dataVars, DeleteLast
<1>2. seed.op = "cleanup" /\ seed.run \in Run /\ seed.records = runs[seed.run].records
  BY <1>1, CleanupRuns DEF TrackingInv, CleanupInv
<1>3. PICK run \in Run : run = seed.run
  BY <1>2
<1> DEFINE records == runs[run].records  last == Last(records)
<1>4. RunInv(run) /\ deleted \subseteq DOMAIN rows
  BY <1>1 DEF TrackingInv
<1>5. /\ records \in Seq(1 .. MaxRows) /\ records # <<>> /\ deleted' = deleted \cup {last}
  BY <1>1, <1>2, <1>3, SeedIs
<1>6. /\ Len(records) \in DOMAIN records /\ last = records[Len(records)] /\ last \in ToSet(records)
      /\ Len(records) \in Nat /\ DOMAIN records = 1 .. Len(records)
      /\ \A k \in DOMAIN records : records[k] \in 1 .. MaxRows
  <2> DEFINE R == 1 .. MaxRows  s == records
  <2> HIDE DEF R, s
  <2>1. s \in Seq(R) /\ s # <<>>
    BY <1>5 DEF s, R
  <2>2. /\ Len(s) \in DOMAIN s /\ Last(s) = s[Len(s)] /\ Last(s) \in ToSet(s)
        /\ Len(s) \in Nat /\ DOMAIN s = 1 .. Len(s) /\ \A k \in DOMAIN s : s[k] \in R
    BY <2>1, FrontIs, Elements
  <2> QED BY <2>2 DEF s, R
<1>7. last \in RowsOf(run) /\ last \in DOMAIN rows
  BY <1>4, <1>6 DEF RunInv, RowsOf
<1>8. DataInv'
  BY <1>1, SeedKeepsData
<1>9. deleted' \subseteq DOMAIN rows' /\ deleted' \subseteq 1 .. MaxRows
  <2>1. DOMAIN rows \subseteq 1 .. MaxRows
    <3>1. Len(rows) \in Nat /\ DOMAIN rows = 1 .. Len(rows)
      BY <1>1, Elements
    <3>2. Len(rows) <= MaxRows
      BY <1>1 DEF DataInv, DatasetTypeOK
    <3> QED BY <3>1, <3>2, BoundAssumption
  <2> QED BY <1>1, <1>4, <1>5, <1>7, <2>1
<1>10. RunInv(run)'
  <2>1. /\ \A j, k \in DOMAIN records : j < k => records[j] < records[k]
        /\ \E x \in Nat : RowsOf(run) \ (ToSet(records) \cup deleted) \subseteq {x}
        /\ meddled = 0 => \A k \in DOMAIN records : k < Len(records) => records[k] \notin deleted
        /\ \A k \in DOMAIN records : records[k] \in 1 .. MaxRows
    BY <1>4, <1>6 DEF RunInv
  <2>2. RowsOf(run)' = RowsOf(run)
    BY <1>1 DEF RowsOf
  <2> HIDE DEF last, records
  <2>3. \A k \in DOMAIN records : k < Len(records) => records[k] # last
    BY <1>6, <2>1
  <2>4. \E x \in Nat : RowsOf(run)' \ (ToSet(records) \cup deleted') \subseteq {x}
    BY <1>5, <2>1, <2>2
  <2>5. meddled' = 0 => /\ meddled = 0
                        /\ \A k \in DOMAIN records : k < Len(records) => records[k] \notin deleted'
    BY <1>1, <1>5, <2>1, <2>3
  <2>6. \A i \in DOMAIN rows : i \in DOMAIN rows' /\ rows'[i] = rows[i]
    BY <1>1
  <2>7. runs'[run].records = runs[run].records
    BY <1>1
  <2> QED BY <1>4, <2>2, <2>4, <2>5, <2>6, <2>7, SameFile DEF records
<1>11. \A r \in Run : RunInv(r)'
  <2>1. deleted \subseteq deleted' /\ deleted' \ deleted \subseteq RowsOf(run)
    BY <1>5, <1>7
  <2> QED BY <1>1, <1>10, <2>1, OneRun
<1> QED BY <1>8, <1>9, <1>11

\* The record is deleted, its answer lost: the file still lists it.
LEMMA DeleteLostKeeps ==
  ASSUME IInv, DeleteLost
  PROVE  IInv'
<1>1. SeedTypes /\ DeleteLast /\ EndSeed /\ UNCHANGED <<dataVars, runs, meddled>>
  BY DEF IInv, DeleteLost
<1>2. /\ seed' \in SeedCommand /\ seed'.pc = "idle"
      /\ (seed'.op = "none" <=> seed'.pc = "idle") /\ ApplyInv' /\ CleanupInv'
  BY <1>1, SeedEnds
<1>3. /\ DataInv' /\ (\A r \in Run : RunInv(r)') /\ deleted' \subseteq DOMAIN rows'
      /\ deleted' \subseteq 1 .. MaxRows
  BY <1>1, <1>2, DeleteLastKeeps
<1>4. SeedTypes'
  BY <1>1, <1>2, <1>3 DEF SeedTypes
<1> QED BY <1>2, <1>3, <1>4 DEF IInv, TrackingInv

\* The record is deleted and about to leave the file.
LEMMA RecordDeletedKeeps ==
  ASSUME IInv, RecordDeleted
  PROVE  IInv'
<1>1. /\ SeedTypes /\ TrackingInv /\ DeleteLast /\ UNCHANGED <<dataVars, runs, meddled>>
      /\ seed' = [seed EXCEPT !.pc = "untrack", !.records = Front(seed.records)]
      /\ seed.pc = "delete" /\ seed.records # <<>> /\ deleted' = deleted \cup {Last(seed.records)}
  BY DEF IInv, RecordDeleted, DeleteLast
<1>2. /\ seed.op = "cleanup" /\ seed.run \in Run /\ seed.records = runs[seed.run].records
      /\ seed \in SeedCommand /\ seed.records \in Seq(1 .. MaxRows)
  BY <1>1, CleanupRuns, SeedIs DEF TrackingInv, CleanupInv, SeedTypes
<1>3. /\ DataInv' /\ (\A r \in Run : RunInv(r)') /\ deleted' \subseteq DOMAIN rows'
      /\ deleted' \subseteq 1 .. MaxRows
  BY <1>1, DeleteLastKeeps
<1>4. seed' \in SeedCommand
  <2>1. Front(seed.records) \in Seq(1 .. MaxRows)
    BY <1>1, <1>2, FrontIs
  <2> QED BY <1>1, <1>2, <2>1 DEF SeedCommand
<1>5. /\ seed'.op = "cleanup" /\ seed'.pc = "untrack" /\ seed'.run = seed.run
      /\ seed'.records = Front(seed.records)
  BY <1>1, <1>2 DEF SeedCommand
<1>6. SeedTypes'
  BY <1>1, <1>3, <1>4 DEF SeedTypes
<1>7. CleanupInv' /\ ApplyInv' /\ (seed'.op = "none" <=> seed'.pc = "idle")
  BY <1>1, <1>2, <1>5 DEF CleanupInv, ApplyInv
<1> QED BY <1>3, <1>6, <1>7 DEF IInv, TrackingInv

\* The record that was deleted leaves the file.
LEMMA UntrackedKeeps ==
  ASSUME IInv, Untracked
  PROVE  IInv'
<1>1. /\ DataInv /\ SeedTypes /\ TrackingInv /\ rows \in Seq(TargetRow)
      /\ UNCHANGED <<source, schema, dir, rows, cmd, count, deleted, meddled>>
      /\ seed.pc = "untrack" /\ Track(seed.run, seed.records)
      /\ seed' = [seed EXCEPT !.pc = "delete"]
  BY DEF IInv, DataInv, DatasetTypeOK, dataVars, Untracked
<1>2. /\ seed.op = "cleanup" /\ seed.run \in Run /\ seed \in SeedCommand
      /\ runs[seed.run].records # <<>> /\ seed.records = Front(runs[seed.run].records)
      /\ Last(runs[seed.run].records) \in deleted
      /\ seed.records \in Seq(1 .. MaxRows) /\ runs[seed.run].records \in Seq(1 .. MaxRows)
  BY <1>1, CleanupRuns, SeedIs DEF TrackingInv, CleanupInv, SeedTypes
<1>3. PICK run \in Run : run = seed.run
  BY <1>2
<1> DEFINE old == runs[run].records  records == Front(old)
<1>4. RunInv(run)
  BY <1>1 DEF TrackingInv
<1>5. /\ DOMAIN records = 1 .. Len(old) - 1 /\ Len(records) = Len(old) - 1
      /\ \A k \in DOMAIN records : k \in DOMAIN old /\ k < Len(old) /\ records[k] = old[k]
      /\ ToSet(old) = ToSet(records) \cup {Last(old)} /\ Len(old) \in Nat /\ DOMAIN old = 1 .. Len(old)
  <2> DEFINE R == 1 .. MaxRows  s == old
  <2> HIDE DEF R, s
  <2>1. s \in Seq(R) /\ s # <<>>
    BY <1>2, <1>3 DEF s, R
  <2>2. /\ DOMAIN Front(s) = 1 .. Len(s) - 1 /\ Len(Front(s)) = Len(s) - 1
        /\ \A k \in DOMAIN Front(s) : k \in DOMAIN s /\ k < Len(s) /\ Front(s)[k] = s[k]
        /\ ToSet(s) = ToSet(Front(s)) \cup {Last(s)} /\ Len(s) \in Nat /\ DOMAIN s = 1 .. Len(s)
    BY <2>1, FrontIs, Elements
  <2> QED BY <2>2 DEF s
<1>6. /\ runs' \in [Run -> [exists : BOOLEAN, records : Seq(1 .. MaxRows)]]
      /\ runs'[run].records = records
      /\ \A r \in Run \ {run} : runs'[r].records = runs[r].records
  <2>1. records = seed.records /\ Track(run, records) /\ records \in Seq(1 .. MaxRows)
    BY <1>1, <1>2, <1>3
  <2> HIDE DEF records
  <2> QED BY <1>1, <2>1, TrackIs
<1>7. DataInv'
  <2>1. seed.pc # "idle"
    BY <1>1
  <2> QED BY <1>1, <2>1, SeedKeepsData
<1>8. RunInv(run)'
  <2>1. /\ ToSet(old) \subseteq RowsOf(run)
        /\ \A j, k \in DOMAIN old : j < k => old[j] < old[k]
        /\ \A k \in DOMAIN old, t \in Tables :
             rows[old[k]].to[t] # None => \E j \in 1 .. k - 1 : old[j] = rows[old[k]].to[t]
        /\ \E x \in Nat : RowsOf(run) \ (ToSet(old) \cup deleted) \subseteq {x}
        /\ meddled = 0 => \A k \in DOMAIN old : k < Len(old) => old[k] \notin deleted
    BY <1>4 DEF RunInv
  <2>2. RowsOf(run)' = RowsOf(run)
    BY <1>1 DEF RowsOf
  <2>3. RunInv(run)' <=>
          /\ ToSet(records) \subseteq RowsOf(run)
          /\ \A j, k \in DOMAIN records : j < k => records[j] < records[k]
          /\ \A k \in DOMAIN records, t \in Tables :
               rows[records[k]].to[t] # None => \E j \in 1 .. k - 1 : records[j] = rows[records[k]].to[t]
          /\ \E x \in Nat : RowsOf(run) \ (ToSet(records) \cup deleted) \subseteq {x}
          /\ meddled = 0 => \A k \in DOMAIN records : k < Len(records) => records[k] \notin deleted
    <3> HIDE DEF records
    <3> QED BY <1>1, <1>6, <2>2 DEF RunInv
  <2>4. Last(old) \in deleted
    BY <1>2, <1>3
  <2> HIDE DEF RunInv, old, records
  <2>5. \A j, k \in DOMAIN records : j < k => records[j] < records[k]
    BY <1>5, <2>1
  <2>6. ASSUME NEW k \in DOMAIN records, NEW t \in Tables, rows[records[k]].to[t] # None
        PROVE  \E j \in 1 .. k - 1 : records[j] = rows[records[k]].to[t]
    <3>1. PICK j \in 1 .. k - 1 : old[j] = rows[old[k]].to[t]
      BY <1>5, <2>1, <2>6
    <3>2. j \in DOMAIN records
      BY <1>5
    <3> QED BY <1>5, <3>1, <3>2
  <2>7. \E x \in Nat : RowsOf(run) \ (ToSet(records) \cup deleted) \subseteq {x}
    BY <1>5, <2>1, <2>4
  <2>8. meddled = 0 => \A k \in DOMAIN records : k < Len(records) => records[k] \notin deleted
    BY <1>5, <2>1
  <2>9. ToSet(records) \subseteq RowsOf(run)
    BY <1>5, <2>1
  <2> QED BY <2>3, <2>5, <2>6, <2>7, <2>8, <2>9
<1>9. \A r \in Run : RunInv(r)'
  <2>1. deleted \subseteq deleted' /\ deleted' \ deleted \subseteq RowsOf(run)
    BY <1>1
  <2> QED BY <1>1, <1>6, <1>8, <2>1, OneRun
<1>10. seed' \in SeedCommand
  BY <1>1, <1>2 DEF SeedCommand
<1>11. /\ seed'.op = "cleanup" /\ seed'.pc = "delete" /\ seed'.run = run
       /\ seed'.records = records
  BY <1>1, <1>2, <1>3 DEF SeedCommand
<1>12. SeedTypes'
  BY <1>1, <1>6, <1>10 DEF SeedTypes
<1> HIDE DEF records
<1>13. CleanupInv' /\ ApplyInv' /\ (seed'.op = "none" <=> seed'.pc = "idle") /\ deleted' \subseteq DOMAIN rows'
  BY <1>1, <1>6, <1>11 DEF CleanupInv, ApplyInv, TrackingInv
<1> QED BY <1>7, <1>9, <1>12, <1>13 DEF IInv, TrackingInv

\* A file that lists nothing is removed.
LEMMA RemoveRunKeeps ==
  ASSUME IInv, RemoveRun
  PROVE  IInv'
<1>1. /\ DataInv /\ SeedTypes /\ TrackingInv /\ rows \in Seq(TargetRow) /\ EndSeed
      /\ UNCHANGED <<source, schema, dir, rows, cmd, count, deleted, meddled>>
      /\ seed.pc = "delete" /\ seed.records = <<>>
      /\ runs' = [runs EXCEPT ![seed.run] = NoRun]
  BY DEF IInv, DataInv, DatasetTypeOK, dataVars, RemoveRun
<1>2. seed.run \in Run /\ runs[seed.run].records = <<>>
  BY <1>1, CleanupRuns DEF TrackingInv, CleanupInv
<1>3. /\ seed' \in SeedCommand /\ seed'.pc = "idle"
      /\ (seed'.op = "none" <=> seed'.pc = "idle") /\ ApplyInv' /\ CleanupInv'
  BY <1>1, SeedEnds
<1>4. DataInv'
  BY <1>1, <1>3, SeedKeepsData
<1> DEFINE entries == [exists : BOOLEAN, records : Seq(1 .. MaxRows)]
<1>5. NoRun \in entries /\ NoRun.records = <<>>
  BY DEF NoRun
<1>6. runs \in [Run -> entries]
  BY <1>1 DEF SeedTypes
<1> HIDE DEF entries
<1>7. runs' \in [Run -> entries] /\ \A r \in Run : runs'[r].records = runs[r].records
  BY <1>1, <1>2, <1>5, <1>6
<1>8. SeedTypes'
  BY <1>1, <1>3, <1>7 DEF SeedTypes, entries
<1>9. ASSUME NEW r \in Run
      PROVE  RunInv(r)'
  <2>1. RunInv(r) /\ runs'[r].records = runs[r].records
    BY <1>1, <1>7 DEF TrackingInv
  <2>2. deleted \subseteq deleted' /\ \A i \in deleted' \ deleted : i \notin RowsOf(r)
    BY <1>1
  <2> QED BY <1>1, <2>1, <2>2, RunKept
<1> QED BY <1>1, <1>3, <1>4, <1>8, <1>9 DEF IInv, TrackingInv

----------------------------------------------------------------------------
(* The theorems.                                                           *)

\* At first nothing is exported, imported or tracked.
LEMMA InitHolds ==
  ASSUME Init
  PROVE  IInv
<1>1. /\ source \in Sources /\ cmd = NoCommand /\ rows = <<>>
      /\ dir = [manifest |-> NoManifest, files |-> [t \in Tables |-> NoFile], flat |-> NoFile]
      /\ count = [commands |-> 0, changes |-> 0]
      /\ seed = NoSeed /\ runs = [r \in Run |-> NoRun] /\ deleted = {} /\ meddled = 0
  BY DEF Init, DataInit
<1>2. NoFile \in DataFile /\ NoManifest \in Manifest /\ NoCommand \in Command
  BY BoundAssumption, NoCommandIs DEF NoFile, NoManifest, DataFile, Manifest, FileState
<1>3. /\ NoCommand.op = "none" /\ NoCommand.pc = "idle" /\ NoCommand.ids = {} /\ NoCommand.first = 1
      /\ NoCommand.outcome = "none"
  BY DEF NoCommand
<1>4. dir \in Directory
  BY <1>1, <1>2 DEF Directory
<1>5. /\ dir.manifest.state = "absent" /\ dir.flat.state = "absent"
      /\ \A t \in Tables : dir.files[t].by = 0 /\ dir.files[t].records = <<>>
  BY <1>1 DEF NoFile, NoManifest
<1>6. rows \in Seq(TargetRow) /\ Len(rows) = 0 /\ DOMAIN rows = {} /\ ToSet(<<>>) = {}
  BY <1>1 DEF ToSet
<1>7. DatasetTypeOK
  <2>1. source \in [Ids -> SourceRecord] /\ count \in Count
    BY <1>1, InputAssumption, BoundAssumption DEF Count
  <2> QED BY <1>1, <1>2, <1>4, <1>6, <2>1, BoundAssumption DEF DatasetTypeOK
<1>8. CommandInv
  BY <1>1, <1>3, <1>5 DEF CommandInv
<1>9. PackageInv
  <2>1. \A a, b \in Tables : Linked(a, b)
    BY <1>5, <1>6 DEF Linked
  <2>2. cmd.pc = "idle" /\ count.commands = 0
    BY <1>1, <1>3
  <2>3. \A t \in Tables : dir.files[t].by <= count.commands
    <3>1. 0 <= 0
      OBVIOUS
    <3>2. \A t \in Tables : dir.files[t].by = 0
      BY <1>5
    <3> QED BY <2>2, <3>1, <3>2
  <2>4. cmd.pc # "fetch" /\ cmd.pc # "write"
    BY <2>2
  <2> QED BY <2>1, <2>3, <2>4 DEF PackageInv
<1>10. RememberedInv /\ ReferencesFaithful /\ ReportInv /\ CountInv
  BY <1>1, <1>3, <1>6 DEF RememberedInv, ReferencesFaithful, ReportInv, CountInv, Counting
<1>11. SeedTypes
  <2>1. NoSeed \in SeedCommand
    BY SeedAssumption, BoundAssumption, NoCommandIs DEF NoSeed, SeedCommand
  <2>2. NoRun \in [exists : BOOLEAN, records : Seq(1 .. MaxRows)]
    BY DEF NoRun
  <2> QED BY <1>1, <2>1, <2>2, SeedAssumption DEF SeedTypes
<1>12. ASSUME NEW run \in Run
       PROVE  RunInv(run)
  <2>1. RowsOf(run) = {} /\ runs[run].records = <<>>
    BY <1>1, <1>6 DEF RowsOf, NoRun
  <2>2. 0 \in Nat /\ RowsOf(run) \ (ToSet(<<>>) \cup deleted) \subseteq {0} /\ DOMAIN <<>> = {}
    BY <2>1
  <2> QED BY <1>6, <2>1, <2>2 DEF RunInv
<1>13. ApplyInv /\ CleanupInv /\ (seed.op = "none" <=> seed.pc = "idle") /\ deleted \subseteq DOMAIN rows
  BY <1>1 DEF ApplyInv, CleanupInv, NoSeed
<1> QED BY <1>7, <1>8, <1>9, <1>10, <1>11, <1>12, <1>13 DEF IInv, DataInv, TrackingInv

\* Every step keeps the invariant.
LEMMA StepKeeps ==
  ASSUME IInv, [Next]_vars
  PROVE  IInv'
<1>1. CASE seed.pc = "idle" /\ DataNext /\ UNCHANGED seedVars
  BY <1>1, DataKeepsInv, DataKeepsTracking DEF IInv
<1>2. CASE BeginApply
  BY <1>2, BeginApplyKeeps
<1>3. CASE SeedCreated
  BY <1>3, SeedCreatedKeeps
<1>4. CASE SeedLost
  BY <1>4, SeedLostKeeps
<1>5. CASE SeedTracked
  BY <1>5, SeedTrackedKeeps
<1>6. CASE EndApply \/ SeedFails
  <2>1. seed.pc # "idle" /\ EndSeed /\ UNCHANGED <<dataVars, runs, deleted, meddled>>
    BY <1>6 DEF EndApply, SeedFails
  <2> QED BY <2>1, SeedEndsKeeps
<1>7. CASE BeginCleanup
  BY <1>7, BeginCleanupKeeps
<1>8. CASE RecordDeleted
  BY <1>8, RecordDeletedKeeps
<1>9. CASE DeleteLost
  BY <1>9, DeleteLostKeeps
<1>10. CASE Untracked
  BY <1>10, UntrackedKeeps
<1>11. CASE RemoveRun
  BY <1>11, RemoveRunKeeps
<1>12. CASE OthersDelete
  BY <1>12, OthersDeleteKeeps
<1>13. CASE UNCHANGED vars
  <2>1. UNCHANGED <<source, schema, dir, rows, cmd, count, seed, runs, deleted, meddled>>
    BY <1>13 DEF vars, dataVars, seedVars
  <2>2. DataInv'
    BY <2>1, SeedKeepsData DEF IInv
  <2>3. SeedTypes'
    BY <2>1 DEF IInv, SeedTypes
  <2>4. rows \in Seq(TargetRow) /\ \A run \in Run : RunInv(run)
    BY DEF IInv, DataInv, DatasetTypeOK, TrackingInv
  <2>5. ASSUME NEW run \in Run
        PROVE  RunInv(run)'
    BY <2>1, <2>4, RunKept
  <2>6. ApplyInv' /\ CleanupInv' /\ (seed'.op = "none" <=> seed'.pc = "idle") /\ deleted' \subseteq DOMAIN rows'
    BY <2>1 DEF IInv, TrackingInv, ApplyInv, CleanupInv, RowsOf
  <2> QED BY <2>2, <2>3, <2>5, <2>6 DEF IInv, TrackingInv
<1> QED BY <1>1, <1>2, <1>3, <1>4, <1>5, <1>6, <1>7, <1>8, <1>9, <1>10, <1>11, <1>12, <1>13
        DEF Next, ApplyStep, CleanupStep

\* What the files say of the rows follows from the order in which they list them.
LEMMA SoundTracking ==
  ASSUME TrackingInv, SeedTypes
  PROVE  TrackingSound
<1> SUFFICES ASSUME NEW run \in Run
             PROVE  /\ Cardinality(Live(run) \ Tracked(run)) <= 1
                    /\ meddled = 0 =>
                         /\ Cardinality(Tracked(run) \ Live(run)) <= 1
                         /\ \A i \in Tracked(run) \cap Live(run), t \in Tables :
                              rows[i].to[t] # None => rows[i].to[t] \notin deleted
  BY DEF TrackingSound
<1> DEFINE records == runs[run].records
<1>1. RunInv(run)
  BY DEF TrackingInv
<1>2. /\ Len(records) \in Nat /\ DOMAIN records = 1 .. Len(records)
      /\ Tracked(run) = {records[k] : k \in DOMAIN records}
  <2>1. records \in Seq(1 .. MaxRows)
    BY SeedIs
  <2> HIDE DEF records
  <2>2. /\ Len(records) \in Nat /\ DOMAIN records = 1 .. Len(records)
        /\ ToSet(records) = {records[k] : k \in DOMAIN records}
    BY <2>1, Elements
  <2> QED BY <2>2 DEF Tracked, records
<1>3. Live(run) = RowsOf(run) \ deleted
  BY DEF Live, RowsOf
<1>4. /\ Tracked(run) \subseteq RowsOf(run)
      /\ \A k \in DOMAIN records, t \in Tables :
           rows[records[k]].to[t] # None => \E j \in 1 .. k - 1 : records[j] = rows[records[k]].to[t]
      /\ \E x \in Nat : RowsOf(run) \ (Tracked(run) \cup deleted) \subseteq {x}
      /\ meddled = 0 => \A k \in DOMAIN records : k < Len(records) => records[k] \notin deleted
  BY <1>1 DEF RunInv, Tracked
<1>5. Cardinality(Live(run) \ Tracked(run)) <= 1
  <2>1. PICK x \in Nat : RowsOf(run) \ (Tracked(run) \cup deleted) \subseteq {x}
    BY <1>4
  <2>2. Live(run) \ Tracked(run) \subseteq {x}
    BY <1>3, <2>1
  <2> QED BY <2>2, AtMostOne
<1> HIDE DEF records
<1>6. ASSUME meddled = 0
      PROVE  Cardinality(Tracked(run) \ Live(run)) <= 1
  <2>1. ASSUME NEW i \in Tracked(run), i \notin Live(run)
        PROVE  i = records[Len(records)]
    <3>1. PICK k \in DOMAIN records : i = records[k]
      BY <1>2
    <3>2. i \in deleted
      BY <1>3, <1>4, <2>1
    <3>3. ~(k < Len(records))
      BY <1>4, <1>6, <3>1, <3>2
    <3>4. k = Len(records)
      BY <1>2, <3>3
    <3> QED BY <3>1, <3>4
  <2>2. Tracked(run) \ Live(run) \subseteq {records[Len(records)]}
    BY <2>1
  <2> QED BY <2>2, AtMostOne
<1>7. ASSUME meddled = 0, NEW i \in Tracked(run) \cap Live(run), NEW t \in Tables, rows[i].to[t] # None
      PROVE  rows[i].to[t] \notin deleted
  <2>1. PICK k \in DOMAIN records : i = records[k]
    BY <1>2
  <2>2. PICK j \in 1 .. k - 1 : records[j] = rows[i].to[t]
    BY <1>4, <1>7, <2>1
  <2>3. j \in DOMAIN records /\ j < Len(records)
    BY <1>2
  <2> QED BY <1>4, <1>7, <2>2, <2>3
<1> QED BY <1>5, <1>6, <1>7

\* Every step of a data command or a seed run keeps what the next one needs.
THEOREM Inductive == Spec => []IInv
<1>1. Init => IInv
  BY InitHolds
<1>2. IInv /\ [Next]_vars => IInv'
  BY StepKeeps
<1> QED BY <1>1, <1>2, PTL DEF Spec

\* The variables keep their types: no step of export, import, apply or cleanup
\* asks for an order, a table, a record or a target that is not there.
THEOREM TypesHold == Spec => []TypeOK
<1>1. IInv => TypeOK
  BY DEF IInv, DataInv, SeedTypes, TypeOK
<1> QED BY <1>1, Inductive, PTL

\* remap_reference_fields: a reference that an import wrote leads to the row of
\* the record it led to on the source instance, for every set of tables and records.
THEOREM ReferencesHold == Spec => []ReferencesFaithful
<1>1. IInv => ReferencesFaithful
  BY DEF IInv, DataInv
<1> QED BY <1>1, Inductive, PTL

\* handle_import_flat, handle_import_package: a report counts every record of the
\* file or package once, and its counts bound the rows that records posted to their
\* table have made, whichever requests failed; what was refused or only validated
\* has made none.  Of an Import Set it only says the first: an accepted row need
\* not have become a record (RowAccepted).
THEOREM ReportsHold == Spec => []ReportHonest
<1>1. IInv => ReportHonest
  BY HonestReport DEF IInv, DataInv
<1> QED BY <1>1, Inductive, PTL

\* apply_seed, cleanup_seed: the tracking file of a run and the instance agree but
\* for one record, wherever the two were cut.
THEOREM TrackingHolds == Spec => []TrackingSound
<1>1. IInv => TrackingSound
  BY SoundTracking DEF IInv
<1> QED BY <1>1, Inductive, PTL
=============================================================================
