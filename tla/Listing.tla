-------------------------------- MODULE Listing --------------------------------
(***************************************************************************)
(* Reading more rows than one response holds: the page loop of              *)
(* src/client/table.rs and the scope inventory of                           *)
(* src/cli/commands/scope/inventory.rs, which sends one query per table, or *)
(* several for a table whose query would be too long, under one row limit   *)
(* per table.  Rows are numbers; others add and delete rows between pages,  *)
(* and ServiceNow leaves out of a page, but not out of X-Total-Count, the   *)
(* rows that access control hides.                                          *)
(***************************************************************************)
EXTENDS Integers, Sequences, SequencesExt

CONSTANTS
  Row,        \* rows that may match a query: numbers
  Answers,    \* what a query may find: [rows, hidden, counted]
  Queries,    \* limits and offsets of a listing: [limit, offset]
  Limits,     \* limits of an inventory
  Chunks,     \* queries per source table of an inventory, in order
  PageSize,   \* PaginationConfig::page_size
  MaxChanges  \* bound: rows added or deleted while a listing runs

Unlimited == -1
Unknown == -1
ASSUME RowAssumption == Row \subseteq Nat
ASSUME PageAssumption == PageSize \in Nat \ {0}
ASSUME ChunkAssumption == Chunks \in Seq(Nat \ {0})
ASSUME LimitAssumption ==
  /\ \A q \in Queries : q.limit \in Nat \cup {Unlimited} /\ q.offset \in Nat
  /\ Limits \subseteq Nat /\ MaxChanges \in Nat

VARIABLES
  found,  \* the rows that match the query, those hidden, whether totals are sent
  read,   \* the listing
  scan,   \* the inventory
  changes \* what others did during the listing (history): [added, deleted]

listVars == <<found, read, scan, changes>>

Nothing == [rows |-> <<>>, hidden |-> {}, counted |-> TRUE]
NoChanges == [added |-> 0, deleted |-> 0]
NoRead == [pc |-> "idle", limit |-> Unlimited, start |-> 0, offset |-> 0, records |-> <<>>,
           total |-> Unknown, more |-> FALSE, seen |-> {}]
NoScan == [pc |-> "idle", mode |-> "none", limit |-> Unlimited, groups |-> <<>>, got |-> 0,
           warned |-> FALSE, skipped |-> FALSE]

Answer == [rows : Seq(Row), hidden : SUBSET Row, counted : BOOLEAN]
Read == [pc : {"idle", "page", "done", "failed"}, limit : Nat \cup {Unlimited}, start : Nat, offset : Nat,
         records : Seq(Row), total : Nat \cup {Unknown}, more : BOOLEAN, seen : SUBSET Row]
Scan == [pc : {"idle", "next", "reading", "done"}, mode : {"none", "count", "enumerate"},
         limit : Nat \cup {Unlimited}, groups : Seq(Nat \ {0}), got : Nat, warned : BOOLEAN,
         skipped : BOOLEAN]
ListTypeOK ==
  /\ found \in Answer /\ read \in Read /\ scan \in Scan
  /\ changes \in [added : 0 .. MaxChanges, deleted : 0 .. MaxChanges]

\* A query finds a row once.
ASSUME AnswerAssumption == Answers \subseteq {a \in Answer : IsInjective(a.rows)}

ListInit == found = Nothing /\ read = NoRead /\ scan = NoScan /\ changes = NoChanges

----------------------------------------------------------------------------
(* One listing                                                             *)

Smaller(a, b) == IF a < b THEN a ELSE b

\* Start a listing of whatever the query finds on this instance.
Ask(limit, offset) ==
  /\ found' \in Answers
  /\ read' = [NoRead EXCEPT !.pc = "page", !.limit = limit, !.start = offset, !.offset = offset]
  /\ changes' = NoChanges

RequestSize ==
  IF read.limit = Unlimited THEN PageSize
  ELSE Smaller(PageSize, read.limit - Len(read.records))

\* The rows that are not hidden, in their order.
Visible(rows, hidden) ==
  LET kept == {i \in DOMAIN rows : rows[i] \notin hidden}
      place(i) == Cardinality({j \in kept : j <= i})
  IN  [k \in 1 .. Cardinality(kept) |-> rows[CHOOSE i \in kept : place(i) = k]]
Slice == SubSeq(found.rows, read.offset + 1, Smaller(Len(found.rows), read.offset + RequestSize))
Answered == Visible(Slice, found.hidden)
BadTotalOf == IF found.counted THEN Len(found.rows) ELSE Unknown
TotalOf ==
  IF read.total # Unknown THEN read.total
  ELSE IF found.counted THEN Len(found.rows) ELSE Unknown

\* The loop ends at the limit, with a short page, or goes on at the next offset.
Page ==
  /\ read.pc = "page"
  /\ LET all == read.records \o Answered
         limited == read.limit # Unlimited /\ Len(all) >= read.limit
         first == read.offset = read.start
     IN  read' = [read EXCEPT
           !.pc = IF limited \/ Len(Answered) < RequestSize THEN "done" ELSE "page",
           !.records = IF limited THEN SubSeq(all, 1, read.limit) ELSE all,
           !.more = limited /\ (Len(all) > read.limit \/ Len(Answered) = RequestSize),
           !.offset = IF limited \/ Len(Answered) < RequestSize THEN @ ELSE @ + RequestSize,
           !.total = TotalOf,
           !.seen = IF first THEN ToSet(SubSeq(found.rows, read.start + 1, Len(found.rows))) ELSE @]
  /\ UNCHANGED <<found, scan, changes>>

PageFails ==
  /\ read.pc = "page"
  /\ read' = [read EXCEPT !.pc = "failed"]
  /\ UNCHANGED <<found, scan, changes>>

\* TableListResult::truncated
Truncated ==
  IF read.total # Unknown
  THEN read.records # <<>> /\ read.start + Len(read.records) < read.total
  ELSE read.more

\* Every row that matched from the offset on at the first page, is visible
\* and still matches, was read.
Complete == \A r \in read.seen \cap ToSet(found.rows) : r \in found.hidden \/ r \in ToSet(read.records)

OthersDelete ==
  /\ read.pc = "page" /\ changes.added + changes.deleted < MaxChanges
  /\ \E i \in DOMAIN found.rows : found' = [found EXCEPT !.rows = RemoveAt(@, i)]
  /\ changes' = [changes EXCEPT !.deleted = @ + 1]
  /\ UNCHANGED <<read, scan>>

\* A query without an order may find a new row anywhere.
OthersAdd ==
  /\ read.pc = "page" /\ changes.added + changes.deleted < MaxChanges
  /\ \E r \in Row \ (read.seen \cup ToSet(found.rows) \cup found.hidden), i \in 1 .. Len(found.rows) + 1 :
       /\ \A q \in Row : q < r => q \in read.seen \cup ToSet(found.rows) \cup found.hidden
       /\ found' = [found EXCEPT !.rows = InsertAt(@, i, r)]
  /\ changes' = [changes EXCEPT !.added = @ + 1]
  /\ UNCHANGED <<read, scan>>

----------------------------------------------------------------------------
(* Scope inspect and inventory                                             *)

\* A count is a listing of one row whose records are not looked at.
BeginScan(mode) ==
  /\ \E limit \in Limits :
       scan' = [NoScan EXCEPT !.pc = "next", !.mode = mode, !.groups = Chunks,
                              !.limit = IF mode = "count" THEN 1 ELSE limit]
  /\ UNCHANGED <<found, read, changes>>

\* The dictionary and the choices of a platform scope are not counted.
SkipPlatformTables ==
  /\ scan.pc = "next" /\ scan.mode = "count" /\ Len(scan.groups) < Len(Chunks) /\ scan.groups # <<>>
  /\ scan' = [scan EXCEPT !.groups = <<>>, !.warned = TRUE]
  /\ UNCHANGED <<found, read, changes>>

\* remaining_budget
Remaining == IF scan.mode = "count" THEN 1 ELSE scan.limit - scan.got

ScanQuery ==
  /\ scan.pc = "next" /\ scan.groups # <<>> /\ Remaining > 0
  /\ Ask(Remaining, 0)
  /\ scan' = [scan EXCEPT !.pc = "reading"]

BadNextQuery(state) ==
  [state EXCEPT !.pc = "next", !.groups = <<Head(@) - 1>> \o Tail(@)]
NextQuery(state) ==
  LET left == Head(state.groups) - 1
  IN  [state EXCEPT !.pc = "next",
                    !.groups = IF left = 0 THEN Tail(@) ELSE <<left>> \o Tail(@),
                    !.got = IF left = 0 THEN 0 ELSE @]

Forget == found' = Nothing /\ read' = NoRead /\ changes' = NoChanges

ScanTake ==
  /\ scan.pc = "reading" /\ read.pc = "done"
  /\ LET counting == scan.mode = "count"
         short == IF counting THEN read.total = Unknown ELSE Truncated
     IN  scan' = NextQuery([scan EXCEPT !.got = @ + Len(read.records), !.warned = @ \/ short])
  /\ Forget

\* Artifact rows without sys_scope, or of another scope, are dropped with a
\* warning; dictionary and choice rows are not looked at.
ScanFilter ==
  /\ scan.pc = "reading" /\ read.pc = "done" /\ scan.mode = "enumerate" /\ read.records # <<>>
  /\ Chunks[Len(Chunks) - Len(scan.groups) + 1] = 1
  /\ scan' = NextQuery([scan EXCEPT !.warned = TRUE])
  /\ Forget

ScanWarns ==
  /\ scan.pc = "reading" /\ read.pc = "failed"
  /\ scan' = NextQuery([scan EXCEPT !.warned = TRUE])
  /\ Forget

\* No budget is left for the other queries of this table; skipped remembers
\* whether one of them would have found a row (history).
ScanCapped ==
  /\ scan.pc = "next" /\ scan.groups # <<>> /\ Remaining <= 0
  /\ \E answer \in Answers :
       scan' = [scan EXCEPT !.groups = Tail(@), !.got = 0, !.skipped = @ \/ answer.rows # <<>>]
  /\ UNCHANGED <<found, read, changes>>

ScanEnds ==
  /\ scan.pc = "next" /\ scan.groups = <<>>
  /\ scan' = [scan EXCEPT !.pc = "done"]
  /\ UNCHANGED <<found, read, changes>>

ListNext ==
  \/ Page \/ PageFails \/ OthersDelete \/ OthersAdd
  \/ SkipPlatformTables \/ ScanQuery \/ ScanTake \/ ScanFilter \/ ScanWarns \/ ScanCapped \/ ScanEnds

----------------------------------------------------------------------------
(* Properties                                                              *)

\* A listing that does not say that it is truncated has every row that matched
\* when it began and still matches, as long as nobody added rows; where the
\* instance sends no totals, as long as nobody deleted rows or hides some.
ListingHonest ==
  read.pc = "done" /\ ~Truncated /\ changes.added = 0
  /\ (IF read.total # Unknown THEN read.records # <<>>
                             ELSE changes.deleted = 0 /\ found.hidden = {})
    => Complete

\* scope.md: "Tables truncated at the cap are listed in `warnings`."
SkippedTablesWarned == scan.pc = "done" /\ scan.skipped => scan.warned
=============================================================================
