------------------------------- MODULE MCCommands -------------------------------
(* One process at a time.  A page has two rows; up to four rows match, one of *)
(* them may be hidden, and totals are sent or not.                            *)
EXTENDS Commands

SmallAnswers ==
  [rows : {<<>>, <<1, 2>>, <<1, 2, 3>>, <<1, 2, 3, 4>>}, hidden : {{}, {2}}, counted : BOOLEAN]
SmallQueries == [limit : {Unlimited, 2, 3}, offset : {0, 1}]
\* What is left of an answer is what a filter of the sequence leaves.
ASSUME VisibleFilters ==
  \A rows \in UNION {[1 .. n -> 1 .. 3] : n \in 0 .. 4}, hidden \in SUBSET (1 .. 3) :
    Visible(rows, hidden) = SelectSeq(rows, LAMBDA r : r \notin hidden)
OneThenTwo == <<1, 2>>
================================================================================
