--------------------------- MODULE InputHistory ---------------------------
(***************************************************************************)
(* What the line editor promises about its history: the most recent lines, *)
(* newest first, with the line being edited at the head while it is being  *)
(* edited.  Moving through the history writes the current line back to the *)
(* entry it came from, so an edit of an old entry stays.                   *)
(*                                                                         *)
(* LineHistory, the pointer array of super.c, is checked to implement this *)
(* specification, and LineEditor is built on its actions.                  *)
(***************************************************************************)
EXTENDS Integers, Sequences

CONSTANTS
  HistoryMax,  \* JANET_HISTORY_MAX, at least 2
  Lines,       \* the lines that can be edited
  Empty        \* the empty one

VARIABLES
  entries,  \* the lines, entries[1] the newest
  at,       \* the entry the edited line came from, counted from 0
  line,     \* the line being edited
  open      \* a line is being edited

vars == <<entries, at, line, open>>

TypeOK ==
  /\ entries \in Seq(Lines) /\ Len(entries) <= HistoryMax
  /\ at \in Nat
  /\ line \in Lines
  /\ open \in BOOLEAN

Init ==
  /\ entries = <<>>
  /\ at = 0
  /\ line = Empty
  /\ open = FALSE

Lesser(x, y)  == IF x < y THEN x ELSE y
Greater(x, y) == IF x < y THEN y ELSE x

(* A new line goes to the head; at the limit the oldest entry goes. *)
Start ==
  /\ ~open /\ open' = TRUE
  /\ entries' = SubSeq(<<Empty>> \o entries, 1, Lesser(Len(entries) + 1, HistoryMax))
  /\ at' = 0
  /\ line' = Empty

(* A line read without the editor only forgets the place. *)
Forget ==
  /\ ~open
  /\ at' = 0
  /\ UNCHANGED <<entries, line, open>>

Edit(t) ==
  /\ open
  /\ line' = t
  /\ UNCHANGED <<entries, at, open>>

Move(delta) ==
  /\ open /\ Len(entries) > 1
  /\ entries' = [entries EXCEPT ![at + 1] = line]
  /\ at' = Greater(0, Lesser(at + delta, Len(entries) - 1))
  /\ line' = entries'[at' + 1]
  /\ UNCHANGED open

(* An empty line, or one that repeats the entry below, is not kept. *)
Accept ==
  /\ open /\ open' = FALSE
  /\ entries' =
       IF line = Empty \/ (Len(entries) > 1 /\ line = entries[2])
       THEN Tail(entries)
       ELSE [entries EXCEPT ![1] = line]
  /\ UNCHANGED <<at, line>>

(* A line given up leaves at the head what was last written back there. *)
GiveUp ==
  /\ open /\ open' = FALSE
  /\ UNCHANGED <<entries, at, line>>

Next ==
  \/ Start \/ Forget
  \/ \E t \in Lines : Edit(t)
  \/ \E delta \in {-HistoryMax, -1, 1, HistoryMax} : Move(delta)
  \/ Accept
  \/ GiveUp

Spec == Init /\ [][Next]_vars
=============================================================================
