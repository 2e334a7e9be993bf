---------------------------- MODULE TextField ----------------------------
(***************************************************************************)
(* What the line editor of super.c promises while one line is edited: a    *)
(* text, a cursor between two of its characters, and operations that       *)
(* replace a stretch of the text or move the cursor.  There is no array,   *)
(* no terminator and no screen here; LineBuffer has them and is checked to *)
(* implement this specification.  LineEditor is built on these actions.    *)
(*                                                                         *)
(* Gap p is the place after the first p characters: gap 0 is the left      *)
(* edge, gap Len(text) the right edge.                                     *)
(***************************************************************************)
EXTENDS Integers, Sequences

CONSTANTS
  LineMax,  \* JANET_LINE_MAX: a line holds at most LineMax - 1 characters
  Char,     \* the characters that can be in a line
  Space,    \* those isspace() accepts
  Blank,    \* ' ', which Tab inserts twice when there is nothing to complete from
  Symbol,   \* those is_symbol_char_gen() accepts
  Words,    \* the texts completion may insert
  Recall    \* the texts the history may bring back, no longer than that

VARIABLES
  text,     \* the line being edited
  pos       \* the gap the cursor is in

vars == <<text, pos>>

TypeOK ==
  /\ text \in Seq(Char)
  /\ Len(text) <= LineMax - 1
  /\ pos \in 0 .. Len(text)

Init ==
  /\ text = <<>>
  /\ pos = 0

-----------------------------------------------------------------------------
(* Stretches of the text. *)

(* Every character between gaps p and q is in S. *)
Run(S, p, q) == \A i \in p + 1 .. q : text[i] \in S

(* p is where the cursor stops when it moves left from q over S. *)
LeftOver(S, p, q) == p <= q /\ Run(S, p, q) /\ (p > 0 => text[p] \notin S)

(* q is where the cursor stops when it moves right from p over S. *)
RightOver(S, p, q) ==
  p <= q /\ Run(S, p, q) /\ (q < Len(text) => text[q + 1] \notin S)

Word == Char \ Space

(* The start of the word left of the cursor, for Alt-b and Ctrl-w. *)
WordLeft(p) == \E m \in 0 .. pos : LeftOver(Space, m, pos) /\ LeftOver(Word, p, m)

(* Alt-f stops before the next word, Alt-d deletes up to the end of it. *)
NextWord(q) ==
  \E m \in pos .. Len(text) : RightOver(Word, pos, m) /\ RightOver(Space, m, q)
WordEnd(q) ==
  \E m \in pos .. Len(text) : RightOver(Space, pos, m) /\ RightOver(Word, m, q)

-----------------------------------------------------------------------------
(* Editing. *)

(* The text with what is between gaps p and q replaced by w. *)
Splice(p, q, w) == SubSeq(text, 1, p) \o w \o SubSeq(text, q + 1, Len(text))

(* Characters that do not fit are dropped, one by one, from the right. *)
InsertAt(p, w) ==
  \E n \in 0 .. Len(w) :
    /\ n = Len(w) \/ Len(text) + n = LineMax - 1
    /\ Len(text) + n <= LineMax - 1
    /\ text' = Splice(p, p, SubSeq(w, 1, n))
    /\ pos' = p + n

Erase(p, q) ==
  /\ text' = Splice(p, q, <<>>)
  /\ pos' = p

MoveTo(p) ==
  /\ pos' = p
  /\ UNCHANGED text

Insert(c)      == InsertAt(pos, <<c>>)
DoubleBlank    == InsertAt(pos, <<Blank, Blank>>)
Backspace      == pos > 0 /\ Erase(pos - 1, pos)
Delete         == pos < Len(text) /\ Erase(pos, pos + 1)
BackspaceWord  == \E p \in 0 .. pos : WordLeft(p) /\ Erase(p, pos)
DeleteWord     == \E q \in pos .. Len(text) : WordEnd(q) /\ Erase(pos, q)
KillToEnd      == Erase(pos, Len(text))
KillToStart    == Erase(0, pos)
Left           == pos > 0 /\ MoveTo(pos - 1)
Right          == pos < Len(text) /\ MoveTo(pos + 1)
LeftWord       == \E p \in 0 .. pos : WordLeft(p) /\ MoveTo(p)
RightWord      == \E q \in pos .. Len(text) : NextWord(q) /\ MoveTo(q)
Home           == MoveTo(0)
End            == MoveTo(Len(text))

(* Completion first takes the cursor to the end of the symbol it is in. *)
Complete(w) ==
  \E p \in pos .. Len(text) :
    /\ RightOver(Symbol, pos, p)
    /\ p > 0 /\ text[p] \in Symbol
    /\ InsertAt(p, w)

(* Load(<<>>) is also how a new line starts. *)
Load(t) ==
  /\ text' = t
  /\ pos' = Len(t)

Next ==
  \/ \E c \in Char : Insert(c)
  \/ DoubleBlank
  \/ \E w \in Words : Complete(w)
  \/ \E t \in Recall \cup {<<>>} : Load(t)
  \/ Backspace \/ Delete \/ BackspaceWord \/ DeleteWord
  \/ KillToEnd \/ KillToStart
  \/ Left \/ Right \/ LeftWord \/ RightWord \/ Home \/ End

Spec == Init /\ [][Next]_vars
=============================================================================
