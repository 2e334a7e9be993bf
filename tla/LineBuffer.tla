---------------------------- MODULE LineBuffer ----------------------------
(***************************************************************************)
(* The line editor's buffer as super.c keeps it: the array gbl_buf with    *)
(* its terminating NUL, the two counters gbl_len and gbl_pos, and the      *)
(* terminal row that refresh() and insert() paint.  One action per key     *)
(* handler; every handler runs to its end before the next key is read.     *)
(*                                                                         *)
(* The actions move memory the way the code does, so an array cell beyond  *)
(* the terminator keeps whatever an earlier edit left there.               *)
(***************************************************************************)
EXTENDS Integers, Sequences

CONSTANTS
  LineMax,  \* JANET_LINE_MAX: cells of gbl_buf
  Char,     \* the characters line() lets in
  Space,    \* those isspace() accepts
  Blank,    \* ' '
  Symbol,   \* those is_symbol_char_gen() accepts
  Words,    \* what longest_common_prefix() may add to the typed prefix
  Recall,   \* what a history slot may hold
  NUL,      \* the terminator
  Prompts,  \* lengths the prompt may have
  Widths,   \* widths getcols() may find
  Wild      \* a row painted from a negative byte count

ASSUME BufferAssumption ==
  /\ LineMax \in Nat /\ LineMax >= 2
  /\ Blank \in Space /\ Space \subseteq Char /\ Symbol \subseteq Char
  /\ NUL \notin Char
  /\ Words \subseteq Seq(Char)
  /\ Recall \subseteq Seq(Char)
  /\ \A t \in Recall : Len(t) <= LineMax - 1
  /\ Prompts \subseteq Nat /\ Widths \subseteq Nat \ {0}
  /\ Wild \notin Seq(Char \cup {NUL})

VARIABLES
  buf, len, pos,  \* gbl_buf, gbl_len, gbl_pos
  plen, cols,     \* gbl_plen, gbl_cols, read when a line starts
  row,            \* the characters on screen to the right of the prompt
  col             \* the column the terminal's cursor is in, from 0

geometry == <<plen, cols>>
vars == <<buf, len, pos, plen, cols, row, col>>

Index == 0 .. LineMax - 1
Cell  == Char \cup {NUL}

BufferOK ==
  /\ buf \in [Index -> Cell]
  /\ len \in Index
  /\ pos \in 0 .. len

ScreenOK ==
  /\ plen \in Prompts /\ cols \in Widths
  /\ row = Wild \/ row \in Seq(Cell)
  /\ col \in Int

TypeOK == BufferOK /\ ScreenOK

Smaller(x, y) == IF x < y THEN x ELSE y

-----------------------------------------------------------------------------
(* The C library on an array b. *)

memmove(b, dst, src, n) ==
  [i \in DOMAIN b |-> IF i \in dst .. dst + n - 1 THEN b[i - dst + src] ELSE b[i]]

store(b, at, w) ==
  [i \in DOMAIN b |-> IF i \in at .. at + Len(w) - 1 THEN w[i - at + 1] ELSE b[i]]

Nuls(n) == [i \in 1 .. n |-> NUL]

(* strncpy pads what t leaves of the n cells with NUL, and adds none when t *)
(* fills them.                                                              *)
strncpy(b, t, n) ==
  [i \in DOMAIN b |-> IF i >= n THEN b[i] ELSE IF i < Len(t) THEN t[i + 1] ELSE NUL]

strlenIs(b, n) == b[n] = NUL /\ \A i \in 0 .. n - 1 : b[i] # NUL

-----------------------------------------------------------------------------
(* Painting. *)

(* A mutant: the cut at the right edge is missing. *)
refresh_uncut ==
  LET shift == IF plen + pos' >= cols THEN plen + pos' - cols + 1 ELSE 0
  IN  /\ row' = [i \in 1 .. len' - shift |-> buf'[shift + i - 1]]
      /\ col' = plen + pos' - shift
      /\ UNCHANGED geometry

(* The first loop of refresh() steps the window right until the cursor's   *)
(* column is below cols, the second cuts the row where the screen ends.    *)
(* Every handler that calls refresh() does so after its assignments.       *)
refresh ==
  LET shift == IF plen + pos' >= cols THEN plen + pos' - cols + 1 ELSE 0
      n     == Smaller(len' - shift, cols - plen)
  IN  /\ row' = IF n < 0 THEN Wild ELSE [i \in 1 .. n |-> buf'[shift + i - 1]]
      /\ col' = plen + pos' - shift
      /\ UNCHANGED geometry

(* insert() writes the one character instead when the line ends at the     *)
(* cursor and fits the screen.                                             *)
overtype(c) ==
  LET at == col - plen
  IN  /\ row' = SubSeq(row, 1, at) \o <<c>> \o SubSeq(row, at + 2, Len(row))
      /\ col' = col + 1
      /\ UNCHANGED geometry

-----------------------------------------------------------------------------
(* Memory. *)

(* A mutant: the last cell is not kept for the terminator. *)
put_full(p, w) ==
  LET n    == Smaller(Len(w), LineMax - len)
      open == memmove(buf, p + n, p, len - p)
  IN  /\ buf' = store(store(open, p, SubSeq(w, 1, n)), len + n, <<NUL>>)
      /\ len' = len + n
      /\ pos' = p + n

(* insert() for each character of w with the cursor at gap p: what does    *)
(* not fit below LineMax - 1 is dropped.                                   *)
put(p, w) ==
  LET n    == Smaller(Len(w), LineMax - 1 - len)
      open == memmove(buf, p + n, p, len - p)
  IN  /\ buf' = store(store(open, p, SubSeq(w, 1, n)), len + n, <<NUL>>)
      /\ len' = len + n
      /\ pos' = p + n

(* kbackspace() from gap q down to gap p, or kdelete() as often at p: each *)
(* call closes up one cell and stores one NUL where the line now ends.     *)
erase(p, q) ==
  LET n == q - p
  IN  /\ buf' = store(memmove(buf, p, q, len - q), len - n, Nuls(n))
      /\ len' = len - n
      /\ pos' = p

goto(p) ==
  /\ pos' = p
  /\ UNCHANGED <<buf, len>>

(* A loop that steps left from gap q over cells of S stops at gap p. *)
Leftmost(S, p, q) ==
  /\ p <= q /\ \A i \in p .. q - 1 : buf[i] \in S
  /\ p > 0 => buf[p - 1] \notin S

(* A loop that steps right from gap p over cells of S, up to the line's    *)
(* end, stops at gap q.                                                    *)
Rightmost(S, p, q) ==
  /\ p <= q /\ \A i \in p .. q - 1 : buf[i] \in S
  /\ q < len => buf[q] \notin S

NonSpace == Cell \ Space

-----------------------------------------------------------------------------
(* The handlers. *)

line_start ==
  \E p \in Prompts, w \in Widths :
    /\ buf' = store(buf, 0, <<NUL>>)
    /\ len' = 0 /\ pos' = 0
    /\ plen' = p /\ cols' = w
    /\ row' = <<>> /\ col' = p

(* A mutant: a character typed inside the line is only overtyped. *)
insert_overtyped(c) ==
  /\ len < LineMax - 1
  /\ put(pos, <<c>>)
  /\ IF plen + len + 1 < cols THEN overtype(c) ELSE refresh

insert(c) ==
  /\ len < LineMax - 1
  /\ put(pos, <<c>>)
  /\ IF pos = len /\ plen + len + 1 < cols THEN overtype(c) ELSE refresh

kbackspace  == pos > 0 /\ erase(pos - 1, pos) /\ refresh
kdelete     == pos # len /\ erase(pos, pos + 1) /\ refresh
kleft       == pos > 0 /\ goto(pos - 1) /\ refresh
kright      == pos # len /\ goto(pos + 1) /\ refresh
ctrl_a      == goto(0) /\ refresh
ctrl_e      == goto(len) /\ refresh
ctrl_l      == goto(pos) /\ refresh

kleftw ==
  \E p, m \in 0 .. pos :
    Leftmost(Space, m, pos) /\ Leftmost(NonSpace, p, m) /\ goto(p) /\ refresh

krightw ==
  \E m, q \in pos .. len :
    Rightmost(NonSpace, pos, m) /\ Rightmost(Space, m, q) /\ goto(q) /\ refresh

kbackspacew ==
  \E p, m \in 0 .. pos :
    Leftmost(Space, m, pos) /\ Leftmost(NonSpace, p, m) /\ erase(p, pos) /\ refresh

(* A mutant: the two loops in the order of krightw(). *)
kdeletew_swapped ==
  \E m, q \in pos .. len :
    Rightmost(NonSpace, pos, m) /\ Rightmost(Space, m, q) /\ erase(pos, q) /\ refresh

kdeletew ==
  \E m, q \in pos .. len :
    Rightmost(Space, pos, m) /\ Rightmost(NonSpace, m, q) /\ erase(pos, q) /\ refresh

ctrl_k ==
  /\ buf' = store(buf, pos, <<NUL>>)
  /\ len' = pos
  /\ UNCHANGED pos
  /\ refresh

(* A mutant: the terminator stays where the longer line had it. *)
ctrl_u_unterminated ==
  /\ buf' = memmove(buf, 0, pos, len - pos)
  /\ len' = len - pos
  /\ pos' = 0
  /\ refresh

ctrl_u ==
  /\ buf' = store(memmove(buf, 0, pos, len - pos), len - pos, <<NUL>>)
  /\ len' = len - pos
  /\ pos' = 0
  /\ refresh

(* Tab without an environment to complete from. *)
kshowcomp_blank == put(pos, <<Blank, Blank>>) /\ refresh

(* Tab otherwise.  The loop that takes the cursor to the end of the symbol *)
(* tests the cell under the cursor and nothing else: only the terminator   *)
(* stops it at the end of the line.                                        *)
kshowcomp(w) ==
  \E q \in pos .. LineMax - 1 :
    /\ \A i \in pos .. q - 1 : buf[i] \in Symbol
    /\ buf[q] \notin Symbol
    /\ q > 0 /\ buf[q - 1] \in Symbol
    /\ put(q, w)
    /\ refresh

(* historymove() bringing slot text t back. *)
historyload(t) ==
  LET b == strncpy(buf, t, LineMax - 1)
  IN  \E n \in Index :
        /\ strlenIs(b, n)
        /\ buf' = store(b, n, <<NUL>>)
        /\ len' = n /\ pos' = n
        /\ refresh

-----------------------------------------------------------------------------
Init ==
  /\ buf = [i \in Index |-> NUL]
  /\ len = 0 /\ pos = 0
  /\ plen \in Prompts /\ cols \in Widths
  /\ row = <<>> /\ col = plen

Next ==
  \/ line_start
  \/ \E c \in Char : insert(c)
  \/ kbackspace \/ kdelete \/ kbackspacew \/ kdeletew
  \/ kleft \/ kright \/ kleftw \/ krightw
  \/ ctrl_a \/ ctrl_e \/ ctrl_k \/ ctrl_l \/ ctrl_u
  \/ kshowcomp_blank
  \/ \E w \in Words : kshowcomp(w)
  \/ \E t \in Recall : historyload(t)

Spec == Init /\ [][Next]_vars

-----------------------------------------------------------------------------
(* strlen(gbl_buf) is gbl_len whatever was edited before, and the last     *)
(* cell is NUL, which is what lets strncpy() in historymove() copy         *)
(* LineMax - 1 bytes without storing a terminator, and sdup() copy the     *)
(* line without being told its length.                                     *)
Terminated ==
  /\ strlenIs(buf, len)
  /\ buf[LineMax - 1] = NUL

(* The row on screen is a stretch of the line that starts at or before the *)
(* cursor, and the terminal's cursor stands on the character gbl_pos names *)
(* ("Keep cursor position on screen", refresh()), whether the row was      *)
(* painted by refresh() or character by character.                         *)
CursorInWindow ==
  /\ row # Wild
  /\ \E first \in 0 .. pos :
       /\ first + Len(row) <= len
       /\ row = [i \in 1 .. Len(row) |-> buf[first + i - 1]]
       /\ col = plen + pos - first

(* On a screen wider than the prompt nothing is painted beyond the right   *)
(* edge, the cursor is left of it, and the row is cut only where the       *)
(* screen ends.                                                            *)
RowFits ==
  plen < cols =>
    /\ col < cols
    /\ plen + Len(row) <= cols
    /\ \/ plen + Len(row) = cols
       \/ \E first \in 0 .. pos : col = plen + pos - first /\ first + Len(row) = len

(* The characters of the line, without the array. *)
Line == [i \in 1 .. len |-> buf[i - 1]]

Text == INSTANCE TextField WITH text <- Line

(* The array code edits the line the way TextField says: no handler loses, *)
(* repeats or reorders characters, and nothing left behind the terminator  *)
(* ever comes back.                                                        *)
ImplementsTextField == Text!Spec
=============================================================================
