---------------------------- MODULE Completion ----------------------------
(***************************************************************************)
(* Tab in the line editor: kshowcomp() of super.c walks the tables of the  *)
(* environment (a table and its prototypes, each in hash order, then the   *)
(* special forms), keeps the matches sorted in an array of MatchMax, adds  *)
(* what the matches have in common to the line, and lists them below it,   *)
(* to be erased by clearlines().  One action is one call of check_match(), *)
(* so every order is covered.                                              *)
(*                                                                         *)
(* A symbol is the sequence of its bytes, and a byte is its number.        *)
(* LineBuffer has the typing of the text that is added.                    *)
(***************************************************************************)
EXTENDS Integers, Sequences, FiniteSets, SequencesExt

CONSTANTS
  MatchMax,  \* JANET_MATCH_MAX
  Chains,    \* environments: sequences of sets of symbols
  Specials,  \* the special forms of check_specials()
  Typed,     \* symbols the cursor may be at the end of
  Widths,    \* widths getcols() may find
  Height     \* rows of the screen

ASSUME CompletionAssumption ==
  /\ MatchMax \in Nat \ {0} /\ Height \in Nat \ {0}
  /\ Widths \subseteq Nat \ {0}
  /\ Typed \subseteq Seq(Nat)
  /\ Chains \subseteq Seq(SUBSET Seq(Nat))
  /\ \A c \in Chains : IsFiniteSet(UNION {c[t] : t \in 1 .. Len(c)})
  /\ Specials \subseteq Seq(Nat) /\ IsFiniteSet(Specials)

VARIABLES
  phase,    \* line() waits in "keys", walks the tables in "collect", is "stopped", or "away"
  prefix,   \* the symbol at the cursor
  chain,    \* the environment, the special forms behind it
  left,     \* what is left of it to look at, table by table
  matches,  \* gbl_matches
  below,    \* gbl_lines_below
  row,      \* the screen's row the cursor is in
  rows,     \* the rows the list takes, less those written over since
  printed   \* "whole"; "old" if others have written since; "torn" if it does not fit on the screen

screen == <<below, row, rows, printed>>
vars   == <<phase, prefix, chain, left, matches, screen>>

Symbols == UNION {chain[t] : t \in 1 .. Len(chain)}

TypeOK ==
  /\ phase \in {"keys", "collect", "stopped", "away"}
  /\ prefix \in Seq(Nat)
  /\ matches \in Seq(Symbols) /\ Len(matches) <= MatchMax
  /\ below \in Nat /\ rows \in Nat /\ row \in 0 .. Height - 1
  /\ printed \in {"whole", "old", "torn"}

-----------------------------------------------------------------------------
(* compare_bytes(a, b) < 0 *)
Less(a, b) ==
  \/ IsStrictPrefix(a, b)
  \/ \E n \in 1 .. Len(a) :
       /\ n <= Len(b) /\ SubSeq(a, 1, n - 1) = SubSeq(b, 1, n - 1)
       /\ a[n] < b[n]

(* The loop of check_match(): carried[i] is what mm is after i matches. *)
Carried(test) ==
  LET carried[i \in 0 .. Len(matches)] ==
        IF i = 0 THEN test
        ELSE IF Less(carried[i - 1], matches[i]) THEN matches[i] ELSE carried[i - 1]
  IN  carried

(* A mutant: once the array is full a match is not looked at any more. *)
Inserted_unless_full(test) ==
  LET c == Carried(test) IN
  IF Len(matches) = MatchMax THEN matches
  ELSE [i \in 1 .. Len(matches) + 1 |->
         IF i > Len(matches) THEN c[i - 1]
         ELSE IF Less(c[i - 1], matches[i]) THEN c[i - 1] ELSE matches[i]]

(* The array after the loop: what is carried past its end is the last      *)
(* match, or is lost when the array is full.                               *)
Inserted(test) ==
  LET c == Carried(test) IN
  [i \in 1 .. (IF Len(matches) = MatchMax THEN MatchMax ELSE Len(matches) + 1) |->
     IF i > Len(matches) THEN c[i - 1]
     ELSE IF Less(c[i - 1], matches[i]) THEN c[i - 1] ELSE matches[i]]

(* How far a and b agree. *)
Agree(a, b) ==
  CHOOSE n \in 0 .. Len(a) :
    /\ n <= Len(b) /\ SubSeq(a, 1, n) = SubSeq(b, 1, n)
    /\ n < Len(a) /\ n < Len(b) => a[n + 1] # b[n + 1]

(* A mutant: only neighbours are compared, the last two have the say. *)
longest_common_prefix_last ==
  IF matches = <<>> THEN <<>>
  ELSE SubSeq(matches[Len(matches)], 1,
              Agree(matches[Len(matches)], matches[IF Len(matches) = 1 THEN 1 ELSE Len(matches) - 1]))

longest_common_prefix ==
  LET bv[i \in 0 .. Len(matches)] ==
        IF i = 0 THEN matches[1]
        ELSE SubSeq(bv[i - 1], 1, Agree(bv[i - 1], matches[i]))
  IN  IF matches = <<>> THEN <<>> ELSE bv[Len(matches)]

MaxLen == CHOOSE n \in {Len(matches[i]) : i \in 1 .. Len(matches)} :
            \A i \in 1 .. Len(matches) : Len(matches[i]) <= n

Ceil(x, y) == (x + y - 1) \div y

Lesser(x, y)  == IF x < y THEN x ELSE y
Greater(x, y) == IF x > y THEN x ELSE y

-----------------------------------------------------------------------------
(* The user types, moves or recalls until the cursor is behind p. *)
move_to(p) ==
  /\ phase = "keys"
  /\ prefix' = p
  /\ UNCHANGED <<phase, chain, left, matches, screen>>

(* Tab.  Nothing is looked for where there is no environment or no symbol. *)
kshowcomp ==
  /\ phase = "keys" /\ phase' = "collect"
  /\ prefix # <<>>
  /\ \E c \in Chains : chain' = Append(c, Specials)
  /\ left' = chain'
  /\ matches' = <<>>
  /\ UNCHANGED <<prefix, screen>>

check_match ==
  /\ phase = "collect" /\ left # <<>>
  /\ \E s \in Head(left) :
       /\ left' = [left EXCEPT ![1] = @ \ {s}]
       /\ matches' = IF IsPrefix(prefix, s) THEN Inserted(s) ELSE matches
  /\ UNCHANGED <<phase, prefix, chain, screen>>

next_table ==
  /\ phase = "collect" /\ left # <<>> /\ Head(left) = {}
  /\ left' = Tail(left)
  /\ UNCHANGED <<phase, prefix, chain, matches, screen>>

(* The cursor goes down n rows and up m, and no further than the screen.   *)
DownUp(from, n, m) == Greater(Lesser(from + n, Height - 1) - m, 0)

(* clearlines(), and the newline behind the line (n is 1) or none.         *)
clearlines(n) ==
  /\ below' = 0
  /\ row' = DownUp(DownUp(row, below, below), n, 0)
  /\ rows' = Greater(rows - below - n, 0)
  /\ printed' = IF rows' = 0 THEN "whole" ELSE "torn"

(* A mutant: the rows that are not full are not counted. *)
list_full_rows(num_cols) ==
  LET col_width == MaxLen + 4
      cols      == IF num_cols \div col_width = 0 THEN 1 ELSE num_cols \div col_width
      wrapped   == Ceil(col_width, num_cols)
  IN  /\ below' = Len(matches) \div cols
      /\ rows' = Ceil(Len(matches), cols) * wrapped
      /\ row' = DownUp(DownUp(row, below, below), rows', below')
      /\ printed' = IF wrapped = 1 /\ rows' < Height THEN "whole" ELSE "torn"

(* clearlines(), then the list in columns of col_width, each row on a new  *)
(* line, and back up.  A column wider than the screen wraps.               *)
list(num_cols) ==
  LET col_width == MaxLen + 4
      cols      == IF num_cols \div col_width = 0 THEN 1 ELSE num_cols \div col_width
      wrapped   == Ceil(col_width, num_cols)
  IN  /\ below' = Ceil(Len(matches), cols)
      /\ rows' = IF wrapped = 1 THEN below' ELSE below' * wrapped
      /\ row' = DownUp(DownUp(row, below, below), rows', below')
      /\ printed' = IF wrapped = 1 /\ rows' < Height THEN "whole" ELSE "torn"

(* The first Tab that can add something does not list. *)
complete ==
  /\ phase = "collect" /\ left = <<>> /\ phase' = "keys"
  /\ LET lcp == longest_common_prefix IN
     /\ prefix' = IF Len(lcp) > Len(prefix) THEN lcp ELSE prefix
     /\ IF below = 0 /\ Len(lcp) # Len(prefix)
        THEN UNCHANGED screen
        ELSE IF Len(matches) >= 2
        THEN \E num_cols \in Widths : list(num_cols)
        ELSE clearlines(0)
  /\ UNCHANGED <<chain, left, matches>>

-----------------------------------------------------------------------------
(* What else moves the cursor to another row. *)

walking == <<chain, left, matches>>

Aged == IF printed = "torn" THEN "torn" ELSE "old"

(* A newline (n is 1) or none from anyone but line(). *)
newline(n) ==
  /\ row' = DownUp(row, n, 0) /\ rows' = Greater(rows - n, 0)
  /\ printed' = IF n = 0 THEN printed ELSE Aged
  /\ UNCHANGED below

clear == row' = 0 /\ rows' = 0 /\ UNCHANGED below

ctrl_l ==
  /\ phase = "keys"
  /\ clear
  /\ UNCHANGED <<phase, prefix, walking, printed>>

(* Enter, Ctrl-c and Ctrl-d; SIGINT brings no newline. *)
line_returns ==
  /\ phase = "keys" /\ phase' = "away"
  /\ \E n \in {0, 1} : clearlines(n)
  /\ prefix' = <<>> /\ UNCHANGED walking

(* The input ends, or a write() fails: the list stays, and its count.      *)
line_fails ==
  /\ phase = "keys" /\ phase' = "away"
  /\ \E n \in {0, 1} : newline(n)
  /\ prefix' = <<>> /\ UNCHANGED walking

line_start ==
  /\ phase = "away" /\ phase' = "keys"
  /\ UNCHANGED <<prefix, walking, screen>>

ctrl_z ==
  /\ phase = "keys" /\ phase' = "stopped"
  /\ UNCHANGED <<prefix, walking, screen>>

continued ==
  /\ phase = "stopped" /\ phase' = "keys"
  /\ UNCHANGED <<prefix, walking, screen>>

(* The program between two lines, and others while it is stopped. *)
others_write ==
  /\ phase \in {"stopped", "away"}
  /\ newline(1) \/ (clear /\ printed' = Aged)
  /\ UNCHANGED <<phase, prefix, walking>>

Init ==
  /\ phase = "away"
  /\ prefix = <<>>
  /\ chain = <<>> /\ left = <<>>
  /\ matches = <<>>
  /\ below = 0 /\ rows = 0 /\ printed = "whole"
  /\ row \in 0 .. Height - 1

Next ==
  \/ \E p \in Typed : move_to(p)
  \/ kshowcomp \/ check_match \/ next_table \/ complete
  \/ ctrl_l \/ line_returns \/ line_fails \/ line_start
  \/ ctrl_z \/ continued \/ others_write

Spec == Init /\ [][Next]_vars

-----------------------------------------------------------------------------
(* The symbols that have gone through check_match() and begin with what is *)
(* typed, each with its table: a symbol may be in several.                 *)
Offered ==
  LET all  == {o \in (1 .. Len(chain)) \X Symbols : o[2] \in chain[o[1]]}
      done == Len(chain) - Len(left)
  IN  {o \in all : /\ IsPrefix(prefix, o[2])
                   /\ o[1] > done => o[2] \notin left[o[1] - done]}

(* At every moment of the walk, whatever the order of the tables, the      *)
(* array is sorted and holds the smallest of the matches offered so far,   *)
(* each as often as it was offered and there is room for.                  *)
KeepsSmallest ==
  phase = "collect" =>
    /\ \A i, j \in 1 .. Len(matches) : i < j => ~Less(matches[j], matches[i])
    /\ \A s \in Symbols :
         LET smaller == Cardinality({o \in Offered : Less(o[2], s)})
             equal   == Cardinality({o \in Offered : o[2] = s})
         IN  Cardinality({i \in 1 .. Len(matches) : matches[i] = s}) =
               IF smaller >= MatchMax THEN 0
               ELSE IF smaller + equal > MatchMax THEN MatchMax - smaller ELSE equal

Matching == {s \in Symbols : IsPrefix(prefix, s)}

(* Where the array has room for the matches, Tab adds exactly what every   *)
(* one of them goes on with, whatever the order of the tables.             *)
AddsWhatIsCommon ==
  [][complete /\ Cardinality(Offered) \in 1 .. MatchMax =>
       prefix' = LongestCommonPrefix(Matching)]_vars

(* "Go up to original line" (kshowcomp()): the rows clearlines() will      *)
(* erase are those of the list, and it can go down and up again without    *)
(* meeting an edge of the screen, so that it comes back to the line.  When *)
(* others have written since, it still erases what is left of the list.    *)
BackOnTheLine ==
  /\ printed = "whole" => rows \in {0, below} /\ row + below < Height
  /\ printed = "old" => rows <= below
=============================================================================
