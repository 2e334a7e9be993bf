---------------------------- MODULE LineEditor ----------------------------
(***************************************************************************)
(* janet_line_get() and line() of super.c as a whole: the bytes a keyboard *)
(* sends, the key decoder, the edited line (TextField), the history        *)
(* (InputHistory), and the terminal's settings, which another program may  *)
(* change whenever line() is not reading.  LineBuffer and LineHistory are  *)
(* checked to keep the two promises this module builds on.                 *)
(*                                                                         *)
(* Left out: the row on screen (LineBuffer has it), the list of matches    *)
(* under the line, and a tcsetattr() that fails to restore the settings.   *)
(***************************************************************************)
EXTENDS Integers, Sequences

CONSTANTS
  LineMax, HistoryMax,         \* JANET_LINE_MAX, JANET_HISTORY_MAX
  Char, Space, Blank, Symbol,  \* as in TextField
  Words,                       \* what completion may insert
  Keys,                        \* the byte sequences keys send
  Modes,                       \* terminal settings other than line()'s own
  NoLine                       \* an empty buffer, which callers take for the end of input

(* The settings rawmode() makes. *)
Raw == "raw"

ASSUME EditorAssumption ==
  /\ LineMax \in Nat \ {0} /\ HistoryMax \in Nat /\ HistoryMax >= 2
  /\ Blank \in Char /\ Words \subseteq Seq(Char)
  /\ Keys \subseteq Seq(STRING) \ {<<>>} /\ "ESC" \notin Char
  /\ Raw \notin Modes /\ Modes # {}
  /\ NoLine \notin Seq(Char)

VARIABLES
  text, pos,        \* the line and the cursor
  entries, at,      \* the history, and gbl_historyi
  pc,               \* where the process is
  decoder,          \* the read() of line() that waits for a byte, and what it has read
  key, pending,     \* what was sent since line() last waited for a key; what of it is unread
  hungup,           \* read() finds the end of the input
  tty, outside,     \* the terminal's settings; the ones everyone else relies on
  saved, israw,     \* gbl_termios_start, gbl_israwmode
  sigint,           \* gbl_sigint_flag
  got               \* the line janet_line_get() last put in its caller's buffer

field    == <<text, pos>>
list     == <<entries, at>>
terminal == <<tty, outside, saved, israw>>
input    == <<key, pending, hungup>>
vars     == <<field, list, pc, decoder, input, terminal, sigint, got>>

Lines == UNION {[1 .. n -> Char] : n \in 0 .. LineMax - 1}

Field == INSTANCE TextField WITH Recall <- Lines
Hist  == INSTANCE InputHistory
           WITH Empty <- <<>>, line <- text, open <- pc \in {"reading", "stopped"}

TypeOK ==
  /\ Field!TypeOK
  /\ Hist!TypeOK
  /\ pc \in {"idle", "reading", "stopped", "killed", "exited"}
  /\ decoder \in {"key", "esc", "csi", "1", "3", "4", "digit"}
  /\ pending \in Seq(STRING)
  /\ hungup \in BOOLEAN /\ israw \in BOOLEAN /\ sigint \in BOOLEAN
  /\ tty \in Modes \cup {Raw} /\ outside \in Modes /\ saved \in Modes
  /\ got \in Lines \cup {NoLine}

-----------------------------------------------------------------------------
(* The terminal.  TCSAFLUSH drops the bytes nobody has read. *)

flush == key' = <<>> /\ pending' = <<>> /\ UNCHANGED hungup

rawmode ==
  /\ saved' = tty /\ tty' = Raw /\ israw' = TRUE
  /\ UNCHANGED outside
  /\ flush

(* isatty(), tcgetattr() or tcsetattr() said no. *)
rawmode_refused ==
  /\ saved' \in {saved, tty}
  /\ UNCHANGED <<tty, outside, israw, input>>

(* At most one key is on its way: nothing unread follows the byte that     *)
(* makes line() leave raw mode.                                            *)
norawmode ==
  /\ tty' = IF israw THEN saved ELSE tty
  /\ israw' = FALSE
  /\ UNCHANGED <<outside, saved>>
  /\ flush

(* raise(SIGINT) ends the process, unless someone handles the signal. *)
raised == {"killed", "idle"}

-----------------------------------------------------------------------------
(* What a key does to the line and the history.  A handler whose test      *)
(* fails leaves everything as it is.                                       *)

edits(A) == A /\ UNCHANGED list

kleft      == edits(IF pos > 0 THEN Field!Left ELSE UNCHANGED field)
kright     == edits(IF pos # Len(text) THEN Field!Right ELSE UNCHANGED field)
kbackspace == edits(IF pos > 0 THEN Field!Backspace ELSE UNCHANGED field)
kdelete    == edits(IF pos # Len(text) THEN Field!Delete ELSE UNCHANGED field)
home       == edits(Field!Home)
end        == edits(Field!End)

(* A mutant: the cursor stays where it was in the line before. *)
historymove_cursor(delta) ==
  IF Len(entries) > 1
  THEN Hist!Move(delta) /\ UNCHANGED pos
  ELSE UNCHANGED <<field, list>>

historymove(delta) ==
  IF Len(entries) > 1
  THEN Hist!Move(delta) /\ pos' = Len(text')
  ELSE UNCHANGED <<field, list>>

(* Without an environment, with a symbol at the cursor, and without one. *)
kshowcomp ==
  \/ edits(Field!DoubleBlank)
  \/ \E w \in Words : edits(Field!Complete(w))
  \/ edits(UNCHANGED field)

-----------------------------------------------------------------------------
(* The decoder.  Each operator says what one byte b does where it is read; *)
(* the bytes that are not named do nothing.                                *)

key_byte(b) ==
  \/ b \in Char /\ edits(Field!Insert(b))
  \/ b = "^A" /\ home
  \/ b = "^B" /\ kleft
  \/ b = "^D" /\ text # <<>> /\ kdelete
  \/ b = "^E" /\ end
  \/ b = "^F" /\ kright
  \/ b \in {"^H", "DEL"} /\ kbackspace
  \/ b = "^I" /\ kshowcomp
  \/ b = "^K" /\ edits(Field!KillToEnd)
  \/ b \in {"^L", "other"} /\ edits(UNCHANGED field)
  \/ b = "^N" /\ historymove(-1)
  \/ b = "^P" /\ historymove(1)
  \/ b = "^U" /\ edits(Field!KillToStart)
  \/ b = "^W" /\ edits(Field!BackspaceWord)

alt_byte(b) ==
  \/ b = "d" /\ edits(Field!DeleteWord)
  \/ b = "b" /\ edits(Field!LeftWord)
  \/ b = "f" /\ edits(Field!RightWord)
  \/ b = "," /\ historymove(HistoryMax)
  \/ b = "." /\ historymove(-HistoryMax)
  \/ b = "DEL" /\ edits(Field!BackspaceWord)
  \/ b \notin {"d", "b", "f", ",", ".", "DEL"} /\ edits(UNCHANGED field)

(* The branch of line() for seq[0] == 'O' is inside the one for '[': the   *)
(* keys it is for are decoded by alt_byte.                                 *)
csi_byte(b) ==
  \/ b = "A" /\ historymove(1)
  \/ b = "B" /\ historymove(-1)
  \/ b = "C" /\ kright
  \/ b = "D" /\ kleft
  \/ b = "H" /\ home
  \/ b = "F" /\ end
  \/ b \notin {"A", "B", "C", "D", "H", "F"} /\ edits(UNCHANGED field)

tilde(d, b) ==
  \/ b = "~" /\ d = "1" /\ home
  \/ b = "~" /\ d = "3" /\ kdelete
  \/ b = "~" /\ d = "4" /\ end
  \/ (b # "~" \/ d = "digit") /\ edits(UNCHANGED field)

Digits == {"0", "1", "2", "3", "4", "5", "6", "7", "8", "9"}

(* A mutant: Esc [ is not the start of a sequence. *)
decode_alt(b) ==
  \/ decoder = "key" /\ b = "ESC" /\ decoder' = "esc" /\ edits(UNCHANGED field)
  \/ decoder = "key" /\ key_byte(b) /\ UNCHANGED decoder
  \/ decoder = "esc" /\ decoder' = "key" /\ alt_byte(b)

(* The reads in the middle of an escape sequence. *)
decode(b) ==
  \/ decoder = "key" /\ b = "ESC" /\ decoder' = "esc" /\ edits(UNCHANGED field)
  \/ decoder = "key" /\ key_byte(b) /\ UNCHANGED decoder
  \/ decoder = "esc" /\ b = "[" /\ decoder' = "csi" /\ edits(UNCHANGED field)
  \/ decoder = "esc" /\ b # "[" /\ decoder' = "key" /\ alt_byte(b)
  \/ /\ decoder = "csi" /\ b \in Digits
     /\ decoder' = IF b \in {"1", "3", "4"} THEN b ELSE "digit"
     /\ edits(UNCHANGED field)
  \/ decoder = "csi" /\ b \notin Digits /\ decoder' = "key" /\ csi_byte(b)
  \/ decoder \in {"1", "3", "4", "digit"} /\ decoder' = "key" /\ tilde(decoder, b)

-----------------------------------------------------------------------------
(* janet_line_get(). *)

(* A mutant: the place in the history survives from the line before. *)
line_start_at ==
  /\ pc = "idle" /\ pc' = "reading"
  /\ rawmode
  /\ entries' = SubSeq(<<<<>>>> \o entries, 1, Hist!Lesser(Len(entries) + 1, HistoryMax))
  /\ text' = <<>> /\ pos' = 0
  /\ decoder' = "key"
  /\ got' = NoLine
  /\ UNCHANGED <<at, sigint>>

line_start ==
  /\ pc = "idle" /\ pc' = "reading"
  /\ rawmode
  /\ Hist!Start
  /\ pos' = 0
  /\ decoder' = "key"
  /\ got' = NoLine
  /\ UNCHANGED sigint

(* Not a terminal, or not one line() can use: simpleline() reads instead. *)
simpleline ==
  /\ pc = "idle"
  /\ rawmode_refused
  /\ UNCHANGED <<pc, pos>>
  /\ Hist!Forget
  /\ UNCHANGED <<decoder, sigint, got>>

reads(b) == pc = "reading" /\ pending # <<>> /\ b = Head(pending)

(* A byte that keeps line() in its loop. *)
byte ==
  /\ pc = "reading" /\ pending # <<>>
  /\ UNCHANGED pc
  /\ decode(Head(pending))
  /\ pending' = Tail(pending)
  /\ key' = IF pending' = <<>> /\ decoder' = "key" THEN <<>> ELSE key
  /\ UNCHANGED <<hungup, terminal, sigint, got>>

(* In the middle of a sequence the end of the input leaves seq[] as it was *)
(* (any byte), and an error of read() returns to the loop.                 *)
StaleBytes ==
  Digits \cup {"d", "b", "f", ",", ".", "DEL", "[", "A", "B", "C", "D", "H", "F", "~", "other"}

byte_missing ==
  /\ pc = "reading" /\ hungup /\ decoder # "key"
  /\ UNCHANGED pc
  /\ \/ \E b \in StaleBytes : decode(b)
     \/ decoder' = "key" /\ edits(UNCHANGED field)
  /\ UNCHANGED <<input, terminal, sigint, got>>

(* A mutant: replacehistory() is not called. *)
enter_unrecorded ==
  /\ reads("^M") /\ decoder = "key"
  /\ pc' = "idle"
  /\ got' = text
  /\ Hist!GiveUp
  /\ norawmode
  /\ UNCHANGED <<pos, decoder, sigint>>

enter ==
  /\ reads("^M") /\ decoder = "key"
  /\ pc' = "idle"
  /\ got' = text
  /\ Hist!Accept
  /\ norawmode
  /\ UNCHANGED <<pos, decoder, sigint>>

(* line() returned -1, and gbl_sigint_flag is f. *)
given_up(f) ==
  /\ pc' \in IF f THEN raised ELSE {"idle"}
  /\ sigint' = f
  /\ Hist!GiveUp
  /\ norawmode
  /\ UNCHANGED <<pos, decoder, got>>

ctrl_c    == reads("^C") /\ decoder = "key" /\ given_up(TRUE)
ctrl_d    == reads("^D") /\ decoder = "key" /\ text = <<>> /\ given_up(sigint)
input_end == pc = "reading" /\ hungup /\ decoder = "key" /\ given_up(sigint)

(* The write() of the prompt or of the one character failed.  The text is  *)
(* not read again before line() empties it.                                *)
write_fails ==
  /\ pc = "reading" /\ decoder = "key"
  /\ given_up(sigint)

(* A write() in refresh() or clear() failed: exit(1), in raw mode. *)
refresh_fails ==
  /\ pc = "reading" /\ pc' = "exited"
  /\ UNCHANGED <<field, list, decoder, input, terminal, sigint, got>>

ctrl_z ==
  /\ reads("^Z") /\ decoder = "key"
  /\ pc' = "stopped"
  /\ norawmode
  /\ UNCHANGED <<field, list, decoder, sigint, got>>

(* A mutant: the settings to restore are not read again. *)
continued_stale ==
  /\ pc = "stopped" /\ pc' = "reading"
  /\ tty' = Raw /\ israw' = TRUE
  /\ flush
  /\ UNCHANGED <<field, list, decoder, outside, saved, sigint, got>>

(* SIGCONT: line() goes on in raw mode, or without it if it cannot have it. *)
continued ==
  /\ pc = "stopped" /\ pc' = "reading"
  /\ rawmode \/ rawmode_refused
  /\ UNCHANGED <<field, list, decoder, sigint, got>>

-----------------------------------------------------------------------------
(* The keyboard and the other programs on the terminal. *)

(* A sequence may be cut off between two keys, as after a lone Esc: then   *)
(* what the next key sends belongs to it.                                  *)
press ==
  /\ pending = <<>> /\ ~hungup
  /\ pc \in {"idle", "reading", "stopped"}
  /\ pending' \in Keys /\ key' = key \o pending'
  /\ UNCHANGED <<field, list, pc, decoder, hungup, terminal, sigint, got>>

hangup ==
  /\ ~hungup /\ hungup' = TRUE
  /\ pc \in {"idle", "reading", "stopped"}
  /\ key' = <<>> /\ pending' = <<>>
  /\ UNCHANGED <<field, list, pc, decoder, terminal, sigint, got>>

stty ==
  /\ pc \in {"idle", "stopped"}
  /\ outside' \in Modes /\ tty' = outside'
  /\ UNCHANGED <<field, list, pc, decoder, input, saved, israw, sigint, got>>

Init ==
  /\ Field!Init
  /\ entries = <<>> /\ at = 0
  /\ pc = "idle" /\ decoder = "key"
  /\ key = <<>> /\ pending = <<>> /\ hungup = FALSE
  /\ outside \in Modes /\ tty = outside
  /\ saved \in Modes /\ israw = FALSE
  /\ sigint = FALSE
  /\ got = NoLine

Next ==
  \/ line_start \/ simpleline
  \/ byte \/ byte_missing
  \/ enter \/ ctrl_c \/ ctrl_d \/ input_end \/ write_fails \/ refresh_fails
  \/ ctrl_z \/ continued
  \/ press \/ hangup \/ stty

Spec == Init /\ [][Next]_vars

-----------------------------------------------------------------------------
(* Whenever line() is not reading (it returned, it was stopped, a SIGINT   *)
(* it raised ended the process), the terminal has the settings everyone    *)
(* else relies on, those that changed while it was stopped included.       *)
TerminalGivenBack == pc \in {"idle", "stopped", "killed"} => tty = outside

(* A line that Enter returns is the newest entry of the history, whatever  *)
(* was recalled or edited on the way, unless it is empty.                  *)
NewestIsReturned ==
  [][got' # got /\ got' \notin {NoLine, <<>>} =>
       entries' # <<>> /\ entries'[1] = got']_vars

(* How many bytes of a sequence decode() takes: Esc and one more, two more *)
(* after Esc [, three after Esc [ and a digit, whatever they are.          *)
Taken(k) ==
  IF Len(k) < 2 \/ k[2] # "[" THEN 2
  ELSE IF Len(k) < 3 \/ k[3] \notin Digits THEN 3 ELSE 4

Done == Len(key) - Len(pending)

(* What begins with Esc acts once, on the last of the bytes the decoder    *)
(* takes of it, and none of these is taken for text; the next byte is read *)
(* as a key of its own, also when the key on the keyboard sends more.  (A  *)
(* line from the history may happen to be the text with that byte in it.)  *)
FunctionKeysAtomic ==
  [][byte /\ key[1] = "ESC" /\ Done < Taken(key) =>
       /\ Done + 1 < Taken(key) => UNCHANGED <<field, list>> /\ decoder' # "key"
       /\ Done + 1 = Taken(key) => decoder' = "key"
       /\ UNCHANGED at => text' # Field!Splice(pos, pos, <<Head(pending)>>)]_vars

(* "Home (some keyboards)" (line(), the comment at ESC O H): the key goes  *)
(* to the left edge of the line and leaves the line alone.                 *)
HomeGoesHome ==
  [][byte /\ key = <<"ESC", "O", "H">> /\ Len(pending) = 1 =>
       pos' = 0 /\ UNCHANGED text]_vars

(* The line is edited as TextField says and the history kept as            *)
(* InputHistory says, by every key, error and stop.                        *)
KeepsTheText    == Field!Spec
KeepsTheHistory == Hist!Spec
=============================================================================
