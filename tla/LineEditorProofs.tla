-------------------------- MODULE LineEditorProofs --------------------------
(***************************************************************************)
(* Proofs about LineEditor, for every length of line and history, every    *)
(* alphabet and every sequence of bytes a keyboard sends.                  *)
(***************************************************************************)
EXTENDS LineEditor, SequenceTheorems, TLAPS

Open == pc \in {"reading", "stopped"}

(* A line has an entry of its own at the head of the history while it is   *)
(* being edited.                                                           *)
Listing ==
  /\ entries \in Seq(Lines) /\ Len(entries) <= HistoryMax /\ at \in Nat
  /\ Open => Len(entries) >= 1

Control ==
  /\ pc \in {"idle", "reading", "stopped", "killed", "exited"}
  /\ decoder \in {"key", "esc", "csi", "1", "3", "4", "digit"}
  /\ pending \in Seq(STRING)
  /\ hungup \in BOOLEAN /\ sigint \in BOOLEAN
  /\ got \in Lines \cup {NoLine}

(* In raw mode norawmode() has what everyone else relies on to give back,  *)
(* and out of it there is nothing to give back.                            *)
Settings ==
  /\ israw \in BOOLEAN
  /\ tty \in Modes \cup {Raw} /\ outside \in Modes /\ saved \in Modes
  /\ israw => saved = outside
  /\ ~israw => tty = outside
  /\ pc \in {"idle", "stopped", "killed"} => ~israw

Inv == Field!TypeOK /\ Listing /\ Control /\ Settings

-----------------------------------------------------------------------------
LEMMA SettingsInit == Init => Settings
  BY DEF Init, Settings

LEMMA SettingsStep == ASSUME Settings, [Next]_vars PROVE Settings'
<1>1. CASE line_start
  BY <1>1, EditorAssumption DEF line_start, rawmode, Settings
<1>2. CASE simpleline
  BY <1>2, EditorAssumption DEF simpleline, rawmode_refused, Settings
<1>3. CASE byte \/ byte_missing
  BY <1>3 DEF byte, byte_missing, terminal, Settings
<1>4. ASSUME norawmode, pc' \in {"idle", "stopped", "killed"} PROVE Settings'
  BY <1>4 DEF norawmode, Settings
<1>5. CASE enter \/ ctrl_z
  BY <1>4, <1>5 DEF enter, ctrl_z
<1>6. CASE ctrl_c \/ ctrl_d \/ input_end \/ write_fails
  BY <1>4, <1>6 DEF ctrl_c, ctrl_d, input_end, write_fails, given_up, raised
<1>7. CASE refresh_fails
  BY <1>7 DEF refresh_fails, terminal, Settings
<1>8. CASE continued
  <2>1. ~israw /\ tty = outside /\ tty \in Modes /\ pc' = "reading"
    BY <1>8 DEF continued, Settings
  <2>2. CASE rawmode
    BY <2>1, <2>2 DEF rawmode, Settings
  <2>3. CASE rawmode_refused
    BY <2>1, <2>3 DEF rawmode_refused, Settings
  <2> QED BY <1>8, <2>2, <2>3 DEF continued
<1>9. CASE press \/ hangup \/ UNCHANGED vars
  BY <1>9 DEF press, hangup, vars, terminal, Settings
<1>10. CASE stty
  BY <1>10 DEF stty, Settings
<1> QED BY <1>1, <1>2, <1>3, <1>5, <1>6, <1>7, <1>8, <1>9, <1>10 DEF Next

-----------------------------------------------------------------------------
(* The texts a line can have. *)
LEMMA LinesAre == \A t : t \in Lines <=> t \in Seq(Char) /\ Len(t) <= LineMax - 1
<1>1. ASSUME NEW t \in Lines PROVE t \in Seq(Char) /\ Len(t) <= LineMax - 1
  <2>1. PICK n \in 0 .. LineMax - 1 : t \in [1 .. n -> Char]
    BY <1>1 DEF Lines
  <2>2. n \in Nat /\ n <= LineMax - 1
    BY <2>1, EditorAssumption
  <2>3. t \in Seq(Char)
    BY <2>1, <2>2
  <2>4. Len(t) = n
    BY <2>1, <2>2, <2>3, LenProperties
  <2> QED BY <2>2, <2>3, <2>4
<1>2. ASSUME NEW t \in Seq(Char), Len(t) <= LineMax - 1 PROVE t \in Lines
  <2>1. Len(t) \in 0 .. LineMax - 1 /\ t \in [1 .. Len(t) -> Char]
    BY <1>2, EditorAssumption, LenProperties
  <2> QED BY <2>1 DEF Lines
<1> QED BY <1>1, <1>2

LEMMA SpliceFits ==
  ASSUME text \in Seq(Char), NEW p \in 0 .. Len(text), NEW q \in p .. Len(text), NEW w \in Seq(Char)
  PROVE  /\ Field!Splice(p, q, w) \in Seq(Char)
         /\ Len(Field!Splice(p, q, w)) = p + Len(w) + (Len(text) - q)
<1> DEFINE x == SubSeq(text, 1, p)
           y == SubSeq(text, q + 1, Len(text))
<1>1. Len(text) \in Nat /\ p \in Nat /\ q \in Nat /\ p <= q /\ q <= Len(text) /\ Len(w) \in Nat
  BY LenProperties
<1>2. \A i \in 1 .. Len(text) : text[i] \in Char
  OBVIOUS
<1>3. x \in Seq(Char) /\ Len(x) = p
  <2>1. \A i \in 1 .. p : text[i] \in Char
    BY <1>1, <1>2
  <2>2. x \in Seq(Char) /\ Len(x) = IF 1 <= p THEN p - 1 + 1 ELSE 0
    BY <1>1, <2>1, SubSeqProperties
  <2> QED BY <1>1, <2>2
<1>4. y \in Seq(Char) /\ Len(y) = Len(text) - q
  <2>1. \A i \in q + 1 .. Len(text) : text[i] \in Char
    BY <1>1, <1>2
  <2>2. y \in Seq(Char) /\ Len(y) = IF q + 1 <= Len(text) THEN Len(text) - (q + 1) + 1 ELSE 0
    BY <1>1, <2>1, SubSeqProperties
  <2> QED BY <1>1, <2>2
<1>5. Field!Splice(p, q, w) = (x \o w) \o y
  BY DEF Field!Splice
<1> HIDE DEF x, y
<1>6. x \o w \in Seq(Char) /\ Len(x \o w) = p + Len(w)
  BY <1>3, ConcatProperties
<1>7. (x \o w) \o y \in Seq(Char) /\ Len((x \o w) \o y) = (p + Len(w)) + (Len(text) - q)
  <2>1. (x \o w) \o y \in Seq(Char) /\ Len((x \o w) \o y) = Len(x \o w) + Len(y)
    BY <1>4, <1>6, ConcatProperties
  <2> QED BY <1>4, <1>6, <2>1
<1> QED BY <1>1, <1>5, <1>7

LEMMA InsertFits ==
  ASSUME Field!TypeOK, NEW p \in 0 .. Len(text), NEW w \in Seq(Char), Field!InsertAt(p, w)
  PROVE  Field!TypeOK'
<1>1. PICK n \in 0 .. Len(w) :
        /\ Len(text) + n <= LineMax - 1
        /\ text' = Field!Splice(p, p, SubSeq(w, 1, n)) /\ pos' = p + n
  BY DEF Field!InsertAt
<1>2. text \in Seq(Char) /\ Len(text) \in Nat /\ Len(w) \in Nat /\ n \in Nat /\ n <= Len(w) /\ p \in Nat
      /\ p <= Len(text)
  BY LenProperties DEF Field!TypeOK
<1>3. SubSeq(w, 1, n) \in Seq(Char) /\ Len(SubSeq(w, 1, n)) = n
  <2>1. \A i \in 1 .. n : w[i] \in Char
    BY <1>2
  <2>2. SubSeq(w, 1, n) \in Seq(Char) /\ Len(SubSeq(w, 1, n)) = IF 1 <= n THEN n - 1 + 1 ELSE 0
    BY <1>2, <2>1, SubSeqProperties
  <2> QED BY <1>2, <2>2
<1>4. text' \in Seq(Char) /\ Len(text') = p + n + (Len(text) - p)
  <2>1. p \in p .. Len(text)
    BY <1>2
  <2> QED BY <1>1, <1>2, <1>3, <2>1, SpliceFits
<1>5. Len(text') <= LineMax - 1 /\ pos' \in 0 .. Len(text')
  BY <1>1, <1>2, <1>4, EditorAssumption
<1> QED BY <1>4, <1>5 DEF Field!TypeOK

LEMMA EraseFits ==
  ASSUME Field!TypeOK, NEW p \in 0 .. Len(text), NEW q \in p .. Len(text), Field!Erase(p, q)
  PROVE  Field!TypeOK'
<1>1. /\ text \in Seq(Char) /\ Len(text) \in Nat /\ Len(text) <= LineMax - 1
      /\ p \in Nat /\ q \in Nat /\ p <= q /\ q <= Len(text)
  BY LenProperties DEF Field!TypeOK
<1>2. <<>> \in Seq(Char) /\ Len(<<>>) = 0
  OBVIOUS
<1>3. text' \in Seq(Char) /\ Len(text') = p + 0 + (Len(text) - q) /\ pos' = p
  BY <1>1, <1>2, SpliceFits DEF Field!Erase
<1>4. Len(text') <= LineMax - 1 /\ pos' \in 0 .. Len(text')
  BY <1>1, <1>3, EditorAssumption
<1> QED BY <1>3, <1>4 DEF Field!TypeOK

LEMMA MoveFits ==
  ASSUME Field!TypeOK, NEW p \in 0 .. Len(text), Field!MoveTo(p)
  PROVE  Field!TypeOK'
  BY DEF Field!TypeOK, Field!MoveTo

(* The promises of TextField keep the line inside the buffer. *)
LEMMA FieldStep == ASSUME Field!TypeOK, Field!Next PROVE Field!TypeOK'
<1>1. /\ text \in Seq(Char) /\ Len(text) \in Nat /\ pos \in Nat /\ pos <= Len(text)
      /\ pos \in 0 .. Len(text) /\ 0 \in 0 .. Len(text) /\ Len(text) \in 0 .. Len(text)
  BY LenProperties DEF Field!TypeOK
<1>2. ASSUME NEW c \in Char, Field!Insert(c) PROVE Field!TypeOK'
  <2>1. <<c>> \in Seq(Char)
    OBVIOUS
  <2> QED BY <1>1, <1>2, <2>1, InsertFits DEF Field!Insert
<1>3. CASE Field!DoubleBlank
  <2>1. <<Blank, Blank>> \in Seq(Char)
    BY EditorAssumption
  <2> QED BY <1>1, <1>3, <2>1, InsertFits DEF Field!DoubleBlank
<1>4. ASSUME NEW w \in Words, Field!Complete(w) PROVE Field!TypeOK'
  <2>1. PICK p \in pos .. Len(text) : Field!InsertAt(p, w)
    BY <1>4 DEF Field!Complete
  <2>2. p \in 0 .. Len(text) /\ w \in Seq(Char)
    BY <1>1, <2>1, EditorAssumption
  <2> QED BY <2>1, <2>2, InsertFits
<1>5. ASSUME NEW t \in Lines \cup {<<>>}, Field!Load(t) PROVE Field!TypeOK'
  <2>1. t \in Seq(Char) /\ Len(t) <= LineMax - 1 /\ Len(t) \in Nat
    <3>1. CASE t \in Lines
      BY <3>1, LinesAre, LenProperties
    <3>2. CASE t = <<>>
      BY <3>2, EditorAssumption
    <3> QED BY <3>1, <3>2
  <2> QED BY <1>5, <2>1 DEF Field!Load, Field!TypeOK
<1>6. CASE Field!Backspace
  <2>1. pos - 1 \in 0 .. Len(text) /\ pos \in pos - 1 .. Len(text)
    BY <1>1, <1>6 DEF Field!Backspace
  <2> QED BY <1>6, <2>1, EraseFits DEF Field!Backspace
<1>7. CASE Field!Delete
  <2>1. pos + 1 \in pos .. Len(text)
    BY <1>1, <1>7 DEF Field!Delete
  <2> QED BY <1>1, <1>7, <2>1, EraseFits DEF Field!Delete
<1>8. CASE Field!BackspaceWord
  <2>1. PICK p \in 0 .. pos : Field!Erase(p, pos)
    BY <1>8 DEF Field!BackspaceWord
  <2>2. p \in 0 .. Len(text) /\ pos \in p .. Len(text)
    BY <1>1, <2>1
  <2> QED BY <2>1, <2>2, EraseFits
<1>9. CASE Field!DeleteWord
  <2>1. PICK q \in pos .. Len(text) : Field!Erase(pos, q)
    BY <1>9 DEF Field!DeleteWord
  <2> QED BY <1>1, <2>1, EraseFits
<1>10. CASE Field!KillToEnd \/ Field!KillToStart
  <2>1. Len(text) \in pos .. Len(text) /\ pos \in 0 .. Len(text)
    BY <1>1
  <2> QED BY <1>1, <1>10, <2>1, EraseFits DEF Field!KillToEnd, Field!KillToStart
<1>11. CASE Field!Left \/ Field!Right
  <2>1. (pos > 0 => pos - 1 \in 0 .. Len(text)) /\ (pos < Len(text) => pos + 1 \in 0 .. Len(text))
    BY <1>1
  <2> QED BY <1>11, <2>1, MoveFits DEF Field!Left, Field!Right
<1>12. CASE Field!LeftWord
  <2>1. PICK p \in 0 .. pos : Field!MoveTo(p)
    BY <1>12 DEF Field!LeftWord
  <2>2. p \in 0 .. Len(text)
    BY <1>1, <2>1
  <2> QED BY <2>1, <2>2, MoveFits
<1>13. CASE Field!RightWord
  <2>1. PICK q \in pos .. Len(text) : Field!MoveTo(q)
    BY <1>13 DEF Field!RightWord
  <2>2. q \in 0 .. Len(text)
    BY <1>1, <2>1
  <2> QED BY <2>1, <2>2, MoveFits
<1>14. CASE Field!Home \/ Field!End
  BY <1>1, <1>14, MoveFits DEF Field!Home, Field!End
<1> QED
  BY <1>2, <1>3, <1>4, <1>5, <1>6, <1>7, <1>8, <1>9, <1>10, <1>11, <1>12, <1>13, <1>14
  DEF Field!Next

-----------------------------------------------------------------------------
(* Recalling an entry is loading a text that fits. *)
LEMMA MoveStep ==
  ASSUME Field!TypeOK, Listing, NEW delta \in {-HistoryMax, -1, 1, HistoryMax}, historymove(delta)
  PROVE  /\ entries' \in Seq(Lines) /\ Len(entries') = Len(entries) /\ at' \in Nat
         /\ UNCHANGED <<field, list>> \/ (Hist!Move(delta) /\ Field!Load(text') /\ text' \in Lines)
<1>1. CASE ~(Len(entries) > 1)
  BY <1>1 DEF historymove, Listing, field, list
<1>2. CASE Len(entries) > 1
  <2>1. Hist!Move(delta) /\ pos' = Len(text')
    BY <1>2 DEF historymove
  <2>2. entries \in Seq(Lines) /\ at \in Nat /\ Len(entries) \in Nat /\ delta \in Int
    BY EditorAssumption, LenProperties DEF Listing
  <2>3. text \in Lines
    BY LinesAre DEF Field!TypeOK
  <2>4. entries' = [entries EXCEPT ![at + 1] = text]
    BY <2>1 DEF Hist!Move
  <2>5. entries' \in Seq(Lines) /\ Len(entries') = Len(entries)
    <3>1. CASE at + 1 \in 1 .. Len(entries)
      BY <2>2, <2>3, <2>4, <3>1, ExceptSeq
    <3>2. CASE at + 1 \notin 1 .. Len(entries)
      <4>1. [entries EXCEPT ![at + 1] = text] = entries
        BY <2>2, <3>2
      <4> QED BY <2>2, <2>4, <4>1
    <3> QED BY <3>1, <3>2
  <2>6. at' \in Nat /\ at' + 1 \in 1 .. Len(entries)
    <3>1. at' = Hist!Greater(0, Hist!Lesser(at + delta, Len(entries) - 1))
      BY <2>1 DEF Hist!Move
    <3>2. at + delta \in Int /\ Len(entries) - 1 \in Nat
      BY <1>2, <2>2
    <3>3. /\ Hist!Lesser(at + delta, Len(entries) - 1) \in Int
          /\ Hist!Lesser(at + delta, Len(entries) - 1) <= Len(entries) - 1
      BY <3>2 DEF Hist!Lesser
    <3>4. at' \in Nat /\ at' <= Len(entries) - 1
      BY <3>1, <3>2, <3>3 DEF Hist!Greater
    <3>5. \A i \in Nat, n \in Nat : i <= n - 1 => i + 1 \in 1 .. n
      OBVIOUS
    <3> QED BY <2>2, <3>4, <3>5
  <2>7. text' = entries'[at' + 1]
    BY <2>1 DEF Hist!Move
  <2>8. text' \in Lines
    BY <2>5, <2>6, <2>7
  <2> QED BY <2>1, <2>5, <2>6, <2>8 DEF Field!Load
<1> QED BY <1>1, <1>2

(* What the decoder does with a byte, whichever byte it is. *)
LEMMA Decoded ==
  ASSUME NEW b, decode(b), Field!TypeOK, decoder \in {"key", "esc", "csi", "1", "3", "4", "digit"}
  PROVE  /\ decoder' \in {"key", "esc", "csi", "1", "3", "4", "digit"}
         /\ \/ UNCHANGED list /\ (Field!Next \/ UNCHANGED field)
            \/ \E delta \in {-HistoryMax, -1, 1, HistoryMax} : historymove(delta)
<1> DEFINE Acts == \/ UNCHANGED list /\ (Field!Next \/ UNCHANGED field)
                   \/ \E delta \in {-HistoryMax, -1, 1, HistoryMax} : historymove(delta)
<1>1. edits(UNCHANGED field) => Acts
  BY DEF edits
<1>2. edits(Field!Left) \/ edits(Field!Right) \/ edits(Field!Home) \/ edits(Field!End) => Acts
  BY DEF edits, Field!Next
<1>3. edits(Field!Backspace) \/ edits(Field!Delete) \/ edits(Field!BackspaceWord) => Acts
  BY DEF edits, Field!Next
<1>4. edits(Field!DeleteWord) \/ edits(Field!KillToEnd) \/ edits(Field!KillToStart) => Acts
  BY DEF edits, Field!Next
<1>5. edits(Field!LeftWord) \/ edits(Field!RightWord) \/ edits(Field!DoubleBlank) => Acts
  BY DEF edits, Field!Next
<1>6. ASSUME NEW c \in Char, edits(Field!Insert(c)) PROVE Acts
  BY <1>6 DEF edits, Field!Next
<1>7. ASSUME NEW w \in Words, edits(Field!Complete(w)) PROVE Acts
  BY <1>7 DEF edits, Field!Next
<1>8. ASSUME NEW delta \in {-HistoryMax, -1, 1, HistoryMax}, historymove(delta) PROVE Acts
  BY <1>8
<1>9. kleft \/ kright \/ kbackspace \/ kdelete \/ home \/ end => Acts
  <2>1. kleft => edits(Field!Left) \/ edits(UNCHANGED field)
    BY DEF kleft, edits
  <2>2. kright => edits(Field!Right) \/ edits(UNCHANGED field)
    BY DEF kright, edits
  <2>3. kbackspace => edits(Field!Backspace) \/ edits(UNCHANGED field)
    BY DEF kbackspace, edits
  <2>4. kdelete => edits(Field!Delete) \/ edits(UNCHANGED field)
    BY DEF kdelete, edits
  <2> HIDE DEF Acts
  <2> QED BY <1>1, <1>2, <1>3, <2>1, <2>2, <2>3, <2>4 DEF home, end
<1> HIDE DEF Acts
<1>10. kshowcomp => Acts
  BY <1>1, <1>5, <1>7 DEF kshowcomp
<1>11. key_byte(b) => Acts
  BY <1>1, <1>3, <1>4, <1>6, <1>8, <1>9, <1>10 DEF key_byte
<1>12. alt_byte(b) => Acts
  BY <1>1, <1>3, <1>4, <1>5, <1>8 DEF alt_byte
<1>13. csi_byte(b) => Acts
  BY <1>1, <1>8, <1>9 DEF csi_byte
<1>14. tilde(decoder, b) => Acts
  BY <1>1, <1>9 DEF tilde
<1>15. Acts
  BY <1>1, <1>11, <1>12, <1>13, <1>14 DEF decode
<1>16. decoder' \in {"key", "esc", "csi", "1", "3", "4", "digit"}
  BY DEF decode
<1> QED BY <1>15, <1>16 DEF Acts

(* A byte that is read keeps the invariant and both promises. *)
LEMMA ByteStep ==
  ASSUME Inv, pc = "reading", UNCHANGED pc, NEW b, decode(b)
  PROVE  /\ Field!TypeOK' /\ Listing'
         /\ decoder' \in {"key", "esc", "csi", "1", "3", "4", "digit"}
         /\ [Field!Next]_(Field!vars) /\ [Hist!Next]_(Hist!vars)
<1>1. /\ Field!TypeOK /\ Listing /\ Len(entries) >= 1 /\ Open /\ Open'
      /\ decoder \in {"key", "esc", "csi", "1", "3", "4", "digit"}
  BY DEF Inv, Control, Listing, Open
<1>2. decoder' \in {"key", "esc", "csi", "1", "3", "4", "digit"}
  BY <1>1, Decoded
<1>3. CASE UNCHANGED list /\ Field!Next
  <2>1. Field!TypeOK'
    BY <1>1, <1>3, FieldStep
  <2>2. text' \in Lines
    <3>1. text' \in Seq(Char) /\ Len(text') <= LineMax - 1
      BY <2>1 DEF Field!TypeOK
    <3> QED BY <3>1, LinesAre
  <2>3. Hist!Edit(text')
    BY <1>1, <1>3 DEF Hist!Edit, list
  <2>4. Listing'
    BY <1>1, <1>3 DEF Listing, list
  <2> QED BY <1>2, <1>3, <2>1, <2>2, <2>3, <2>4 DEF Hist!Next
<1>4. CASE UNCHANGED list /\ UNCHANGED field
  <2>1. UNCHANGED Field!vars /\ UNCHANGED Hist!vars
    BY <1>4 DEF Field!vars, Hist!vars, field, list
  <2>2. Field!TypeOK' /\ Listing'
    BY <1>1, <1>4 DEF Field!TypeOK, Listing, field, list
  <2> QED BY <1>2, <2>1, <2>2
<1>5. ASSUME NEW delta \in {-HistoryMax, -1, 1, HistoryMax}, historymove(delta)
      PROVE  Field!TypeOK' /\ Listing' /\ [Field!Next]_(Field!vars) /\ [Hist!Next]_(Hist!vars)
  <2>1. /\ entries' \in Seq(Lines) /\ Len(entries') = Len(entries) /\ at' \in Nat
        /\ UNCHANGED <<field, list>> \/ (Hist!Move(delta) /\ Field!Load(text') /\ text' \in Lines)
    BY <1>1, <1>5, MoveStep
  <2>2. Listing'
    BY <1>1, <2>1 DEF Listing
  <2>3. CASE UNCHANGED <<field, list>>
    BY <1>4, <2>3
  <2>4. CASE Hist!Move(delta) /\ Field!Load(text') /\ text' \in Lines
    <3>1. Field!Next
      BY <2>4 DEF Field!Next
    <3>2. Hist!Next
      BY <2>4 DEF Hist!Next
    <3>3. Field!TypeOK'
      BY <1>1, <3>1, FieldStep
    <3> QED BY <2>2, <3>1, <3>2, <3>3
  <2> QED BY <2>1, <2>3, <2>4
<1> QED BY <1>1, <1>2, <1>3, <1>4, <1>5, Decoded

-----------------------------------------------------------------------------
(* The start of a line. *)
LEMMA StartStep ==
  ASSUME Inv, line_start
  PROVE  Field!TypeOK' /\ Listing' /\ Field!Load(<<>>) /\ Hist!Start
<1>1. Hist!Start /\ text' = <<>> /\ pos' = 0 /\ Len(<<>>) = 0
  BY DEF line_start, Hist!Start
<1>2. Field!TypeOK' /\ Field!Load(<<>>)
  <2>1. <<>> \in Seq(Char) /\ 0 <= LineMax - 1
    BY EditorAssumption
  <2> QED BY <1>1, <2>1 DEF Field!TypeOK, Field!Load
<1>3. Listing'
  <2> DEFINE e == <<<<>>>> \o entries
             n == Hist!Lesser(Len(entries) + 1, HistoryMax)
  <2>1. entries \in Seq(Lines) /\ Len(entries) \in Nat /\ HistoryMax \in Nat /\ HistoryMax >= 2
    BY EditorAssumption, LenProperties DEF Inv, Listing
  <2>2. <<>> \in Lines
    <3>1. <<>> \in Seq(Char) /\ Len(<<>>) = 0 /\ 0 <= LineMax - 1
      BY EditorAssumption
    <3> QED BY <3>1, LinesAre
  <2>3. <<<<>>>> \in Seq(Lines) /\ Len(<<<<>>>>) = 1
    BY <2>2
  <2>4. e \in Seq(Lines) /\ Len(e) = 1 + Len(entries)
    BY <2>1, <2>3, ConcatProperties
  <2>5. n \in Nat /\ 1 <= n /\ n <= Len(entries) + 1 /\ n <= HistoryMax
    BY <2>1 DEF Hist!Lesser
  <2>6. entries' = SubSeq(e, 1, n) /\ at' = 0
    BY <1>1 DEF Hist!Start
  <2> HIDE DEF e, n
  <2>7. \A i \in 1 .. n : e[i] \in Lines
    BY <2>1, <2>4, <2>5
  <2>8. SubSeq(e, 1, n) \in Seq(Lines) /\ Len(SubSeq(e, 1, n)) = n
    BY <2>5, <2>7, SubSeqProperties
  <2> QED BY <2>5, <2>6, <2>8 DEF Listing
<1> QED BY <1>1, <1>2, <1>3

(* Enter. *)
LEMMA EnterStep ==
  ASSUME Inv, enter
  PROVE  /\ Field!TypeOK' /\ Listing' /\ got' \in Lines
         /\ UNCHANGED field /\ Hist!Accept
         /\ got' # <<>> => entries' # <<>> /\ entries'[1] = got'
<1>1. Hist!Accept /\ UNCHANGED field /\ got' = text /\ pc = "reading" /\ pc' = "idle"
  BY DEF enter, reads, Hist!Accept, field
<1>2. Field!TypeOK' /\ text \in Lines
  BY <1>1, LinesAre DEF Inv, Field!TypeOK, field
<1>3. entries \in Seq(Lines) /\ Len(entries) \in Nat /\ Len(entries) >= 1 /\ Len(entries) <= HistoryMax
      /\ at \in Nat
  BY <1>1, LenProperties DEF Inv, Listing, Open
<1>4. at' = at /\ ~Open'
  BY <1>1 DEF Hist!Accept, Open
<1>5. CASE text = <<>> \/ (Len(entries) > 1 /\ text = entries[2])
  <2>1. entries' = Tail(entries)
    BY <1>1, <1>5 DEF Hist!Accept
  <2>2. /\ Tail(entries) \in Seq(Lines) /\ Len(Tail(entries)) = Len(entries) - 1
        /\ \A i \in 1 .. Len(Tail(entries)) : Tail(entries)[i] = entries[i + 1]
    <3>1. entries # <<>>
      BY <1>3
    <3> QED BY <1>3, <3>1, HeadTailProperties
  <2>3. Len(entries) - 1 <= HistoryMax
    BY <1>3, EditorAssumption
  <2>4. Listing'
    BY <1>3, <1>4, <2>1, <2>2, <2>3 DEF Listing
  <2>5. ASSUME text # <<>> PROVE entries' # <<>> /\ entries'[1] = text
    <3>1. Len(entries) > 1 /\ text = entries[2]
      BY <1>5, <2>5
    <3>2. 1 \in 1 .. Len(Tail(entries)) /\ Len(Tail(entries)) >= 1
      BY <1>3, <2>2, <3>1
    <3>3. Tail(entries)[1] = entries[1 + 1]
      BY <2>2, <3>2
    <3>4. entries' # <<>>
      <4>1. Len(entries') >= 1 /\ Len(<<>>) = 0
        BY <2>1, <3>2
      <4> QED BY <4>1
    <3> QED BY <2>1, <3>1, <3>3, <3>4
  <2> QED BY <1>1, <1>2, <2>4, <2>5
<1>6. CASE ~(text = <<>> \/ (Len(entries) > 1 /\ text = entries[2]))
  <2>1. entries' = [entries EXCEPT ![1] = text]
    BY <1>1, <1>6 DEF Hist!Accept
  <2>2. /\ entries' \in Seq(Lines) /\ Len(entries') = Len(entries) /\ entries'[1] = text
    <3>1. 1 \in 1 .. Len(entries)
      BY <1>3
    <3> QED BY <1>2, <1>3, <2>1, <3>1, ExceptSeq
  <2>3. Listing'
    BY <1>3, <1>4, <2>2 DEF Listing
  <2>4. entries' # <<>>
    BY <1>3, <2>2
  <2> QED BY <1>1, <1>2, <2>2, <2>3, <2>4
<1> QED BY <1>5, <1>6

(* The other ways a line ends. *)
LEMMA GivenUpStep ==
  ASSUME Inv, NEW f, given_up(f), pc = "reading"
  PROVE  /\ Field!TypeOK' /\ Listing' /\ UNCHANGED field /\ Hist!GiveUp
         /\ pc' \in {"idle", "killed"} /\ UNCHANGED <<decoder, got>> /\ sigint' = f
<1>1. /\ Hist!GiveUp /\ UNCHANGED field /\ UNCHANGED list
      /\ pc' \in {"idle", "killed"} /\ UNCHANGED <<decoder, got>> /\ sigint' = f
  BY DEF given_up, raised, Hist!GiveUp, field, list
<1> QED BY <1>1 DEF Inv, Listing, Open, Field!TypeOK, field, list

(* Every step keeps the invariant and is a step, or none, of the line as   *)
(* TextField has it and of the history as InputHistory has it.             *)
LEMMA Step ==
  ASSUME Inv, [Next]_vars
  PROVE  /\ Field!TypeOK' /\ Listing' /\ Control'
         /\ [Field!Next]_(Field!vars) /\ [Hist!Next]_(Hist!vars)
<1> DEFINE Goal == /\ Field!TypeOK' /\ Listing' /\ Control'
                   /\ [Field!Next]_(Field!vars) /\ [Hist!Next]_(Hist!vars)
<1>1. /\ Field!TypeOK /\ Listing /\ Control
  BY DEF Inv
<1>2. ASSUME UNCHANGED <<field, list>>, Open' = Open PROVE
        Field!TypeOK' /\ Listing' /\ UNCHANGED Field!vars /\ UNCHANGED Hist!vars
  BY <1>1, <1>2 DEF Field!TypeOK, Listing, Field!vars, Hist!vars, field, list, Open
<1>3. pending # <<>> => Tail(pending) \in Seq(STRING)
  BY <1>1, HeadTailProperties DEF Control
<1>4. <<>> \in Seq(STRING)
  OBVIOUS
<1>5. CASE line_start
  <2>1. Control'
    BY <1>1, <1>4, <1>5 DEF line_start, rawmode, flush, Control
  <2>2. Field!Next /\ Hist!Next
    BY <1>5, StartStep DEF Field!Next, Hist!Next
  <2> QED BY <1>5, <2>1, <2>2, StartStep
<1>6. CASE simpleline
  <2>1. Hist!Forget /\ UNCHANGED <<field, pc>> /\ at' = 0 /\ entries' = entries
    BY <1>6 DEF simpleline, Hist!Forget, field
  <2>2. Control'
    BY <1>1, <1>6 DEF simpleline, rawmode_refused, input, Control
  <2>3. Field!TypeOK' /\ Listing' /\ UNCHANGED Field!vars
    BY <1>1, <2>1 DEF Field!TypeOK, Listing, Field!vars, field, Open
  <2> QED BY <2>1, <2>2, <2>3 DEF Hist!Next
<1>7. CASE byte
  <2>1. pc = "reading" /\ UNCHANGED pc /\ decode(Head(pending))
    BY <1>7 DEF byte
  <2>2. /\ Field!TypeOK' /\ Listing'
        /\ decoder' \in {"key", "esc", "csi", "1", "3", "4", "digit"}
        /\ [Field!Next]_(Field!vars) /\ [Hist!Next]_(Hist!vars)
    BY <2>1, ByteStep
  <2>3. Control'
    BY <1>1, <1>3, <1>7, <2>2 DEF byte, Control
  <2> QED BY <2>2, <2>3
<1>8. CASE byte_missing
  <2>1. pc = "reading" /\ UNCHANGED pc /\ UNCHANGED <<input, sigint, got>>
    BY <1>8 DEF byte_missing
  <2>2. ASSUME NEW b, decode(b) PROVE Goal
    <3>1. /\ Field!TypeOK' /\ Listing'
          /\ decoder' \in {"key", "esc", "csi", "1", "3", "4", "digit"}
          /\ [Field!Next]_(Field!vars) /\ [Hist!Next]_(Hist!vars)
      BY <2>1, <2>2, ByteStep
    <3>2. Control'
      BY <1>1, <2>1, <3>1 DEF Control, input
    <3> QED BY <3>1, <3>2
  <2>3. ASSUME decoder' = "key", edits(UNCHANGED field) PROVE Goal
    <3>1. UNCHANGED <<field, list>> /\ Open' = Open
      BY <2>1, <2>3 DEF edits, Open
    <3>2. Control'
      BY <1>1, <2>1, <2>3 DEF Control, input
    <3> QED BY <1>2, <3>1, <3>2
  <2> QED BY <1>8, <2>2, <2>3 DEF byte_missing
<1>9. CASE enter
  <2>1. Control'
    BY <1>1, <1>4, <1>9, EnterStep DEF enter, norawmode, flush, Control
  <2>2. UNCHANGED Field!vars /\ Hist!Next
    BY <1>9, EnterStep DEF Field!vars, field, Hist!Next
  <2> QED BY <1>9, <2>1, <2>2, EnterStep
<1>10. ASSUME NEW f \in BOOLEAN, given_up(f), pc = "reading" PROVE Goal
  <2>1. Control'
    BY <1>1, <1>4, <1>10, GivenUpStep DEF given_up, norawmode, flush, Control
  <2>2. UNCHANGED Field!vars /\ Hist!Next
    BY <1>10, GivenUpStep DEF Field!vars, field, Hist!Next
  <2> QED BY <1>10, <2>1, <2>2, GivenUpStep
<1>11. CASE ctrl_c \/ ctrl_d \/ input_end \/ write_fails
  <2>1. sigint \in BOOLEAN
    BY <1>1 DEF Control
  <2>2. pc = "reading"
    BY <1>11 DEF ctrl_c, ctrl_d, input_end, write_fails, reads
  <2>3. given_up(TRUE) \/ given_up(sigint)
    BY <1>11 DEF ctrl_c, ctrl_d, input_end, write_fails
  <2> QED BY <1>10, <2>1, <2>2, <2>3
<1>12. CASE refresh_fails
  <2>1. Control'
    BY <1>1, <1>12 DEF refresh_fails, input, Control
  <2>2. UNCHANGED Field!vars /\ Field!TypeOK' /\ Listing'
    BY <1>1, <1>12 DEF refresh_fails, Field!vars, Field!TypeOK, Listing, Open, field, list
  <2>3. Hist!GiveUp
    BY <1>12 DEF refresh_fails, Hist!GiveUp, field, list
  <2> QED BY <2>1, <2>2, <2>3 DEF Hist!Next
<1>13. CASE ctrl_z
  <2>1. Control'
    BY <1>1, <1>4, <1>13 DEF ctrl_z, norawmode, flush, Control
  <2>2. UNCHANGED <<field, list>> /\ Open' = Open
    BY <1>13 DEF ctrl_z, reads, Open
  <2> QED BY <1>2, <2>1, <2>2
<1>14. CASE continued
  <2>1. Control'
    BY <1>1, <1>4, <1>14 DEF continued, rawmode, rawmode_refused, input, flush, Control
  <2>2. UNCHANGED <<field, list>> /\ Open' = Open
    BY <1>14 DEF continued, Open
  <2> QED BY <1>2, <2>1, <2>2
<1>15. CASE press
  <2>1. Control'
    BY <1>1, <1>15, EditorAssumption DEF press, Control
  <2>2. UNCHANGED <<field, list>> /\ Open' = Open
    BY <1>15 DEF press, Open
  <2> QED BY <1>2, <2>1, <2>2
<1>16. CASE hangup
  <2>1. Control'
    BY <1>1, <1>4, <1>16 DEF hangup, Control
  <2>2. UNCHANGED <<field, list>> /\ Open' = Open
    BY <1>16 DEF hangup, Open
  <2> QED BY <1>2, <2>1, <2>2
<1>17. CASE stty \/ UNCHANGED vars
  <2>1. Control'
    BY <1>1, <1>17 DEF stty, vars, input, Control
  <2>2. UNCHANGED <<field, list>> /\ Open' = Open
    BY <1>17 DEF stty, vars, Open
  <2> QED BY <1>2, <2>1, <2>2
<1> QED
  BY <1>5, <1>6, <1>7, <1>8, <1>9, <1>11, <1>12, <1>13, <1>14, <1>15, <1>16, <1>17 DEF Next

-----------------------------------------------------------------------------
(* The inductive invariant: the line fits its buffer, the history its      *)
(* array, and norawmode() always has the settings to give back.            *)
THEOREM EditorInvariant == Spec => []Inv
<1>1. Init => Inv
  <2>1. Init => Field!TypeOK
    BY EditorAssumption DEF Init, Field!Init, Field!TypeOK
  <2>2. Init => Listing /\ Control
    <3>1. <<>> \in Seq(Lines) /\ Len(<<>>) = 0 /\ <<>> \in Seq(STRING)
      OBVIOUS
    <3>2. Init => Listing
      BY <3>1, EditorAssumption DEF Init, Listing, Open
    <3>3. Init => Control
      BY <3>1 DEF Init, Control
    <3> QED BY <3>2, <3>3
  <2> QED BY <2>1, <2>2, SettingsInit DEF Inv
<1>2. Inv /\ [Next]_vars => Inv'
  BY Step, SettingsStep DEF Inv
<1> QED BY <1>1, <1>2, PTL DEF Spec

(* line() gives the terminal back as the others on it rely on, however     *)
(* often it is stopped, continued and reconfigured in between.             *)
THEOREM GivesTheTerminalBack == Spec => []TerminalGivenBack
<1>1. Inv => TerminalGivenBack
  BY DEF Inv, Settings, TerminalGivenBack
<1> QED BY <1>1, EditorInvariant, PTL

(* Every variable keeps its type: the line fits gbl_buf and the history    *)
(* gbl_history.                                                            *)
THEOREM StaysTyped == Spec => []TypeOK
<1>1. Inv => TypeOK
  <2>1. Inv => text \in Lines
    BY LinesAre DEF Inv, Field!TypeOK
  <2> QED BY <2>1 DEF Inv, Listing, Control, Settings, TypeOK, Hist!TypeOK
<1> QED BY <1>1, EditorInvariant, PTL

(* A line that Enter returns is the newest entry of the history.           *)
THEOREM ReturnsTheNewest == Spec => NewestIsReturned
<1>1. Inv /\ [Next]_vars =>
        [got' # got /\ got' \notin {NoLine, <<>>} => entries' # <<>> /\ entries'[1] = got']_vars
  <2> SUFFICES ASSUME Inv, [Next]_vars, got' # got, got' \notin {NoLine, <<>>}
               PROVE  entries' # <<>> /\ entries'[1] = got'
    OBVIOUS
  <2>1. line_start \/ enter
    <3>1. CASE ctrl_c \/ ctrl_d \/ input_end \/ write_fails
      BY <3>1 DEF ctrl_c, ctrl_d, input_end, write_fails, given_up
    <3>2. CASE simpleline \/ byte \/ byte_missing \/ refresh_fails \/ ctrl_z \/ continued
      BY <3>2 DEF simpleline, byte, byte_missing, refresh_fails, ctrl_z, continued
    <3>3. CASE press \/ hangup \/ stty \/ UNCHANGED vars
      BY <3>3 DEF press, hangup, stty, vars
    <3> QED BY <3>1, <3>2, <3>3 DEF Next
  <2>2. enter
    BY <2>1 DEF line_start
  <2> QED BY <2>2, EnterStep
<1> QED BY <1>1, EditorInvariant, PTL DEF Spec, NewestIsReturned

(* The line is edited as TextField says, by every key, error and stop.     *)
THEOREM EditsAreTextEdits == Spec => KeepsTheText
<1>1. Init => Field!Init
  BY DEF Init
<1>2. Inv /\ [Next]_vars => [Field!Next]_(Field!vars)
  BY Step
<1> QED BY <1>1, <1>2, EditorInvariant, PTL DEF Spec, KeepsTheText, Field!Spec

(* The history is kept as InputHistory says, by every key, error and stop. *)
THEOREM HistoryIsKept == Spec => KeepsTheHistory
<1>1. Init => Hist!Init
  BY DEF Init, Field!Init, Hist!Init
<1>2. Inv /\ [Next]_vars => [Hist!Next]_(Hist!vars)
  BY Step
<1> QED BY <1>1, <1>2, EditorInvariant, PTL DEF Spec, KeepsTheHistory, Hist!Spec

-----------------------------------------------------------------------------
(* Sequences.  Between two bytes of one the decoder is where those already *)
(* read have taken it.                                                     *)
Awaits(n) ==
  \/ n = 0 /\ decoder = "key"
  \/ n = 1 /\ decoder = "esc"
  \/ n = 2 /\ decoder = "csi"
  \/ n = 3 /\ decoder \in {"1", "3", "4", "digit"}

Aligned ==
  /\ hungup => pending = <<>>
  /\ pc \in {"idle", "stopped"} => decoder = "key"
  /\ key \in Seq(STRING) /\ Len(pending) <= Len(key)
  /\ \A i \in 1 .. Len(pending) : pending[i] = key[Done + i]
  /\ pending = <<>> /\ ~hungup => (decoder = "key" <=> key = <<>>)
  /\ ~hungup /\ key # <<>> /\ key[1] = "ESC" /\ Done < Taken(key) => Awaits(Done)

(* What the next byte of a sequence is, and where it takes the decoder.    *)
LEMMA KeyByte ==
  ASSUME Inv, Aligned, pending # <<>>, key[1] = "ESC",
         NEW n, n = Done, n < Taken(key), NEW b, b = Head(pending), decode(b)
  PROVE  /\ n \in 0 .. 3 /\ Awaits(n)
         /\ n + 1 = Taken(key) => n # 0 /\ decoder' = "key"
         /\ n + 1 < Taken(key) =>
              /\ UNCHANGED <<field, list>>
              /\ n \in 0 .. 2 /\ Awaits(n + 1)'
<1>1. /\ pending \in Seq(STRING) /\ Len(pending) \in Nat /\ Len(pending) >= 1
      /\ key \in Seq(STRING) /\ Len(key) \in Nat /\ Len(pending) <= Len(key)
      /\ \A i \in 1 .. Len(pending) : pending[i] = key[Done + i]
      /\ ~hungup
  BY DEF Inv, Control, Aligned
<1>2. key # <<>> /\ n \in Nat /\ n = Len(key) - Len(pending) /\ n + 1 <= Len(key)
  BY <1>1 DEF Done
<1>3. b = key[n + 1]
  BY <1>1
<1>4. Awaits(n)
  BY <1>1, <1>2 DEF Aligned
<1>5. n \in 0 .. 3
  BY <1>4 DEF Awaits
<1>6. Taken(key) \in 2 .. 4
  BY DEF Taken
<1>7. CASE n = 0
  <2>1. b = "ESC" /\ decoder = "key"
    BY <1>3, <1>4, <1>7 DEF Awaits
  <2>2. ~key_byte(b)
    BY <2>1, EditorAssumption DEF key_byte
  <2>3. decoder' = "esc" /\ UNCHANGED <<field, list>>
    BY <2>1, <2>2 DEF decode, edits
  <2>4. Awaits(1)'
    BY <2>3 DEF Awaits
  <2> QED BY <1>4, <1>6, <1>7, <2>3, <2>4
<1>8. CASE n = 1
  <2>1. b = key[2] /\ Len(key) >= 2 /\ decoder = "esc"
    BY <1>2, <1>3, <1>4, <1>8 DEF Awaits
  <2>2. CASE b = "["
    <3>1. Taken(key) # 2
      BY <1>1, <2>1, <2>2 DEF Taken
    <3>2. decoder' = "csi" /\ UNCHANGED <<field, list>>
      BY <2>1, <2>2 DEF decode, edits
    <3>3. Awaits(2)'
      BY <3>2 DEF Awaits
    <3> QED BY <1>4, <1>6, <1>8, <3>1, <3>2, <3>3
  <2>3. CASE b # "["
    <3>1. Taken(key) = 2
      BY <2>1, <2>3 DEF Taken
    <3>2. decoder' = "key"
      BY <2>1, <2>3 DEF decode
    <3> QED BY <1>4, <1>8, <3>1, <3>2
  <2> QED BY <2>2, <2>3
<1>9. CASE n = 2
  <2>1. b = key[3] /\ Len(key) >= 3 /\ decoder = "csi" /\ Taken(key) # 2
    BY <1>2, <1>3, <1>4, <1>9 DEF Awaits
  <2>2. ~(Len(key) < 2 \/ key[2] # "[")
    BY <2>1 DEF Taken
  <2>3. CASE b \in Digits
    <3>1. Taken(key) = 4
      BY <1>1, <2>1, <2>2, <2>3 DEF Taken
    <3>2. decoder' \in {"1", "3", "4", "digit"} /\ UNCHANGED <<field, list>>
      BY <2>1, <2>3 DEF decode, edits
    <3>3. Awaits(3)'
      BY <3>2 DEF Awaits
    <3> QED BY <1>4, <1>9, <3>1, <3>2, <3>3
  <2>4. CASE b \notin Digits
    <3>1. Taken(key) = 3
      BY <2>1, <2>2, <2>4 DEF Taken
    <3>2. decoder' = "key"
      BY <2>1, <2>4 DEF decode
    <3> QED BY <1>4, <1>9, <3>1, <3>2
  <2> QED BY <2>3, <2>4
<1>10. CASE n = 3
  <2>1. decoder \in {"1", "3", "4", "digit"} /\ Taken(key) = 4
    BY <1>4, <1>6, <1>10 DEF Awaits
  <2>2. decoder' = "key"
    BY <2>1 DEF decode
  <2> QED BY <1>4, <1>10, <2>1, <2>2
<1> QED BY <1>5, <1>7, <1>8, <1>9, <1>10

(* More bytes behind those of a key change nothing of what was taken.      *)
LEMMA TakenBefore ==
  ASSUME NEW k \in Seq(STRING), k # <<>>, NEW r \in Seq(STRING), Len(k) < Taken(k \o r)
  PROVE  Len(k) < Taken(k) /\ (k \o r)[1] = k[1]
<1>1. Len(k) \in Nat /\ Len(k) >= 1 /\ Len(r) \in Nat /\ Len(k \o r) = Len(k) + Len(r)
  OBVIOUS
<1>2. \A i \in 1 .. Len(k) : (k \o r)[i] = k[i]
  OBVIOUS
<1>3. Taken(k \o r) \in 2 .. 4 /\ Taken(k) \in 2 .. 4
  BY DEF Taken
<1>4. CASE Len(k) = 1
  BY <1>1, <1>2, <1>3, <1>4
<1>5. CASE Len(k) = 2
  <2>1. (k \o r)[2] = k[2] /\ Taken(k \o r) # 2 /\ Len(k \o r) >= 2
    BY <1>1, <1>2, <1>5
  <2>2. k[2] = "["
    BY <1>1, <2>1 DEF Taken
  <2>3. Taken(k) = 3
    BY <1>5, <2>2 DEF Taken
  <2> QED BY <1>1, <1>2, <1>5, <2>3
<1>6. CASE Len(k) = 3
  <2>1. (k \o r)[2] = k[2] /\ (k \o r)[3] = k[3] /\ Taken(k \o r) = 4 /\ Len(k \o r) >= 3
    BY <1>1, <1>2, <1>3, <1>6
  <2>2. k[2] = "[" /\ k[3] \in Digits
    BY <1>1, <2>1 DEF Taken
  <2>3. Taken(k) = 4
    BY <1>6, <2>2 DEF Taken
  <2> QED BY <1>1, <1>2, <1>6, <2>3
<1>7. Len(k) = 1 \/ Len(k) = 2 \/ Len(k) = 3
  <2>1. \A a \in Nat, t \in 2 .. 4 : a >= 1 /\ a < t => a = 1 \/ a = 2 \/ a = 3
    OBVIOUS
  <2> QED BY <1>1, <1>3, <2>1
<1> QED BY <1>4, <1>5, <1>6, <1>7

(* Every step leaves the bytes of a sequence together.                     *)
LEMMA AlignedStep ==
  ASSUME Inv, Aligned, [Next]_vars
  PROVE  Aligned'
<1>1. pending \in Seq(STRING) /\ key \in Seq(STRING)
  BY DEF Inv, Control, Aligned
<1>0. ASSUME flush, decoder' = "key" PROVE Aligned'
  BY <1>0 DEF flush, Aligned, Done
<1>14. ASSUME UNCHANGED <<key, pending, hungup, decoder>>, pc' \in {"idle", "stopped"} => decoder = "key"
       PROVE  Aligned'
  BY <1>14 DEF Aligned, Awaits, Done
<1>2. CASE byte
  <2>1. /\ pc = "reading" /\ pc' = pc /\ pending # <<>> /\ decode(Head(pending)) /\ pending' = Tail(pending)
        /\ key' = IF pending' = <<>> /\ decoder' = "key" THEN <<>> ELSE key
        /\ UNCHANGED hungup
    BY <1>2 DEF byte
  <2>2. ~hungup /\ Len(pending) <= Len(key) /\ Len(key) \in Nat /\ Len(pending) \in Nat /\ Len(pending) >= 1
    BY <1>1, <2>1 DEF Aligned
  <2>3. CASE pending' = <<>> /\ decoder' = "key"
    <3>1. key' = <<>> /\ pending' = <<>> /\ decoder' = "key"
      BY <2>1, <2>3
    <3>2. <<>> \in Seq(STRING) /\ Len(pending') <= Len(key')
      BY <3>1
    <3>3. \A i \in 1 .. Len(pending') : pending'[i] = key'[Done' + i]
      BY <3>1
    <3> QED BY <2>1, <3>1, <3>2, <3>3 DEF Aligned
  <2>4. CASE ~(pending' = <<>> /\ decoder' = "key")
    <3>0. PICK n : n = Len(key) - Len(pending)
      OBVIOUS
    <3>1. key' = key /\ key # <<>> /\ n \in Nat
      BY <2>1, <2>2, <2>4, <3>0
    <3>2. Len(pending') = Len(pending) - 1 /\ \A i \in 1 .. Len(pending') : pending'[i] = pending[i + 1]
      BY <1>1, <2>1
    <3>3. Done' = n + 1
      BY <2>2, <3>0, <3>1, <3>2 DEF Done
    <3>4. \A i \in 1 .. Len(pending) : pending[i] = key[n + i]
      BY <3>0 DEF Aligned, Done
    <3>5. \A i \in 1 .. Len(pending') : pending'[i] = key'[Done' + i]
      <4> SUFFICES ASSUME NEW i \in 1 .. Len(pending') PROVE pending'[i] = key'[Done' + i]
        OBVIOUS
      <4>1. i + 1 \in 1 .. Len(pending) /\ n + (i + 1) = (n + 1) + i
        BY <2>2, <3>1, <3>2
      <4> QED BY <3>1, <3>2, <3>3, <3>4, <4>1
    <3>6. ASSUME key[1] = "ESC", n + 1 < Taken(key) PROVE Awaits(n + 1)'
      <4>1. Taken(key) \in Nat /\ n < Taken(key) /\ n = Done
        BY <3>0, <3>1, <3>6 DEF Taken, Done
      <4> QED BY <2>1, <3>6, <4>1, KeyByte
    <3>7. (key[1] = "ESC" /\ Done < Taken(key) => Awaits(Done))'
      <4>1. ASSUME key[1] = "ESC", n + 1 < Taken(key) PROVE Awaits(Done)'
        <5>1. Awaits(n + 1)'
          BY <3>6, <4>1
        <5> QED BY <3>3, <5>1 DEF Awaits
      <4>2. Taken(key)' = Taken(key)
        BY <3>1 DEF Taken
      <4> QED BY <3>1, <3>3, <4>1, <4>2
    <3>8. Len(pending') <= Len(key') /\ key' \in Seq(STRING)
      BY <1>1, <2>2, <3>1, <3>2
    <3>9. (pending = <<>> /\ ~hungup => (decoder = "key" <=> key = <<>>))'
      BY <2>4, <3>1
    <3> QED BY <2>1, <2>2, <3>5, <3>7, <3>8, <3>9 DEF Aligned
  <2> QED BY <2>3, <2>4
<1>3. CASE byte_missing
  BY <1>3 DEF byte_missing, input, Aligned, Done
<1>4. CASE line_start
  BY <1>0, <1>4 DEF line_start, rawmode
<1>5. CASE simpleline
  BY <1>5, <1>14 DEF simpleline, rawmode_refused, input, Aligned
<1>6. CASE enter \/ ctrl_c \/ ctrl_d \/ input_end \/ write_fails
  BY <1>0, <1>6 DEF enter, ctrl_c, ctrl_d, input_end, write_fails, given_up, norawmode
<1>7. CASE ctrl_z
  BY <1>0, <1>7 DEF ctrl_z, norawmode
<1>8. CASE refresh_fails
  BY <1>8, <1>14 DEF refresh_fails, input
<1>9. CASE continued
  <2>1. decoder = "key" /\ decoder' = "key" /\ pc' = "reading" /\ (rawmode \/ rawmode_refused)
    BY <1>9 DEF continued, Aligned
  <2>2. CASE rawmode
    BY <1>0, <2>1, <2>2 DEF rawmode
  <2>3. CASE rawmode_refused
    BY <1>14, <2>1, <2>3 DEF rawmode_refused, input
  <2> QED BY <2>1, <2>2, <2>3
<1>10. CASE press
  <2>1. /\ pending' \in Seq(STRING) /\ pending' # <<>> /\ key' = key \o pending' /\ decoder' = decoder
        /\ ~hungup /\ UNCHANGED <<hungup, pc>> /\ pending = <<>>
    BY <1>10, EditorAssumption DEF press
  <2>2. /\ key' \in Seq(STRING) /\ Len(key') = Len(key) + Len(pending')
        /\ Len(key) \in Nat /\ Len(pending') \in Nat
        /\ \A i \in 1 .. Len(pending') : key'[Len(key) + i] = pending'[i]
    BY <1>1, <2>1
  <2>3. Done' = Len(key) /\ Done = Len(key) /\ Len(pending') <= Len(key')
    BY <2>1, <2>2 DEF Done
  <2>4. decoder = "key" <=> key = <<>>
    BY <2>1 DEF Aligned
  <2>5. (key[1] = "ESC" /\ Done < Taken(key) => Awaits(Done))'
    <3> SUFFICES ASSUME key'[1] = "ESC", Len(key) < Taken(key') PROVE Awaits(Done)'
      BY <2>3 DEF Taken
    <3>1. CASE key = <<>>
      BY <2>1, <2>3, <2>4, <3>1 DEF Awaits
    <3>2. CASE key # <<>>
      <4>1. Len(key) < Taken(key) /\ key[1] = "ESC"
        BY <1>1, <2>1, <3>2, TakenBefore
      <4>2. Awaits(Len(key))
        BY <2>1, <2>3, <3>2, <4>1 DEF Aligned
      <4> QED BY <2>1, <2>3, <4>2 DEF Awaits
    <3> QED BY <3>1, <3>2
  <2> QED BY <2>1, <2>2, <2>3, <2>5 DEF Aligned
<1>11. CASE hangup
  BY <1>11 DEF hangup, Aligned, Done
<1>12. CASE stty
  BY <1>12, <1>14 DEF stty, input, Aligned
<1>13. CASE UNCHANGED vars
  BY <1>13, <1>14 DEF vars, input, Aligned
<1> QED
  BY <1>2, <1>3, <1>4, <1>5, <1>6, <1>7, <1>8, <1>9, <1>10, <1>11, <1>12, <1>13 DEF Next

(* What the second and later bytes of a key do makes no line longer, where *)
(* it recalls none; typing makes it longer.                                *)
LEMMA NoLonger ==
  ASSUME Inv, NEW b, edits(UNCHANGED field) \/ alt_byte(b) \/ csi_byte(b) \/ tilde(decoder, b), at' = at, pc = "reading"
  PROVE  text' # Field!Splice(pos, pos, <<b>>)
<1>1. /\ text \in Seq(Char) /\ Len(text) \in Nat /\ pos \in 0 .. Len(text) /\ pos \in Nat /\ pos <= Len(text)
      /\ Field!TypeOK /\ Listing /\ entries \in Seq(Lines) /\ Len(entries) \in Nat /\ at \in Nat
  BY DEF Inv, Field!TypeOK, Listing
<1>2. Len(Field!Splice(pos, pos, <<b>>)) = Len(text) + 1
  <2> DEFINE C == Char \cup {b}
             x == SubSeq(text, 1, pos)
             y == SubSeq(text, pos + 1, Len(text))
  <2>1. text \in Seq(C)
    BY <1>1
  <2>2. x \in Seq(C) /\ Len(x) = pos /\ y \in Seq(C) /\ Len(y) = Len(text) - pos
    <3> HIDE DEF C
    <3> QED BY <1>1, <2>1
  <2>3. <<b>> \in Seq(C) /\ Len(<<b>>) = 1
    OBVIOUS
  <2> HIDE DEF C, x, y
  <2>4. Len((x \o <<b>>) \o y) = pos + 1 + (Len(text) - pos)
    <3>1. x \o <<b>> \in Seq(C) /\ Len(x \o <<b>>) = pos + 1
      BY <2>2, <2>3, ConcatProperties
    <3>2. Len((x \o <<b>>) \o y) = Len(x \o <<b>>) + Len(y)
      BY <2>2, <3>1, ConcatProperties
    <3> QED BY <2>2, <3>1, <3>2
  <2>5. Field!Splice(pos, pos, <<b>>) = (x \o <<b>>) \o y
    BY DEF x, y, Field!Splice
  <2>6. pos + 1 + (Len(text) - pos) = Len(text) + 1
    BY <1>1
  <2> QED BY <2>4, <2>5, <2>6
<1>3. ASSUME NEW p \in 0 .. Len(text), NEW q \in p .. Len(text), Field!Erase(p, q)
      PROVE  Len(text') \in Nat /\ Len(text') <= Len(text)
  <2>1. <<>> \in Seq(Char) /\ Len(<<>>) = 0
    OBVIOUS
  <2>2. Len(text') = p + 0 + (Len(text) - q)
    BY <1>1, <1>3, <2>1, SpliceFits DEF Field!Erase
  <2> QED BY <1>1, <2>2
<1>4. edits(UNCHANGED field) => Len(text') \in Nat /\ Len(text') <= Len(text)
  BY <1>1 DEF edits, field
<1>5. kleft \/ kright \/ home \/ end => Len(text') \in Nat /\ Len(text') <= Len(text)
  BY <1>1 DEF kleft, kright, home, end, edits, field, Field!Left, Field!Right, Field!Home, Field!End, Field!MoveTo
<1>6. kdelete => Len(text') \in Nat /\ Len(text') <= Len(text)
  <2>1. pos < Len(text) => pos + 1 \in pos .. Len(text)
    BY <1>1
  <2> QED BY <1>1, <1>3, <1>4, <2>1 DEF kdelete, edits, field, Field!Delete
<1>7. edits(Field!DeleteWord) \/ edits(Field!BackspaceWord) => Len(text') \in Nat /\ Len(text') <= Len(text)
  <2>1. ASSUME NEW p \in 0 .. pos PROVE p \in 0 .. Len(text) /\ pos \in p .. Len(text)
    BY <1>1
  <2> QED BY <1>1, <1>3, <2>1 DEF edits, Field!DeleteWord, Field!BackspaceWord
<1>8. edits(Field!LeftWord) \/ edits(Field!RightWord) => Len(text') \in Nat /\ Len(text') <= Len(text)
  BY <1>1 DEF edits, Field!LeftWord, Field!RightWord, Field!MoveTo
<1>9. ASSUME NEW delta \in {-HistoryMax, -1, 1, HistoryMax}, historymove(delta)
      PROVE  text' = text
  <2>1. CASE UNCHANGED <<field, list>>
    BY <2>1 DEF field
  <2>2. CASE Hist!Move(delta)
    <3>1. at' + 1 \in 1 .. Len(entries)
      <4>1. at' = Hist!Greater(0, Hist!Lesser(at + delta, Len(entries) - 1)) /\ Len(entries) > 1
        BY <2>2 DEF Hist!Move
      <4>2. delta \in Int
        BY EditorAssumption
      <4>3. Hist!Lesser(at + delta, Len(entries) - 1) \in Int /\ Hist!Lesser(at + delta, Len(entries) - 1) <= Len(entries) - 1
        BY <1>1, <4>2 DEF Hist!Lesser
      <4>4. at' \in Nat /\ at' <= Len(entries) - 1
        BY <1>1, <4>1, <4>3 DEF Hist!Greater
      <4>5. \A i \in Nat, n \in Nat : i <= n - 1 => i + 1 \in 1 .. n
        OBVIOUS
      <4> QED BY <1>1, <4>4, <4>5
    <3>2. entries' = [entries EXCEPT ![at + 1] = text] /\ text' = entries'[at' + 1]
      BY <2>2 DEF Hist!Move
    <3>3. entries'[at + 1] = text
      BY <1>1, <3>1, <3>2
    <3> QED BY <3>2, <3>3
  <2> QED BY <1>1, <1>9, <2>1, <2>2, MoveStep
<1>10. (\E delta \in {-HistoryMax, -1, 1, HistoryMax} : historymove(delta)) =>
         Len(text') \in Nat /\ Len(text') <= Len(text)
  BY <1>1, <1>9
<1>11. Len(text') \in Nat /\ Len(text') <= Len(text)
  <2>1. CASE alt_byte(b)
    BY <1>4, <1>7, <1>8, <1>10, <2>1 DEF alt_byte
  <2>2. CASE csi_byte(b)
    BY <1>4, <1>5, <1>10, <2>2 DEF csi_byte
  <2>3. CASE tilde(decoder, b)
    BY <1>4, <1>5, <1>6, <2>3 DEF tilde
  <2> QED BY <1>4, <2>1, <2>2, <2>3
<1> QED BY <1>1, <1>2, <1>11

(* What begins with Esc acts once, on the last byte the decoder takes of   *)
(* it, and none of these bytes is taken for text, whatever the keys send   *)
(* and wherever the sequence is cut.                                       *)
THEOREM KeysAreAtomic == Spec => FunctionKeysAtomic
<1>1. Init => Aligned
  BY DEF Init, Aligned, Done
<1>2. Inv /\ Aligned /\ [Next]_vars => Aligned'
  BY AlignedStep
<1>3. Inv /\ Aligned /\ [Next]_vars =>
        [byte /\ key[1] = "ESC" /\ Done < Taken(key) =>
           /\ Done + 1 < Taken(key) => UNCHANGED <<field, list>> /\ decoder' # "key"
           /\ Done + 1 = Taken(key) => decoder' = "key"
           /\ UNCHANGED at => text' # Field!Splice(pos, pos, <<Head(pending)>>)]_vars
  <2> SUFFICES ASSUME Inv, Aligned, byte, key[1] = "ESC", Done < Taken(key)
               PROVE  /\ Done + 1 < Taken(key) => UNCHANGED <<field, list>> /\ decoder' # "key"
                      /\ Done + 1 = Taken(key) => decoder' = "key"
                      /\ UNCHANGED at => text' # Field!Splice(pos, pos, <<Head(pending)>>)
    OBVIOUS
  <2> DEFINE b == Head(pending)
  <2>1. pc = "reading" /\ pending # <<>> /\ decode(b)
    BY DEF byte
  <2>2. /\ Done \in 0 .. 3 /\ Awaits(Done)
        /\ Done + 1 = Taken(key) => Done # 0 /\ decoder' = "key"
        /\ Done + 1 < Taken(key) =>
              /\ UNCHANGED <<field, list>>
              /\ Done \in 0 .. 2 /\ decoder' # "key"
    <3> SUFFICES ASSUME NEW n, n = Done
                 PROVE  /\ n \in 0 .. 3 /\ Awaits(n)
                        /\ n + 1 = Taken(key) => n # 0 /\ decoder' = "key"
                        /\ n + 1 < Taken(key) =>
                             /\ UNCHANGED <<field, list>>
                             /\ n \in 0 .. 2 /\ decoder' # "key"
      OBVIOUS
    <3>1. /\ n \in 0 .. 3 /\ Awaits(n)
          /\ n + 1 = Taken(key) => n # 0 /\ decoder' = "key"
          /\ n + 1 < Taken(key) => UNCHANGED <<field, list>> /\ n \in 0 .. 2 /\ Awaits(n + 1)'
      BY <2>1, KeyByte
    <3>2. ASSUME n \in 0 .. 2, Awaits(n + 1)' PROVE decoder' # "key"
      BY <3>2 DEF Awaits
    <3> QED BY <3>1, <3>2
  <2>3. UNCHANGED at => text' # Field!Splice(pos, pos, <<b>>)
    <3>1. CASE decoder = "key"
      <4>1. Done = 0 /\ Done + 1 < Taken(key)
        BY <2>2, <3>1 DEF Awaits, Taken
      <4>2. edits(UNCHANGED field)
        BY <2>2, <4>1 DEF edits, list
      <4> QED BY <2>1, <4>2, NoLonger
    <3>2. CASE decoder # "key"
      <4>1. edits(UNCHANGED field) \/ alt_byte(b) \/ csi_byte(b) \/ tilde(decoder, b)
        BY <2>1, <3>2 DEF decode
      <4> QED BY <2>1, <4>1, NoLonger
    <3> QED BY <3>1, <3>2
  <2> QED BY <2>2, <2>3
<1> QED BY <1>1, <1>2, <1>3, EditorInvariant, PTL DEF Spec, FunctionKeysAtomic
=============================================================================
