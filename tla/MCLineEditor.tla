--------------------------- MODULE MCLineEditor ---------------------------
(* Instances of LineEditor for TLC. *)
EXTENDS LineEditor

MCChar   == {"~", "A"}
MCWords  == {<<>>, <<"A">>}

Single ==
  {"A", "^A", "^B", "^C", "^D", "^E", "^F", "^H", "^I", "^K", "^L", "^M", "^N", "^P", "^U",
   "^W", "^Z", "DEL"}
Arrows   == {<<"ESC", "[", b>> : b \in {"A", "B", "C", "D", "H", "F", "other"}}
Tildes   == {<<"ESC", "[", d, "~">> : d \in {"1", "3", "4", "5"}}
Alts     == {<<"ESC", b>> : b \in {"d", "b", "f", ",", ".", "DEL"}}

(* Esc and then Enter, Esc or a letter. *)
Cut      == {<<"ESC", b>> : b \in {"^M", "ESC", "A"}}
(* F5 and F1 of the Linux console send more than decode() reads. *)
Long     == {<<"ESC", "[", "1", "5", "~">>, <<"ESC", "[", "[", "A">>}

MCKeys   == {<<b>> : b \in Single} \cup Arrows \cup Tildes \cup Alts \cup Cut \cup Long

Ss3Keys  == {<<"a">>, <<"ESC", "O", "H">>}
=============================================================================
