--------------------------- MODULE MCLineBuffer ---------------------------
(* Instances of LineBuffer for TLC: a letter, a blank and a bracket, which *)
(* is neither a space nor a symbol character.                              *)
EXTENDS LineBuffer

CONSTANTS letter, blank, bracket

MCChar    == {letter, blank, bracket}
MCSpace   == {blank}
MCSymbol  == {letter}
MCWords   == {<<>>, <<letter>>, <<letter, letter>>}

(* One empty slot, one short line and one that fills the array. *)
MCRecall ==
  {<<>>, <<letter, blank>>,
   [i \in 1 .. LineMax - 1 |-> IF i % 2 = 1 THEN letter ELSE bracket]}
=============================================================================
