--------------------------- MODULE MCCompletion ---------------------------
(* Instances of Completion for TLC: a local table over a core one, with a  *)
(* symbol that is in both.                                                 *)
EXTENDS Completion

MCChains ==
  {<<{<<1, 1>>, <<1, 2, 1>>}, {<<1, 1>>, <<1, 2, 2>>, <<2>>, <<1>>}>>,
   <<{<<1, 2, 1>>, <<1, 2, 2>>, <<1, 2, 2, 1>>}, {<<2, 1>>}>>,
   <<{<<2, 2>>}>>}
MCSpecials == {<<1, 2, 2, 2>>, <<2, 1, 1>>}
MCTyped    == {<<>>, <<1>>, <<1, 2>>, <<2>>, <<3>>}
=============================================================================
