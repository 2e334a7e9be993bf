----------------------------- MODULE MCSqlEval -----------------------------
(* Instances of SqlEval for TLC. *)
EXTENDS SqlEval

Create == [op |-> "create", table |-> "t", slots |-> 0]
Drop   == [op |-> "drop", table |-> "t", slots |-> 0]
Insert == [op |-> "insert", table |-> "t", slots |-> 1]
Select == [op |-> "select", table |-> "t", slots |-> 0]

MCTexts ==
  {<<>>, <<Create>>, <<Insert, Insert, Drop>>}

MCParams ==
  {Nothing, [indexed |-> TRUE, keys |-> {1}], [indexed |-> FALSE, keys |-> {2}]}

(* One text that creates a table and uses it. *)
ChainTexts == {<<Create>>, <<Create, Insert, Select>>}
NoParams   == {Nothing}
=============================================================================
