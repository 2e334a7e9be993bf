---------------------------- MODULE SqlSession ----------------------------
(***************************************************************************)
(* What sqlite3/eval promises the threads that share a database: the       *)
(* statements of a text are run in order, each once and each at one        *)
(* moment, until all are done or one is given up; what was done stays.     *)
(* The answer to a text that was done is what its last statement found.    *)
(*                                                                         *)
(* A database is the set of its tables: that is what decides which         *)
(* statements can be compiled.                                             *)
(***************************************************************************)
EXTENDS Integers, Sequences

CONSTANTS
  Thread,  \* the threads, each with a connection of its own
  Texts,   \* sequences of statements
  Nothing, \* no text, no statement
  Thrown   \* the answer of an eval that throws

VARIABLES
  schema,  \* the tables of the database
  todo,    \* the statements a thread has still to run, or Nothing
  last,    \* the one it ran last, or Nothing
  answer   \* what its last eval gave: Nothing, Thrown, or a statement's rows

vars == <<schema, todo, last, answer>>

(* A statement is [op, table, slots]: slots is how many parameters it has. *)
Compiles(s, tables) ==
  CASE s.op = "create" -> s.table \notin tables
    [] s.op = "syntax error" -> FALSE
    [] OTHER -> s.table \in tables

After(s, tables) ==
  CASE s.op = "create" -> tables \cup {s.table}
    [] s.op = "drop" -> tables \ {s.table}
    [] OTHER -> tables

Init ==
  /\ schema = {}
  /\ todo = [t \in Thread |-> Nothing]
  /\ last = [t \in Thread |-> Nothing]
  /\ answer = [t \in Thread |-> Nothing]

Start(t, text) ==
  /\ todo[t] = Nothing
  /\ todo' = [todo EXCEPT ![t] = text]
  /\ last' = [last EXCEPT ![t] = Nothing]
  /\ UNCHANGED <<schema, answer>>

Refuse(t) ==
  /\ todo[t] = Nothing
  /\ answer' = [answer EXCEPT ![t] = Thrown]
  /\ UNCHANGED <<schema, todo, last>>

Run(t) ==
  /\ todo[t] \notin {Nothing, <<>>}
  /\ Compiles(Head(todo[t]), schema)
  /\ schema' = After(Head(todo[t]), schema)
  /\ last' = [last EXCEPT ![t] = Head(todo[t])]
  /\ todo' = [todo EXCEPT ![t] = Tail(@)]
  /\ UNCHANGED answer

Throw(t) ==
  /\ todo[t] \notin {Nothing, <<>>}
  /\ todo' = [todo EXCEPT ![t] = Nothing]
  /\ last' = [last EXCEPT ![t] = Nothing]
  /\ answer' = [answer EXCEPT ![t] = Thrown]
  /\ UNCHANGED schema

Return(t) ==
  /\ todo[t] = <<>>
  /\ todo' = [todo EXCEPT ![t] = Nothing]
  /\ last' = [last EXCEPT ![t] = Nothing]
  /\ answer' = [answer EXCEPT ![t] = last[t]]
  /\ UNCHANGED schema

Next ==
  \E t \in Thread :
    \/ \E text \in Texts : Start(t, text)
    \/ Refuse(t) \/ Run(t) \/ Throw(t) \/ Return(t)

Spec == Init /\ [][Next]_vars
=============================================================================
