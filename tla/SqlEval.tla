------------------------------ MODULE SqlEval ------------------------------
(***************************************************************************)
(* The SQLite binding, sqlite3/main.c: the handles Janet code opens,       *)
(* closes and drops, and sql_eval(), which compiles statement n + 1 of a   *)
(* text before it runs statement n, because only a text that has no        *)
(* further statement tells it which one is the last.                       *)
(*                                                                         *)
(* One action is one call of the SQLite library, so another thread's calls *)
(* on the same database come between any two of them.  The library itself  *)
(* is external: a statement is compiled against the tables of the moment,  *)
(* compiled again if they changed before it is run, and may be refused at  *)
(* any time because the database is busy.                                  *)
(***************************************************************************)
EXTENDS Integers, Sequences

CONSTANTS
  Thread, Texts, Nothing, Thrown,  \* as in SqlSession
  Params,     \* the parameters of calls: Nothing, or [indexed, keys]
  LostMax     \* a bound on how often sqlite3_open() fails

ASSUME SqlAssumption ==
  /\ LostMax \in Nat
  /\ \A x \in Texts : x \in Seq([op : STRING, table : STRING, slots : Nat])
  /\ Nothing \notin Seq([op : STRING, table : STRING, slots : Nat])

VARIABLES
  schema,    \* the tables of the database
  db,        \* the Db of each thread: none, "open", or "closed" (FLAG_CLOSED)
  conns,     \* the connections the library keeps for it
  lost,      \* and those it keeps for nobody
  code,      \* what sqlite3_errcode() says of its connection
  eval,      \* its call of sql_eval(): see NoCall
  prepared,  \* its statements the library keeps: "new", or how the last run ended
  answer     \* what its last eval gave

handles == <<db, conns, lost>>
vars == <<schema, handles, code, eval, prepared, answer>>

(* pc: where sql_eval() is.  text, params: its arguments.  c: the statement *)
(* its text pointer is at.  stmt, next: its two statement pointers, 0 for  *)
(* NULL.  rows: the statement that filled the array it returns.  did: the  *)
(* statements that have been run.                                          *)
NoCall ==
  [pc |-> "idle", text |-> <<>>, params |-> Nothing, c |-> 1,
   stmt |-> 0, next |-> 0, rows |-> Nothing, did |-> <<>>]

todo == [t \in Thread |->
  IF eval[t].pc = "idle" THEN Nothing
  ELSE SubSeq(eval[t].text, Len(eval[t].did) + 1, Len(eval[t].text))]

last == [t \in Thread |->
  IF eval[t].did = <<>> THEN Nothing ELSE eval[t].did[Len(eval[t].did)]]

Session == INSTANCE SqlSession

TypeOK ==
  /\ lost \in 0 .. LostMax
  /\ \A t \in Thread :
       /\ db[t] \in {"none", "open", "closed"}
       /\ conns[t] \in 0 .. 1
       /\ code[t] \in {"OK", "ERROR", "RANGE", "BUSY"}
       /\ eval[t].pc \in {"idle", "prepare", "execute", "collect", "bind", "rotate", "error"}
       /\ eval[t].text \in Texts \cup {<<>>} /\ eval[t].params \in Params \cup {Nothing}
       /\ eval[t].c \in 1 .. Len(eval[t].text) + 1
       /\ {eval[t].stmt, eval[t].next} \subseteq 0 .. eval[t].c - 1

-----------------------------------------------------------------------------
(* Handles. *)

idle(t) == eval[t].pc = "idle"

sql_open(t) ==
  /\ idle(t) /\ db[t] = "none"
  /\ db' = [db EXCEPT ![t] = "open"]
  /\ conns' = [conns EXCEPT ![t] = @ + 1]
  /\ code' = [code EXCEPT ![t] = "OK"]
  /\ UNCHANGED <<schema, lost, eval, prepared, answer>>

(* The library hands out a connection even then, for its error message. *)
sql_open_fails(t) ==
  /\ idle(t) /\ lost < LostMax
  /\ lost' = lost + 1
  /\ UNCHANGED <<schema, db, conns, code, eval, prepared, answer>>

(* A mutant: the flag is not tested. *)
closedb_again(t) == conns' = [conns EXCEPT ![t] = @ - 1]

closedb(t) == conns' = [conns EXCEPT ![t] = IF db[t] = "closed" THEN @ ELSE @ - 1]

sql_close(t) ==
  /\ idle(t) /\ db[t] # "none"
  /\ closedb(t)
  /\ db' = [db EXCEPT ![t] = "closed"]
  /\ UNCHANGED <<schema, lost, code, eval, prepared, answer>>

(* A mutant: the collector does not close the connection. *)
gcsqlite_open(t) ==
  /\ idle(t) /\ db[t] # "none"
  /\ db' = [db EXCEPT ![t] = "none"]
  /\ UNCHANGED <<schema, conns, lost, code, eval, prepared, answer>>

(* The collector finds that nothing refers to the handle. *)
gcsqlite(t) ==
  /\ idle(t) /\ db[t] # "none"
  /\ closedb(t)
  /\ db' = [db EXCEPT ![t] = "none"]
  /\ UNCHANGED <<schema, lost, code, eval, prepared, answer>>

-----------------------------------------------------------------------------
(* sql_eval(). *)

(* The handle is closed, or the text has a NUL in it. *)
sql_eval_refused(t) ==
  /\ idle(t) /\ db[t] # "none"
  /\ answer' = [answer EXCEPT ![t] = Thrown]
  /\ UNCHANGED <<schema, handles, code, eval, prepared>>

sql_eval(t) ==
  /\ idle(t) /\ db[t] = "open"
  /\ \E x \in Texts, p \in Params :
       eval' = [eval EXCEPT ![t] =
                 [NoCall EXCEPT !.pc = "prepare", !.text = x, !.params = p]]
  /\ UNCHANGED <<schema, handles, code, prepared, answer>>

goes(t, pc) == eval' = [eval EXCEPT ![t].pc = pc]
errs(t, e)  == code' = [code EXCEPT ![t] = e]

at(t, pc) == eval[t].pc = pc /\ UNCHANGED handles

(* There is no further statement. *)
prepare_end(t) ==
  /\ at(t, "prepare") /\ eval[t].c > Len(eval[t].text)
  /\ goes(t, IF eval[t].stmt = 0 THEN "rotate" ELSE "collect")
  /\ errs(t, "OK")
  /\ UNCHANGED <<schema, prepared, answer>>

(* A mutant: the current statement is forgotten. *)
prepare_skips(t) ==
  LET k == eval[t].c IN
  /\ at(t, "prepare") /\ k <= Len(eval[t].text)
  /\ Session!Compiles(eval[t].text[k], schema)
  /\ eval' = [eval EXCEPT ![t] = [@ EXCEPT !.c = k + 1, !.next = k, !.pc = "bind"]]
  /\ prepared' = [prepared EXCEPT ![t] =
       [i \in DOMAIN @ \cup {k} |-> IF i = k THEN "new" ELSE @[i]]]
  /\ errs(t, "OK")
  /\ UNCHANGED <<schema, answer>>

prepare(t) ==
  LET k == eval[t].c IN
  /\ at(t, "prepare") /\ k <= Len(eval[t].text)
  /\ Session!Compiles(eval[t].text[k], schema)
  /\ eval' = [eval EXCEPT ![t] =
       [@ EXCEPT !.c = k + 1, !.next = k,
                 !.pc = IF eval[t].stmt = 0 THEN "bind" ELSE "execute"]]
  /\ prepared' = [prepared EXCEPT ![t] =
       [i \in DOMAIN @ \cup {k} |-> IF i = k THEN "new" ELSE @[i]]]
  /\ errs(t, "OK")
  /\ UNCHANGED <<schema, answer>>

prepare_fails(t) ==
  LET k == eval[t].c IN
  /\ at(t, "prepare") /\ k <= Len(eval[t].text)
  /\ goes(t, "error")
  /\ \/ ~Session!Compiles(eval[t].text[k], schema) /\ errs(t, "ERROR")
     \/ errs(t, "BUSY")
  /\ UNCHANGED <<schema, prepared, answer>>

(* execute() steps the current statement to its end; execute_collect() also *)
(* keeps the rows it finds.                                                *)
execute(t) ==
  LET s == eval[t].text[eval[t].stmt] IN
  /\ at(t, "execute") \/ at(t, "collect")
  /\ Session!Compiles(s, schema)
  /\ schema' = Session!After(s, schema)
  /\ eval' = [eval EXCEPT ![t] =
       [@ EXCEPT !.did = Append(eval[t].did, s),
                 !.rows = IF eval[t].pc = "collect" THEN s ELSE eval[t].rows,
                 !.pc = IF eval[t].pc = "collect" THEN "rotate" ELSE "bind"]]
  /\ prepared' = [prepared EXCEPT ![t][eval[t].stmt] = "OK"]
  /\ errs(t, "OK")
  /\ UNCHANGED answer

execute_fails(t) ==
  LET s == eval[t].text[eval[t].stmt] IN
  /\ at(t, "execute") \/ at(t, "collect")
  /\ goes(t, "error")
  /\ \/ ~Session!Compiles(s, schema) /\ errs(t, "ERROR")
     \/ errs(t, "BUSY")
  /\ prepared' = [prepared EXCEPT ![t][eval[t].stmt] = code'[t]]
  /\ UNCHANGED <<schema, answer>>

(* bindmany(): the same parameters go to every statement of the text.  The *)
(* test of the number of indexed ones lets one too many through, which the *)
(* library refuses.                                                        *)
bindmany(t) ==
  LET p     == eval[t].params
      slots == eval[t].text[eval[t].next].slots
  IN
  /\ at(t, "bind")
  /\ IF p = Nothing \/ p.keys \subseteq 1 .. slots
     THEN /\ goes(t, "rotate")
          /\ UNCHANGED code
     ELSE /\ goes(t, "error")
          /\ IF p.indexed /\ slots + 1 \in p.keys /\ slots + 2 \notin p.keys
             THEN errs(t, "RANGE")
             ELSE UNCHANGED code
  /\ UNCHANGED <<schema, prepared, answer>>

(* sqlite3_finalize() of statement i; NULL is let alone.  The library says *)
(* again how the statement's last run ended, if it was run.                *)
Finalized(p, i)     == [j \in DOMAIN p \ {i} |-> p[j]]
ErrorAfter(p, i, e) == IF i \in DOMAIN p /\ p[i] # "new" THEN p[i] ELSE e

(* A mutant: the loop goes on behind the last statement. *)
rotate_on(t) ==
  LET e == eval[t] IN
  /\ at(t, "rotate")
  /\ prepared' = [prepared EXCEPT ![t] = Finalized(@, e.stmt)]
  /\ errs(t, ErrorAfter(prepared[t], e.stmt, code[t]))
  /\ eval' = [eval EXCEPT ![t] = [@ EXCEPT !.stmt = e.next, !.next = 0, !.pc = "prepare"]]
  /\ UNCHANGED <<schema, answer>>

rotate(t) ==
  LET e == eval[t] IN
  /\ at(t, "rotate")
  /\ prepared' = [prepared EXCEPT ![t] = Finalized(@, e.stmt)]
  /\ errs(t, ErrorAfter(prepared[t], e.stmt, code[t]))
  /\ IF e.next # 0
     THEN /\ eval' = [eval EXCEPT ![t] =
                       [@ EXCEPT !.stmt = e.next, !.next = 0, !.pc = "prepare"]]
          /\ UNCHANGED answer
     ELSE /\ eval' = [eval EXCEPT ![t] = NoCall]
          /\ answer' = [answer EXCEPT ![t] = e.rows]
  /\ UNCHANGED schema

(* A mutant: only the current statement is finalized. *)
error_current(t) ==
  LET e == eval[t] IN
  /\ at(t, "error")
  /\ prepared' = [prepared EXCEPT ![t] = Finalized(@, e.stmt)]
  /\ errs(t, ErrorAfter(prepared[t], e.stmt, code[t]))
  /\ eval' = [eval EXCEPT ![t] = NoCall]
  /\ answer' = [answer EXCEPT ![t] = Thrown]
  /\ UNCHANGED schema

(* next was never run, so it leaves the error number alone. *)
error(t) ==
  LET e == eval[t] IN
  /\ at(t, "error")
  /\ prepared' = [prepared EXCEPT ![t] = Finalized(Finalized(@, e.stmt), e.next)]
  /\ errs(t, ErrorAfter(prepared[t], e.stmt, code[t]))
  /\ eval' = [eval EXCEPT ![t] = NoCall]
  /\ answer' = [answer EXCEPT ![t] = Thrown]
  /\ UNCHANGED schema

-----------------------------------------------------------------------------
Init ==
  /\ schema = {}
  /\ db = [t \in Thread |-> "none"]
  /\ conns = [t \in Thread |-> 0]
  /\ lost = 0
  /\ code = [t \in Thread |-> "OK"]
  /\ eval = [t \in Thread |-> NoCall]
  /\ prepared = [t \in Thread |-> <<>>]
  /\ answer = [t \in Thread |-> Nothing]

(* What a call of sql_eval() does until it is over. *)
step(t) ==
  \/ prepare_end(t) \/ prepare(t) \/ prepare_fails(t)
  \/ execute(t) \/ execute_fails(t)
  \/ bindmany(t)
  \/ rotate(t) \/ error(t)

Next ==
  \E t \in Thread :
    \/ sql_open(t) \/ sql_open_fails(t) \/ sql_close(t) \/ gcsqlite(t)
    \/ sql_eval_refused(t) \/ sql_eval(t)
    \/ step(t)

(* sql_eval() does not wait: a thread in it goes on. *)
Spec == Init /\ [][Next]_vars /\ \A t \in Thread : WF_vars(step(t))

-----------------------------------------------------------------------------
(* sql_eval() owns the statements it prepared: the library keeps those its *)
(* two pointers name, which are different, and none when the call is over, *)
(* however it ends.  One left behind would keep the connection open after  *)
(* sqlite3_close_v2(); one finalized twice has no defined outcome.         *)
StatementsOwned ==
  \A t \in Thread :
    /\ DOMAIN prepared[t] = {eval[t].stmt, eval[t].next} \ {0}
    /\ eval[t].stmt = eval[t].next => eval[t].stmt = 0

(* The library keeps the connection of an open handle and no other,        *)
(* however closing by hand and by the collector come together.             *)
ConnectionsOwned ==
  \A t \in Thread : conns[t] = IF db[t] = "open" THEN 1 ELSE 0

(* Threads that share a database see the texts of the others as SqlSession *)
(* says: in order, no statement left out or run twice, and what eval       *)
(* returns are the rows of the last one.                                   *)
ImplementsSession == Session!Spec

(* Every eval ends, whatever the other threads do. *)
EvalEnds == \A t \in Thread : ~idle(t) ~> idle(t)

(* "Multiple sql statements can be changed together" (the doc of           *)
(* sqlite3/eval): a statement that the one before it makes possible is not *)
(* refused.                                                                *)
ChainsTogether ==
  [][\A t \in Thread :
       prepare_fails(t) /\ code'[t] = "ERROR" /\ eval[t].stmt # 0 =>
         LET text == eval[t].text IN
         ~Session!Compiles(text[eval[t].c], Session!After(text[eval[t].stmt], schema))]_vars
=============================================================================
