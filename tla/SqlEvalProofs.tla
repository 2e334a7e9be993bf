-------------------------- MODULE SqlEvalProofs --------------------------
(***************************************************************************)
(* Proofs about SqlEval, for any number of threads and any texts.          *)
(***************************************************************************)
EXTENDS SqlEval, SequenceTheorems, TLAPS

Statement == [op : STRING, table : STRING, slots : Nat]
Result    == {"new", "OK", "ERROR", "BUSY"}

Call ==
  [pc : {"idle", "prepare", "execute", "collect", "bind", "rotate", "error"},
   text : Texts \cup {<<>>}, params : Params \cup {Nothing}, c : Nat, stmt : Nat, next : Nat,
   rows : Statement \cup {Nothing}, did : Seq(Statement)]

(* Where sql_eval() is in its text.  Between two turns of the loop the     *)
(* current statement is the one compiled last and the next to be run; while *)
(* a statement is compiled, run or bound, it is ahead by one.              *)
BehindLoop(e) ==
  e.next = 0 /\ e.stmt = e.c - 1 /\ e.c = Len(e.text) + 1

InLoop(e) ==
  e.next = e.c - 1 /\ e.stmt = e.c - 2 /\ e.c \in 2 .. Len(e.text) + 1

LastOf(e) == IF e.did = <<>> THEN Nothing ELSE e.did[Len(e.did)]

Place(e) ==
  /\ e.pc = "idle" => e = NoCall
  /\ e.pc \in {"prepare", "execute", "bind"} => e.rows = Nothing
  /\ e.pc = "prepare" =>
       /\ e.next = 0 /\ e.stmt = e.c - 1 /\ e.c \in 1 .. Len(e.text) + 1
       /\ Len(e.did) = IF e.stmt = 0 THEN 0 ELSE e.stmt - 1
  /\ e.pc = "execute" => InLoop(e) /\ e.stmt > 0 /\ Len(e.did) = e.stmt - 1
  /\ e.pc = "collect" => BehindLoop(e) /\ e.stmt > 0 /\ Len(e.did) = e.stmt - 1
  /\ e.pc = "bind" => InLoop(e) /\ Len(e.did) = e.stmt
  /\ e.pc = "rotate" =>
       /\ Len(e.did) = e.stmt
       /\ \/ InLoop(e) /\ e.rows = Nothing
          \/ BehindLoop(e) /\ e.rows = LastOf(e)
  /\ e.pc = "error" =>
       /\ Len(e.did) < Len(e.text)
       /\ e.c \in 1 .. Len(e.text) + 1 /\ e.stmt < e.c /\ e.next < e.c
       /\ e.stmt = e.next => e.stmt = 0

(* The library keeps what the two statement pointers name. *)
Owns(e, p) ==
  /\ DOMAIN p = {e.stmt, e.next} \ {0}
  /\ \A i \in DOMAIN p : p[i] \in Result

EvalInv ==
  /\ eval \in [Thread -> Call]
  /\ prepared = [t \in Thread |-> prepared[t]]
  /\ code \in [Thread -> {"OK", "ERROR", "RANGE", "BUSY"}]
  /\ \A t \in Thread : Place(eval[t]) /\ Owns(eval[t], prepared[t])

HandleInv ==
  /\ db \in [Thread -> {"none", "open", "closed"}]
  /\ conns \in [Thread -> 0 .. 1]
  /\ lost \in 0 .. LostMax
  /\ ConnectionsOwned

-----------------------------------------------------------------------------
(* The fields of a call that is over, or not begun. *)
LEMMA NoCallIs ==
  /\ NoCall \in Call
  /\ NoCall.pc = "idle" /\ NoCall.text = <<>> /\ NoCall.c = 1
  /\ NoCall.stmt = 0 /\ NoCall.next = 0 /\ NoCall.rows = Nothing /\ NoCall.did = <<>>
BY DEF NoCall, Call

(* What a call holds, one field at a time. *)
LEMMA CallHas ==
  ASSUME NEW e \in Call
  PROVE  /\ e.c \in Nat /\ e.stmt \in Nat /\ e.next \in Nat
         /\ e.did \in Seq(Statement) /\ e.text \in Seq(Statement)
         /\ Len(e.text) \in Nat /\ Len(e.did) \in Nat
<1>1. e.text \in Texts \/ e.text = <<>>
  BY DEF Call
<1>2. e.text \in Seq(Statement)
  <2>1. CASE e.text = <<>>
    BY <2>1
  <2>2. CASE e.text \in Texts
    BY <2>2, SqlAssumption DEF SqlAssumption, Statement
  <2> QED
    BY <1>1, <2>1, <2>2
<1>3. e.did \in Seq(Statement) /\ e.c \in Nat /\ e.stmt \in Nat /\ e.next \in Nat
  BY DEF Call
<1> QED
  BY <1>2, <1>3, LenProperties

(* The statement that is run is in the text, and those before it were run. *)
LEMMA RunsInText ==
  ASSUME NEW e \in Call, Place(e), e.pc \in {"execute", "collect"}
  PROVE  e.stmt \in 1 .. Len(e.text) /\ Len(e.did) = e.stmt - 1
<1>1. /\ e.c \in Nat /\ e.stmt \in Nat /\ Len(e.text) \in Nat
  BY CallHas
<1>2. CASE e.pc = "execute"
  <2>1. InLoop(e) /\ e.stmt > 0 /\ Len(e.did) = e.stmt - 1
    BY <1>2 DEF Place
  <2> QED
    BY <2>1, <1>1 DEF InLoop
<1>3. CASE e.pc = "collect"
  <2>1. BehindLoop(e) /\ e.stmt > 0 /\ Len(e.did) = e.stmt - 1
    BY <1>3 DEF Place
  <2> QED
    BY <2>1, <1>1 DEF BehindLoop
<1> QED
  BY <1>2, <1>3

(* A step of thread t that changes its call to e, its statements to p and  *)
(* its error number to r, and nothing of another thread.                   *)
LEMMA OneThread ==
  ASSUME EvalInv,
         NEW t \in Thread, NEW e \in Call, NEW p, NEW r \in {"OK", "ERROR", "RANGE", "BUSY"},
         eval' = [eval EXCEPT ![t] = e],
         prepared' = [prepared EXCEPT ![t] = p],
         code' = [code EXCEPT ![t] = r],
         Place(e), Owns(e, p)
  PROVE  EvalInv'
BY DEF EvalInv

(* sql_eval() finalizes every statement it compiled, once, whatever it ends *)
(* with: the step from each place in the loop to the next keeps the        *)
(* statements the library has and the two pointers together.               *)
LEMMA NextEval == EvalInv /\ [Next]_vars => EvalInv'
<1> SUFFICES ASSUME EvalInv, [Next]_vars PROVE EvalInv'
  OBVIOUS
<1> USE SqlAssumption
<1>1. ASSUME NEW t \in Thread, sql_open(t) PROVE EvalInv'
  BY <1>1 DEF sql_open, EvalInv
<1>2. ASSUME NEW t \in Thread,
             sql_open_fails(t) \/ sql_close(t) \/ gcsqlite(t) \/ sql_eval_refused(t)
      PROVE  EvalInv'
  BY <1>2 DEF sql_open_fails, sql_close, gcsqlite, sql_eval_refused, EvalInv
<1>3. ASSUME NEW t \in Thread, sql_eval(t) PROVE EvalInv'
  <2>1. /\ eval[t] = NoCall /\ Owns(eval[t], prepared[t])
    BY <1>3 DEF EvalInv, sql_eval, idle, Place
  <2>2. PICK x \in Texts, q \in Params :
          eval' = [eval EXCEPT ![t] = [NoCall EXCEPT !.pc = "prepare", !.text = x, !.params = q]]
    BY <1>3 DEF sql_eval
  <2> DEFINE e == [NoCall EXCEPT !.pc = "prepare", !.text = x, !.params = q]
  <2>3. /\ e \in Call
        /\ e.pc = "prepare" /\ e.text = x /\ e.c = 1
        /\ e.stmt = 0 /\ e.next = 0 /\ e.rows = Nothing /\ e.did = <<>>
    BY NoCallIs DEF Call
  <2>4. Len(x) \in Nat
    BY DEF SqlAssumption
  <2>5. Place(e)
    BY <2>3, <2>4 DEF Place
  <2>6. Owns(e, prepared[t])
    BY <2>1, <2>3, NoCallIs DEF Owns
  <2>7. /\ prepared' = [prepared EXCEPT ![t] = prepared[t]]
        /\ code' = [code EXCEPT ![t] = code[t]] /\ code[t] \in {"OK", "ERROR", "RANGE", "BUSY"}
    BY <1>3 DEF sql_eval, EvalInv
  <2> HIDE DEF e
  <2> QED
    BY <2>2, <2>3, <2>5, <2>6, <2>7, OneThread DEF e
<1>4. ASSUME NEW t \in Thread, prepare_end(t) PROVE EvalInv'
  <2> DEFINE e == [eval[t] EXCEPT !.pc = IF eval[t].stmt = 0 THEN "rotate" ELSE "collect"]
             p == prepared[t]
  <2>1. /\ eval[t] \in Call /\ Place(eval[t]) /\ Owns(eval[t], prepared[t])
        /\ eval[t].pc = "prepare"
    BY <1>4 DEF EvalInv, prepare_end, at
  <2>2. e \in Call
    BY <2>1, <1>4 DEF Call, prepare_end, Place, InLoop, BehindLoop
  <2>3. Place(e)
    BY <2>1, <1>4 DEF Place, Call, BehindLoop, InLoop, LastOf, prepare_end
  <2>4. Owns(e, p)
    BY <2>1, <1>4 DEF Owns, Call, Place, BehindLoop, InLoop, Result, prepare_end
  <2>5. /\ eval' = [eval EXCEPT ![t] = e]
        /\ prepared' = [prepared EXCEPT ![t] = p]
        /\ code' = [code EXCEPT ![t] = "OK"]
        /\ "OK" \in {"OK", "ERROR", "RANGE", "BUSY"}
    BY <1>4, <2>1 DEF prepare_end, goes, errs, EvalInv
  <2> HIDE DEF e, p
  <2> QED
    BY <2>1, <2>2, <2>3, <2>4, <2>5, OneThread
<1>5. ASSUME NEW t \in Thread, prepare(t) PROVE EvalInv'
  <2> DEFINE e == [eval[t] EXCEPT !.c = eval[t].c + 1, !.next = eval[t].c,
                              !.pc = IF eval[t].stmt = 0 THEN "bind" ELSE "execute"]
             p == [i \in DOMAIN prepared[t] \cup {eval[t].c} |->
                    IF i = eval[t].c THEN "new" ELSE prepared[t][i]]
  <2>1. /\ eval[t] \in Call /\ Place(eval[t]) /\ Owns(eval[t], prepared[t])
        /\ eval[t].pc = "prepare" /\ eval[t].c <= Len(eval[t].text)
    BY <1>5 DEF EvalInv, prepare, at
  <2>a. /\ eval[t].c \in Nat /\ eval[t].stmt \in Nat
        /\ Len(eval[t].text) \in Nat /\ Len(eval[t].did) \in Nat
    BY <2>1, CallHas
  <2>2. /\ e \in Call
        /\ e.pc = IF eval[t].stmt = 0 THEN "bind" ELSE "execute"
        /\ e.c = eval[t].c + 1 /\ e.next = eval[t].c /\ e.stmt = eval[t].stmt
        /\ e.text = eval[t].text /\ e.did = eval[t].did /\ e.rows = eval[t].rows
    <3>1. eval[t].c + 1 \in Nat
      BY <2>a
    <3> QED
      BY <2>1, <2>a, <3>1 DEF Call
  <2>3. Place(e)
    <3> HIDE DEF e
    <3> QED
      <4>1. /\ eval[t].rows = Nothing /\ eval[t].stmt = eval[t].c - 1
            /\ Len(eval[t].did) = IF eval[t].stmt = 0 THEN 0 ELSE eval[t].stmt - 1
        BY <2>1 DEF Place
      <4>2. InLoop(e)
        <5>1. /\ e.next = e.c - 1 /\ e.stmt = e.c - 2
              /\ e.c \in 2 .. Len(eval[t].text) + 1
          <6>1. eval[t].c \in 1 .. Len(eval[t].text)
            BY <2>1, <2>a, <4>1
          <6> QED
            BY <2>a, <2>2, <4>1, <6>1
        <5> QED
          BY <2>2, <5>1 DEF InLoop
      <4>3. CASE eval[t].stmt = 0
        BY <2>2, <4>1, <4>2, <4>3 DEF Place
      <4>4. CASE eval[t].stmt # 0
        <5>1. e.pc = "execute" /\ eval[t].stmt > 0
          BY <2>a, <2>2, <4>4
        <5> QED
          BY <2>2, <4>1, <4>2, <4>4, <5>1 DEF Place
      <4> QED
        BY <4>3, <4>4
  <2>4. Owns(e, p)
    BY <2>1, <1>5 DEF Owns, Call, Place, BehindLoop, InLoop, Result, prepare
  <2>5. /\ eval' = [eval EXCEPT ![t] = e]
        /\ prepared' = [prepared EXCEPT ![t] = p]
        /\ code' = [code EXCEPT ![t] = "OK"]
        /\ "OK" \in {"OK", "ERROR", "RANGE", "BUSY"}
    BY <1>5, <2>1 DEF prepare, goes, errs, EvalInv
  <2> HIDE DEF e, p
  <2> QED
    BY <2>1, <2>2, <2>3, <2>4, <2>5, OneThread
<1>6. ASSUME NEW t \in Thread, prepare_fails(t) PROVE EvalInv'
  <2> DEFINE e == [eval[t] EXCEPT !.pc = "error"]
             p == prepared[t]
  <2>1. /\ eval[t] \in Call /\ Place(eval[t]) /\ Owns(eval[t], prepared[t])
        /\ eval[t].pc = "prepare"
    BY <1>6 DEF EvalInv, prepare_fails, at
  <2>2. e \in Call
    BY <2>1, <1>6 DEF Call, prepare_fails, Place, InLoop, BehindLoop
  <2>3. Place(e)
    BY <2>1, <1>6 DEF Place, Call, BehindLoop, InLoop, LastOf, prepare_fails
  <2>4. Owns(e, p)
    BY <2>1, <1>6 DEF Owns, Call, Place, BehindLoop, InLoop, Result, prepare_fails
  <2>5. /\ eval' = [eval EXCEPT ![t] = e]
        /\ prepared' = [prepared EXCEPT ![t] = p]
        /\ code' = [code EXCEPT ![t] = code'[t]]
        /\ code'[t] \in {"OK", "ERROR", "RANGE", "BUSY"}
    BY <1>6, <2>1 DEF prepare_fails, goes, errs, EvalInv
  <2> HIDE DEF e, p
  <2> QED
    BY <2>1, <2>2, <2>3, <2>4, <2>5, OneThread
<1>7. ASSUME NEW t \in Thread, execute(t) PROVE EvalInv'
  <2> DEFINE s == eval[t].text[eval[t].stmt]
             e == [eval[t] EXCEPT !.did = Append(eval[t].did, s),
                    !.rows = IF eval[t].pc = "collect" THEN s ELSE eval[t].rows,
                    !.pc = IF eval[t].pc = "collect" THEN "rotate" ELSE "bind"]
             p == [prepared[t] EXCEPT ![eval[t].stmt] = "OK"]
  <2>1. /\ eval[t] \in Call /\ Place(eval[t]) /\ Owns(eval[t], prepared[t])
        /\ eval[t].pc \in {"execute", "collect"}
    BY <1>7 DEF EvalInv, execute, at
  <2>a. /\ eval[t].c \in Nat /\ eval[t].stmt \in Nat /\ eval[t].next \in Nat
        /\ eval[t].text \in Seq(Statement) /\ eval[t].did \in Seq(Statement)
        /\ Len(eval[t].text) \in Nat /\ Len(eval[t].did) \in Nat
    BY <2>1, CallHas
  <2>b. eval[t].stmt \in 1 .. Len(eval[t].text) /\ Len(eval[t].did) = eval[t].stmt - 1
    BY <2>1, RunsInText
  <2>c. /\ s \in Statement
        /\ Append(eval[t].did, s) \in Seq(Statement)
        /\ Append(eval[t].did, s) # <<>>
        /\ Len(Append(eval[t].did, s)) = eval[t].stmt
        /\ Append(eval[t].did, s)[eval[t].stmt] = s
    <3>1. s \in Statement
      BY <2>a, <2>b
    <3>2. Len(eval[t].did) + 1 = eval[t].stmt
      BY <2>a, <2>b
    <3> HIDE DEF s
    <3> QED
      BY <2>a, <3>1, <3>2, AppendProperties
  <2>2. /\ e \in Call
        /\ e.pc = IF eval[t].pc = "collect" THEN "rotate" ELSE "bind"
        /\ e.rows = IF eval[t].pc = "collect" THEN s ELSE eval[t].rows
        /\ e.did = Append(eval[t].did, s)
        /\ e.c = eval[t].c /\ e.next = eval[t].next /\ e.stmt = eval[t].stmt
        /\ e.text = eval[t].text
    <3> HIDE DEF s
    <3> QED
      BY <2>1, <2>a, <2>c DEF Call
  <2>3. Place(e)
    <3> HIDE DEF e, s
    <3> QED
      BY <2>1, <2>a, <2>b, <2>c, <2>2 DEF Place, InLoop, BehindLoop, LastOf
  <2>4. Owns(e, p)
    BY <2>1, <1>7 DEF Owns, Call, Place, BehindLoop, InLoop, Result, execute
  <2>5. /\ eval' = [eval EXCEPT ![t] = e]
        /\ prepared' = [prepared EXCEPT ![t] = p]
        /\ code' = [code EXCEPT ![t] = "OK"]
        /\ "OK" \in {"OK", "ERROR", "RANGE", "BUSY"}
    <3>1. /\ eval' = [eval EXCEPT ![t] = e]
          /\ prepared' = [prepared EXCEPT ![t][eval[t].stmt] = "OK"]
          /\ code' = [code EXCEPT ![t] = "OK"]
      BY <1>7 DEF execute, errs
    <3> HIDE DEF e
    <3> QED
      BY <3>1, <2>1 DEF EvalInv
  <2> HIDE DEF e, p
  <2> QED
    BY <2>1, <2>2, <2>3, <2>4, <2>5, OneThread
<1>8. ASSUME NEW t \in Thread, execute_fails(t) PROVE EvalInv'
  <2> DEFINE e == [eval[t] EXCEPT !.pc = "error"]
             p == [prepared[t] EXCEPT ![eval[t].stmt] = code'[t]]
  <2>1. /\ eval[t] \in Call /\ Place(eval[t]) /\ Owns(eval[t], prepared[t])
        /\ eval[t].pc \in {"execute", "collect"}
    BY <1>8 DEF EvalInv, execute_fails, at
  <2>2. e \in Call
    BY <2>1, <1>8 DEF Call, execute_fails, Place, InLoop, BehindLoop
  <2>b. /\ e.pc = "error" /\ e.rows = eval[t].rows /\ e.did = eval[t].did
        /\ e.c = eval[t].c /\ e.next = eval[t].next /\ e.stmt = eval[t].stmt
        /\ e.text = eval[t].text
    BY <2>1 DEF Call
  <2>c. /\ eval[t].c \in Nat /\ eval[t].stmt \in Nat /\ eval[t].next \in Nat
        /\ Len(eval[t].text) \in Nat /\ Len(eval[t].did) \in Nat
    BY <2>1, CallHas
  <2>d. eval[t].stmt \in 1 .. Len(eval[t].text) /\ Len(eval[t].did) = eval[t].stmt - 1
    BY <2>1, RunsInText
  <2>e. /\ eval[t].c \in 1 .. Len(eval[t].text) + 1
        /\ eval[t].stmt < eval[t].c /\ eval[t].next < eval[t].c
        /\ eval[t].stmt = eval[t].next => eval[t].stmt = 0
    <3>1. InLoop(eval[t]) \/ BehindLoop(eval[t])
      BY <2>1 DEF Place
    <3> QED
      BY <2>c, <2>d, <3>1 DEF InLoop, BehindLoop
  <2>3. Place(e)
    <3>1. Len(e.did) < Len(e.text)
      BY <2>b, <2>c, <2>d
    <3> HIDE DEF e
    <3> QED
      BY <2>b, <2>e, <3>1 DEF Place
  <2>a. code'[t] \in {"ERROR", "BUSY"}
    BY <1>8 DEF execute_fails, errs, EvalInv
  <2>4. Owns(e, p)
    BY <2>1, <2>a DEF Owns, Call, Result
  <2>5. /\ eval' = [eval EXCEPT ![t] = e]
        /\ prepared' = [prepared EXCEPT ![t] = p]
        /\ code' = [code EXCEPT ![t] = code'[t]]
        /\ code'[t] \in {"OK", "ERROR", "RANGE", "BUSY"}
    BY <1>8, <2>1 DEF execute_fails, goes, errs, EvalInv
  <2> HIDE DEF e, p
  <2> QED
    BY <2>1, <2>2, <2>3, <2>4, <2>5, OneThread
<1>9. ASSUME NEW t \in Thread, bindmany(t) PROVE EvalInv'
  <2> DEFINE e == [eval[t] EXCEPT !.pc = eval'[t].pc]
             p == prepared[t]
  <2>1. /\ eval[t] \in Call /\ Place(eval[t]) /\ Owns(eval[t], prepared[t])
        /\ eval[t].pc = "bind"
    BY <1>9 DEF EvalInv, bindmany, at
  <2>a. eval'[t].pc \in {"rotate", "error"}
    BY <1>9, <2>1 DEF bindmany, goes, EvalInv, Call
  <2>b. /\ eval[t].c \in Nat /\ eval[t].stmt \in Nat /\ eval[t].next \in Nat
        /\ Len(eval[t].text) \in Nat /\ Len(eval[t].did) \in Nat
    BY <2>1, CallHas
  <2>2. /\ e \in Call
        /\ e.pc = eval'[t].pc /\ e.rows = eval[t].rows /\ e.did = eval[t].did
        /\ e.c = eval[t].c /\ e.next = eval[t].next /\ e.stmt = eval[t].stmt
        /\ e.text = eval[t].text
    BY <2>1, <2>a DEF Call
  <2>3. Place(e)
    <3> HIDE DEF e
    <3> QED
      <4>1. InLoop(e) /\ e.rows = Nothing /\ Len(e.did) = e.stmt
        BY <2>1, <2>2 DEF Place, InLoop
      <4>2. /\ Len(e.did) < Len(e.text)
            /\ e.c \in 1 .. Len(e.text) + 1 /\ e.stmt < e.c /\ e.next < e.c
            /\ e.stmt # e.next
        BY <2>b, <2>2, <4>1 DEF InLoop
      <4> QED
        BY <2>2, <2>a, <4>1, <4>2 DEF Place
  <2>4. Owns(e, p)
    BY <2>1, <1>9 DEF Owns, Call, Place, BehindLoop, InLoop, Result, bindmany
  <2>5. /\ eval' = [eval EXCEPT ![t] = e]
        /\ prepared' = [prepared EXCEPT ![t] = p]
        /\ code' = [code EXCEPT ![t] = code'[t]]
        /\ code'[t] \in {"OK", "ERROR", "RANGE", "BUSY"}
    BY <1>9, <2>1 DEF bindmany, goes, errs, EvalInv
  <2> HIDE DEF e, p
  <2> QED
    BY <2>1, <2>2, <2>3, <2>4, <2>5, OneThread
<1>10. ASSUME NEW t \in Thread, rotate(t) PROVE EvalInv'
  <2> DEFINE e == IF eval[t].next # 0
                  THEN [eval[t] EXCEPT !.stmt = eval[t].next, !.next = 0, !.pc = "prepare"]
                  ELSE NoCall
             p == Finalized(prepared[t], eval[t].stmt)
  <2>1. /\ eval[t] \in Call /\ Place(eval[t]) /\ Owns(eval[t], prepared[t])
        /\ eval[t].pc = "rotate"
    BY <1>10 DEF EvalInv, rotate, at
  <2>a. /\ eval[t].c \in Nat /\ eval[t].stmt \in Nat /\ eval[t].next \in Nat
        /\ Len(eval[t].text) \in Nat /\ Len(eval[t].did) \in Nat
    BY <2>1, CallHas
  <2>2. e \in Call
    BY <2>1, NoCallIs DEF Call
  <2>3. Place(e)
    BY <2>1, <1>10 DEF Place, Call, BehindLoop, InLoop, LastOf, rotate, NoCall
  <2>b. /\ DOMAIN p = DOMAIN prepared[t] \ {eval[t].stmt}
        /\ \A j \in DOMAIN p : p[j] = prepared[t][j]
    BY DEF Finalized
  <2>c. /\ e.stmt = eval[t].next /\ e.next = 0
        /\ eval[t].stmt = eval[t].next => eval[t].next = 0
    BY <2>1, <2>a, NoCallIs DEF Call, Place, InLoop, BehindLoop
  <2>4. Owns(e, p)
    <3> HIDE DEF e, p
    <3> QED
      BY <2>1, <2>b, <2>c DEF Owns
  <2>5. /\ eval' = [eval EXCEPT ![t] = e]
        /\ prepared' = [prepared EXCEPT ![t] = p]
        /\ code' = [code EXCEPT ![t] = ErrorAfter(prepared[t], eval[t].stmt, code[t])]
        /\ ErrorAfter(prepared[t], eval[t].stmt, code[t]) \in {"OK", "ERROR", "RANGE", "BUSY"}
    BY <1>10, <2>1 DEF rotate, goes, errs, EvalInv, Finalized, ErrorAfter, Owns, Result
  <2> HIDE DEF e, p
  <2> QED
    BY <2>1, <2>2, <2>3, <2>4, <2>5, OneThread
<1>11. ASSUME NEW t \in Thread, error(t) PROVE EvalInv'
  <2> DEFINE e == NoCall
             p == Finalized(Finalized(prepared[t], eval[t].stmt), eval[t].next)
  <2>1. /\ eval[t] \in Call /\ Place(eval[t]) /\ Owns(eval[t], prepared[t])
        /\ eval[t].pc = "error"
    BY <1>11 DEF EvalInv, error, at
  <2>2. e \in Call
    BY <2>1, <1>11 DEF Call, error, Place, InLoop, BehindLoop, NoCall
  <2>3. Place(e)
    BY <2>1, <1>11 DEF Place, Call, BehindLoop, InLoop, LastOf, error, NoCall
  <2>4. Owns(e, p)
    <3>1. DOMAIN p = (DOMAIN prepared[t] \ {eval[t].stmt}) \ {eval[t].next}
      BY DEF Finalized
    <3>2. DOMAIN p = {}
      BY <2>1, <3>1 DEF Owns
    <3> HIDE DEF p
    <3> QED
      BY <3>2, NoCallIs DEF Owns
  <2>5. /\ eval' = [eval EXCEPT ![t] = e]
        /\ prepared' = [prepared EXCEPT ![t] = p]
        /\ code' = [code EXCEPT ![t] = ErrorAfter(prepared[t], eval[t].stmt, code[t])]
        /\ ErrorAfter(prepared[t], eval[t].stmt, code[t]) \in {"OK", "ERROR", "RANGE", "BUSY"}
    BY <1>11, <2>1 DEF error, goes, errs, EvalInv, Finalized, ErrorAfter, Owns, Result
  <2> HIDE DEF e, p
  <2> QED
    BY <2>1, <2>2, <2>3, <2>4, <2>5, OneThread
<1>12. CASE UNCHANGED vars
  BY <1>12 DEF vars, EvalInv
<1> QED
  BY <1>1, <1>2, <1>3, <1>4, <1>5, <1>6, <1>7, <1>8, <1>9, <1>10, <1>11, <1>12 DEF Next, step

(* No thread is in sql_eval() when the program starts. *)
LEMMA InitEval == Init => EvalInv
<1> SUFFICES ASSUME Init PROVE EvalInv
  OBVIOUS
<1>1. Place(NoCall)
  BY NoCallIs DEF Place
<1>2. Owns(NoCall, <<>>)
  BY NoCallIs DEF Owns
<1> QED
  BY <1>1, <1>2, NoCallIs DEF Init, EvalInv

(* Every call owns what the library keeps for it: the statements of the    *)
(* two pointers, which never meet.  Whatever fails, none is left behind    *)
(* and none is finalized twice.                                            *)
THEOREM StatementsStayOwned == Spec => []StatementsOwned
<1>1. EvalInv => StatementsOwned
  <2> SUFFICES ASSUME EvalInv, NEW t \in Thread
               PROVE  /\ DOMAIN prepared[t] = {eval[t].stmt, eval[t].next} \ {0}
                      /\ eval[t].stmt = eval[t].next => eval[t].stmt = 0
    BY DEF StatementsOwned
  <2>1. /\ eval[t] \in Call /\ Place(eval[t]) /\ Owns(eval[t], prepared[t])
    BY DEF EvalInv
  <2>2. /\ eval[t].c \in Nat /\ eval[t].stmt \in Nat /\ eval[t].next \in Nat
        /\ Len(eval[t].text) \in Nat
    BY <2>1, CallHas
  <2>3. eval[t].pc \in {"idle", "prepare", "execute", "collect", "bind", "rotate", "error"}
    BY <2>1 DEF Call
  <2> QED
    BY <2>1, <2>2, <2>3, NoCallIs DEF Owns, Place, InLoop, BehindLoop
<1> QED
  BY <1>1, InitEval, NextEval, PTL DEF Spec

-----------------------------------------------------------------------------
(* A handle's connection is closed by sql_close() or by the collector,     *)
(* whichever comes first, and by nothing else.                             *)
LEMMA NextHandle == HandleInv /\ [Next]_vars => HandleInv'
<1> SUFFICES ASSUME HandleInv, [Next]_vars PROVE HandleInv'
  OBVIOUS
<1> USE SqlAssumption DEF HandleInv, ConnectionsOwned
<1>1. ASSUME NEW t \in Thread, sql_open(t) PROVE HandleInv'
  BY <1>1 DEF sql_open
<1>2. ASSUME NEW t \in Thread, sql_open_fails(t) PROVE HandleInv'
  BY <1>2 DEF sql_open_fails
<1>3. ASSUME NEW t \in Thread, sql_close(t) PROVE HandleInv'
  BY <1>3 DEF sql_close, closedb
<1>4. ASSUME NEW t \in Thread, gcsqlite(t) PROVE HandleInv'
  BY <1>4 DEF gcsqlite, closedb
<1>5. ASSUME NEW t \in Thread, sql_eval_refused(t) \/ sql_eval(t) \/ step(t)
      PROVE  HandleInv'
  <2>1. UNCHANGED handles
    BY <1>5 DEF sql_eval_refused, sql_eval, step, at, prepare_end, prepare, prepare_fails,
                execute, execute_fails, bindmany, rotate, error
  <2> QED
    BY <2>1 DEF handles
<1>6. CASE UNCHANGED vars
  BY <1>6 DEF vars, handles
<1> QED
  BY <1>1, <1>2, <1>3, <1>4, <1>5, <1>6 DEF Next

(* However closing by hand and collecting come together, the library keeps *)
(* the connection of an open handle and no other.                          *)
THEOREM ConnectionsStayOwned == Spec => []ConnectionsOwned
<1>1. Init => HandleInv
  BY SqlAssumption DEF Init, HandleInv, ConnectionsOwned
<1>2. HandleInv => ConnectionsOwned
  BY DEF HandleInv
<1> QED
  BY <1>1, <1>2, NextHandle, PTL DEF Spec

(* The fields keep their types; the text pointer stays within the text and *)
(* ahead of the statements compiled from it.                               *)
THEOREM SqlTypes == Spec => []TypeOK
<1>1. EvalInv /\ HandleInv => TypeOK
  <2> SUFFICES ASSUME EvalInv, HandleInv, NEW t \in Thread
               PROVE  /\ lost \in 0 .. LostMax
                      /\ db[t] \in {"none", "open", "closed"}
                      /\ conns[t] \in 0 .. 1
                      /\ code[t] \in {"OK", "ERROR", "RANGE", "BUSY"}
                      /\ eval[t].pc \in {"idle", "prepare", "execute", "collect",
                                         "bind", "rotate", "error"}
                      /\ eval[t].text \in Texts \cup {<<>>}
                      /\ eval[t].params \in Params \cup {Nothing}
                      /\ eval[t].c \in 1 .. Len(eval[t].text) + 1
                      /\ {eval[t].stmt, eval[t].next} \subseteq 0 .. eval[t].c - 1
    BY DEF TypeOK, HandleInv
  <2>1. /\ eval[t] \in Call /\ Place(eval[t])
        /\ code[t] \in {"OK", "ERROR", "RANGE", "BUSY"}
    BY DEF EvalInv
  <2>2. /\ eval[t].pc \in {"idle", "prepare", "execute", "collect", "bind", "rotate", "error"}
        /\ eval[t].text \in Texts \cup {<<>>}
        /\ eval[t].params \in Params \cup {Nothing}
    BY <2>1 DEF Call
  <2>3. /\ eval[t].c \in Nat /\ eval[t].stmt \in Nat /\ eval[t].next \in Nat
        /\ Len(eval[t].text) \in Nat
    BY <2>1, CallHas
  <2>4. /\ eval[t].c \in 1 .. Len(eval[t].text) + 1
        /\ eval[t].stmt < eval[t].c /\ eval[t].next < eval[t].c
    BY <2>1, <2>2, <2>3, NoCallIs DEF Place, InLoop, BehindLoop
  <2> QED
    BY <2>1, <2>2, <2>3, <2>4 DEF HandleInv
<1>2. Init => HandleInv
  BY SqlAssumption DEF Init, HandleInv, ConnectionsOwned
<1> QED
  BY <1>1, <1>2, InitEval, NextEval, NextHandle, PTL DEF Spec

-----------------------------------------------------------------------------
(* What a call has still to run. *)
Left(e) ==
  IF e.pc = "idle" THEN Nothing ELSE SubSeq(e.text, Len(e.did) + 1, Len(e.text))

(* What is left of a call is a sequence, never Nothing; the statement after *)
(* those that were run is its head, and running it leaves its tail.        *)
LEMMA LeftIs ==
  ASSUME NEW e \in Call, e.pc # "idle"
  PROVE  /\ Left(e) # Nothing
         /\ Len(e.did) >= Len(e.text) => Left(e) = <<>>
         /\ Len(e.did) < Len(e.text) =>
              /\ Left(e) # <<>>
              /\ Head(Left(e)) = e.text[Len(e.did) + 1]
              /\ Tail(Left(e)) = SubSeq(e.text, Len(e.did) + 2, Len(e.text))
<1> DEFINE m == Len(e.did) + 1
           n == Len(e.text)
<1>1. /\ e.text \in Seq(Statement) /\ n \in Nat /\ m \in Nat \ {0}
      /\ Left(e) = SubSeq(e.text, m, n)
  BY CallHas DEF Left
<1>2. \A i \in m .. n : e.text[i] \in Statement
  <2>1. \A i \in m .. n : i \in 1 .. n
    BY <1>1
  <2> QED
    BY <1>1, <2>1
<1>3. /\ Left(e) \in Seq(Statement)
      /\ Len(Left(e)) = IF m <= n THEN n - m + 1 ELSE 0
  <2> HIDE DEF m, n
  <2> QED
    BY <1>1, <1>2, SubSeqProperties
<1>4. Left(e) # Nothing
  BY <1>3, SqlAssumption DEF Statement
<1>5. ASSUME n < m PROVE Left(e) = <<>>
  <2> HIDE DEF m, n
  <2> QED
    BY <1>1, <1>5, SubSeqEmpty
<1>6. ASSUME m <= n
      PROVE  /\ Left(e) # <<>>
             /\ Head(Left(e)) = e.text[m] /\ Tail(Left(e)) = SubSeq(e.text, m + 1, n)
  <2>1. m \in 1 .. n /\ n \in m .. n
    BY <1>1, <1>6
  <2>2. /\ Head(SubSeq(e.text, m, n)) = e.text[m]
        /\ Tail(SubSeq(e.text, m, n)) = SubSeq(e.text, m + 1, n)
    BY <1>1, <2>1, HeadTailOfSubSeq
  <2>3. Len(Left(e)) # 0
    BY <1>1, <1>3, <1>6
  <2> HIDE DEF m, n
  <2> QED
    BY <1>1, <2>2, <2>3, EmptySeq
<1>7. Len(e.did) \in Nat /\ Len(e.did) + 2 = m + 1
  BY CallHas
<1>8. Len(e.did) < Len(e.text) <=> m <= n
  BY <1>1, <1>7
<1>9. Len(e.did) >= Len(e.text) <=> n < m
  BY <1>1, <1>7
<1> QED
  BY <1>4, <1>5, <1>6, <1>7, <1>8, <1>9, Zenon

(* The mapping, one thread at a time. *)
LEMMA Mapped ==
  ASSUME EvalInv, NEW t \in Thread, NEW e, eval' = [eval EXCEPT ![t] = e]
  PROVE  /\ todo' = [todo EXCEPT ![t] = Left(e)]
         /\ last' = [last EXCEPT ![t] = LastOf(e)]
         /\ todo[t] = Left(eval[t]) /\ last[t] = LastOf(eval[t])
BY DEF EvalInv, todo, last, Left, LastOf

(* A step that leaves alone what is to be run, what was run last, the      *)
(* tables and the answers is no step of the abstract session.              *)
LEMMA Silent ==
  ASSUME EvalInv, NEW t \in Thread, NEW e, eval' = [eval EXCEPT ![t] = e],
         Left(e) = Left(eval[t]), LastOf(e) = LastOf(eval[t]), UNCHANGED <<schema, answer>>
  PROVE  UNCHANGED Session!vars
<1>1. /\ todo' = [todo EXCEPT ![t] = Left(e)] /\ todo[t] = Left(eval[t])
      /\ last' = [last EXCEPT ![t] = LastOf(e)] /\ last[t] = LastOf(eval[t])
  BY Mapped, Zenon
<1>2. todo' = todo /\ last' = last
  <2>1. todo = [u \in Thread |-> todo[u]] /\ last = [u \in Thread |-> last[u]]
    BY DEF todo, last
  <2>2. todo' = [todo EXCEPT ![t] = todo[t]] /\ last' = [last EXCEPT ![t] = last[t]]
    BY <1>1
  <2> QED
    BY <2>1, <2>2
<1> QED
  BY <1>2 DEF Session!vars

(* A call of the library is a step of the session or none of it.           *)
LEMMA StepImplements == EvalInv /\ [Next]_vars => [Session!Next]_(Session!vars)
<1> SUFFICES ASSUME EvalInv, [Next]_vars
             PROVE  Session!Next \/ UNCHANGED Session!vars
  OBVIOUS
<1> USE SqlAssumption
<1>a. ASSUME NEW t \in Thread
      PROVE  /\ eval[t] \in Call /\ Place(eval[t])
             /\ eval[t].c \in Nat /\ eval[t].stmt \in Nat /\ eval[t].next \in Nat
             /\ eval[t].did \in Seq(Statement) /\ eval[t].text \in Seq(Statement)
             /\ Len(eval[t].text) \in Nat /\ Len(eval[t].did) \in Nat
  <2>1. eval[t] \in Call /\ Place(eval[t])
    BY <1>a DEF EvalInv
  <2> QED
    BY <2>1, CallHas
<1>1. ASSUME NEW t \in Thread,
             sql_open(t) \/ sql_open_fails(t) \/ sql_close(t) \/ gcsqlite(t)
      PROVE  UNCHANGED Session!vars
  BY <1>1 DEF sql_open, sql_open_fails, sql_close, gcsqlite, todo, last, Session!vars
<1>2. ASSUME NEW t \in Thread, sql_eval_refused(t) PROVE Session!Refuse(t)
  BY <1>2 DEF sql_eval_refused, idle, todo, last, Session!Refuse
<1>3. ASSUME NEW t \in Thread, sql_eval(t)
      PROVE  \E text \in Texts : Session!Start(t, text)
  <2>1. PICK x \in Texts, q \in Params :
          eval' = [eval EXCEPT ![t] = [NoCall EXCEPT !.pc = "prepare", !.text = x, !.params = q]]
    BY <1>3 DEF sql_eval
  <2> DEFINE e == [NoCall EXCEPT !.pc = "prepare", !.text = x, !.params = q]
  <2>2. e.pc = "prepare" /\ e.text = x /\ e.did = <<>>
    BY NoCallIs DEF Call
  <2>3. x \in Seq(Statement) /\ Len(x) \in Nat
    BY DEF Statement
  <2>4. Left(e) = x /\ LastOf(e) = Nothing
    <3> HIDE DEF e
    <3>1. Len(e.did) + 1 = 1
      BY <2>2, EmptySeq
    <3> QED
      BY <2>2, <2>3, <3>1, SubSeqFull DEF Left, LastOf
  <2>5. todo' = [todo EXCEPT ![t] = x] /\ last' = [last EXCEPT ![t] = Nothing]
    <3>1. eval' = [eval EXCEPT ![t] = e]
      BY <2>1
    <3> HIDE DEF e
    <3> QED
      BY <2>4, <3>1, Mapped
  <2>6. todo[t] = Nothing /\ UNCHANGED <<schema, answer>>
    BY <1>3 DEF sql_eval, idle, todo
  <2> QED
    BY <2>5, <2>6 DEF Session!Start
<1>4. ASSUME NEW t \in Thread,
             prepare_end(t) \/ prepare(t) \/ prepare_fails(t) \/ execute_fails(t) \/ bindmany(t)
      PROVE  UNCHANGED Session!vars
  <2>1. PICK e :
          /\ eval' = [eval EXCEPT ![t] = e]
          /\ e.pc # "idle" /\ e.text = eval[t].text /\ e.did = eval[t].did
    <3>1. CASE prepare(t)
      <4> DEFINE e == [eval[t] EXCEPT !.c = eval[t].c + 1, !.next = eval[t].c,
                              !.pc = IF eval[t].stmt = 0 THEN "bind" ELSE "execute"]
      <4>1. eval' = [eval EXCEPT ![t] = e]
        BY <3>1 DEF prepare
      <4>2. e.pc # "idle" /\ e.text = eval[t].text /\ e.did = eval[t].did
        BY <1>a DEF Call
      <4> HIDE DEF e
      <4> QED
        BY <4>1, <4>2
    <3>2. ASSUME NEW pc \in {"rotate", "collect", "error"}, goes(t, pc)
          PROVE  \E e : /\ eval' = [eval EXCEPT ![t] = e]
                        /\ e.pc # "idle" /\ e.text = eval[t].text /\ e.did = eval[t].did
      <4> DEFINE e == [eval[t] EXCEPT !.pc = pc]
      <4>1. eval' = [eval EXCEPT ![t] = e]
        BY <3>2 DEF goes
      <4>2. e.pc # "idle" /\ e.text = eval[t].text /\ e.did = eval[t].did
        BY <1>a DEF Call
      <4> HIDE DEF e
      <4> QED
        BY <4>1, <4>2
    <3>3. ASSUME prepare_end(t) \/ prepare_fails(t) \/ execute_fails(t) \/ bindmany(t)
          PROVE  \E pc \in {"rotate", "collect", "error"} : goes(t, pc)
      BY <3>3 DEF prepare_end, prepare_fails, execute_fails, bindmany
    <3> QED
      BY <1>4, <3>1, <3>2, <3>3
  <2>2. eval[t].pc # "idle" /\ UNCHANGED <<schema, answer>>
    BY <1>4 DEF prepare_end, prepare, prepare_fails, execute_fails, bindmany, at
  <2>3. Left(e) = Left(eval[t]) /\ LastOf(e) = LastOf(eval[t])
    BY <2>1, <2>2 DEF Left, LastOf
  <2> QED
    BY <2>1, <2>2, <2>3, Silent
<1>5. ASSUME NEW t \in Thread, execute(t) PROVE Session!Run(t)
  <2> DEFINE s == eval[t].text[eval[t].stmt]
             e == [eval[t] EXCEPT !.did = Append(eval[t].did, s),
                    !.rows = IF eval[t].pc = "collect" THEN s ELSE eval[t].rows,
                    !.pc = IF eval[t].pc = "collect" THEN "rotate" ELSE "bind"]
  <2>1. /\ eval[t].pc \in {"execute", "collect"}
        /\ Session!Compiles(s, schema) /\ schema' = Session!After(s, schema)
        /\ eval' = [eval EXCEPT ![t] = e] /\ UNCHANGED answer
    BY <1>5 DEF execute, at
  <2>2. eval[t].stmt \in 1 .. Len(eval[t].text) /\ Len(eval[t].did) = eval[t].stmt - 1
    BY <1>a, <2>1, RunsInText
  <2>3. s \in Statement
    BY <1>a, <2>2
  <2>4. /\ e.pc # "idle" /\ e.text = eval[t].text /\ e.did = Append(eval[t].did, s)
    BY <1>a DEF Call
  <2> HIDE DEF e, s
  <2>5. /\ e.did # <<>> /\ Len(e.did) = eval[t].stmt /\ e.did[eval[t].stmt] = s
    BY <1>a, <2>2, <2>3, <2>4, AppendProperties
  <2>6. LastOf(e) = s
    BY <2>5 DEF LastOf
  <2>7. /\ todo[t] # Nothing /\ todo[t] # <<>> /\ Head(todo[t]) = s
        /\ Tail(todo[t]) = SubSeq(eval[t].text, eval[t].stmt + 1, Len(eval[t].text))
    <3>1. /\ Len(eval[t].did) < Len(eval[t].text) /\ eval[t].pc # "idle"
          /\ Len(eval[t].did) + 1 = eval[t].stmt /\ Len(eval[t].did) + 2 = eval[t].stmt + 1
      BY <1>a, <2>1, <2>2
    <3> QED
      BY <1>a, <2>1, <3>1, LeftIs, Mapped DEF s
  <2>8. Left(e) = Tail(todo[t])
    BY <2>4, <2>5, <2>7 DEF Left
  <2>9. todo' = [todo EXCEPT ![t] = Left(e)] /\ last' = [last EXCEPT ![t] = LastOf(e)]
    BY <2>1, Mapped
  <2> QED
    BY <2>1, <2>6, <2>7, <2>8, <2>9 DEF Session!Run
<1>6. ASSUME NEW t \in Thread, error(t) PROVE Session!Throw(t)
  <2>1. /\ eval[t].pc = "error" /\ eval' = [eval EXCEPT ![t] = NoCall]
        /\ answer' = [answer EXCEPT ![t] = Thrown] /\ UNCHANGED schema
    BY <1>6 DEF error, at
  <2>2. Len(eval[t].did) < Len(eval[t].text)
    BY <1>a, <2>1 DEF Place
  <2>3. todo[t] # Nothing /\ todo[t] # <<>>
    BY <1>a, <2>1, <2>2, LeftIs, Mapped
  <2>4. Left(NoCall) = Nothing /\ LastOf(NoCall) = Nothing
    BY NoCallIs DEF Left, LastOf
  <2>5. todo' = [todo EXCEPT ![t] = Nothing] /\ last' = [last EXCEPT ![t] = Nothing]
    <3>1. /\ todo' = [todo EXCEPT ![t] = Left(NoCall)]
          /\ last' = [last EXCEPT ![t] = LastOf(NoCall)]
      BY <2>1, Mapped, Zenon
    <3> QED
      BY <2>4, <3>1
  <2> QED
    BY <2>1, <2>3, <2>5 DEF Session!Throw
<1>7. ASSUME NEW t \in Thread, rotate(t), eval[t].next = 0 PROVE Session!Return(t)
  <2>1. /\ eval[t].pc = "rotate" /\ eval' = [eval EXCEPT ![t] = NoCall]
        /\ answer' = [answer EXCEPT ![t] = eval[t].rows] /\ UNCHANGED schema
    BY <1>7 DEF rotate, at
  <2>2. Len(eval[t].did) >= Len(eval[t].text) /\ eval[t].rows = LastOf(eval[t])
    BY <1>a, <1>7, <2>1 DEF Place, InLoop, BehindLoop
  <2>3. todo[t] = <<>> /\ last[t] = eval[t].rows
    BY <1>a, <2>1, <2>2, LeftIs, Mapped
  <2>4. Left(NoCall) = Nothing /\ LastOf(NoCall) = Nothing
    BY NoCallIs DEF Left, LastOf
  <2>5. todo' = [todo EXCEPT ![t] = Nothing] /\ last' = [last EXCEPT ![t] = Nothing]
    <3>1. /\ todo' = [todo EXCEPT ![t] = Left(NoCall)]
          /\ last' = [last EXCEPT ![t] = LastOf(NoCall)]
      BY <2>1, Mapped, Zenon
    <3> QED
      BY <2>4, <3>1
  <2> QED
    BY <2>1, <2>3, <2>5 DEF Session!Return
<1>8. ASSUME NEW t \in Thread, rotate(t), eval[t].next # 0 PROVE UNCHANGED Session!vars
  <2> DEFINE e == [eval[t] EXCEPT !.stmt = eval[t].next, !.next = 0, !.pc = "prepare"]
  <2>1. /\ eval[t].pc = "rotate" /\ eval' = [eval EXCEPT ![t] = e]
        /\ UNCHANGED <<schema, answer>>
    BY <1>8 DEF rotate, at
  <2>2. e.pc # "idle" /\ e.text = eval[t].text /\ e.did = eval[t].did
    BY <1>a DEF Call
  <2> HIDE DEF e
  <2>3. Left(e) = Left(eval[t]) /\ LastOf(e) = LastOf(eval[t])
    BY <2>1, <2>2 DEF Left, LastOf
  <2> QED
    BY <2>1, <2>3, Silent
<1>9. CASE UNCHANGED vars
  BY <1>9 DEF vars, todo, last, Session!vars
<1> QED
  BY <1>1, <1>2, <1>3, <1>4, <1>5, <1>6, <1>7, <1>8, <1>9 DEF Next, step, Session!Next

(* sql_eval() is what SqlSession promises: the statements of a text in      *)
(* order, each once, and the rows of the last one, for any texts and any   *)
(* number of threads on the database, whatever the library refuses.        *)
THEOREM SqlImplements == Spec => ImplementsSession
<1>1. Init => Session!Init
  <2> SUFFICES ASSUME Init PROVE Session!Init
    OBVIOUS
  <2>1. \A t \in Thread : eval[t] = NoCall
    BY DEF Init
  <2> QED
    BY <2>1, NoCallIs DEF Init, Session!Init, todo, last
<1> QED
  BY <1>1, InitEval, NextEval, StepImplements, PTL DEF Spec, ImplementsSession, Session!Spec
=============================================================================
