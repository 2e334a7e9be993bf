----------------------------- MODULE SampleApp -----------------------------
(***************************************************************************)
(* The sample application, app.janet with auctions.janet: main starts a    *)
(* thread with the web server and one with a client of it, makes or opens  *)
(* the database and then shows its window.  It may be started twice on one *)
(* machine, in one directory and with one port; it may be killed at any    *)
(* time and started again.                                                 *)
(*                                                                         *)
(* A sqlite3/eval of one statement is one step: SqlEval shows that it runs *)
(* its statement once or throws.  The server is the one of Circlet, from   *)
(* circlet-bind-http on.                                                   *)
(***************************************************************************)
EXTENDS Naturals, FiniteSets

CONSTANTS
  Instance,  \* the instances that may run at one time
  Nobody,
  Restarts  \* a bound on how often one is started

ASSUME SampleAssumption == Nobody \notin Instance /\ Restarts \in Nat

VARIABLES
  db,       \* dummy.db: [exists, table, rows]
  main,     \* the main thread of an instance
  server,   \* worker-server
  client,   \* worker-client, and who answered it
  port,     \* who listens on port 8000
  count,    \* what exec-db returned
  launches, \* how often each was started
  cut       \* whether an instance ended between making the file and its row

threads == <<main, server, client>>
appVars == <<db, threads, port, count, launches, cut>>

Creating   == {"create-open", "create-table", "insert"}
Evaluating == {"create-table", "insert", "select"}
moves(p, l) == main' = [main EXCEPT ![p] = l]

-----------------------------------------------------------------------------
start(p) ==
  /\ main[p] = "off" /\ launches[p] < Restarts
  /\ moves(p, "stat")
  /\ server' = [server EXCEPT ![p] = "bind"]
  /\ client' = [client EXCEPT ![p] = "sleep"]
  /\ launches' = [launches EXCEPT ![p] = @ + 1]
  /\ count' = [count EXCEPT ![p] = Nobody]
  /\ UNCHANGED <<db, port, cut>>

(* The end of the process, however it comes. *)
die(p) ==
  /\ moves(p, "off")
  /\ server' = [server EXCEPT ![p] = "off"]
  /\ client' = [client EXCEPT ![p] = "off"]
  /\ port' = IF port = p THEN Nobody ELSE port
  /\ cut' = (cut \/ main[p] \in {"create-table", "insert"})
  /\ UNCHANGED <<db, count, launches>>

kill(p) == main[p] # "off" /\ die(p)

(* exec-db and create-db. *)
os_stat(p) ==
  /\ main[p] = "stat"
  /\ moves(p, IF db.exists THEN "open" ELSE "create-open")
  /\ UNCHANGED <<db, server, client, port, count, launches, cut>>

sqlite3_open(p) ==
  /\ main[p] \in {"create-open", "open"}
  /\ db' = [db EXCEPT !.exists = TRUE]
  /\ moves(p, IF main[p] = "open" THEN "select" ELSE "create-table")
  /\ UNCHANGED <<server, client, port, count, launches, cut>>

(* A mutant: create table if not exists. *)
create_table_again(p) ==
  /\ main[p] = "create-table"
  /\ db' = [db EXCEPT !.table = TRUE]
  /\ moves(p, "insert")
  /\ UNCHANGED <<server, client, port, count, launches, cut>>

(* A mutant: the table that is there is dropped. *)
create_table_anew(p) ==
  /\ main[p] = "create-table"
  /\ db' = [db EXCEPT !.table = TRUE, !.rows = 0]
  /\ moves(p, "insert")
  /\ UNCHANGED <<server, client, port, count, launches, cut>>

create_table(p) ==
  /\ main[p] = "create-table" /\ ~db.table
  /\ db' = [db EXCEPT !.table = TRUE]
  /\ moves(p, "insert")
  /\ UNCHANGED <<server, client, port, count, launches, cut>>

insert(p) ==
  /\ main[p] = "insert"
  /\ db' = [db EXCEPT !.rows = @ + 1]
  /\ moves(p, "open")
  /\ UNCHANGED <<server, client, port, count, launches, cut>>

select_count(p) ==
  /\ main[p] = "select" /\ db.table
  /\ count' = [count EXCEPT ![p] = db.rows]
  /\ moves(p, "window")
  /\ UNCHANGED <<db, server, client, port, launches, cut>>

(* Another connection is at a statement of its own. *)
locked(p) == \E q \in Instance \ {p} : main[q] \in Evaluating

(* A mutant: the INSERT that meets a lock is passed over. *)
eval_throws_nothing(p) ==
  /\ main[p] \in Evaluating /\ locked(p)
  /\ moves(p, IF main[p] = "insert" THEN "open" ELSE "off")
  /\ UNCHANGED <<db, server, client, port, count, launches, cut>>

(* A statement that makes no sense, or meets the lock of another instance, *)
(* throws, and an error in main ends the program.                          *)
eval_throws(p) ==
  /\ \/ main[p] = "create-table" /\ db.table
     \/ main[p] = "select" /\ ~db.table
     \/ main[p] \in Evaluating /\ locked(p)
  /\ die(p)

(* A mutant: the port is waited for. *)
do_bind_waits(p) ==
  /\ server[p] = "bind" /\ port = Nobody
  /\ port' = p
  /\ server' = [server EXCEPT ![p] = "serving"]
  /\ UNCHANGED <<db, main, client, count, launches, cut>>

(* do_bind(): mg_bind() gives NULL when the port is taken, and the store   *)
(* to conn->user_data is the end of the process.                           *)
do_bind(p) ==
  /\ server[p] = "bind"
  /\ IF port # Nobody THEN die(p)
     ELSE /\ port' = p
          /\ server' = [server EXCEPT ![p] = "serving"]
          /\ UNCHANGED <<db, main, client, count, launches, cut>>

(* get-ip, a second later: whoever listens answers.  It does not wait for  *)
(* a server and prints an error if there is none.                          *)
get_ip(p) ==
  /\ client[p] = "sleep"
  /\ client' = [client EXCEPT ![p] = IF port = Nobody THEN "refused" ELSE "answered"]
  /\ UNCHANGED <<db, main, server, port, count, launches, cut>>

-----------------------------------------------------------------------------
AppInit ==
  /\ db = [exists |-> FALSE, table |-> FALSE, rows |-> 0]
  /\ main = [p \in Instance |-> "off"]
  /\ server = [p \in Instance |-> "off"]
  /\ client = [p \in Instance |-> "off"]
  /\ port = Nobody
  /\ count = [p \in Instance |-> Nobody]
  /\ launches = [p \in Instance |-> 0]
  /\ cut = FALSE

exec_db(p) ==
  os_stat(p) \/ sqlite3_open(p) \/ create_table(p) \/ insert(p) \/ select_count(p) \/ eval_throws(p)

AppNext ==
  \E p \in Instance : start(p) \/ kill(p) \/ exec_db(p) \/ do_bind(p) \/ get_ip(p)

AppSpec ==
  /\ AppInit /\ [][AppNext]_appVars
  /\ \A p \in Instance : WF_appVars(exec_db(p)) /\ WF_appVars(do_bind(p)) /\ WF_appVars(get_ip(p))

-----------------------------------------------------------------------------
AppTypeOK ==
  /\ db \in [exists : BOOLEAN, table : BOOLEAN, rows : Nat]
  /\ \A p \in Instance :
       /\ main[p] \in {"off", "stat", "open", "select", "window"} \cup Creating
       /\ server[p] \in {"off", "bind", "serving"}
       /\ client[p] \in {"off", "sleep", "refused", "answered"}
       /\ main[p] = "off" => server[p] = "off"
       /\ server[p] = "serving" <=> port = p
  /\ port \in Instance \cup {Nobody}

(* However instances race for the missing file, and wherever they are      *)
(* killed and started again, create-db's user is there once at most.       *)
OneUser == db.rows <= 1 /\ (db.rows = 1 => db.table) /\ (db.table => db.exists)

(* A user that is there stays there, and every count from then on is one.  *)
UserStays ==
  [][db.rows = 1 => db'.rows = 1 /\ \A p \in Instance : select_count(p) => count'[p] = 1]_appVars

(* The file is looked for and not what is in it: a database that exists is *)
(* whole only if no instance is making it and none ended while it did.     *)
WholeUnlessCut ==
  db.exists /\ ~cut /\ (\A p \in Instance : main[p] \notin Creating) => db.rows = 1

(* An instance comes up with its window and its server, or ends: none is   *)
(* left with a window and no server, or waits for another.                 *)
ComesUpOrEnds ==
  \A p \in Instance :
    main[p] # "off" ~> main[p] = "off" \/ (main[p] = "window" /\ server[p] = "serving")
=============================================================================
