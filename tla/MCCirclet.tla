----------------------------- MODULE MCCirclet -----------------------------
(* Instances of Circlet for TLC. *)
EXTENDS Circlet, TLC

MCUri    == {"/", "/bad", "/throw", "/yield", "/none"}
MCRoutes ==
  [u \in {"/", "/bad", "/throw", "/yield"} |->
     CASE u = "/" -> "table" [] u = "/bad" -> "badly_typed"
       [] u = "/throw" -> "throws" [] u = "/yield" -> "yields"]

Get(u)     == <<Line(u, 0), Blank>>
Post(u, n) == <<Line(u, n), Blank>> \o [i \in 1 .. n |-> Body]

CONSTANTS c1, c2

Pair(x, y) == (c1 :> x) @@ (c2 :> y)

(* Requests behind each other, with and without a body, one whose body has *)
(* no end, a head at the limit: beside a client that sends nothing.  And   *)
(* the requests that bear on those of other clients, beside one of these.  *)
Alone ==
  {Get("/") \o Get("/none"), Get("/yield") \o Get("/"), Get("/bad") \o Get("/"),
   Post("/", 2), <<Line("/", Endless), Blank, Body>>, <<Line("/", 0), Header, Blank>>}
Beside == {Get("/yield"), Get("/throw"), Get("/") \o <<Junk>>}

MCScripts ==
  {Pair(x, <<>>) : x \in Alone} \cup {Pair(x, Get("/")) : x \in Beside}

(* The reply to one of the two is longer than what a socket takes of it    *)
(* before the client reads.                                                *)
MCRooms == {Pair(0, 1), Pair(1, 0)}
=============================================================================
