------------------------------ MODULE Circlet ------------------------------
(***************************************************************************)
(* The HTTP server: circlet/circlet.c, circlet_lib.janet and the parts of  *)
(* circlet/mongoose.c they run on.  One thread polls a listener and its    *)
(* connections for ever.  All requests of all connections are handed to    *)
(* one Janet fiber, the loop of `server`: it is resumed with a request and *)
(* what comes out, returned or yielded, is sent to the connection that     *)
(* resumed it.                                                             *)
(*                                                                         *)
(* Bytes are abstracted to tokens: the lines of a request's head, the      *)
(* pieces of its body, and junk no head may hold.  Clients send the tokens *)
(* of their script one by one, read or do not read the replies, and close  *)
(* or break their connection, all at any time, between any two steps of    *)
(* the server.                                                             *)
(***************************************************************************)
EXTENDS Naturals, Sequences, FiniteSets

CONSTANTS
  Conn,        \* clients, with one connection each
  Listener,    \* the listening socket
  Uri, Routes, \* what the handler of a uri does: see Result
  Default,     \* what the one under :default does, "number" if there is none
  Scripts,     \* what the clients may send: a sequence of tokens for each
  MaxHead,     \* MG_MAX_HTTP_REQUEST_SIZE, in tokens
  Endless,     \* the length of a body that is as long as the connection
  Window,      \* how many replies a socket can hold
  Rooms        \* how many each can take to their end before its client reads

Result == {"table", "number", "badly_typed", "throws", "yields"}

Line(u, need) == [kind |-> "line", uri |-> u, need |-> need]
Header == [kind |-> "header"]
Blank  == [kind |-> "blank"]
Body   == [kind |-> "body"]
Junk   == [kind |-> "junk"]
Token  == [kind : {"line"}, uri : Uri, need : Nat] \cup {Header, Blank, Body, Junk}

(* What the clients send are requests: the line, headers, the blank line    *)
(* and the body that was announced, one request behind the other, until    *)
(* the client stops or sends junk.                                         *)
Starts(s, i) == i \in DOMAIN s => s[i] = Junk \/ s[i].kind = "line"
InHead(s, i, j) ==
  s[i].kind = "line" /\ i < j /\ \A k \in i + 1 .. j - 1 : s[k] \notin {Blank, Junk}

Framed(s) ==
  /\ Starts(s, 1)
  /\ \A i, j \in DOMAIN s : InHead(s, i, j) =>
       /\ s[j] \in {Header, Blank, Junk}
       /\ s[j] = Blank =>
            /\ \A k \in j + 1 .. j + s[i].need : k \in DOMAIN s => s[k] = Body
            /\ Starts(s, j + s[i].need + 1)

ASSUME CircletAssumption ==
  /\ Listener \notin Conn
  /\ Routes \in UNION {[R -> Result] : R \in SUBSET Uri} /\ Default \in Result
  /\ MaxHead \in Nat /\ Endless \in Nat /\ Window \in Nat
  /\ \A s \in Scripts : s \in [Conn -> Seq(Token)]
  /\ \A s \in Scripts, c \in Conn : Len(s[c]) < Endless
  /\ Rooms \subseteq [Conn -> 0 .. Window]

ASSUME ScriptAssumption == \A s \in Scripts, c \in Conn : Framed(s[c])

VARIABLES
  script,     \* what each client sends in its life
  sent,       \* how much of it has been sent
  peer,       \* the client's end: "idle", "open", "shut" or "reset"
  net,        \* what the kernel holds for recv()
  room,       \* how many replies it can still take to their end
  state,      \* the server's end: "none", "active" or "closed"
  active,     \* mgr->active_connections, without the listener at its end
  flags,      \* MG_F_SEND_AND_CLOSE and MG_F_CLOSE_IMMEDIATELY
  recv_mbuf,  \* received and not yet consumed
  handled,    \* the requests the fiber was resumed with: [uri, body]
  out,        \* the replies written to send_mbuf
  taken,      \* how many of them send() took
  fiber,      \* the loop: [status, by], by the request whose handler yielded
  pass,       \* the connections mg_socket_if_poll() has still to visit
  ready,      \* what select() said: [r, w]
  step        \* where mg_mgr_handle_conn() is with the first one of pass

client  == <<script, sent, peer>>
kernel  == <<net, room>>
sockets == <<state, active>>
replies == <<out, taken>>
loop    == <<pass, ready, step>>
vars    == <<client, kernel, sockets, flags, recv_mbuf, handled, replies, fiber, loop>>

NoRequest == <<Listener, 0>>
send_mbuf(c) == SubSeq(out[c], taken[c] + 1, Len(out[c]))
waiting(c)   == peer[c] # "idle" /\ state[c] = "none"    \* in the kernel's backlog

-----------------------------------------------------------------------------
(* mg_http_get_request_len(): a head ends with its first blank line and is *)
(* malformed when something unprintable comes before that.                 *)
Ends(b)      == {i \in DOMAIN b : b[i] = Blank}
Malformed(b) == \E i \in DOMAIN b : b[i] = Junk /\ \A j \in Ends(b) : i < j
Headed(b)    == Ends(b) # {} /\ ~Malformed(b)
req_len(b)   == CHOOSE i \in Ends(b) : \A j \in Ends(b) : i <= j

(* A mutant: the body is not counted. *)
message_len_head(b) == req_len(b)

(* mg_parse_http(): hm->message.len.  A body that is not announced is      *)
(* empty, but for PUT and POST, where it has no end.                       *)
message_len(b) == req_len(b) + b[1].need

(* The router: the route of the uri, the default one, or the number 404.   *)
router(u) == IF u \in DOMAIN Routes THEN Routes[u] ELSE Default

-----------------------------------------------------------------------------
(* janet_continue() on the fiber of the listener with request r for uri u: *)
(* whose handler's value comes out, if any does, and the fiber after.  A   *)
(* handler that yielded takes the next request as the value of its yield   *)
(* and returns; a fiber that threw cannot be continued.                    *)
Continues(u) ==
  \/ fiber.status = "inside"
  \/ fiber.status = "pending" /\ router(u) # "throws"

Speaker(r) == IF fiber.status = "inside" THEN fiber.by ELSE r

(* A mutant: the request after a yield is handled by a second loop. *)
janet_continue_twice(r, u) ==
  IF ~Continues(u) THEN [status |-> "error", by |-> NoRequest]
  ELSE IF fiber.status = "pending" THEN [status |-> "inside", by |-> r]
  ELSE [status |-> "pending", by |-> NoRequest]

janet_continue(r, u) ==
  IF ~Continues(u) THEN [status |-> "error", by |-> NoRequest]
  ELSE IF fiber.status = "pending" /\ router(u) = "yields"
    THEN [status |-> "inside", by |-> r]
  ELSE [status |-> "pending", by |-> NoRequest]

(* send_http(): what it writes for what came out.  A number is answered    *)
(* with 500; a table whose status, headers or body have the wrong type is  *)
(* not answered at all.                                                    *)
send_http(r, u) ==
  LET value == IF fiber.status = "inside" THEN "table" ELSE router(u) IN
  IF value = "badly_typed" THEN <<>>
  ELSE <<[by |-> Speaker(r), code |-> IF value = "number" THEN 500 ELSE 200]>>

(* http_handler(), on a request of connection c whose head is in its       *)
(* buffer.  build_http_request() takes hm->body, which deliver_chunk() has *)
(* just made everything behind the head.                                   *)
http_handler(c) ==
  LET b == recv_mbuf[c]
      u == b[1].uri
      r == <<c, Len(handled[c]) + 1>>
      body == SubSeq(b, req_len(b) + 1, Len(b))
  IN
  /\ handled' = [handled EXCEPT ![c] = Append(@, [uri |-> u, body |-> body])]
  /\ fiber' = janet_continue(r, u)
  /\ IF Continues(u)
       THEN /\ out' = [out EXCEPT ![c] = @ \o send_http(r, u)]
            /\ flags' = [flags EXCEPT ![c] = @ \cup {"SEND_AND_CLOSE"}]
       ELSE UNCHANGED <<out, flags>>

-----------------------------------------------------------------------------
(* The clients. *)
Connect(c) ==
  /\ peer[c] = "idle"
  /\ peer' = [peer EXCEPT ![c] = "open"]
  /\ UNCHANGED <<script, sent, kernel, sockets, flags, recv_mbuf, handled, replies, fiber, loop>>

Send(c) ==
  /\ peer[c] = "open" /\ state[c] # "closed" /\ sent[c] < Len(script[c])
  /\ sent' = [sent EXCEPT ![c] = @ + 1]
  /\ net' = [net EXCEPT ![c] = Append(@, script[c][sent[c] + 1])]
  /\ UNCHANGED <<script, peer, room, sockets, flags, recv_mbuf, handled, replies, fiber, loop>>

(* shutdown() or an orderly close(). *)
Shut(c) ==
  /\ peer[c] = "open"
  /\ peer' = [peer EXCEPT ![c] = "shut"]
  /\ UNCHANGED <<script, sent, kernel, sockets, flags, recv_mbuf, handled, replies, fiber, loop>>

(* The connection breaks, with what was not received yet or without it. *)
Reset(c) ==
  /\ peer[c] \in {"open", "shut"}
  /\ peer' = [peer EXCEPT ![c] = "reset"]
  /\ net' \in {net, [net EXCEPT ![c] = <<>>]}
  /\ UNCHANGED <<script, sent, room, sockets, flags, recv_mbuf, handled, replies, fiber, loop>>

(* It reads a reply, or the part of a long one that makes room for its end. *)
Read(c) ==
  /\ peer[c] # "reset" /\ state[c] = "active" /\ out[c] # <<>> /\ room[c] < Window
  /\ room' = [room EXCEPT ![c] = @ + 1]
  /\ UNCHANGED <<client, net, sockets, flags, recv_mbuf, handled, replies, fiber, loop>>

-----------------------------------------------------------------------------
(* mg_socket_if_poll(): select(), with the time out of circlet-poll or     *)
(* before it; then one visit to each connection.  A connection that is     *)
(* accepted during the pass goes to the head of the list, behind it.       *)
(* A mutant: the end of a client is not seen. *)
readable_bytes(c) == net[c] # <<>>
readable(c) == net[c] # <<>> \/ peer[c] # "open"

(* The loop asks about a connection with something to send, and select()   *)
(* says that it is ready when the socket has room or is broken.  A part of *)
(* a reply that a socket takes is not told from none.                      *)
(* A mutant: a connection that will be closed is not written to. *)
writable_alive(c) ==
  send_mbuf(c) # <<>> /\ flags[c] = {} /\ (room[c] > 0 \/ peer[c] = "reset")
writable(c) == send_mbuf(c) # <<>> /\ (room[c] > 0 \/ peer[c] = "reset")

select ==
  /\ pass = <<>>
  /\ pass' = Append(active, Listener)
  /\ step' = "poll"
  /\ ready' =
       [r |-> {c \in Conn : state[c] = "active" /\ readable(c)}
               \cup {l \in {Listener} : \E c \in Conn : waiting(c)},
        w |-> {c \in Conn : state[c] = "active" /\ writable(c)}]
  /\ UNCHANGED <<client, kernel, sockets, flags, recv_mbuf, handled, replies, fiber>>

visiting(c, s) == pass # <<>> /\ Head(pass) = c /\ step = s
continue(s) == step' = s /\ UNCHANGED <<pass, ready>>
advance == pass' = Tail(pass) /\ step' = "poll" /\ UNCHANGED ready

(* mg_accept_conn(): one connection a pass. *)
accept ==
  /\ visiting(Listener, "poll")
  /\ IF Listener \in ready.r
       THEN \E c \in Conn :
              /\ waiting(c)
              /\ state' = [state EXCEPT ![c] = "active"]
              /\ active' = <<c>> \o active
       ELSE UNCHANGED sockets
  /\ advance
  /\ UNCHANGED <<client, kernel, flags, recv_mbuf, handled, replies, fiber>>

(* A mutant: what is left in send_mbuf is dropped. *)
closes_unsent(c) == flags[c] # {}

(* mg_if_poll() *)
closes(c) ==
  \/ "CLOSE_IMMEDIATELY" \in flags[c]
  \/ "SEND_AND_CLOSE" \in flags[c] /\ send_mbuf(c) = <<>>

poll(c) ==
  /\ visiting(c, "poll") /\ ~closes(c)
  /\ continue(IF c \in ready.r THEN "recv" ELSE "send")
  /\ UNCHANGED <<client, kernel, sockets, flags, recv_mbuf, handled, replies, fiber>>

(* A mutant: a connection is found at the head of the list only. *)
mg_remove_conn_first(c) == IF Head(active) = c THEN Tail(active) ELSE active

mg_remove_conn(c) ==
  LET i == CHOOSE i \in DOMAIN active : active[i] = c
  IN  SubSeq(active, 1, i - 1) \o SubSeq(active, i + 1, Len(active))

(* mg_close_conn(), with MG_EV_CLOSE for mg_http_handler(): a request that *)
(* has a head is handled, however much of its body there is.  The socket   *)
(* is gone by then, and a reply goes with its buffer.                      *)
close(c) ==
  /\ visiting(c, "poll") /\ closes(c)
  /\ state' = [state EXCEPT ![c] = "closed"]
  /\ active' = mg_remove_conn(c)
  /\ net' = [net EXCEPT ![c] = <<>>]
  /\ recv_mbuf' = [recv_mbuf EXCEPT ![c] = <<>>]
  /\ IF Headed(recv_mbuf[c])
       THEN http_handler(c)
       ELSE UNCHANGED <<handled, fiber, out, flags>>
  /\ advance
  /\ UNCHANGED <<client, room, taken>>

(* mg_do_recv(): what there is, until there is nothing more. *)
recv(c) ==
  /\ visiting(c, "recv") /\ net[c] # <<>>
  /\ recv_mbuf' = [recv_mbuf EXCEPT ![c] = @ \o net[c]]
  /\ net' = [net EXCEPT ![c] = <<>>]
  /\ continue("parse")
  /\ UNCHANGED <<client, room, sockets, flags, handled, replies, fiber>>

recv_ends(c) ==
  /\ visiting(c, "recv") /\ net[c] = <<>>
  /\ flags' = [flags EXCEPT ![c] = @ \cup
       CASE peer[c] = "shut"  -> {"SEND_AND_CLOSE"}
         [] peer[c] = "reset" -> {"CLOSE_IMMEDIATELY"}
         [] OTHER -> {}]
  /\ continue("send")
  /\ UNCHANGED <<client, kernel, sockets, recv_mbuf, handled, replies, fiber>>

(* mg_http_handler() with MG_EV_RECV, on the message at the head of the    *)
(* buffer: it is refused, it is not there yet, or it is handled and what   *)
(* is behind it is next.                                                   *)
refuse(c) ==
  LET b == recv_mbuf[c] IN
  /\ visiting(c, "parse")
  /\ Malformed(b) \/ (Ends(b) = {} /\ Len(b) >= MaxHead)
  /\ flags' = [flags EXCEPT ![c] = @ \cup {"CLOSE_IMMEDIATELY"}]
  /\ continue("send")
  /\ UNCHANGED <<client, kernel, sockets, recv_mbuf, handled, replies, fiber>>

await(c) ==
  LET b == recv_mbuf[c] IN
  /\ visiting(c, "parse") /\ ~Malformed(b)
  /\ IF Headed(b) THEN message_len(b) > Len(b) ELSE Len(b) < MaxHead
  /\ continue("recv")
  /\ UNCHANGED <<client, kernel, sockets, flags, recv_mbuf, handled, replies, fiber>>

request(c) ==
  LET b == recv_mbuf[c]
      rest == SubSeq(b, message_len(b) + 1, Len(b))
  IN
  /\ visiting(c, "parse") /\ Headed(b) /\ message_len(b) <= Len(b)
  /\ http_handler(c)
  /\ recv_mbuf' = [recv_mbuf EXCEPT ![c] = rest]
  /\ continue(IF rest = <<>> THEN "recv" ELSE "parse")
  /\ UNCHANGED <<client, kernel, sockets, taken>>

(* mg_if_can_send_cb(): a socket that is ready takes what it has room for, *)
(* or less.                                                                *)
send(c) ==
  /\ visiting(c, "send")
  /\ IF c \notin ready.w \/ "CLOSE_IMMEDIATELY" \in flags[c]
       THEN UNCHANGED <<taken, room, flags>>
     ELSE IF peer[c] = "reset"
       THEN /\ flags' = [flags EXCEPT ![c] = @ \cup {"CLOSE_IMMEDIATELY"}]
            /\ UNCHANGED <<taken, room>>
     ELSE /\ \E n \in 1 .. room[c] :
               /\ taken[c] + n <= Len(out[c])
               /\ taken' = [taken EXCEPT ![c] = @ + n]
               /\ room' = [room EXCEPT ![c] = @ - n]
          /\ UNCHANGED flags
  /\ advance
  /\ UNCHANGED <<client, net, sockets, recv_mbuf, handled, out, fiber>>

-----------------------------------------------------------------------------
(* do_bind() has left the fiber in its first yield. *)
Init ==
  /\ script \in Scripts
  /\ sent = [c \in Conn |-> 0]
  /\ peer = [c \in Conn |-> "idle"]
  /\ net = [c \in Conn |-> <<>>]
  /\ room \in Rooms
  /\ state = [c \in Conn |-> "none"]
  /\ active = <<>>
  /\ flags = [c \in Conn |-> {}]
  /\ recv_mbuf = [c \in Conn |-> <<>>]
  /\ handled = [c \in Conn |-> <<>>]
  /\ out = [c \in Conn |-> <<>>]
  /\ taken = [c \in Conn |-> 0]
  /\ fiber = [status |-> "pending", by |-> NoRequest]
  /\ pass = <<>>
  /\ ready = [r |-> {}, w |-> {}]
  /\ step = "poll"

Clients == \E c \in Conn : Connect(c) \/ Send(c) \/ Read(c) \/ Shut(c) \/ Reset(c)

visit(c) ==
  \/ poll(c) \/ close(c)
  \/ recv(c) \/ recv_ends(c)
  \/ refuse(c) \/ await(c) \/ request(c)
  \/ send(c)

Server == select \/ accept \/ \E c \in Conn : visit(c)

Next == Clients \/ Server

(* The server polls for ever; clients do what they like. *)
Spec == Init /\ [][Next]_vars /\ WF_vars(Server)

-----------------------------------------------------------------------------
TypeOK ==
  /\ \A c \in Conn :
       /\ sent[c] \in 0 .. Len(script[c])
       /\ peer[c] \in {"idle", "open", "shut", "reset"}
       /\ room[c] \in 0 .. Window
       /\ state[c] \in {"none", "active", "closed"}
       /\ flags[c] \subseteq {"SEND_AND_CLOSE", "CLOSE_IMMEDIATELY"}
       /\ taken[c] \in 0 .. Len(out[c])
  /\ fiber.status \in {"pending", "inside", "error"}
  /\ step \in {"poll", "recv", "parse", "send"}
  /\ {active[i] : i \in DOMAIN active} = {c \in Conn : state[c] = "active"}

Lines(s, p) == {k \in 1 .. p : s[k].kind = "line"}

(* However a client's bytes are cut up, the requests of a connection reach *)
(* the loop of `server` in order, none twice and none left out, each with  *)
(* the body that was announced at the head of its :body; less than that    *)
(* only when the connection is being closed.                               *)
RequestsInOrder ==
  \A c \in Conn : \A i \in DOMAIN handled[c] : \E l \in DOMAIN script[c] :
    LET body == handled[c][i].body
        need == script[c][l].need
    IN
    /\ script[c][l].kind = "line" /\ Cardinality(Lines(script[c], l)) = i
    /\ handled[c][i].uri = script[c][l].uri
    /\ \A j \in 1 .. Len(body) : j <= need => body[j] = Body
    /\ Len(body) < need => state[c] = "closed" /\ i = Len(handled[c])

(* All connections share one fiber, and yet a reply goes to the connection *)
(* whose request it answers, in the order of the requests and once, as     *)
(* long as no handler yields: the request after that gets its reply.       *)
RepliesAreOwn ==
  \A c \in Conn : \A i \in DOMAIN out[c] :
    LET by == out[c][i].by IN
    \/ /\ by[1] = c /\ by[2] \in DOMAIN handled[c]
       /\ \A j \in 1 .. i - 1 : out[c][j].by[1] = c => out[c][j].by[2] < by[2]
    \/ router(handled[by[1]][by[2]].uri) = "yields"

(* The last request handled had less of a body than it announced. *)
Cut(c) ==
  LET n == Len(handled[c]) IN
  \E l \in DOMAIN script[c] :
    /\ n > 0 /\ script[c][l].kind = "line" /\ Cardinality(Lines(script[c], l)) = n
    /\ Len(handled[c][n].body) < script[c][l].need

(* A connection the server closes has been sent all its replies, unless    *)
(* the client broke it or sent what is no request, and but for one: the    *)
(* request that was cut short when the client stopped sending is handled   *)
(* while the connection is destroyed, and its reply is lost.               *)
Refusable(c) ==
  \/ \E i \in DOMAIN script[c] : script[c][i] = Junk
  \/ Cardinality({i \in DOMAIN script[c] : script[c][i] = Header}) + 1 >= MaxHead

SentBeforeClosed ==
  \A c \in Conn :
    state[c] = "closed" /\ peer[c] # "reset" /\ ~Refusable(c) =>
      \/ taken[c] = Len(out[c])
      \/ taken[c] + 1 = Len(out[c]) /\ Cut(c)

(* A client that reads on what it is sent, or breaks the connection. *)
ReadsOn(c) == []<>(send_mbuf(c) = <<>> \/ room[c] > 0 \/ peer[c] = "reset")

(* A request that has arrived is answered or its connection is closed,     *)
(* whatever the other connections do, if its client reads on; but a        *)
(* handler that throws silences the fiber, and with it every connection    *)
(* there is.                                                               *)
Arrived(c) ==
  LET b == SubSeq(script[c], 1, sent[c]) IN Headed(b) /\ message_len(b) <= Len(b)

EveryRequestEnds ==
  \A c \in Conn : ReadsOn(c) =>
    (Arrived(c) ~> taken[c] > 0 \/ state[c] = "closed" \/ fiber.status = "error")

(* A connection that was answered or that its client left is closed, if    *)
(* the client reads on.  The code has no time out for one that does not.   *)
EveryConnectionEnds ==
  \A c \in Conn : ReadsOn(c) =>
    (out[c] # <<>> \/ peer[c] \in {"shut", "reset"} ~> state[c] = "closed")
=============================================================================
