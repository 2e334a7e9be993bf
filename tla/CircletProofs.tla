--------------------------- MODULE CircletProofs ---------------------------
(***************************************************************************)
(* Proofs about Circlet, for any number of clients, any scripts and any    *)
(* handlers.                                                               *)
(***************************************************************************)
EXTENDS Circlet, FiniteSetTheorems, SequenceTheorems, WellFoundedInduction, TLAPS

States == {"none", "active", "closed"}

(* The list has the connections that are open, each once, and those of the *)
(* pass that are still to visit are among them.                            *)
Connections ==
  /\ script \in [Conn -> Seq(Token)]
  /\ sent \in [Conn -> Nat] /\ \A c \in Conn : sent[c] <= Len(script[c])
  /\ peer \in [Conn -> {"idle", "open", "shut", "reset"}]
  /\ state \in [Conn -> States]
  /\ active \in Seq(Conn)
  /\ \A i, j \in 1 .. Len(active) : active[i] = active[j] => i = j
  /\ \A c \in Conn : state[c] = "active" <=> \E i \in 1 .. Len(active) : active[i] = c
  /\ pass \in Seq(Conn \cup {Listener})
  /\ \A i, j \in 1 .. Len(pass) : pass[i] = pass[j] => i = j
  /\ \A i \in 1 .. Len(pass) : pass[i] \in Conn => state[pass[i]] = "active"

Marks ==
  /\ flags \in [Conn -> SUBSET {"SEND_AND_CLOSE", "CLOSE_IMMEDIATELY"}]
  /\ step \in {"poll", "recv", "parse", "send"}
  /\ room \in [Conn -> 0 .. Window]

(* A request, by its connection and its place there; one that was handled, *)
(* and one whose handler yields.                                           *)
Ids   == (Conn \cup {Listener}) \X Nat
Reply == [by : Ids, code : {200, 500}]

Handled(h, r) == r[1] \in Conn /\ r[2] \in 1 .. Len(h[r[1]])
Yields(h, r)  == router(h[r[1]][r[2]].uri) = "yields"

Replies ==
  /\ \E S : handled \in [Conn -> Seq(S)]
  /\ out \in [Conn -> Seq(Reply)]
  /\ taken \in [Conn -> Nat] /\ \A c \in Conn : taken[c] <= Len(out[c])
  /\ fiber \in [status : {"pending", "inside", "error"}, by : Ids]
  /\ fiber.status = "inside" => Handled(handled, fiber.by) /\ Yields(handled, fiber.by)
  /\ \A c \in Conn : \A i \in 1 .. Len(out[c]) :
       /\ Handled(handled, out[c][i].by)
       /\ \/ Yields(handled, out[c][i].by)
          \/ /\ out[c][i].by[1] = c
             /\ \A j \in 1 .. i - 1 : out[c][j].by[1] = c => out[c][j].by[2] < out[c][i].by[2]

-----------------------------------------------------------------------------
LEMMA RepliesInit == Init => Replies
<1> SUFFICES ASSUME Init PROVE Replies
  OBVIOUS
<1>1. /\ handled = [c \in Conn |-> <<>>] /\ out = [c \in Conn |-> <<>>]
      /\ taken = [c \in Conn |-> 0]
      /\ fiber = [status |-> "pending", by |-> NoRequest]
  BY DEF Init
<1>2. handled \in [Conn -> Seq({})] /\ out \in [Conn -> Seq(Reply)] /\ taken \in [Conn -> Nat]
  BY <1>1
<1>3. \A c \in Conn : Len(out[c]) = 0 /\ taken[c] = 0
  BY <1>1
<1>4. /\ fiber \in [status : {"pending", "inside", "error"}, by : Ids]
      /\ fiber.status # "inside"
  BY <1>1 DEF NoRequest, Ids
<1>5. \A c \in Conn : taken[c] <= Len(out[c]) /\ 1 .. Len(out[c]) = {}
  BY <1>3
<1> QED BY <1>2, <1>4, <1>5 DEF Replies

(* One more request of c has been handled: what was known of the requests  *)
(* before it still holds.                                                  *)
LEMMA HandledStays ==
  ASSUME NEW S, handled \in [Conn -> Seq(S)], NEW c \in Conn, NEW x,
         handled' = [handled EXCEPT ![c] = Append(handled[c], x)]
  PROVE  /\ \E T : handled' \in [Conn -> Seq(T)]
         /\ \A r : Handled(handled, r) => Handled(handled', r) /\ (Yields(handled, r) => Yields(handled', r))
         /\ Len(handled'[c]) = Len(handled[c]) + 1 /\ handled'[c][Len(handled[c]) + 1] = x
<1> DEFINE T == S \cup {x}
<1>1. \A d \in Conn : handled[d] \in Seq(T)
  <2>1. Seq(S) \subseteq Seq(T)
    OBVIOUS
  <2> QED BY <2>1
<1>2. handled[c] \in Seq(T) /\ x \in T
  BY <1>1
<1>3. /\ Append(handled[c], x) \in Seq(T)
      /\ Len(Append(handled[c], x)) = Len(handled[c]) + 1
      /\ Append(handled[c], x)[Len(handled[c]) + 1] = x
      /\ \A i \in 1 .. Len(handled[c]) : Append(handled[c], x)[i] = handled[c][i]
  <2> HIDE DEF T
  <2> QED BY <1>2
<1>4. handled' \in [Conn -> Seq(T)]
  <2> HIDE DEF T
  <2> QED BY <1>1, <1>3
<1>5. \A d \in Conn : /\ Len(handled[d]) <= Len(handled'[d]) /\ Len(handled[d]) \in Nat
                      /\ Len(handled'[d]) \in Nat
                      /\ \A i \in 1 .. Len(handled[d]) : handled'[d][i] = handled[d][i]
  <2> TAKE d \in Conn
  <2>1. handled'[d] \in Seq(T) /\ handled[d] \in Seq(T)
    BY <1>1, <1>4
  <2>2. Len(handled[d]) \in Nat /\ Len(handled'[d]) \in Nat
    BY <2>1, LenProperties
  <2>3. CASE d = c
    BY <2>2, <2>3, <1>3
  <2>4. CASE d # c
    BY <2>2, <2>4
  <2> QED BY <2>3, <2>4
<1>6. ASSUME NEW r, Handled(handled, r) PROVE Handled(handled', r) /\ (Yields(handled, r) => Yields(handled', r))
  <2>1. r[1] \in Conn /\ r[2] \in 1 .. Len(handled[r[1]])
    BY <1>6 DEF Handled
  <2>2. r[2] \in 1 .. Len(handled'[r[1]]) /\ handled'[r[1]][r[2]] = handled[r[1]][r[2]]
    BY <2>1, <1>5
  <2> QED BY <2>1, <2>2 DEF Handled, Yields, router
<1> QED BY <1>3, <1>4, <1>6

LEMMA HandlerKeeps ==
  ASSUME Replies, NEW c \in Conn, http_handler(c), UNCHANGED taken
  PROVE  Replies'
<1> DEFINE b == recv_mbuf[c]
           u == b[1].uri
           n == Len(handled[c]) + 1
           r == <<c, n>>
           x == [uri |-> u, body |-> SubSeq(b, req_len(b) + 1, Len(b))]
<1>1. /\ handled' = [handled EXCEPT ![c] = Append(handled[c], x)]
      /\ fiber' = janet_continue(r, u)
      /\ IF Continues(u)
         THEN out' = [out EXCEPT ![c] = out[c] \o send_http(r, u)]
         ELSE out' = out
  BY DEF http_handler
<1>2. x.uri = u
  OBVIOUS
<1> HIDE DEF b, u, x
<1>3. PICK S : handled \in [Conn -> Seq(S)]
  BY DEF Replies
<1>4. /\ \E T : handled' \in [Conn -> Seq(T)]
      /\ \A q : Handled(handled, q) => Handled(handled', q) /\ (Yields(handled, q) => Yields(handled', q))
      /\ Len(handled'[c]) = n /\ handled'[c][n] = x
  BY <1>1, <1>3, HandledStays
<1>5. n \in Nat /\ n >= 1 /\ \A q : Handled(handled, q) /\ q[1] = c => q[2] < n /\ q[2] \in Nat
  <2>1. Len(handled[c]) \in Nat
    BY <1>3, LenProperties
  <2> QED BY <2>1 DEF Handled
<1> HIDE DEF n
<1>6. r \in Ids /\ r[1] = c /\ r[2] = n /\ Handled(handled', r) /\ (router(u) = "yields" => Yields(handled', r))
  BY <1>2, <1>4, <1>5 DEF Ids, Handled, Yields, router
<1> HIDE DEF r
<1>7. /\ fiber' \in [status : {"pending", "inside", "error"}, by : Ids]
      /\ fiber'.status = "inside" => Handled(handled', fiber'.by) /\ Yields(handled', fiber'.by)
  <2>1. NoRequest \in Ids
    BY DEF NoRequest, Ids
  <2>2. CASE Continues(u) /\ fiber.status = "pending" /\ router(u) = "yields"
    <3>1. fiber' = [status |-> "inside", by |-> r]
      BY <1>1, <2>2 DEF janet_continue
    <3>2. fiber'.by = r
      BY <3>1
    <3>3. Handled(handled', fiber'.by) /\ Yields(handled', fiber'.by)
      BY <3>2, <2>2, <1>6 DEF Handled, Yields, router
    <3> QED BY <3>1, <3>3, <1>6
  <2>3. CASE ~(Continues(u) /\ fiber.status = "pending" /\ router(u) = "yields")
    <3>1. \/ fiber' = [status |-> "pending", by |-> NoRequest]
          \/ fiber' = [status |-> "error", by |-> NoRequest]
      BY <1>1, <2>3 DEF janet_continue
    <3> QED BY <3>1, <2>1
  <2> QED BY <2>2, <2>3
<1>8. ASSUME NEW d \in Conn, NEW i \in 1 .. Len(out[d])
      PROVE  /\ Handled(handled', out[d][i].by)
             /\ \/ Yields(handled', out[d][i].by)
                \/ /\ out[d][i].by[1] = d
                   /\ \A j \in 1 .. i - 1 : out[d][j].by[1] = d => out[d][j].by[2] < out[d][i].by[2]
  BY <1>4 DEF Replies
<1>9. CASE out' = out
  BY <1>4, <1>7, <1>8, <1>9 DEF Replies, Handled, Yields
<1>10. CASE Continues(u) /\ send_http(r, u) # <<>>
  <2>1. PICK k \in {200, 500} : send_http(r, u) = <<[by |-> Speaker(r), code |-> k]>>
    BY <1>10 DEF send_http
  <2> DEFINE y == [by |-> Speaker(r), code |-> k]
  <2>2. /\ Speaker(r) \in Ids /\ Handled(handled', Speaker(r))
        /\ Speaker(r) = r \/ Yields(handled', Speaker(r))
    <3>1. CASE fiber.status = "inside"
      BY <3>1, <1>4 DEF Replies, Speaker
    <3>2. CASE fiber.status # "inside"
      BY <3>2, <1>6 DEF Speaker
    <3> QED BY <3>1, <3>2
  <2>3. y \in Reply /\ y.by = Speaker(r)
    BY <2>2 DEF Reply
  <2> HIDE DEF y
  <2>4. out' = [out EXCEPT ![c] = out[c] \o <<y>>]
    BY <1>1, <1>10, <2>1 DEF y
  <2>5. out[c] \in Seq(Reply)
    BY DEF Replies
  <2>6. /\ out[c] \o <<y>> \in Seq(Reply) /\ Len(out[c] \o <<y>>) = Len(out[c]) + 1
        /\ (out[c] \o <<y>>)[Len(out[c]) + 1] = y
        /\ \A i \in 1 .. Len(out[c]) : (out[c] \o <<y>>)[i] = out[c][i]
    BY <2>3, <2>5
  <2>7. out' \in [Conn -> Seq(Reply)]
    BY <2>4, <2>6 DEF Replies
  <2> DEFINE new == out[c] \o <<y>>
  <2>8. out'[c] = new /\ \A d \in Conn : d # c => out'[d] = out[d]
    BY <2>4 DEF Replies
  <2>8b. Len(new) = Len(out[c]) + 1 /\ Len(out[c]) \in Nat /\ new[Len(out[c]) + 1] = y
        /\ \A i \in 1 .. Len(out[c]) : new[i] = out[c][i]
    BY <2>5, <2>6, LenProperties
  <2> HIDE DEF new
  <2>9. \A d \in Conn : taken'[d] <= Len(out'[d])
    <3> TAKE d \in Conn
    <3>1. taken[d] \in Nat /\ taken[d] <= Len(out[d]) /\ Len(out[c]) \in Nat
      BY <2>5, LenProperties DEF Replies
    <3>2. CASE d = c
      BY <3>1, <3>2, <2>8, <2>8b
    <3>3. CASE d # c
      BY <3>1, <3>3, <2>8
    <3> QED BY <3>2, <3>3
  <2>10. ASSUME NEW d \in Conn, NEW i \in 1 .. Len(out'[d])
         PROVE  /\ Handled(handled', out'[d][i].by)
                /\ \/ Yields(handled', out'[d][i].by)
                   \/ /\ out'[d][i].by[1] = d
                      /\ \A j \in 1 .. i - 1 : out'[d][j].by[1] = d => out'[d][j].by[2] < out'[d][i].by[2]
    <3>1. CASE d # c
      
      <4>1. out'[d] = out[d] /\ i \in 1 .. Len(out[d])
        BY <3>1, <2>8
      <4> QED BY <4>1, <1>8
    <3>2. CASE d = c /\ i \in 1 .. Len(out[c])
      <4>1. \A j \in 1 .. i : out'[d][j] = out[d][j]
        BY <3>2, <2>8, <2>8b
      <4>2. i \in 1 .. i /\ \A j \in 1 .. i - 1 : j \in 1 .. i
        BY <3>2
      <4>3. i \in 1 .. Len(out[d]) /\ out'[d][i] = out[d][i]
        BY <3>2, <4>1, <4>2
      <4>4. \A j \in 1 .. i - 1 : out'[d][j] = out[d][j]
        BY <4>1, <4>2
      <4> QED BY <4>3, <4>4, <1>8
    <3>3. CASE d = c /\ i = Len(out[c]) + 1
      <4>1. out'[d][i].by = Speaker(r) /\ \A j \in 1 .. i - 1 : out'[d][j] = out[c][j]
        <5>1. Len(out[c]) \in Nat
          BY <2>5, LenProperties
        <5>2. \A j \in 1 .. i - 1 : j \in 1 .. Len(out[c])
          BY <3>3, <5>1
        <5> QED BY <5>2, <3>3, <2>3, <2>8, <2>8b
      <4>2. \A j \in 1 .. i - 1 : out[c][j].by[1] = c => out[c][j].by[2] < n
        <5>1. Len(out[c]) \in Nat
          BY <2>5, LenProperties
        <5>2. \A j \in 1 .. i - 1 : j \in 1 .. Len(out[c])
          BY <3>3, <5>1
        <5> QED BY <5>2, <1>5 DEF Replies
      <4>3. CASE Speaker(r) = r
        BY <3>3, <4>1, <4>2, <4>3, <2>2, <1>6 DEF Handled
      <4>4. CASE Yields(handled', Speaker(r))
        BY <4>1, <4>4, <2>2 DEF Handled, Yields
      <4> QED BY <4>3, <4>4, <2>2
    <3>4. d # c \/ i \in 1 .. Len(out[c]) \/ i = Len(out[c]) + 1
      <4> SUFFICES ASSUME d = c PROVE i \in 1 .. Len(out[c]) \/ i = Len(out[c]) + 1
        OBVIOUS
      <4> QED BY <2>8, <2>8b
    <3> QED BY <3>1, <3>2, <3>3, <3>4
  <2> QED BY <1>4, <1>7, <2>7, <2>9, <2>10 DEF Replies, Handled, Yields
<1>11. CASE Continues(u) /\ send_http(r, u) = <<>>
  <2>1. out' = [out EXCEPT ![c] = out[c] \o <<>>]
    BY <1>1, <1>11
  <2>2. out[c] \o <<>> = out[c]
    BY ConcatEmptySeq DEF Replies
  <2>3. out' = out
    BY <2>1, <2>2 DEF Replies
  <2> QED BY <2>3, <1>9
<1>12. CASE ~Continues(u)
  BY <1>12, <1>1, <1>9
<1> QED BY <1>10, <1>11, <1>12

LEMMA SendKeeps == ASSUME Marks, Replies, NEW c \in Conn, send(c) PROVE Replies'
<1>1. UNCHANGED <<handled, out, fiber>>
  BY DEF send
<1>2. taken' \in [Conn -> Nat] /\ \A d \in Conn : taken'[d] <= Len(out[d])
  <2>1. CASE UNCHANGED taken
    BY <2>1 DEF Replies
  <2>2. ASSUME NEW n \in 1 .. room[c], taken[c] + n <= Len(out[c]),
               taken' = [taken EXCEPT ![c] = taken[c] + n]
        PROVE  taken' \in [Conn -> Nat] /\ \A d \in Conn : taken'[d] <= Len(out[d])
    <3>1. taken[c] \in Nat /\ room[c] \in Nat
      BY CircletAssumption DEF Replies, Marks
    <3>2. taken[c] + n \in Nat
      BY <3>1
    <3> QED BY <2>2, <3>2 DEF Replies
  <2> QED BY <2>1, <2>2 DEF send
<1> QED BY <1>1, <1>2 DEF Replies, Handled, Yields

LEMMA RepliesStep == ASSUME Marks, Replies, [Next]_vars PROVE Replies'
<1>1. CASE UNCHANGED <<handled, out, taken, fiber>>
  BY <1>1 DEF Replies, Handled, Yields
<1>2. CASE Clients
  BY <1>1, <1>2 DEF Clients, Connect, Send, Read, Shut, Reset, replies
<1>3. CASE select \/ accept
  BY <1>1, <1>3 DEF select, accept, replies
<1>4. ASSUME NEW c \in Conn, visit(c) PROVE Replies'
  <2>1. CASE poll(c) \/ recv(c) \/ recv_ends(c) \/ refuse(c) \/ await(c)
    BY <2>1, <1>1 DEF poll, recv, recv_ends, refuse, await, replies
  <2>2. CASE close(c)
    <3>1. UNCHANGED taken /\ (http_handler(c) \/ UNCHANGED <<handled, out, fiber>>)
      BY <2>2 DEF close
    <3> QED BY <3>1, <1>1, HandlerKeeps
  <2>3. CASE request(c)
    <3>1. UNCHANGED taken /\ http_handler(c)
      BY <2>3 DEF request
    <3> QED BY <3>1, HandlerKeeps
  <2>4. CASE send(c)
    BY <2>4, SendKeeps
  <2> QED BY <1>4, <2>1, <2>2, <2>3, <2>4 DEF visit
<1>5. CASE UNCHANGED vars
  BY <1>5, <1>1 DEF vars, replies
<1> QED BY <1>2, <1>3, <1>4, <1>5 DEF Next, Server

-----------------------------------------------------------------------------
LEMMA ConnectionsInit == Init => Connections
<1> SUFFICES ASSUME Init PROVE Connections
  OBVIOUS
<1>1. script \in [Conn -> Seq(Token)]
  BY CircletAssumption DEF Init
<1>2. sent \in [Conn -> Nat] /\ \A c \in Conn : sent[c] <= Len(script[c])
  <2>1. sent = [c \in Conn |-> 0]
    BY DEF Init
  <2>2. \A c \in Conn : Len(script[c]) \in Nat
    BY <1>1, LenProperties
  <2> QED BY <2>1, <2>2
<1>3. active = <<>> /\ pass = <<>> /\ peer = [c \in Conn |-> "idle"] /\ state = [c \in Conn |-> "none"]
  BY DEF Init
<1>4. /\ active \in Seq(Conn) /\ pass \in Seq(Conn \cup {Listener})
      /\ 1 .. Len(active) = {} /\ 1 .. Len(pass) = {}
  BY <1>3
<1> QED BY <1>1, <1>2, <1>3, <1>4 DEF Connections, States

LEMMA ClientsKeep == ASSUME Connections, Clients PROVE Connections'
<1>1. PICK c \in Conn : Connect(c) \/ Send(c) \/ Read(c) \/ Shut(c) \/ Reset(c)
  BY DEF Clients
<1>2. UNCHANGED <<script, state, active, pass>>
  BY <1>1 DEF Connect, Send, Read, Shut, Reset, client, sockets, loop
<1>3. peer' \in [Conn -> {"idle", "open", "shut", "reset"}]
  BY <1>1 DEF Connect, Send, Read, Shut, Reset, client, Connections
<1>4. sent' \in [Conn -> Nat] /\ \A d \in Conn : sent'[d] <= Len(script[d])
  <2>1. CASE Send(c)
    <3>1. sent' = [sent EXCEPT ![c] = sent[c] + 1] /\ sent[c] < Len(script[c])
      BY <2>1 DEF Send
    <3>2. \A d \in Conn : Len(script[d]) \in Nat
      BY LenProperties DEF Connections
    <3> QED BY <3>1, <3>2 DEF Connections
  <2>2. CASE Connect(c) \/ Read(c) \/ Shut(c) \/ Reset(c)
    BY <2>2 DEF Connect, Read, Shut, Reset, client, Connections
  <2> QED BY <1>1, <2>1, <2>2
<1> QED BY <1>2, <1>3, <1>4 DEF Connections

LEMMA SelectKeeps == ASSUME Connections, select PROVE Connections'
<1>1. pass' = Append(active, Listener) /\ UNCHANGED <<script, sent, peer, state, active>>
  BY DEF select, client, sockets
<1>2. /\ active \in Seq(Conn) /\ Len(active) \in Nat
      /\ \A i \in 1 .. Len(active) : active[i] \in Conn
  BY LenProperties DEF Connections
<1>3. /\ pass' \in Seq(Conn \cup {Listener}) /\ Len(pass') = Len(active) + 1
      /\ \A i \in 1 .. Len(active) : pass'[i] = active[i]
      /\ pass'[Len(active) + 1] = Listener
  <2>1. active \in Seq(Conn \cup {Listener})
    BY <1>2
  <2> QED BY <1>1, <2>1
<1>4. \A i \in 1 .. Len(pass') : i \in 1 .. Len(active) \/ i = Len(active) + 1
  BY <1>2, <1>3
<1>5. ASSUME NEW i \in 1 .. Len(pass'), NEW j \in 1 .. Len(pass'), pass'[i] = pass'[j]
      PROVE  i = j
  <2>1. \A m, n \in 1 .. Len(active) : active[m] = active[n] => m = n
    BY DEF Connections
  <2>2. \A m \in 1 .. Len(active) : pass'[m] \in Conn
    BY <1>2, <1>3
  <2>3. Listener \notin Conn
    BY CircletAssumption
  <2>4. CASE i \in 1 .. Len(active) /\ j \in 1 .. Len(active)
    BY <2>1, <2>4, <1>3, <1>5
  <2>5. CASE ~(i \in 1 .. Len(active) /\ j \in 1 .. Len(active))
    BY <2>2, <2>3, <2>5, <1>3, <1>4, <1>5
  <2> QED BY <2>4, <2>5
<1>6. ASSUME NEW i \in 1 .. Len(pass'), pass'[i] \in Conn PROVE state'[pass'[i]] = "active"
  <2>1. i \in 1 .. Len(active)
    BY <1>3, <1>4, <1>6, CircletAssumption
  <2> QED BY <2>1, <1>1, <1>2, <1>3 DEF Connections
<1>7. \A i, j \in 1 .. Len(pass') : pass'[i] = pass'[j] => i = j
  BY <1>5
<1>8. \A i \in 1 .. Len(pass') : pass'[i] \in Conn => state'[pass'[i]] = "active"
  BY <1>6
<1>9. /\ script' = script /\ sent' = sent /\ peer' = peer /\ state' = state /\ active' = active
      /\ pass' \in Seq(Conn \cup {Listener})
  BY <1>1, <1>3
<1> QED BY <1>7, <1>8, <1>9 DEF Connections

(* The rest of a pass. *)
LEMMA RestOfPass ==
  ASSUME Connections, pass # <<>>, pass' = Tail(pass)
  PROVE  /\ pass' \in Seq(Conn \cup {Listener})
         /\ \A i, j \in 1 .. Len(pass') : pass'[i] = pass'[j] => i = j
         /\ \A i \in 1 .. Len(pass') :
              pass'[i] # Head(pass) /\ (pass'[i] \in Conn => state[pass'[i]] = "active")
<1>1. pass \in Seq(Conn \cup {Listener}) /\ Len(pass) \in Nat /\ Len(pass) >= 1 /\ Head(pass) = pass[1]
  BY DEF Connections
<1>2. /\ pass' \in Seq(Conn \cup {Listener}) /\ Len(pass') = Len(pass) - 1
      /\ \A i \in 1 .. Len(pass') : pass'[i] = pass[i + 1]
  BY <1>1, HeadTailProperties
<1>3. \A i \in 1 .. Len(pass') : i + 1 \in 1 .. Len(pass) /\ i + 1 # 1
  BY <1>1, <1>2
<1>4. 1 \in 1 .. Len(pass)
  BY <1>1
<1>5. ASSUME NEW i \in 1 .. Len(pass'), NEW j \in 1 .. Len(pass'), pass'[i] = pass'[j] PROVE i = j
  <2>1. i + 1 = j + 1
    BY <1>2, <1>3, <1>5 DEF Connections
  <2> QED BY <2>1
<1>6. ASSUME NEW i \in 1 .. Len(pass')
      PROVE  pass'[i] # Head(pass) /\ (pass'[i] \in Conn => state[pass'[i]] = "active")
  BY <1>1, <1>2, <1>3, <1>4 DEF Connections
<1> QED BY <1>2, <1>5, <1>6

LEMMA AcceptKeeps == ASSUME Connections, accept PROVE Connections'
<1>1. pass # <<>> /\ pass' = Tail(pass) /\ UNCHANGED <<script, sent, peer>>
  BY DEF accept, visiting, advance, client
<1>2. CASE UNCHANGED sockets
  BY <1>1, <1>2, RestOfPass DEF Connections, sockets
<1>3. ASSUME NEW c \in Conn, waiting(c), state' = [state EXCEPT ![c] = "active"],
             active' = <<c>> \o active
      PROVE  Connections'
  <2>1. /\ active \in Seq(Conn) /\ Len(active) \in Nat /\ state[c] = "none"
        /\ \A i \in 1 .. Len(active) : active[i] # c
    BY <1>3, LenProperties DEF Connections, waiting
  <2>2. /\ active' \in Seq(Conn) /\ Len(active') = Len(active) + 1 /\ active'[1] = c
        /\ \A i \in 2 .. Len(active) + 1 : active'[i] = active[i - 1]
    <3>1. <<c>> \in Seq(Conn) /\ Len(<<c>>) = 1 /\ <<c>>[1] = c
      OBVIOUS
    <3>2. /\ active' \in Seq(Conn) /\ Len(active') = Len(<<c>>) + Len(active)
          /\ \A i \in 1 .. Len(<<c>>) + Len(active) :
               active'[i] = IF i <= Len(<<c>>) THEN <<c>>[i] ELSE active[i - Len(<<c>>)]
      BY <3>1, <2>1, <1>3, ConcatProperties
    <3> QED BY <3>1, <3>2, <2>1
  <2>3. \A i \in 1 .. Len(active') : i = 1 \/ (i \in 2 .. Len(active) + 1 /\ i - 1 \in 1 .. Len(active))
    BY <2>1, <2>2
  <2>4. ASSUME NEW i \in 1 .. Len(active'), NEW j \in 1 .. Len(active'), active'[i] = active'[j]
        PROVE  i = j
    <3>1. CASE i = 1 \/ j = 1
      BY <3>1, <2>1, <2>2, <2>3, <2>4
    <3>2. CASE i # 1 /\ j # 1
      <4>1. /\ i - 1 \in 1 .. Len(active) /\ j - 1 \in 1 .. Len(active)
            /\ active[i - 1] = active[j - 1]
        BY <3>2, <2>2, <2>3, <2>4
      <4>2. i - 1 = j - 1
        BY <4>1 DEF Connections
      <4> QED BY <4>2
    <3> QED BY <3>1, <3>2
  <2>5. state' \in [Conn -> States]
    BY <1>3 DEF Connections, States
  <2>6. ASSUME NEW d \in Conn
        PROVE  state'[d] = "active" <=> \E i \in 1 .. Len(active') : active'[i] = d
    <3>1. CASE d = c
      <4>1. 1 \in 1 .. Len(active')
        BY <2>1, <2>2
      <4> QED BY <3>1, <4>1, <2>2, <1>3 DEF Connections
    <3>2. CASE d # c
      <4>1. state'[d] = state[d]
        BY <3>2, <1>3 DEF Connections
      <4>2. ASSUME NEW i \in 1 .. Len(active), active[i] = d
            PROVE  \E k \in 1 .. Len(active') : active'[k] = d
        <5>1. i + 1 \in 1 .. Len(active') /\ i + 1 \in 2 .. Len(active) + 1 /\ (i + 1) - 1 = i
          BY <2>1, <2>2
        <5> QED BY <5>1, <4>2, <2>2
      <4>3. ASSUME NEW i \in 1 .. Len(active'), active'[i] = d
            PROVE  \E k \in 1 .. Len(active) : active[k] = d
        BY <3>2, <4>3, <2>2, <2>3
      <4> QED BY <4>1, <4>2, <4>3 DEF Connections
    <3> QED BY <3>1, <3>2
  <2>7. \A i \in 1 .. Len(pass') : pass'[i] \in Conn => state'[pass'[i]] = "active"
    BY <1>1, <1>3, RestOfPass DEF Connections
  <2> QED BY <1>1, <2>2, <2>4, <2>5, <2>6, <2>7, RestOfPass DEF Connections
<1> QED BY <1>2, <1>3 DEF accept

(* The list without c, which is in it once. *)
LEMMA RemoveIs ==
  ASSUME Connections, NEW c \in Conn, state[c] = "active"
  PROVE  \E k \in 1 .. Len(active) :
           /\ active[k] = c
           /\ mg_remove_conn(c) \in Seq(Conn) /\ Len(mg_remove_conn(c)) = Len(active) - 1
           /\ \A i \in 1 .. Len(active) - 1 :
                mg_remove_conn(c)[i] = IF i < k THEN active[i] ELSE active[i + 1]
<1> DEFINE k == CHOOSE i \in DOMAIN active : active[i] = c
           x == SubSeq(active, 1, k - 1)
           y == SubSeq(active, k + 1, Len(active))
<1>1. /\ active \in Seq(Conn) /\ Len(active) \in Nat /\ DOMAIN active = 1 .. Len(active)
      /\ \A i \in 1 .. Len(active) : active[i] \in Conn
  BY LenProperties DEF Connections
<1>2. \E i \in DOMAIN active : active[i] = c
  BY <1>1 DEF Connections
<1>3. k \in 1 .. Len(active) /\ active[k] = c
  BY <1>1, <1>2
<1>4. mg_remove_conn(c) = x \o y
  BY DEF mg_remove_conn
<1> HIDE DEF k
<1>5. /\ x \in Seq(Conn) /\ Len(x) = k - 1 /\ \A i \in 1 .. k - 1 : x[i] = active[i]
  <2>1. \A i \in 1 .. k - 1 : active[i] \in Conn
    BY <1>1, <1>3
  <2>2. /\ x \in Seq(Conn) /\ Len(x) = (IF 1 <= k - 1 THEN (k - 1) - 1 + 1 ELSE 0)
        /\ \A i \in 1 .. (k - 1) - 1 + 1 : x[i] = active[1 + i - 1]
    BY <1>3, <2>1, SubSeqProperties
  <2>3. \A i \in 1 .. k - 1 : i \in 1 .. (k - 1) - 1 + 1 /\ 1 + i - 1 = i
    BY <1>3
  <2> QED BY <2>2, <2>3, <1>3
<1>6. /\ y \in Seq(Conn) /\ Len(y) = Len(active) - k
      /\ \A i \in 1 .. Len(active) - k : y[i] = active[k + i]
  <2>1. \A i \in k + 1 .. Len(active) : active[i] \in Conn
    BY <1>1, <1>3
  <2>2. /\ y \in Seq(Conn)
        /\ Len(y) = (IF k + 1 <= Len(active) THEN Len(active) - (k + 1) + 1 ELSE 0)
        /\ \A i \in 1 .. Len(active) - (k + 1) + 1 : y[i] = active[(k + 1) + i - 1]
    BY <1>1, <1>3, <2>1, SubSeqProperties
  <2>3. \A i \in 1 .. Len(active) - k : i \in 1 .. Len(active) - (k + 1) + 1 /\ (k + 1) + i - 1 = k + i
    BY <1>1, <1>3
  <2>4. Len(y) = Len(active) - k
    <3>1. CASE k + 1 <= Len(active)
      BY <3>1, <2>2, <1>1, <1>3
    <3>2. CASE k = Len(active)
      BY <3>2, <2>2, <1>1, <1>3
    <3>3. k + 1 <= Len(active) \/ k = Len(active)
      <4>1. \A n \in Nat : \A m \in 1 .. n : m + 1 <= n \/ m = n
        OBVIOUS
      <4>2. Len(active) \in Nat
        BY <1>1
      <4> HIDE DEF y, x
      <4> QED BY <4>1, <4>2, <1>3
    <3> QED BY <3>1, <3>2, <3>3
  <2> HIDE DEF y
  <2>5. ASSUME NEW i \in 1 .. Len(active) - k PROVE y[i] = active[k + i]
    BY <2>2, <2>3
  <2> QED BY <2>2, <2>4, <2>5
<1> HIDE DEF x, y
<1>7. /\ x \o y \in Seq(Conn) /\ Len(x \o y) = Len(x) + Len(y)
      /\ \A i \in 1 .. Len(x) + Len(y) : (x \o y)[i] = IF i <= Len(x) THEN x[i] ELSE y[i - Len(x)]
  BY <1>5, <1>6, ConcatProperties
<1>8. Len(x) + Len(y) = Len(active) - 1
  BY <1>1, <1>3, <1>5, <1>6
<1>9. ASSUME NEW i \in 1 .. Len(active) - 1
      PROVE  (x \o y)[i] = IF i < k THEN active[i] ELSE active[i + 1]
  <2>1. CASE i < k
    BY <2>1, <1>1, <1>3, <1>5, <1>7, <1>8
  <2>2. CASE i >= k
    <3>1. /\ i - (k - 1) \in 1 .. Len(active) - k /\ k + (i - (k - 1)) = i + 1
          /\ ~(i <= k - 1) /\ ~(i < k)
      BY <2>2, <1>1, <1>3
    <3> QED BY <3>1, <1>5, <1>6, <1>7, <1>8
  <2>3. i < k \/ i >= k
    BY <1>3
  <2> QED BY <2>1, <2>2, <2>3
<1> QED BY <1>3, <1>4, <1>7, <1>8, <1>9

LEMMA CloseKeeps == ASSUME Connections, NEW c \in Conn, close(c) PROVE Connections'
<1>1. /\ pass # <<>> /\ Head(pass) = c /\ pass' = Tail(pass)
      /\ UNCHANGED <<script, sent, peer>>
      /\ state' = [state EXCEPT ![c] = "closed"] /\ active' = mg_remove_conn(c)
  BY DEF close, visiting, advance, client
<1>2. state[c] = "active"
  <2>1. pass \in Seq(Conn \cup {Listener}) /\ 1 \in 1 .. Len(pass) /\ pass[1] = c
    BY <1>1 DEF Connections
  <2> QED BY <2>1 DEF Connections
<1>3. PICK k \in 1 .. Len(active) :
           /\ active[k] = c
           /\ active' \in Seq(Conn) /\ Len(active') = Len(active) - 1
           /\ \A i \in 1 .. Len(active) - 1 :
                active'[i] = IF i < k THEN active[i] ELSE active[i + 1]
  BY <1>1, <1>2, RemoveIs
<1>4. Len(active) \in Nat
  BY LenProperties DEF Connections
<1> DEFINE old(i) == IF i < k THEN i ELSE i + 1
<1>5. \A i \in 1 .. Len(active') : old(i) \in 1 .. Len(active) /\ old(i) # k /\ active'[i] = active[old(i)]
  BY <1>3, <1>4
<1>6. ASSUME NEW i \in 1 .. Len(active'), NEW j \in 1 .. Len(active'), active'[i] = active'[j]
      PROVE  i = j
  <2>1. old(i) = old(j)
    <3> HIDE DEF old
    <3>1. /\ old(i) \in 1 .. Len(active) /\ old(j) \in 1 .. Len(active)
          /\ active[old(i)] = active[old(j)]
      BY <1>5, <1>6
    <3> QED BY <3>1 DEF Connections
  <2> QED BY <2>1, <1>3, <1>4
<1>7. \A i \in 1 .. Len(active') : active'[i] # c
  <2> HIDE DEF old
  <2>1. \A m \in 1 .. Len(active) : active[m] = c => m = k
    BY <1>3 DEF Connections
  <2> QED BY <2>1, <1>5
<1>8. ASSUME NEW d \in Conn
      PROVE  state'[d] = "active" <=> \E i \in 1 .. Len(active') : active'[i] = d
  <2>1. CASE d = c
    BY <2>1, <1>1, <1>7 DEF Connections
  <2>2. CASE d # c
    <3>1. state'[d] = state[d]
      BY <2>2, <1>1 DEF Connections
    <3>2. ASSUME NEW i \in 1 .. Len(active), active[i] = d
          PROVE  \E m \in 1 .. Len(active') : active'[m] = d
      <4>1. i < k \/ i > k
        BY <2>2, <3>2, <1>3, <1>4
      <4>2. CASE i < k
        <5>1. i \in 1 .. Len(active') /\ i \in 1 .. Len(active) - 1
          BY <4>2, <1>3, <1>4
        <5> QED BY <4>2, <5>1, <3>2, <1>3
      <4>3. CASE i > k
        <5>1. /\ i - 1 \in 1 .. Len(active') /\ i - 1 \in 1 .. Len(active) - 1
              /\ ~(i - 1 < k) /\ (i - 1) + 1 = i
          BY <4>3, <1>3, <1>4
        <5> QED BY <5>1, <3>2, <1>3
      <4> QED BY <4>1, <4>2, <4>3
    <3>3. ASSUME NEW i \in 1 .. Len(active'), active'[i] = d
          PROVE  \E m \in 1 .. Len(active) : active[m] = d
      <4> HIDE DEF old
      <4> QED BY <3>3, <1>5
    <3> QED BY <3>1, <3>2, <3>3 DEF Connections
  <2> QED BY <2>1, <2>2
<1>9. state' \in [Conn -> States]
  BY <1>1 DEF Connections, States
<1>10. \A i \in 1 .. Len(pass') : pass'[i] \in Conn => state'[pass'[i]] = "active"
  BY <1>1, RestOfPass DEF Connections
<1> QED BY <1>1, <1>3, <1>6, <1>8, <1>9, <1>10, RestOfPass DEF Connections

LEMMA ConnectionsStep == ASSUME Connections, [Next]_vars PROVE Connections'
<1>1. ASSUME UNCHANGED <<script, sent, peer, state, active>>,
             pass' = pass \/ (pass # <<>> /\ pass' = Tail(pass))
      PROVE  Connections'
  BY <1>1, RestOfPass DEF Connections
<1>2. ASSUME NEW c \in Conn, visit(c) PROVE Connections'
  <2>1. CASE close(c)
    BY <2>1, CloseKeeps
  <2>2. CASE ~close(c)
    <3>1. UNCHANGED <<script, sent, peer, state, active>>
      BY <1>2, <2>2 DEF visit, poll, recv, recv_ends, refuse, await, request, send, client, sockets
    <3>2. pass' = pass \/ (pass # <<>> /\ pass' = Tail(pass))
      BY <1>2, <2>2 DEF visit, poll, recv, recv_ends, refuse, await, request, send,
                        continue, advance, visiting
    <3> QED BY <3>1, <3>2, <1>1
  <2> QED BY <2>1, <2>2
<1>3. CASE UNCHANGED vars
  BY <1>1, <1>3 DEF vars, client, sockets, loop
<1> QED BY <1>2, <1>3, ClientsKeep, SelectKeeps, AcceptKeeps DEF Next, Server

LEMMA MarksStep == ASSUME Marks, [Next]_vars PROVE Marks'
<1>1. CASE Clients \/ UNCHANGED vars
  <2>1. UNCHANGED <<flags, step>>
    BY <1>1 DEF Clients, Connect, Send, Read, Shut, Reset, loop, vars
  <2>2. room' \in [Conn -> 0 .. Window]
    <3>1. CASE UNCHANGED room
      BY <3>1 DEF Marks
    <3>2. ASSUME NEW c \in Conn, Read(c) PROVE room' \in [Conn -> 0 .. Window]
      <4>1. room[c] \in 0 .. Window /\ room[c] < Window /\ room' = [room EXCEPT ![c] = room[c] + 1]
        BY <3>2 DEF Read, Marks
      <4>2. room[c] + 1 \in 0 .. Window
        BY <4>1, CircletAssumption
      <4> QED BY <4>1, <4>2 DEF Marks
    <3> QED BY <1>1, <3>1, <3>2 DEF Clients, Connect, Send, Shut, Reset, kernel, vars
  <2> QED BY <2>1, <2>2 DEF Marks
<1>2. CASE select \/ accept
  BY <1>2 DEF select, accept, advance, kernel, Marks
<1>3. ASSUME NEW c \in Conn, visit(c) PROVE Marks'
  <2>1. step' \in {"poll", "recv", "parse", "send"}
    BY <1>3 DEF visit, poll, close, recv, recv_ends, refuse, await, request, send, continue, advance
  <2>2. flags' \in [Conn -> SUBSET {"SEND_AND_CLOSE", "CLOSE_IMMEDIATELY"}]
    <3>1. ASSUME NEW X \in SUBSET {"SEND_AND_CLOSE", "CLOSE_IMMEDIATELY"},
                 flags' = [flags EXCEPT ![c] = flags[c] \cup X]
          PROVE  flags' \in [Conn -> SUBSET {"SEND_AND_CLOSE", "CLOSE_IMMEDIATELY"}]
      BY <3>1 DEF Marks
    <3>2. CASE UNCHANGED flags
      BY <3>2 DEF Marks
    <3>3. CASE http_handler(c)
      BY <3>1, <3>2, <3>3 DEF http_handler
    <3>4. CASE recv_ends(c) \/ refuse(c) \/ send(c)
      BY <3>1, <3>2, <3>4 DEF recv_ends, refuse, send
    <3>5. CASE poll(c) \/ recv(c) \/ await(c)
      BY <3>2, <3>5 DEF poll, recv, await
    <3>6. CASE close(c) \/ request(c)
      BY <3>2, <3>3, <3>6 DEF close, request
    <3> QED BY <1>3, <3>4, <3>5, <3>6 DEF visit
  <2>3. room' \in [Conn -> 0 .. Window]
    <3>1. CASE UNCHANGED room
      BY <3>1 DEF Marks
    <3>2. ASSUME NEW n \in 1 .. room[c], room' = [room EXCEPT ![c] = room[c] - n]
          PROVE  room' \in [Conn -> 0 .. Window]
      <4>1. room[c] \in 0 .. Window
        BY DEF Marks
      <4>2. room[c] - n \in 0 .. Window
        BY <4>1, CircletAssumption
      <4> QED BY <3>2, <4>2 DEF Marks
    <3>3. CASE send(c)
      BY <3>1, <3>2, <3>3 DEF send
    <3> QED BY <1>3, <3>1, <3>3 DEF visit, poll, close, recv, recv_ends, refuse, await, request, kernel
  <2> QED BY <2>1, <2>2, <2>3 DEF Marks
<1> QED BY <1>1, <1>2, <1>3 DEF Next, Server

-----------------------------------------------------------------------------
(* The list of connections, the marks on them, and whose the replies are.  *)
THEOREM ServerInvariant == Spec => [](Connections /\ Marks /\ Replies)
<1>1. Init => Connections /\ Marks /\ Replies
  BY CircletAssumption, ConnectionsInit, RepliesInit DEF Init, Marks
<1>2. Connections /\ Marks /\ Replies /\ [Next]_vars => (Connections /\ Marks /\ Replies)'
  BY ConnectionsStep, MarksStep, RepliesStep
<1> QED BY <1>1, <1>2, PTL DEF Spec

(* For any number of clients, sharing one fiber: a reply goes to the       *)
(* connection whose request it answers, once and in the order of the       *)
(* requests, as long as that request's handler does not yield.             *)
THEOREM RepliesStayOwn == Spec => []RepliesAreOwn
<1>1. Replies => RepliesAreOwn
  <2> SUFFICES ASSUME Replies, NEW c \in Conn, NEW i \in DOMAIN out[c]
               PROVE  LET by == out[c][i].by IN
                      \/ /\ by[1] = c /\ by[2] \in DOMAIN handled[c]
                         /\ \A j \in 1 .. i - 1 : out[c][j].by[1] = c => out[c][j].by[2] < by[2]
                      \/ router(handled[by[1]][by[2]].uri) = "yields"
    BY DEF RepliesAreOwn
  <2>1. DOMAIN out[c] = 1 .. Len(out[c]) /\ DOMAIN handled[c] = 1 .. Len(handled[c])
    BY LenProperties DEF Replies
  <2> QED BY <2>1 DEF Replies, Handled, Yields
<1> QED BY <1>1, ServerInvariant, PTL

(* For any number of clients: the list mg_mgr_poll() walks has exactly the *)
(* connections that are open, and no counter outruns what it counts.       *)
THEOREM StaysTyped == Spec => []TypeOK
<1>1. Connections /\ Marks /\ Replies => TypeOK
  <2> SUFFICES ASSUME Connections, Marks, Replies PROVE TypeOK
    OBVIOUS
  <2>1. ASSUME NEW c \in Conn
        PROVE  /\ sent[c] \in 0 .. Len(script[c])
               /\ peer[c] \in {"idle", "open", "shut", "reset"}
               /\ room[c] \in 0 .. Window
               /\ state[c] \in {"none", "active", "closed"}
               /\ flags[c] \subseteq {"SEND_AND_CLOSE", "CLOSE_IMMEDIATELY"}
               /\ taken[c] \in 0 .. Len(out[c])
    <3>1. sent[c] \in Nat /\ sent[c] <= Len(script[c]) /\ Len(script[c]) \in Nat
      BY LenProperties DEF Connections
    <3>2. taken[c] \in Nat /\ taken[c] <= Len(out[c]) /\ Len(out[c]) \in Nat
      BY LenProperties DEF Replies
    <3> QED BY <3>1, <3>2 DEF Connections, Marks, States
  <2>2. DOMAIN active = 1 .. Len(active) /\ \A i \in 1 .. Len(active) : active[i] \in Conn
    BY LenProperties DEF Connections
  <2>3. {active[i] : i \in DOMAIN active} = {c \in Conn : state[c] = "active"}
    <3>1. \A c \in Conn : state[c] = "active" <=> \E i \in 1 .. Len(active) : active[i] = c
      BY DEF Connections
    <3> QED BY <2>2, <3>1
  <2>4. fiber.status \in {"pending", "inside", "error"}
    BY DEF Replies
  <2> QED BY <2>1, <2>3, <2>4 DEF TypeOK, Marks
<1> QED BY <1>1, ServerInvariant, PTL

-----------------------------------------------------------------------------
(* A set of numbers has a least one. *)
LEMMA LessWF == IsWellFoundedOn({p \in Nat \X Nat : p[1] < p[2]}, Nat)
<1>1. OpToRel(<, Nat) = {p \in Nat \X Nat : p[1] < p[2]}
  BY DEF OpToRel
<1> QED BY <1>1, NatLessThanWellFounded

(* A set of numbers that is not empty has a least one. *)
LEMMA Least == ASSUME NEW T, T \subseteq Nat, T # {} PROVE \E n \in T : \A m \in T : n <= m
<1>1. \E x \in T : \A y \in T : <<y, x>> \notin {p \in Nat \X Nat : p[1] < p[2]}
  BY LessWF, WFMin
<1>2. PICK x \in T : \A y \in T : <<y, x>> \notin {p \in Nat \X Nat : p[1] < p[2]}
  BY <1>1
<1>3. ASSUME NEW y \in T PROVE x <= y
  <2>1. x \in Nat /\ y \in Nat
    OBVIOUS
  <2>2. <<y, x>> \notin {p \in Nat \X Nat : p[1] < p[2]}
    BY <1>2
  <2>3. <<y, x>> \in Nat \X Nat /\ <<y, x>>[1] = y /\ <<y, x>>[2] = x
    BY <2>1
  <2>4. ~(y < x)
    BY <2>2, <2>3
  <2> QED BY <2>1, <2>4
<1> QED BY <1>3

(* Where a connection is in its client's script: the buffer of the server, *)
(* b, begins behind the first p tokens of s, what the kernel holds, w,     *)
(* comes next, and k requests begin before that.                           *)
Placed(s, n, pr, b, w, k, p) ==
  /\ p \in Nat /\ p + Len(b) + Len(w) <= n
  /\ \A i \in 1 .. Len(b) : b[i] = s[p + i]
  /\ \A i \in 1 .. Len(w) : w[i] = s[p + Len(b) + i]
  /\ pr \in {"idle", "open"} => p + Len(b) + Len(w) = n
  /\ Starts(s, p + 1)
  /\ Cardinality(Lines(s, p)) = k

LEMMA TokenKinds ==
  /\ \A t \in Token : t.kind = "line" => t.uri \in Uri /\ t.need \in Nat
  /\ Header.kind = "header" /\ Blank.kind = "blank" /\ Body.kind = "body" /\ Junk.kind = "junk"
  /\ Blank # Junk /\ Blank # Header /\ Blank # Body /\ Junk # Header
BY DEF Token, Header, Blank, Body, Junk

(* There are finitely many lines in a text. *)
LEMMA LinesFinite == ASSUME NEW s, NEW p \in Nat PROVE IsFiniteSet(Lines(s, p)) /\ Cardinality(Lines(s, p)) \in Nat
<1>1. IsFiniteSet(1 .. p)
  BY FS_Interval
<1> QED BY <1>1, FS_Subset, FS_CardinalityType DEF Lines

(* What the client sends is put behind what is on its way, *)
LEMMA PlacedSend ==
  ASSUME NEW s \in Seq(Token), NEW b \in Seq(Token), NEW w \in Seq(Token), NEW n \in Nat, n < Len(s),
         NEW k, NEW p, Placed(s, n, "open", b, w, k, p)
  PROVE  Placed(s, n + 1, "open", b, Append(w, s[n + 1]), k, p)
<1>1. Len(b) \in Nat /\ Len(w) \in Nat /\ Len(s) \in Nat /\ p \in Nat
  BY LenProperties DEF Placed
<1> DEFINE v == Append(w, s[n + 1])
<1>2. s[n + 1] \in Token
  BY <1>1
<1>3. Len(v) = Len(w) + 1 /\ v[Len(w) + 1] = s[n + 1] /\ \A i \in 1 .. Len(w) : v[i] = w[i]
  BY <1>2
<1> HIDE DEF v
<1>4. p + Len(b) + Len(w) = n
  BY DEF Placed
<1>5. ASSUME NEW i \in 1 .. Len(v) PROVE v[i] = s[p + Len(b) + i]
  <2>1. i \in 1 .. Len(w) \/ (i = Len(w) + 1 /\ p + Len(b) + i = n + 1)
    BY <1>1, <1>3, <1>4
  <2> QED BY <2>1, <1>3 DEF Placed
<1>6. p + Len(b) + Len(v) = n + 1 /\ p + Len(b) + Len(v) <= n + 1
  BY <1>1, <1>3, <1>4
<1> QED BY <1>1, <1>5, <1>6 DEF Placed, v

(* what recv() takes is put behind what is buffered, *)
LEMMA PlacedRecv ==
  ASSUME NEW b \in Seq(Token), NEW w \in Seq(Token),
         NEW s, NEW n, NEW pr, NEW k, NEW p, Placed(s, n, pr, b, w, k, p)
  PROVE  Placed(s, n, pr, b \o w, <<>>, k, p)
<1>1. Len(b) \in Nat /\ Len(w) \in Nat /\ p \in Nat
  BY LenProperties DEF Placed
<1> DEFINE v == b \o w
<1>2. /\ Len(v) = Len(b) + Len(w)
      /\ \A i \in 1 .. Len(b) + Len(w) : v[i] = IF i <= Len(b) THEN b[i] ELSE w[i - Len(b)]
  BY ConcatProperties
<1> HIDE DEF v
<1>3. ASSUME NEW i \in 1 .. Len(v) PROVE v[i] = s[p + i]
  <2>1. \/ i <= Len(b) /\ i \in 1 .. Len(b)
        \/ ~(i <= Len(b)) /\ i - Len(b) \in 1 .. Len(w) /\ p + Len(b) + (i - Len(b)) = p + i
    BY <1>1, <1>2
  <2> QED BY <2>1, <1>2 DEF Placed
<1>4. Len(<<>>) = 0 /\ p + Len(v) + 0 = p + Len(b) + Len(w) /\ \A i \in 1 .. 0 : FALSE
  BY <1>1, <1>2
<1>5. p + Len(v) + 0 <= n /\ (pr \in {"idle", "open"} => p + Len(v) + 0 = n)
  BY <1>4 DEF Placed
<1> QED BY <1>1, <1>3, <1>4, <1>5 DEF Placed, v

(* what a reset drops, if anything, was the end of it, *)
LEMMA PlacedReset ==
  ASSUME NEW b \in Seq(Token), NEW w \in Seq(Token), NEW v, v \in {w, <<>>},
         NEW s, NEW n \in Nat, NEW pr, NEW k, NEW p, Placed(s, n, pr, b, w, k, p)
  PROVE  Placed(s, n, "reset", b, v, k, p)
<1>1. Len(b) \in Nat /\ Len(w) \in Nat /\ p \in Nat
  BY LenProperties DEF Placed
<1>2. v = w \/ Len(v) = 0
  OBVIOUS
<1>3. p + Len(b) + Len(v) <= n
  BY <1>1, <1>2 DEF Placed
<1>4. \A i \in 1 .. Len(v) : v[i] = s[p + Len(b) + i]
  BY <1>2 DEF Placed
<1> QED BY <1>3, <1>4 DEF Placed

(* A head in the buffer is that of the next request of the script. *)
LEMMA HeadIs ==
  ASSUME NEW s \in Seq(Token), Framed(s), NEW n \in Nat, n <= Len(s),
         NEW b \in Seq(Token), NEW w \in Seq(Token), NEW pr, NEW k \in Nat, NEW p,
         Placed(s, n, pr, b, w, k, p), Headed(b)
  PROVE  /\ p + 1 \in 1 .. Len(s) /\ b[1] = s[p + 1] /\ s[p + 1].kind = "line"
         /\ req_len(b) \in 2 .. Len(b)
         /\ InHead(s, p + 1, p + req_len(b)) /\ s[p + req_len(b)] = Blank
         /\ \A j \in 2 .. req_len(b) - 1 : s[p + j] = Header
<1> DEFINE h == req_len(b)
<1>1. Len(b) \in Nat /\ Len(w) \in Nat /\ p \in Nat /\ Len(s) \in Nat /\ DOMAIN b = 1 .. Len(b) /\ DOMAIN s = 1 .. Len(s)
  BY LenProperties DEF Placed
<1>2. Ends(b) \subseteq 1 .. Len(b) /\ Ends(b) # {}
  BY <1>1 DEF Ends, Headed
<1>3. h \in Ends(b) /\ \A j \in Ends(b) : h <= j
  <2>1. \E i \in Ends(b) : \A j \in Ends(b) : i <= j
    BY <1>1, <1>2, Least
  <2> QED BY <2>1 DEF req_len
<1> HIDE DEF h
<1>4. h \in 1 .. Len(b) /\ b[h] = Blank /\ \A j \in 1 .. h - 1 : b[j] # Blank
  <2>1. h \in 1 .. Len(b) /\ b[h] = Blank
    BY <1>1, <1>3 DEF Ends
  <2>2. ASSUME NEW j \in 1 .. h - 1, b[j] = Blank PROVE FALSE
    <3>1. j \in 1 .. Len(b) /\ ~(h <= j)
      BY <2>1, <1>1
    <3> QED BY <3>1, <2>2, <1>1, <1>3 DEF Ends
  <2> QED BY <2>1, <2>2
<1>5. \A j \in 1 .. h - 1 : b[j] # Junk
  <2> SUFFICES ASSUME NEW j \in 1 .. h - 1, b[j] = Junk PROVE FALSE
    OBVIOUS
  <2>1. j \in DOMAIN b /\ \A i \in Ends(b) : j < i
    <3>1. j \in 1 .. Len(b) /\ j < h
      BY <1>1, <1>4
    <3>2. ASSUME NEW i \in Ends(b) PROVE j < i
      <4>1. i \in Nat /\ h <= i /\ h \in Nat /\ j \in Nat
        BY <1>2, <1>3, <1>4
      <4> QED BY <4>1, <3>1
    <3> QED BY <3>1, <3>2, <1>1
  <2>2. Malformed(b)
    BY <2>1 DEF Malformed
  <2> QED BY <2>2 DEF Headed
<1>6. \A j \in 1 .. Len(b) : p + j \in 1 .. Len(s) /\ b[j] = s[p + j] /\ p + j \in DOMAIN s
  BY <1>1 DEF Placed
<1>7. 1 \in 1 .. Len(b) /\ p + 1 \in 1 .. Len(s) /\ p + 1 \in DOMAIN s /\ b[1] = s[p + 1]
  BY <1>1, <1>4, <1>6
<1>8. b[1] # Junk
  <2>1. h = 1 \/ 1 \in 1 .. h - 1
    BY <1>4
  <2> QED BY <2>1, <1>4, <1>5, TokenKinds
<1>9. s[p + 1].kind = "line"
  BY <1>7, <1>8 DEF Placed, Starts
<1>10. h # 1
  <2>1. h = 1 => b[1].kind = "blank"
    BY <1>4, TokenKinds
  <2> QED BY <2>1, <1>7, <1>9
<1>11. h \in 2 .. Len(b)
  BY <1>4, <1>10
<1>12. ASSUME NEW j \in 2 .. h PROVE InHead(s, p + 1, p + j)
  <2>1. p + 1 < p + j
    BY <1>1
  <2>2. ASSUME NEW i \in (p + 1) + 1 .. (p + j) - 1 PROVE s[i] \notin {Blank, Junk}
    <3>1. i - p \in 1 .. h - 1 /\ p + (i - p) = i /\ i - p \in 1 .. Len(b)
      BY <1>1, <1>11
    <3> QED BY <3>1, <1>4, <1>5, <1>6
  <2> QED BY <2>1, <2>2, <1>9 DEF InHead
<1>13. ASSUME NEW j \in 2 .. h - 1 PROVE s[p + j] = Header
  <2>1. j \in 2 .. h /\ j \in 1 .. h - 1 /\ j \in 1 .. Len(b)
    BY <1>11
  <2>2. s[p + j] \in {Header, Blank, Junk}
    BY <2>1, <1>6, <1>7, <1>12 DEF Framed
  <2> QED BY <2>1, <2>2, <1>4, <1>5, <1>6
<1>14. h \in 2 .. h /\ s[p + h] = Blank
  BY <1>4, <1>6, <1>11
<1> QED BY <1>7, <1>9, <1>11, <1>12, <1>13, <1>14 DEF h

(* What is behind the first h tokens. *)
LEMMA BehindIs ==
  ASSUME NEW b \in Seq(Token), NEW h \in Nat, h <= Len(b), NEW r, r = SubSeq(b, h + 1, Len(b))
  PROVE  r \in Seq(Token) /\ Len(r) = Len(b) - h /\ \A j \in 1 .. Len(b) - h : r[j] = b[h + j]
<1>1. Len(b) \in Nat /\ \A i \in h + 1 .. Len(b) : b[i] \in Token
  BY LenProperties
<1>2. PICK n \in Nat : n = Len(b)
  BY <1>1
<1>3. PICK f \in Nat : f = h + 1
  OBVIOUS
<1>4. /\ r \in Seq(Token)
      /\ Len(r) = (IF f <= n THEN n - f + 1 ELSE 0)
      /\ \A i \in 1 .. n - f + 1 : r[i] = b[f + i - 1]
  <2>1. \A i \in f .. n : b[i] \in Token
    BY <1>1, <1>2, <1>3
  <2>2. r = SubSeq(b, f, n) /\ f \in Int /\ n \in Int
    BY <1>2, <1>3
  <2>3. /\ SubSeq(b, f, n) \in Seq(Token)
        /\ Len(SubSeq(b, f, n)) = (IF f <= n THEN n - f + 1 ELSE 0)
        /\ \A i \in 1 .. n - f + 1 : SubSeq(b, f, n)[i] = b[f + i - 1]
    BY <2>1, <2>2, SubSeqProperties
  <2> QED BY <2>2, <2>3
<1>5. Len(r) = n - h
  BY <1>2, <1>3, <1>4
<1>6. ASSUME NEW j \in 1 .. n - h PROVE r[j] = b[h + j]
  <2>1. j \in 1 .. n - f + 1 /\ f + j - 1 = h + j
    BY <1>3
  <2> QED BY <2>1, <1>4
<1> QED BY <1>2, <1>4, <1>5, <1>6

(* One more request begins up to that line, and none in what belongs to it. *)
LEMMA LinesAre ==
  ASSUME NEW s, NEW p \in Nat, NEW q \in Nat, q >= p + 1, s[p + 1].kind = "line",
         \A j \in p + 2 .. q : s[j].kind # "line"
  PROVE  Lines(s, q) = Lines(s, p) \cup {p + 1}
         /\ Cardinality(Lines(s, q)) = Cardinality(Lines(s, p)) + 1
<1>1. ASSUME NEW j PROVE j \in Lines(s, q) <=> j \in Lines(s, p) \/ j = p + 1
  <2>1. j \in 1 .. q <=> j \in 1 .. p \/ j = p + 1 \/ j \in p + 2 .. q
    OBVIOUS
  <2> QED BY <2>1 DEF Lines
<1>2. p + 1 \notin Lines(s, p)
  BY DEF Lines
<1> QED BY <1>1, <1>2, LinesFinite, FS_AddElement

(* What a request is in the script: its line, and the body as far as it    *)
(* has come; and where the next one begins.                                *)
LEMMA RequestIs ==
  ASSUME NEW s \in Seq(Token), Framed(s), NEW n \in Nat, n <= Len(s),
         NEW b \in Seq(Token), NEW w \in Seq(Token), NEW pr, NEW k \in Nat, NEW p,
         Placed(s, n, pr, b, w, k, p), Headed(b)
  PROVE  /\ Cardinality(Lines(s, p + 1)) = k + 1 /\ b[1].need \in Nat
         /\ \E body : /\ body = SubSeq(b, req_len(b) + 1, Len(b))
                      /\ Len(body) = Len(b) - req_len(b)
                      /\ \A j \in 1 .. Len(body) : j <= b[1].need => body[j] = Body
<1>0. PICK body : body = SubSeq(b, req_len(b) + 1, Len(b))
  OBVIOUS
<1>1. /\ p + 1 \in 1 .. Len(s) /\ b[1] = s[p + 1] /\ s[p + 1].kind = "line"
      /\ req_len(b) \in 2 .. Len(b)
      /\ InHead(s, p + 1, p + req_len(b)) /\ s[p + req_len(b)] = Blank
  BY HeadIs
<1>2. PICK h \in 2 .. Len(b) : h = req_len(b)
  BY <1>1
<1>3. Len(b) \in Nat /\ Len(w) \in Nat /\ p \in Nat /\ Len(s) \in Nat /\ DOMAIN b = 1 .. Len(b) /\ DOMAIN s = 1 .. Len(s)
  BY LenProperties DEF Placed
<1>4. Cardinality(Lines(s, p + 1)) = k + 1
  <2>1. PICK q \in Nat : q = p + 1
    BY <1>3
  <2>2. q >= p + 1 /\ \A j \in p + 2 .. q : FALSE
    BY <1>3, <2>1
  <2>3. Cardinality(Lines(s, q)) = Cardinality(Lines(s, p)) + 1
    BY <1>1, <1>3, <2>2, LinesAre
  <2> QED BY <2>1, <2>3 DEF Placed
<1>5. s[p + 1] \in Token /\ b[1].need \in Nat
  BY <1>1, TokenKinds
<1>6. body \in Seq(Token) /\ Len(body) = Len(b) - h /\ \A j \in 1 .. Len(b) - h : body[j] = b[h + j]
  <2>1. h \in Nat /\ h <= Len(b)
    BY <1>3
  <2> QED BY <1>0, <1>2, <2>1, BehindIs
<1>7. ASSUME NEW j \in 1 .. Len(body), j <= b[1].need PROVE body[j] = Body
  <2>1. PICK m \in Nat : m = b[1].need
    BY <1>5
  <2>0. PICK g \in Nat : g = Len(body) /\ g = Len(b) - h
    BY <1>3, <1>6
  <2>2. h + j \in 1 .. Len(b) /\ p + (h + j) \in 1 .. Len(s)
    <3>0. \A x \in Nat : \A y \in 2 .. x : \A z \in 1 .. x - y : y + z \in 1 .. x
      OBVIOUS
    <3>1. h + j \in 1 .. Len(b)
      BY <2>0, <3>0, <1>3
    <3> QED BY <3>1, <1>3 DEF Placed
  <2>3. p + h \in DOMAIN s
    BY <1>3 DEF Placed
  <2>4. p + (h + j) \in (p + h) + 1 .. (p + h) + m /\ p + 1 \in DOMAIN s
    BY <1>1, <1>3, <1>7, <2>0, <2>1
  <2>5. \A i \in (p + h) + 1 .. (p + h) + s[p + 1].need : i \in DOMAIN s => s[i] = Body
    BY <1>1, <1>2, <2>3, <2>4 DEF Framed
  <2>6. s[p + (h + j)] = Body
    BY <1>1, <1>3, <2>1, <2>2, <2>4, <2>5
  <2>7. b[h + j] = s[p + (h + j)]
    BY <2>2 DEF Placed
  <2> QED BY <2>6, <2>7, <2>0, <1>6
<1> QED BY <1>0, <1>2, <1>4, <1>5, <1>6, <1>7

(* and what the handler takes is one request from the front. *)
LEMMA PlacedRequest ==
  ASSUME NEW s \in Seq(Token), Framed(s), NEW n \in Nat, n <= Len(s),
         NEW b \in Seq(Token), NEW w \in Seq(Token), NEW pr, NEW k \in Nat, NEW p,
         Placed(s, n, pr, b, w, k, p), Headed(b), message_len(b) <= Len(b),
         NEW rest, rest = SubSeq(b, message_len(b) + 1, Len(b))
  PROVE  rest \in Seq(Token) /\ \E q \in Nat : Placed(s, n, pr, rest, w, k + 1, q)
<1>1. /\ p + 1 \in 1 .. Len(s) /\ b[1] = s[p + 1] /\ s[p + 1].kind = "line"
      /\ req_len(b) \in 2 .. Len(b)
      /\ InHead(s, p + 1, p + req_len(b)) /\ s[p + req_len(b)] = Blank
      /\ \A j \in 2 .. req_len(b) - 1 : s[p + j] = Header
  BY HeadIs
<1>2. PICK h \in 2 .. Len(b) : h = req_len(b)
  BY <1>1
<1>3. Len(b) \in Nat /\ Len(w) \in Nat /\ p \in Nat /\ Len(s) \in Nat /\ DOMAIN b = 1 .. Len(b) /\ DOMAIN s = 1 .. Len(s)
  BY LenProperties DEF Placed
<1>4. PICK m \in Nat : m = b[1].need /\ m = s[p + 1].need
  BY <1>1, TokenKinds
<1>5. message_len(b) = h + m /\ h + m <= Len(b)
  BY <1>2, <1>4 DEF message_len
<1>6. p + 1 \in DOMAIN s /\ p + h \in DOMAIN s
  BY <1>1, <1>3 DEF Placed
<1>7. /\ \A j \in (p + h) + 1 .. (p + h) + m : j \in DOMAIN s => s[j] = Body
      /\ Starts(s, (p + h) + m + 1)
  BY <1>1, <1>2, <1>4, <1>6 DEF Framed
<1> DEFINE l == h + m
           q == p + l
<1>8. l \in 2 .. Len(b)
  BY <1>3, <1>5
<1>9. ASSUME NEW j \in p + 2 .. q PROVE s[j].kind # "line"
  <2>1. \/ j - p \in 2 .. h - 1 /\ p + (j - p) = j
        \/ j = p + h
        \/ j \in (p + h) + 1 .. (p + h) + m
    BY <1>3
  <2>2. j \in DOMAIN s
    BY <1>3, <1>8 DEF Placed
  <2>3. s[j] \in {Header, Blank, Body}
    BY <2>1, <2>2, <1>1, <1>2, <1>7
  <2> QED BY <2>3, TokenKinds
<1> HIDE DEF l
<1>10. q \in Nat /\ q >= p + 1
  BY <1>3, <1>8
<1>11. Cardinality(Lines(s, q)) = k + 1
  <2>1. Cardinality(Lines(s, q)) = Cardinality(Lines(s, p)) + 1
    BY <1>1, <1>3, <1>9, <1>10, LinesAre
  <2> QED BY <2>1 DEF Placed
<1>12. Starts(s, q + 1)
  BY <1>3, <1>7 DEF l
<1>13. rest \in Seq(Token) /\ Len(rest) = Len(b) - l /\ \A j \in 1 .. Len(b) - l : rest[j] = b[l + j]
  <2>1. l \in Nat /\ l <= Len(b) /\ rest = SubSeq(b, l + 1, Len(b))
    BY <1>3, <1>5, <1>8 DEF l
  <2> QED BY <2>1, BehindIs
<1>14. ASSUME NEW i \in 1 .. Len(rest) PROVE rest[i] = s[q + i]
  <2>1. l + i \in 1 .. Len(b) /\ p + (l + i) = q + i
    BY <1>3, <1>8, <1>13
  <2> QED BY <2>1, <1>13 DEF Placed
<1>15. q + Len(rest) = p + Len(b)
  <2>1. \A x, y, z \in Nat : (x + y) + (z - y) = x + z
    OBVIOUS
  <2>2. l \in Nat /\ q = p + l /\ Len(rest) = Len(b) - l
    BY <1>8, <1>13
  <2>3. (p + l) + (Len(b) - l) = p + Len(b)
    BY <2>1, <2>2, <1>3
  <2> QED BY <2>2, <2>3
<1>16. Placed(s, n, pr, rest, w, k + 1, q)
  <2> HIDE DEF q
  <2> QED BY <1>10, <1>11, <1>12, <1>14, <1>15 DEF Placed
<1> QED BY <1>10, <1>13, <1>16

(* A buffer that is refused holds junk, or too many headers. *)
LEMMA RefusedIs ==
  ASSUME NEW s \in Seq(Token), Framed(s), NEW n \in Nat, n <= Len(s),
         NEW b \in Seq(Token), NEW w \in Seq(Token), NEW pr, NEW k, NEW p,
         Placed(s, n, pr, b, w, k, p), Malformed(b) \/ (Ends(b) = {} /\ Len(b) >= MaxHead)
  PROVE  \/ \E i \in DOMAIN s : s[i] = Junk
         \/ Cardinality({i \in DOMAIN s : s[i] = Header}) + 1 >= MaxHead
<1>1. Len(b) \in Nat /\ Len(w) \in Nat /\ p \in Nat /\ Len(s) \in Nat /\ DOMAIN b = 1 .. Len(b) /\ DOMAIN s = 1 .. Len(s)
  BY LenProperties DEF Placed
<1>2. \A j \in 1 .. Len(b) : p + j \in 1 .. Len(s) /\ b[j] = s[p + j] /\ p + j \in DOMAIN s
  BY <1>1 DEF Placed
<1> SUFFICES ASSUME \A i \in DOMAIN s : s[i] # Junk
             PROVE  Cardinality({i \in DOMAIN s : s[i] = Header}) + 1 >= MaxHead
  OBVIOUS
<1>3. Ends(b) = {} /\ Len(b) >= MaxHead /\ \A j \in 1 .. Len(b) : b[j] # Blank
  BY <1>1, <1>2 DEF Malformed, Ends
<1> DEFINE H == {i \in DOMAIN s : s[i] = Header}
<1>4. IsFiniteSet(H) /\ Cardinality(H) \in Nat
  <2>1. IsFiniteSet(1 .. Len(s))
    BY <1>1, FS_Interval
  <2> QED BY <1>1, <2>1, FS_Subset, FS_CardinalityType
<1>5. CASE Len(b) = 0
  BY <1>3, <1>4, <1>5, CircletAssumption
<1>6. CASE Len(b) # 0
  <2>1. 1 \in 1 .. Len(b) /\ p + 1 \in DOMAIN s
    BY <1>1, <1>2, <1>6
  <2>2. s[p + 1].kind = "line"
    BY <2>1 DEF Placed, Starts
  <2>3. ASSUME NEW i \in p + 2 .. p + Len(b) PROVE i \in H
    <3>1. \A j \in p + 1 .. i : j - p \in 1 .. Len(b) /\ p + (j - p) = j
      BY <1>1
    <3>2. \A j \in p + 1 .. i : j \in DOMAIN s /\ s[j] \notin {Blank, Junk}
      BY <3>1, <1>2, <1>3
    <3>3. p + 1 < i /\ \A j \in (p + 1) + 1 .. i - 1 : j \in p + 1 .. i
      BY <1>1
    <3>4. InHead(s, p + 1, i) /\ i \in p + 1 .. i
      BY <1>1, <2>2, <3>2, <3>3 DEF InHead
    <3> QED BY <2>1, <3>2, <3>4 DEF Framed
  <2>4. Cardinality(p + 2 .. p + Len(b)) = Len(b) - 1
    <3>1. \A x \in Nat, y \in Nat \ {0} :
             /\ (IF x + 2 <= x + y THEN (x + y) - (x + 2) + 1 ELSE 0) = y - 1
             /\ x + 2 \in Int /\ x + y \in Int
      OBVIOUS
    <3> QED BY <3>1, <1>1, <1>6, FS_Interval
  <2>5. Cardinality(p + 2 .. p + Len(b)) <= Cardinality(H)
    <3>1. p + 2 .. p + Len(b) \subseteq H
      BY <2>3
    <3> QED BY <3>1, <1>4, FS_Subset
  <2> QED BY <2>4, <2>5, <1>1, <1>3, <1>4, CircletAssumption
<1> QED BY <1>5, <1>6

-----------------------------------------------------------------------------
(* Every connection that is not closed is in its script where the number   *)
(* of its requests says.                                                   *)
At(c) == \E p \in Nat :
  Placed(script[c], sent[c], peer[c], recv_mbuf[c], net[c], Len(handled[c]), p)

Flow ==
  /\ script \in Scripts
  /\ recv_mbuf \in [Conn -> Seq(Token)] /\ net \in [Conn -> Seq(Token)]
  /\ \A c \in Conn : state[c] # "closed" => At(c)

Same(d) ==
  /\ sent'[d] = sent[d] /\ peer'[d] = peer[d] /\ recv_mbuf'[d] = recv_mbuf[d]
  /\ net'[d] = net[d] /\ handled'[d] = handled[d] /\ state'[d] = state[d]

(* A connection starts at the beginning of its script. *)
LEMMA FlowInit == Init => Flow
<1> SUFFICES ASSUME Init PROVE Flow
  OBVIOUS
<1>1. ASSUME NEW c \in Conn PROVE At(c)
  <2>1. /\ sent[c] = 0 /\ peer[c] = "idle" /\ recv_mbuf[c] = <<>> /\ net[c] = <<>> /\ handled[c] = <<>>
        /\ script \in Scripts
    BY <1>1 DEF Init
  <2>2. Framed(script[c])
    BY <2>1, ScriptAssumption
  <2>3. Lines(script[c], 0) = {}
    BY DEF Lines
  <2>4. Cardinality(Lines(script[c], 0)) = 0
    BY <2>3, FS_EmptySet
  <2>5. Starts(script[c], 0 + 1)
    BY <2>2 DEF Framed
  <2>6. Placed(script[c], 0, "idle", <<>>, <<>>, 0, 0)
    BY <2>4, <2>5 DEF Placed
  <2>7. Len(handled[c]) = 0
    BY <2>1
  <2>8. Placed(script[c], sent[c], peer[c], recv_mbuf[c], net[c], Len(handled[c]), 0)
    BY <2>1, <2>6, <2>7
  <2> QED BY <2>8 DEF At
<1> QED BY <1>1 DEF Init, Flow

(* A connection that nothing happens to keeps its place. *)
LEMMA SameStays == ASSUME NEW d, Same(d), At(d), UNCHANGED script PROVE At(d)'
BY DEF Same, At, Placed, Starts, Lines

(* Only connection c moves on. *)
LEMMA FlowMoves ==
  ASSUME Flow, NEW c \in Conn, UNCHANGED script,
         recv_mbuf' \in [Conn -> Seq(Token)], net' \in [Conn -> Seq(Token)],
         \A d \in Conn : d # c => Same(d),
         state'[c] # "closed" => At(c)'
  PROVE  Flow'
<1>1. ASSUME NEW d \in Conn, d # c, state'[d] # "closed" PROVE At(d)'
  <2>1. Same(d) /\ state[d] # "closed"
    BY <1>1 DEF Same
  <2>2. At(d)
    BY <2>1 DEF Flow
  <2> QED BY <2>1, <2>2, SameStays
<1>2. \A d \in Conn : state'[d] # "closed" => At(d)'
  BY <1>1
<1> QED BY <1>2 DEF Flow

LEMMA FlowStays ==
  ASSUME Flow, UNCHANGED <<script, sent, peer, recv_mbuf, net, handled, state>>
  PROVE  Flow'
<1>1. ASSUME NEW d \in Conn, state'[d] # "closed" PROVE At(d)'
  <2>1. Same(d) /\ At(d)
    BY <1>1 DEF Same, Flow
  <2> QED BY <2>1, SameStays
<1> QED BY <1>1 DEF Flow

(* A connection that is visited is open. *)
LEMMA VisitedIsActive ==
  ASSUME Connections, NEW c \in Conn, NEW x, visiting(c, x)
  PROVE  state[c] = "active"
<1>1. pass \in Seq(Conn \cup {Listener}) /\ 1 \in 1 .. Len(pass) /\ pass[1] = c
  BY DEF Connections, visiting
<1> QED BY <1>1 DEF Connections

LEMMA PlaceOf ==
  ASSUME Connections, Replies, Flow, NEW c \in Conn, state[c] # "closed"
  PROVE  /\ \E p \in Nat : Placed(script[c], sent[c], peer[c], recv_mbuf[c], net[c], Len(handled[c]), p)
         /\ Framed(script[c]) /\ script[c] \in Seq(Token) /\ sent[c] \in Nat /\ sent[c] <= Len(script[c])
         /\ recv_mbuf[c] \in Seq(Token) /\ net[c] \in Seq(Token) /\ Len(handled[c]) \in Nat
<1>1. Len(handled[c]) \in Nat
  BY LenProperties DEF Replies
<1>2. Framed(script[c])
  BY ScriptAssumption DEF Flow
<1> QED BY <1>1, <1>2 DEF Connections, Flow, At

LEMMA ClientsFlow == ASSUME Connections, Replies, Flow, Clients PROVE Flow'
<1>1. PICK c \in Conn : Connect(c) \/ Send(c) \/ Read(c) \/ Shut(c) \/ Reset(c)
  BY DEF Clients
<1>2. /\ UNCHANGED <<script, recv_mbuf, handled, state>>
      /\ sent \in [Conn -> Nat] /\ peer \in [Conn -> {"idle", "open", "shut", "reset"}]
      /\ net \in [Conn -> Seq(Token)]
  BY <1>1 DEF Connect, Send, Read, Shut, Reset, client, sockets, Connections, Flow
<1>3. CASE Connect(c) \/ Shut(c)
  <2>1. /\ UNCHANGED <<sent, net>>
        /\ \A d \in Conn : d # c => Same(d)
        /\ peer[c] \in {"idle", "open"}
    BY <1>2, <1>3 DEF Connect, Shut, kernel, Same
  <2>2. At(c) => At(c)'
    BY <1>2, <2>1 DEF At, Placed, Starts, Lines
  <2> QED BY <1>2, <2>1, <2>2, FlowMoves DEF Flow
<1>4. CASE Reset(c)
  <2>1. /\ UNCHANGED sent /\ peer'[c] = "reset" /\ net' \in [Conn -> Seq(Token)]
        /\ net'[c] \in {net[c], <<>>}
        /\ \A d \in Conn : d # c => Same(d)
    <3>1. net' = net \/ net' = [net EXCEPT ![c] = <<>>]
      BY <1>4 DEF Reset
    <3>2. <<>> \in Seq(Token)
      OBVIOUS
    <3>3. /\ net' \in [Conn -> Seq(Token)] /\ net'[c] \in {net[c], <<>>}
          /\ \A d \in Conn : d # c => net'[d] = net[d]
      BY <3>1, <3>2, <1>2
    <3> QED BY <3>3, <1>2, <1>4 DEF Reset, Same
  <2>2. ASSUME state'[c] # "closed" PROVE At(c)'
    <3>1. PICK p \in Nat : Placed(script[c], sent[c], peer[c], recv_mbuf[c], net[c], Len(handled[c]), p)
      BY <2>2, <1>2, PlaceOf
    <3>2. Placed(script[c], sent[c], "reset", recv_mbuf[c], net'[c], Len(handled[c]), p)
      BY <1>2, <2>1, <2>2, <3>1, PlaceOf, PlacedReset
    <3>3. Placed(script'[c], sent'[c], peer'[c], recv_mbuf'[c], net'[c], Len(handled'[c]), p)
      BY <3>2, <1>2, <2>1
    <3> QED BY <3>3 DEF At, Placed, Starts, Lines
  <2> QED BY <1>2, <2>1, <2>2, FlowMoves DEF Flow
<1>5. CASE Send(c)
  <2>1. /\ UNCHANGED peer /\ peer[c] = "open" /\ state[c] # "closed" /\ sent[c] < Len(script[c])
        /\ sent'[c] = sent[c] + 1
        /\ net' = [net EXCEPT ![c] = Append(net[c], script[c][sent[c] + 1])]
        /\ \A d \in Conn : d # c => Same(d)
    BY <1>2, <1>5 DEF Send, Same
  <2>2. PICK p \in Nat : Placed(script[c], sent[c], peer[c], recv_mbuf[c], net[c], Len(handled[c]), p)
    BY <2>1, PlaceOf
  <2>3. Placed(script[c], sent[c] + 1, "open", recv_mbuf[c],
               Append(net[c], script[c][sent[c] + 1]), Len(handled[c]), p)
    BY <2>1, <2>2, PlaceOf, PlacedSend
  <2>4. net' \in [Conn -> Seq(Token)] /\ net'[c] = Append(net[c], script[c][sent[c] + 1])
    <3>1. script[c][sent[c] + 1] \in Token
      <4>1. script[c] \in Seq(Token) /\ sent[c] \in Nat /\ Len(script[c]) \in Nat
        BY <1>2, LenProperties DEF Connections
      <4>2. sent[c] + 1 \in 1 .. Len(script[c])
        BY <4>1, <2>1
      <4> QED BY <4>1, <4>2
    <3> QED BY <3>1, <2>1, <1>2
  <2>5. Placed(script'[c], sent'[c], peer'[c], recv_mbuf'[c], net'[c], Len(handled'[c]), p)
    BY <1>2, <2>1, <2>3, <2>4
  <2>6. At(c)'
    BY <2>5 DEF At, Placed, Starts, Lines
  <2> QED BY <1>2, <2>1, <2>4, <2>6, FlowMoves DEF Flow
<1>6. CASE Read(c)
  <2>1. UNCHANGED <<script, sent, peer, recv_mbuf, net, handled, state>>
    BY <1>6 DEF Read, client, sockets
  <2> QED BY <2>1, FlowStays
<1> QED BY <1>1, <1>3, <1>4, <1>5, <1>6

(* What a request adds is at the end of the list of the requests. *)
LEMMA HandlerAppends ==
  ASSUME NEW c \in Conn, http_handler(c), Replies
  PROVE  /\ \A d \in Conn : d # c => handled'[d] = handled[d]
         /\ Len(handled[c]) \in Nat /\ Len(handled'[c]) = Len(handled[c]) + 1
         /\ \A i \in 1 .. Len(handled[c]) : handled'[c][i] = handled[c][i]
         /\ handled'[c][Len(handled[c]) + 1] =
              [uri |-> recv_mbuf[c][1].uri,
               body |-> SubSeq(recv_mbuf[c], req_len(recv_mbuf[c]) + 1, Len(recv_mbuf[c]))]
<1>1. PICK x : /\ x = [uri |-> recv_mbuf[c][1].uri,
                    body |-> SubSeq(recv_mbuf[c], req_len(recv_mbuf[c]) + 1, Len(recv_mbuf[c]))]
               /\ handled' = [handled EXCEPT ![c] = Append(handled[c], x)]
  BY DEF http_handler
<1>2. PICK S : handled \in [Conn -> Seq(S)]
  BY DEF Replies
<1>3. handled[c] \in Seq(S \cup {x}) /\ x \in S \cup {x}
  <2>1. Seq(S) \subseteq Seq(S \cup {x})
    OBVIOUS
  <2> QED BY <2>1, <1>2
<1>4. /\ Len(handled[c]) \in Nat /\ Len(Append(handled[c], x)) = Len(handled[c]) + 1
      /\ \A i \in 1 .. Len(handled[c]) : Append(handled[c], x)[i] = handled[c][i]
      /\ Append(handled[c], x)[Len(handled[c]) + 1] = x
  BY <1>3, LenProperties
<1>5. handled'[c] = Append(handled[c], x) /\ \A d \in Conn : d # c => handled'[d] = handled[d]
  BY <1>1, <1>2
<1> QED BY <1>1, <1>4, <1>5

LEMMA VisitFlow == ASSUME Connections, Replies, Flow, NEW c \in Conn, visit(c) PROVE Flow'
<1>1. /\ recv_mbuf \in [Conn -> Seq(Token)] /\ net \in [Conn -> Seq(Token)] /\ <<>> \in Seq(Token)
      /\ state \in [Conn -> States]
  BY DEF Flow, Connections
<1>2. CASE poll(c) \/ recv_ends(c) \/ refuse(c) \/ await(c) \/ send(c)
  <2>1. UNCHANGED <<script, sent, peer, recv_mbuf, net, handled, state>>
    BY <1>2 DEF poll, recv_ends, refuse, await, send, client, kernel, sockets
  <2> QED BY <2>1, FlowStays
<1>3. CASE close(c)
  <2>1. /\ UNCHANGED <<script, sent, peer>> /\ state' = [state EXCEPT ![c] = "closed"]
        /\ recv_mbuf' = [recv_mbuf EXCEPT ![c] = <<>>] /\ net' = [net EXCEPT ![c] = <<>>]
        /\ http_handler(c) \/ UNCHANGED handled
    BY <1>3 DEF close, client
  <2>2. \A d \in Conn : d # c => handled'[d] = handled[d]
    BY <2>1, HandlerAppends
  <2>3. state'[c] = "closed" /\ \A d \in Conn : d # c => Same(d)
    BY <2>1, <2>2, <1>1 DEF Same
  <2>4. recv_mbuf' \in [Conn -> Seq(Token)] /\ net' \in [Conn -> Seq(Token)]
    BY <2>1, <1>1
  <2> QED BY <2>1, <2>3, <2>4, FlowMoves
<1>4. CASE recv(c)
  <2>1. /\ UNCHANGED <<script, sent, peer, handled, state>> /\ state[c] = "active"
        /\ recv_mbuf' = [recv_mbuf EXCEPT ![c] = recv_mbuf[c] \o net[c]]
        /\ net' = [net EXCEPT ![c] = <<>>]
    BY <1>4, VisitedIsActive DEF recv, client, sockets
  <2>2. /\ recv_mbuf' \in [Conn -> Seq(Token)] /\ net' \in [Conn -> Seq(Token)]
        /\ recv_mbuf'[c] = recv_mbuf[c] \o net[c] /\ net'[c] = <<>>
        /\ \A d \in Conn : d # c => Same(d)
    <3>1. recv_mbuf[c] \o net[c] \in Seq(Token)
      BY <1>1
    <3> QED BY <3>1, <2>1, <1>1 DEF Same
  <2>3. PICK p \in Nat : Placed(script[c], sent[c], peer[c], recv_mbuf[c], net[c], Len(handled[c]), p)
    BY <2>1, PlaceOf
  <2>4. Placed(script[c], sent[c], peer[c], recv_mbuf[c] \o net[c], <<>>, Len(handled[c]), p)
    BY <2>3, <1>1, PlacedRecv
  <2>5. Placed(script'[c], sent'[c], peer'[c], recv_mbuf'[c], net'[c], Len(handled'[c]), p)
    BY <2>4, <2>1, <2>2
  <2>6. At(c)'
    BY <2>5 DEF At, Placed, Starts, Lines
  <2> QED BY <2>1, <2>2, <2>6, FlowMoves
<1>5. CASE request(c)
  <2> DEFINE b == recv_mbuf[c]
             rest == SubSeq(b, message_len(b) + 1, Len(b))
  <2>1. /\ UNCHANGED <<script, sent, peer, net, state>> /\ state[c] = "active"
        /\ Headed(b) /\ message_len(b) <= Len(b) /\ http_handler(c)
        /\ recv_mbuf' = [recv_mbuf EXCEPT ![c] = rest]
    BY <1>5, VisitedIsActive DEF request, client, kernel, sockets
  <2>2. PICK p \in Nat : Placed(script[c], sent[c], peer[c], b, net[c], Len(handled[c]), p)
    BY <2>1, PlaceOf
  <2>3. PICK r : r = rest
    OBVIOUS
  <2>4. r \in Seq(Token) /\ \E q \in Nat :
          Placed(script[c], sent[c], peer[c], r, net[c], Len(handled[c]) + 1, q)
    BY <2>1, <2>2, <2>3, PlaceOf, PlacedRequest
  <2>5. /\ Len(handled'[c]) = Len(handled[c]) + 1
        /\ \A d \in Conn : d # c => handled'[d] = handled[d]
    BY <2>1, HandlerAppends
  <2>6. recv_mbuf' = [recv_mbuf EXCEPT ![c] = r]
    BY <2>1, <2>3
  <2> HIDE DEF rest, b
  <2>7. /\ recv_mbuf' \in [Conn -> Seq(Token)] /\ recv_mbuf'[c] = r
        /\ \A d \in Conn : d # c => Same(d)
    BY <2>1, <2>4, <2>5, <2>6, <1>1 DEF Same
  <2>8. PICK q \in Nat :
          Placed(script'[c], sent'[c], peer'[c], recv_mbuf'[c], net'[c], Len(handled'[c]), q)
    BY <2>1, <2>4, <2>5, <2>7
  <2>9. At(c)'
    BY <2>8 DEF At, Placed, Starts, Lines
  <2> QED BY <1>1, <2>1, <2>7, <2>9, FlowMoves
<1> QED BY <1>2, <1>3, <1>4, <1>5 DEF visit

(* Every step keeps each buffer at its place in the script. *)
LEMMA FlowStep == ASSUME Connections, Replies, Flow, [Next]_vars PROVE Flow'
<1>1. CASE select \/ UNCHANGED vars
  BY <1>1, FlowStays DEF select, vars, client, kernel, sockets
<1>2. CASE accept
  <2>1. CASE UNCHANGED <<script, sent, peer, recv_mbuf, net, handled, state>>
    BY <2>1, FlowStays
  <2>2. ASSUME NEW c \in Conn, waiting(c), state' = [state EXCEPT ![c] = "active"],
               UNCHANGED <<script, sent, peer, recv_mbuf, net, handled>>
        PROVE  Flow'
    <3>1. state[c] # "closed" /\ \A d \in Conn : d # c => Same(d)
      BY <2>2 DEF waiting, Same, Connections
    <3>2. At(c)
      BY <3>1 DEF Flow
    <3>3. At(c)'
      BY <3>2, <2>2 DEF At, Placed, Starts, Lines
    <3> QED BY <2>2, <3>1, <3>3, FlowMoves DEF Flow
  <2> QED BY <1>2, <2>1, <2>2 DEF accept, client, kernel, sockets
<1> QED BY <1>1, <1>2, ClientsFlow, VisitFlow DEF Next, Server

(* Request x is the i-th of a script; cut says that its body may be short. *)
Meets(s, x, i, cut) ==
  \E l \in DOMAIN s :
    /\ s[l].kind = "line" /\ Cardinality(Lines(s, l)) = i /\ x.uri = s[l].uri
    /\ \A j \in 1 .. Len(x.body) : j <= s[l].need => x.body[j] = Body
    /\ Len(x.body) < s[l].need => cut

InOrder ==
  \A c \in Conn : \A i \in 1 .. Len(handled[c]) :
    Meets(script[c], handled[c][i], i, state[c] = "closed" /\ i = Len(handled[c]))

(* The request at the head of the buffer is the next one of the script,    *)
(* with all of its body if that has arrived.                               *)
LEMMA NextMeets ==
  ASSUME NEW s \in Seq(Token), Framed(s), NEW n \in Nat, n <= Len(s),
         NEW b \in Seq(Token), NEW w \in Seq(Token), NEW pr, NEW k \in Nat, NEW p,
         Placed(s, n, pr, b, w, k, p), Headed(b),
         NEW x, x.uri = b[1].uri, NEW body, body = SubSeq(b, req_len(b) + 1, Len(b)), x.body = body
  PROVE  /\ Meets(s, x, k + 1, TRUE)
         /\ message_len(b) <= Len(b) => Meets(s, x, k + 1, FALSE)
<1>1. /\ p + 1 \in 1 .. Len(s) /\ b[1] = s[p + 1] /\ s[p + 1].kind = "line"
      /\ req_len(b) \in 2 .. Len(b)
  BY HeadIs
<1>2. /\ Cardinality(Lines(s, p + 1)) = k + 1
      /\ b[1].need \in Nat /\ Len(body) = Len(b) - req_len(b)
      /\ \A j \in 1 .. Len(body) : j <= b[1].need => body[j] = Body
  <2>1. /\ Cardinality(Lines(s, p + 1)) = k + 1 /\ b[1].need \in Nat
        /\ \E y : /\ y = SubSeq(b, req_len(b) + 1, Len(b))
                  /\ Len(y) = Len(b) - req_len(b)
                  /\ \A j \in 1 .. Len(y) : j <= b[1].need => y[j] = Body
    BY ONLY Framed(s), n <= Len(s), Placed(s, n, pr, b, w, k, p), Headed(b), RequestIs
  <2> QED BY <2>1
<1>3. p + 1 \in DOMAIN s /\ x.uri = s[p + 1].uri
  BY <1>1, LenProperties
<1>4. message_len(b) <= Len(b) => ~(Len(body) < b[1].need)
  <2>0. b[1].need \in Nat /\ Len(b) \in Nat
    BY <1>2, LenProperties
  <2>1. req_len(b) \in Nat
    BY ONLY <1>1, <2>0
  <2>2. PICK m \in Nat, h \in Nat, l \in Nat : m = b[1].need /\ h = req_len(b) /\ l = Len(b)
    BY ONLY <2>0, <2>1
  <2>3. Len(body) = l - h /\ message_len(b) = h + m
    BY <2>2, <1>2 DEF message_len
  <2>4. h + m <= l => ~(l - h < m)
    BY <2>2
  <2> QED BY <2>2, <2>3, <2>4
<1> QED BY <1>1, <1>2, <1>3, <1>4 DEF Meets

LEMMA NewMeets ==
  ASSUME Connections, Replies, Flow, NEW c \in Conn, state[c] # "closed", Headed(recv_mbuf[c]),
         NEW x, x = [uri |-> recv_mbuf[c][1].uri,
                     body |-> SubSeq(recv_mbuf[c], req_len(recv_mbuf[c]) + 1, Len(recv_mbuf[c]))]
  PROVE  /\ Meets(script[c], x, Len(handled[c]) + 1, TRUE)
         /\ message_len(recv_mbuf[c]) <= Len(recv_mbuf[c])
              => Meets(script[c], x, Len(handled[c]) + 1, FALSE)
<1>1. PICK p \in Nat : Placed(script[c], sent[c], peer[c], recv_mbuf[c], net[c], Len(handled[c]), p)
  BY PlaceOf
<1>2. PICK body : x.body = body /\ body = SubSeq(recv_mbuf[c], req_len(recv_mbuf[c]) + 1, Len(recv_mbuf[c]))
  OBVIOUS
<1>3. x.uri = recv_mbuf[c][1].uri
  OBVIOUS
<1> QED BY <1>1, <1>2, <1>3, PlaceOf, NextMeets

(* The handler is called with the line that is next. *)
LEMMA HandlerInOrder ==
  ASSUME Connections, Replies, Flow, InOrder, NEW c \in Conn, state[c] = "active", UNCHANGED script,
         http_handler(c), Headed(recv_mbuf[c]),
         \A d \in Conn : d # c => state'[d] = state[d],
         state'[c] = "closed" \/ message_len(recv_mbuf[c]) <= Len(recv_mbuf[c])
  PROVE  InOrder'
<1>1. PICK x : x = [uri |-> recv_mbuf[c][1].uri,
                    body |-> SubSeq(recv_mbuf[c], req_len(recv_mbuf[c]) + 1, Len(recv_mbuf[c]))]
  OBVIOUS
<1>2. /\ \A d \in Conn : d # c => handled'[d] = handled[d]
      /\ Len(handled[c]) \in Nat /\ Len(handled'[c]) = Len(handled[c]) + 1
      /\ \A i \in 1 .. Len(handled[c]) : handled'[c][i] = handled[c][i]
      /\ handled'[c][Len(handled[c]) + 1] = x
  BY <1>1, HandlerAppends
<1>3. /\ Meets(script[c], x, Len(handled[c]) + 1, TRUE)
      /\ message_len(recv_mbuf[c]) <= Len(recv_mbuf[c]) => Meets(script[c], x, Len(handled[c]) + 1, FALSE)
  BY <1>1, NewMeets
<1>4. ASSUME NEW d \in Conn, NEW i \in 1 .. Len(handled'[d])
      PROVE  Meets(script[d], handled'[d][i], i, state'[d] = "closed" /\ i = Len(handled'[d]))
  <2>1. CASE d # c
    BY <2>1, <1>2 DEF InOrder
  <2>2. CASE d = c /\ i \in 1 .. Len(handled[c])
    <3>1. Meets(script[c], handled[c][i], i, FALSE)
      BY <2>2 DEF InOrder
    <3>2. handled'[c][i] = handled[c][i]
      BY <2>2, <1>2
    <3> QED BY <2>2, <3>1, <3>2 DEF Meets
  <2>3. CASE d = c /\ i = Len(handled[c]) + 1
    <3>1. handled'[d][i] = x /\ i = Len(handled'[d])
      BY <2>3, <1>2
    <3>2. CASE state'[c] = "closed"
      BY <2>3, <3>1, <3>2, <1>3 DEF Meets
    <3>3. CASE message_len(recv_mbuf[c]) <= Len(recv_mbuf[c])
      BY <2>3, <3>1, <3>3, <1>3 DEF Meets
    <3> QED BY <3>2, <3>3
  <2>4. d # c \/ i \in 1 .. Len(handled[c]) \/ i = Len(handled[c]) + 1
    BY <1>2
  <2> QED BY <2>1, <2>2, <2>3, <2>4
<1>5. \A d \in Conn : \A i \in 1 .. Len(handled'[d]) :
        Meets(script'[d], handled'[d][i], i, state'[d] = "closed" /\ i = Len(handled'[d]))
  BY <1>4
<1> QED BY <1>5 DEF InOrder

(* So the requests of a connection reach it in order. *)
LEMMA InOrderStep == ASSUME Connections, Replies, Flow, InOrder, [Next]_vars PROVE InOrder'
<1>1. ASSUME UNCHANGED <<script, handled>>,
             \A d \in Conn : state[d] = "closed" => state'[d] = "closed"
      PROVE  InOrder'
  <2>1. ASSUME NEW d \in Conn, NEW i \in 1 .. Len(handled[d])
        PROVE  Meets(script[d], handled[d][i], i, state'[d] = "closed" /\ i = Len(handled[d]))
    BY <1>1 DEF InOrder, Meets
  <2>2. \A d \in Conn : \A i \in 1 .. Len(handled'[d]) :
          Meets(script'[d], handled'[d][i], i, state'[d] = "closed" /\ i = Len(handled'[d]))
    BY <1>1, <2>1
  <2> QED BY <2>2 DEF InOrder
<1>2. CASE Clients \/ select \/ UNCHANGED vars
  <2>1. UNCHANGED <<script, handled, state>>
    BY <1>2 DEF Clients, Connect, Send, Read, Shut, Reset, select, vars, client, sockets
  <2> QED BY <2>1, <1>1
<1>3. CASE accept
  <2>1. UNCHANGED <<script, handled>> /\ \A d \in Conn : state[d] = "closed" => state'[d] = "closed"
    BY <1>3 DEF accept, waiting, client, sockets, Connections
  <2> QED BY <2>1, <1>1
<1>4. ASSUME NEW c \in Conn, visit(c) PROVE InOrder'
  <2>1. CASE poll(c) \/ recv(c) \/ recv_ends(c) \/ refuse(c) \/ await(c) \/ send(c)
    <3>1. UNCHANGED <<script, handled, state>>
      BY <2>1 DEF poll, recv, recv_ends, refuse, await, send, client, sockets
    <3> QED BY <3>1, <1>1
  <2>2. CASE close(c)
    <3>1. /\ UNCHANGED script /\ state[c] = "active"
          /\ state'[c] = "closed" /\ \A d \in Conn : d # c => state'[d] = state[d]
      BY <2>2, VisitedIsActive DEF close, client, Connections
    <3>2. CASE Headed(recv_mbuf[c])
      <4>1. http_handler(c)
        BY <2>2, <3>2 DEF close
      <4> QED BY <3>1, <3>2, <4>1, HandlerInOrder
    <3>3. CASE ~Headed(recv_mbuf[c])
      <4>1. UNCHANGED handled
        BY <2>2, <3>3 DEF close
      <4> QED BY <3>1, <4>1, <1>1
    <3> QED BY <3>2, <3>3
  <2>3. CASE request(c)
    <3>1. /\ UNCHANGED <<script, state>> /\ state[c] = "active"
          /\ Headed(recv_mbuf[c]) /\ message_len(recv_mbuf[c]) <= Len(recv_mbuf[c])
          /\ http_handler(c)
      BY <2>3, VisitedIsActive DEF request, client, sockets
    <3> QED BY <3>1, HandlerInOrder
  <2> QED BY <1>4, <2>1, <2>2, <2>3 DEF visit
<1> QED BY <1>2, <1>3, <1>4 DEF Next, Server

(* Nothing that is complete is left in a buffer, but in one that is being  *)
(* taken apart.                                                            *)
Complete(b) == Headed(b) /\ ~(message_len(b) > Len(b))

Apart(c) == pass # <<>> /\ Head(pass) = c /\ step = "parse"

Drained == \A c \in Conn : ~Apart(c) => ~Complete(recv_mbuf[c])

(* A visit goes on with the buffer until nothing in it is complete. *)
LEMMA DrainedStep == ASSUME Flow, Drained, [Next]_vars PROVE Drained'
<1>1. ASSUME \A d \in Conn : Apart(d)' \/ ~Complete(recv_mbuf'[d]) PROVE Drained'
  BY <1>1 DEF Drained, Complete, Headed, Malformed, Ends, message_len, req_len
<1>2. CASE Clients \/ UNCHANGED vars
  <2>1. UNCHANGED <<pass, step, recv_mbuf>>
    BY <1>2 DEF Clients, Connect, Send, Read, Shut, Reset, vars, loop
  <2>2. \A d \in Conn : Apart(d)' \/ ~Complete(recv_mbuf'[d])
    BY <2>1 DEF Drained, Apart
  <2> QED BY <1>1, <2>2
<1>3. ASSUME step # "parse" \/ pass = <<>>,
             \A d \in Conn : Apart(d)' \/ recv_mbuf'[d] = recv_mbuf[d] \/ ~Complete(recv_mbuf'[d])
      PROVE  Drained'
  BY <1>1, <1>3 DEF Drained, Apart
<1>4. CASE select \/ accept
  <2>1. (step # "parse" \/ pass = <<>>) /\ UNCHANGED recv_mbuf
    BY <1>4 DEF select, accept, visiting
  <2> QED BY <1>3, <2>1
<1>5. ASSUME NEW c \in Conn, visit(c) PROVE Drained'
  <2>1. ~Complete(<<>>)
    BY DEF Complete, Headed, Ends
  <2>2. recv_mbuf \in [Conn -> Seq(Token)]
    BY DEF Flow
  <2>3. CASE poll(c) \/ recv_ends(c) \/ send(c)
    <3>1. step # "parse" /\ UNCHANGED recv_mbuf
      BY <2>3 DEF poll, recv_ends, send, visiting
    <3> QED BY <1>3, <3>1
  <2>4. CASE close(c)
    <3>1. step # "parse" /\ recv_mbuf' = [recv_mbuf EXCEPT ![c] = <<>>]
      BY <2>4 DEF close, visiting
    <3> QED BY <1>3, <2>1, <2>2, <3>1
  <2>5. CASE recv(c)
    <3>1. /\ step # "parse" /\ Apart(c)'
          /\ recv_mbuf' = [recv_mbuf EXCEPT ![c] = recv_mbuf[c] \o net[c]]
      BY <2>5 DEF recv, visiting, continue, Apart
    <3> QED BY <1>3, <2>2, <3>1
  <2>6. ASSUME pass # <<>>, Head(pass) = c,
               \A d \in Conn : d # c => recv_mbuf'[d] = recv_mbuf[d],
               Apart(c)' \/ ~Complete(recv_mbuf'[c])
        PROVE  Drained'
    BY <1>1, <2>6 DEF Drained, Apart
  <2>7. CASE refuse(c) \/ await(c)
    <3>1. pass # <<>> /\ Head(pass) = c /\ UNCHANGED recv_mbuf
      BY <2>7 DEF refuse, await, visiting
    <3>2. ~Complete(recv_mbuf[c])
      BY <2>7 DEF refuse, await, Complete, Headed
    <3> QED BY <2>6, <3>1, <3>2
  <2>8. CASE request(c)
    <3> DEFINE rest == SubSeq(recv_mbuf[c], message_len(recv_mbuf[c]) + 1, Len(recv_mbuf[c]))
    <3>1. /\ pass # <<>> /\ Head(pass) = c /\ pass' = pass
          /\ step' = IF rest = <<>> THEN "recv" ELSE "parse"
          /\ recv_mbuf' = [recv_mbuf EXCEPT ![c] = rest]
      BY <2>8 DEF request, visiting, continue
    <3> HIDE DEF rest
    <3>2. recv_mbuf'[c] = rest /\ \A d \in Conn : d # c => recv_mbuf'[d] = recv_mbuf[d]
      BY <2>2, <3>1
    <3>3. Apart(c)' \/ ~Complete(recv_mbuf'[c])
      BY <2>1, <3>1, <3>2 DEF Apart
    <3> QED BY <2>6, <3>1, <3>2, <3>3
  <2> QED BY <1>5, <2>3, <2>4, <2>5, <2>7, <2>8 DEF visit
<1> QED BY <1>2, <1>4, <1>5 DEF Next, Server

(* Less is there than the request of the script announced. *)
Short(s, body, k) ==
  \E l \in DOMAIN s :
    s[l].kind = "line" /\ Cardinality(Lines(s, l)) = k /\ Len(body) < s[l].need

(* A request that is not complete is a short one. *)
LEMMA NextShort ==
  ASSUME NEW s \in Seq(Token), Framed(s), NEW n \in Nat, n <= Len(s),
         NEW b \in Seq(Token), NEW w \in Seq(Token), NEW pr, NEW k \in Nat, NEW p,
         Placed(s, n, pr, b, w, k, p), Headed(b), ~Complete(b),
         NEW body, body = SubSeq(b, req_len(b) + 1, Len(b))
  PROVE  Short(s, body, k + 1)
<1>1. /\ p + 1 \in 1 .. Len(s) /\ b[1] = s[p + 1] /\ s[p + 1].kind = "line"
      /\ req_len(b) \in 2 .. Len(b)
  BY ONLY Framed(s), n <= Len(s), Placed(s, n, pr, b, w, k, p), Headed(b), HeadIs
<1>2. /\ Cardinality(Lines(s, p + 1)) = k + 1 /\ b[1].need \in Nat
      /\ Len(body) = Len(b) - req_len(b)
  <2>1. /\ Cardinality(Lines(s, p + 1)) = k + 1 /\ b[1].need \in Nat
        /\ \E y : /\ y = SubSeq(b, req_len(b) + 1, Len(b))
                  /\ Len(y) = Len(b) - req_len(b)
                  /\ \A j \in 1 .. Len(y) : j <= b[1].need => y[j] = Body
    BY ONLY Framed(s), n <= Len(s), Placed(s, n, pr, b, w, k, p), Headed(b), RequestIs
  <2> QED BY <2>1
<1>3. Len(body) < b[1].need
  <2>1. b[1].need \in Nat /\ Len(b) \in Nat
    BY <1>2, LenProperties
  <2>2. req_len(b) \in Nat
    BY ONLY <1>1, <2>1
  <2>3. PICK m \in Nat, h \in Nat, l \in Nat : m = b[1].need /\ h = req_len(b) /\ l = Len(b)
    BY ONLY <2>1, <2>2
  <2>4. h + m > l
    BY <2>3 DEF Complete, message_len
  <2>5. l - h < m
    BY <2>3, <2>4
  <2> QED BY <1>2, <2>3, <2>5
<1>4. p + 1 \in DOMAIN s
  BY <1>1, LenProperties
<1> QED BY <1>1, <1>2, <1>3, <1>4 DEF Short

(* One that is handled like that is the last of its connection. *)
LEMMA NewCut ==
  ASSUME Connections, Replies, Flow, NEW c \in Conn, state[c] # "closed", UNCHANGED script,
         http_handler(c), Headed(recv_mbuf[c]), ~Complete(recv_mbuf[c])
  PROVE  Cut(c)'
<1>1. PICK p \in Nat : Placed(script[c], sent[c], peer[c], recv_mbuf[c], net[c], Len(handled[c]), p)
  BY PlaceOf
<1>2. PICK body : body = SubSeq(recv_mbuf[c], req_len(recv_mbuf[c]) + 1, Len(recv_mbuf[c]))
  OBVIOUS
<1>3. Short(script[c], body, Len(handled[c]) + 1)
  BY <1>1, <1>2, PlaceOf, NextShort
<1>4. /\ Len(handled[c]) \in Nat /\ Len(handled'[c]) = Len(handled[c]) + 1
      /\ handled'[c][Len(handled[c]) + 1] = [uri |-> recv_mbuf[c][1].uri, body |-> body]
  BY <1>2, HandlerAppends
<1>5. Len(handled'[c]) > 0 /\ handled'[c][Len(handled'[c])].body = body
  BY <1>4
<1>6. Short(script'[c], handled'[c][Len(handled'[c])].body, Len(handled'[c]))
  BY <1>3, <1>4, <1>5
<1> QED BY <1>5, <1>6 DEF Short, Cut, Lines

(* Unless its client broke it or sent what is no request, a connection is  *)
(* closed only when everything that was written to it before has been sent. *)
AllSent(c) == taken[c] = Len(out[c]) \/ (taken[c] + 1 = Len(out[c]) /\ Cut(c))

Flushed ==
  \A c \in Conn : peer[c] # "reset" /\ ~Refusable(c) =>
    /\ "CLOSE_IMMEDIATELY" \notin flags[c]
    /\ state[c] = "closed" => AllSent(c)

(* What http_handler() writes is one reply, or none. *)
LEMMA OneReply ==
  ASSUME Replies, NEW c \in Conn, http_handler(c)
  PROVE  Len(out'[c]) \in {Len(out[c]), Len(out[c]) + 1}
<1>1. PICK r, u : out' = out \/ out' = [out EXCEPT ![c] = out[c] \o send_http(r, u)]
  BY DEF http_handler
<1>2. out \in [Conn -> Seq(Reply)] /\ Len(out[c]) \in Nat
  BY LenProperties DEF Replies
<1>3. CASE out' = out
  BY <1>3
<1>4. CASE out' = [out EXCEPT ![c] = out[c] \o send_http(r, u)]
  <2>1. out'[c] = out[c] \o send_http(r, u)
    BY <1>2, <1>4
  <2>2. CASE send_http(r, u) = <<>>
    <3>1. out[c] \o <<>> = out[c]
      BY <1>2, ConcatEmptySeq
    <3> QED BY <2>1, <2>2, <3>1
  <2>3. CASE send_http(r, u) # <<>>
    <3>1. PICK x : send_http(r, u) = <<x>>
      BY <2>3 DEF send_http
    <3>2. out[c] \in Seq(Reply \cup {x}) /\ <<x>> \in Seq(Reply \cup {x})
      <4>1. Seq(Reply) \subseteq Seq(Reply \cup {x})
        OBVIOUS
      <4> QED BY <1>2, <4>1
    <3>3. Len(out[c] \o <<x>>) = Len(out[c]) + 1
      BY <3>2
    <3> QED BY <2>1, <3>1, <3>3
  <2> QED BY <2>2, <2>3
<1> QED BY <1>1, <1>3, <1>4

(* A connection is closed when what it was answered has been sent. *)
LEMMA FlushedStep ==
  ASSUME Connections, Marks, Replies, Flow, Drained, Flushed, [Next]_vars PROVE Flushed'
<1>1. ASSUME UNCHANGED <<script, flags, taken, out, handled>>,
             \A d \in Conn : peer[d] = "reset" => peer'[d] = "reset",
             \A d \in Conn : state'[d] = "closed" => state[d] = "closed"
      PROVE  Flushed'
  BY <1>1 DEF Flushed, Refusable, AllSent, Cut, Lines
<1>2. CASE Clients \/ select \/ UNCHANGED vars
  <2>1. UNCHANGED <<script, flags, taken, out, handled, state>>
    BY <1>2 DEF Clients, Connect, Send, Read, Shut, Reset, select, vars, client, sockets, replies
  <2>2. \A d \in Conn : peer[d] = "reset" => peer'[d] = "reset"
    BY <1>2 DEF Clients, Connect, Send, Read, Shut, Reset, select, vars, client, Connections
  <2> QED BY <2>1, <2>2, <1>1
<1>3. CASE accept
  <2>1. UNCHANGED <<script, flags, taken, out, handled, peer>>
    BY <1>3 DEF accept, client, replies
  <2>2. \A d \in Conn : state'[d] = "closed" => state[d] = "closed"
    BY <1>3 DEF accept, sockets, Connections
  <2> QED BY <2>1, <2>2, <1>1
<1>4. ASSUME NEW c \in Conn, visit(c) PROVE Flushed'
  <2> SUFFICES ASSUME NEW d \in Conn, peer'[d] # "reset", ~Refusable(d)'
               PROVE  /\ "CLOSE_IMMEDIATELY" \notin flags'[d]
                      /\ state'[d] = "closed" => AllSent(d)'
    BY DEF Flushed
  <2>1. UNCHANGED <<script, peer>>
    BY <1>4 DEF visit, poll, close, recv, recv_ends, refuse, await, request, send, client
  <2>2. /\ peer[d] # "reset" /\ ~Refusable(d)
        /\ "CLOSE_IMMEDIATELY" \notin flags[d]
        /\ state[d] = "closed" => AllSent(d)
    BY <2>1 DEF Flushed, Refusable
  <2>3. state[c] = "active"
    BY <1>4, VisitedIsActive DEF visit, poll, close, recv, recv_ends, refuse, await, request, send
  <2>4. ASSUME d # c
        PROVE  /\ flags'[d] = flags[d] /\ taken'[d] = taken[d] /\ out'[d] = out[d]
               /\ state'[d] = state[d] /\ handled'[d] = handled[d]
    <3>1. taken'[d] = taken[d] /\ state'[d] = state[d]
      <4>1. state' = state \/ state' = [state EXCEPT ![c] = "closed"]
        BY <1>4 DEF visit, poll, close, recv, recv_ends, refuse, await, request, send, sockets
      <4>2. taken' = taken \/ \E n : taken' = [taken EXCEPT ![c] = n]
        <5>1. CASE send(c)
          BY <5>1 DEF send
        <5>2. CASE ~send(c)
          BY <1>4, <5>2 DEF visit, poll, close, recv, recv_ends, refuse, await, request, replies
        <5> QED BY <5>1, <5>2
      <4> QED BY <4>1, <4>2, <2>4 DEF Replies, Connections
    <3>2. http_handler(c) => flags'[d] = flags[d] /\ out'[d] = out[d] /\ handled'[d] = handled[d]
      <4>1. http_handler(c) => flags'[d] = flags[d] /\ out'[d] = out[d]
        BY <2>4 DEF http_handler, Marks, Replies
      <4>2. http_handler(c) => handled'[d] = handled[d]
        BY <2>4, HandlerAppends
      <4> QED BY <4>1, <4>2
    <3>3. CASE close(c) \/ request(c)
      BY <3>1, <3>2, <3>3 DEF close, request
    <3>4. CASE ~(close(c) \/ request(c))
      BY <1>4, <2>4, <3>1, <3>4 DEF visit, poll, recv, recv_ends, refuse, await, send, replies, Marks
    <3> QED BY <3>3, <3>4
  <2>5. CASE d # c
    BY <2>1, <2>2, <2>4, <2>5 DEF AllSent, Cut, Lines
  <2>6. CASE d = c
    <3>1. CASE poll(c) \/ recv(c) \/ await(c)
      BY <2>2, <2>3, <2>6, <3>1 DEF poll, recv, await, sockets
    <3>2. CASE recv_ends(c)
      <4>1. flags' = [flags EXCEPT ![c] = flags[c] \cup
              CASE peer[c] = "shut"  -> {"SEND_AND_CLOSE"}
                [] peer[c] = "reset" -> {"CLOSE_IMMEDIATELY"}
                [] OTHER -> {}]
        BY <3>2 DEF recv_ends
      <4>2. \/ flags'[c] = flags[c] \cup {"SEND_AND_CLOSE"}
            \/ flags'[c] = flags[c] \cup {}
        BY <4>1, <2>2, <2>6 DEF Marks
      <4>3. UNCHANGED state
        BY <3>2 DEF recv_ends, sockets
      <4> QED BY <4>2, <4>3, <2>2, <2>3, <2>6
    <3>3. CASE refuse(c)
      <4>1. PICK p \in Nat : Placed(script[c], sent[c], peer[c], recv_mbuf[c], net[c], Len(handled[c]), p)
        BY <2>3, PlaceOf
      <4>2. Malformed(recv_mbuf[c]) \/ (Ends(recv_mbuf[c]) = {} /\ Len(recv_mbuf[c]) >= MaxHead)
        BY <3>3 DEF refuse
      <4>3. \/ \E i \in DOMAIN script[c] : script[c][i] = Junk
            \/ Cardinality({i \in DOMAIN script[c] : script[c][i] = Header}) + 1 >= MaxHead
        BY <2>3, <4>1, <4>2, PlaceOf, RefusedIs
      <4> QED BY <2>2, <2>6, <4>3 DEF Refusable
    <3>4. CASE request(c)
      <4>1. flags'[c] \in {flags[c], flags[c] \cup {"SEND_AND_CLOSE"}}
        BY <3>4 DEF request, http_handler, Marks
      <4>2. state'[c] = "active"
        BY <2>3, <3>4 DEF request, sockets
      <4> QED BY <2>2, <2>6, <4>1, <4>2
    <3>5. CASE send(c)
      <4>1. flags'[c] = flags[c] /\ state'[c] = "active"
        BY <2>2, <2>3, <2>6, <3>5 DEF send, sockets
      <4> QED BY <2>2, <2>6, <4>1
    <3>6. CASE close(c)
      <4>1. "CLOSE_IMMEDIATELY" \notin flags'[c] /\ UNCHANGED taken
        <5>1. UNCHANGED taken /\ (http_handler(c) \/ UNCHANGED flags)
          BY <3>6 DEF close
        <5>2. flags'[c] \in {flags[c], flags[c] \cup {"SEND_AND_CLOSE"}}
          BY <5>1 DEF http_handler, Marks
        <5> QED BY <2>2, <2>6, <5>1, <5>2
      <4>2. send_mbuf(c) = <<>>
        BY <2>2, <2>6, <3>6 DEF close, closes
      <4>3. PICK t \in Nat, n \in Nat : t = taken[c] /\ n = Len(out[c]) /\ t <= n
        BY LenProperties DEF Replies
      <4>4. t = n
        <5>1. out[c] \in Seq(Reply) /\ t + 1 \in Int /\ n \in Int
          BY <4>3 DEF Replies
        <5>2. \A i \in t + 1 .. n : out[c][i] \in Reply
          BY <4>3, <5>1
        <5>3. Len(SubSeq(out[c], t + 1, n)) = IF t + 1 <= n THEN n - (t + 1) + 1 ELSE 0
          BY <5>1, <5>2, SubSeqProperties
        <5>4. SubSeq(out[c], t + 1, n) = <<>>
          BY <4>2, <4>3 DEF send_mbuf
        <5>5. Len(<<>>) = 0
          OBVIOUS
        <5>6. Len(SubSeq(out[c], t + 1, n)) = 0
          BY ONLY <5>4, <5>5
        <5> QED BY <4>3, <5>3, <5>6
      <4>5. CASE ~Headed(recv_mbuf[c])
        <5>1. UNCHANGED out
          BY <3>6, <4>5 DEF close
        <5> QED BY <2>6, <4>1, <4>3, <4>4, <5>1 DEF AllSent
      <4>6. CASE Headed(recv_mbuf[c])
        <5>1. http_handler(c)
          BY <3>6, <4>6 DEF close
        <5>2. ~Complete(recv_mbuf[c])
          <6>1. step # "parse"
            BY <3>6 DEF close, visiting
          <6> QED BY <6>1 DEF Drained, Apart
        <5>3. Cut(c)'
          BY <2>1, <2>3, <4>6, <5>1, <5>2, NewCut
        <5>4. Len(out'[c]) \in {n, n + 1} /\ taken'[c] = n
          BY <4>1, <4>3, <4>4, <5>1, OneReply
        <5> QED BY <2>6, <4>1, <5>3, <5>4 DEF AllSent
      <4> QED BY <4>5, <4>6
    <3> QED BY <1>4, <3>1, <3>2, <3>3, <3>4, <3>5, <3>6 DEF visit
  <2> QED BY <2>5, <2>6
<1> QED BY <1>2, <1>3, <1>4 DEF Next, Server

-----------------------------------------------------------------------------
(* Where each connection is in its client's script, which requests were    *)
(* handled, and what was sent before the end.                              *)
Stream == Connections /\ Marks /\ Replies /\ Flow /\ InOrder /\ Drained /\ Flushed

(* All this holds at first, and every step keeps it. *)
THEOREM StreamInvariant == Spec => []Stream
<1>1. Init => Stream
  <2> SUFFICES ASSUME Init PROVE InOrder /\ Drained /\ Flushed
    BY CircletAssumption, ConnectionsInit, RepliesInit, FlowInit DEF Init, Marks, Stream
  <2>1. \A c \in Conn : /\ handled[c] = <<>> /\ flags[c] = {} /\ state[c] = "none"
                        /\ recv_mbuf[c] = <<>>
    BY DEF Init
  <2>2. \A c \in Conn : Len(handled[c]) = 0
    BY <2>1
  <2>3. \A c \in Conn : 1 .. Len(handled[c]) = {}
    BY <2>2
  <2>4. ~Complete(<<>>)
    BY DEF Complete, Headed, Ends
  <2> QED BY <2>1, <2>3, <2>4 DEF InOrder, Flushed, Drained
<1>2. Stream /\ [Next]_vars => Stream'
  BY ConnectionsStep, MarksStep, RepliesStep, FlowStep, InOrderStep, DrainedStep, FlushedStep
     DEF Stream
<1> QED BY <1>1, <1>2, PTL DEF Spec

(* For any number of clients and any requests they send, however the bytes *)
(* are cut up and whenever a client leaves: the requests of a connection   *)
(* reach the loop of `server` in order, none twice and none left out, each *)
(* with its uri and the body it announced, which only the last one of a    *)
(* connection that is closed may miss.                                     *)
THEOREM RequestsStayInOrder == Spec => []RequestsInOrder
<1>1. Stream => RequestsInOrder
  <2> SUFFICES ASSUME Stream, NEW c \in Conn, NEW i \in DOMAIN handled[c]
               PROVE  \E l \in DOMAIN script[c] :
                        LET body == handled[c][i].body
                            need == script[c][l].need
                        IN
                        /\ script[c][l].kind = "line" /\ Cardinality(Lines(script[c], l)) = i
                        /\ handled[c][i].uri = script[c][l].uri
                        /\ \A j \in 1 .. Len(body) : j <= need => body[j] = Body
                        /\ Len(body) < need => state[c] = "closed" /\ i = Len(handled[c])
    BY DEF RequestsInOrder
  <2>1. i \in 1 .. Len(handled[c])
    BY LenProperties DEF Stream, Replies
  <2> QED BY <2>1 DEF Stream, InOrder, Meets
<1> QED BY <1>1, StreamInvariant, PTL

(* For any number of clients and sockets of any size: a connection whose   *)
(* client did not break it and sends what the server takes is closed with  *)
(* no reply, and no part of one, still to be sent, but the one to a        *)
(* request without all of its body.  mg_if_poll() waits for the buffer to  *)
(* be empty, and what mg_http_handler() hands over after that, while the   *)
(* connection is destroyed, is one request that is not complete.           *)
THEOREM RepliesAreSent == Spec => []SentBeforeClosed
<1>1. Stream => SentBeforeClosed
  BY DEF Stream, Flushed, AllSent, SentBeforeClosed
<1> QED BY <1>1, StreamInvariant, PTL
=============================================================================
