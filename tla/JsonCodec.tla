----------------------------- MODULE JsonCodec -----------------------------
(***************************************************************************)
(* The structure of JSON as json/json.c reads and writes it: arrays,       *)
(* objects, commas, white space, the nesting limit and the two flags.  A   *)
(* text is a sequence of tokens, tagged tuples; JsonString has the bytes   *)
(* inside a string.                                                        *)
(*                                                                         *)
(* decode_one() and encode_one() are recursive in the code.  Here they are *)
(* functions of how much deeper they may go, and the loops over the parts  *)
(* of an array or an object functions of how many turns were made.         *)
(***************************************************************************)
EXTENDS Integers, Sequences, SequencesExt

CONSTANTS
  Name,     \* the byte sequences strings and keywords are made of
  Texts,    \* texts to decode
  Values,   \* Janet values to encode
  Guard,    \* JANET_RECURSION_GUARD
  Deep,     \* a bound on how deep the values a program encodes are nested
  slots,    \* the order of the slots of a table, for each set of keys
  Layouts,  \* the arguments of json/encode: [tab, newline], in white characters
  Buffers,  \* what the caller's buffer may hold before
  Flags     \* the flags of json/decode: [keywords, nils]

Tok(s) == <<s>>
Nil == Tok("nil")

BeginArray == Tok("[")
EndArray == Tok("]")
BeginObject == Tok("{")
EndObject == Tok("}")
Comma == Tok(",")
Colon == Tok(":")
White == Tok(" ")
Null == Tok("null")
Eos == Tok("eos")  \* a zero byte: one is behind every text, and others may be in it

Named(kinds) == kinds \X Name
Bytes == {"string", "keyword"}  \* the kinds of values that are byte sequences
Atoms == {"number", "true", "false", "null", "string"}

Token ==
  {BeginArray, EndArray, BeginObject, EndObject, Comma, Colon, White, Null, Eos}
    \cup {Tok("number"), Tok("true"), Tok("false")} \cup Named({"string"})

(* Janet values.  A table has nil for every key it does not have. *)
Key == {Tok("number"), Tok("true"), Tok("false"), Tok("function")} \cup Named(Bytes)

(* The values over some atoms, with parts among these and tables over      *)
(* some keys.                                                              *)
Built(atoms, keys, parts) ==
  atoms \cup ({"array"} \X Seq(parts))
    \cup ({"table"} \X {m \in [Key -> parts \cup {Nil}] : \A k \in Key \ keys : m[k] = Nil})

(* By how deep they are nested. *)
Nested(atoms, keys) ==
  LET nested[n \in 0 .. Deep] == Built(atoms, keys, IF n = 0 THEN {} ELSE nested[n - 1])
  IN  nested

Value(n) == Nested(Key \cup {Nil}, Key)[n]

ASSUME JsonAssumption ==
  /\ Guard \in Nat /\ Deep \in Nat /\ Guard <= Deep /\ "null" \in Name
  /\ Texts \subseteq Seq(Token) /\ Buffers \subseteq Seq(Token)
  /\ Values \subseteq Value(Deep)
  /\ \A K \in SUBSET Key :
       /\ slots[K] \in Seq(K) /\ \A k \in K : \E i \in 1 .. Len(slots[K]) : slots[K][i] = k
       /\ \A i, j \in 1 .. Len(slots[K]) : slots[K][i] = slots[K][j] => i = j
  /\ Layouts \subseteq [tab : Nat, newline : Nat]
  /\ Flags \subseteq [keywords : BOOLEAN, nils : BOOLEAN]

VARIABLES
  value,   \* the value json/encode is given, or what json/decode gave last
  before,  \* the caller's buffer before the call
  buf,     \* the text: the caller's buffer, or the argument of json/decode
  flags,   \* JSON_KEYWORD_KEY and JSON_NULL_TO_NIL
  state    \* "value" or "text" at first, then what was done last

vars == <<value, before, buf, flags, state>>

-----------------------------------------------------------------------------
(* Decoding.  p is a place in the text t, out what was made of it so far:  *)
(* all of a value, or the array or table the loop is at.                   *)

Places(t)       == 1 .. Len(t) + 1
At(t, p)        == IF p > Len(t) THEN Eos ELSE t[p]
Blank(t, i, j)  == \A k \in i .. j - 1 : t[k] = White
skipwhite(t, p) == CHOOSE q \in p .. Len(t) + 1 : Blank(t, p, q) /\ At(t, q) # White

fails         == [is |-> "error", p |-> 0, out |-> Nil]
more(p, out)  == [is |-> "more", p |-> p, out |-> out]
gives(p, out) == [is |-> "done", p |-> p, out |-> out]

null == IF flags.nils THEN Nil ELSE <<"keyword", "null">>

(* A mutant: the flag is not asked. *)
keyed_always(k) == <<"keyword", k[2]>>

(* The flag turns string keys into keywords. *)
keyed(k) == IF flags.keywords THEN <<"keyword", k[2]>> ELSE k

(* A nil value is not kept in a table, and takes the key with it. *)
janet_table_put(m, k, x) == [m EXCEPT ![k] = x]

(* A mutant: white space behind an item is not skipped. *)
decode_item_unskipped(deeper, t, s) ==
  IF At(t, s.p) = EndArray THEN gives(s.p + 1, s.out)
  ELSE LET x   == deeper[s.p]
           out == <<"array", Append(s.out[2], x.out)>>
       IN IF x.is = "error" THEN fails
          ELSE IF At(t, x.p) = EndArray THEN gives(x.p + 1, out)
          ELSE IF At(t, x.p) = Comma THEN more(x.p + 1, out)
          ELSE fails

(* A turn of the loop over an array, from its test on.  deeper[p] is what  *)
(* decode_one() gives at p, a level deeper.  A comma may be followed by    *)
(* the bracket, but not by white space and the bracket.                    *)
decode_item(deeper, t, s) ==
  IF At(t, s.p) = EndArray THEN gives(s.p + 1, s.out)
  ELSE LET x   == deeper[s.p]
           q   == skipwhite(t, x.p)
           out == <<"array", Append(s.out[2], x.out)>>
       IN IF x.is = "error" THEN fails
          ELSE IF At(t, q) = EndArray THEN gives(q + 1, out)
          ELSE IF At(t, q) = Comma THEN more(q + 1, out)
          ELSE fails

(* A mutant: the comma between members is not asked for. *)
decode_member_loose(deeper, t, s) ==
  IF At(t, s.p) = EndObject THEN gives(s.p + 1, s.out)
  ELSE LET name  == skipwhite(t, s.p)
           key   == deeper[name]
           colon == skipwhite(t, key.p)
           x     == deeper[colon + 1]
           q     == skipwhite(t, x.p)
           out   == <<"table", janet_table_put(s.out[2], keyed(key.out), x.out)>>
       IN IF At(t, name)[1] # "string" \/ key.is = "error" THEN fails
          ELSE IF At(t, colon) # Colon \/ x.is = "error" THEN fails
          ELSE IF At(t, q) = EndObject THEN gives(q + 1, out)
          ELSE IF At(t, q) = Comma THEN more(q + 1, out)
          ELSE more(q, out)

(* A turn of the loop over an object. *)
decode_member(deeper, t, s) ==
  IF At(t, s.p) = EndObject THEN gives(s.p + 1, s.out)
  ELSE LET name  == skipwhite(t, s.p)
           key   == deeper[name]
           colon == skipwhite(t, key.p)
           x     == deeper[colon + 1]
           q     == skipwhite(t, x.p)
           out   == <<"table", janet_table_put(s.out[2], keyed(key.out), x.out)>>
       IN IF At(t, name)[1] # "string" \/ key.is = "error" THEN fails
          ELSE IF At(t, colon) # Colon \/ x.is = "error" THEN fails
          ELSE IF At(t, q) = EndObject THEN gives(q + 1, out)
          ELSE IF At(t, q) = Comma THEN more(q + 1, out)
          ELSE fails

decode_part(deeper, t, s) ==
  IF s.is # "more" THEN s
  ELSE IF s.out[1] = "array" THEN decode_item(deeper, t, s)
  ELSE decode_member(deeper, t, s)

(* The loop, which makes a turn for a token at most. *)
decode_parts(deeper, t, p, empty) ==
  LET turn[i \in 0 .. Len(t) + 1] ==
        IF i = 0 THEN more(skipwhite(t, p), empty) ELSE decode_part(deeper, t, turn[i - 1])
  IN  turn[Len(t) + 1]

(* The switch, on the token at q. *)
decode_token(deeper, t, q) ==
  IF At(t, q) = Null THEN gives(q + 1, null)
  ELSE IF At(t, q)[1] \in Atoms THEN gives(q + 1, At(t, q))
  ELSE IF At(t, q) = BeginArray THEN decode_parts(deeper, t, q + 1, <<"array", <<>>>>)
  ELSE IF At(t, q) = BeginObject THEN decode_parts(deeper, t, q + 1, <<"table", [k \in Key |-> Nil]>>)
  ELSE fails

(* one[n][p] is what decode_one() gives at p when it may go n deep. *)
decode_one(t) ==
  LET one[n \in 0 .. Guard + 1] ==
        [p \in Places(t) |->
           IF n = 0 THEN fails ELSE decode_token(one[n - 1], t, skipwhite(t, p))]
  IN  one

(* json_decode(): nothing but white space may follow, up to a zero byte.   *)
(* What is behind that is not read.                                        *)
decoded(t) ==
  LET x == decode_one(t)[Guard + 1][1] IN
  IF x.is = "done" /\ At(t, skipwhite(t, x.p)) # Eos THEN fails ELSE x

-----------------------------------------------------------------------------
(* Encoding.  e is the Encoder of the code: lay has its tab and newline,   *)
(* and err says whether encode_one() has returned an error.                *)

Encoder == [buffer : Seq(Token), indent : Nat, err : BOOLEAN]

push(e, tok) == [e EXCEPT !.buffer = Append(@, tok)]
cannot(e)    == [e EXCEPT !.err = TRUE]

encode_newline(lay, e) ==
  [e EXCEPT !.buffer = @ \o [i \in 1 .. lay.newline + e.indent * lay.tab |-> White]]

indented(e, by) == [e EXCEPT !.indent = @ + by]

(* A mutant: any last byte is taken for the comma. *)
encode_close_blindly(lay, e, bracket) ==
  IF e.err THEN e
  ELSE push(encode_newline(lay, indented([e EXCEPT !.buffer = Front(@)], -1)), bracket)

(* The comma behind the last part is taken back before the bracket. *)
encode_close(lay, e, bracket) ==
  IF e.err THEN e
  ELSE IF Last(e.buffer) = Comma
  THEN push(encode_newline(lay, indented([e EXCEPT !.buffer = Front(@)], -1)), bracket)
  ELSE push(indented(e, -1), bracket)

(* deeper[x][e] is what encode_one() makes of e with x, a level deeper. *)
encode_item(lay, deeper, e, x) ==
  LET r == deeper[x][encode_newline(lay, e)] IN
  IF r.err THEN r ELSE push(r, Comma)

encode_member(lay, deeper, e, k, x) ==
  IF k[1] \notin Bytes THEN cannot(e)
  ELSE LET key == deeper[k][encode_newline(lay, e)]
           sep == IF lay.tab = 0 THEN push(key, Colon) ELSE push(push(key, Colon), White)
           r   == deeper[x][sep]
       IN IF key.err THEN key ELSE IF r.err THEN r ELSE push(r, Comma)

(* The items of an array, or the keys of a table in the order of its slots. *)
Parts(x) == IF x[1] = "array" THEN x[2] ELSE slots[{k \in Key : x[2][k] # Nil}]

encode_part(lay, deeper, e, x, y) ==
  IF e.err THEN e
  ELSE IF x[1] = "array" THEN encode_item(lay, deeper, e, y)
  ELSE encode_member(lay, deeper, e, y, x[2][y])

encode_parts(lay, deeper, e, x) ==
  LET turn[i \in 0 .. Len(Parts(x))] ==
        IF i = 0 THEN indented(e, 1)
        ELSE encode_part(lay, deeper, turn[i - 1], x, Parts(x)[i])
  IN  turn[Len(Parts(x))]

encode_brackets(lay, deeper, e, x, opening, closing) ==
  encode_close(lay, encode_parts(lay, deeper, push(e, opening), x), closing)

(* The switch, on the type of x. *)
encode_type(lay, deeper, e, x) ==
  IF x[1] = "nil" THEN push(e, Null)
  ELSE IF x[1] \in Bytes THEN push(e, <<"string", x[2]>>)
  ELSE IF x[1] \in Atoms THEN push(e, x)
  ELSE IF x[1] = "array" THEN encode_brackets(lay, deeper, e, x, BeginArray, EndArray)
  ELSE IF x[1] = "table" THEN encode_brackets(lay, deeper, e, x, BeginObject, EndObject)
  ELSE cannot(e)

(* one[n][x][e] is what encode_one() makes of e with x, nested n deep. *)
encode_one(lay) ==
  LET one[n \in 0 .. Deep] ==
        LET deeper == IF n = 0 THEN <<>> ELSE one[n - 1] IN
        [x \in Value(n) |-> [e \in Encoder |-> encode_type(lay, deeper, e, x)]]
  IN  one

-----------------------------------------------------------------------------
(* What a program does with the two functions: it encodes a value and      *)
(* decodes what was added to the buffer, or decodes a text, and encodes    *)
(* and decodes what it got.                                                *)

json_encode ==
  /\ state \in {"value", "decoded"}
  /\ \E lay \in Layouts :
       LET r == encode_one(lay)[Deep][value][[buffer |-> before, indent |-> 0, err |-> FALSE]]
       IN /\ buf' = r.buffer
          /\ state' = IF r.err THEN "refused" ELSE "encoded"
  /\ UNCHANGED <<value, before, flags>>

(* What was added to the caller's buffer. *)
Added == SubSeq(buf, Len(before) + 1, Len(buf))

json_decode ==
  /\ state \in {"text", "encoded"}
  /\ LET r == decoded(Added) IN
     /\ value' = IF r.is = "error" THEN value ELSE r.out
     /\ state' = IF r.is = "error" THEN "rejected" ELSE IF state = "text" THEN "decoded" ELSE "back"
  /\ UNCHANGED <<before, buf, flags>>

Init ==
  /\ flags \in Flags
  /\ \/ state = "text" /\ buf \in Texts /\ before = <<>> /\ value = Nil
     \/ state = "value" /\ value \in Values /\ before \in Buffers /\ buf = before

Next == json_encode \/ json_decode

Spec == Init /\ [][Next]_vars

-----------------------------------------------------------------------------
(* The grammar of JSON.  <<i, j>> is the stretch of t from its i-th token  *)
(* to the one before its j-th, and S a set of stretches.                   *)

(* One of S, with white space around it. *)
Spaced(t, i, j, S) ==
  \E k, l \in i .. j : Blank(t, i, k) /\ <<k, l>> \in S /\ Blank(t, l, j)

(* One or more of these, with commas between: C has the commas. *)
Listed(t, i, j, S) ==
  \E C \in SUBSET {k \in i .. j - 1 : t[k] = Comma} :
    \A a \in C \cup {i - 1}, b \in C \cup {j} :
      a < b /\ (\A k \in C : k <= a \/ b <= k) => Spaced(t, a + 1, b, S)

(* A string, a colon and one of S. *)
Members(t, S) ==
  {s \in Places(t) \X Places(t) :
     \E m \in s[1] + 1 .. s[2] - 1 : \E v \in m + 1 .. s[2] :
       /\ t[s[1]][1] = "string" /\ Blank(t, s[1] + 1, m) /\ t[m] = Colon
       /\ Blank(t, m + 1, v) /\ <<v, s[2]>> \in S}

(* What may stand between brackets.  lax: with a comma more at its end. *)
Body(t, i, j, S, lax) ==
  \/ Blank(t, i, j)
  \/ Listed(t, i, j, S)
  \/ lax /\ i < j /\ t[j - 1] = Comma /\ Listed(t, i, j - 1, S)

(* A value whose parts are in S. *)
JsonOver(t, S, lax) ==
  {s \in Places(t) \X Places(t) :
     \/ s[2] = s[1] + 1 /\ t[s[1]][1] \in Atoms
     \/ /\ s[2] > s[1] + 1
        /\ \/ /\ t[s[1]] = BeginArray /\ t[s[2] - 1] = EndArray
              /\ Body(t, s[1] + 1, s[2] - 1, S, lax)
           \/ /\ t[s[1]] = BeginObject /\ t[s[2] - 1] = EndObject
              /\ Body(t, s[1] + 1, s[2] - 1, Members(t, S), lax)}

(* The values in t, by how deep they are nested. *)
Json(t, lax) ==
  LET json[n \in 0 .. Deep] == JsonOver(t, IF n = 0 THEN {} ELSE json[n - 1], lax)
  IN  json

IsJson(t, n) == Spaced(t, 1, Len(t) + 1, Json(t, FALSE)[n])

(* What stands before the first zero byte, for there is none in a value,   *)
(* is JSON but for commas before brackets.                                 *)
IsNearJson(t, n) ==
  \E j \in Places(t) : At(t, j) = Eos /\ Spaced(t, 1, j, Json(t, TRUE)[n])

(* Every JSON text is decoded, with white space anywhere, unless it is     *)
(* nested deeper than the limit.  So is one with a comma right before a    *)
(* closing bracket, and one with anything behind a zero byte.              *)
AcceptsJson == state = "rejected" => ~IsNearJson(Added, Guard)

(* Nothing else is, and the recursion never goes deeper than the limit:    *)
(* of the text as far as the first zero byte.  "[]", a zero byte and "]]"  *)
(* are decoded as [] (json_decode(), json/json.c).                         *)
AcceptsOnlyJson == state \in {"decoded", "back"} => IsNearJson(Added, Guard)

(* The values json/decode can give under its flags, but for :null, which   *)
(* has a text of its own that json/encode does not write.                  *)
Plain ==
  Nested({Tok("number"), Tok("true"), Tok("false")} \cup Named({"string"})
           \cup (IF flags.nils THEN {Nil} ELSE {}),
         Named({IF flags.keywords THEN "keyword" ELSE "string"}))

(* Such a value comes back from its text as it was, however the text is    *)
(* laid out ("failed roundtrip", json/test/suite0.janet).                  *)
RoundTrip ==
  [][state = "encoded" /\ value \in Plain[Guard] /\ json_decode =>
       state' = "back" /\ value' = value]_vars

(* json/encode adds to the caller's buffer and takes back nothing but what *)
(* it added, and what it added is JSON.                                    *)
AppendsJson == IsPrefix(before, buf) /\ (state = "encoded" => IsJson(Added, Deep))
=============================================================================
