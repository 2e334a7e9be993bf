------------------------------- MODULE MCJson -------------------------------
(* Instances of JsonCodec and JsonString for TLC: one call of the codec on *)
(* a text or a value, or one pass over a string, character by character.   *)
EXTENDS JsonCodec, JsonString

(* While one of them runs the other is at rest, in a state with no value,  *)
(* text or string to say anything about.                                   *)
CodecAtRest ==
  /\ value = <<"nil">> /\ before = <<>> /\ buf = <<>> /\ state = "refused"
  /\ flags = [keywords |-> FALSE, nils |-> FALSE]
StringAtRest == phase = "done" /\ source = <<>> /\ c = 1 /\ text = <<>> /\ bytes = <<>>

JsonInit == (Init /\ StringAtRest) \/ (CodecAtRest /\ StringInit)
JsonNext == (Next /\ UNCHANGED stringVars) \/ (StringNext /\ UNCHANGED vars)
JsonSpec == JsonInit /\ [][JsonNext]_<<vars, stringVars>>

-----------------------------------------------------------------------------
(* For JsonCodec. *)

Alphabet == {BeginArray, EndArray, BeginObject, EndObject, Comma, Colon, White, <<"string", "a">>}

(* The brackets of an array around an array around ..., d deep. *)
Around(d) == [i \in 1 .. 2 * d |-> IF i <= d THEN BeginArray ELSE EndArray]

Member == <<BeginObject, <<"string", "a">>, Colon>>
NullTexts ==
  {<<Null>>, <<BeginArray, Null, EndArray>>, Member \o <<Null, EndObject>>,
   Member \o <<<<"true">>, Comma, <<"string", "a">>, Colon, Null, EndObject>>}

(* Two members, whatever stands between them and behind them. *)
Between    == UNION {[1 .. n -> {Comma, Colon, White}] : n \in 0 .. 2}
TwoMembers ==
  {Member \o <<Null>> \o x \o Tail(Member) \o <<Null>> \o y \o <<EndObject>> :
     x \in Between, y \in Between}

(* Zero bytes in a text, with what json/decode takes before them or behind. *)
Zeros == UNION {[1 .. n -> {Eos, BeginArray, EndArray, Comma, White}] : n \in 0 .. 5}

MCTexts  ==
  UNION {[1 .. n -> Alphabet] : n \in 0 .. 6}
    \cup {Around(d) : d \in 4 .. 6} \cup NullTexts \cup TwoMembers \cup Zeros
MCFlags  == {[keywords |-> x, nils |-> x] : x \in BOOLEAN}

MCLayouts == {[tab |-> 0, newline |-> 0], [tab |-> 1, newline |-> 2]}

(* A caller's buffer that is empty, and one that ends with a comma. *)
MCBuffers == {<<>>, <<BeginArray, Comma>>}

(* Arrays of up to two of A, and tables of A over two keys. *)
Arrays(A)    == {<<"array", s>> : s \in UNION {[1 .. n -> A] : n \in 0 .. 2}}
Tables(A, K) ==
  {<<"table", [k \in Key |-> IF k \in K THEN m[k] ELSE Nil]>> : m \in [K -> A \cup {Nil}]}

Keys     == {<<"string", "a">>, <<"string", "null">>}
Scalars  == {<<"number">>, <<"true">>, <<"string", "a">>}
Inner    == Arrays({<<"number">>}) \cup Tables({<<"string", "a">>}, Keys)

(* No text is made of a function, or of a table with a key that is none. *)
Textless == {<<"function">>} \cup Tables({<<"true">>}, {<<"number">>, <<"string", "a">>})

MCValues ==
  Scalars \cup Arrays(Scalars \cup Inner) \cup Tables({<<"number">>} \cup Inner, Keys)
    \cup Arrays(Textless \cup {<<"true">>}) \cup Tables(Textless, Keys)

(* The slots of a table in one order of the keys. *)
KeyOrder ==
  <<<<"string", "null">>, <<"string", "a">>, <<"keyword", "a">>, <<"keyword", "null">>,
    <<"number">>, <<"true">>, <<"false">>, <<"function">>>>
MCslots  == [K \in SUBSET Key |-> SelectSeq(KeyOrder, LAMBDA k : k \in K)]

-----------------------------------------------------------------------------
(* For JsonString. *)
UpTo(n, S) == UNION {[1 .. m -> S] : m \in 0 .. n}

(* The characters on both sides of every boundary in the two encodings.    *)
(* Of the four byte ones these have the last two bytes alike.              *)
Boundary ==
  {0, 31, 32, 34, 92, 127, 128, 2047, 2048, 55295, 57344, 65535, 65536, 1114111}
Utf8Strings == {FlattenSeq([i \in 1 .. Len(s) |-> utf8(s[i])]) : s \in UpTo(3, Boundary)}

(* A text of escapes: plain units, and surrogates of both kinds. *)
Units       == {65, 128, 2048, 55296, 56319, 56320, 57343, 65535}
EscapeTexts ==
  UpTo(3, {<<"u", n>> : n \in Units} \cup {<<"byte", 65>>, <<"byte", 10>>, <<"escape", 34>>})

(* What the theorem about ComesBack asks of the strings. *)
ASSUME Strings = Utf8Strings => \A s \in Strings : IsUtf8(s) /\ Alike(s)

(* U+1F600, whose last two bytes differ. *)
Emoji   == {<<240, 159, 152, 128>>}
Nothing == {}
=============================================================================
