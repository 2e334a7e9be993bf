---------------------------- MODULE JsonString ----------------------------
(***************************************************************************)
(* Strings in json/json.c: encode_one() turns the bytes of a Janet string, *)
(* UTF-8 if all is well, into ASCII with \u escapes of UTF-16 units;       *)
(* decode_string() turns characters and escapes back into bytes.  One      *)
(* action is one turn of the code's loop.                                  *)
(*                                                                         *)
(* A text is a sequence of <<"byte", b>>, a byte as it stands,             *)
(* <<"escape", b>>, a backslash with one character that means b, and       *)
(* <<"u", n>>, a backslash, a u and the four hex digits of n.              *)
(***************************************************************************)
EXTENDS Integers, Sequences

CONSTANTS
  Strings,  \* byte sequences to encode
  Escapes   \* texts to decode

Below(n) == {i \in Nat : i < n}

Element == ({"byte", "escape"} \X Below(128)) \cup ({"u"} \X Below(65536))

ASSUME StringAssumption == Strings \subseteq Seq(Below(256)) /\ Escapes \subseteq Seq(Element)

VARIABLES
  phase,   \* "encode", "decode", "done", "refused"
  source,  \* the bytes given to the encoder, <<>> where a text is decoded
  c,       \* where the loop is: the next byte, or the next element of text
  text,    \* the text, that the encoder writes and the decoder reads
  bytes    \* what the decoder has written

stringVars == <<phase, source, c, text, bytes>>

-----------------------------------------------------------------------------
(* Masks and shifts, by the power of two they stand for. *)
Low(n, m)  == n % m
High(n, m) == n \div m

Continues(b) == High(b, 64) = 2

(* A mutant: the last lead byte of two is taken for one of three.          *)
Length_short(b) == IF b < 128 THEN 1 ELSE IF b < 223 THEN 2 ELSE IF b < 240 THEN 3 ELSE 4

(* The length encode_one() expects of a character that begins with b. *)
Length(b) == IF b < 128 THEN 1 ELSE IF b < 224 THEN 2 ELSE IF b < 240 THEN 3 ELSE 4

(* A mutant: the six bits of a three byte character's middle are dropped.  *)
codepoint_short(s) ==
  IF Len(s) = 1 THEN s[1]
  ELSE IF Len(s) = 2 THEN Low(s[1], 32) * 64 + Low(s[2], 64)
  ELSE IF Len(s) = 3 THEN Low(s[1], 16) * 4096 + Low(s[3], 64)
  ELSE Low(s[1], 8) * 262144 + Low(s[2], 64) * 4096 + Low(s[4], 64) * 64 + Low(s[4], 64)

(* The last byte of four is used twice, as in the code. *)
codepoint(s) ==
  IF Len(s) = 1 THEN s[1]
  ELSE IF Len(s) = 2 THEN Low(s[1], 32) * 64 + Low(s[2], 64)
  ELSE IF Len(s) = 3 THEN Low(s[1], 16) * 4096 + Low(s[2], 64) * 64 + Low(s[3], 64)
  ELSE Low(s[1], 8) * 262144 + Low(s[2], 64) * 4096 + Low(s[4], 64) * 64 + Low(s[4], 64)

Quote     == 34
Backslash == 92

(* What encode_one() writes for a codepoint. *)
written(n) ==
  IF n \in {Quote, Backslash} THEN <<<<"escape", n>>>>
  ELSE IF 32 <= n /\ n < 128 THEN <<<<"byte", n>>>>
  ELSE IF n < 65536 THEN <<<<"u", n>>>>
  ELSE <<<<"u", High(n - 65536, 1024) + 55296>>, <<"u", Low(n - 65536, 1024) + 56320>>>>

(* What decode_string() writes for one. *)
utf8(n) ==
  IF n <= 127 THEN <<n>>
  ELSE IF n <= 2047 THEN <<192 + Low(High(n, 64), 32), 128 + Low(n, 64)>>
  ELSE IF n <= 65535
    THEN <<224 + Low(High(n, 4096), 16), 128 + Low(High(n, 64), 64), 128 + Low(n, 64)>>
  ELSE <<240 + Low(High(n, 262144), 8), 128 + Low(High(n, 4096), 64),
         128 + Low(High(n, 64), 64), 128 + Low(n, 64)>>

-----------------------------------------------------------------------------
refuse == phase' = "refused" /\ UNCHANGED <<source, c, text, bytes>>

encode_char ==
  /\ phase = "encode" /\ c <= Len(source)
  /\ LET n == Length(source[c])
         s == SubSeq(source, c, c + n - 1)
     IN  IF \/ source[c] >= 248
            \/ c + n - 1 > Len(source)
            \/ \E i \in 2 .. n : ~Continues(s[i])
         THEN refuse
         ELSE /\ c' = c + n
              /\ text' = text \o written(codepoint(s))
              /\ UNCHANGED <<phase, source, bytes>>

encode_end ==
  /\ phase = "encode" /\ c > Len(source)
  /\ phase' = "decode" /\ c' = 1
  /\ UNCHANGED <<source, text, bytes>>

(* A byte as it stands.  Only control characters are looked at, so what is *)
(* not UTF-8 goes through.                                                 *)
decode_byte ==
  /\ phase = "decode" /\ c <= Len(text) /\ text[c][1] # "u"
  /\ IF text[c][1] = "byte" /\ text[c][2] < 32
     THEN refuse
     ELSE /\ bytes' = Append(bytes, text[c][2])
          /\ c' = c + 1
          /\ UNCHANGED <<phase, source, text>>

IsHigh(n) == 55296 <= n /\ n < 56320  \* 0xD800 .. 0xDBFF
IsLow(n)  == 56320 <= n /\ n < 57344  \* 0xDC00 .. 0xDFFF

takes(n, units) ==
  /\ bytes' = bytes \o utf8(n)
  /\ c' = c + units
  /\ UNCHANGED <<phase, source, text>>

(* A mutant: a low surrogate on its own is let through. *)
decode_escape_alone ==
  /\ phase = "decode" /\ c <= Len(text) /\ text[c][1] = "u"
  /\ LET n == text[c][2] IN
     IF ~IsHigh(n) THEN takes(n, 1)
     ELSE IF c < Len(text) /\ text[c + 1][1] = "u" /\ IsLow(text[c + 1][2])
     THEN takes((n - 55296) * 1024 + (text[c + 1][2] - 56320) + 65536, 2)
     ELSE refuse

decode_escape ==
  /\ phase = "decode" /\ c <= Len(text) /\ text[c][1] = "u"
  /\ LET n == text[c][2] IN
     IF IsLow(n) THEN refuse
     ELSE IF ~IsHigh(n) THEN takes(n, 1)
     ELSE IF c < Len(text) /\ text[c + 1][1] = "u" /\ IsLow(text[c + 1][2])
     THEN takes((n - 55296) * 1024 + (text[c + 1][2] - 56320) + 65536, 2)
     ELSE refuse

decode_end ==
  /\ phase = "decode" /\ c > Len(text)
  /\ phase' = "done"
  /\ UNCHANGED <<source, c, text, bytes>>

StringInit ==
  /\ c = 1 /\ bytes = <<>>
  /\ \/ phase = "encode" /\ source \in Strings /\ text = <<>>
     \/ phase = "decode" /\ source = <<>> /\ text \in Escapes

StringNext == encode_char \/ encode_end \/ decode_byte \/ decode_escape \/ decode_end

StringSpec == StringInit /\ [][StringNext]_stringVars

-----------------------------------------------------------------------------
(* The characters UTF-8 has, by the definition of the encoding: no longer  *)
(* form than is needed, and no surrogate.                                  *)
Trails(b) == 128 <= b /\ b < 192

IsUtf8Char(s) ==
  /\ s # <<>> /\ \A i \in 2 .. Len(s) : Trails(s[i])
  /\ \/ Len(s) = 1 /\ s[1] < 128
     \/ Len(s) = 2 /\ 194 <= s[1] /\ s[1] < 224
     \/ /\ Len(s) = 3 /\ 224 <= s[1] /\ s[1] < 240
        /\ s[1] = 224 => s[2] >= 160
        /\ s[1] = 237 => s[2] < 160
     \/ /\ Len(s) = 4 /\ 240 <= s[1] /\ s[1] < 245
        /\ s[1] = 240 => s[2] >= 144
        /\ s[1] = 244 => s[2] < 144

(* A sequence of them: every byte that does not continue a character       *)
(* begins one, and behind a character the next begins.                     *)
Begins(s, i) == i \in 1 .. Len(s) /\ ~Trails(s[i])

IsUtf8(s) ==
  /\ s # <<>> => Begins(s, 1)
  /\ \A i \in 1 .. Len(s) : Begins(s, i) =>
       \E n \in 1 .. 4 :
         /\ i + n <= Len(s) + 1 /\ IsUtf8Char(SubSeq(s, i, i + n - 1))
         /\ i + n <= Len(s) => Begins(s, i + n)

(* No character of four bytes has two different ones at its end. *)
Alike(s) == \A i \in 1 .. Len(s) : s[i] >= 240 => s[i + 2] = s[i + 3]

(* A byte sequence is refused or comes back as it was from the text it is  *)
(* encoded as ("failed roundtrip", json/test/suite0.janet).                *)
ComesBack == phase = "done" /\ source # <<>> => bytes = source

(* "Strings are encoded as UTF-8, and UTF-16 escapes and surrogates" are   *)
(* supported (json/README.md): whatever the escapes, and in whatever order *)
(* surrogates come, a text in ASCII is refused or decoded to UTF-8.        *)
DecodesToUtf8 == phase = "done" => IsUtf8(bytes)

(* What UTF-8 has is never refused, and what the encoder writes is ASCII.  *)
EncodesUtf8 ==
  /\ phase = "refused" /\ source # <<>> => ~IsUtf8(source)
  /\ source # <<>> => \A i \in 1 .. Len(text) : text[i][1] = "byte" => text[i][2] < 128
=============================================================================
